----------------------------- MODULE TpcServer -----------------------------
(***************************************************************************)
(* The thread-per-client server: the accept loop (BaseServer.serve), one   *)
(* thread per connection (BlockingConnectionHandler.run) that reads frames *)
(* and processes them (StompProtocol), and the registry they share         *)
(* (Connections).  Clients send any frames, and drop their connection, at  *)
(* any time.                                                               *)
(***************************************************************************)
EXTENDS StompProtocol, Selections

VARIABLE acceptor   \* the accept loop: "accept", or "increment" the counter

vars == <<connectionID, activeClients, accounts, topics, sockets, pc, request,
          locals, acceptor>>

Init ==
  /\ ConnectionsInit
  /\ ProtocolInit
  /\ acceptor = "accept"

-----------------------------------------------------------------------------
\* accept, the handler's constructor, which adds it to the active clients,
\* and the start of its thread: until then no other thread can meet the
\* handler, so these are one step.
Accept ==
  /\ acceptor = "accept"
  /\ connectionID < MaxConnections
  /\ AddConnection(connectionID)
  /\ open' = [open EXCEPT ![connectionID] = TRUE]
  /\ Goto(connectionID, "read")
  /\ acceptor' = "increment"
  /\ UNCHANGED <<connectionID, accounts, topics, out, request, locals>>

\* connectionID++, while the new thread already runs.
Increment ==
  /\ acceptor = "increment"
  /\ connectionID' = connectionID + 1
  /\ acceptor' = "accept"
  /\ UNCHANGED <<activeClients, accounts, topics, sockets, pc, request, locals>>

-----------------------------------------------------------------------------
\* The loop of run goes on: neither the protocol nor close() has ended it.
Reading(c) == At(c, "read") /\ ~ shouldTerminate[c] /\ open[c]

Receive(c) ==
  /\ Reading(c)
  /\ count[c] < MaxFrames
  /\ \E f \in Frames : Dispatch(c, f)
  /\ UNCHANGED <<connectionID, activeClients, accounts, topics, sockets, acceptor>>

\* The loop ends, and with it the try-with-resources.
Exit(c) ==
  /\ At(c, "read")
  /\ shouldTerminate[c] \/ ~ open[c]
  /\ Die(c)
  /\ UNCHANGED <<connectionID, activeClients, accounts, topics, out, request,
                 locals, acceptor>>

\* End of stream, an IOException, or a frame whose parsing throws.
Abort(c) ==
  /\ Reading(c)
  /\ Die(c)
  /\ UNCHANGED <<connectionID, activeClients, accounts, topics, out, request,
                 locals, acceptor>>

ProcessStep(c) == Process(c) /\ UNCHANGED <<connectionID, acceptor>>

\* The bounds are reached and every connection has ended.
Quiescent ==
  /\ acceptor = "accept"
  /\ connectionID = MaxConnections
  /\ \A c \in Conns : At(c, "dead")
  /\ UNCHANGED vars

Next ==
  \/ Accept
  \/ Increment
  \/ \E c \in Conns : Receive(c) \/ Exit(c) \/ Abort(c) \/ ProcessStep(c)
  \/ Quiescent

Spec == Init /\ [][Next]_vars

\* A thread that can run does.  Nothing is assumed of the clients: no frame,
\* and no end of a connection, has to arrive.  A write to a client's socket
\* is taken to return, that is, clients go on reading.
Fairness ==
  /\ WF_vars(Increment)
  /\ \A c \in Conns : WF_vars(Exit(c) \/ ProcessStep(c))

FairSpec == Spec /\ Fairness

-----------------------------------------------------------------------------
Labels == {"new", "read", "dead", "userConnectedAlready", "hasRegistered",
           "checkPasscode", "addUser", "logIn", "sendConnected", "walkChannels",
           "walked", "findChannel", "findSubscriber", "putSubscription",
           "createChannel", "removeSubscription", "findSubscription",
           "getSubscription", "openBroadcast", "broadcast", "sendReceipt",
           "sendErrorTwice", "sendError", "close", "findLogin", "dropLogin",
           "sweep", "removeConnection"}

ReplyFrames == [command : {"CONNECTED", "RECEIPT", "ERROR"}, n : Nat]

MessageFrames == [command : {"MESSAGE"}, destination : Channels,
                  sender : Conns, messageID : Nat]

Iterators == [channel : Channels \cup {None}, map : Conns \cup {None},
              left : SUBSET Conns, stale : BOOLEAN]

TablesOK ==
  /\ activeClients \subseteq Conns
  /\ channelsSubscriptions \in [Channels -> Conns \cup {None}]
  /\ subscribers \in [Channels -> [Conns -> [Conns -> SubIds \cup {None}]]]
  /\ users \in [Users -> Passcodes \cup {None}]
  /\ loggedInUsers \in [Users -> Conns \cup {None}]

SocketsOK ==
  /\ iter \in [Conns -> Iterators]
  /\ open \in [Conns -> BOOLEAN]
  /\ out \in [Conns -> Seq(ReplyFrames \cup MessageFrames)]

RequestsOK ==
  /\ pc \in [Conns -> Labels]
  /\ frame \in [Conns -> Frames \cup {None}]
  /\ count \in [Conns -> 0 .. MaxFrames]
  /\ received \in [Conns -> SUBSET Frames]

LocalsOK ==
  /\ shouldTerminate \in [Conns -> BOOLEAN]
  /\ messageID \in [Conns -> Nat]
  /\ victim \in [Conns -> Users \cup {None}]
  /\ todo \in [Conns -> SUBSET Channels]

\* The type of every variable.
TypeOK ==
  /\ connectionID \in 0 .. MaxConnections
  /\ acceptor \in {"accept", "increment"}
  /\ TablesOK /\ SocketsOK /\ RequestsOK /\ LocalsOK

-----------------------------------------------------------------------------
(***************************************************************************)
(* Safety.                                                                 *)
(***************************************************************************)
IsMessage(k, i) == out[k][i].command = "MESSAGE"

\* The reports one sender broadcasts reach a receiver in the order they were
\* sent and each at most once, whatever other senders, subscribers that come
\* and go, and logouts interleave (send(channel, ..) writes from the sender's
\* own thread, with its own message counter).
SenderOrder ==
  \A k \in Conns : \A i, j \in DOMAIN out[k] :
    /\ i < j
    /\ IsMessage(k, i) /\ IsMessage(k, j)
    /\ out[k][i].sender = out[k][j].sender
    => out[k][i].messageID < out[k][j].messageID

Asked(c, ch) ==
  \E f \in received[c] : f.command = "SUBSCRIBE" /\ f.destination = ch

\* A report is written only to a client that asked for the channel, and only
\* because a client that had asked for the channel itself sent it: neither a
\* map that was replaced nor an iterator that went stale leads a message
\* anywhere else (getUserSubID, send(channel, ..)).
DeliveredOnlyToSubscribers ==
  \A k \in Conns : \A i \in DOMAIN out[k] : IsMessage(k, i) =>
    /\ Asked(k, out[k][i].destination)
    /\ Asked(out[k][i].sender, out[k][i].destination)

\* While a broadcast goes on over a map nobody has changed under it, each
\* subscriber in that map is still to be visited, or has got this message, or
\* was closed: no subscriber is skipped, and the sender is one of them.
BroadcastReachesSubscribers ==
  \A c \in Conns : At(c, "broadcast") /\ ~ iter[c].stale =>
    \A k \in Conns : subscribers[iter[c].channel][iter[c].map][k] # None =>
      \/ k \in iter[c].left
      \/ ~ open[k]
      \/ \E i \in DOMAIN out[k] :
            out[k][i] = Message(iter[c].channel, c, messageID[c] - 1)

\* The connections whose disconnect is past the removal of the login.
LoggedOut(c) ==
  \/ pc[c] \in {"sweep", "removeConnection"}
  \/ pc[c] \in {"read", "dead"} /\ shouldTerminate[c]

\* disconnect frees the login (loggedInUsers.values().remove): a connection
\* that logged in under one name is nobody's login once it has logged out or
\* was refused, even when several connections raced for that name and the
\* entry was overwritten and removed in between.
CleanLogout ==
  \A c \in Conns :
    /\ LoggedOut(c)
    /\ \A f, g \in received[c] :
         f.command = "CONNECT" /\ g.command = "CONNECT" => f.login = g.login
    => \A u \in Users : loggedInUsers[u] # c

-----------------------------------------------------------------------------
(***************************************************************************)
(* Each connection, seen by its client, is a session (module Sessions):    *)
(* what is written to it, but for the broadcasts, is one answer to one     *)
(* request, in order.                                                      *)
(***************************************************************************)
\* What is left of the frames s without the broadcasts.
RepliesIn(s) ==
  IF \A i \in DOMAIN s : s[i].command # "MESSAGE" THEN s
  ELSE Selected(s, {i \in DOMAIN s : s[i].command # "MESSAGE"})

Replies(c) == RepliesIn(out[c])

LastReply(c) == LET r == Replies(c) IN r[Len(r)]

Answered(c) == LET r == Replies(c) IN r # << >> /\ r[Len(r)].n = count[c]

Ended(c) ==
  LET r == Replies(c) IN
  /\ r # << >>
  /\ r[Len(r)].n = count[c]
  /\ r[Len(r)].command = "ERROR" \/ frame[c].command = "DISCONNECT"

Phase(c) ==
  IF At(c, "dead") THEN "closed"
  ELSE IF Ended(c) THEN "ending"
  ELSE IF pc[c] \in {"new", "read"} THEN "idle" ELSE "busy"

S == INSTANCE Sessions WITH
       phase   <- [c \in Conns |-> Phase(c)],
       command <- [c \in Conns |-> IF frame[c] = None THEN "none" ELSE frame[c].command],
       taken   <- count,
       replies <- [c \in Conns |-> Replies(c)]

\* The server implements Sessions: requests are answered one at a time,
\* in order, and nothing but broadcasts follows an ERROR or the receipt of a
\* DISCONNECT (process is called by one thread per connection, and every
\* branch of it replies before the next frame is read).
SessionsImplemented == S!Spec

-----------------------------------------------------------------------------
(***************************************************************************)
(* Liveness, under FairSpec.                                               *)
(***************************************************************************)
\* Every frame that is taken is processed to its end: no thread waits for
\* another one for ever, and no iteration over a shared map goes on without
\* end while others subscribe and unsubscribe.
RequestsComplete ==
  \A c \in Conns : pc[c] \notin {"new", "read", "dead"} ~> pc[c] \in {"read", "dead"}

\* A connection that logged out, or was sent an ERROR, ends: also when the
\* cleanup fails half-way with an exception that the error branch swallows.
SessionEnds ==
  \A c \in Conns :
    \/ frame[c] # None /\ frame[c].command = "DISCONNECT"
    \/ \E i \in DOMAIN out[c] : out[c][i].command = "ERROR"
    ~> At(c, "dead")

-----------------------------------------------------------------------------
(***************************************************************************)
(* What comments of the code say of it and the code does not do.           *)
(***************************************************************************)
\* "Removing the user from loggedIn & the user's subscription": a client that
\* logged out has no subscription left.
LogoutDropsSubscriptions ==
  \A c \in Conns :
    At(c, "dead") /\ shouldTerminate[c] => \A ch \in Channels : ~ IsSubscribed(ch, c)

\* "Managed to add the subscription": a client whose SUBSCRIBE was answered
\* with a receipt, and which sent nothing since, is subscribed.
ReceiptedSubscriptionStands ==
  \A c \in Conns :
    /\ At(c, "read") /\ Answered(c)
    /\ frame[c].command = "SUBSCRIBE" /\ LastReply(c).command = "RECEIPT"
    => IsSubscribed(frame[c].destination, c)

\* "User is already connected to a different client": a login is refused only
\* while the connection that holds the user exists.
RefusedOnlyIfConnectedElsewhere ==
  [][\A c \in Conns :
       At(c, "userConnectedAlready") /\ pc'[c] = "sendError"
         => ~ At(loggedInUsers[frame[c].login], "dead")]_vars
=============================================================================
