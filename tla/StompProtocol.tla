--------------------------- MODULE StompProtocol ---------------------------
(***************************************************************************)
(* StompProtocolImpl.process: what the thread of a connection does with a  *)
(* frame.  One action is one access to the shared registry or one write to *)
(* a socket; pc holds the access the thread makes next.  The label "read"  *)
(* is the loop around process, "dead" a thread that has ended.             *)
(***************************************************************************)
EXTENDS Connections

CONSTANT Frames   \* the frames clients send

ConnectFrames     == [command : {"CONNECT"}, login : Users, passcode : Passcodes]
SubscribeFrames   == [command : {"SUBSCRIBE"}, destination : Channels, id : SubIds]
UnsubscribeFrames == [command : {"UNSUBSCRIBE"}, id : SubIds]
SendFrames        == [command : {"SEND"}, destination : Channels]
DisconnectFrames  == [command : {"DISCONNECT"}]

ASSUME FramesAssumption ==
  /\ Frames \subseteq ConnectFrames \cup SubscribeFrames \cup UnsubscribeFrames
                        \cup SendFrames \cup DisconnectFrames
  /\ None \notin Frames

VARIABLES
  pc,              \* connection -> label of its thread
  frame,           \* connection -> the frame it processes or processed last
  count,           \* connection -> number of frames taken so far
  received,        \* connection -> the frames taken so far (history)
  shouldTerminate, \* connection -> flag of its protocol object
  messageID,       \* connection -> message counter of its protocol object
  victim,          \* connection -> login found by values().remove(..)
  todo             \* connection -> channels its sweep has still to visit

request == <<frame, count, received>>
locals  == <<shouldTerminate, messageID, victim, todo>>

At(c, label) == pc[c] = label

Goto(c, label) == pc' = [pc EXCEPT ![c] = label]

\* The frames the server writes.  n is the position of the request among the
\* frames of the connection: it stands for the receipt header, which clients
\* number in that order.
Connected(n)        == [command |-> "CONNECTED", n |-> n]
Receipt(n)          == [command |-> "RECEIPT", n |-> n]
Error(n)            == [command |-> "ERROR", n |-> n]
Message(ch, c, id)  == [command |-> "MESSAGE", destination |-> ch,
                        sender |-> c, messageID |-> id]

-----------------------------------------------------------------------------
\* Mutant: the flag is never set.
DispatchMutant(c, f) ==
  /\ frame' = [frame EXCEPT ![c] = f]
  /\ count' = [count EXCEPT ![c] = @ + 1]
  /\ received' = [received EXCEPT ![c] = @ \cup {f}]
  /\ Goto(c, CASE f.command = "CONNECT"     -> "userConnectedAlready"
               [] f.command = "DISCONNECT"  -> "sendReceipt"
               [] f.command = "UNSUBSCRIBE" -> "removeSubscription"
               [] f.command = "SUBSCRIBE"   -> "walkChannels"
               [] f.command = "SEND"        -> "findSubscription")
  /\ UNCHANGED <<shouldTerminate, messageID, victim, todo>>

\* process(message): the flag is set before the branch on the command.
Dispatch(c, f) ==
  /\ frame' = [frame EXCEPT ![c] = f]
  /\ count' = [count EXCEPT ![c] = @ + 1]
  /\ received' = [received EXCEPT ![c] = @ \cup {f}]
  /\ shouldTerminate' = [shouldTerminate EXCEPT ![c] = (f.command = "DISCONNECT")]
  /\ Goto(c, CASE f.command = "CONNECT"     -> "userConnectedAlready"
               [] f.command = "DISCONNECT"  -> "sendReceipt"
               [] f.command = "UNSUBSCRIBE" -> "removeSubscription"
               [] f.command = "SUBSCRIBE"   -> "walkChannels"
               [] f.command = "SEND"        -> "findSubscription")
  /\ UNCHANGED <<messageID, victim, todo>>

\* An exception nothing catches ends the thread; the try-with-resources of
\* run closes the socket and nothing else is cleaned up.
Die(c) ==
  /\ Goto(c, "dead")
  /\ open' = [open EXCEPT ![c] = FALSE]

-----------------------------------------------------------------------------
(***************************************************************************)
(* CONNECT: a check, a lookup and one or two updates, each a step.         *)
(***************************************************************************)
UserConnectedAlready(c) ==
  /\ At(c, "userConnectedAlready")
  /\ Goto(c, IF loggedInUsers[frame[c].login] # None
             THEN "sendError" ELSE "hasRegistered")
  /\ UNCHANGED <<activeClients, accounts, topics, sockets, request, locals>>

HasRegistered(c) ==
  /\ At(c, "hasRegistered")
  /\ Goto(c, IF users[frame[c].login] # None THEN "checkPasscode" ELSE "addUser")
  /\ UNCHANGED <<activeClients, accounts, topics, sockets, request, locals>>

CheckPasscode(c) ==
  /\ At(c, "checkPasscode")
  /\ Goto(c, IF users[frame[c].login] = frame[c].passcode
             THEN "logIn" ELSE "sendErrorTwice")
  /\ UNCHANGED <<activeClients, accounts, topics, sockets, request, locals>>

RegisterUser(c) ==
  /\ At(c, "addUser")
  /\ AddUser(frame[c].login, frame[c].passcode)
  /\ Goto(c, "logIn")
  /\ UNCHANGED <<activeClients, loggedInUsers, topics, sockets, request, locals>>

LogIn(c) ==
  /\ At(c, "logIn")
  /\ PutLogin(frame[c].login, c)
  /\ Goto(c, "sendConnected")
  /\ UNCHANGED <<activeClients, users, topics, sockets, request, locals>>

SendConnected(c) ==
  /\ At(c, "sendConnected")
  /\ Send(c, Connected(count[c]))
  /\ Goto(c, "read")
  /\ UNCHANGED <<activeClients, accounts, topics, open, request, locals>>

-----------------------------------------------------------------------------
(***************************************************************************)
(* toStringChannels, which SUBSCRIBE calls first and UNSUBSCRIBE when it   *)
(* has removed a subscription, walks through every channel's map.  A walk  *)
(* that returns changes nothing; of all the maps it visits, the steps      *)
(* below keep the one, any, whose iterator another thread may make throw.  *)
(***************************************************************************)
WalkChannels(c) ==
  /\ At(c, "walkChannels")
  /\ Goto(c, "walked")
  /\ \/ \E ch \in Channels : HasChannel(ch) /\ OpenIterator(c, ch)
     \/ (\A ch \in Channels : ~ HasChannel(ch)) /\ UNCHANGED iter
  /\ UNCHANGED <<activeClients, accounts, channelsSubscriptions, subscribers,
                 sockets, request, locals>>

WalkDone(c) ==
  /\ At(c, "walked")
  /\ CloseIterator(c)
  /\ Goto(c, IF frame[c].command = "SUBSCRIBE" THEN "findChannel" ELSE "sendReceipt")
  /\ UNCHANGED <<activeClients, accounts, channelsSubscriptions, subscribers,
                 sockets, request, locals>>

WalkFails(c) ==
  /\ At(c, "walked")
  /\ iter[c].left # {} /\ iter[c].stale
  /\ CloseIterator(c)
  /\ Die(c)
  /\ UNCHANGED <<activeClients, accounts, channelsSubscriptions, subscribers,
                 out, request, locals>>

-----------------------------------------------------------------------------
(***************************************************************************)
(* SUBSCRIBE.                                                              *)
(***************************************************************************)
FindChannel(c) ==
  /\ At(c, "findChannel")
  /\ Goto(c, IF HasChannel(frame[c].destination)
             THEN "findSubscriber" ELSE "createChannel")
  /\ UNCHANGED <<activeClients, accounts, topics, sockets, request, locals>>

FindSubscriber(c) ==
  /\ At(c, "findSubscriber")
  /\ Goto(c, IF IsSubscribed(frame[c].destination, c)
             THEN "sendError" ELSE "putSubscription")
  /\ UNCHANGED <<activeClients, accounts, topics, sockets, request, locals>>

\* Another thread is changing the same HashMap at this moment.
ConcurrentWriter(c, ch) ==
  \E k \in Conns \ {c} :
    \/ At(k, "putSubscription") /\ frame[k].destination = ch
    \/ At(k, "removeSubscription") /\ IsSubscribed(ch, k)
    \/ At(k, "sweep") /\ iter[k].channel = ch /\ SweepTarget \in iter[k].left

PutSubscription(c) ==
  LET ch == frame[c].destination IN
  /\ At(c, "putSubscription")
  /\ \/ SetEntry(ch, c, frame[c].id)
     \/ ConcurrentWriter(c, ch) /\ LoseEntry(ch)
  /\ Goto(c, "sendReceipt")
  /\ UNCHANGED <<activeClients, accounts, channelsSubscriptions, sockets,
                 request, locals>>

CreateChannel(c) ==
  /\ At(c, "createChannel")
  /\ CreateChannelMap(frame[c].destination, c, frame[c].id)
  /\ Goto(c, "sendReceipt")
  /\ UNCHANGED <<activeClients, accounts, iter, sockets, request, locals>>

-----------------------------------------------------------------------------
(***************************************************************************)
(* UNSUBSCRIBE: removes the first entry of the connection with that id.    *)
(***************************************************************************)
HoldsId(c, ch) == IsSubscribed(ch, c) /\ SameBox(MapOf(ch)[c], frame[c].id)

RemoveSubscription(c) ==
  /\ At(c, "removeSubscription")
  /\ \/ \E ch \in Channels : /\ HoldsId(c, ch)
                             /\ \/ SetEntry(ch, c, None)
                                \/ ConcurrentWriter(c, ch) /\ LoseEntry(ch)
                             /\ Goto(c, "walkChannels")
     \/ /\ \A ch \in Channels : ~ HoldsId(c, ch)
        /\ Goto(c, "sendError")
        /\ UNCHANGED <<subscribers, iter>>
  /\ UNCHANGED <<activeClients, accounts, channelsSubscriptions, sockets,
                 request, locals>>

-----------------------------------------------------------------------------
(***************************************************************************)
(* SEND: two lookups of the sender's subscription, then one write to each  *)
(* subscriber in the order of the iterator.                                *)
(***************************************************************************)
FindSubscription(c) ==
  /\ At(c, "findSubscription")
  /\ Goto(c, IF IsSubscribed(frame[c].destination, c)
             THEN "getSubscription" ELSE "sendErrorTwice")
  /\ UNCHANGED <<activeClients, accounts, topics, sockets, request, locals>>

\* Unboxing the null of an entry that disappeared since the lookup throws.
GetSubscription(c) ==
  /\ At(c, "getSubscription")
  /\ IF IsSubscribed(frame[c].destination, c)
     THEN Goto(c, "openBroadcast") /\ UNCHANGED open
     ELSE Die(c)
  /\ UNCHANGED <<activeClients, accounts, topics, out, request, locals>>

\* Mutant: messageID++ is forgotten.
OpenBroadcastMutant(c) ==
  /\ At(c, "openBroadcast")
  /\ OpenIterator(c, frame[c].destination)
  /\ Goto(c, "broadcast")
  /\ UNCHANGED <<activeClients, accounts, channelsSubscriptions, subscribers,
                 sockets, request, locals>>

OpenBroadcast(c) ==
  /\ At(c, "openBroadcast")
  /\ messageID' = [messageID EXCEPT ![c] = @ + 1]
  /\ OpenIterator(c, frame[c].destination)
  /\ Goto(c, "broadcast")
  /\ UNCHANGED <<activeClients, accounts, channelsSubscriptions, subscribers,
                 sockets, request, shouldTerminate, victim, todo>>

Broadcast(c) ==
  /\ At(c, "broadcast")
  /\ \E k \in iter[c].left :
       /\ Send(k, Message(frame[c].destination, c, messageID[c] - 1))
       /\ iter' = [iter EXCEPT ![c].left = @ \ {k}]
  /\ UNCHANGED <<activeClients, accounts, channelsSubscriptions, subscribers,
                 open, pc, request, locals>>

BroadcastFails(c) ==
  /\ At(c, "broadcast")
  /\ iter[c].left # {} /\ iter[c].stale
  /\ Die(c)
  /\ CloseIterator(c)
  /\ UNCHANGED <<activeClients, accounts, channelsSubscriptions, subscribers,
                 out, request, locals>>

BroadcastDone(c) ==
  /\ At(c, "broadcast")
  /\ iter[c].left = {}
  /\ CloseIterator(c)
  /\ Goto(c, "read")
  /\ UNCHANGED <<activeClients, accounts, channelsSubscriptions, subscribers,
                 sockets, request, locals>>

-----------------------------------------------------------------------------
(***************************************************************************)
(* Replies, and the end of a session: DISCONNECT sends its receipt and     *)
(* calls disconnect; every error branch sends ERROR (the wrong passcode    *)
(* and the SEND to a channel not subscribed send it twice), closes the     *)
(* socket, calls disconnect and removes the connection.                    *)
(***************************************************************************)
SendReceipt(c) ==
  /\ At(c, "sendReceipt")
  /\ Send(c, Receipt(count[c]))
  /\ Goto(c, IF frame[c].command = "DISCONNECT" THEN "findLogin" ELSE "read")
  /\ UNCHANGED <<activeClients, accounts, topics, open, request, locals>>

SendErrorTwice(c) ==
  /\ At(c, "sendErrorTwice")
  /\ Send(c, Error(count[c]))
  /\ Goto(c, "sendError")
  /\ UNCHANGED <<activeClients, accounts, topics, open, request, locals>>

\* Mutant: an error branch that does not close the connection.
SendErrorMutant(c) ==
  /\ At(c, "sendError")
  /\ Send(c, Error(count[c]))
  /\ Goto(c, "read")
  /\ UNCHANGED <<activeClients, accounts, topics, open, request, locals>>

SendError(c) ==
  /\ At(c, "sendError")
  /\ Send(c, Error(count[c]))
  /\ Goto(c, "close")
  /\ UNCHANGED <<activeClients, accounts, topics, open, request, locals>>

CloseSocket(c) ==
  /\ At(c, "close")
  /\ open' = [open EXCEPT ![c] = FALSE]
  /\ Goto(c, "findLogin")
  /\ UNCHANGED <<activeClients, accounts, topics, out, request, locals>>

\* The iterator of channelsSubscriptions.keySet() visits the channels there
\* are now and may visit channels that appear later.
BeginSweep(c) ==
  \E S \in SUBSET Channels :
    /\ {ch \in Channels : HasChannel(ch)} \subseteq S
    /\ todo' = [todo EXCEPT ![c] = S]

\* loggedInUsers.values().remove(connectionId): the iterator of the values
\* finds an entry ...
FindLogin(c) ==
  /\ At(c, "findLogin")
  /\ \/ \E u \in Users : /\ loggedInUsers[u] = c
                         /\ victim' = [victim EXCEPT ![c] = u]
                         /\ Goto(c, "dropLogin")
                         /\ UNCHANGED todo
     \/ /\ \A u \in Users : loggedInUsers[u] # c
        /\ BeginSweep(c)
        /\ Goto(c, "sweep")
        /\ UNCHANGED victim
  /\ UNCHANGED <<activeClients, accounts, topics, sockets, request,
                 shouldTerminate, messageID>>

\* Mutant: the entry is found and not removed.
DropLoginMutant(c) ==
  /\ At(c, "dropLogin")
  /\ victim' = [victim EXCEPT ![c] = None]
  /\ BeginSweep(c)
  /\ Goto(c, "sweep")
  /\ UNCHANGED <<activeClients, accounts, topics, sockets, request,
                 shouldTerminate, messageID>>

\* ... and then removes the key of that entry, whatever its value is by now.
DropLogin(c) ==
  /\ At(c, "dropLogin")
  /\ PutLogin(victim[c], None)
  /\ victim' = [victim EXCEPT ![c] = None]
  /\ BeginSweep(c)
  /\ Goto(c, "sweep")
  /\ UNCHANGED <<activeClients, users, topics, sockets, request,
                 shouldTerminate, messageID>>

\* Mutant: the loop does not advance to the next channel.
SweepChannelMutant(c) ==
  /\ At(c, "sweep")
  /\ iter[c].left = {}
  /\ \E ch \in todo[c] :
       IF HasChannel(ch) THEN OpenIterator(c, ch) ELSE CloseIterator(c)
  /\ UNCHANGED <<activeClients, accounts, channelsSubscriptions, subscribers,
                 sockets, pc, request, locals>>

SweepChannel(c) ==
  /\ At(c, "sweep")
  /\ iter[c].left = {}
  /\ \E ch \in todo[c] :
       /\ todo' = [todo EXCEPT ![c] = @ \ {ch}]
       /\ IF HasChannel(ch) THEN OpenIterator(c, ch) ELSE CloseIterator(c)
  /\ UNCHANGED <<activeClients, accounts, channelsSubscriptions, subscribers,
                 sockets, pc, request, shouldTerminate, messageID, victim>>

\* A ConcurrentModificationException in disconnect: the error branches catch
\* it, before removeConnection; the DISCONNECT branch does not.
SweepThrows(c) ==
  /\ IF frame[c].command = "DISCONNECT"
     THEN Die(c) ELSE Goto(c, "read") /\ UNCHANGED open
  /\ todo' = [todo EXCEPT ![c] = {}]

\* One turn of the inner loop: nothing, unless the subscriber is the handler
\* registered under the static counter.  After remove the iterator throws if
\* it has another element.
SweepSubscriber(c) ==
  LET ch == iter[c].channel
      m  == iter[c].map
  IN
  /\ At(c, "sweep")
  /\ \E k \in iter[c].left :
       LET left == iter[c].left \ {k} IN
       IF k = SweepTarget
       THEN /\ subscribers' = [subscribers EXCEPT ![ch][m][k] = None]
            /\ iter' = [Stale(ch, m) EXCEPT ![c] = NoIterator]
            /\ IF left # {} THEN SweepThrows(c) ELSE UNCHANGED <<pc, open, todo>>
       ELSE /\ iter' = [iter EXCEPT ![c] =
                          IF left = {} THEN NoIterator ELSE [@ EXCEPT !.left = left]]
            /\ UNCHANGED <<subscribers, pc, open, todo>>
  /\ UNCHANGED <<activeClients, accounts, channelsSubscriptions, out, request,
                 shouldTerminate, messageID, victim>>

SweepFails(c) ==
  /\ At(c, "sweep")
  /\ iter[c].left # {} /\ iter[c].stale
  /\ CloseIterator(c)
  /\ SweepThrows(c)
  /\ UNCHANGED <<activeClients, accounts, channelsSubscriptions, subscribers,
                 out, request, shouldTerminate, messageID, victim>>

SweepDone(c) ==
  /\ At(c, "sweep")
  /\ todo[c] = {} /\ iter[c].left = {}
  /\ CloseIterator(c)
  /\ Goto(c, IF frame[c].command = "DISCONNECT" THEN "read" ELSE "removeConnection")
  /\ UNCHANGED <<activeClients, accounts, channelsSubscriptions, subscribers,
                 sockets, request, locals>>

Unregister(c) ==
  /\ At(c, "removeConnection")
  /\ RemoveConnection(c)
  /\ shouldTerminate' = [shouldTerminate EXCEPT ![c] = TRUE]
  /\ Goto(c, "read")
  /\ UNCHANGED <<accounts, topics, sockets, request, messageID, victim, todo>>

-----------------------------------------------------------------------------
Connect(c) ==
  UserConnectedAlready(c) \/ HasRegistered(c) \/ CheckPasscode(c)
    \/ RegisterUser(c) \/ LogIn(c) \/ SendConnected(c)

ToStringChannels(c) == WalkChannels(c) \/ WalkDone(c) \/ WalkFails(c)

Subscribe(c) ==
  FindChannel(c) \/ FindSubscriber(c) \/ PutSubscription(c) \/ CreateChannel(c)

SendReport(c) ==
  FindSubscription(c) \/ GetSubscription(c) \/ OpenBroadcast(c) \/ Broadcast(c)
    \/ BroadcastFails(c) \/ BroadcastDone(c)

Reply(c) == SendReceipt(c) \/ SendErrorTwice(c) \/ SendError(c)

EndSession(c) ==
  CloseSocket(c) \/ FindLogin(c) \/ DropLogin(c) \/ SweepChannel(c)
    \/ SweepSubscriber(c) \/ SweepFails(c) \/ SweepDone(c) \/ Unregister(c)

\* The steps of a call of process.
Process(c) ==
  Connect(c) \/ ToStringChannels(c) \/ Subscribe(c) \/ RemoveSubscription(c) \/ SendReport(c)
    \/ Reply(c) \/ EndSession(c)

ProtocolInit ==
  /\ pc = [c \in Conns |-> "new"]
  /\ frame = [c \in Conns |-> None]
  /\ count = [c \in Conns |-> 0]
  /\ received = [c \in Conns |-> {}]
  /\ shouldTerminate = [c \in Conns |-> FALSE]
  /\ messageID = [c \in Conns |-> 0]
  /\ victim = [c \in Conns |-> None]
  /\ todo = [c \in Conns |-> {}]
=============================================================================
