---------------------------- MODULE SessionProofs ----------------------------
(***************************************************************************)
(* Theorems about what the two ends of a session make of each other's      *)
(* frames, for every number of connections, frames and lines, every set of *)
(* channels and ids: the client finds the command of every receipt, and    *)
(* the subscriptions it keeps before they are confirmed are those the      *)
(* server comes to, so the server refuses nothing it sends, and what a     *)
(* user reports is what comes back and is stored.                          *)
(***************************************************************************)
EXTENDS PlatformProofs

Receipted == {"SUBSCRIBE", "UNSUBSCRIBE", "DISCONNECT"}

\* The frame a thread works on is the one that was taken last.
RequestsMatch ==
  \A c \in Conns :
    /\ count[c] <= Len(sent[c])
    /\ count[c] # 0 => frame[c] = sent[c][count[c]].frame
    /\ Working(c) => count[c] # 0
    /\ pc[c] = "sendReceipt" => frame[c].command \in Receipted

\* An answer has the position of a frame that was taken, a receipt that of a
\* frame with a receipt number.
AnswersMatch ==
  \A c \in Conns : \A i \in DOMAIN out[c] :
    /\ out[c][i].command \in {"RECEIPT", "ERROR"} => out[c][i].n \in 1 .. count[c]
    /\ out[c][i].command = "RECEIPT" => sent[c][out[c][i].n].frame.command \in Receipted

NewIsEmpty ==
  \A c \in Conns : ~ Accepted(c) =>
    /\ pc[c] = "new" /\ ~ open[c] /\ out[c] = << >>
    /\ \A ch \in Channels, m \in Conns : subscribers[ch][m][c] = None

LogoutFlag ==
  \A c \in Conns : count[c] # 0 /\ frame[c].command = "DISCONNECT" => shouldTerminate[c]

RequestInv == RequestsMatch /\ AnswersMatch /\ NewIsEmpty /\ LogoutFlag

\* The numbers that were sent are entered under the command they went with.
ReceiptsEntered ==
  main = "session" =>
    \A i \in DOMAIN sent[conn] : sent[conn][i].frame.command \in Receipted =>
      /\ sent[conn][i].receipt \in 0 .. Len(receipts) - 1
      /\ receipts[sent[conn][i].receipt + 1] = sent[conn][i].frame.command

LastReceiptFits ==
  keyboard = "send" /\ line.verb # "report" =>
    receipts[Len(receipts)] = Client!CommandOf(line.verb)

ReceiptRead ==
  socket = "findReceipt" =>
    \E i \in DOMAIN sent[conn] :
      /\ sent[conn][i].receipt = answer.receipt
      /\ sent[conn][i].frame.command \in Receipted

ReceiptInv == ReceiptsEntered /\ LastReceiptFits /\ ReceiptRead

-----------------------------------------------------------------------------
(***************************************************************************)
(* What the steps of process have in common.                               *)
(***************************************************************************)
LEMMA ServerTypes ==
  ASSUME TypeOK
  PROVE  /\ pc \in [Conns -> Labels] /\ frame \in [Conns -> Frames \cup {None}]
         /\ count \in [Conns -> 0 .. MaxFrames] /\ open \in [Conns -> BOOLEAN]
         /\ out \in [Conns -> Seq(ReplyFrames \cup MessageFrames)]
         /\ shouldTerminate \in [Conns -> BOOLEAN]
         /\ channelsSubscriptions \in [Channels -> Conns \cup {None}]
         /\ subscribers \in [Channels -> [Conns -> [Conns -> SubIds \cup {None}]]]
  BY DEF TypeOK, TablesOK, SocketsOK, RequestsOK, LocalsOK

LEMMA ProcessRequest ==
  ASSUME NEW c \in Conns, Process(c)
  PROVE  UNCHANGED <<frame, count>> /\ Working(c)
<1> USE DEF request, At, Working
<1>1. CASE Connect(c)
  BY <1>1 DEF Connect, UserConnectedAlready, HasRegistered, CheckPasscode, RegisterUser,
              LogIn, SendConnected
<1>2. CASE ToStringChannels(c) \/ Subscribe(c) \/ RemoveSubscription(c)
  BY <1>2 DEF ToStringChannels, WalkChannels, WalkDone, WalkFails, Subscribe, FindChannel,
              FindSubscriber, PutSubscription, CreateChannel, RemoveSubscription
<1>3. CASE SendReport(c) \/ Reply(c)
  BY <1>3 DEF SendReport, FindSubscription, GetSubscription, OpenBroadcast, Broadcast,
              BroadcastFails, BroadcastDone, Reply, SendReceipt, SendErrorTwice, SendError
<1>4. CASE EndSession(c)
  BY <1>4 DEF EndSession, CloseSocket, FindLogin, DropLogin, SweepChannel, SweepSubscriber,
              SweepFails, SweepDone, Unregister
<1> QED
  BY <1>1, <1>2, <1>3, <1>4 DEF Process

\* The thread moves itself only, and to a receipt only for a subscription.
Moves(c) ==
  /\ \A k \in Conns \ {c} : pc'[k] = pc[k]
  /\ pc'[c] # "new"
  /\ pc'[c] = "sendReceipt" => frame[c].command \in {"SUBSCRIBE", "UNSUBSCRIBE"}

LEMMA ProcessMoves ==
  ASSUME TypeInv, NEW c \in Conns, Process(c)
  PROVE  Moves(c)
<1>1. pc \in [Conns -> Labels]
  BY ServerTypes DEF TypeInv
<1>2. Fits(pc[c], frame[c])
  BY DEF TypeInv, FrameFits
<1>3. /\ pc[c] \in {"findChannel", "findSubscriber", "putSubscription", "createChannel"}
           => frame[c].command = "SUBSCRIBE"
      /\ pc[c] = "removeSubscription" => frame[c].command = "UNSUBSCRIBE"
      /\ pc[c] \in {"walkChannels", "walked"}
           => frame[c].command \in {"SUBSCRIBE", "UNSUBSCRIBE"}
  BY <1>2 DEF Fits, SubscribeFrames, UnsubscribeFrames
<1> USE <1>1 DEF At, Goto, Moves
<1>4. CASE Connect(c)
  BY <1>4 DEF Connect, UserConnectedAlready, HasRegistered, CheckPasscode, RegisterUser,
              LogIn, SendConnected
<1>5. CASE ToStringChannels(c) \/ Subscribe(c) \/ RemoveSubscription(c)
  BY <1>3, <1>5 DEF ToStringChannels, WalkChannels, WalkDone, WalkFails, Die, Subscribe,
              FindChannel, FindSubscriber, PutSubscription, CreateChannel, RemoveSubscription
<1>6. CASE SendReport(c) \/ Reply(c)
  BY <1>6 DEF SendReport, FindSubscription, GetSubscription, OpenBroadcast, Broadcast,
              BroadcastFails, BroadcastDone, Die, Reply, SendReceipt, SendErrorTwice, SendError
<1>7. CASE EndSession(c)
  BY <1>7 DEF EndSession, CloseSocket, FindLogin, DropLogin, SweepChannel, SweepSubscriber,
              SweepFails, SweepThrows, SweepDone, Unregister, Die
<1> QED
  BY <1>4, <1>5, <1>6, <1>7 DEF Process

\* What is written to a socket: a report, or an answer to the frame the thread
\* works on.
Writes(c) ==
  \A k \in Conns : \A i \in DOMAIN out'[k] :
    \/ i \in DOMAIN out[k] /\ out'[k][i] = out[k][i]
    \/ /\ open[k]
       /\ \/ out'[k][i].command \in {"MESSAGE", "CONNECTED"}
          \/ k = c /\ pc[c] = "sendReceipt" /\ out'[k][i] = Receipt(count[c])
          \/ k = c /\ pc[c] \in {"sendError", "sendErrorTwice"} /\ out'[k][i] = Error(count[c])

LEMMA SendWrites ==
  ASSUME TypeOK, NEW k \in Conns, NEW m \in ReplyFrames \cup MessageFrames, Send(k, m)
  PROVE  \A j \in Conns : \A i \in DOMAIN out'[j] :
           \/ i \in DOMAIN out[j] /\ out'[j][i] = out[j][i]
           \/ open[k] /\ j = k /\ out'[j][i] = m
<1> DEFINE F == ReplyFrames \cup MessageFrames
<1>1. out \in [Conns -> Seq(F)]
  BY ServerTypes
<1>2. /\ out'[k] = out[k] \/ (open[k] /\ out'[k] = Append(out[k], m))
      /\ \A j \in Conns \ {k} : out'[j] = out[j]
  BY <1>1 DEF Send
<1> HIDE DEF F
<1>3. \A i \in DOMAIN Append(out[k], m) :
        (i \in DOMAIN out[k] /\ Append(out[k], m)[i] = out[k][i]) \/ Append(out[k], m)[i] = m
  BY <1>1, AppendProperties, LenProperties
<1> QED
  BY <1>2, <1>3

LEMMA ProcessWrites ==
  ASSUME TypeInv, NEW c \in Conns, Process(c)
  PROVE  Writes(c)
<1>0. TypeOK /\ count[c] \in Nat
  BY ServerTypes, ConnectionsAssumption DEF TypeInv
<1>1. CASE UNCHANGED out
  BY <1>1 DEF Writes
<1>2. CASE SendConnected(c)
  <2>1. Send(c, Connected(count[c])) /\ Connected(count[c]) \in ReplyFrames
    BY <1>0, <1>2 DEF SendConnected, Connected, ReplyFrames
  <2>2. Connected(count[c]).command = "CONNECTED"
    BY DEF Connected
  <2> QED
    BY <1>0, <2>1, <2>2, SendWrites DEF Writes
<1>3. CASE SendReceipt(c)
  <2>1. /\ pc[c] = "sendReceipt" /\ Send(c, Receipt(count[c]))
        /\ Receipt(count[c]) \in ReplyFrames
    BY <1>0, <1>3 DEF SendReceipt, Receipt, ReplyFrames, At
  <2> QED
    BY <1>0, <2>1, SendWrites DEF Writes
<1>4. CASE SendErrorTwice(c) \/ SendError(c)
  <2>1. /\ pc[c] \in {"sendError", "sendErrorTwice"} /\ Send(c, Error(count[c]))
        /\ Error(count[c]) \in ReplyFrames
    BY <1>0, <1>4 DEF SendErrorTwice, SendError, Error, ReplyFrames, At
  <2> QED
    BY <1>0, <2>1, SendWrites DEF Writes
<1>5. CASE Broadcast(c)
  <2> DEFINE m == Message(frame[c].destination, c, messageID[c] - 1)
  <2>1. PICK k \in iter[c].left : Send(k, m)
    BY <1>5 DEF Broadcast
  <2>2. k \in Conns
    BY <1>0 DEF TypeOK, SocketsOK, Iterators
  <2>3. m \in MessageFrames
    <3>1. frame[c] \in SendFrames /\ messageID[c] > 0 /\ messageID[c] \in Nat
      BY <1>0, <1>5 DEF Broadcast, At, TypeInv, FrameFits, Fits, CountersFit, TypeOK, LocalsOK
    <3> QED
      BY <3>1 DEF Message, MessageFrames, SendFrames
  <2>4. m.command = "MESSAGE"
    BY DEF Message
  <2> HIDE DEF m
  <2> QED
    BY <1>0, <2>1, <2>2, <2>3, <2>4, SendWrites DEF Writes
<1>6. CASE Connect(c) /\ ~ SendConnected(c)
  BY <1>1, <1>6 DEF Connect, UserConnectedAlready, HasRegistered, CheckPasscode, RegisterUser,
                    LogIn, sockets
<1>7. CASE ToStringChannels(c) \/ Subscribe(c) \/ RemoveSubscription(c)
  BY <1>1, <1>7 DEF ToStringChannels, WalkChannels, WalkDone, WalkFails, Subscribe,
              FindChannel, FindSubscriber, PutSubscription, CreateChannel, RemoveSubscription,
              sockets
<1>8. CASE SendReport(c) /\ ~ Broadcast(c)
  BY <1>1, <1>8 DEF SendReport, FindSubscription, GetSubscription, OpenBroadcast,
              BroadcastFails, BroadcastDone, sockets
<1>9. CASE EndSession(c)
  BY <1>1, <1>9 DEF EndSession, CloseSocket, FindLogin, DropLogin, SweepChannel,
              SweepSubscriber, SweepFails, SweepDone, Unregister, sockets
<1> QED
  BY <1>2, <1>3, <1>4, <1>5, <1>6, <1>7, <1>8, <1>9 DEF Process, Reply

\* No step opens a socket, or takes back that a session is over.
LEMMA ProcessEndsOnly ==
  ASSUME TypeOK, NEW c \in Conns, Process(c)
  PROVE  \A k \in Conns : /\ open'[k] => open[k]
                          /\ shouldTerminate[k] => shouldTerminate'[k]
<1>1. open \in [Conns -> BOOLEAN] /\ shouldTerminate \in [Conns -> BOOLEAN]
  BY ServerTypes
<1>2. UNCHANGED shouldTerminate \/ shouldTerminate' = [shouldTerminate EXCEPT ![c] = TRUE]
  <2> USE DEF locals
  <2>1. CASE Connect(c) \/ ToStringChannels(c) \/ Subscribe(c) \/ RemoveSubscription(c)
    BY <2>1 DEF Connect, UserConnectedAlready, HasRegistered, CheckPasscode, RegisterUser,
                LogIn, SendConnected, ToStringChannels, WalkChannels, WalkDone, WalkFails,
                Subscribe, FindChannel, FindSubscriber, PutSubscription, CreateChannel,
                RemoveSubscription
  <2>2. CASE SendReport(c) \/ Reply(c)
    BY <2>2 DEF SendReport, FindSubscription, GetSubscription, OpenBroadcast, Broadcast,
                BroadcastFails, BroadcastDone, Reply, SendReceipt, SendErrorTwice, SendError
  <2>3. CASE EndSession(c)
    BY <2>3 DEF EndSession, CloseSocket, FindLogin, DropLogin, SweepChannel, SweepSubscriber,
                SweepFails, SweepDone, Unregister
  <2> QED
    BY <2>1, <2>2, <2>3 DEF Process
<1>3. UNCHANGED open \/ open' = [open EXCEPT ![c] = FALSE]
  <2> USE DEF sockets, Die
  <2>1. CASE Connect(c) \/ ToStringChannels(c) \/ Subscribe(c) \/ RemoveSubscription(c)
    BY <2>1 DEF Connect, UserConnectedAlready, HasRegistered, CheckPasscode, RegisterUser,
                LogIn, SendConnected, ToStringChannels, WalkChannels, WalkDone, WalkFails,
                Subscribe, FindChannel, FindSubscriber, PutSubscription, CreateChannel,
                RemoveSubscription
  <2>2. CASE SendReport(c) \/ Reply(c)
    BY <2>2 DEF SendReport, FindSubscription, GetSubscription, OpenBroadcast, Broadcast,
                BroadcastFails, BroadcastDone, Reply, SendReceipt, SendErrorTwice, SendError
  <2>3. CASE EndSession(c)
    BY <2>3 DEF EndSession, CloseSocket, FindLogin, DropLogin, SweepChannel, SweepSubscriber,
                SweepFails, SweepThrows, SweepDone, Unregister
  <2> QED
    BY <2>1, <2>2, <2>3 DEF Process
<1> QED
  BY <1>1, <1>2, <1>3

\* One entry of one map is assigned.
LEMMA OneEntry ==
  ASSUME NEW V, NEW U \in [Channels -> [Conns -> [Conns -> V]]],
         NEW ch, NEW m, NEW c, NEW id, NEW T, T = [U EXCEPT ![ch][m][c] = id]
  PROVE  \A g \in Channels, n, k \in Conns :
           T[g][n][k] = IF g = ch /\ n = m /\ k = c THEN id ELSE U[g][n][k]
<1> SUFFICES ASSUME NEW g \in Channels, NEW n \in Conns, NEW k \in Conns
             PROVE  T[g][n][k] = IF g = ch /\ n = m /\ k = c THEN id ELSE U[g][n][k]
  OBVIOUS
<1>1. T[g] = IF g = ch THEN [U[g] EXCEPT ![m][c] = id] ELSE U[g]
  OBVIOUS
<1>2. U[g] \in [Conns -> [Conns -> V]]
  OBVIOUS
<1>3. g = ch => T[g][n] = IF n = m THEN [U[g][n] EXCEPT ![c] = id] ELSE U[g][n]
  BY <1>1, <1>2
<1>4. U[g][n] \in [Conns -> V]
  BY <1>2
<1> QED
  BY <1>1, <1>3, <1>4

\* A thread takes entries out of a map, or enters its own connection.
LEMMA ProcessEntries ==
  ASSUME TypeInv, NEW c \in Conns, Process(c)
  PROVE  \A ch \in Channels, m \in Conns, k \in Conns \ {c} :
           subscribers'[ch][m][k] \in {subscribers[ch][m][k], None}
<1>1. /\ subscribers \in [Channels -> [Conns -> [Conns -> SubIds \cup {None}]]]
      /\ Fits(pc[c], frame[c])
  BY ServerTypes DEF TypeInv, FrameFits
<1>2. CASE UNCHANGED subscribers
  BY <1>2
<1>3. CASE (PutSubscription(c) \/ RemoveSubscription(c)) /\ ~ UNCHANGED subscribers
  <2>1. PICK ch, id : SetEntry(ch, c, id)
    BY <1>3 DEF PutSubscription, RemoveSubscription, LoseEntry
  <2> DEFINE m == channelsSubscriptions[ch]
  <2>2. subscribers' = [subscribers EXCEPT ![ch][m][c] = id]
    BY <2>1 DEF SetEntry
  <2> HIDE DEF m
  <2> QED
    BY <1>1, <2>2, OneEntry
<1>4. CASE CreateChannel(c)
  <2>1. subscribers' = [subscribers EXCEPT ![frame[c].destination][c] =
                                             [EmptyMap EXCEPT ![c] = frame[c].id]]
    BY <1>4 DEF CreateChannel, CreateChannelMap
  <2> QED
    BY <1>1, <2>1 DEF EmptyMap
<1>5. CASE SweepSubscriber(c)
  <2>1. PICK ch, m, j : subscribers' = [subscribers EXCEPT ![ch][m][j] = None]
                          \/ UNCHANGED subscribers
    BY <1>5 DEF SweepSubscriber
  <2>2. CASE subscribers' = [subscribers EXCEPT ![ch][m][j] = None]
    <3>1. \A g \in Channels, n, k \in Conns :
            subscribers'[g][n][k] = IF g = ch /\ n = m /\ k = j THEN None
                                    ELSE subscribers[g][n][k]
      BY <1>1, <2>2, OneEntry
    <3> QED
      BY <3>1
  <2> QED
    BY <1>2, <2>1, <2>2
<1>6. CASE Connect(c) \/ ToStringChannels(c) \/ Reply(c)
  BY <1>2, <1>6 DEF Connect, UserConnectedAlready, HasRegistered, CheckPasscode, RegisterUser,
              LogIn, SendConnected, ToStringChannels, WalkChannels, WalkDone, WalkFails,
              Reply, SendReceipt, SendErrorTwice, SendError, topics
<1>7. CASE SendReport(c)
  BY <1>2, <1>7 DEF SendReport, FindSubscription, GetSubscription, OpenBroadcast, Broadcast,
              BroadcastFails, BroadcastDone, topics
<1>8. CASE EndSession(c) /\ ~ SweepSubscriber(c)
  BY <1>2, <1>8 DEF EndSession, CloseSocket, FindLogin, DropLogin, SweepChannel,
              SweepFails, SweepDone, Unregister, topics
<1>9. CASE FindChannel(c) \/ FindSubscriber(c)
  BY <1>2, <1>9 DEF FindChannel, FindSubscriber, topics
<1> QED
  BY <1>2, <1>3, <1>4, <1>5, <1>6, <1>7, <1>8, <1>9 DEF Process, Subscribe

-----------------------------------------------------------------------------
(***************************************************************************)
(* The server takes what was sent, in order, and answers what it took.     *)
(***************************************************************************)
LEMMA SentSeq ==
  ASSUME ClientInv, NEW c \in Conns
  PROVE  /\ sent[c] \in Seq(Sends) /\ Len(sent[c]) \in Nat
         /\ DOMAIN sent[c] = 1 .. Len(sent[c])
  BY LenProperties DEF ClientInv, SentTypes

LEMMA NoIndices ==
  ASSUME NEW V, NEW s \in Seq(V), \A i \in DOMAIN s : FALSE
  PROVE  s = << >>
<1>1. Len(s) \in Nat /\ DOMAIN s = 1 .. Len(s)
  BY LenProperties
<1>2. Len(s) # 0 => 1 \in DOMAIN s
  BY <1>1
<1>3. Len(s) = 0
  BY <1>2
<1> QED
  BY <1>3, EmptySeq

LEMMA InitRequests == PlatformInit => RequestInv
<1> SUFFICES ASSUME PlatformInit PROVE RequestInv
  OBVIOUS
<1> USE DEF PlatformInit, Init, ConnectionsInit, ProtocolInit
<1>1. RequestsMatch /\ AnswersMatch
  BY DEF RequestsMatch, AnswersMatch, Working
<1>2. NewIsEmpty /\ LogoutFlag
  BY DEF NewIsEmpty, LogoutFlag, EmptyMap
<1> QED
  BY <1>1, <1>2 DEF RequestInv

LEMMA ProcessRequests ==
  ASSUME TypeInv, TypeInv', ClientInv, RequestInv, NEW c \in Conns, Process(c),
         UNCHANGED <<sent, connectionID, acceptor>>
  PROVE  RequestInv'
<1>0. TypeOK
  BY DEF TypeInv
<1>1. UNCHANGED <<frame, count>> /\ Working(c)
  BY ProcessRequest
<1>2. Moves(c) /\ Writes(c)
  BY ProcessMoves, ProcessWrites
<1>3. \A k \in Conns : count[k] \in Nat
  BY <1>0, ServerTypes, ConnectionsAssumption
<1>4. RequestsMatch'
  <2> SUFFICES ASSUME NEW k \in Conns
               PROVE  /\ count'[k] <= Len(sent'[k])
                      /\ count'[k] # 0 => frame'[k] = sent'[k][count'[k]].frame
                      /\ Working(k)' => count'[k] # 0
                      /\ pc'[k] = "sendReceipt" => frame'[k].command \in Receipted
    BY DEF RequestsMatch
  <2>1. Working(k)' => Working(k)
    BY <1>1, <1>2 DEF Moves, Working
  <2>2. pc'[k] = "sendReceipt" => frame[k].command \in Receipted
    BY <1>2 DEF Moves, RequestInv, RequestsMatch, Receipted
  <2> QED
    BY <1>1, <2>1, <2>2 DEF RequestInv, RequestsMatch
<1>5. AnswersMatch'
  <2> SUFFICES ASSUME NEW k \in Conns, NEW i \in DOMAIN out'[k]
               PROVE  /\ out'[k][i].command \in {"RECEIPT", "ERROR"} => out'[k][i].n \in 1 .. count'[k]
                      /\ out'[k][i].command = "RECEIPT" =>
                           sent'[k][out'[k][i].n].frame.command \in Receipted
    BY DEF AnswersMatch
  <2>1. CASE i \in DOMAIN out[k] /\ out'[k][i] = out[k][i]
    BY <1>1, <2>1 DEF RequestInv, AnswersMatch
  <2>2. CASE out'[k][i].command \in {"MESSAGE", "CONNECTED"}
    BY <2>2
  <2>3. CASE k = c /\ pc[c] = "sendReceipt" /\ out'[k][i] = Receipt(count[c])
    <3>1. count[c] \in 1 .. count[c] /\ sent[c][count[c]].frame.command \in Receipted
      BY <1>1, <1>3, <2>3 DEF RequestInv, RequestsMatch
    <3> QED
      BY <1>1, <2>3, <3>1 DEF Receipt
  <2>4. CASE k = c /\ out'[k][i] = Error(count[c])
    <3>1. count[c] \in 1 .. count[c]
      BY <1>1, <1>3 DEF RequestInv, RequestsMatch
    <3> QED
      BY <1>1, <2>4, <3>1 DEF Error
  <2> QED
    BY <1>2, <2>1, <2>2, <2>3, <2>4 DEF Writes
<1>6. NewIsEmpty'
  <2> SUFFICES ASSUME NEW k \in Conns, ~ Accepted(k)'
               PROVE  /\ pc'[k] = "new" /\ ~ open'[k] /\ out'[k] = << >>
                      /\ \A ch \in Channels, m \in Conns : subscribers'[ch][m][k] = None
    BY DEF NewIsEmpty
  <2>1. ~ Accepted(k)
    BY DEF Accepted
  <2>2. /\ pc[k] = "new" /\ ~ open[k] /\ out[k] = << >>
        /\ \A ch \in Channels, m \in Conns : subscribers[ch][m][k] = None
    BY <2>1 DEF RequestInv, NewIsEmpty
  <2>3. k # c
    BY <1>1, <2>2 DEF Working
  <2>4. \A i \in DOMAIN out'[k] : FALSE
    BY <1>2, <2>2 DEF Writes
  <2>5. out'[k] \in Seq(ReplyFrames \cup MessageFrames)
    BY DEF TypeInv, TypeOK, SocketsOK
  <2>6. out'[k] = << >>
    BY <2>4, <2>5, NoIndices
  <2>7. \A ch \in Channels, m \in Conns : subscribers'[ch][m][k] = None
    BY <2>2, <2>3, ProcessEntries
  <2>8. ~ open'[k]
    BY <1>0, <2>2, ProcessEndsOnly
  <2> QED
    BY <1>2, <2>2, <2>3, <2>6, <2>7, <2>8 DEF Moves
<1>7. LogoutFlag'
  BY <1>0, <1>1, ProcessEndsOnly DEF RequestInv, LogoutFlag
<1> QED
  BY <1>4, <1>5, <1>6, <1>7 DEF RequestInv

\* What a step adds to the frames sent, it adds behind them.
Grown ==
  \A c \in Conns :
    /\ Len(sent[c]) <= Len(sent'[c])
    /\ \A i \in 1 .. Len(sent[c]) : sent'[c][i] = sent[c][i]

LEMMA QuietRequests ==
  ASSUME TypeInv, ClientInv, ClientInv', RequestInv, Grown,
         UNCHANGED <<pc, frame, count, out, open, subscribers, shouldTerminate>>,
         \A c \in Conns : Accepted(c) => Accepted(c)'
  PROVE  RequestInv'
<1>1. \A c \in Conns : count[c] \in Nat
  BY ServerTypes, ConnectionsAssumption DEF TypeInv
<1>2. \A c \in Conns : Len(sent[c]) \in Nat /\ Len(sent'[c]) \in Nat
  BY LenProperties DEF ClientInv, SentTypes
<1>3. \A c \in Conns : count[c] <= Len(sent[c])
  BY DEF RequestInv, RequestsMatch
<1>4. \A c \in Conns : \A n \in 1 .. count[c] : sent'[c][n] = sent[c][n]
  BY <1>1, <1>2, <1>3 DEF Grown
<1>5. RequestsMatch'
  <2> SUFFICES ASSUME NEW k \in Conns
               PROVE  /\ count'[k] <= Len(sent'[k])
                      /\ count'[k] # 0 => frame'[k] = sent'[k][count'[k]].frame
                      /\ Working(k)' => count'[k] # 0
                      /\ pc'[k] = "sendReceipt" => frame'[k].command \in Receipted
    BY DEF RequestsMatch
  <2>1. count[k] <= Len(sent'[k])
    BY <1>1, <1>2, <1>3 DEF Grown
  <2>2. count[k] # 0 => frame[k] = sent'[k][count[k]].frame
    BY <1>1, <1>4 DEF RequestInv, RequestsMatch
  <2> QED
    BY <2>1, <2>2 DEF RequestInv, RequestsMatch, Working
<1>6. AnswersMatch'
  BY <1>4 DEF RequestInv, AnswersMatch
<1>7. NewIsEmpty'
  BY DEF RequestInv, NewIsEmpty
<1>8. LogoutFlag'
  BY DEF RequestInv, LogoutFlag
<1> QED
  BY <1>5, <1>6, <1>7, <1>8 DEF RequestInv

\* A frame is written behind those that were.
NewSend == [frame |-> Client!Output, receipt |-> Client!OutputReceipt,
            event |-> IF line.verb = "report" THEN Head(unsent) ELSE None]

LEMMA TransmitAppends ==
  ASSUME ClientInv, NEW c \in Conns, c = conn, Transmit
  PROVE  /\ sent'[c] = Append(sent[c], NewSend)
         /\ Len(sent'[c]) = Len(sent[c]) + 1
         /\ DOMAIN sent'[c] = 1 .. Len(sent[c]) + 1
         /\ sent'[c][Len(sent[c]) + 1] = NewSend
         /\ \A i \in 1 .. Len(sent[c]) : sent'[c][i] = sent[c][i]
         /\ \A k \in Conns \ {c} : sent'[k] = sent[k]
<1>1. sent[c] \in Seq(Sends) /\ DOMAIN sent = Conns
  BY DEF ClientInv, SentTypes
<1>2. sent' = [sent EXCEPT ![c] = Append(@, NewSend)]
  BY DEF Transmit, NewSend
<1>3. sent'[c] = Append(sent[c], NewSend) /\ \A k \in Conns \ {c} : sent'[k] = sent[k]
  BY <1>1, <1>2
<1> QED
  BY <1>1, <1>3, AppendProperties, LenProperties

LEMMA TransmitGrows ==
  ASSUME ClientInv, conn \in Conns, Transmit \/ UNCHANGED sent
  PROVE  Grown
<1>1. CASE UNCHANGED sent
  BY <1>1, SentSeq DEF Grown
<1>2. CASE Transmit
  <2>1. PICK c \in Conns : c = conn
    OBVIOUS
  <2>2. \A k \in Conns : Len(sent[k]) \in Nat
    BY SentSeq
  <2> QED
    BY <1>2, <2>1, <2>2, TransmitAppends DEF Grown
<1> QED
  BY <1>1, <1>2

LEMMA AcceptRequests ==
  ASSUME TypeInv, ClientInv, RequestInv, LogoutLastInv, LoginTyped
  PROVE  RequestInv'
<1>1. /\ acceptor = "accept" /\ acceptor' = "increment"
      /\ connectionID < MaxConnections /\ connectionID' = connectionID
      /\ UNCHANGED <<frame, count, out, subscribers, shouldTerminate, sent>>
      /\ Goto(connectionID, "read") /\ open' = [open EXCEPT ![connectionID] = TRUE]
  BY DEF LoginTyped, Accept, accounts, topics, request, locals
<1>2. pc \in [Conns -> Labels] /\ open \in [Conns -> BOOLEAN]
  BY ServerTypes DEF TypeInv
<1>3. \A k \in Conns : pc'[k] = IF k = connectionID THEN "read" ELSE pc[k]
  BY <1>1, <1>2 DEF Goto
<1>4. \A k \in Conns : k # connectionID => open'[k] = open[k]
  BY <1>1, <1>2
<1>5. RequestsMatch'
  <2>1. \A k \in Conns : (Working(k)' => Working(k)) /\ (pc'[k] = "sendReceipt" => pc[k] = "sendReceipt")
    BY <1>3 DEF Working
  <2> QED
    BY <1>1, <2>1 DEF RequestInv, RequestsMatch
<1>6. AnswersMatch'
  BY <1>1 DEF RequestInv, AnswersMatch
<1>7. NewIsEmpty'
  <2> SUFFICES ASSUME NEW k \in Conns, ~ Accepted(k)'
               PROVE  /\ pc'[k] = "new" /\ ~ open'[k] /\ out'[k] = << >>
                      /\ \A ch \in Channels, m \in Conns : subscribers'[ch][m][k] = None
    BY DEF NewIsEmpty
  <2>1. ~ Accepted(k) /\ k # connectionID
    BY <1>1 DEF Accepted
  <2> QED
    BY <1>1, <1>3, <1>4, <2>1 DEF RequestInv, NewIsEmpty
<1>8. LogoutFlag'
  BY <1>1 DEF RequestInv, LogoutFlag
<1> QED
  BY <1>5, <1>6, <1>7, <1>8 DEF RequestInv

\* The frame that is taken is the next one that was sent.
LEMMA ReceiveRequests ==
  ASSUME TypeInv, ClientInv, RequestInv, NEW c \in Conns, ServerReceive(c)
  PROVE  RequestInv'
<1> DEFINE n == count[c] + 1
           f == sent[c][n].frame
<1>1. /\ pc[c] = "read" /\ count[c] < Len(sent[c]) /\ Dispatch(c, f)
      /\ UNCHANGED <<connectionID, acceptor, subscribers, open, out, sent>>
  BY DEF ServerReceive, Reading, At, topics, sockets, clientVars, link
<1>2. /\ pc \in [Conns -> Labels] /\ frame \in [Conns -> Frames \cup {None}]
      /\ DOMAIN count = Conns /\ \A k \in Conns : count[k] \in Nat
      /\ shouldTerminate \in [Conns -> BOOLEAN]
  BY ServerTypes, ConnectionsAssumption DEF TypeInv
<1>3. Len(sent[c]) \in Nat
  BY SentSeq
<1>4. /\ frame' = [frame EXCEPT ![c] = f] /\ count' = [count EXCEPT ![c] = n]
      /\ shouldTerminate' = [shouldTerminate EXCEPT ![c] = (f.command = "DISCONNECT")]
  BY <1>1, <1>2 DEF Dispatch
<1>5. \A k \in Conns \ {c} : /\ pc'[k] = pc[k] /\ frame'[k] = frame[k] /\ count'[k] = count[k]
                             /\ shouldTerminate'[k] = shouldTerminate[k]
  BY <1>1, <1>2, <1>4 DEF Dispatch, Goto
<1>6. frame'[c] = f /\ count'[c] = n /\ shouldTerminate'[c] = (f.command = "DISCONNECT")
  BY <1>2, <1>4
<1>7. pc'[c] = "sendReceipt" => f.command = "DISCONNECT"
  <2>1. f \in Frames
    <3>1. n \in DOMAIN sent[c] /\ sent[c] \in Seq(Sends)
      BY <1>1, <1>2, <1>3, SentSeq
    <3>2. sent[c][n] \in Sends
      BY <3>1
    <3> QED
      BY <3>2 DEF Sends
  <2>2. f.command \in {"CONNECT", "SUBSCRIBE", "UNSUBSCRIBE", "SEND", "DISCONNECT"}
    BY <2>1, FramesAssumption DEF ConnectFrames, SubscribeFrames, UnsubscribeFrames, SendFrames,
                                  DisconnectFrames
  <2> HIDE DEF f
  <2> QED
    BY <1>1, <1>2, <2>2 DEF Dispatch, Goto
<1>8. RequestsMatch'
  <2> SUFFICES ASSUME NEW k \in Conns
               PROVE  /\ count'[k] <= Len(sent'[k])
                      /\ count'[k] # 0 => frame'[k] = sent'[k][count'[k]].frame
                      /\ Working(k)' => count'[k] # 0
                      /\ pc'[k] = "sendReceipt" => frame'[k].command \in Receipted
    BY DEF RequestsMatch
  <2>1. CASE k = c
    BY <1>1, <1>2, <1>3, <1>6, <1>7, <2>1 DEF Receipted
  <2>2. CASE k # c
    BY <1>1, <1>5, <2>2 DEF RequestInv, RequestsMatch, Working
  <2> QED
    BY <2>1, <2>2
<1>9. AnswersMatch'
  <2> SUFFICES ASSUME NEW k \in Conns, NEW i \in DOMAIN out[k]
               PROVE  /\ out[k][i].command \in {"RECEIPT", "ERROR"} => out[k][i].n \in 1 .. count'[k]
                      /\ out[k][i].command = "RECEIPT" =>
                           sent[k][out[k][i].n].frame.command \in Receipted
    BY <1>1 DEF AnswersMatch
  <2>1. count'[k] \in Nat /\ count[k] \in Nat /\ count[k] <= count'[k]
    BY <1>2, <1>5, <1>6
  <2>2. 1 .. count[k] \subseteq 1 .. count'[k]
    BY <2>1
  <2> QED
    BY <2>2 DEF RequestInv, AnswersMatch
<1>10. NewIsEmpty'
  <2>1. \A k \in Conns : Accepted(k)' <=> Accepted(k)
    BY <1>1 DEF Accepted
  <2> QED
    BY <1>1, <1>5, <2>1 DEF RequestInv, NewIsEmpty
<1>11. LogoutFlag'
  BY <1>5, <1>6 DEF RequestInv, LogoutFlag
<1> QED
  BY <1>8, <1>9, <1>10, <1>11 DEF RequestInv

LEMMA EndRequests ==
  ASSUME TypeInv, ClientInv, RequestInv, NEW c \in Conns, Exit(c) \/ Abort(c), UNCHANGED sent
  PROVE  RequestInv'
<1>1. /\ pc[c] = "read" /\ Goto(c, "dead") /\ open' = [open EXCEPT ![c] = FALSE]
      /\ UNCHANGED <<frame, count, out, subscribers, shouldTerminate, connectionID, acceptor>>
  BY DEF Exit, Abort, Reading, At, Die, topics, request, locals
<1>2. pc \in [Conns -> Labels] /\ open \in [Conns -> BOOLEAN]
  BY ServerTypes DEF TypeInv
<1>3. \A k \in Conns : pc'[k] = (IF k = c THEN "dead" ELSE pc[k]) /\ (open'[k] => open[k])
  BY <1>1, <1>2 DEF Goto
<1>4. RequestsMatch'
  <2>1. \A k \in Conns : (Working(k)' => Working(k)) /\ (pc'[k] = "sendReceipt" => pc[k] = "sendReceipt")
    BY <1>3 DEF Working
  <2> QED
    BY <1>1, <2>1 DEF RequestInv, RequestsMatch
<1>5. AnswersMatch'
  BY <1>1 DEF RequestInv, AnswersMatch
<1>6. NewIsEmpty'
  <2>1. \A k \in Conns : Accepted(k)' <=> Accepted(k)
    BY <1>1 DEF Accepted
  <2> QED
    BY <1>1, <1>3, <2>1 DEF RequestInv, NewIsEmpty
<1>7. LogoutFlag'
  BY <1>1 DEF RequestInv, LogoutFlag
<1> QED
  BY <1>4, <1>5, <1>6, <1>7 DEF RequestInv

LEMMA NextRequests ==
  ASSUME TypeInv, TypeInv', ClientInv, ClientInv', LogoutLastInv, RequestInv,
         [PlatformNext]_platformVars
  PROVE  RequestInv'
<1> DEFINE seen == <<pc, frame, count, out, open, subscribers, shouldTerminate, connectionID,
                     acceptor>>
<1>0. TypeOK
  BY DEF TypeInv
<1>1. ASSUME NEW c \in Conns, ServerReceive(c) \/ ServerAbort(c) \/ ServerStep(c)
      PROVE  RequestInv'
  <2>1. CASE ServerReceive(c)
    BY <2>1, ReceiveRequests
  <2>2. CASE ServerAbort(c) \/ (Exit(c) /\ UNCHANGED clientVars)
    BY <2>2, EndRequests DEF ServerAbort, clientVars, link
  <2>3. CASE ProcessStep(c) /\ UNCHANGED clientVars
    BY <2>3, ProcessRequests DEF ProcessStep, clientVars, link
  <2> QED
    BY <1>1, <2>1, <2>2, <2>3 DEF ServerStep
<1>2. CASE SendConnect \/ KeyboardSend
  <2>1. UNCHANGED seen /\ (Transmit \/ UNCHANGED sent) /\ conn \in Conns
    BY <1>2 DEF SendConnect, KeyboardSend, vars, topics, sockets, request, locals, ClientInv,
                ClientTypes, KeyboardFits
  <2>2. Grown
    BY <2>1, TransmitGrows
  <2>3. \A c \in Conns : Accepted(c) => Accepted(c)'
    BY <2>1 DEF Accepted
  <2> QED
    BY <2>1, <2>2, <2>3, QuietRequests
<1>3. CASE \/ EmptyLineTyped \/ PromptInputOver \/ MainThread \/ LineTyped \/ InputOverRead
           \/ KeyboardStep \/ SocketRead \/ SocketReadFails \/ SocketStep \/ Crash
           \/ InputEnds \/ Rest \/ UNCHANGED platformVars
  <2>1. UNCHANGED <<vars, sent>>
    BY <1>3 DEF EmptyLineTyped, PromptInputOver, MainThread, LineTyped, InputOverRead,
                KeyboardStep, SocketRead, SocketReadFails, SocketStep, Crash, InputEnds, Rest,
                platformVars, link
  <2>2. UNCHANGED seen /\ UNCHANGED sent
    BY <2>1 DEF vars, topics, sockets, request, locals
  <2>3. Grown /\ \A c \in Conns : Accepted(c) => Accepted(c)'
    BY <2>2, SentSeq DEF Grown, Accepted
  <2> QED
    BY <2>2, <2>3, QuietRequests
<1>4. CASE ServerIncrement
  <2>1. UNCHANGED <<pc, frame, count, out, open, subscribers, shouldTerminate, sent>>
    BY <1>4 DEF ServerIncrement, Increment, topics, sockets, request, locals, clientVars, link
  <2>2. Grown /\ \A c \in Conns : Accepted(c) => Accepted(c)'
    BY <1>0, <1>4, <2>1, SentSeq, AcceptorLogout DEF Grown
  <2> QED
    BY <2>1, <2>2, QuietRequests
<1> QED
  BY <1>1, <1>2, <1>3, <1>4, AcceptRequests DEF PlatformNext

-----------------------------------------------------------------------------
(***************************************************************************)
(* The client enters a number before it sends it, and the server sends it  *)
(* back with an answer to the same frame.                                  *)
(***************************************************************************)
LEMMA InitReceipts == PlatformInit => ReceiptInv
  BY DEF PlatformInit, Client!ClientInit, ReceiptInv, ReceiptsEntered, LastReceiptFits,
         ReceiptRead

LEMMA QuietReceipts ==
  ASSUME ReceiptInv, UNCHANGED <<receipts, sent, conn>>,
         main' = "session" => main = "session",
         keyboard' = "send" => line'.verb = "report" \/ (keyboard = "send" /\ UNCHANGED line),
         socket' = "findReceipt" => socket = "findReceipt" /\ UNCHANGED answer
  PROVE  ReceiptInv'
<1>1. ReceiptsEntered'
  BY DEF ReceiptInv, ReceiptsEntered
<1>2. LastReceiptFits'
  BY DEF ReceiptInv, LastReceiptFits, Client!CommandOf
<1>3. ReceiptRead'
  BY DEF ReceiptInv, ReceiptRead
<1> QED
  BY <1>1, <1>2, <1>3 DEF ReceiptInv

LEMMA DestroyedReceipts ==
  ASSUME Client!Destroyed, main' # "session"
  PROVE  ReceiptInv'
  BY DEF Client!Destroyed, ReceiptInv, ReceiptsEntered, LastReceiptFits, ReceiptRead

LEMMA ConnectReceipts ==
  ASSUME ClientInv, LogoutLastInv, SendConnect
  PROVE  ReceiptInv'
<1>1. CASE Client!LoginFails
  BY <1>1, DestroyedReceipts DEF Client!LoginFails
<1>2. CASE Transmit /\ Client!StartSession
  <2>1. /\ main = "login" /\ line.verb = "login" /\ conn' = conn
        /\ keyboard' = "loop" /\ socket' = "read"
    BY <1>2 DEF SendConnect, Client!StartSession, ClientInv, ClientTypes
  <2>2. PICK c \in Conns : c = conn
    BY <2>1 DEF ClientInv, ClientTypes
  <2>3. Len(sent[c]) = 0
    BY <2>1, <2>2 DEF LogoutLastInv
  <2>4. DOMAIN sent'[c] = {1} /\ sent'[c][1] = NewSend
    BY <1>2, <2>2, <2>3, TransmitAppends
  <2>5. NewSend.frame.command = "CONNECT"
    BY <2>1 DEF NewSend, Client!Output
  <2>6. ReceiptsEntered'
    BY <2>1, <2>2, <2>4, <2>5 DEF ReceiptsEntered, Receipted
  <2> QED
    BY <2>1, <2>6 DEF ReceiptInv, LastReceiptFits, ReceiptRead
<1> QED
  BY <1>1, <1>2 DEF SendConnect

LEMMA ProduceReceipts ==
  ASSUME ClientInv, ReceiptInv, Client!ProduceReceipt \/ Client!ProduceReceiptAgain,
         UNCHANGED <<conn, sent>>
  PROVE  ReceiptInv'
<1> DEFINE r == Client!CommandOf(line.verb)
<1>1. /\ receipts' = Append(receipts, r) /\ UNCHANGED <<main, line, socket, answer>>
  BY DEF Client!ProduceReceipt, Client!ProduceReceiptAgain, Client!input, Client!CommandOf,
         ClientInv, KeyboardFits
<1>2. receipts \in Seq({"SUBSCRIBE", "UNSUBSCRIBE", "DISCONNECT"})
  BY DEF ClientInv, ClientTypes
<1>3. r \in {"SUBSCRIBE", "UNSUBSCRIBE", "DISCONNECT"}
  BY DEF Client!ProduceReceipt, Client!ProduceReceiptAgain, Client!CommandOf, ClientInv,
         KeyboardFits
<1> HIDE DEF r
<1>4. /\ Len(receipts) \in Nat /\ Len(receipts') = Len(receipts) + 1
      /\ receipts'[Len(receipts')] = r
      /\ \A i \in 1 .. Len(receipts) : receipts'[i] = receipts[i]
  BY <1>1, <1>2, <1>3, AppendProperties, LenProperties
<1>5. ReceiptsEntered'
  <2> SUFFICES ASSUME main = "session", NEW i \in DOMAIN sent[conn],
                      sent[conn][i].frame.command \in Receipted
               PROVE  /\ sent[conn][i].receipt \in 0 .. Len(receipts') - 1
                      /\ receipts'[sent[conn][i].receipt + 1] = sent[conn][i].frame.command
    BY <1>1 DEF ReceiptsEntered
  <2>1. /\ sent[conn][i].receipt \in 0 .. Len(receipts) - 1
        /\ receipts[sent[conn][i].receipt + 1] = sent[conn][i].frame.command
    BY DEF ReceiptInv, ReceiptsEntered
  <2>2. sent[conn][i].receipt + 1 \in 1 .. Len(receipts)
    BY <1>4, <2>1
  <2> QED
    BY <1>4, <2>1, <2>2
<1>6. LastReceiptFits'
  BY <1>1, <1>4 DEF LastReceiptFits, r, Client!CommandOf
<1>7. ReceiptRead'
  BY <1>1 DEF ReceiptInv, ReceiptRead
<1> QED
  BY <1>5, <1>6, <1>7 DEF ReceiptInv

LEMMA SendReceipts ==
  ASSUME ClientInv, ReceiptInv, KeyboardSend
  PROVE  ReceiptInv'
<1>1. /\ keyboard = "send" /\ main = "session" /\ Client!AfterSend /\ UNCHANGED conn
      /\ line.verb \in {"join", "exit", "report", "logout"}
  BY DEF KeyboardSend, Client!Sent, Client!SendFails, ClientInv, KeyboardFits
<1>2. UNCHANGED <<main, line, socket, answer, receipts>> /\ keyboard' # "send"
  BY <1>1 DEF Client!AfterSend, Client!Proceed
<1>3. CASE UNCHANGED sent
  BY <1>1, <1>2, <1>3, QuietReceipts
<1>4. CASE Transmit
  <2>1. PICK c \in Conns : c = conn
    BY <1>1 DEF ClientInv, ClientTypes
  <2> DEFINE n == Len(sent[c]) + 1
  <2>2. /\ DOMAIN sent'[c] = 1 .. n /\ sent'[c][n] = NewSend
        /\ \A i \in 1 .. Len(sent[c]) : sent'[c][i] = sent[c][i]
        /\ DOMAIN sent[c] = 1 .. Len(sent[c]) /\ Len(sent[c]) \in Nat
    BY <1>4, <2>1, TransmitAppends, SentSeq
  <2>3. NewSend.frame.command \in Receipted =>
          /\ NewSend.receipt \in 0 .. Len(receipts) - 1
          /\ receipts[NewSend.receipt + 1] = NewSend.frame.command
    <3>1. NewSend.frame.command = Client!CommandOf(line.verb)
      BY <1>1 DEF NewSend, Client!Output, Client!CommandOf
    <3>2. CASE line.verb = "report"
      BY <3>1, <3>2 DEF Client!CommandOf, Receipted
    <3>3. CASE line.verb # "report"
      <4>1. receipts # << >> /\ receipts \in Seq({"SUBSCRIBE", "UNSUBSCRIBE", "DISCONNECT"})
        BY <1>1, <3>3 DEF ClientInv, ClientTypes, KeyboardFits
      <4>2. Len(receipts) \in Nat \ {0}
        BY <4>1, LenProperties, EmptySeq
      <4>3. NewSend.receipt = Len(receipts) - 1
        BY <1>1, <3>3 DEF NewSend, Client!OutputReceipt
      <4>4. receipts[Len(receipts)] = NewSend.frame.command
        BY <1>1, <3>1, <3>3 DEF ReceiptInv, LastReceiptFits
      <4>5. (Len(receipts) - 1) + 1 = Len(receipts) /\ Len(receipts) - 1 \in 0 .. Len(receipts) - 1
        BY <4>2
      <4> QED
        BY <4>3, <4>4, <4>5
    <3> QED
      BY <3>2, <3>3
  <2>4. ReceiptsEntered'
    <3> SUFFICES ASSUME NEW i \in DOMAIN sent'[c], sent'[c][i].frame.command \in Receipted
                 PROVE  /\ sent'[c][i].receipt \in 0 .. Len(receipts) - 1
                        /\ receipts[sent'[c][i].receipt + 1] = sent'[c][i].frame.command
      BY <1>1, <1>2, <2>1 DEF ReceiptsEntered
    <3>1. CASE i \in 1 .. Len(sent[c])
      BY <1>1, <2>1, <2>2, <3>1 DEF ReceiptInv, ReceiptsEntered
    <3>2. CASE i = n
      BY <2>2, <2>3, <3>2
    <3> QED
      BY <2>2, <3>1, <3>2
  <2>5. ReceiptRead'
    BY <1>1, <1>2, <2>1, <2>2 DEF ReceiptInv, ReceiptRead
  <2> QED
    BY <1>2, <2>4, <2>5 DEF ReceiptInv, LastReceiptFits
<1> QED
  BY <1>3, <1>4 DEF KeyboardSend

\* The number in a receipt that is read is the one a frame was sent with.
LEMMA ReadReceipts ==
  ASSUME TypeInv, ClientInv, RestTypes, SocketFits, RequestInv, ReceiptInv, SocketRead
  PROVE  ReceiptInv'
<1>1. main = "session" /\ Client!ReadFrame(Incoming(out[conn][delivered + 1]))
  BY DEF SocketRead, SocketFits
<1>2. UNCHANGED <<main, keyboard, line, receipts, conn, sent>>
  BY <1>1 DEF SocketRead, Client!ReadFrame, Client!input, Client!tables
<1>3. PICK c \in Conns : c = conn
  BY <1>1 DEF ClientInv, ClientTypes
<1> DEFINE m == out[c][delivered + 1]
<1>4. TypeOK
  BY DEF TypeInv
<1>5. ReceiptRead'
  <2> SUFFICES ASSUME socket' = "findReceipt"
               PROVE  \E i \in DOMAIN sent[c] : /\ sent[c][i].receipt = answer'.receipt
                                                /\ sent[c][i].frame.command \in Receipted
    BY <1>2, <1>3 DEF ReceiptRead
  <2>1. delivered + 1 \in DOMAIN out[c]
    <3>1. delivered < Len(out[conn]) /\ delivered \in Nat /\ out[c] \in Seq(ReplyFrames \cup MessageFrames)
      BY <1>3, <1>4, ServerTypes DEF SocketRead, RestTypes
    <3> QED
      BY <1>3, <3>1
  <2>2. Incoming(m).command \in {"CONNECTED", "RECEIPT", "ERROR", "MESSAGE"}
    BY <1>3, <1>4, <2>1, IncomingKinds
  <2>3. Incoming(m).command = "RECEIPT" /\ answer' = Incoming(m)
    BY <1>1, <1>3, <2>2 DEF Client!ReadFrame
  <2>4. m.command = "RECEIPT"
    BY <2>3 DEF Incoming
  <2>5. m.n \in 1 .. count[c] /\ sent[c][m.n].frame.command \in Receipted
    BY <2>1, <2>4 DEF RequestInv, AnswersMatch
  <2>6. m.n \in DOMAIN sent[c]
    <3>1. count[c] <= Len(sent[c]) /\ count[c] \in Nat
      BY <1>4, ServerTypes, ConnectionsAssumption DEF RequestInv, RequestsMatch
    <3>2. Len(sent[c]) \in Nat /\ DOMAIN sent[c] = 1 .. Len(sent[c])
      BY SentSeq
    <3> QED
      BY <2>5, <3>1, <3>2
  <2>7. answer'.receipt = sent[c][m.n].receipt
    BY <1>3, <2>3, <2>4 DEF Incoming
  <2> QED
    BY <2>5, <2>6, <2>7
<1> QED
  BY <1>2, <1>5 DEF ReceiptInv, ReceiptsEntered, LastReceiptFits, Client!CommandOf

LEMMA NextReceipts ==
  ASSUME TypeInv, ClientInv, LogoutLastInv, RestTypes, SocketFits, RequestInv, ReceiptInv,
         [PlatformNext]_platformVars
  PROVE  ReceiptInv'
<1>1. CASE LoginTyped
  BY <1>1 DEF LoginTyped, Client!Login, ClientInv, KeyboardFits, SocketFits, ReceiptInv,
              ReceiptsEntered, LastReceiptFits, ReceiptRead
<1>2. CASE EmptyLineTyped \/ PromptInputOver \/ MainThread \/ Crash
  <2>1. Client!Destroyed /\ main' # "session"
    BY <1>2 DEF EmptyLineTyped, PromptInputOver, MainThread, Crash, Client!LoginLineEmpty,
                Client!JoinThreads, Client!RaceCrashes, Client!ProcessEnds
  <2> QED
    BY <2>1, DestroyedReceipts
<1>3. CASE LineTyped \/ InputOverRead
  <2>1. /\ UNCHANGED <<receipts, sent, conn, main, socket, answer>>
        /\ keyboard' # "send"
    BY <1>3 DEF LineTyped, InputOverRead, Client!GetLine, Client!GetLineFails, Client!Proceed,
                Client!tables, link
  <2> QED
    BY <2>1, QuietReceipts
<1>4. CASE KeyboardStep
  <2>1. UNCHANGED <<conn, sent>>
    BY <1>4 DEF KeyboardStep, link
  <2>2. CASE Client!CommandFails
    BY <2>2, DestroyedReceipts DEF Client!CommandFails, Client!ProcessEnds
  <2>3. CASE Client!ProduceReceipt \/ Client!ProduceReceiptAgain
    BY <2>1, <2>3, ProduceReceipts
  <2>4. CASE Client!KeyboardLoop \/ Client!Command \/ Client!NextEvent \/ Client!SummaryDone
    <3>1. UNCHANGED <<receipts, main, socket, answer, line>>
      BY <2>4 DEF Client!KeyboardLoop, Client!Command, Client!NextEvent, Client!SummaryDone,
                  Client!input, Client!tables
    <3>2. keyboard' = "send" => line.verb = "report"
      BY <2>4 DEF Client!KeyboardLoop, Client!Command, Client!NextEvent, Client!SummaryDone,
                  Client!Proceed, Client!Begin, ClientInv, KeyboardFits
    <3> QED
      BY <2>1, <3>1, <3>2, QuietReceipts
  <2> QED
    BY <1>4, <2>2, <2>3, <2>4 DEF KeyboardStep
<1>5. CASE SocketReadFails \/ SocketStep
  <2>1. CASE SocketStep /\ Client!ReportUnreadable
    BY <2>1, DestroyedReceipts DEF Client!ReportUnreadable, Client!ProcessEnds
  <2>2. CASE \/ SocketReadFails
             \/ SocketStep /\ (Client!FindReceipt \/ Client!HandleError \/ Client!AddReport)
    <3>1. /\ UNCHANGED <<receipts, sent, conn, main, keyboard, line>>
          /\ socket' # "findReceipt"
      BY <2>2 DEF SocketReadFails, SocketStep, link, Client!ReadFails, Client!FindReceipt,
                  Client!HandleError, Client!AddReport, Client!input, Client!tables
    <3> QED
      BY <3>1, QuietReceipts
  <2> QED
    BY <1>5, <2>1, <2>2 DEF SocketStep
<1>6. CASE \/ ServerIncrement \/ InputEnds \/ Rest \/ UNCHANGED platformVars
           \/ \E c \in Conns : ServerReceive(c) \/ ServerAbort(c) \/ ServerStep(c)
  <2>1. UNCHANGED program /\ UNCHANGED link
    BY <1>6 DEF ServerIncrement, InputEnds, Rest, platformVars, ServerReceive, ServerAbort,
                ServerStep, clientVars
  <2>2. UNCHANGED <<receipts, sent, conn, main, keyboard, line, socket, answer>>
    BY <2>1 DEF program, link
  <2> QED
    BY <2>2, QuietReceipts
<1> QED
  BY <1>1, <1>2, <1>3, <1>4, <1>5, <1>6, ConnectReceipts, SendReceipts, ReadReceipts
  DEF PlatformNext

\* What is proved of the platform so far.
PlatformInv ==
  /\ ClientInv /\ TypeInv /\ TypeOK /\ RestTypes /\ SocketFits /\ LogoutLastInv

LEMMA PlatformInvHolds == PlatformSpec => []PlatformInv
<1>1. PlatformInit => RestTypes /\ SocketFits
  <2> SUFFICES ASSUME PlatformInit PROVE RestTypes /\ SocketFits
    OBVIOUS
  <2>1. socket = "end" /\ terminateKeyboard = FALSE /\ socketOpen = FALSE
    BY DEF PlatformInit, Client!ClientInit
  <2>2. delivered = 0 /\ lost = FALSE /\ alone = TRUE /\ inputOver = FALSE
    BY DEF PlatformInit
  <2> QED
    BY <2>1, <2>2 DEF RestTypes, SocketFits
<1>2. ClientInv /\ TypeInv /\ TypeOK /\ RestTypes /\ SocketFits /\ LogoutLastInv
        /\ [PlatformNext]_platformVars => RestTypes' /\ SocketFits' /\ LogoutLastInv'
  BY NextTypes, NextLogout
<1>3. ClientInv /\ TypeInv /\ TypeOK /\ RestTypes /\ SocketFits /\ LogoutLastInv => PlatformInv
  BY DEF PlatformInv
<1> QED
  BY <1>1, <1>2, <1>3, InitLogoutLast, PlatformInvariant, PTL DEF PlatformSpec

\* The number in a receipt leads the client to the command it sent under that
\* number (produceReceipt, findReceiptCommand), although some numbers are never
\* sent; and when it is a logout's, the keyboard thread is past its insertions.
THEOREM ReceiptsFound == PlatformSpec => []ReceiptsMatch
<1>1. PlatformInit => RequestInv /\ ReceiptInv
  BY InitRequests, InitReceipts
<1>2. PlatformInv /\ PlatformInv' /\ RequestInv /\ ReceiptInv /\ [PlatformNext]_platformVars
        => RequestInv' /\ ReceiptInv'
  BY NextRequests, NextReceipts DEF PlatformInv
<1>3. PlatformInv /\ RequestInv /\ ReceiptInv => ReceiptsMatch
  <2> SUFFICES ASSUME PlatformInv, ReceiptInv, socket = "findReceipt"
               PROVE  /\ \E i \in DOMAIN sent[conn] :
                           /\ sent[conn][i].receipt = answer.receipt
                           /\ sent[conn][i].frame.command = Client!ReceiptCommand(answer)
                      /\ Client!ReceiptCommand(answer) = "DISCONNECT" => ~ Client!Inserting
    BY DEF ReceiptsMatch
  <2>1. main = "session"
    BY DEF PlatformInv, SocketFits
  <2>2. PICK i \in DOMAIN sent[conn] : /\ sent[conn][i].receipt = answer.receipt
                                       /\ sent[conn][i].frame.command \in Receipted
    BY DEF ReceiptInv, ReceiptRead
  <2>3. sent[conn][i].frame.command = Client!ReceiptCommand(answer)
    BY <2>1, <2>2 DEF ReceiptInv, ReceiptsEntered, Client!ReceiptCommand
  <2>4. Client!ReceiptCommand(answer) = "DISCONNECT" => ~ Client!Inserting
    BY <2>1, <2>2, <2>3 DEF PlatformInv, LogoutLastInv, HasLogout, Client!Inserting
  <2> QED
    BY <2>2, <2>3, <2>4
<1> QED
  BY <1>1, <1>2, <1>3, PlatformInvHolds, PTL DEF PlatformSpec

-----------------------------------------------------------------------------
(***************************************************************************)
(* Both ends keep a table of the channels a session has joined; s below is *)
(* the sequence of what was sent in it.                                    *)
(***************************************************************************)
Joins(f, ch, id) == f.command = "SUBSCRIBE" /\ f.destination = ch /\ f.id = id

Exits(f, id) == f.command = "UNSUBSCRIBE" /\ f.id = id

\* After the first n frames channel ch is joined under id.
Holds(s, n, ch, id) ==
  \E i \in 1 .. n :
    /\ Joins(s[i].frame, ch, id)
    /\ \A j \in i + 1 .. n : ~ Exits(s[j].frame, id)

\* The table T is the one the first n frames lead to.
Agrees(T, s, n) ==
  \A ch \in Channels, id \in SubIds : T[ch] = id <=> Holds(s, n, ch, id)

\* Frame i asks for what the frames before it allow.
FitsBefore(s, i) ==
  LET f == s[i].frame IN
  /\ f.command = "SUBSCRIBE" => \A id \in SubIds : ~ Holds(s, i - 1, f.destination, id)
  /\ f.command = "UNSUBSCRIBE" => \E ch \in Channels : Holds(s, i - 1, ch, f.id)
  /\ f.command = "SEND" => \E id \in SubIds : Holds(s, i - 1, f.destination, id)

IdsDistinct(s) ==
  \A i, j \in DOMAIN s :
    /\ s[i].frame.command = "SUBSCRIBE" /\ s[j].frame.command = "SUBSCRIBE"
    /\ s[i].frame.id = s[j].frame.id
    => i = j

SentFits ==
  \A c \in Conns : IdsDistinct(sent[c]) /\ \A i \in DOMAIN sent[c] : FitsBefore(sent[c], i)

\* The client's table is ahead: it agrees with all that was sent.
ClientTable ==
  /\ main # "session" => \A ch \in Channels : subscriptions[ch] = None
  /\ main = "session" =>
       /\ Agrees(subscriptions, sent[conn], Len(sent[conn]))
       /\ \A i \in DOMAIN sent[conn] :
            sent[conn][i].frame.command = "SUBSCRIBE" =>
              sent[conn][i].frame.id \in 0 .. subscriptionId - 1

\* What the keyboard thread saw in the table still holds when it sends.
KeyboardKnows ==
  /\ keyboard = "send" /\ line.verb = "join" => subscriptions[line.channel] = None
  /\ keyboard \in {"report", "send"} /\ line.verb = "report"
       => subscriptions[line.file.channel] # None

ClientTableInv == SentFits /\ ClientTable /\ KeyboardKnows

\* The table of connection c at the server.
Table(c) == [ch \in Channels |-> IF HasChannel(ch) THEN MapOf(ch)[c] ELSE None]

\* The thread of c has still to enter the frame it works on, or has entered it.
ToEnter(c) ==
  \/ pc[c] \in {"findChannel", "findSubscriber", "putSubscription", "createChannel",
                "removeSubscription"}
  \/ pc[c] \in {"walkChannels", "walked"} /\ frame[c].command = "SUBSCRIBE"

Entered(c) ==
  \/ Reading(c)
  \/ pc[c] \in {"userConnectedAlready", "hasRegistered", "checkPasscode", "addUser", "logIn",
                "sendConnected", "findSubscription", "getSubscription", "openBroadcast",
                "broadcast", "sendReceipt"}
  \/ pc[c] \in {"walkChannels", "walked"} /\ frame[c].command = "UNSUBSCRIBE"

Ending == {"findLogin", "dropLogin", "sweep", "removeConnection"}

\* The frames the server may refuse: OnlyLoginsRefused names them.
Refusable(f) == f.command = "CONNECT" \/ (f.command = "UNSUBSCRIBE" /\ f.id \notin CachedIds)

\* The server's table agrees with the frames that were entered, and the thread
\* refuses only what may be refused.
ServerTable(c) ==
  /\ pc[c] # "new"
  /\ ToEnter(c) => Agrees(Table(c), sent[c], count[c] - 1)
  /\ Entered(c) => Agrees(Table(c), sent[c], count[c])
  /\ pc[c] \in {"findSubscriber", "putSubscription"} => HasChannel(frame[c].destination)
  /\ pc[c] = "createChannel" => ~ HasChannel(frame[c].destination)
  /\ pc[c] \in {"sendError", "sendErrorTwice"} => Refusable(frame[c])
  /\ pc[c] \in Ending => shouldTerminate[c] \/ ~ open[c]

ErrorsFit(c) ==
  \A i \in DOMAIN out[c] :
    out[c][i].command = "ERROR" => Refusable(sent[c][out[c][i].n].frame)

OthersIdle(c) == \A k \in Conns \ {c} : pc[k] \in {"new", "dead"}

\* Of a session that found the server idle.
AloneFits ==
  \A c \in Conns : alone /\ c = conn => OthersIdle(c) /\ ServerTable(c) /\ ErrorsFit(c)

-----------------------------------------------------------------------------
LEMMA HoldsStep ==
  ASSUME NEW s, NEW n \in Nat, NEW ch, NEW id
  PROVE  Holds(s, n + 1, ch, id) <=>
           \/ Joins(s[n + 1].frame, ch, id)
           \/ Holds(s, n, ch, id) /\ ~ Exits(s[n + 1].frame, id)
<1>1. ASSUME Holds(s, n + 1, ch, id), ~ Joins(s[n + 1].frame, ch, id)
      PROVE  Holds(s, n, ch, id) /\ ~ Exits(s[n + 1].frame, id)
  <2>1. PICK i \in 1 .. n + 1 : /\ Joins(s[i].frame, ch, id)
                                /\ \A j \in i + 1 .. n + 1 : ~ Exits(s[j].frame, id)
    BY <1>1 DEF Holds
  <2>2. i # n + 1
    BY <1>1, <2>1
  <2>3. i \in 1 .. n /\ n + 1 \in i + 1 .. n + 1 /\ i + 1 .. n \subseteq i + 1 .. n + 1
    BY <2>1, <2>2
  <2> QED
    BY <2>1, <2>3 DEF Holds
<1>2. ASSUME Joins(s[n + 1].frame, ch, id)
      PROVE  Holds(s, n + 1, ch, id)
  <2>1. n + 1 \in 1 .. n + 1 /\ (n + 1) + 1 .. n + 1 = {}
    OBVIOUS
  <2> QED
    BY <1>2, <2>1 DEF Holds
<1>3. ASSUME Holds(s, n, ch, id), ~ Exits(s[n + 1].frame, id)
      PROVE  Holds(s, n + 1, ch, id)
  <2>1. PICK i \in 1 .. n : /\ Joins(s[i].frame, ch, id)
                            /\ \A j \in i + 1 .. n : ~ Exits(s[j].frame, id)
    BY <1>3 DEF Holds
  <2>2. i \in 1 .. n + 1 /\ \A j \in i + 1 .. n + 1 : j \in i + 1 .. n \/ j = n + 1
    BY <2>1
  <2>3. \A j \in i + 1 .. n + 1 : ~ Exits(s[j].frame, id)
    BY <1>3, <2>1, <2>2
  <2> QED
    BY <2>1, <2>2, <2>3 DEF Holds
<1> QED
  BY <1>1, <1>2, <1>3

LEMMA HoldsPrefix ==
  ASSUME NEW s, NEW t, NEW n \in Nat, \A i \in 1 .. n : s[i] = t[i], NEW ch, NEW id
  PROVE  Holds(s, n, ch, id) <=> Holds(t, n, ch, id)
<1>1. \A i \in 1 .. n : i + 1 .. n \subseteq 1 .. n
  OBVIOUS
<1> QED
  BY <1>1 DEF Holds

LEMMA AgreesPrefix ==
  ASSUME NEW s, NEW t, NEW n \in Nat, \A i \in 1 .. n : s[i] = t[i], NEW T
  PROVE  Agrees(T, s, n) <=> Agrees(T, t, n)
<1>1. \A ch, id : Holds(s, n, ch, id) <=> Holds(t, n, ch, id)
  BY HoldsPrefix
<1> QED
  BY <1>1 DEF Agrees

LEMMA FitsPrefix ==
  ASSUME NEW s, NEW t, NEW n \in Nat, \A i \in 1 .. n : s[i] = t[i], NEW i \in 1 .. n,
         FitsBefore(s, i)
  PROVE  FitsBefore(t, i)
<1>1. i - 1 \in Nat /\ \A j \in 1 .. i - 1 : s[j] = t[j]
  OBVIOUS
<1>2. \A ch, id : Holds(s, i - 1, ch, id) <=> Holds(t, i - 1, ch, id)
  BY <1>1, HoldsPrefix
<1> QED
  BY <1>2 DEF FitsBefore

\* What a table says of the frame that comes next.
LEMMA FitsAgrees ==
  ASSUME NEW s, NEW n \in Nat, NEW T \in [Channels -> SubIds \cup {None}], Agrees(T, s, n),
         s[n + 1].frame \in Frames
  PROVE  FitsBefore(s, n + 1) <=>
           LET f == s[n + 1].frame IN
           /\ f.command = "SUBSCRIBE" => T[f.destination] = None
           /\ f.command = "UNSUBSCRIBE" => \E ch \in Channels : T[ch] = f.id
           /\ f.command = "SEND" => T[f.destination] # None
<1> DEFINE f == s[n + 1].frame
<1>1. (n + 1) - 1 = n
  OBVIOUS
<1>2. /\ f.command = "SUBSCRIBE" => f.destination \in Channels
      /\ f.command = "UNSUBSCRIBE" => f.id \in SubIds
      /\ f.command = "SEND" => f.destination \in Channels
  BY FramesAssumption
  DEF ConnectFrames, SubscribeFrames, UnsubscribeFrames, SendFrames, DisconnectFrames
<1>3. \A ch \in Channels : T[ch] # None <=> \E id \in SubIds : Holds(s, n, ch, id)
  BY ConnectionsAssumption DEF Agrees
<1> HIDE DEF f
<1>4. FitsBefore(s, n + 1) <=>
        /\ f.command = "SUBSCRIBE" => \A id \in SubIds : ~ Holds(s, n, f.destination, id)
        /\ f.command = "UNSUBSCRIBE" => \E ch \in Channels : Holds(s, n, ch, f.id)
        /\ f.command = "SEND" => \E id \in SubIds : Holds(s, n, f.destination, id)
  BY <1>1 DEF FitsBefore, f
<1>5. f.command = "UNSUBSCRIBE" => ((\E ch \in Channels : Holds(s, n, ch, f.id))
                                      <=> \E ch \in Channels : T[ch] = f.id)
  BY <1>2 DEF Agrees
<1> QED
  BY <1>2, <1>3, <1>4, <1>5 DEF f

LEMMA AgreesOther ==
  ASSUME NEW s, NEW n \in Nat, NEW T,
         s[n + 1].frame.command \notin {"SUBSCRIBE", "UNSUBSCRIBE"}
  PROVE  Agrees(T, s, n) <=> Agrees(T, s, n + 1)
<1>1. \A ch, id : Holds(s, n + 1, ch, id) <=> Holds(s, n, ch, id)
  BY HoldsStep DEF Joins, Exits
<1> QED
  BY <1>1 DEF Agrees

\* A table keeps up with a frame that joins a channel, and with one that exits it.
LEMMA AgreesJoin ==
  ASSUME NEW s, NEW n \in Nat, NEW T \in [Channels -> SubIds \cup {None}], Agrees(T, s, n),
         NEW ch \in Channels, NEW id \in SubIds, Joins(s[n + 1].frame, ch, id), T[ch] = None,
         NEW U, U[ch] = id, \A g \in Channels \ {ch} : U[g] = T[g]
  PROVE  Agrees(U, s, n + 1)
<1> SUFFICES ASSUME NEW g \in Channels, NEW k \in SubIds
             PROVE  U[g] = k <=> Holds(s, n + 1, g, k)
  BY DEF Agrees
<1>1. Holds(s, n + 1, g, k) <=> (g = ch /\ k = id) \/ Holds(s, n, g, k)
  BY HoldsStep DEF Joins, Exits
<1>2. T[g] = k <=> Holds(s, n, g, k)
  BY DEF Agrees
<1> QED
  BY <1>1, <1>2, ConnectionsAssumption

LEMMA HoldsUnique ==
  ASSUME NEW s, NEW n \in Nat, 1 .. n \subseteq DOMAIN s, IdsDistinct(s), NEW id,
         NEW g, NEW h, Holds(s, n, g, id), Holds(s, n, h, id)
  PROVE  g = h
<1>1. PICK i \in 1 .. n : Joins(s[i].frame, g, id)
  BY DEF Holds
<1>2. PICK j \in 1 .. n : Joins(s[j].frame, h, id)
  BY DEF Holds
<1>3. i = j
  BY <1>1, <1>2 DEF IdsDistinct, Joins
<1> QED
  BY <1>1, <1>2, <1>3 DEF Joins

LEMMA AgreesExit ==
  ASSUME NEW s, NEW n \in Nat, 1 .. n \subseteq DOMAIN s, IdsDistinct(s),
         NEW T, Agrees(T, s, n),
         NEW ch \in Channels, NEW id \in SubIds, Exits(s[n + 1].frame, id), T[ch] = id,
         NEW U, U[ch] = None, \A g \in Channels \ {ch} : U[g] = T[g]
  PROVE  Agrees(U, s, n + 1)
<1> SUFFICES ASSUME NEW g \in Channels, NEW k \in SubIds
             PROVE  U[g] = k <=> Holds(s, n + 1, g, k)
  BY DEF Agrees
<1>1. Holds(s, n + 1, g, k) <=> k # id /\ Holds(s, n, g, k)
  BY HoldsStep DEF Joins, Exits
<1>2. (T[g] = k <=> Holds(s, n, g, k)) /\ Holds(s, n, ch, id)
  BY DEF Agrees
<1>3. k = id /\ Holds(s, n, g, k) => g = ch
  BY <1>2, HoldsUnique
<1> QED
  BY <1>1, <1>2, <1>3, ConnectionsAssumption

-----------------------------------------------------------------------------
(***************************************************************************)
(* The client's table.                                                     *)
(***************************************************************************)
LEMMA InitTable == PlatformInit => ClientTableInv
  BY DEF PlatformInit, Client!ClientInit, ClientTableInv, SentFits, IdsDistinct, ClientTable,
         KeyboardKnows

LEMMA QuietTable ==
  ASSUME ClientTableInv, UNCHANGED <<sent, conn, subscriptions, subscriptionId>>,
         main' = "session" <=> main = "session",
         keyboard' \in {"report", "send"} =>
           UNCHANGED line /\ (line.verb \in {"join", "report"} => keyboard \in {"report", "send"})
                          /\ (line.verb = "join" => keyboard' = keyboard)
  PROVE  ClientTableInv'
<1>1. SentFits'
  BY DEF ClientTableInv, SentFits
<1>2. ClientTable'
  BY DEF ClientTableInv, ClientTable
<1>3. KeyboardKnows'
  BY DEF ClientTableInv, KeyboardKnows
<1> QED
  BY <1>1, <1>2, <1>3 DEF ClientTableInv

LEMMA DestroyedTable ==
  ASSUME ClientTableInv, Client!Destroyed, main' # "session", UNCHANGED sent
  PROVE  ClientTableInv'
  BY DEF Client!Destroyed, ClientTableInv, SentFits, ClientTable, KeyboardKnows

\* The frames sent so far stay what they were.
LEMMA TransmitFits ==
  ASSUME ClientInv, ClientTableInv, NEW c \in Conns, c = conn, Transmit,
         FitsBefore(sent'[c], Len(sent[c]) + 1), IdsDistinct(sent'[c])
  PROVE  SentFits'
<1>1. /\ DOMAIN sent'[c] = 1 .. Len(sent[c]) + 1
      /\ \A i \in 1 .. Len(sent[c]) : sent'[c][i] = sent[c][i]
      /\ \A k \in Conns \ {c} : sent'[k] = sent[k]
  BY TransmitAppends
<1>2. DOMAIN sent[c] = 1 .. Len(sent[c]) /\ Len(sent[c]) \in Nat
  BY SentSeq
<1>3. \A i \in 1 .. Len(sent[c]) : FitsBefore(sent'[c], i)
  BY <1>1, <1>2, FitsPrefix DEF ClientTableInv, SentFits
<1>4. \A i \in DOMAIN sent'[c] : FitsBefore(sent'[c], i)
  BY <1>1, <1>2, <1>3
<1> QED
  BY <1>1, <1>4 DEF ClientTableInv, SentFits

LEMMA ConnectTable ==
  ASSUME ClientInv, LogoutLastInv, ClientTableInv, SendConnect
  PROVE  ClientTableInv'
<1>1. CASE Client!LoginFails /\ UNCHANGED sent
  BY <1>1, DestroyedTable DEF Client!LoginFails
<1>2. CASE Transmit /\ Client!StartSession
  <2>1. /\ main = "login" /\ main' = "session" /\ line.verb = "login" /\ conn' = conn
        /\ keyboard' = "loop" /\ UNCHANGED <<subscriptions, subscriptionId>>
    BY <1>2 DEF SendConnect, Client!StartSession, Client!tables, ClientInv, ClientTypes
  <2>2. PICK c \in Conns : c = conn
    BY <2>1 DEF ClientInv, ClientTypes
  <2>3. Len(sent[c]) = 0
    BY <2>1, <2>2 DEF LogoutLastInv
  <2>4. DOMAIN sent'[c] = {1} /\ sent'[c][1] = NewSend /\ Len(sent'[c]) = 1
    <3>1. /\ DOMAIN sent'[c] = 1 .. Len(sent[c]) + 1 /\ sent'[c][Len(sent[c]) + 1] = NewSend
          /\ Len(sent'[c]) = Len(sent[c]) + 1
      BY <1>2, <2>2, TransmitAppends
    <3>2. Len(sent[c]) + 1 = 1 /\ 1 .. 1 = {1}
      BY <2>3
    <3> QED
      BY <3>1, <3>2
  <2>5. sent'[c][1].frame.command = "CONNECT"
    BY <2>1, <2>4 DEF NewSend, Client!Output
  <2>6. IdsDistinct(sent'[c]) /\ FitsBefore(sent'[c], 1)
    BY <2>4, <2>5 DEF IdsDistinct, FitsBefore
  <2>7. Agrees(subscriptions, sent'[c], 1)
    <3>1. Agrees(subscriptions, sent'[c], 0)
      BY <2>1, ConnectionsAssumption DEF Agrees, Holds, ClientTableInv, ClientTable
    <3> QED
      BY <2>5, <3>1, AgreesOther
  <2>8. SentFits'
    BY <1>2, <2>2, <2>3, <2>6, TransmitFits
  <2>9. ClientTable'
    BY <2>1, <2>2, <2>4, <2>5, <2>7 DEF ClientTable
  <2> QED
    BY <2>1, <2>8, <2>9 DEF ClientTableInv, KeyboardKnows
<1> QED
  BY <1>1, <1>2 DEF SendConnect

\* The frame the keyboard thread sends fits its table, which then follows it.
LEMMA TransmitTable ==
  ASSUME ClientInv, ClientTableInv, NEW c \in Conns, c = conn, keyboard = "send",
         Client!Sent, Transmit, conn' = conn
  PROVE  SentFits' /\ ClientTable'
<1> DEFINE s == sent[c]
           t == sent'[c]
           n == Len(sent[c])
           f == Client!Output
<1>1. /\ Len(t) = n + 1 /\ DOMAIN t = 1 .. n + 1 /\ t[n + 1].frame = f
      /\ \A i \in 1 .. n : t[i] = s[i]
      /\ DOMAIN s = 1 .. n /\ n \in Nat
  BY TransmitAppends, SentSeq DEF NewSend
<1>2. /\ main = "session" /\ main' = main /\ Client!EnterSubscription
      /\ line.verb \in {"join", "exit", "report", "logout"}
  BY DEF Client!Sent, Client!AfterSend, ClientInv, KeyboardFits
<1>3. f \in Frames
  BY OutputFits
<1>4. /\ subscriptions \in [Channels -> (0 .. MaxLines) \cup {None}]
      /\ subscriptionId \in Nat /\ 0 .. MaxLines \subseteq SubIds /\ MaxLines \in Nat
  BY ClientFramesAssumption, MaxLinesAssumption DEF ClientInv, ClientTypes
<1>5. subscriptions \in [Channels -> SubIds \cup {None}]
  BY <1>4
<1>6. /\ Agrees(subscriptions, s, n) /\ IdsDistinct(s)
      /\ \A i \in 1 .. n : s[i].frame.command = "SUBSCRIBE" => s[i].frame.id \in 0 .. subscriptionId - 1
  BY <1>1, <1>2 DEF ClientTableInv, ClientTable, SentFits
<1>7. Agrees(subscriptions, t, n)
  BY <1>1, <1>6, AgreesPrefix
<1>8. line.verb \in {"join", "exit"} => line.channel \in Channels
  BY LineKinds DEF ClientInv, ClientTypes
<1> HIDE DEF s, t, n
<1>9. /\ line.verb = "join" => /\ f.command = "SUBSCRIBE" /\ f.destination = line.channel
                               /\ f.id = subscriptionId /\ subscriptionId \in 0 .. MaxLines
                               /\ subscriptions[line.channel] = None
      /\ line.verb = "exit" => /\ f.command = "UNSUBSCRIBE" /\ f.id = subscriptions[line.channel]
                               /\ subscriptions[line.channel] # None
      /\ line.verb = "report" => /\ f.command = "SEND" /\ f.destination = line.file.channel
                                 /\ subscriptions[line.file.channel] # None
      /\ line.verb = "logout" => f.command = "DISCONNECT"
  BY <1>4 DEF Client!Output, ClientTableInv, KeyboardKnows, ClientInv, ClientTypes, KeyboardFits
<1> HIDE DEF f
<1>10. FitsBefore(t, n + 1)
  BY <1>1, <1>2, <1>3, <1>5, <1>7, <1>8, <1>9, FitsAgrees
<1>11. f.command = "SUBSCRIBE" => line.verb = "join" /\ f.id = subscriptionId
  BY <1>2, <1>9
<1>12. IdsDistinct(t)
  <2> SUFFICES ASSUME NEW i \in 1 .. n + 1, NEW j \in 1 .. n + 1,
                      t[i].frame.command = "SUBSCRIBE", t[j].frame.command = "SUBSCRIBE",
                      t[i].frame.id = t[j].frame.id
               PROVE  i = j
    BY <1>1 DEF IdsDistinct
  <2>1. CASE i \in 1 .. n /\ j \in 1 .. n
    BY <1>1, <1>6, <2>1 DEF IdsDistinct
  <2>2. ASSUME NEW k \in 1 .. n, t[k].frame.command = "SUBSCRIBE", f.command = "SUBSCRIBE",
               t[k].frame.id = f.id
        PROVE  FALSE
    <3>1. t[k].frame.id \in 0 .. subscriptionId - 1
      BY <1>1, <1>6, <2>2
    <3> QED
      BY <1>4, <1>11, <2>2, <3>1
  <2>3. (i \in 1 .. n \/ i = n + 1) /\ (j \in 1 .. n \/ j = n + 1)
    BY <1>1
  <2> QED
    BY <1>1, <2>1, <2>2, <2>3
<1>13. SentFits'
  BY <1>10, <1>12, TransmitFits DEF t, n
<1>14. Agrees(subscriptions', t, n + 1)
  <2>1. CASE line.verb = "join"
    <3>1. /\ subscriptions'[line.channel] = subscriptionId
          /\ \A g \in Channels \ {line.channel} : subscriptions'[g] = subscriptions[g]
      BY <1>2, <1>5, <1>8, <2>1 DEF Client!EnterSubscription
    <3> QED
      BY <1>1, <1>4, <1>5, <1>7, <1>8, <1>9, <2>1, <3>1, AgreesJoin DEF Joins
  <2>2. CASE line.verb = "exit"
    <3>1. /\ subscriptions'[line.channel] = None
          /\ \A g \in Channels \ {line.channel} : subscriptions'[g] = subscriptions[g]
      BY <1>2, <1>5, <1>8, <2>2 DEF Client!EnterSubscription
    <3>2. subscriptions[line.channel] \in SubIds /\ 1 .. n \subseteq DOMAIN t
      BY <1>1, <1>5, <1>8, <1>9, <2>2
    <3> QED
      BY <1>1, <1>7, <1>8, <1>9, <1>12, <2>2, <3>1, <3>2, AgreesExit DEF Exits
  <2>3. CASE line.verb \in {"report", "logout"}
    <3>1. subscriptions' = subscriptions
      BY <1>2, <2>3 DEF Client!EnterSubscription
    <3> QED
      BY <1>1, <1>7, <1>9, <2>3, <3>1, AgreesOther
  <2> QED
    BY <1>2, <2>1, <2>2, <2>3
<1>15. \A i \in 1 .. n + 1 :
         t[i].frame.command = "SUBSCRIBE" => t[i].frame.id \in 0 .. subscriptionId' - 1
  <2>1. 0 .. subscriptionId - 1 \subseteq 0 .. subscriptionId' - 1
    BY <1>2, <1>4 DEF Client!EnterSubscription
  <2>2. line.verb = "join" => subscriptionId \in 0 .. subscriptionId' - 1
    BY <1>2, <1>4 DEF Client!EnterSubscription
  <2>3. \A i \in 1 .. n :
          t[i].frame.command = "SUBSCRIBE" => t[i].frame.id \in 0 .. subscriptionId' - 1
    BY <1>1, <1>6, <2>1
  <2>4. t[n + 1].frame.command = "SUBSCRIBE" => t[n + 1].frame.id \in 0 .. subscriptionId' - 1
    BY <1>1, <1>11, <2>2
  <2> QED
    BY <1>1, <2>3, <2>4
<1>16. ClientTable'
  BY <1>1, <1>2, <1>14, <1>15 DEF ClientTable, t
<1> QED
  BY <1>13, <1>16

LEMMA SendTable ==
  ASSUME ClientInv, ClientTableInv, KeyboardSend
  PROVE  ClientTableInv'
<1>1. /\ keyboard = "send" /\ main = "session" /\ Client!AfterSend /\ UNCHANGED conn
      /\ line.verb \in {"join", "exit", "report", "logout"}
  BY DEF KeyboardSend, Client!Sent, Client!SendFails, ClientInv, KeyboardFits
<1>2. /\ UNCHANGED <<main, line>> /\ keyboard' \in {"report", "loop"}
      /\ keyboard' = "report" => line.verb = "report"
  BY <1>1 DEF Client!AfterSend, Client!Proceed
<1>3. CASE Client!SendFails /\ UNCHANGED sent
  BY <1>1, <1>2, <1>3, QuietTable DEF Client!SendFails
<1>4. CASE Client!Sent /\ Transmit
  <2>1. PICK c \in Conns : c = conn
    BY <1>1 DEF ClientInv, ClientTypes
  <2>2. SentFits' /\ ClientTable'
    BY <1>1, <1>4, <2>1, TransmitTable
  <2>3. keyboard' = "report" => UNCHANGED subscriptions
    BY <1>2, <1>4 DEF Client!Sent, Client!EnterSubscription
  <2>4. KeyboardKnows'
    BY <1>1, <1>2, <2>3 DEF ClientTableInv, KeyboardKnows
  <2> QED
    BY <2>2, <2>4 DEF ClientTableInv
<1> QED
  BY <1>3, <1>4 DEF KeyboardSend

LEMMA KeyboardTable ==
  ASSUME ClientInv, ClientTableInv, KeyboardStep
  PROVE  ClientTableInv'
<1>1. UNCHANGED <<conn, sent>>
  BY DEF KeyboardStep, link
<1>2. CASE Client!CommandFails
  BY <1>1, <1>2, DestroyedTable DEF Client!CommandFails, Client!ProcessEnds
<1>3. CASE Client!KeyboardLoop \/ Client!NextEvent \/ Client!SummaryDone
  <2>1. /\ UNCHANGED <<main, line, subscriptions, subscriptionId>>
        /\ keyboard' \in {"report", "send"} => keyboard = "report" /\ line.verb = "report"
    BY <1>3 DEF Client!KeyboardLoop, Client!NextEvent, Client!SummaryDone, Client!Proceed,
                Client!input, Client!tables, ClientInv, KeyboardFits
  <2> QED
    BY <1>1, <2>1, QuietTable
<1>4. CASE \/ Client!Command \/ Client!ProduceReceipt \/ Client!ProduceReceiptAgain
  <2>1. UNCHANGED <<main, line, subscriptions, subscriptionId>>
    BY <1>4 DEF Client!Command, Client!ProduceReceipt, Client!ProduceReceiptAgain,
                Client!input, Client!tables
  <2>2. SentFits' /\ ClientTable'
    BY <1>1, <2>1 DEF ClientTableInv, SentFits, ClientTable
  <2>3. KeyboardKnows'
    BY <1>4, <2>1 DEF KeyboardKnows, Client!Command, Client!ProduceReceipt,
                      Client!ProduceReceiptAgain, Client!Proceed, Client!Begin, Client!ToSend,
                      Client!Joined, ClientInv, KeyboardFits
  <2> QED
    BY <2>2, <2>3 DEF ClientTableInv
<1> QED
  BY <1>2, <1>3, <1>4 DEF KeyboardStep

LEMMA NextTable ==
  ASSUME ClientInv, LogoutLastInv, ClientTableInv, SocketFits, [PlatformNext]_platformVars
  PROVE  ClientTableInv'
<1>1. CASE LoginTyped
  <2>1. /\ main = "getline" /\ main' = "login" /\ keyboard' = "end"
        /\ UNCHANGED <<sent, subscriptions, subscriptionId>>
    BY <1>1 DEF LoginTyped, Client!Login, Client!tables, ClientInv, KeyboardFits
  <2> QED
    BY <2>1 DEF ClientTableInv, SentFits, ClientTable, KeyboardKnows
<1>2. CASE EmptyLineTyped \/ PromptInputOver \/ MainThread \/ Crash
  <2>1. Client!Destroyed /\ main' # "session" /\ UNCHANGED sent
    BY <1>2 DEF EmptyLineTyped, PromptInputOver, MainThread, Crash, Client!LoginLineEmpty,
                Client!JoinThreads, Client!RaceCrashes, Client!ProcessEnds, link
  <2> QED
    BY <2>1, DestroyedTable
<1>3. CASE LineTyped \/ InputOverRead
  <2>1. /\ UNCHANGED <<sent, conn, main, subscriptions, subscriptionId>>
        /\ keyboard' \notin {"report", "send"}
    BY <1>3 DEF LineTyped, InputOverRead, Client!GetLine, Client!GetLineFails, Client!Proceed,
                Client!tables, link
  <2> QED
    BY <2>1, QuietTable
<1>4. CASE SocketRead \/ SocketReadFails \/ SocketStep
  <2>1. CASE SocketStep /\ Client!ReportUnreadable
    BY <2>1, DestroyedTable DEF Client!ReportUnreadable, Client!ProcessEnds, SocketStep, link
  <2>2. CASE SocketRead
    <3>1. PICK m : Client!ReadFrame(m)
      BY <2>2 DEF SocketRead
    <3>2. UNCHANGED <<sent, conn, main, keyboard, line, subscriptions, subscriptionId>>
      BY <2>2, <3>1 DEF SocketRead, Client!ReadFrame, Client!input, Client!tables
    <3> QED
      BY <3>2, QuietTable
  <2>3. CASE \/ SocketReadFails
             \/ SocketStep /\ (Client!FindReceipt \/ Client!HandleError \/ Client!AddReport)
    <3>1. UNCHANGED <<sent, conn, main, keyboard, line, subscriptions, subscriptionId>>
      BY <2>3 DEF SocketReadFails, SocketStep, link, Client!ReadFails, Client!FindReceipt,
                  Client!HandleError, Client!AddReport, Client!input, Client!tables
    <3> QED
      BY <3>1, QuietTable
  <2> QED
    BY <1>4, <2>1, <2>2, <2>3 DEF SocketStep
<1>5. CASE \/ ServerIncrement \/ InputEnds \/ Rest \/ UNCHANGED platformVars
           \/ \E c \in Conns : ServerReceive(c) \/ ServerAbort(c) \/ ServerStep(c)
  <2>1. UNCHANGED program /\ UNCHANGED link
    BY <1>5 DEF ServerIncrement, InputEnds, Rest, platformVars, ServerReceive, ServerAbort,
                ServerStep, clientVars
  <2>2. UNCHANGED <<sent, conn, main, keyboard, line, subscriptions, subscriptionId>>
    BY <2>1 DEF program, link
  <2> QED
    BY <2>2, QuietTable
<1> QED
  BY <1>1, <1>2, <1>3, <1>4, <1>5, ConnectTable, SendTable, KeyboardTable DEF PlatformNext

-----------------------------------------------------------------------------
(***************************************************************************)
(* The server's table, in a session that found the server idle.            *)
(***************************************************************************)
LEMMA TableType ==
  ASSUME TypeOK, NEW c \in Conns
  PROVE  /\ Table(c) \in [Channels -> SubIds \cup {None}]
         /\ \A ch \in Channels :
              /\ HasChannel(ch) => /\ channelsSubscriptions[ch] \in Conns
                                   /\ Table(c)[ch] = subscribers[ch][channelsSubscriptions[ch]][c]
              /\ ~ HasChannel(ch) => Table(c)[ch] = None
              /\ IsSubscribed(ch, c) <=> Table(c)[ch] # None
<1>1. \A ch \in Channels : HasChannel(ch) =>
        /\ channelsSubscriptions[ch] \in Conns
        /\ subscribers[ch][channelsSubscriptions[ch]][c] \in SubIds \cup {None}
  BY ServerTypes DEF HasChannel
<1> QED
  BY <1>1 DEF Table, MapOf, IsSubscribed

\* The frame the thread works on, among those that were sent.
LEMMA FrameNow ==
  ASSUME TypeInv, ClientInv, RequestInv, NEW c \in Conns, Working(c)
  PROVE  /\ count[c] \in Nat /\ count[c] - 1 \in Nat /\ (count[c] - 1) + 1 = count[c]
         /\ count[c] \in DOMAIN sent[c]
         /\ 1 .. count[c] - 1 \subseteq DOMAIN sent[c]
         /\ frame[c] = sent[c][count[c]].frame
         /\ frame[c] \in Frames
<1>1. count[c] \in Nat /\ count[c] # 0 /\ count[c] <= Len(sent[c])
  BY ServerTypes, ConnectionsAssumption DEF TypeInv, RequestInv, RequestsMatch
<1>2. /\ sent[c] \in Seq(Sends) /\ Len(sent[c]) \in Nat /\ DOMAIN sent[c] = 1 .. Len(sent[c])
  BY SentSeq
<1>3. count[c] \in DOMAIN sent[c] /\ 1 .. count[c] - 1 \subseteq DOMAIN sent[c]
  BY <1>1, <1>2
<1>4. frame[c] = sent[c][count[c]].frame
  BY <1>1 DEF RequestInv, RequestsMatch
<1>5. sent[c][count[c]] \in Sends
  BY <1>2, <1>3
<1> QED
  BY <1>1, <1>3, <1>4, <1>5 DEF Sends

\* Steps that leave the tables alone.
LEMMA QuietServerTable ==
  ASSUME NEW c \in Conns, ServerTable(c),
         UNCHANGED <<frame, count, sent, channelsSubscriptions, subscribers>>,
         pc'[c] # "new",
         ToEnter(c)' => ToEnter(c), Entered(c)' => Entered(c),
         pc'[c] \in {"findSubscriber", "putSubscription"} => HasChannel(frame[c].destination),
         pc'[c] = "createChannel" => ~ HasChannel(frame[c].destination),
         pc'[c] \in {"sendError", "sendErrorTwice"} => Refusable(frame[c]),
         pc'[c] \in Ending => shouldTerminate'[c] \/ ~ open'[c]
  PROVE  ServerTable(c)'
<1>1. Table(c)' = Table(c) /\ \A ch : HasChannel(ch)' <=> HasChannel(ch)
  BY DEF Table, HasChannel, MapOf
<1> QED
  BY <1>1 DEF ServerTable, HasChannel

LEMMA ConnectServer ==
  ASSUME TypeInv, NEW c \in Conns, ServerTable(c), Connect(c), UNCHANGED sent
  PROVE  ServerTable(c)'
<1>1. pc \in [Conns -> Labels] /\ frame[c] \in ConnectFrames
  BY ServerTypes
  DEF TypeInv, FrameFits, Fits, Connect, UserConnectedAlready, HasRegistered, CheckPasscode,
      RegisterUser, LogIn, SendConnected, At
<1>2. /\ UNCHANGED <<frame, count, channelsSubscriptions, subscribers>> /\ Entered(c)
  BY DEF Connect, UserConnectedAlready, HasRegistered, CheckPasscode, RegisterUser, LogIn,
         SendConnected, request, topics, At, Entered
<1>3. pc'[c] \in {"sendError", "sendErrorTwice", "hasRegistered", "checkPasscode", "addUser",
                  "logIn", "sendConnected", "read"}
  BY <1>1 DEF Connect, UserConnectedAlready, HasRegistered, CheckPasscode, RegisterUser, LogIn,
              SendConnected, Goto
<1>4. Refusable(frame[c])
  BY <1>1 DEF Refusable, ConnectFrames
<1> QED
  BY <1>2, <1>3, <1>4, QuietServerTable DEF ToEnter, Ending

LEMMA ToStringChannelsServer ==
  ASSUME TypeInv, NEW c \in Conns, ServerTable(c), ToStringChannels(c), UNCHANGED sent
  PROVE  ServerTable(c)'
<1>1. pc \in [Conns -> Labels] /\ pc[c] \in {"walkChannels", "walked"}
  BY ServerTypes DEF TypeInv, ToStringChannels, WalkChannels, WalkDone, WalkFails, At
<1>2. frame[c].command \in {"SUBSCRIBE", "UNSUBSCRIBE"}
  BY <1>1 DEF TypeInv, FrameFits, Fits, SubscribeFrames, UnsubscribeFrames
<1>3. UNCHANGED <<frame, count, channelsSubscriptions, subscribers>>
  BY DEF ToStringChannels, WalkChannels, WalkDone, WalkFails, request
<1>4. \/ pc'[c] \in {"walked", "dead"}
      \/ pc'[c] = "findChannel" /\ frame[c].command = "SUBSCRIBE"
      \/ pc'[c] = "sendReceipt" /\ frame[c].command = "UNSUBSCRIBE"
  BY <1>1, <1>2 DEF ToStringChannels, WalkChannels, WalkDone, WalkFails, Goto, Die
<1> QED
  BY <1>1, <1>3, <1>4, QuietServerTable DEF ToEnter, Entered, Reading, At, Ending

\* A report is taken only when its sender is in the server's table.
LEMMA SenderSubscribed ==
  ASSUME TypeInv, ClientInv, RequestInv, SentFits, NEW c \in Conns, ServerTable(c),
         pc[c] \in {"findSubscription", "getSubscription", "openBroadcast", "broadcast"}
  PROVE  /\ frame[c].command = "SEND" /\ frame[c].destination \in Channels
         /\ IsSubscribed(frame[c].destination, c)
<1> DEFINE n == count[c] - 1
<1>1. TypeOK /\ Working(c)
  BY DEF TypeInv, Working
<1>2. frame[c].command = "SEND" /\ frame[c].destination \in Channels
  BY DEF TypeInv, FrameFits, Fits, SendFrames
<1>3. Agrees(Table(c), sent[c], count[c])
  BY DEF ServerTable, Entered
<1>4. /\ n \in Nat /\ n + 1 = count[c] /\ count[c] \in DOMAIN sent[c]
      /\ sent[c][n + 1].frame = frame[c] /\ frame[c] \in Frames
  BY <1>1, FrameNow
<1>5. FitsBefore(sent[c], n + 1)
  BY <1>4 DEF SentFits
<1> HIDE DEF n
<1>6. Agrees(Table(c), sent[c], n)
  BY <1>2, <1>3, <1>4, AgreesOther
<1>7. Table(c)[frame[c].destination] # None
  BY <1>1, <1>2, <1>4, <1>5, <1>6, TableType, FitsAgrees
<1> QED
  BY <1>1, <1>2, <1>7, TableType

LEMMA SendReportServer ==
  ASSUME TypeInv, ClientInv, RequestInv, SentFits, NEW c \in Conns, ServerTable(c),
         SendReport(c), UNCHANGED sent
  PROVE  ServerTable(c)'
<1>1. pc \in [Conns -> Labels]
  BY ServerTypes DEF TypeInv
<1>2. /\ UNCHANGED <<frame, count, channelsSubscriptions, subscribers>>
      /\ pc[c] \in {"findSubscription", "getSubscription", "openBroadcast", "broadcast"}
  BY DEF SendReport, FindSubscription, GetSubscription, OpenBroadcast, Broadcast,
         BroadcastFails, BroadcastDone, request, topics, At
<1>3. IsSubscribed(frame[c].destination, c)
  BY <1>2, SenderSubscribed
<1>4. pc'[c] \in {"getSubscription", "openBroadcast", "broadcast", "dead", "read"}
  <2>1. CASE FindSubscription(c)
    BY <1>1, <1>3, <2>1 DEF FindSubscription, Goto
  <2>2. CASE GetSubscription(c) \/ OpenBroadcast(c)
    BY <1>1, <2>2 DEF GetSubscription, OpenBroadcast, Goto, Die
  <2>3. CASE Broadcast(c)
    BY <2>3 DEF Broadcast, At
  <2>4. CASE BroadcastFails(c) \/ BroadcastDone(c)
    BY <1>1, <2>4 DEF BroadcastFails, BroadcastDone, Goto, Die
  <2> QED
    BY <2>1, <2>2, <2>3, <2>4 DEF SendReport
<1> QED
  BY <1>2, <1>4, QuietServerTable DEF ToEnter, Entered, Ending

LEMMA ReplyServer ==
  ASSUME TypeInv, RequestInv, NEW c \in Conns, ServerTable(c), Reply(c), UNCHANGED sent
  PROVE  ServerTable(c)'
<1>1. pc \in [Conns -> Labels] /\ frame[c] \in Frames \cup {None}
  BY ServerTypes DEF TypeInv
<1>2. UNCHANGED <<frame, count, channelsSubscriptions, subscribers, shouldTerminate>>
  BY DEF Reply, SendReceipt, SendErrorTwice, SendError, request, topics, locals
<1>3. \/ /\ pc[c] = "sendReceipt" /\ pc'[c] = "findLogin" /\ frame[c].command = "DISCONNECT"
      \/ pc[c] = "sendReceipt" /\ pc'[c] = "read"
      \/ pc[c] = "sendErrorTwice" /\ pc'[c] = "sendError"
      \/ pc[c] = "sendError" /\ pc'[c] = "close"
  BY <1>1 DEF Reply, SendReceipt, SendErrorTwice, SendError, Goto, At
<1>4. pc'[c] = "findLogin" => shouldTerminate'[c]
  <2>1. pc'[c] = "findLogin" => count[c] # 0
    BY <1>3 DEF RequestInv, RequestsMatch, Working
  <2> QED
    BY <1>2, <1>3, <2>1 DEF RequestInv, LogoutFlag
<1> QED
  BY <1>2, <1>3, <1>4, QuietServerTable DEF ToEnter, Entered, Reading, At, Ending, ServerTable

\* At its end a session no longer has a table to speak of.
LEMMA EndSessionServer ==
  ASSUME TypeInv, NEW c \in Conns, ServerTable(c), EndSession(c), Process(c)
  PROVE  ServerTable(c)'
<1>1. pc \in [Conns -> Labels] /\ open \in [Conns -> BOOLEAN] /\ TypeOK
  BY ServerTypes DEF TypeInv
<1>2. pc[c] \in Ending \cup {"close"}
  BY DEF EndSession, CloseSocket, FindLogin, DropLogin, SweepChannel, SweepSubscriber,
         SweepFails, SweepDone, Unregister, At, Ending
<1>3. pc'[c] \in Ending \cup {"read", "dead"}
  BY <1>1, <1>2 DEF EndSession, CloseSocket, FindLogin, DropLogin, SweepChannel, SweepSubscriber,
         SweepFails, SweepThrows, SweepDone, Unregister, Goto, Die, Ending, At
<1>4. shouldTerminate'[c] \/ ~ open'[c]
  <2>1. CASE pc[c] = "close"
    BY <1>1, <2>1 DEF EndSession, CloseSocket, FindLogin, DropLogin, SweepChannel,
       SweepSubscriber, SweepFails, SweepDone, Unregister, At
  <2>2. CASE pc[c] \in Ending
    BY <1>1, <2>2, ProcessEndsOnly DEF ServerTable
  <2> QED
    BY <1>2, <2>1, <2>2
<1> QED
  BY <1>3, <1>4 DEF ServerTable, ToEnter, Entered, Reading, At, Ending

\* SUBSCRIBE: the thread finds the channel not joined, and nobody else is there
\* to change that, or to lose its entry.
LEMMA SubscribeServer ==
  ASSUME TypeInv, ClientInv, RequestInv, SentFits, NEW c \in Conns, OthersIdle(c),
         ServerTable(c), Subscribe(c), UNCHANGED sent
  PROVE  ServerTable(c)'
<1> DEFINE n == count[c] - 1
           s == sent[c]
           ch == frame[c].destination
<1>1. /\ pc \in [Conns -> Labels] /\ TypeOK
      /\ channelsSubscriptions \in [Channels -> Conns \cup {None}]
      /\ subscribers \in [Channels -> [Conns -> [Conns -> SubIds \cup {None}]]]
  BY ServerTypes DEF TypeInv
<1>2. /\ UNCHANGED <<frame, count>> /\ Working(c)
      /\ pc[c] \in {"findChannel", "findSubscriber", "putSubscription", "createChannel"}
  BY DEF Subscribe, FindChannel, FindSubscriber, PutSubscription, CreateChannel, request, At,
         Working
<1>3. frame[c].command = "SUBSCRIBE" /\ ch \in Channels /\ frame[c].id \in SubIds
  BY <1>2 DEF TypeInv, FrameFits, Fits, SubscribeFrames
<1>4. /\ n \in Nat /\ n + 1 = count[c] /\ count[c] \in DOMAIN s
      /\ s[n + 1].frame = frame[c] /\ frame[c] \in Frames
  BY <1>2, FrameNow
<1>5. Agrees(Table(c), s, n)
  BY <1>2 DEF ServerTable, ToEnter
<1>6. FitsBefore(s, n + 1)
  BY <1>4 DEF SentFits
<1> HIDE DEF n, s
<1>7. Table(c)[ch] = None
  BY <1>1, <1>3, <1>4, <1>5, <1>6, TableType, FitsAgrees
<1>8. ~ IsSubscribed(ch, c)
  BY <1>1, <1>3, <1>7, TableType
<1>9. CASE FindChannel(c) \/ FindSubscriber(c)
  <2>1. UNCHANGED <<channelsSubscriptions, subscribers>>
    BY <1>9 DEF FindChannel, FindSubscriber, topics
  <2>2. \/ pc'[c] = "findSubscriber" /\ HasChannel(ch)
        \/ pc'[c] = "createChannel" /\ ~ HasChannel(ch)
        \/ pc'[c] = "putSubscription" /\ pc[c] = "findSubscriber"
    BY <1>1, <1>8, <1>9 DEF FindChannel, FindSubscriber, Goto, At
  <2> QED
    BY <1>2, <2>1, <2>2, QuietServerTable
    DEF ToEnter, Entered, Reading, At, Ending, ServerTable
\* What is entered puts the table in step with the frame.
<1>10. ASSUME Table(c)'[ch] = frame[c].id, \A g \in Channels \ {ch} : Table(c)'[g] = Table(c)[g],
              pc'[c] = "sendReceipt"
       PROVE  ServerTable(c)'
  <2>1. Joins(s[n + 1].frame, ch, frame[c].id)
    BY <1>3, <1>4 DEF Joins
  <2>2. Agrees(Table(c)', s, n + 1)
    BY <1>1, <1>3, <1>4, <1>5, <1>7, <1>10, <2>1, TableType, AgreesJoin
  <2>3. Agrees(Table(c)', sent'[c], count'[c])
    BY <1>2, <1>4, <2>2 DEF s
  <2> QED
    BY <1>10, <2>3 DEF ServerTable, ToEnter, Entered, Ending
<1>11. CASE PutSubscription(c)
  <2>1. /\ UNCHANGED channelsSubscriptions /\ pc'[c] = "sendReceipt"
        /\ HasChannel(ch)
    BY <1>1, <1>11 DEF PutSubscription, Goto, At, ServerTable
  <2>2. ~ ConcurrentWriter(c, ch)
    BY DEF ConcurrentWriter, OthersIdle, At
  <2> DEFINE m == channelsSubscriptions[ch]
  <2>3. subscribers' = [subscribers EXCEPT ![ch][m][c] = frame[c].id]
    BY <1>11, <2>2 DEF PutSubscription, SetEntry
  <2>4. m \in Conns
    BY <1>1, <1>3, <2>1 DEF HasChannel
  <2> HIDE DEF m
  <2>5. \A g \in Channels, q, k \in Conns :
          subscribers'[g][q][k] = IF g = ch /\ q = m /\ k = c THEN frame[c].id
                                  ELSE subscribers[g][q][k]
    BY <1>1, <2>3, OneEntry
  <2>6. Table(c)'[ch] = frame[c].id
    BY <1>3, <2>1, <2>4, <2>5 DEF Table, HasChannel, MapOf, m
  <2>7. \A g \in Channels \ {ch} : Table(c)'[g] = Table(c)[g]
    BY <1>1, <2>1, <2>5 DEF Table, HasChannel, MapOf
  <2> QED
    BY <1>10, <2>1, <2>6, <2>7
<1>12. CASE CreateChannel(c)
  <2>1. /\ channelsSubscriptions' = [channelsSubscriptions EXCEPT ![ch] = c]
        /\ subscribers' = [subscribers EXCEPT ![ch][c] = [EmptyMap EXCEPT ![c] = frame[c].id]]
        /\ pc'[c] = "sendReceipt"
    BY <1>1, <1>12 DEF CreateChannel, CreateChannelMap, Goto
  <2>2. /\ channelsSubscriptions'[ch] = c /\ subscribers'[ch][c][c] = frame[c].id
        /\ \A g \in Channels \ {ch} : /\ channelsSubscriptions'[g] = channelsSubscriptions[g]
                                      /\ subscribers'[g] = subscribers[g]
    BY <1>1, <1>3, <2>1 DEF EmptyMap
  <2>3. c # None
    BY ConnectionsAssumption
  <2>4. Table(c)'[ch] = frame[c].id
    BY <1>3, <2>2, <2>3 DEF Table, HasChannel, MapOf
  <2>5. \A g \in Channels \ {ch} : Table(c)'[g] = Table(c)[g]
    BY <2>2 DEF Table, HasChannel, MapOf
  <2> QED
    BY <1>10, <2>1, <2>4, <2>5
<1> QED
  BY <1>9, <1>11, <1>12 DEF Subscribe

\* UNSUBSCRIBE: the id is there; only one outside the Integer cache is not found.
LEMMA UnsubscribeServer ==
  ASSUME TypeInv, ClientInv, RequestInv, SentFits, NEW c \in Conns, OthersIdle(c),
         ServerTable(c), RemoveSubscription(c), UNCHANGED sent
  PROVE  ServerTable(c)'
<1> DEFINE n == count[c] - 1
           s == sent[c]
           id == frame[c].id
<1>1. /\ pc \in [Conns -> Labels] /\ TypeOK
      /\ channelsSubscriptions \in [Channels -> Conns \cup {None}]
      /\ subscribers \in [Channels -> [Conns -> [Conns -> SubIds \cup {None}]]]
  BY ServerTypes DEF TypeInv
<1>2. /\ UNCHANGED <<frame, count, channelsSubscriptions>> /\ Working(c)
      /\ pc[c] = "removeSubscription"
  BY DEF RemoveSubscription, request, At, Working
<1>3. frame[c].command = "UNSUBSCRIBE" /\ id \in SubIds
  BY <1>2 DEF TypeInv, FrameFits, Fits, UnsubscribeFrames
<1>4. /\ n \in Nat /\ n + 1 = count[c] /\ count[c] \in DOMAIN s /\ 1 .. n \subseteq DOMAIN s
      /\ s[n + 1].frame = frame[c] /\ frame[c] \in Frames
  BY <1>2, FrameNow
<1>5. Agrees(Table(c), s, n)
  BY <1>2 DEF ServerTable, ToEnter
<1>6. FitsBefore(s, n + 1) /\ IdsDistinct(s)
  BY <1>4 DEF SentFits
<1> HIDE DEF n, s
<1>7. CASE Goto(c, "sendError") /\ UNCHANGED <<subscribers, iter>>
           /\ \A ch \in Channels : ~ HoldsId(c, ch)
  <2>1. PICK ch \in Channels : Table(c)[ch] = id
    BY <1>1, <1>3, <1>4, <1>5, <1>6, TableType, FitsAgrees
  <2>2. IsSubscribed(ch, c) /\ MapOf(ch)[c] = id
    BY <1>1, <1>3, <2>1, TableType, ConnectionsAssumption DEF MapOf, IsSubscribed
  <2>3. id \notin CachedIds
    BY <1>7, <2>2 DEF HoldsId, SameBox
  <2>4. Refusable(frame[c]) /\ pc'[c] = "sendError"
    BY <1>1, <1>3, <1>7, <2>3 DEF Refusable, Goto
  <2> QED
    BY <1>2, <1>7, <2>4, QuietServerTable DEF ToEnter, Entered, Reading, At, Ending
<1>8. ASSUME NEW ch \in Channels, HoldsId(c, ch), Goto(c, "walkChannels"), SetEntry(ch, c, None)
      PROVE  ServerTable(c)'
  <2>1. HasChannel(ch) /\ MapOf(ch)[c] = id
    BY <1>8 DEF HoldsId, IsSubscribed, SameBox
  <2> DEFINE m == channelsSubscriptions[ch]
  <2>2. m \in Conns /\ subscribers' = [subscribers EXCEPT ![ch][m][c] = None]
    BY <1>1, <1>8, <2>1 DEF SetEntry, HasChannel
  <2> HIDE DEF m
  <2>3. \A g \in Channels, q, k \in Conns :
          subscribers'[g][q][k] = IF g = ch /\ q = m /\ k = c THEN None ELSE subscribers[g][q][k]
    BY <1>1, <2>2, OneEntry
  <2>4. Table(c)'[ch] = None /\ Table(c)[ch] = id
    BY <1>2, <2>1, <2>2, <2>3 DEF Table, HasChannel, MapOf, m
  <2>5. \A g \in Channels \ {ch} : Table(c)'[g] = Table(c)[g]
    BY <1>1, <1>2, <2>3 DEF Table, HasChannel, MapOf
  <2>6. Exits(s[n + 1].frame, id)
    BY <1>3, <1>4 DEF Exits
  <2>7. Agrees(Table(c)', s, n + 1)
    BY <1>3, <1>4, <1>5, <1>6, <2>4, <2>5, <2>6, AgreesExit
  <2>8. Agrees(Table(c)', sent'[c], count'[c])
    BY <1>2, <1>4, <2>7 DEF s
  <2>9. pc'[c] = "walkChannels"
    BY <1>1, <1>8 DEF Goto
  <2> QED
    BY <1>2, <1>3, <2>8, <2>9 DEF ServerTable, ToEnter, Entered, Ending
<1>9. \A ch \in Channels : ~ ConcurrentWriter(c, ch)
  BY DEF ConcurrentWriter, OthersIdle, At
<1> QED
  BY <1>7, <1>8, <1>9 DEF RemoveSubscription

\* What process writes is refused only if it may be.
LEMMA ProcessErrors ==
  ASSUME TypeInv, ClientInv, RequestInv, NEW c \in Conns, ServerTable(c), ErrorsFit(c),
         Process(c), UNCHANGED sent
  PROVE  ErrorsFit(c)'
<1> SUFFICES ASSUME NEW i \in DOMAIN out'[c], out'[c][i].command = "ERROR"
             PROVE  Refusable(sent[c][out'[c][i].n].frame)
  BY DEF ErrorsFit
<1>1. Writes(c) /\ Working(c)
  BY ProcessWrites, ProcessRequest
<1>2. CASE i \in DOMAIN out[c] /\ out'[c][i] = out[c][i]
  BY <1>2 DEF ErrorsFit
<1>3. CASE pc[c] \in {"sendError", "sendErrorTwice"} /\ out'[c][i] = Error(count[c])
  <2>1. out'[c][i].n = count[c] /\ frame[c] = sent[c][count[c]].frame
    BY <1>1, <1>3, FrameNow DEF Error
  <2>2. Refusable(frame[c])
    BY <1>3 DEF ServerTable
  <2> QED
    BY <2>1, <2>2
<1>4. out'[c][i] # Receipt(count[c])
  BY DEF Receipt
<1> QED
  BY <1>1, <1>2, <1>3, <1>4 DEF Writes

LEMMA ProcessTable ==
  ASSUME TypeInv, ClientInv, RequestInv, SentFits, NEW c \in Conns, OthersIdle(c),
         ServerTable(c), Process(c), UNCHANGED sent
  PROVE  ServerTable(c)'
BY ConnectServer, ToStringChannelsServer, SubscribeServer, UnsubscribeServer, SendReportServer,
   ReplyServer, EndSessionServer DEF Process

\* A thread at work is the one of the session: no other is served.
LEMMA OnlyOne ==
  ASSUME NEW c \in Conns, OthersIdle(c), NEW k \in Conns, pc[k] \notin {"new", "dead"}
  PROVE  k = c
BY DEF OthersIdle

LEMMA ProcessAlone ==
  ASSUME TypeInv, ClientInv, RequestInv, SentFits, AloneFits, NEW k \in Conns, Process(k),
         UNCHANGED <<sent, conn, alone>>
  PROVE  AloneFits'
<1> SUFFICES ASSUME NEW c \in Conns, alone, c = conn
             PROVE  OthersIdle(c)' /\ ServerTable(c)' /\ ErrorsFit(c)'
  BY DEF AloneFits
<1>1. OthersIdle(c) /\ ServerTable(c) /\ ErrorsFit(c)
  BY DEF AloneFits
<1>2. k = c
  BY <1>1, ProcessRequest, OnlyOne DEF Working
<1>3. OthersIdle(c)'
  BY <1>1, <1>2, ProcessMoves DEF OthersIdle, Moves
<1> QED
  BY <1>1, <1>2, <1>3, ProcessErrors, ProcessTable

LEMMA ReceiveAlone ==
  ASSUME TypeInv, ClientInv, AloneFits, NEW k \in Conns, ServerReceive(k)
  PROVE  AloneFits'
<1> SUFFICES ASSUME NEW c \in Conns, alone', c = conn'
             PROVE  OthersIdle(c)' /\ ServerTable(c)' /\ ErrorsFit(c)'
  BY DEF AloneFits
<1> DEFINE n == count[c]
           f == sent[c][n + 1].frame
<1>1. /\ Reading(k) /\ count[k] < Len(sent[k]) /\ Dispatch(k, sent[k][count[k] + 1].frame)
      /\ UNCHANGED <<channelsSubscriptions, subscribers, out, sent, conn, alone>>
  BY DEF ServerReceive, topics, sockets, clientVars, link
<1>2. OthersIdle(c) /\ ServerTable(c) /\ ErrorsFit(c)
  BY <1>1 DEF AloneFits
<1>3. k = c
  BY <1>1, <1>2, OnlyOne DEF Reading, At
<1>4. /\ pc \in [Conns -> Labels] /\ frame \in [Conns -> Frames \cup {None}]
      /\ DOMAIN count = Conns /\ n \in Nat
  BY ServerTypes, ConnectionsAssumption DEF TypeInv
<1>5. frame'[c] = f /\ count'[c] = n + 1 /\ (n + 1) - 1 = n
  BY <1>1, <1>3, <1>4 DEF Dispatch
<1>6. f \in Frames
  <2>1. n + 1 \in DOMAIN sent[c] /\ sent[c] \in Seq(Sends)
    BY <1>1, <1>3, <1>4, SentSeq
  <2>2. sent[c][n + 1] \in Sends
    BY <2>1
  <2> QED
    BY <2>2 DEF Sends
<1>7. f.command \in {"CONNECT", "SUBSCRIBE", "UNSUBSCRIBE", "SEND", "DISCONNECT"}
  BY <1>6, FramesAssumption
  DEF ConnectFrames, SubscribeFrames, UnsubscribeFrames, SendFrames, DisconnectFrames
<1>8. Agrees(Table(c), sent[c], n)
  BY <1>1, <1>2, <1>3 DEF ServerTable, Entered
<1>9. Table(c)' = Table(c)
  BY <1>1 DEF Table, HasChannel, MapOf
<1>10. Agrees(Table(c), sent[c], n + 1) \/ f.command \in {"SUBSCRIBE", "UNSUBSCRIBE"}
  BY <1>4, <1>8, AgreesOther
<1> HIDE DEF f, n
<1>11. /\ Goto(c, CASE f.command = "CONNECT"     -> "userConnectedAlready"
                    [] f.command = "DISCONNECT"  -> "sendReceipt"
                    [] f.command = "UNSUBSCRIBE" -> "removeSubscription"
                    [] f.command = "SUBSCRIBE"   -> "walkChannels"
                    [] f.command = "SEND"        -> "findSubscription")
  BY <1>1, <1>3 DEF Dispatch, f, n
<1>12. \/ pc'[c] \in {"userConnectedAlready", "sendReceipt", "findSubscription"}
            /\ f.command \notin {"SUBSCRIBE", "UNSUBSCRIBE"}
       \/ pc'[c] = "removeSubscription" /\ f.command = "UNSUBSCRIBE"
       \/ pc'[c] = "walkChannels" /\ f.command = "SUBSCRIBE"
  BY <1>4, <1>7, <1>11 DEF Goto
<1>13. ServerTable(c)'
  <2>1. ToEnter(c)' => Agrees(Table(c)', sent'[c], count'[c] - 1)
    BY <1>1, <1>5, <1>8, <1>9
  <2>2. Entered(c)' => Agrees(Table(c)', sent'[c], count'[c])
    BY <1>1, <1>5, <1>9, <1>10, <1>12 DEF Entered, Reading, At
  <2> QED
    BY <1>12, <2>1, <2>2 DEF ServerTable, Ending
<1>14. OthersIdle(c)' /\ ErrorsFit(c)'
  BY <1>1, <1>2, <1>4, <1>11 DEF OthersIdle, ErrorsFit, Goto
<1> QED
  BY <1>13, <1>14

LEMMA EndAlone ==
  ASSUME TypeInv, AloneFits, NEW k \in Conns, Exit(k) \/ Abort(k),
         UNCHANGED <<sent, conn, alone>>
  PROVE  AloneFits'
<1> SUFFICES ASSUME NEW c \in Conns, alone, c = conn
             PROVE  OthersIdle(c)' /\ ServerTable(c)' /\ ErrorsFit(c)'
  BY DEF AloneFits
<1>1. OthersIdle(c) /\ ErrorsFit(c)
  BY DEF AloneFits
<1>2. pc[k] = "read" /\ Goto(k, "dead") /\ UNCHANGED out
  BY DEF Exit, Abort, Reading, At, Die
<1>3. k = c
  BY <1>1, <1>2, OnlyOne
<1>4. pc'[c] = "dead" /\ \A j \in Conns \ {c} : pc'[j] = pc[j]
  BY <1>2, <1>3, ServerTypes DEF TypeInv, Goto
<1>5. ServerTable(c)'
  BY <1>4 DEF ServerTable, ToEnter, Entered, Reading, At, Ending
<1> QED
  BY <1>1, <1>2, <1>4, <1>5 DEF OthersIdle, ErrorsFit

\* A connection that was never used is in nobody's table.
LEMMA AcceptAlone ==
  ASSUME TypeInv, ClientInv, RequestInv, LogoutLastInv, LoginTyped
  PROVE  AloneFits'
<1>1. PICK c \in Conns : c = connectionID
  BY ConnectionsAssumption DEF LoginTyped, Accept, TypeInv, TypeOK, Conns
<1>2. /\ acceptor = "accept" /\ Goto(c, "read") /\ conn' = c
      /\ UNCHANGED <<frame, count, out, sent, channelsSubscriptions, subscribers>>
      /\ alone' => \A k \in Conns : pc[k] \in {"new", "dead"}
  BY <1>1 DEF LoginTyped, Accept, accounts, topics, request, locals, Serving
<1> SUFFICES ASSUME alone'
             PROVE  OthersIdle(c)' /\ ServerTable(c)' /\ ErrorsFit(c)'
  BY <1>2 DEF AloneFits
<1>3. ~ Accepted(c)
  BY <1>1, <1>2 DEF Accepted, Conns
<1>4. sent[c] = << >> /\ count[c] = 0 /\ out[c] = << >>
  <2>1. sent[c] = << >> /\ out[c] = << >>
    BY <1>3 DEF LogoutLastInv, RequestInv, NewIsEmpty
  <2>2. count[c] <= Len(sent[c]) /\ count[c] \in Nat
    BY ServerTypes, ConnectionsAssumption DEF TypeInv, RequestInv, RequestsMatch
  <2> QED
    BY <2>1, <2>2
<1>5. \A ch \in Channels : Table(c)[ch] = None
  <2>1. \A ch \in Channels : HasChannel(ch) => MapOf(ch)[c] = None
    BY <1>3, ServerTypes DEF RequestInv, NewIsEmpty, HasChannel, MapOf, TypeInv
  <2> QED
    BY <2>1 DEF Table
<1>6. Agrees(Table(c), sent[c], count[c])
  BY <1>4, <1>5, ConnectionsAssumption DEF Agrees, Holds
<1>7. pc'[c] = "read" /\ \A k \in Conns \ {c} : pc'[k] = pc[k]
  BY <1>2, ServerTypes DEF TypeInv, Goto
<1>8. Table(c)' = Table(c)
  BY <1>2 DEF Table, HasChannel, MapOf
<1>9. ServerTable(c)'
  BY <1>2, <1>6, <1>7, <1>8 DEF ServerTable, ToEnter, Ending
<1> QED
  BY <1>2, <1>4, <1>7, <1>9 DEF OthersIdle, ErrorsFit

\* The client sends, or does something else.
LEMMA QuietAlone ==
  ASSUME TypeInv, ClientInv, RequestInv, AloneFits, Grown,
         UNCHANGED <<pc, frame, count, out, open, shouldTerminate, channelsSubscriptions,
                     subscribers, conn, alone>>
  PROVE  AloneFits'
<1> SUFFICES ASSUME NEW c \in Conns, alone, c = conn
             PROVE  OthersIdle(c)' /\ ServerTable(c)' /\ ErrorsFit(c)'
  BY DEF AloneFits
<1>1. OthersIdle(c) /\ ServerTable(c) /\ ErrorsFit(c)
  BY DEF AloneFits
<1>2. count[c] \in Nat /\ count[c] <= Len(sent[c]) /\ Len(sent[c]) \in Nat
  BY ServerTypes, ConnectionsAssumption, SentSeq DEF TypeInv, RequestInv, RequestsMatch
<1>3. \A i \in 1 .. count[c] : sent'[c][i] = sent[c][i]
  BY <1>2 DEF Grown
<1>4. Table(c)' = Table(c)
  BY DEF Table, HasChannel, MapOf
<1>5. Agrees(Table(c), sent[c], count[c]) => Agrees(Table(c), sent'[c], count[c])
  BY <1>2, <1>3, AgreesPrefix
<1>6. ToEnter(c) => Agrees(Table(c), sent'[c], count[c] - 1)
  <2> SUFFICES ASSUME ToEnter(c)
               PROVE  Agrees(Table(c), sent'[c], count[c] - 1)
    OBVIOUS
  <2>1. count[c] - 1 \in Nat
    BY <1>2 DEF ToEnter, Working, RequestInv, RequestsMatch
  <2>2. \A i \in 1 .. count[c] - 1 : sent'[c][i] = sent[c][i]
    BY <1>2, <1>3
  <2>3. Agrees(Table(c), sent[c], count[c] - 1)
    BY <1>1 DEF ServerTable
  <2> QED
    BY <2>1, <2>2, <2>3, AgreesPrefix
<1>7. ServerTable(c)'
  BY <1>1, <1>4, <1>5, <1>6
  DEF ServerTable, ToEnter, Entered, Reading, At, HasChannel
<1>8. ErrorsFit(c)'
  <2> SUFFICES ASSUME NEW i \in DOMAIN out[c], out[c][i].command = "ERROR"
               PROVE  Refusable(sent'[c][out[c][i].n].frame)
    BY DEF ErrorsFit
  <2>1. out[c][i].n \in 1 .. count[c]
    BY DEF RequestInv, AnswersMatch
  <2> QED
    BY <1>1, <1>3, <2>1 DEF ErrorsFit
<1> QED
  BY <1>1, <1>7, <1>8 DEF OthersIdle

LEMMA NextAlone ==
  ASSUME TypeInv, ClientInv, LogoutLastInv, RequestInv, SentFits, AloneFits,
         [PlatformNext]_platformVars
  PROVE  AloneFits'
<1> DEFINE seen == <<pc, frame, count, out, open, shouldTerminate, channelsSubscriptions,
                     subscribers, conn, alone>>
<1>1. ASSUME NEW c \in Conns, ServerReceive(c) \/ ServerAbort(c) \/ ServerStep(c)
      PROVE  AloneFits'
  <2>1. CASE ServerReceive(c)
    BY <2>1, ReceiveAlone
  <2>2. CASE ServerAbort(c) \/ (Exit(c) /\ UNCHANGED clientVars)
    BY <2>2, EndAlone DEF ServerAbort, clientVars, link
  <2>3. CASE ProcessStep(c) /\ UNCHANGED clientVars
    BY <2>3, ProcessAlone DEF ProcessStep, clientVars, link
  <2> QED
    BY <1>1, <2>1, <2>2, <2>3 DEF ServerStep
<1>2. CASE SendConnect \/ KeyboardSend
  <2>1. UNCHANGED seen /\ (Transmit \/ UNCHANGED sent) /\ conn \in Conns
    BY <1>2 DEF SendConnect, KeyboardSend, vars, topics, sockets, request, locals, ClientInv,
                ClientTypes, KeyboardFits
  <2>2. Grown
    BY <2>1, TransmitGrows
  <2> QED
    BY <2>1, <2>2, QuietAlone
<1>3. CASE \/ EmptyLineTyped \/ PromptInputOver \/ MainThread \/ LineTyped \/ InputOverRead
           \/ KeyboardStep \/ SocketRead \/ SocketReadFails \/ SocketStep \/ Crash
           \/ InputEnds \/ Rest \/ UNCHANGED platformVars
  <2>1. UNCHANGED <<vars, sent, conn, alone>>
    BY <1>3 DEF EmptyLineTyped, PromptInputOver, MainThread, LineTyped, InputOverRead,
                KeyboardStep, SocketRead, SocketReadFails, SocketStep, Crash, InputEnds, Rest,
                platformVars, link
  <2>2. UNCHANGED seen /\ UNCHANGED sent
    BY <2>1 DEF vars, topics, sockets, request, locals
  <2>3. Grown
    BY <2>2, SentSeq DEF Grown
  <2> QED
    BY <2>2, <2>3, QuietAlone
<1>4. CASE ServerIncrement
  <2>1. UNCHANGED seen /\ UNCHANGED sent
    BY <1>4 DEF ServerIncrement, Increment, topics, sockets, request, locals, clientVars, link
  <2>2. Grown
    BY <2>1, SentSeq DEF Grown
  <2> QED
    BY <2>1, <2>2, QuietAlone
<1> QED
  BY <1>1, <1>2, <1>3, <1>4, AcceptAlone DEF PlatformNext

-----------------------------------------------------------------------------
\* The inductive invariant of both ends.
SessionInv == PlatformInv /\ RequestInv /\ ClientTableInv /\ AloneFits

LEMMA SessionInvHolds == PlatformSpec => []SessionInv
<1>1. PlatformInit => RequestInv /\ ClientTableInv /\ AloneFits
  <2>1. PlatformInit => conn = None
    BY DEF PlatformInit
  <2> QED
    BY <2>1, InitRequests, InitTable, ConnectionsAssumption DEF AloneFits
<1>2. PlatformInv /\ PlatformInv' /\ RequestInv /\ ClientTableInv /\ AloneFits
        /\ [PlatformNext]_platformVars
        => RequestInv' /\ ClientTableInv' /\ AloneFits'
  BY NextRequests, NextTable, NextAlone DEF PlatformInv, ClientTableInv
<1>3. PlatformInv /\ RequestInv /\ ClientTableInv /\ AloneFits => SessionInv
  BY DEF SessionInv
<1> QED
  BY <1>1, <1>2, <1>3, PlatformInvHolds, PTL DEF PlatformSpec

\* The client checks a command against its own table before it sends a frame,
\* and the server, however far behind, refuses none of them but a login (and
\* the exit of an id whose Integer is not cached): in a session nobody else is
\* served in, the receipts the client never waits for cannot be ERRORs.
THEOREM ServerRefusesOnlyLogins == PlatformSpec => []OnlyLoginsRefused
<1>1. SessionInv => OnlyLoginsRefused
  BY DEF SessionInv, AloneFits, ErrorsFit, Refusable, OnlyLoginsRefused, PlatformInv, ClientInv,
         ClientTypes
<1> QED
  BY <1>1, SessionInvHolds, PTL

\* join and exit change the client's table without waiting for the receipt, and
\* the server's table follows one frame after another: when it has taken all
\* that was sent, both have the same channels under the same ids.
THEOREM TablesAgree == PlatformSpec => []SubscriptionsAgree
<1>1. SessionInv => SubscriptionsAgree
  <2> SUFFICES ASSUME SessionInv, Settled, alone, NEW ch \in Channels
               PROVE  subscriptions[ch] = IF HasChannel(ch) THEN MapOf(ch)[conn] ELSE None
    BY DEF SubscriptionsAgree
  <2>1. PICK c \in Conns : c = conn
    BY DEF SessionInv, PlatformInv, ClientInv, ClientTypes, Settled
  <2>2. Reading(c) /\ count[c] = Len(sent[c]) /\ main = "session"
    BY <2>1 DEF Settled, Reading
  <2>3. Agrees(Table(c), sent[c], Len(sent[c]))
    BY <2>1, <2>2 DEF SessionInv, AloneFits, ServerTable, Entered
  <2>4. Agrees(subscriptions, sent[c], Len(sent[c]))
    BY <2>1, <2>2 DEF SessionInv, ClientTableInv, ClientTable
  <2>5. Table(c)[ch] \in SubIds \cup {None}
    BY TableType DEF SessionInv, PlatformInv
  <2>6. subscriptions[ch] \in SubIds \cup {None}
    BY ClientFramesAssumption DEF SessionInv, PlatformInv, ClientInv, ClientTypes
  <2>7. subscriptions[ch] = Table(c)[ch]
    BY <2>3, <2>4, <2>5, <2>6, ConnectionsAssumption DEF Agrees
  <2> QED
    BY <2>1, <2>7 DEF Table
<1> QED
  BY <1>1, SessionInvHolds, PTL

-----------------------------------------------------------------------------
(***************************************************************************)
(* What a client reports in a session that found the server idle comes     *)
(* back to it: s below is the sequence of what was sent, rs that of the    *)
(* reports in it, m a frame written to the client.                         *)
(***************************************************************************)
SendsIn(s) == {i \in DOMAIN s : s[i].frame.command = "SEND"}

\* The reports among the first k frames sent.
Reported(s, k) == Selected(s, {i \in 1 .. k : i \in SendsIn(s)})

\* The numbers of those on channel ch among the first n reports.
Own(c, rs, n, ch) ==
  Selected([i \in 1 .. n |-> <<c, i - 1>>], {i \in 1 .. n : rs[i].frame.destination = ch})

IsOn(m, ch) == m.command = "MESSAGE" /\ m.destination = ch

ReportOf(m) == IF m.command = "MESSAGE" THEN <<m.sender, m.messageID>> ELSE << >>

\* The numbers of the reports on channel ch among the first d frames written.
Got(w, d, ch) == Selected([i \in 1 .. d |-> ReportOf(w[i])], {i \in 1 .. d : IsOn(w[i], ch)})

Taken(c) == Reported(sent[c], count[c])

\* The thread still serves the session.
Serves(c) == ToEnter(c) \/ Entered(c)

\* It works on a report whose broadcast it has not opened yet.
Opening(c) == pc[c] \in {"findSubscription", "getSubscription", "openBroadcast"}

\* How many of its reports its own client has been sent: all but the one on
\* the way, which the client, a subscriber itself, is still to be sent.
BackNumber(c) ==
  IF pc[c] = "broadcast" /\ c \in iter[c].left THEN messageID[c] - 1 ELSE messageID[c]

ServerReports(c) ==
  /\ open[c]
  /\ Len(Taken(c)) = IF Opening(c) THEN messageID[c] + 1 ELSE messageID[c]
  /\ \A ch \in Channels :
       Got(out[c], Len(out[c]), ch) = Own(c, Taken(c), BackNumber(c), ch)

ReportsFit == \A c \in Conns : alone /\ c = conn /\ Serves(c) => ServerReports(c)

NewIsSilent == \A c \in Conns : pc[c] = "new" => messageID[c] = 0

\* The client has stored what it has read, but for the report in its hands.
StoredNumber == IF socket = "message" THEN delivered - 1 ELSE delivered

StoredFits ==
  /\ DOMAIN channels = Channels
  /\ main # "session" => \A ch \in Channels : channels[ch] = << >>
  /\ main = "login" => delivered = 0
  /\ socket # "end" =>
       /\ delivered <= Len(out[conn])
       /\ \A ch \in Channels : channels[ch] = Got(out[conn], StoredNumber, ch)
  /\ socket = "message" =>
       /\ delivered # 0
       /\ answer.destination \in Channels
       /\ out[conn][delivered].command = "MESSAGE"
       /\ answer.destination = out[conn][delivered].destination
       /\ answer.report = ReportOf(out[conn][delivered])

ReportInv == ReportsFit /\ NewIsSilent /\ StoredFits

LEMMA ReportedStep ==
  ASSUME NEW s \in Seq(Sends), NEW k \in Nat, k < Len(s)
  PROVE  Reported(s, k + 1) = IF s[k + 1].frame.command = "SEND"
                              THEN Append(Reported(s, k), s[k + 1]) ELSE Reported(s, k)
<1>1. k + 1 \in DOMAIN s
  OBVIOUS
<1> DEFINE A == {i \in 1 .. k : i \in SendsIn(s)}
           B == {i \in 1 .. k + 1 : i \in SendsIn(s)}
<1>2. (k + 1 \in B) <=> s[k + 1].frame.command = "SEND"
  BY <1>1 DEF SendsIn
<1>3. \A i \in DOMAIN s : i \in B => i <= k + 1
  OBVIOUS
<1>4. \A i \in DOMAIN s : i \in A <=> i \in B /\ i <= k
  OBVIOUS
<1> HIDE DEF A, B
<1>5. Selected(s, B) = IF k + 1 \in B THEN Append(Selected(s, A), s[k + 1]) ELSE Selected(s, A)
  BY <1>3, <1>4, SelectedFurther
<1> QED
  BY <1>2, <1>5 DEF Reported, A, B

LEMMA ReportedType ==
  ASSUME NEW s \in Seq(Sends), NEW k
  PROVE  Reported(s, k) \in Seq(Sends) /\ Len(Reported(s, k)) \in Nat
<1>1. Reported(s, k) \in Seq(Sends)
  BY SelectedType DEF Reported
<1> QED
  BY <1>1, LenProperties

\* What is sent later does not matter.
LEMMA ReportedGrows ==
  ASSUME NEW s \in Seq(Sends), NEW x \in Sends, NEW k \in Nat, k <= Len(s)
  PROVE  Reported(Append(s, x), k) = Reported(s, k)
<1> DEFINE p == Append(s, x)
           I == {i \in 1 .. k : i \in SendsIn(p)}
           J == {i \in 1 .. k : i \in SendsIn(s)}
<1>1. /\ p \in Seq(Sends) /\ Len(s) \in Nat /\ Len(p) = Len(s) + 1 /\ DOMAIN s = 1 .. Len(s)
      /\ DOMAIN p = 1 .. Len(p)
      /\ \A i \in 1 .. Len(s) : p[i] = s[i]
  BY AppendProperties, LenProperties
<1> HIDE DEF p
<1>2. I = J
  BY <1>1 DEF SendsIn
<1>3. ~ (Len(s) + 1 \in J)
  BY <1>1
<1> HIDE DEF J
<1>4. Selected(Append(s, x), J) = Selected(s, J)
  BY <1>3, SelectedAppend
<1> QED
  BY <1>2, <1>4 DEF Reported, p, J

\* When all is taken these are the reports sent.
LEMMA ReportedAll ==
  ASSUME ClientInv, NEW c \in Conns
  PROVE  Reported(sent[c], Len(sent[c])) = ReportsSent(c)
<1>1. DOMAIN sent[c] = 1 .. Len(sent[c])
  BY SentSeq
<1>2. {i \in 1 .. Len(sent[c]) : i \in SendsIn(sent[c])} = SendsIn(sent[c])
  BY <1>1 DEF SendsIn
<1> QED
  BY <1>2 DEF Reported, ReportsSent, SendsIn

LEMMA OwnStep ==
  ASSUME NEW c \in Conns, NEW rs, NEW n \in Nat, NEW ch
  PROVE  Own(c, rs, n + 1, ch) = IF rs[n + 1].frame.destination = ch
                                 THEN Append(Own(c, rs, n, ch), <<c, n>>) ELSE Own(c, rs, n, ch)
<1> DEFINE f == [i \in 1 .. n |-> <<c, i - 1>>]
           g == [i \in 1 .. n + 1 |-> <<c, i - 1>>]
           I == {i \in 1 .. n : rs[i].frame.destination = ch}
           J == {i \in 1 .. n + 1 : rs[i].frame.destination = ch}
           E == Conns \X Int
<1>1. /\ f \in [1 .. n -> E] /\ g \in [1 .. n + 1 -> E]
      /\ \A i \in 1 .. n : g[i] = f[i] /\ (i \in J <=> i \in I)
      /\ (n + 1 \in J <=> rs[n + 1].frame.destination = ch) /\ g[n + 1] = <<c, n>>
  OBVIOUS
<1> HIDE DEF f, g, I, J, E
<1>2. Selected(g, J) = IF n + 1 \in J THEN Append(Selected(f, I), g[n + 1]) ELSE Selected(f, I)
  BY <1>1, SelectedOneMore
<1> QED
  BY <1>1, <1>2 DEF Own, f, g, I, J

\* The first n of the reports decide.
LEMMA OwnAgree ==
  ASSUME NEW c, NEW rs, NEW ps, NEW n \in Nat, \A i \in 1 .. n : rs[i] = ps[i], NEW ch
  PROVE  Own(c, rs, n, ch) = Own(c, ps, n, ch)
<1>1. {i \in 1 .. n : rs[i].frame.destination = ch} = {i \in 1 .. n : ps[i].frame.destination = ch}
  OBVIOUS
<1> QED
  BY <1>1 DEF Own

LEMMA GotStep ==
  ASSUME NEW w, NEW d \in Nat, NEW ch
  PROVE  Got(w, d + 1, ch) = IF IsOn(w[d + 1], ch)
                             THEN Append(Got(w, d, ch), ReportOf(w[d + 1])) ELSE Got(w, d, ch)
<1> DEFINE f == [i \in 1 .. d |-> ReportOf(w[i])]
           g == [i \in 1 .. d + 1 |-> ReportOf(w[i])]
           I == {i \in 1 .. d : IsOn(w[i], ch)}
           J == {i \in 1 .. d + 1 : IsOn(w[i], ch)}
           E == {ReportOf(w[i]) : i \in 1 .. d + 1}
<1>1. \A i \in 1 .. d : i \in 1 .. d + 1
  OBVIOUS
<1>2. f \in [1 .. d -> E]
  BY <1>1
<1>3. g \in [1 .. d + 1 -> E]
  OBVIOUS
<1>4. \A i \in 1 .. d : g[i] = f[i]
  OBVIOUS
<1>5. \A i \in 1 .. d : i \in J <=> i \in I
  BY <1>1
<1>6. (d + 1 \in J <=> IsOn(w[d + 1], ch)) /\ g[d + 1] = ReportOf(w[d + 1])
  OBVIOUS
<1> HIDE DEF f, g, I, J, E
<1>7. Selected(g, J) = IF d + 1 \in J THEN Append(Selected(f, I), g[d + 1]) ELSE Selected(f, I)
  BY <1>2, <1>3, <1>4, <1>5, SelectedOneMore
<1> QED
  BY <1>6, <1>7 DEF Got, f, g, I, J

LEMMA GotAgree ==
  ASSUME NEW w, NEW v, NEW d, \A i \in 1 .. d : w[i] = v[i], NEW ch
  PROVE  Got(w, d, ch) = Got(v, d, ch)
<1>1. [i \in 1 .. d |-> ReportOf(w[i])] = [i \in 1 .. d |-> ReportOf(v[i])]
  OBVIOUS
<1>2. {i \in 1 .. d : IsOn(w[i], ch)} = {i \in 1 .. d : IsOn(v[i], ch)}
  OBVIOUS
<1> QED
  BY <1>1, <1>2 DEF Got

LEMMA GotNone ==
  ASSUME NEW w, NEW ch
  PROVE  Got(w, 0, ch) = << >>
<1>1. [i \in 1 .. 0 |-> ReportOf(w[i])] = << >>
  OBVIOUS
<1> QED
  BY <1>1, SelectedEmpty DEF Got

LEMMA OwnNone ==
  ASSUME NEW c, NEW rs, NEW ch
  PROVE  Own(c, rs, 0, ch) = << >>
<1>1. [i \in 1 .. 0 |-> <<c, i - 1>>] = << >>
  OBVIOUS
<1> QED
  BY <1>1, SelectedEmpty DEF Own

\* One more frame is written.
LEMMA GotAppend ==
  ASSUME NEW E, NEW w \in Seq(E), NEW m \in E, NEW ch
  PROVE  Got(Append(w, m), Len(Append(w, m)), ch) =
           IF IsOn(m, ch) THEN Append(Got(w, Len(w), ch), ReportOf(m)) ELSE Got(w, Len(w), ch)
<1> DEFINE d == Len(w)
           v == Append(w, m)
<1>1. d \in Nat /\ Len(v) = d + 1 /\ v[d + 1] = m /\ \A i \in 1 .. d : v[i] = w[i]
  BY AppendProperties, LenProperties
<1> HIDE DEF d, v
<1>2. Got(v, d + 1, ch) = IF IsOn(v[d + 1], ch) THEN Append(Got(v, d, ch), ReportOf(v[d + 1]))
                          ELSE Got(v, d, ch)
  BY <1>1, GotStep
<1>3. Got(v, d, ch) = Got(w, d, ch)
  BY <1>1, GotAgree
<1> QED
  BY <1>1, <1>2, <1>3 DEF d, v

-----------------------------------------------------------------------------
(***************************************************************************)
(* What the server writes, and when it still serves the session.           *)
(***************************************************************************)
LEMMA BroadcastSends ==
  ASSUME TypeInv, NEW c \in Conns, Broadcast(c)
  PROVE  \E k \in Conns, m \in MessageFrames :
           /\ k \in iter[c].left /\ Send(k, m) /\ iter' = [iter EXCEPT ![c].left = @ \ {k}]
           /\ m = Message(frame[c].destination, c, messageID[c] - 1)
<1> DEFINE m == Message(frame[c].destination, c, messageID[c] - 1)
<1>0. TypeOK
  BY DEF TypeInv
<1>1. PICK k \in iter[c].left : Send(k, m) /\ iter' = [iter EXCEPT ![c].left = @ \ {k}]
  BY DEF Broadcast
<1>2. k \in Conns
  BY <1>0 DEF TypeOK, SocketsOK, Iterators
<1>3. m \in MessageFrames
  <2>1. frame[c] \in SendFrames /\ messageID[c] > 0 /\ messageID[c] \in Nat
    BY <1>0 DEF Broadcast, At, TypeInv, FrameFits, Fits, CountersFit, TypeOK, LocalsOK
  <2> QED
    BY <2>1 DEF Message, MessageFrames, SendFrames
<1> HIDE DEF m
<1> QED
  BY <1>1, <1>2, <1>3 DEF m

\* A step of process writes a report, one answer to its own client, or nothing.
LEMMA ProcessSends ==
  ASSUME TypeInv, NEW c \in Conns, Process(c)
  PROVE  \/ UNCHANGED out
         \/ \E m \in ReplyFrames : Send(c, m)
         \/ Broadcast(c)
<1>0. count[c] \in Nat
  BY ServerTypes, ConnectionsAssumption DEF TypeInv
<1>1. CASE SendConnected(c)
  BY <1>0, <1>1 DEF SendConnected, Connected, ReplyFrames
<1>2. CASE Reply(c)
  BY <1>0, <1>2 DEF Reply, SendReceipt, SendErrorTwice, SendError, Receipt, Error, ReplyFrames
<1>3. CASE Connect(c) /\ ~ SendConnected(c)
  BY <1>3 DEF Connect, UserConnectedAlready, HasRegistered, CheckPasscode, RegisterUser,
              LogIn, sockets
<1>4. CASE ToStringChannels(c) \/ Subscribe(c) \/ RemoveSubscription(c)
  BY <1>4 DEF ToStringChannels, WalkChannels, WalkDone, WalkFails, Subscribe,
              FindChannel, FindSubscriber, PutSubscription, CreateChannel, RemoveSubscription,
              sockets
<1>5. CASE SendReport(c) /\ ~ Broadcast(c)
  BY <1>5 DEF SendReport, FindSubscription, GetSubscription, OpenBroadcast,
              BroadcastFails, BroadcastDone, sockets
<1>6. CASE EndSession(c)
  BY <1>6 DEF EndSession, CloseSocket, FindLogin, DropLogin, SweepChannel,
              SweepSubscriber, SweepFails, SweepDone, Unregister, sockets
<1> QED
  BY <1>1, <1>2, <1>3, <1>4, <1>5, <1>6 DEF Process

\* A frame is written behind those that were.
LEMMA SendAppends ==
  ASSUME TypeOK, NEW k \in Conns, NEW m \in ReplyFrames \cup MessageFrames, Send(k, m)
  PROVE  /\ out'[k] = IF open[k] THEN Append(out[k], m) ELSE out[k]
         /\ \A j \in Conns \ {k} : out'[j] = out[j]
<1>1. DOMAIN out = Conns
  BY ServerTypes
<1> QED
  BY <1>1 DEF Send

LEMMA OutGrows ==
  ASSUME TypeInv, NEW c \in Conns, Process(c), NEW k \in Conns
  PROVE  /\ Len(out[k]) \in Nat /\ Len(out'[k]) \in Nat /\ Len(out[k]) <= Len(out'[k])
         /\ \A i \in 1 .. Len(out[k]) : out'[k][i] = out[k][i]
<1>0. TypeOK /\ out[k] \in Seq(ReplyFrames \cup MessageFrames)
  BY ServerTypes DEF TypeInv
<1>1. \/ UNCHANGED out
      \/ \E j \in Conns, m \in ReplyFrames \cup MessageFrames : Send(j, m)
  BY ProcessSends, BroadcastSends
<1> DEFINE F == ReplyFrames \cup MessageFrames
<1>2. out'[k] = out[k] \/ \E m \in F : out'[k] = Append(out[k], m)
  BY <1>0, <1>1, SendAppends
<1> HIDE DEF F
<1>3. Len(out[k]) \in Nat
  BY <1>0, LenProperties
<1>4. CASE out'[k] = out[k]
  BY <1>3, <1>4
<1>5. ASSUME NEW m \in F, out'[k] = Append(out[k], m)
      PROVE  /\ Len(out'[k]) = Len(out[k]) + 1
             /\ \A i \in 1 .. Len(out[k]) : out'[k][i] = out[k][i]
  BY <1>0, <1>5, AppendProperties DEF F
<1> QED
  BY <1>2, <1>3, <1>4, <1>5

\* A session that is served was served before, over the socket it has.
LEMMA ServesStep ==
  ASSUME TypeInv, NEW c \in Conns, ServerTable(c), Process(c), Serves(c)'
  PROVE  Serves(c) /\ open'[c] = open[c]
<1>1. pc \in [Conns -> Labels] /\ open \in [Conns -> BOOLEAN] /\ TypeOK
  BY ServerTypes DEF TypeInv
<1>2. pc'[c] # "dead" /\ pc'[c] \notin Ending /\ pc'[c] \notin {"sendError", "sendErrorTwice", "close"}
  BY DEF Serves, ToEnter, Entered, Reading, At, Ending
<1>3. pc'[c] = "read" => open'[c] /\ ~ shouldTerminate'[c]
  BY DEF Serves, ToEnter, Entered, Reading, At
<1>4. pc[c] \notin Ending \cup {"close", "sendError", "sendErrorTwice"}
  <2>1. ~ EndSession(c)
    <3> SUFFICES ASSUME EndSession(c) PROVE FALSE
      OBVIOUS
    <3>1. pc[c] \in Ending \cup {"close"}
      BY DEF EndSession, CloseSocket, FindLogin, DropLogin, SweepChannel, SweepSubscriber,
             SweepFails, SweepDone, Unregister, At, Ending
    <3>2. pc'[c] = "read"
      BY <1>1, <1>2, <3>1 DEF EndSession, CloseSocket, FindLogin, DropLogin, SweepChannel,
             SweepSubscriber, SweepFails, SweepThrows, SweepDone, Unregister, Goto, Die, Ending, At
    <3>3. shouldTerminate'[c] \/ ~ open'[c]
      <4>1. CASE pc[c] = "close"
        BY <1>1, <4>1 DEF EndSession, CloseSocket, FindLogin, DropLogin, SweepChannel,
           SweepSubscriber, SweepFails, SweepDone, Unregister, At
      <4>2. CASE pc[c] \in Ending
        BY <1>1, <4>2, ProcessEndsOnly DEF ServerTable
      <4> QED
        BY <3>1, <4>1, <4>2
    <3> QED
      BY <1>3, <3>2, <3>3
  <2>2. ~ (SendErrorTwice(c) \/ SendError(c))
    BY <1>1, <1>2 DEF SendErrorTwice, SendError, Goto
  <2>3. CASE Connect(c) \/ ToStringChannels(c) \/ Subscribe(c) \/ RemoveSubscription(c)
    BY <2>3 DEF Connect, UserConnectedAlready, HasRegistered, CheckPasscode, RegisterUser,
                LogIn, SendConnected, ToStringChannels, WalkChannels, WalkDone, WalkFails,
                Subscribe, FindChannel, FindSubscriber, PutSubscription, CreateChannel,
                RemoveSubscription, At, Ending
  <2>4. CASE SendReport(c) \/ SendReceipt(c)
    BY <2>4 DEF SendReport, FindSubscription, GetSubscription, OpenBroadcast, Broadcast,
                BroadcastFails, BroadcastDone, SendReceipt, At, Ending
  <2> QED
    BY <2>1, <2>2, <2>3, <2>4 DEF Process, Reply
<1>5. Serves(c)
  <2>1. Working(c) /\ pc[c] \in Labels
    BY <1>1, ProcessRequest
  <2>2. pc[c] \in {"walkChannels", "walked"} => frame[c].command \in {"SUBSCRIBE", "UNSUBSCRIBE"}
    BY DEF TypeInv, FrameFits, Fits, SubscribeFrames, UnsubscribeFrames
  <2> QED
    BY <1>4, <2>1, <2>2 DEF Serves, ToEnter, Entered, Working, Ending, Labels
<1>6. open'[c] = open[c]
  <2>1. ~ EndSession(c)
    BY <1>4 DEF EndSession, CloseSocket, FindLogin, DropLogin, SweepChannel, SweepSubscriber,
                SweepFails, SweepDone, Unregister, At, Ending
  <2>2. CASE Connect(c) \/ ToStringChannels(c) \/ Subscribe(c) \/ RemoveSubscription(c)
    BY <1>1, <1>2, <2>2
    DEF Connect, UserConnectedAlready, HasRegistered, CheckPasscode, RegisterUser,
        LogIn, SendConnected, ToStringChannels, WalkChannels, WalkDone, WalkFails,
        Subscribe, FindChannel, FindSubscriber, PutSubscription, CreateChannel,
        RemoveSubscription, sockets, Die, Goto
  <2>3. CASE SendReport(c) \/ Reply(c)
    BY <1>1, <1>2, <2>3
    DEF SendReport, FindSubscription, GetSubscription, OpenBroadcast, Broadcast,
        BroadcastFails, BroadcastDone, Reply, SendReceipt, SendErrorTwice, SendError,
        sockets, Die, Goto
  <2> QED
    BY <2>1, <2>2, <2>3 DEF Process
<1> QED
  BY <1>5, <1>6

-----------------------------------------------------------------------------
(***************************************************************************)
(* The server's side.                                                      *)
(***************************************************************************)
\* Steps that neither open a broadcast nor write a report.
LEMMA QuietReports ==
  ASSUME NEW c \in Conns, ServerReports(c), UNCHANGED <<sent, count, messageID>>,
         open'[c] = open[c], Opening(c)' <=> Opening(c), BackNumber(c)' = BackNumber(c),
         \A ch \in Channels : Got(out'[c], Len(out'[c]), ch) = Got(out[c], Len(out[c]), ch)
  PROVE  ServerReports(c)'
<1>1. Taken(c)' = Taken(c)
  BY DEF Taken
<1> QED
  BY <1>1 DEF ServerReports

LEMMA ReplyGot ==
  ASSUME TypeInv, NEW c \in Conns, UNCHANGED out \/ \E m \in ReplyFrames : Send(c, m)
  PROVE  \A ch \in Channels : Got(out'[c], Len(out'[c]), ch) = Got(out[c], Len(out[c]), ch)
<1> SUFFICES ASSUME NEW m \in ReplyFrames, Send(c, m), NEW ch \in Channels
             PROVE  Got(out'[c], Len(out'[c]), ch) = Got(out[c], Len(out[c]), ch)
  OBVIOUS
<1> DEFINE F == ReplyFrames \cup MessageFrames
<1>1. TypeOK /\ out[c] \in Seq(F) /\ m \in F
  BY ServerTypes DEF TypeInv
<1>2. ~ IsOn(m, ch)
  BY DEF IsOn, ReplyFrames
<1>3. out'[c] = out[c] \/ out'[c] = Append(out[c], m)
  BY <1>1, SendAppends
<1> HIDE DEF F
<1>4. Got(Append(out[c], m), Len(Append(out[c], m)), ch) =
        IF IsOn(m, ch) THEN Append(Got(out[c], Len(out[c]), ch), ReportOf(m))
        ELSE Got(out[c], Len(out[c]), ch)
  BY <1>1, GotAppend
<1>5. Got(Append(out[c], m), Len(Append(out[c], m)), ch) = Got(out[c], Len(out[c]), ch)
  BY <1>2, <1>4
<1>6. CASE out'[c] = Append(out[c], m)
  BY <1>5, <1>6
<1> QED
  BY <1>3, <1>6

LEMMA OtherServerReports ==
  ASSUME TypeInv, NEW c \in Conns, ServerReports(c), Process(c), ~ SendReport(c),
         open'[c] = open[c], UNCHANGED <<sent, count>>
  PROVE  ServerReports(c)'
<1>1. pc \in [Conns -> Labels]
  BY ServerTypes DEF TypeInv
<1>2. /\ UNCHANGED messageID
      /\ pc[c] # "broadcast" /\ pc'[c] # "broadcast" /\ ~ Opening(c) /\ ~ Opening(c)'
  <2> USE <1>1 DEF Opening, At, Goto, locals
  <2>1. CASE Connect(c)
    BY <2>1 DEF Connect, UserConnectedAlready, HasRegistered, CheckPasscode, RegisterUser,
                LogIn, SendConnected
  <2>2. CASE ToStringChannels(c) \/ Subscribe(c) \/ RemoveSubscription(c)
    BY <2>2 DEF ToStringChannels, WalkChannels, WalkDone, WalkFails, Die, Subscribe,
                FindChannel, FindSubscriber, PutSubscription, CreateChannel, RemoveSubscription
  <2>3. CASE Reply(c)
    BY <2>3 DEF Reply, SendReceipt, SendErrorTwice, SendError
  <2>4. CASE EndSession(c)
    BY <2>4 DEF EndSession, CloseSocket, FindLogin, DropLogin, SweepChannel, SweepSubscriber,
                SweepFails, SweepThrows, SweepDone, Unregister, Die
  <2> QED
    BY <2>1, <2>2, <2>3, <2>4 DEF Process
<1>3. BackNumber(c)' = BackNumber(c)
  BY <1>2 DEF BackNumber
<1>4. ~ Broadcast(c)
  BY DEF SendReport
<1>5. \A ch \in Channels : Got(out'[c], Len(out'[c]), ch) = Got(out[c], Len(out[c]), ch)
  BY <1>4, ProcessSends, ReplyGot
<1> QED
  BY <1>2, <1>3, <1>5, QuietReports

\* The report the thread works on is the last that was taken.
LEMMA LastTaken ==
  ASSUME TypeInv, ClientInv, RequestInv, NEW c \in Conns, Working(c),
         frame[c].command = "SEND"
  PROVE  /\ Len(Taken(c)) \in Nat \ {0}
         /\ Taken(c)[Len(Taken(c))].frame = frame[c]
<1> DEFINE n == count[c] - 1
           r == Reported(sent[c], n)
<1>1. /\ n \in Nat /\ n + 1 = count[c] /\ count[c] \in DOMAIN sent[c]
      /\ frame[c] = sent[c][n + 1].frame
  BY FrameNow
<1>2. sent[c] \in Seq(Sends) /\ n < Len(sent[c])
  BY <1>1, SentSeq
<1>3. sent[c][n + 1] \in Sends
  BY <1>1, <1>2
<1> HIDE DEF n
<1>4. Taken(c) = Append(r, sent[c][n + 1])
  BY <1>1, <1>2, ReportedStep DEF Taken
<1>5. r \in Seq(Sends) /\ Len(r) \in Nat
  BY <1>2, ReportedType
<1> HIDE DEF r
<1> QED
  BY <1>1, <1>3, <1>4, <1>5, AppendProperties

\* The broadcast goes to every subscriber, its sender among them.
LEMMA OpenServerReports ==
  ASSUME TypeInv, NEW c \in Conns, ServerReports(c), OpenBroadcast(c),
         frame[c].destination \in Channels, IsSubscribed(frame[c].destination, c),
         UNCHANGED <<sent, count>>
  PROVE  ServerReports(c)'
<1>1. /\ pc \in [Conns -> Labels] /\ messageID \in [Conns -> Nat] /\ DOMAIN iter = Conns
  BY DEF TypeInv, TypeOK, LocalsOK, RequestsOK, SocketsOK
<1>2. /\ pc[c] = "openBroadcast" /\ pc'[c] = "broadcast" /\ messageID'[c] = messageID[c] + 1
      /\ UNCHANGED <<open, out>> /\ OpenIterator(c, frame[c].destination)
  BY <1>1 DEF OpenBroadcast, At, Goto, sockets
<1>3. c \in iter'[c].left
  BY <1>1, <1>2 DEF OpenIterator, IsSubscribed
<1>4. messageID[c] \in Nat
  BY <1>1
<1>5. BackNumber(c)' = BackNumber(c)
  BY <1>2, <1>3, <1>4 DEF BackNumber
<1>6. Opening(c) /\ ~ Opening(c)' /\ Taken(c)' = Taken(c)
  BY <1>2 DEF Opening, Taken
<1> QED
  BY <1>2, <1>5, <1>6 DEF ServerReports

LEMMA BroadcastServerReports ==
  ASSUME TypeInv, ClientInv, RequestInv, NEW c \in Conns, ServerReports(c), Broadcast(c),
         frame[c].command = "SEND", UNCHANGED <<sent, count>>
  PROVE  ServerReports(c)'
<1> DEFINE d == frame[c].destination
           n == messageID[c] - 1
           m == Message(d, c, n)
           F == ReplyFrames \cup MessageFrames
<1>1. /\ messageID[c] \in Nat /\ DOMAIN iter = Conns /\ TypeOK /\ out[c] \in Seq(F)
      /\ pc[c] = "broadcast" /\ messageID[c] > 0
  BY ServerTypes DEF TypeInv, TypeOK, LocalsOK, SocketsOK, CountersFit, Broadcast, At
<1>2. UNCHANGED <<open, pc, messageID>>
  BY DEF Broadcast, locals
<1>3. Opening(c)' <=> Opening(c)
  BY <1>2 DEF Opening
<1>4. PICK k \in Conns : /\ k \in iter[c].left /\ Send(k, m) /\ m \in F
                         /\ iter' = [iter EXCEPT ![c].left = @ \ {k}]
  BY BroadcastSends
<1>5. iter'[c].left = iter[c].left \ {k}
  BY <1>1, <1>4
<1>6. CASE k # c
  <2>1. out'[c] = out[c]
    BY <1>1, <1>4, <1>6, SendAppends
  <2>2. BackNumber(c)' = BackNumber(c)
    BY <1>2, <1>5, <1>6 DEF BackNumber
  <2> QED
    BY <1>2, <1>3, <2>1, <2>2, QuietReports
<1>7. CASE k = c
  <2>1. n \in Nat /\ n + 1 = messageID[c]
    BY <1>1
  <2>2. BackNumber(c) = n /\ BackNumber(c)' = n + 1
    BY <1>1, <1>2, <1>4, <1>5, <1>7, <2>1 DEF BackNumber
  <2>3. Len(Taken(c)) = n + 1 /\ ~ Opening(c)
    BY <1>1, <2>1 DEF ServerReports, Opening
  <2>4. Taken(c)[n + 1].frame.destination = d
    BY <1>1, <2>3, LastTaken DEF Working
  <2>5. out'[c] = Append(out[c], m)
    BY <1>1, <1>4, <1>7, SendAppends DEF ServerReports
  <2>6. ReportOf(m) = <<c, n>> /\ \A ch : IsOn(m, ch) <=> d = ch
    BY DEF ReportOf, IsOn, Message
  <2> HIDE DEF d, n, m, F
  <2>7. ASSUME NEW ch \in Channels
        PROVE  Got(out'[c], Len(out'[c]), ch) = Own(c, Taken(c), n + 1, ch)
    <3>1. Got(out[c], Len(out[c]), ch) = Own(c, Taken(c), n, ch)
      BY <2>2 DEF ServerReports
    <3>2. Got(out'[c], Len(out'[c]), ch) = IF d = ch THEN Append(Got(out[c], Len(out[c]), ch), <<c, n>>)
                                           ELSE Got(out[c], Len(out[c]), ch)
      BY <1>1, <1>4, <2>5, <2>6, GotAppend
    <3>3. Own(c, Taken(c), n + 1, ch) = IF d = ch THEN Append(Own(c, Taken(c), n, ch), <<c, n>>)
                                        ELSE Own(c, Taken(c), n, ch)
      BY <2>1, <2>4, OwnStep
    <3> QED
      BY <3>1, <3>2, <3>3
  <2>8. Taken(c)' = Taken(c)
    BY DEF Taken
  <2> QED
    BY <1>2, <1>3, <2>2, <2>7, <2>8 DEF ServerReports
<1> QED
  BY <1>6, <1>7

LEMMA SendServerReports ==
  ASSUME TypeInv, ClientInv, RequestInv, SentFits, NEW c \in Conns, ServerTable(c),
         ServerReports(c), SendReport(c), Serves(c)', open'[c] = open[c], UNCHANGED <<sent, count>>
  PROVE  ServerReports(c)'
<1>1. pc \in [Conns -> Labels]
  BY ServerTypes DEF TypeInv
<1>2. pc'[c] \notin {"dead", "sendErrorTwice"}
  BY DEF Serves, ToEnter, Entered, Reading, At
<1>3. frame[c].command = "SEND" /\ frame[c].destination \in Channels
        /\ IsSubscribed(frame[c].destination, c)
  <2>1. pc[c] \in {"findSubscription", "getSubscription", "openBroadcast", "broadcast"}
    BY DEF SendReport, FindSubscription, GetSubscription, OpenBroadcast, Broadcast,
           BroadcastFails, BroadcastDone, At
  <2> QED
    BY <2>1, SenderSubscribed
<1>4. CASE FindSubscription(c) \/ GetSubscription(c)
  <2>1. /\ UNCHANGED <<out, messageID>> /\ Opening(c) /\ Opening(c)'
        /\ pc[c] # "broadcast" /\ pc'[c] # "broadcast"
    BY <1>1, <1>2, <1>4 DEF FindSubscription, GetSubscription, Goto, Die, At, sockets, locals, Opening
  <2>2. BackNumber(c)' = BackNumber(c)
    BY <2>1 DEF BackNumber
  <2> QED
    BY <2>1, <2>2, QuietReports
<1>5. CASE BroadcastDone(c)
  <2>1. /\ UNCHANGED <<out, messageID>> /\ ~ Opening(c) /\ ~ Opening(c)'
        /\ iter[c].left = {} /\ pc'[c] # "broadcast"
    BY <1>1, <1>5 DEF BroadcastDone, Goto, At, sockets, locals, Opening
  <2>2. BackNumber(c)' = BackNumber(c)
    BY <2>1 DEF BackNumber
  <2> QED
    BY <2>1, <2>2, QuietReports
<1>6. ~ BroadcastFails(c)
  BY <1>1, <1>2 DEF BroadcastFails, Die, Goto
<1> QED
  BY <1>3, <1>4, <1>5, <1>6, OpenServerReports, BroadcastServerReports DEF SendReport

LEMMA ProcessReports ==
  ASSUME TypeInv, ClientInv, RequestInv, SentFits, AloneFits, ReportsFit, NewIsSilent,
         NEW k \in Conns, Process(k), UNCHANGED <<sent, conn, alone>>
  PROVE  ReportsFit' /\ NewIsSilent'
<1>1. UNCHANGED count
  BY ProcessRequest
<1>2. ReportsFit'
  <2> SUFFICES ASSUME NEW c \in Conns, alone, c = conn, Serves(c)'
               PROVE  ServerReports(c)'
    BY DEF ReportsFit
  <2>1. OthersIdle(c) /\ ServerTable(c)
    BY DEF AloneFits
  <2>2. k = c
    BY <2>1, ProcessRequest, OnlyOne DEF Working
  <2>3. Serves(c) /\ open'[c] = open[c]
    BY <2>1, <2>2, ServesStep
  <2>4. ServerReports(c)
    BY <2>3 DEF ReportsFit
  <2> QED
    BY <1>1, <2>1, <2>2, <2>3, <2>4, OtherServerReports, SendServerReports
<1>3. \A j \in Conns \ {k} : messageID'[j] = messageID[j]
  <2>1. UNCHANGED messageID \/ messageID' = [messageID EXCEPT ![k] = @ + 1]
    <3> USE DEF locals
    <3>1. CASE Connect(k) \/ ToStringChannels(k) \/ Subscribe(k) \/ RemoveSubscription(k)
      BY <3>1 DEF Connect, UserConnectedAlready, HasRegistered, CheckPasscode, RegisterUser,
                  LogIn, SendConnected, ToStringChannels, WalkChannels, WalkDone, WalkFails,
                  Subscribe, FindChannel, FindSubscriber, PutSubscription, CreateChannel,
                  RemoveSubscription
    <3>2. CASE SendReport(k) \/ Reply(k)
      BY <3>2 DEF SendReport, FindSubscription, GetSubscription, OpenBroadcast, Broadcast,
                  BroadcastFails, BroadcastDone, Reply, SendReceipt, SendErrorTwice, SendError
    <3>3. CASE EndSession(k)
      BY <3>3 DEF EndSession, CloseSocket, FindLogin, DropLogin, SweepChannel, SweepSubscriber,
                  SweepFails, SweepDone, Unregister
    <3> QED
      BY <3>1, <3>2, <3>3 DEF Process
  <2>2. DOMAIN messageID = Conns
    BY DEF TypeInv, TypeOK, LocalsOK
  <2> QED
    BY <2>1, <2>2
<1>4. NewIsSilent'
  BY <1>3, ProcessMoves DEF NewIsSilent, Moves
<1> QED
  BY <1>2, <1>4

\* The frame that is taken next.
LEMMA TakenKinds ==
  ASSUME TypeInv, ClientInv, NEW k \in Conns, ServerReceive(k)
  PROVE  /\ sent[k][count[k] + 1] \in Sends
         /\ sent[k][count[k] + 1].frame.command
              \in {"CONNECT", "SUBSCRIBE", "UNSUBSCRIBE", "SEND", "DISCONNECT"}
<1>1. count[k] \in Nat /\ count[k] < Len(sent[k]) /\ sent[k] \in Seq(Sends)
  BY ServerTypes, ConnectionsAssumption, SentSeq DEF ServerReceive, TypeInv
<1>2. count[k] + 1 \in DOMAIN sent[k]
  BY <1>1
<1>3. sent[k][count[k] + 1] \in Sends
  BY <1>1, <1>2
<1> QED
  BY <1>3, FramesAssumption
  DEF Sends, ConnectFrames, SubscribeFrames, UnsubscribeFrames, SendFrames, DisconnectFrames

LEMMA ReceiveReports ==
  ASSUME TypeInv, ClientInv, RequestInv, AloneFits, ReportsFit, NewIsSilent,
         NEW k \in Conns, ServerReceive(k)
  PROVE  ReportsFit' /\ NewIsSilent'
<1>1. /\ Reading(k) /\ count[k] < Len(sent[k]) /\ Dispatch(k, sent[k][count[k] + 1].frame)
      /\ UNCHANGED <<open, out, sent, conn, alone, messageID, iter>>
  BY DEF ServerReceive, topics, sockets, clientVars, link, Dispatch
<1>2. pc \in [Conns -> Labels] /\ DOMAIN count = Conns
  BY ServerTypes DEF TypeInv
<1>3. ReportsFit'
  <2> SUFFICES ASSUME NEW c \in Conns, alone, c = conn, Serves(c)'
               PROVE  ServerReports(c)'
    BY <1>1 DEF ReportsFit
  <2> DEFINE n == count[c]
             f == sent[c][n + 1].frame
  <2>1. k = c
    <3>1. OthersIdle(c)
      BY DEF AloneFits
    <3> QED
      BY <1>1, <3>1, OnlyOne DEF Reading, At
  <2>2. Serves(c) /\ ServerReports(c)
    BY <1>1, <2>1 DEF Serves, Entered, ReportsFit
  <2>3. n \in Nat /\ n < Len(sent[c]) /\ count'[c] = n + 1 /\ sent[c] \in Seq(Sends)
    BY <1>1, <1>2, <2>1, ServerTypes, ConnectionsAssumption, SentSeq DEF Dispatch, TypeInv
  <2>4. sent[c][n + 1] \in Sends
    BY <2>1, TakenKinds
  <2>5. f.command \in {"CONNECT", "SUBSCRIBE", "UNSUBSCRIBE", "SEND", "DISCONNECT"}
    BY <2>1, TakenKinds
  <2> DEFINE r == Taken(c)
             x == sent[c][n + 1]
             m == messageID[c]
  <2>6. r \in Seq(Sends) /\ Len(r) \in Nat
    BY <2>3, ReportedType DEF Taken
  <2>7. Taken(c)' = IF f.command = "SEND" THEN Append(r, x) ELSE r
    BY <1>1, <2>3, ReportedStep DEF Taken
  <2>8. pc[c] = "read" /\ Len(r) = m /\ BackNumber(c) = m
    BY <1>1, <2>1, <2>2 DEF ServerReports, Reading, At, Opening, BackNumber
  <2>9. /\ f.command = "SEND" => pc'[c] = "findSubscription"
        /\ f.command # "SEND" => ~ Opening(c)'
        /\ pc'[c] # "broadcast"
    <3> HIDE DEF f
    <3>1. Goto(c, CASE f.command = "CONNECT"     -> "userConnectedAlready"
                    [] f.command = "DISCONNECT"  -> "sendReceipt"
                    [] f.command = "UNSUBSCRIBE" -> "removeSubscription"
                    [] f.command = "SUBSCRIBE"   -> "walkChannels"
                    [] f.command = "SEND"        -> "findSubscription")
      BY <1>1, <2>1 DEF Dispatch, f
    <3> QED
      BY <1>2, <2>5, <3>1 DEF Goto, Opening
  <2>10. BackNumber(c)' = m
    BY <1>1, <2>9 DEF BackNumber
  <2> HIDE DEF f, n, r, x
  <2>11. Len(Taken(c)') = IF Opening(c)' THEN m + 1 ELSE m
    BY <2>4, <2>6, <2>7, <2>8, <2>9, AppendProperties DEF Opening, x
  <2>12. \A ch : Own(c, Taken(c)', m, ch) = Own(c, r, m, ch)
    <3>1. \A i \in 1 .. m : Append(r, x)[i] = r[i]
      BY <2>4, <2>6, <2>8, AppendProperties DEF x
    <3>2. \A i \in 1 .. m : (Taken(c)')[i] = r[i]
      BY <2>7, <3>1
    <3> DEFINE R == Taken(c)'
    <3> HIDE DEF R
    <3>3. m \in Nat /\ \A i \in 1 .. m : R[i] = r[i]
      BY <2>6, <2>8, <3>2 DEF R
    <3>4. \A ch : Own(c, R, m, ch) = Own(c, r, m, ch)
      BY <3>3, OwnAgree
    <3> QED
      BY <3>4 DEF R
  <2> QED
    BY <1>1, <2>2, <2>8, <2>10, <2>11, <2>12 DEF ServerReports, r
<1>4. NewIsSilent'
  <2> DEFINE g == sent[k][count[k] + 1].frame.command
  <2>1. g \in {"CONNECT", "SUBSCRIBE", "UNSUBSCRIBE", "SEND", "DISCONNECT"}
    BY TakenKinds
  <2>2. Goto(k, CASE g = "CONNECT"     -> "userConnectedAlready"
                  [] g = "DISCONNECT"  -> "sendReceipt"
                  [] g = "UNSUBSCRIBE" -> "removeSubscription"
                  [] g = "SUBSCRIBE"   -> "walkChannels"
                  [] g = "SEND"        -> "findSubscription")
    BY <1>1 DEF Dispatch
  <2> HIDE DEF g
  <2>3. \A j \in Conns : pc'[j] = "new" => pc[j] = "new"
    BY <1>2, <2>1, <2>2 DEF Goto
  <2> QED
    BY <1>1, <2>3 DEF NewIsSilent
<1> QED
  BY <1>3, <1>4

LEMMA EndReports ==
  ASSUME TypeInv, AloneFits, ReportsFit, NewIsSilent, NEW k \in Conns, Exit(k) \/ Abort(k),
         UNCHANGED <<sent, conn, alone>>
  PROVE  ReportsFit' /\ NewIsSilent'
<1>1. pc[k] = "read" /\ Goto(k, "dead") /\ UNCHANGED messageID
  BY DEF Exit, Abort, Reading, At, Die, locals
<1>2. \A j \in Conns : pc'[j] = IF j = k THEN "dead" ELSE pc[j]
  BY <1>1, ServerTypes DEF TypeInv, Goto
<1>3. NewIsSilent'
  BY <1>1, <1>2 DEF NewIsSilent
<1>4. ReportsFit'
  <2> SUFFICES ASSUME NEW c \in Conns, alone, c = conn, Serves(c)'
               PROVE  FALSE
    BY DEF ReportsFit
  <2>1. OthersIdle(c)
    BY DEF AloneFits
  <2>2. k = c
    BY <1>1, <2>1, OnlyOne
  <2> QED
    BY <1>2, <2>2 DEF Serves, ToEnter, Entered, Reading, At
<1> QED
  BY <1>3, <1>4

LEMMA AcceptReports ==
  ASSUME TypeInv, ClientInv, RequestInv, LogoutLastInv, NewIsSilent, LoginTyped
  PROVE  ReportsFit' /\ NewIsSilent'
<1>1. PICK c \in Conns : c = connectionID
  BY ConnectionsAssumption DEF LoginTyped, Accept, TypeInv, TypeOK, Conns
<1>2. /\ acceptor = "accept" /\ Goto(c, "read") /\ conn' = c
      /\ open' = [open EXCEPT ![c] = TRUE]
      /\ UNCHANGED <<frame, count, out, sent, messageID>>
  BY <1>1 DEF LoginTyped, Accept, accounts, topics, request, locals
<1>3. ~ Accepted(c)
  BY <1>1, <1>2 DEF Accepted, Conns
<1>4. sent[c] = << >> /\ count[c] = 0 /\ out[c] = << >> /\ messageID[c] = 0
  <2>1. sent[c] = << >> /\ out[c] = << >> /\ pc[c] = "new"
    BY <1>3 DEF LogoutLastInv, RequestInv, NewIsEmpty
  <2>2. count[c] <= Len(sent[c]) /\ count[c] \in Nat
    BY ServerTypes, ConnectionsAssumption DEF TypeInv, RequestInv, RequestsMatch
  <2> QED
    BY <2>1, <2>2 DEF NewIsSilent
<1>5. \A j \in Conns : pc'[j] = IF j = c THEN "read" ELSE pc[j]
  BY <1>2, ServerTypes DEF TypeInv, Goto
<1>6. ServerReports(c)'
  <2>1. open'[c]
    BY <1>2, ServerTypes DEF TypeInv
  <2>2. ~ Opening(c)' /\ BackNumber(c)' = 0
    BY <1>2, <1>4, <1>5 DEF Opening, BackNumber
  <2>3. Taken(c)' = << >>
    <3>1. << >> \in Seq(Sends)
      OBVIOUS
    <3>2. {i \in 1 .. 0 : i \in SendsIn(<< >>)} = {}
      OBVIOUS
    <3> QED
      BY <1>2, <1>4, <3>1, <3>2, SelectedNone DEF Taken, Reported
  <2>4. Len(<< >>) = 0
    OBVIOUS
  <2>5. \A ch : Got(out'[c], Len(out'[c]), ch) = Own(c, Taken(c)', 0, ch)
    BY <1>2, <1>4, <2>4, GotNone, OwnNone
  <2> QED
    BY <1>2, <1>4, <2>1, <2>2, <2>3, <2>4, <2>5 DEF ServerReports
<1>7. NewIsSilent'
  BY <1>2, <1>5 DEF NewIsSilent
<1> QED
  BY <1>2, <1>6, <1>7 DEF ReportsFit

\* The client sends, or does something else.
LEMMA QuietReportsFit ==
  ASSUME TypeInv, ClientInv, ClientInv', RequestInv, ReportsFit, NewIsSilent,
         (Transmit /\ conn \in Conns) \/ UNCHANGED sent,
         UNCHANGED <<pc, frame, count, out, open, shouldTerminate, messageID, iter, conn, alone>>
  PROVE  ReportsFit' /\ NewIsSilent'
<1>1. NewIsSilent'
  BY DEF NewIsSilent
<1>2. ReportsFit'
  <2> SUFFICES ASSUME NEW c \in Conns, alone, c = conn, Serves(c)'
               PROVE  ServerReports(c)'
    BY DEF ReportsFit
  <2>1. Serves(c) /\ (Opening(c)' <=> Opening(c)) /\ BackNumber(c)' = BackNumber(c)
    BY DEF Serves, ToEnter, Entered, Reading, At, Opening, BackNumber
  <2>2. ServerReports(c)
    BY <2>1 DEF ReportsFit
  <2>3. Taken(c)' = Taken(c)
    <3>1. CASE UNCHANGED sent
      BY <3>1 DEF Taken
    <3>2. CASE Transmit
      <4>1. sent'[c] = Append(sent[c], NewSend) /\ sent[c] \in Seq(Sends)
        BY <3>2, TransmitAppends, SentSeq
      <4>2. NewSend \in Sends
        <5>1. sent'[c] \in Seq(Sends) /\ Len(sent'[c]) = Len(sent[c]) + 1 /\ Len(sent[c]) \in Nat
              /\ sent'[c][Len(sent[c]) + 1] = NewSend
          BY <3>2, TransmitAppends, SentSeq DEF ClientInv, SentTypes
        <5>2. Len(sent[c]) + 1 \in DOMAIN sent'[c]
          BY <5>1
        <5> QED
          BY <5>1, <5>2
      <4>3. count[c] \in Nat /\ count[c] <= Len(sent[c])
        BY ServerTypes, ConnectionsAssumption DEF TypeInv, RequestInv, RequestsMatch
      <4> QED
        BY <4>1, <4>2, <4>3, ReportedGrows DEF Taken
    <3> QED
      BY <3>1, <3>2
  <2> QED
    BY <2>1, <2>2, <2>3 DEF ServerReports
<1> QED
  BY <1>1, <1>2

LEMMA NextReports ==
  ASSUME TypeInv, ClientInv, ClientInv', LogoutLastInv, RequestInv, SentFits, AloneFits,
         ReportsFit, NewIsSilent, [PlatformNext]_platformVars
  PROVE  ReportsFit' /\ NewIsSilent'
<1> DEFINE seen == <<pc, frame, count, out, open, shouldTerminate, messageID, iter, conn, alone>>
<1>1. ASSUME NEW c \in Conns, ServerReceive(c) \/ ServerAbort(c) \/ ServerStep(c)
      PROVE  ReportsFit' /\ NewIsSilent'
  <2>1. CASE ServerReceive(c)
    BY <2>1, ReceiveReports
  <2>2. CASE ServerAbort(c) \/ (Exit(c) /\ UNCHANGED clientVars)
    BY <2>2, EndReports DEF ServerAbort, clientVars, link
  <2>3. CASE ProcessStep(c) /\ UNCHANGED clientVars
    BY <2>3, ProcessReports DEF ProcessStep, clientVars, link
  <2> QED
    BY <1>1, <2>1, <2>2, <2>3 DEF ServerStep
<1>2. CASE SendConnect \/ KeyboardSend
  <2>1. UNCHANGED seen /\ (Transmit \/ UNCHANGED sent) /\ conn \in Conns
    BY <1>2 DEF SendConnect, KeyboardSend, vars, topics, sockets, request, locals, ClientInv,
                ClientTypes, KeyboardFits
  <2> QED
    BY <2>1, QuietReportsFit
<1>3. CASE \/ EmptyLineTyped \/ PromptInputOver \/ MainThread \/ LineTyped \/ InputOverRead
           \/ KeyboardStep \/ SocketRead \/ SocketReadFails \/ SocketStep \/ Crash
           \/ InputEnds \/ Rest \/ UNCHANGED platformVars
  <2>1. UNCHANGED <<vars, sent, conn, alone>>
    BY <1>3 DEF EmptyLineTyped, PromptInputOver, MainThread, LineTyped, InputOverRead,
                KeyboardStep, SocketRead, SocketReadFails, SocketStep, Crash, InputEnds, Rest,
                platformVars, link
  <2>2. UNCHANGED seen /\ UNCHANGED sent
    BY <2>1 DEF vars, topics, sockets, request, locals
  <2> QED
    BY <2>2, QuietReportsFit
<1>4. CASE ServerIncrement
  <2>1. UNCHANGED seen /\ UNCHANGED sent
    BY <1>4 DEF ServerIncrement, Increment, topics, sockets, request, locals, clientVars, link
  <2> QED
    BY <2>1, QuietReportsFit
<1> QED
  BY <1>1, <1>2, <1>3, <1>4, AcceptReports DEF PlatformNext

-----------------------------------------------------------------------------
(***************************************************************************)
(* The client's side.                                                      *)
(***************************************************************************)
\* The socket thread and the server do nothing.
LEMMA QuietStored ==
  ASSUME StoredFits, UNCHANGED <<main, socket, answer, channels, conn, delivered, out>>
  PROVE  StoredFits'
<1>1. StoredNumber' = StoredNumber
  BY DEF StoredNumber
<1> QED
  BY <1>1 DEF StoredFits

LEMMA DestroyedStored ==
  ASSUME Client!Destroyed, main' \in {"getline", "terminated"}
  PROVE  StoredFits'
  BY DEF Client!Destroyed, StoredFits

LEMMA ConnectStored ==
  ASSUME ClientInv, TypeOK, SocketFits, StoredFits, LoginTyped \/ SendConnect
  PROVE  StoredFits'
<1>1. CASE LoginTyped
  <2>1. /\ main = "getline" /\ main' = "login" /\ socket = "end" /\ delivered' = 0
        /\ UNCHANGED <<socket, channels>>
    BY <1>1 DEF LoginTyped, Client!Login, Client!tables, SocketFits
  <2> QED
    BY <2>1 DEF StoredFits
<1>2. CASE SendConnect /\ Client!StartSession
  <2>1. /\ main = "login" /\ main' = "session" /\ socket' = "read"
        /\ UNCHANGED <<channels, conn, delivered, out>> /\ conn \in Conns
    BY <1>2 DEF SendConnect, Client!StartSession, Client!tables, vars, sockets, ClientInv, ClientTypes
  <2>2. delivered = 0 /\ Len(out[conn]) \in Nat
    BY <2>1, LenProperties DEF StoredFits, TypeOK, SocketsOK
  <2>3. StoredNumber' = 0
    BY <2>1, <2>2 DEF StoredNumber
  <2> QED
    BY <2>1, <2>2, <2>3, GotNone DEF StoredFits
<1>3. CASE SendConnect /\ Client!LoginFails
  BY <1>3, DestroyedStored DEF Client!LoginFails
<1> QED
  BY <1>1, <1>2, <1>3 DEF SendConnect

LEMMA ReadStored ==
  ASSUME ClientInv, TypeOK, RestTypes, SocketFits, StoredFits, SocketRead
  PROVE  StoredFits'
<1> DEFINE w == out[conn]
           d == delivered
           m == w[d + 1]
<1>1. /\ socket = "read" /\ d < Len(w) /\ Client!ReadFrame(Incoming(m))
      /\ delivered' = d + 1 /\ UNCHANGED <<main, channels, conn, out>>
  BY DEF SocketRead, Client!ReadFrame, Client!tables, vars, sockets
<1>2. conn \in Conns /\ main = "session" /\ d \in Nat
  BY <1>1 DEF SocketFits, ClientInv, ClientTypes, RestTypes
<1>3. d + 1 \in DOMAIN w /\ Len(w) \in Nat
  BY <1>1, <1>2 DEF TypeOK, SocketsOK
<1>4. m \in ReplyFrames \cup MessageFrames
  BY <1>2, <1>3 DEF TypeOK, SocketsOK
<1>5. \A ch \in Channels : channels[ch] = Got(w, d, ch)
  BY <1>1 DEF StoredFits, StoredNumber
<1>6. CASE m.command = "MESSAGE"
  <2>1. /\ Incoming(m).command = "MESSAGE" /\ Incoming(m).destination = m.destination
        /\ Incoming(m).report = <<m.sender, m.messageID>> /\ m.destination \in Channels
    BY <1>4, <1>6 DEF Incoming, ReplyFrames, MessageFrames
  <2>2. socket' = "message" /\ answer' = Incoming(m)
    BY <1>1, <2>1 DEF Client!ReadFrame
  <2>3. StoredNumber' = d
    BY <1>1, <1>2, <2>2 DEF StoredNumber
  <2> HIDE DEF d, m
  <2>4. /\ out'[conn'][delivered'] = m /\ delivered' # 0 /\ delivered' <= Len(out'[conn'])
    BY <1>1, <1>2, <1>3 DEF d, m
  <2> QED
    BY <1>1, <1>2, <1>5, <1>6, <2>1, <2>2, <2>3, <2>4 DEF StoredFits, ReportOf
<1>7. CASE m.command # "MESSAGE"
  <2>1. /\ Incoming(m).command = m.command
        /\ m.command \in {"CONNECTED", "RECEIPT", "ERROR"}
    BY <1>4, <1>7 DEF Incoming, ReplyFrames, MessageFrames
  <2>2. socket' \in {"read", "findReceipt", "error"}
    BY <1>1, <2>1 DEF Client!ReadFrame
  <2>3. StoredNumber' = d + 1
    BY <1>1, <2>2 DEF StoredNumber
  <2>4. \A ch : ~ IsOn(m, ch)
    BY <1>7 DEF IsOn
  <2>5. \A ch \in Channels : Got(w, d + 1, ch) = Got(w, d, ch)
    BY <1>2, <2>4, GotStep
  <2>6. delivered' <= Len(out'[conn'])
    BY <1>1, <1>2, <1>3
  <2>7. \A ch \in Channels : channels'[ch] = Got(w, d + 1, ch)
    BY <1>1, <1>5, <2>5
  <2> HIDE DEF d
  <2> QED
    BY <1>1, <1>2, <2>2, <2>3, <2>6, <2>7 DEF StoredFits
<1> QED
  BY <1>6, <1>7

LEMMA StoreStored ==
  ASSUME ClientInv, TypeOK, RestTypes, SocketFits, StoredFits, SocketReadFails \/ SocketStep
  PROVE  StoredFits'
<1>1. UNCHANGED <<conn, delivered, out>>
  BY DEF SocketReadFails, SocketStep, vars, sockets, link
<1>2. main = "session"
  BY DEF SocketReadFails, SocketStep, Client!FindReceipt, Client!HandleError, Client!AddReport,
         Client!ReportUnreadable, SocketFits
<1>3. CASE SocketReadFails \/ (SocketStep /\ (Client!FindReceipt \/ Client!HandleError))
  <2>1. /\ UNCHANGED <<main, channels>> /\ socket' \in {"read", "end"} /\ socket # "message"
        /\ socket # "end"
    BY <1>3 DEF SocketReadFails, Client!ReadFails, Client!FindReceipt, Client!HandleError,
                Client!tables
  <2>2. StoredNumber' = StoredNumber
    BY <1>1, <2>1 DEF StoredNumber
  <2> QED
    BY <1>1, <1>2, <2>1, <2>2 DEF StoredFits
<1>4. CASE SocketStep /\ Client!AddReport
  <2> DEFINE w == out[conn]
             d == delivered - 1
             h == answer.destination
             m == w[d + 1]
  <2>1. /\ socket = "message" /\ socket' = "read" /\ UNCHANGED main
        /\ channels' = [channels EXCEPT ![h] = Append(@, answer.report)]
    BY <1>4 DEF Client!AddReport
  <2>2. d \in Nat /\ d + 1 = delivered
    BY <2>1 DEF StoredFits, RestTypes
  <2>3. /\ h \in Channels /\ m.command = "MESSAGE" /\ h = m.destination
        /\ answer.report = ReportOf(m) /\ delivered <= Len(w)
    BY <2>1, <2>2 DEF StoredFits
  <2>4. \A ch : IsOn(m, ch) <=> h = ch
    BY <2>3 DEF IsOn
  <2>5. DOMAIN channels = Channels /\ \A ch \in Channels : channels[ch] = Got(w, d, ch)
    BY <2>1 DEF StoredFits, StoredNumber
  <2>6. \A ch \in Channels :
          Got(w, d + 1, ch) = IF h = ch THEN Append(Got(w, d, ch), ReportOf(m)) ELSE Got(w, d, ch)
    BY <2>2, <2>4, GotStep
  <2>7. StoredNumber' = d + 1
    BY <1>1, <2>1, <2>2 DEF StoredNumber
  <2> HIDE DEF d, h, m
  <2>8. DOMAIN channels' = Channels /\ \A ch \in Channels : channels'[ch] = Got(w, d + 1, ch)
    BY <2>1, <2>3, <2>5, <2>6
  <2> QED
    BY <1>1, <1>2, <2>1, <2>3, <2>7, <2>8 DEF StoredFits
<1>5. CASE SocketStep /\ Client!ReportUnreadable
  BY <1>5, DestroyedStored DEF Client!ReportUnreadable, Client!ProcessEnds
<1> QED
  BY <1>3, <1>4, <1>5 DEF SocketStep

LEMMA ServerStored ==
  ASSUME ClientInv, TypeInv, RestTypes, SocketFits, StoredFits,
         NEW k \in Conns, Process(k), UNCHANGED clientVars
  PROVE  StoredFits'
<1>1. UNCHANGED <<main, socket, answer, channels, conn, delivered>>
  BY DEF clientVars, program, link
<1>2. CASE socket = "end"
  BY <1>1, <1>2 DEF StoredFits
<1>3. CASE socket # "end"
  <2>1. PICK c \in Conns : c = conn
    BY <1>3 DEF SocketFits, ClientInv, ClientTypes
  <2>2. /\ Len(out[c]) \in Nat /\ Len(out'[c]) \in Nat /\ Len(out[c]) <= Len(out'[c])
        /\ \A i \in 1 .. Len(out[c]) : out'[c][i] = out[c][i]
    BY OutGrows
  <2>3. delivered \in Nat /\ delivered <= Len(out[c]) /\ (socket = "message" => delivered # 0)
    BY <1>3, <2>1 DEF StoredFits, RestTypes
  <2> DEFINE d == StoredNumber
  <2>4. d \in Int /\ d <= delivered /\ StoredNumber' = d
    BY <1>1, <2>3 DEF StoredNumber
  <2> HIDE DEF d
  <2>5. \A i \in 1 .. d : out'[c][i] = out[c][i]
    BY <2>2, <2>3, <2>4
  <2>6. \A ch \in Channels : Got(out'[c], d, ch) = Got(out[c], d, ch)
    <3> DEFINE w == out'[c]
               v == out[c]
    <3>1. \A i \in 1 .. d : w[i] = v[i]
      BY <2>5
    <3> HIDE DEF w, v
    <3>2. \A ch : Got(w, d, ch) = Got(v, d, ch)
      BY <3>1, GotAgree
    <3> QED
      BY <3>2 DEF w, v
  <2>7. socket = "message" => out'[c][delivered] = out[c][delivered]
    BY <2>2, <2>3
  <2> QED
    BY <1>1, <2>1, <2>2, <2>3, <2>4, <2>6, <2>7 DEF StoredFits, d
<1> QED
  BY <1>2, <1>3

LEMMA NextStored ==
  ASSUME ClientInv, TypeInv, TypeOK, RestTypes, SocketFits, StoredFits,
         [PlatformNext]_platformVars
  PROVE  StoredFits'
<1> DEFINE seen == <<main, socket, answer, channels, conn, delivered, out>>
<1> USE DEF Client!tables
<1>1. ASSUME NEW c \in Conns, ServerReceive(c) \/ ServerAbort(c) \/ ServerStep(c)
      PROVE  StoredFits'
  <2>1. UNCHANGED clientVars
    BY <1>1 DEF ServerReceive, ServerAbort, ServerStep
  <2>2. CASE Process(c)
    BY <2>1, <2>2, ServerStored
  <2>3. CASE UNCHANGED out
    BY <2>1, <2>3, QuietStored DEF clientVars, program, link
  <2>4. UNCHANGED out \/ Process(c)
    BY <1>1 DEF ServerReceive, ServerAbort, ServerStep, Exit, Abort, ProcessStep, sockets
  <2> QED
    BY <2>2, <2>3, <2>4
<1>2. CASE EmptyLineTyped \/ PromptInputOver \/ MainThread \/ Crash
  BY <1>2, DestroyedStored
  DEF EmptyLineTyped, PromptInputOver, MainThread, Crash, Client!LoginLineEmpty,
      Client!JoinThreads, Client!RaceCrashes, Client!ProcessEnds
<1>3. CASE LineTyped \/ InputOverRead
  <2>1. UNCHANGED seen
    BY <1>3 DEF LineTyped, InputOverRead, Client!GetLine, Client!GetLineFails, vars, sockets, link
  <2> QED
    BY <2>1, QuietStored
<1>4. CASE KeyboardStep
  <2>1. CASE Client!CommandFails
    BY <2>1, DestroyedStored DEF Client!CommandFails, Client!ProcessEnds
  <2>2. CASE ~ Client!CommandFails
    <3>1. UNCHANGED seen
      BY <1>4, <2>2 DEF KeyboardStep, Client!KeyboardLoop, Client!Command, Client!ProduceReceipt,
         Client!ProduceReceiptAgain, Client!NextEvent, Client!SummaryDone, vars, sockets, link
    <3> QED
      BY <3>1, QuietStored
  <2> QED
    BY <2>1, <2>2
<1>5. CASE KeyboardSend
  <2>1. UNCHANGED seen
    BY <1>5 DEF KeyboardSend, Client!Sent, Client!SendFails, Client!AfterSend, vars, sockets
  <2> QED
    BY <2>1, QuietStored
<1>6. CASE ServerIncrement \/ InputEnds \/ Rest \/ UNCHANGED platformVars
  <2>1. UNCHANGED seen
    BY <1>6 DEF ServerIncrement, Increment, InputEnds, Rest, platformVars, vars, clientVars,
                program, link, sockets
  <2> QED
    BY <2>1, QuietStored
<1> QED
  BY <1>1, <1>2, <1>3, <1>4, <1>5, <1>6, ConnectStored, ReadStored, StoreStored DEF PlatformNext

LEMMA InitReports == PlatformInit => ReportInv
<1> SUFFICES ASSUME PlatformInit PROVE ReportInv
  OBVIOUS
<1>1. conn = None /\ None \notin Conns
  BY ConnectionsAssumption DEF PlatformInit
<1>2. main = "getline" /\ socket = "end" /\ channels = [ch \in Channels |-> << >>]
  BY DEF PlatformInit, Client!ClientInit
<1>3. NewIsSilent
  BY DEF PlatformInit, Init, ProtocolInit, NewIsSilent
<1> QED
  BY <1>1, <1>2, <1>3 DEF ReportInv, ReportsFit, StoredFits

LEMMA ReportInvHolds == PlatformSpec => []ReportInv
<1>1. SessionInv /\ SessionInv' /\ ReportInv /\ [PlatformNext]_platformVars => ReportInv'
  BY NextReports, NextStored DEF SessionInv, PlatformInv, ClientTableInv, ReportInv
<1> QED
  BY <1>1, InitReports, SessionInvHolds, PTL DEF PlatformSpec

\* What a user reports comes back: the server broadcasts a report to its sender
\* too (send(channel, ..)), the program stores a report only when it returns
\* (addEvent), and so, once all is delivered, the reports stored for a channel
\* are those sent to it, each once and in order, in every session that found
\* the server idle.
THEOREM OwnReportsReturn == PlatformSpec => []OwnReportsStored
<1>1. SessionInv /\ ReportInv => OwnReportsStored
  <2> SUFFICES ASSUME SessionInv, ReportInv, Settled, alone, delivered = Len(out[conn]),
                      socket = "read", NEW ch \in Channels
               PROVE  channels[ch] = ReportsOn(conn, ch)
    BY DEF OwnReportsStored
  <2>1. PICK c \in Conns : c = conn
    BY DEF SessionInv, PlatformInv, ClientInv, ClientTypes, Settled
  <2>2. /\ Reading(c) /\ count[c] = Len(sent[c]) /\ ~ Opening(c) /\ BackNumber(c) = messageID[c]
    BY <2>1 DEF Settled, Reading, At, Opening, BackNumber
  <2>3. ServerReports(c)
    BY <2>1, <2>2 DEF ReportInv, ReportsFit, Serves, Entered
  <2> DEFINE rs == ReportsSent(c)
  <2>4. Taken(c) = rs
    BY <2>2, ReportedAll DEF Taken, SessionInv, PlatformInv
  <2>5. Len(rs) = messageID[c] /\ DOMAIN rs = 1 .. messageID[c]
    <3>1. rs \in Seq(Sends)
      BY <2>2, <2>4, SentSeq, ReportedType DEF Taken, SessionInv, PlatformInv
    <3>2. Len(rs) = messageID[c]
      BY <2>2, <2>3, <2>4 DEF ServerReports
    <3> QED
      BY <3>1, <3>2, LenProperties
  <2>6. channels[ch] = Got(out[c], Len(out[c]), ch)
    BY <2>1 DEF ReportInv, StoredFits, StoredNumber
  <2>7. Got(out[c], Len(out[c]), ch) = Own(c, rs, messageID[c], ch)
    BY <2>2, <2>3, <2>4 DEF ServerReports
  <2>8. Own(c, rs, messageID[c], ch) = ReportsOn(c, ch)
    BY <2>5 DEF Own, ReportsOn
  <2> QED
    BY <2>1, <2>6, <2>7, <2>8
<1> QED
  BY <1>1, SessionInvHolds, ReportInvHolds, PTL
=============================================================================
