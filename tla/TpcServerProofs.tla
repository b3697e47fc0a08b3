-------------------------- MODULE TpcServerProofs --------------------------
(***************************************************************************)
(* Theorems about the thread-per-client server, for every number of        *)
(* connections and frames and every set of users, channels and ids.        *)
(***************************************************************************)
EXTENDS TpcServer, SelectionProofs

-----------------------------------------------------------------------------
\* The frame a thread works on is of the kind its label belongs to.
Fits(label, f) ==
  /\ label \in {"userConnectedAlready", "hasRegistered", "checkPasscode",
                "addUser", "logIn", "sendConnected"} => f \in ConnectFrames
  /\ label \in {"findChannel", "findSubscriber", "putSubscription",
                "createChannel"} => f \in SubscribeFrames
  /\ label \in {"findSubscription", "getSubscription", "openBroadcast",
                "broadcast"} => f \in SendFrames
  /\ label \in {"walkChannels", "walked"} => f \in SubscribeFrames \cup UnsubscribeFrames
  /\ label = "removeSubscription" => f \in UnsubscribeFrames

FrameFits == \A c \in Conns : Fits(pc[c], frame[c])

\* A message has a number before it is sent, a login that is dropped was
\* found, and the accept loop counts up to the bound only.
CountersFit ==
  /\ \A c \in Conns : pc[c] = "broadcast" => messageID[c] > 0
  /\ \A c \in Conns : pc[c] = "dropLogin" => victim[c] \in Users
  /\ acceptor = "increment" => connectionID < MaxConnections

\* The inductive strengthening of the type invariant.
TypeInv == TypeOK /\ FrameFits /\ CountersFit

-----------------------------------------------------------------------------
LEMMA InitType == Init => TypeInv
<1> SUFFICES ASSUME Init PROVE TypeInv
  OBVIOUS
<1> USE DEF Init, ConnectionsInit, ProtocolInit
<1>1. TablesOK
  BY DEF TablesOK, EmptyMap
<1>2. SocketsOK
  BY DEF SocketsOK, NoIterator, Iterators
<1>3. RequestsOK
  BY ConnectionsAssumption DEF RequestsOK, Labels
<1>4. LocalsOK
  BY DEF LocalsOK
<1>5. TypeOK
  BY <1>1, <1>2, <1>3, <1>4, ConnectionsAssumption DEF TypeOK
<1>6. FrameFits /\ CountersFit
  BY DEF FrameFits, Fits, CountersFit
<1> QED
  BY <1>5, <1>6 DEF TypeInv

(***************************************************************************)
(* The operators the actions are built from keep the type of what they     *)
(* change.                                                                 *)
(***************************************************************************)
LEMMA SendType ==
  ASSUME TypeOK, NEW k \in Conns, NEW m \in ReplyFrames \cup MessageFrames, Send(k, m)
  PROVE  out' \in [Conns -> Seq(ReplyFrames \cup MessageFrames)]
<1> DEFINE F == ReplyFrames \cup MessageFrames
<1>1. out \in [Conns -> Seq(F)]
  BY DEF TypeOK, SocketsOK, TablesOK
<1>2. Append(out[k], m) \in Seq(F)
  BY <1>1, AppendProperties
<1> HIDE DEF F
<1>3. out' \in [Conns -> Seq(F)]
  BY <1>1, <1>2 DEF Send
<1> QED
  BY <1>3 DEF F

LEMMA OpenIteratorType ==
  ASSUME TypeOK, NEW c \in Conns, NEW ch \in Channels, OpenIterator(c, ch)
  PROVE  iter' \in [Conns -> Iterators]
  BY DEF TypeOK, SocketsOK, TablesOK, OpenIterator, Iterators

LEMMA CloseIteratorType ==
  ASSUME TypeOK, NEW c \in Conns, CloseIterator(c)
  PROVE  iter' \in [Conns -> Iterators]
  BY DEF TypeOK, SocketsOK, TablesOK, CloseIterator, NoIterator, Iterators

LEMMA StaleType ==
  ASSUME TypeOK, NEW ch, NEW m
  PROVE  Stale(ch, m) \in [Conns -> Iterators]
<1>1. \A c \in Conns : iter[c] \in Iterators
  BY DEF TypeOK, SocketsOK, TablesOK
<1>2. ASSUME NEW c \in Conns
      PROVE  Stale(ch, m)[c] \in Iterators
  <2>1. PICK b \in BOOLEAN : Stale(ch, m)[c] = [iter[c] EXCEPT !.stale = b]
    <3> DEFINE b == iter[c].stale \/ (iter[c].channel = ch /\ iter[c].map = m)
    <3>1. Stale(ch, m)[c] = [iter[c] EXCEPT !.stale = b]
      BY DEF Stale
    <3>2. b \in BOOLEAN
      BY <1>1 DEF Iterators
    <3> QED
      BY <3>1, <3>2
  <2> QED
    BY <1>1, <2>1 DEF Iterators
<1> QED
  BY <1>2 DEF Stale

LEMMA EntryType ==
  ASSUME TypeOK, NEW ch \in Channels, NEW c \in Conns, NEW id \in SubIds \cup {None},
         SetEntry(ch, c, id) \/ LoseEntry(ch)
  PROVE  /\ iter' \in [Conns -> Iterators]
         /\ subscribers' \in [Channels -> [Conns -> [Conns -> SubIds \cup {None}]]]
<1>1. iter' \in [Conns -> Iterators]
  BY StaleType DEF SetEntry, LoseEntry
<1>2. CASE SetEntry(ch, c, id)
  <2> DEFINE m == channelsSubscriptions[ch]
  <2>1. subscribers' = [subscribers EXCEPT ![ch][m][c] = id]
    BY <1>2 DEF SetEntry
  <2>2. subscribers \in [Channels -> [Conns -> [Conns -> SubIds \cup {None}]]]
    BY DEF TypeOK, SocketsOK, TablesOK
  <2> HIDE DEF m
  <2>3. subscribers' \in [Channels -> [Conns -> [Conns -> SubIds \cup {None}]]]
    BY <2>1, <2>2
  <2> QED
    BY <1>1, <2>3
<1>3. CASE LoseEntry(ch)
  BY <1>1, <1>3 DEF LoseEntry, TypeOK, TablesOK
<1> QED
  BY <1>2, <1>3

-----------------------------------------------------------------------------
(***************************************************************************)
(* What every step of a connection's thread has in common: it moves to a   *)
(* label that fits the frame.                                              *)
(***************************************************************************)
LEMMA StepType ==
  ASSUME TypeInv, NEW c \in Conns, NEW l \in Labels, Goto(c, l), Fits(l, frame[c]),
         l = "broadcast" => messageID'[c] > 0,
         l = "dropLogin" => victim'[c] \in Users,
         \A k \in Conns \ {c} : messageID'[k] = messageID[k] /\ victim'[k] = victim[k],
         TablesOK', SocketsOK', LocalsOK',
         UNCHANGED <<connectionID, acceptor, request>>
  PROVE  TypeInv'
<1> USE DEF request
<1>1. pc \in [Conns -> Labels]
  BY DEF TypeInv, TypeOK, RequestsOK
<1>2. /\ pc' \in [Conns -> Labels] /\ pc'[c] = l
      /\ \A k \in Conns \ {c} : pc'[k] = pc[k]
  BY <1>1 DEF Goto
<1>3. RequestsOK'
  BY <1>2 DEF TypeInv, TypeOK, RequestsOK
<1>4. TypeOK'
  BY <1>3 DEF TypeInv, TypeOK
<1>5. FrameFits'
  BY <1>2 DEF TypeInv, FrameFits
<1>6. CountersFit'
  BY <1>2 DEF TypeInv, CountersFit
<1> QED
  BY <1>4, <1>5, <1>6 DEF TypeInv

\* The labels any frame fits, but for those CountersFit speaks of.
Plain == {"read", "dead", "sendReceipt", "sendErrorTwice", "sendError", "close",
          "findLogin", "sweep", "removeConnection"}

LEMMA PlainFits ==
  /\ Plain \subseteq Labels
  /\ "broadcast" \notin Plain /\ "dropLogin" \notin Plain
  /\ \A l \in Plain : \A f : Fits(l, f)
  BY DEF Plain, Labels, Fits

\* Steps that touch neither the counters nor the protocol's own state.
LEMMA QuietType ==
  ASSUME TypeInv, NEW c \in Conns, NEW l \in Labels \ {"broadcast", "dropLogin"},
         Goto(c, l), Fits(l, frame[c]), TablesOK', SocketsOK',
         UNCHANGED <<connectionID, acceptor, request, locals>>
  PROVE  TypeInv'
<1>1. LocalsOK'
  BY DEF TypeInv, TypeOK, LocalsOK, locals
<1> QED
  BY <1>1, StepType DEF locals

LEMMA KeepTables ==
  ASSUME TypeInv, UNCHANGED <<activeClients, accounts, channelsSubscriptions, subscribers>>
  PROVE  TablesOK'
  BY DEF TypeInv, TypeOK, TablesOK, accounts

LEMMA KeepSockets ==
  ASSUME TypeInv, UNCHANGED <<iter, open, out>>
  PROVE  SocketsOK'
  BY DEF TypeInv, TypeOK, SocketsOK

LEMMA KeepLocals ==
  ASSUME TypeInv, UNCHANGED locals
  PROVE  LocalsOK'
  BY DEF TypeInv, TypeOK, LocalsOK, locals

\* Steps that only look at the registry.
LEMMA LookupType ==
  ASSUME TypeInv, NEW c \in Conns, NEW l \in Labels \ {"broadcast", "dropLogin"},
         Goto(c, l), Fits(l, frame[c]),
         UNCHANGED <<activeClients, accounts, topics, sockets, request, locals,
                     connectionID, acceptor>>
  PROVE  TypeInv'
  BY KeepTables, KeepSockets, QuietType DEF topics, sockets

\* Steps that write one frame.
LEMMA WriteType ==
  ASSUME TypeInv, NEW c \in Conns, NEW l \in Labels \ {"broadcast", "dropLogin"},
         Goto(c, l), Fits(l, frame[c]),
         NEW m \in ReplyFrames \cup MessageFrames, Send(c, m),
         UNCHANGED <<activeClients, accounts, topics, open, request, locals,
                     connectionID, acceptor>>
  PROVE  TypeInv'
<1>1. out' \in [Conns -> Seq(ReplyFrames \cup MessageFrames)]
  BY SendType DEF TypeInv
<1>2. SocketsOK'
  BY <1>1 DEF TypeInv, TypeOK, SocketsOK, topics
<1> QED
  BY <1>2, KeepTables, QuietType DEF topics

\* Steps that close an iterator, and may end the thread.
LEMMA CloseType ==
  ASSUME TypeInv, NEW c \in Conns, NEW l \in Labels \ {"broadcast", "dropLogin"},
         Goto(c, l), Fits(l, frame[c]), CloseIterator(c) \/ UNCHANGED iter,
         UNCHANGED open \/ open' = [open EXCEPT ![c] = FALSE],
         UNCHANGED <<activeClients, accounts, channelsSubscriptions, subscribers,
                     out, request, locals, connectionID, acceptor>>
  PROVE  TypeInv'
<1>1. iter' \in [Conns -> Iterators]
  BY CloseIteratorType DEF TypeInv, TypeOK, SocketsOK
<1>2. SocketsOK'
  BY <1>1 DEF TypeInv, TypeOK, SocketsOK
<1> QED
  BY <1>2, KeepTables, QuietType

-----------------------------------------------------------------------------
LEMMA ConnectType ==
  ASSUME TypeInv, NEW c \in Conns, Connect(c), UNCHANGED <<connectionID, acceptor>>
  PROVE  TypeInv'
<1>1. Fits(pc[c], frame[c])
  BY DEF TypeInv, FrameFits
<1>2. CASE UserConnectedAlready(c)
  <2>1. Goto(c, "sendError") \/ Goto(c, "hasRegistered")
    BY <1>2 DEF UserConnectedAlready
  <2> QED
    BY <1>1, <1>2, <2>1, LookupType DEF UserConnectedAlready, At, Labels, Fits
<1>3. CASE HasRegistered(c)
  <2>1. Goto(c, "checkPasscode") \/ Goto(c, "addUser")
    BY <1>3 DEF HasRegistered
  <2> QED
    BY <1>1, <1>3, <2>1, LookupType DEF HasRegistered, At, Labels, Fits
<1>4. CASE CheckPasscode(c)
  <2>1. Goto(c, "logIn") \/ Goto(c, "sendErrorTwice")
    BY <1>4 DEF CheckPasscode
  <2> QED
    BY <1>1, <1>4, <2>1, LookupType DEF CheckPasscode, At, Labels, Fits
<1>5. CASE RegisterUser(c)
  <2>1. frame[c] \in ConnectFrames /\ Fits("logIn", frame[c])
    BY <1>1, <1>5 DEF RegisterUser, At, Fits
  <2>2. TablesOK'
    BY <1>5, <2>1
    DEF RegisterUser, AddUser, ConnectFrames, TypeInv, TypeOK, TablesOK, topics
  <2> QED
    BY <1>5, <2>1, <2>2, KeepSockets, QuietType DEF RegisterUser, Labels, topics, sockets
<1>6. CASE LogIn(c)
  <2>1. frame[c] \in ConnectFrames /\ Fits("sendConnected", frame[c])
    BY <1>1, <1>6 DEF LogIn, At, Fits
  <2>2. TablesOK'
    BY <1>6, <2>1
    DEF LogIn, PutLogin, ConnectFrames, TypeInv, TypeOK, TablesOK, topics
  <2> QED
    BY <1>6, <2>1, <2>2, KeepSockets, QuietType DEF LogIn, Labels, topics, sockets
<1>7. CASE SendConnected(c)
  <2>1. Connected(count[c]) \in ReplyFrames
    BY ConnectionsAssumption DEF Connected, ReplyFrames, TypeInv, TypeOK, RequestsOK
  <2> QED
    BY <1>7, <2>1, PlainFits, WriteType DEF SendConnected, Plain
<1> QED
  BY <1>2, <1>3, <1>4, <1>5, <1>6, <1>7 DEF Connect

LEMMA ToStringChannelsType ==
  ASSUME TypeInv, NEW c \in Conns, ToStringChannels(c), UNCHANGED <<connectionID, acceptor>>
  PROVE  TypeInv'
<1>1. Fits(pc[c], frame[c])
  BY DEF TypeInv, FrameFits
<1>2. CASE WalkChannels(c)
  <2>1. Fits("walked", frame[c])
    BY <1>1, <1>2 DEF WalkChannels, At, Fits
  <2>2. iter' \in [Conns -> Iterators]
    BY <1>2, OpenIteratorType DEF WalkChannels, TypeInv, TypeOK, SocketsOK
  <2>3. SocketsOK'
    BY <1>2, <2>2 DEF WalkChannels, TypeInv, TypeOK, SocketsOK, sockets
  <2> QED
    BY <1>2, <2>1, <2>3, KeepTables, QuietType DEF WalkChannels, Labels
<1>3. CASE WalkDone(c)
  <2>1. frame[c] \in SubscribeFrames \cup UnsubscribeFrames
    BY <1>1, <1>3 DEF WalkDone, At, Fits
  <2>2. \/ Goto(c, "findChannel") /\ Fits("findChannel", frame[c])
        \/ Goto(c, "sendReceipt") /\ Fits("sendReceipt", frame[c])
    BY <1>3, <2>1 DEF WalkDone, SubscribeFrames, UnsubscribeFrames, Fits
  <2> QED
    BY <1>3, <2>2, CloseType DEF WalkDone, Labels, sockets
<1>4. CASE WalkFails(c)
  BY <1>4, PlainFits, CloseType DEF WalkFails, Die, Plain
<1> QED
  BY <1>2, <1>3, <1>4 DEF ToStringChannels

LEMMA SubscribeType ==
  ASSUME TypeInv, NEW c \in Conns, Subscribe(c), UNCHANGED <<connectionID, acceptor>>
  PROVE  TypeInv'
<1>1. frame[c] \in SubscribeFrames
  BY DEF Subscribe, FindChannel, FindSubscriber, PutSubscription, CreateChannel, At,
         TypeInv, FrameFits, Fits
<1>2. frame[c].destination \in Channels /\ frame[c].id \in SubIds
  BY <1>1 DEF SubscribeFrames
<1>3. \A l \in {"findSubscriber", "createChannel", "putSubscription"} :
        l \in Labels /\ Fits(l, frame[c])
  BY <1>1 DEF Labels, Fits
<1>4. CASE FindChannel(c)
  <2>1. Goto(c, "findSubscriber") \/ Goto(c, "createChannel")
    BY <1>4 DEF FindChannel
  <2> QED
    BY <1>3, <1>4, <2>1, LookupType DEF FindChannel
<1>5. CASE FindSubscriber(c)
  <2>1. Goto(c, "sendError") \/ Goto(c, "putSubscription")
    BY <1>5 DEF FindSubscriber
  <2> QED
    BY <1>3, <1>5, <2>1, PlainFits, LookupType DEF FindSubscriber, Plain
<1>6. CASE PutSubscription(c)
  <2>1. /\ iter' \in [Conns -> Iterators]
        /\ subscribers' \in [Channels -> [Conns -> [Conns -> SubIds \cup {None}]]]
    BY <1>2, <1>6, EntryType DEF PutSubscription, TypeInv
  <2>2. TablesOK' /\ SocketsOK'
    BY <1>6, <2>1
    DEF PutSubscription, TypeInv, TypeOK, TablesOK, SocketsOK, accounts, sockets
  <2> QED
    BY <1>6, <2>2, PlainFits, QuietType DEF PutSubscription, Plain
<1>7. CASE CreateChannel(c)
  <2>1. TablesOK'
    BY <1>2, <1>7
    DEF CreateChannel, CreateChannelMap, EmptyMap, TypeInv, TypeOK, TablesOK, accounts
  <2> QED
    BY <1>7, <2>1, PlainFits, KeepSockets, QuietType DEF CreateChannel, Plain, sockets
<1> QED
  BY <1>4, <1>5, <1>6, <1>7 DEF Subscribe

LEMMA RemoveSubscriptionType ==
  ASSUME TypeInv, NEW c \in Conns, RemoveSubscription(c), UNCHANGED <<connectionID, acceptor>>
  PROVE  TypeInv'
<1>1. /\ Fits("walkChannels", frame[c]) /\ "walkChannels" \in Labels
      /\ Goto(c, "walkChannels") \/ Goto(c, "sendError")
  BY DEF RemoveSubscription, At, TypeInv, FrameFits, Fits, Labels
<1>2. /\ iter' \in [Conns -> Iterators]
      /\ subscribers' \in [Channels -> [Conns -> [Conns -> SubIds \cup {None}]]]
  <2>1. CASE UNCHANGED <<subscribers, iter>>
    BY <2>1 DEF TypeInv, TypeOK, TablesOK, SocketsOK
  <2>2. CASE \E ch \in Channels : SetEntry(ch, c, None) \/ LoseEntry(ch)
    BY <2>2, EntryType DEF TypeInv
  <2> QED
    BY <2>1, <2>2 DEF RemoveSubscription
<1>3. TablesOK' /\ SocketsOK'
  BY <1>2 DEF RemoveSubscription, TypeInv, TypeOK, TablesOK, SocketsOK, accounts, sockets
<1> QED
  BY <1>1, <1>3, PlainFits, QuietType DEF RemoveSubscription, Plain

LEMMA SendReportType ==
  ASSUME TypeInv, NEW c \in Conns, SendReport(c), UNCHANGED <<connectionID, acceptor>>
  PROVE  TypeInv'
<1>1. frame[c] \in SendFrames
  BY DEF SendReport, FindSubscription, GetSubscription, OpenBroadcast, Broadcast,
         BroadcastFails, BroadcastDone, At, TypeInv, FrameFits, Fits
<1>2. frame[c].destination \in Channels
  BY <1>1 DEF SendFrames
<1>3. \A l \in {"getSubscription", "openBroadcast", "broadcast"} :
        l \in Labels /\ Fits(l, frame[c])
  BY <1>1 DEF Labels, Fits
<1>4. CASE FindSubscription(c)
  <2>1. Goto(c, "getSubscription") \/ Goto(c, "sendErrorTwice")
    BY <1>4 DEF FindSubscription
  <2> QED
    BY <1>3, <1>4, <2>1, PlainFits, LookupType DEF FindSubscription, Plain
<1>5. CASE GetSubscription(c)
  <2>1. \/ Goto(c, "openBroadcast") /\ UNCHANGED open
        \/ Goto(c, "dead") /\ open' = [open EXCEPT ![c] = FALSE]
    BY <1>5 DEF GetSubscription, Die
  <2> QED
    BY <1>3, <1>5, <2>1, PlainFits, CloseType DEF GetSubscription, Plain, topics
<1>6. CASE OpenBroadcast(c)
  <2>1. iter' \in [Conns -> Iterators]
    BY <1>2, <1>6, OpenIteratorType DEF OpenBroadcast, TypeInv
  <2>2. SocketsOK'
    BY <1>6, <2>1 DEF OpenBroadcast, TypeInv, TypeOK, SocketsOK, sockets
  <2>3. LocalsOK' /\ messageID'[c] > 0 /\ \A k \in Conns \ {c} : messageID'[k] = messageID[k]
    BY <1>6 DEF OpenBroadcast, TypeInv, TypeOK, LocalsOK
  <2> QED
    BY <1>3, <1>6, <2>2, <2>3, KeepTables, StepType DEF OpenBroadcast
<1>7. CASE Broadcast(c)
  <2>1. PICK k \in iter[c].left :
          /\ Send(k, Message(frame[c].destination, c, messageID[c] - 1))
          /\ iter' = [iter EXCEPT ![c].left = @ \ {k}]
    BY <1>7 DEF Broadcast
  <2>2. iter \in [Conns -> Iterators] /\ messageID[c] \in Nat /\ messageID[c] > 0
    BY <1>7 DEF Broadcast, At, TypeInv, TypeOK, SocketsOK, LocalsOK, CountersFit
  <2>3. k \in Conns /\ [iter[c] EXCEPT !.left = @ \ {k}] \in Iterators
    BY <2>2 DEF Iterators
  <2>4. Message(frame[c].destination, c, messageID[c] - 1) \in MessageFrames
    BY <1>2, <2>2 DEF Message, MessageFrames
  <2>5. out' \in [Conns -> Seq(ReplyFrames \cup MessageFrames)]
    BY <2>1, <2>3, <2>4, SendType DEF TypeInv
  <2>6. SocketsOK'
    BY <1>7, <2>1, <2>2, <2>3, <2>5 DEF Broadcast, TypeInv, TypeOK, SocketsOK
  <2> QED
    BY <1>7, <2>6, KeepTables, KeepLocals
    DEF Broadcast, TypeInv, TypeOK, RequestsOK, FrameFits, CountersFit, request, locals
<1>8. CASE BroadcastFails(c)
  BY <1>8, PlainFits, CloseType DEF BroadcastFails, Die, Plain
<1>9. CASE BroadcastDone(c)
  BY <1>9, PlainFits, CloseType DEF BroadcastDone, Plain, sockets
<1> QED
  BY <1>4, <1>5, <1>6, <1>7, <1>8, <1>9 DEF SendReport

LEMMA ReplyType ==
  ASSUME TypeInv, NEW c \in Conns, Reply(c), UNCHANGED <<connectionID, acceptor>>
  PROVE  TypeInv'
<1>1. Receipt(count[c]) \in ReplyFrames /\ Error(count[c]) \in ReplyFrames
  BY ConnectionsAssumption DEF Receipt, Error, ReplyFrames, TypeInv, TypeOK, RequestsOK
<1>2. CASE SendReceipt(c)
  <2>1. Goto(c, "findLogin") \/ Goto(c, "read")
    BY <1>2 DEF SendReceipt
  <2> QED
    BY <1>1, <1>2, <2>1, PlainFits, WriteType DEF SendReceipt, Plain
<1>3. CASE SendErrorTwice(c)
  BY <1>1, <1>3, PlainFits, WriteType DEF SendErrorTwice, Plain
<1>4. CASE SendError(c)
  BY <1>1, <1>4, PlainFits, WriteType DEF SendError, Plain
<1> QED
  BY <1>2, <1>3, <1>4 DEF Reply

-----------------------------------------------------------------------------
\* Steps of the cleanup that change where the thread's sweep stands.
LEMMA SweepType ==
  ASSUME TypeInv, NEW c \in Conns, NEW l \in Plain \cup {pc[c]},
         Goto(c, l) \/ (l = pc[c] /\ UNCHANGED pc),
         UNCHANGED open \/ open' = [open EXCEPT ![c] = FALSE],
         iter' \in [Conns -> Iterators],
         subscribers' \in [Channels -> [Conns -> [Conns -> SubIds \cup {None}]]],
         todo' \in [Conns -> SUBSET Channels],
         UNCHANGED <<activeClients, accounts, channelsSubscriptions, out, request,
                     connectionID, acceptor, shouldTerminate, messageID, victim>>
  PROVE  TypeInv'
<1>1. Goto(c, l)
  BY DEF Goto, TypeInv, TypeOK, RequestsOK
<1>2. l \in Labels /\ Fits(l, frame[c])
  BY PlainFits DEF TypeInv, TypeOK, RequestsOK, FrameFits
<1>3. l = "broadcast" => messageID'[c] > 0
  BY PlainFits DEF TypeInv, CountersFit
<1>4. l = "dropLogin" => victim'[c] \in Users
  BY PlainFits DEF TypeInv, CountersFit
<1>5. TablesOK'
  BY DEF TypeInv, TypeOK, TablesOK, accounts
<1>6. SocketsOK'
  BY DEF TypeInv, TypeOK, SocketsOK
<1>7. LocalsOK'
  BY DEF TypeInv, TypeOK, LocalsOK
<1> QED
  BY <1>1, <1>2, <1>3, <1>4, <1>5, <1>6, <1>7, StepType

LEMMA SweepThrowsGoes ==
  ASSUME NEW c, SweepThrows(c), todo \in [Conns -> SUBSET Channels]
  PROVE  /\ \E l \in Plain : Goto(c, l)
         /\ UNCHANGED open \/ open' = [open EXCEPT ![c] = FALSE]
         /\ todo' \in [Conns -> SUBSET Channels]
  BY DEF SweepThrows, Die, Plain

LEMMA SweepSubscriberType ==
  ASSUME TypeInv, NEW c \in Conns, SweepSubscriber(c), UNCHANGED <<connectionID, acceptor>>
  PROVE  TypeInv'
<1> DEFINE ch == iter[c].channel
           m  == iter[c].map
<1>1. /\ iter \in [Conns -> Iterators] /\ iter[c] \in Iterators
      /\ subscribers \in [Channels -> [Conns -> [Conns -> SubIds \cup {None}]]]
      /\ todo \in [Conns -> SUBSET Channels]
  BY DEF TypeInv, TypeOK, TablesOK, SocketsOK, LocalsOK
<1>2. PICK k \in iter[c].left :
        LET left == iter[c].left \ {k} IN
        IF k = SweepTarget
        THEN /\ subscribers' = [subscribers EXCEPT ![ch][m][k] = None]
             /\ iter' = [Stale(ch, m) EXCEPT ![c] = NoIterator]
             /\ IF left # {} THEN SweepThrows(c) ELSE UNCHANGED <<pc, open, todo>>
        ELSE /\ iter' = [iter EXCEPT ![c] =
                           IF left = {} THEN NoIterator ELSE [@ EXCEPT !.left = left]]
             /\ UNCHANGED <<subscribers, pc, open, todo>>
  BY DEF SweepSubscriber
<1>3. NoIterator \in Iterators
  BY DEF NoIterator, Iterators
<1>4. Stale(ch, m) \in [Conns -> Iterators]
  BY StaleType DEF TypeInv
<1>5. [iter[c] EXCEPT !.left = iter[c].left \ {k}] \in Iterators
  BY <1>1 DEF Iterators
<1>6. iter' \in [Conns -> Iterators]
  <2>1. CASE k = SweepTarget
    BY <1>2, <1>3, <1>4, <2>1
  <2>2. CASE k # SweepTarget
    BY <1>1, <1>2, <1>3, <1>5, <2>2
  <2> QED
    BY <2>1, <2>2
<1>7. subscribers' \in [Channels -> [Conns -> [Conns -> SubIds \cup {None}]]]
  <2> HIDE DEF ch, m
  <2>1. [subscribers EXCEPT ![ch][m][k] = None]
          \in [Channels -> [Conns -> [Conns -> SubIds \cup {None}]]]
    BY <1>1
  <2> QED
    BY <1>1, <1>2, <2>1
<1>8. CASE UNCHANGED <<pc, open, todo>>
  BY <1>1, <1>6, <1>7, <1>8, SweepType DEF SweepSubscriber
<1>9. CASE SweepThrows(c)
  BY <1>1, <1>6, <1>7, <1>9, SweepThrowsGoes, SweepType DEF SweepSubscriber
<1> QED
  BY <1>2, <1>8, <1>9

LEMMA EndSessionType ==
  ASSUME TypeInv, NEW c \in Conns, EndSession(c), UNCHANGED <<connectionID, acceptor>>
  PROVE  TypeInv'
<1>1. CASE CloseSocket(c)
  BY <1>1, PlainFits, CloseType DEF CloseSocket, Plain, topics
<1>2. ASSUME BeginSweep(c)
      PROVE  todo' \in [Conns -> SUBSET Channels]
  BY <1>2 DEF BeginSweep, TypeInv, TypeOK, LocalsOK
<1>3. CASE FindLogin(c)
  <2>1. TablesOK' /\ SocketsOK'
    BY <1>3, KeepTables, KeepSockets DEF FindLogin, topics, sockets
  <2>2. CASE \E u \in Users : /\ victim' = [victim EXCEPT ![c] = u]
                              /\ Goto(c, "dropLogin")
                              /\ UNCHANGED todo
    <3>1. LocalsOK' /\ victim'[c] \in Users /\ \A k \in Conns \ {c} : victim'[k] = victim[k]
      BY <1>3, <2>2 DEF FindLogin, TypeInv, TypeOK, LocalsOK
    <3> QED
      BY <1>3, <2>1, <2>2, <3>1, StepType DEF FindLogin, Labels, Fits
  <2>3. CASE BeginSweep(c) /\ Goto(c, "sweep") /\ UNCHANGED victim
    <3>1. LocalsOK'
      BY <1>2, <1>3, <2>3 DEF FindLogin, TypeInv, TypeOK, LocalsOK
    <3> QED
      BY <1>3, <2>1, <2>3, <3>1, StepType DEF FindLogin, Labels, Fits
  <2> QED
    BY <1>3, <2>2, <2>3 DEF FindLogin
<1>4. CASE DropLogin(c)
  <2>1. TablesOK'
    BY <1>4 DEF DropLogin, PutLogin, TypeInv, TypeOK, TablesOK, topics
  <2>2. SocketsOK'
    BY <1>4, KeepSockets DEF DropLogin, topics, sockets
  <2>3. LocalsOK' /\ \A k \in Conns \ {c} : victim'[k] = victim[k]
    BY <1>2, <1>4 DEF DropLogin, TypeInv, TypeOK, LocalsOK
  <2> QED
    BY <1>4, <2>1, <2>2, <2>3, StepType DEF DropLogin, Labels, Fits
<1>5. CASE SweepChannel(c)
  <2>1. iter' \in [Conns -> Iterators]
    BY <1>5, OpenIteratorType, CloseIteratorType DEF SweepChannel, TypeInv, TypeOK, LocalsOK
  <2>2. todo' \in [Conns -> SUBSET Channels]
    BY <1>5 DEF SweepChannel, TypeInv, TypeOK, LocalsOK
  <2>3. subscribers' \in [Channels -> [Conns -> [Conns -> SubIds \cup {None}]]]
    BY <1>5 DEF SweepChannel, TypeInv, TypeOK, TablesOK
  <2> QED
    BY <1>5, <2>1, <2>2, <2>3, SweepType DEF SweepChannel, sockets
<1>6. CASE SweepSubscriber(c)
  BY <1>6, SweepSubscriberType
<1>7. CASE SweepFails(c)
  <2>1. /\ iter' \in [Conns -> Iterators]
        /\ subscribers' \in [Channels -> [Conns -> [Conns -> SubIds \cup {None}]]]
        /\ todo \in [Conns -> SUBSET Channels]
    BY <1>7, CloseIteratorType DEF SweepFails, TypeInv, TypeOK, TablesOK, LocalsOK
  <2> QED
    BY <1>7, <2>1, SweepThrowsGoes, SweepType DEF SweepFails
<1>8. CASE SweepDone(c)
  BY <1>8, PlainFits, CloseType DEF SweepDone, Plain, sockets
<1>9. CASE Unregister(c)
  <2>1. TablesOK'
    BY <1>9 DEF Unregister, RemoveConnection, TypeInv, TypeOK, TablesOK, accounts, topics
  <2>2. SocketsOK'
    BY <1>9, KeepSockets DEF Unregister, topics, sockets
  <2>3. LocalsOK'
    BY <1>9 DEF Unregister, TypeInv, TypeOK, LocalsOK
  <2> QED
    BY <1>9, <2>1, <2>2, <2>3, PlainFits, StepType DEF Unregister, Plain
<1> QED
  BY <1>1, <1>3, <1>4, <1>5, <1>6, <1>7, <1>8, <1>9 DEF EndSession

(***************************************************************************)
(* The steps of the accept loop and of the reading loop.                   *)
(***************************************************************************)
LEMMA AcceptType == TypeInv /\ Accept => TypeInv'
<1> SUFFICES ASSUME TypeInv, Accept PROVE TypeInv'
  OBVIOUS
<1> USE DEF accounts, topics, request, locals
<1>1. connectionID \in Conns /\ connectionID \in 0 .. MaxConnections
  BY ConnectionsAssumption DEF TypeInv, TypeOK, Accept, Conns
<1>2. pc' = [pc EXCEPT ![connectionID] = "read"] /\ pc \in [Conns -> Labels]
  BY DEF Accept, Goto, TypeInv, TypeOK, RequestsOK
<1>3. TablesOK' /\ SocketsOK'
  BY <1>1 DEF Accept, AddConnection, TypeInv, TypeOK, TablesOK, SocketsOK
<1>4. RequestsOK'
  BY <1>1, <1>2 DEF Accept, Labels, TypeInv, TypeOK, RequestsOK
<1>5. LocalsOK'
  BY KeepLocals DEF Accept
<1>6. TypeOK'
  BY <1>1, <1>3, <1>4, <1>5 DEF Accept, TypeOK
<1>7. FrameFits'
  BY <1>1, <1>2, PlainFits DEF Accept, Plain, TypeInv, FrameFits
<1>8. CountersFit'
  BY <1>1, <1>2 DEF Accept, TypeInv, CountersFit
<1> QED
  BY <1>6, <1>7, <1>8 DEF TypeInv

LEMMA IncrementType == TypeInv /\ Increment => TypeInv'
<1> SUFFICES ASSUME TypeInv, Increment PROVE TypeInv'
  OBVIOUS
<1>1. TablesOK' /\ SocketsOK' /\ LocalsOK'
  BY KeepTables, KeepSockets, KeepLocals DEF Increment, topics, sockets
<1>2. RequestsOK' /\ FrameFits'
  BY DEF Increment, TypeInv, TypeOK, RequestsOK, FrameFits, request
<1>3. connectionID' \in 0 .. MaxConnections
  BY ConnectionsAssumption DEF Increment, TypeInv, TypeOK, CountersFit
<1>4. CountersFit'
  BY DEF Increment, TypeInv, CountersFit, locals
<1> QED
  BY <1>1, <1>2, <1>3, <1>4 DEF Increment, TypeInv, TypeOK

\* What a frame is, by its command.
LEMMA FrameKinds ==
  ASSUME NEW f \in Frames
  PROVE  /\ f.command = "CONNECT" => f \in ConnectFrames
         /\ f.command = "SUBSCRIBE" => f \in SubscribeFrames
         /\ f.command = "UNSUBSCRIBE" => f \in UnsubscribeFrames
         /\ f.command = "SEND" => f \in SendFrames
         /\ f.command \in {"CONNECT", "SUBSCRIBE", "UNSUBSCRIBE", "SEND", "DISCONNECT"}
  BY FramesAssumption
  DEF ConnectFrames, SubscribeFrames, UnsubscribeFrames, SendFrames, DisconnectFrames

LEMMA ReceiveType ==
  ASSUME TypeInv, NEW c \in Conns, Receive(c)
  PROVE  TypeInv'
<1>1. PICK f \in Frames : Dispatch(c, f)
  BY DEF Receive
<1> DEFINE label == CASE f.command = "CONNECT"     -> "userConnectedAlready"
                      [] f.command = "DISCONNECT"  -> "sendReceipt"
                      [] f.command = "UNSUBSCRIBE" -> "removeSubscription"
                      [] f.command = "SUBSCRIBE"   -> "walkChannels"
                      [] f.command = "SEND"        -> "findSubscription"
<1>2. /\ frame' = [frame EXCEPT ![c] = f]
      /\ pc' = [pc EXCEPT ![c] = label]
      /\ UNCHANGED <<messageID, victim, todo, acceptor, connectionID>>
  BY <1>1 DEF Dispatch, Goto, Receive
<1>3. \/ f.command = "CONNECT" /\ label = "userConnectedAlready" /\ f \in ConnectFrames
      \/ f.command = "DISCONNECT" /\ label = "sendReceipt"
      \/ f.command = "UNSUBSCRIBE" /\ label = "removeSubscription" /\ f \in UnsubscribeFrames
      \/ f.command = "SUBSCRIBE" /\ label = "walkChannels" /\ f \in SubscribeFrames
      \/ f.command = "SEND" /\ label = "findSubscription" /\ f \in SendFrames
  BY FrameKinds
<1> HIDE DEF label
<1>4. label \in Labels \ {"broadcast", "dropLogin"} /\ Fits(label, f)
  BY <1>3 DEF Labels, Fits
<1>5. /\ pc \in [Conns -> Labels] /\ frame \in [Conns -> Frames \cup {None}]
      /\ count \in [Conns -> 0 .. MaxFrames] /\ received \in [Conns -> SUBSET Frames]
  BY DEF TypeInv, TypeOK, RequestsOK
<1>6. RequestsOK'
  <2>1. count' \in [Conns -> 0 .. MaxFrames]
    BY <1>1, <1>5, ConnectionsAssumption DEF Receive, Dispatch
  <2>2. received' \in [Conns -> SUBSET Frames]
    BY <1>1, <1>5 DEF Dispatch
  <2>3. pc' \in [Conns -> Labels] /\ frame' \in [Conns -> Frames \cup {None}]
    BY <1>2, <1>4, <1>5
  <2> QED
    BY <2>1, <2>2, <2>3 DEF RequestsOK
<1>7. LocalsOK'
  BY <1>1 DEF Dispatch, TypeInv, TypeOK, LocalsOK
<1>8. TypeOK'
  BY <1>2, <1>6, <1>7, KeepTables, KeepSockets DEF Receive, TypeInv, TypeOK, topics, sockets
<1>9. FrameFits'
  BY <1>2, <1>4, <1>5 DEF TypeInv, FrameFits
<1>10. CountersFit'
  BY <1>2, <1>4, <1>5 DEF TypeInv, CountersFit
<1> QED
  BY <1>8, <1>9, <1>10 DEF TypeInv

LEMMA EndType ==
  ASSUME TypeInv, NEW c \in Conns, Exit(c) \/ Abort(c)
  PROVE  TypeInv'
  BY PlainFits, CloseType DEF Exit, Abort, Die, Plain, topics

LEMMA StutterType == TypeInv /\ UNCHANGED vars => TypeInv'
<1> SUFFICES ASSUME TypeInv, UNCHANGED vars PROVE TypeInv'
  OBVIOUS
<1>1. TablesOK' /\ SocketsOK' /\ LocalsOK'
  BY KeepTables, KeepSockets, KeepLocals DEF vars, topics, sockets
<1>2. RequestsOK' /\ FrameFits' /\ CountersFit'
  BY DEF vars, TypeInv, TypeOK, RequestsOK, FrameFits, CountersFit, request, locals
<1> QED
  BY <1>1, <1>2 DEF vars, TypeInv, TypeOK

LEMMA ProcessType ==
  ASSUME TypeInv, NEW c \in Conns, ProcessStep(c)
  PROVE  TypeInv'
  BY ConnectType, ToStringChannelsType, SubscribeType, RemoveSubscriptionType,
     SendReportType, ReplyType, EndSessionType
  DEF ProcessStep, Process

LEMMA NextType == TypeInv /\ [Next]_vars => TypeInv'
  BY AcceptType, IncrementType, ReceiveType, EndType, ProcessType, StutterType
  DEF Next, Quiescent

\* Every variable keeps its type, and every record field the code reads is
\* there when it is read, for any number of connections, frames, users,
\* channels and ids.
THEOREM TypeCorrect == Spec => []TypeOK
<1>1. Init => TypeInv
  BY InitType
<1>2. TypeInv /\ [Next]_vars => TypeInv'
  BY NextType
<1>3. TypeInv => TypeOK
  BY DEF TypeInv
<1> QED
  BY <1>1, <1>2, <1>3, PTL DEF Spec

-----------------------------------------------------------------------------
(***************************************************************************)
(* A logout frees the login of its connection.  The invariant CleanLogout  *)
(* is not inductive: it needs what a connection may be logged in as (only  *)
(* names it asked for), which login the cleanup is about to remove, and    *)
(* where a thread can be once its protocol object says shouldTerminate.    *)
(***************************************************************************)
AskedLogin(c, u) == \E f \in received[c] : f.command = "CONNECT" /\ f.login = u

OneName(c) ==
  \A f, g \in received[c] :
    f.command = "CONNECT" /\ g.command = "CONNECT" => f.login = g.login

Freed(c) == \A u \in Users : loggedInUsers[u] # c

\* Where a thread is once shouldTerminate is set.
LastLabels == {"sendReceipt", "findLogin", "dropLogin", "sweep", "read", "dead"}

Working(c) == pc[c] \notin {"new", "read", "dead"}

LoginInv(c) ==
  /\ Working(c) => frame[c] \in received[c]
  /\ \A u \in Users : loggedInUsers[u] = c => AskedLogin(c, u)
  /\ pc[c] = "dropLogin" => AskedLogin(c, victim[c])
  /\ shouldTerminate[c] => pc[c] \in LastLabels
  /\ shouldTerminate[c] /\ Working(c) => frame[c].command = "DISCONNECT"
  /\ LoggedOut(c) /\ OneName(c) => Freed(c)

\* The connections that are still to be accepted.
FreshInv ==
  \A c \in Conns : c > connectionID \/ (c = connectionID /\ acceptor = "accept")
                     => pc[c] = "new"

LogoutInv == (\A c \in Conns : LoginInv(c)) /\ FreshInv

-----------------------------------------------------------------------------
\* A connection is not affected by a step of another one that does not log
\* in for it.
LEMMA OthersKeepLogin ==
  ASSUME NEW k \in Conns, LoginInv(k),
         pc'[k] = pc[k], frame'[k] = frame[k], received'[k] = received[k],
         shouldTerminate'[k] = shouldTerminate[k], victim'[k] = victim[k],
         \A u \in Users : loggedInUsers'[u] = k => loggedInUsers[u] = k
  PROVE  LoginInv(k)'
  BY DEF LoginInv, Working, LoggedOut, OneName, Freed, AskedLogin

\* A step of a thread that only moves on to label l.
LEMMA QuietStep ==
  ASSUME TypeInv, LogoutInv, NEW c \in Conns, NEW l,
         pc' = [pc EXCEPT ![c] = l],
         UNCHANGED <<frame, received, shouldTerminate, victim, loggedInUsers>>,
         Working(c) \/ l = "dead", l # "dropLogin",
         shouldTerminate[c] => l \in LastLabels \ {"sendReceipt"},
         l \in {"sweep", "removeConnection"} => LoggedOut(c),
         l \in {"read", "dead"} /\ shouldTerminate[c] => LoggedOut(c)
  PROVE  \A k \in Conns : LoginInv(k)'
<1> SUFFICES ASSUME NEW k \in Conns PROVE LoginInv(k)'
  OBVIOUS
<1>1. pc \in [Conns -> Labels]
  BY DEF TypeInv, TypeOK, TablesOK, RequestsOK, LocalsOK
<1>2. LoginInv(k)
  BY DEF LogoutInv
<1>3. CASE k # c
  BY <1>1, <1>2, <1>3, OthersKeepLogin
<1>4. CASE k = c
  <2>1. pc'[c] = l
    BY <1>1
  <2>2. LoggedOut(c)' => LoggedOut(c)
    BY <2>1 DEF LoggedOut
  <2> QED
    BY <1>2, <1>4, <2>1, <2>2
    DEF LoginInv, Working, OneName, Freed, AskedLogin, LastLabels
<1> QED
  BY <1>3, <1>4

LEMMA QuietFresh ==
  ASSUME TypeInv, LogoutInv, NEW c \in Conns, NEW l,
         pc[c] # "new", pc' = [pc EXCEPT ![c] = l], UNCHANGED <<connectionID, acceptor>>
  PROVE  FreshInv'
  BY DEF LogoutInv, FreshInv, TypeInv, TypeOK, TablesOK, RequestsOK, LocalsOK

LEMMA QuietPreserves ==
  ASSUME TypeInv, LogoutInv, NEW c \in Conns, NEW l,
         pc[c] # "new", Goto(c, l), UNCHANGED <<connectionID, acceptor>>,
         UNCHANGED <<frame, received, shouldTerminate, victim, loggedInUsers>>,
         Working(c) \/ l = "dead", l # "dropLogin",
         shouldTerminate[c] => l \in LastLabels \ {"sendReceipt"},
         l \in {"sweep", "removeConnection"} => LoggedOut(c),
         l \in {"read", "dead"} /\ shouldTerminate[c] => LoggedOut(c)
  PROVE  LogoutInv'
<1>1. \A k \in Conns : LoginInv(k)'
  BY QuietStep DEF Goto
<1>2. FreshInv'
  BY QuietFresh DEF Goto
<1> QED
  BY <1>1, <1>2 DEF LogoutInv

\* A thread in the middle of a request other than a logout does not terminate
\* yet.
LEMMA Unfinished ==
  ASSUME LogoutInv, NEW c \in Conns, pc[c] \notin LastLabels
  PROVE  ~ shouldTerminate[c]
  BY DEF LogoutInv, LoginInv

LEMMA StutterLogout == LogoutInv /\ UNCHANGED vars => LogoutInv'
  BY DEF LogoutInv, LoginInv, Working, FreshInv, LoggedOut, OneName, Freed, AskedLogin, vars,
         accounts, request, locals

LEMMA InitLogout == Init => LogoutInv
  BY ConnectionsAssumption
  DEF Init, ConnectionsInit, ProtocolInit, LogoutInv, LoginInv, Working, FreshInv, LoggedOut,
      OneName, Freed, AskedLogin, LastLabels, Conns

-----------------------------------------------------------------------------
LEMMA ConnectLogout ==
  ASSUME TypeInv, LogoutInv, NEW c \in Conns, Connect(c),
         UNCHANGED <<connectionID, acceptor>>
  PROVE  LogoutInv'
<1> USE DEF At, request, locals, accounts
<1>1. pc[c] \notin LastLabels /\ Working(c) /\ pc[c] # "new"
  BY DEF Working, Connect, UserConnectedAlready, HasRegistered, CheckPasscode, RegisterUser,
         LogIn, SendConnected, LastLabels
<1>2. ~ shouldTerminate[c]
  BY <1>1, Unfinished
<1>3. CASE UserConnectedAlready(c)
  BY <1>1, <1>2, <1>3, QuietPreserves DEF UserConnectedAlready
<1>4. CASE HasRegistered(c)
  BY <1>1, <1>2, <1>4, QuietPreserves DEF HasRegistered
<1>5. CASE CheckPasscode(c)
  BY <1>1, <1>2, <1>5, QuietPreserves DEF CheckPasscode
<1>6. CASE RegisterUser(c)
  BY <1>1, <1>2, <1>6, QuietPreserves DEF RegisterUser
<1>7. CASE SendConnected(c)
  BY <1>1, <1>2, <1>7, QuietPreserves DEF SendConnected
<1>8. CASE LogIn(c)
  <2>1. /\ pc' = [pc EXCEPT ![c] = "sendConnected"]
        /\ loggedInUsers' = [loggedInUsers EXCEPT ![frame[c].login] = c]
        /\ UNCHANGED <<frame, received, shouldTerminate, victim>>
    BY <1>8 DEF LogIn, Goto, PutLogin
  <2>2. pc \in [Conns -> Labels] /\ loggedInUsers \in [Users -> Conns \cup {None}]
    BY DEF TypeInv, TypeOK, TablesOK, RequestsOK, LocalsOK
  <2>3. frame[c] \in ConnectFrames /\ frame[c] \in received[c]
    BY <1>1, <1>8 DEF LogIn, TypeInv, FrameFits, Fits, LogoutInv, LoginInv
  <2>4. ASSUME NEW k \in Conns, k # c
        PROVE  LoginInv(k)'
    BY <2>1, <2>2, <2>4, OthersKeepLogin DEF LogoutInv
  <2>5. LoginInv(c)'
    <3>1. ~ LoggedOut(c)'
      BY <2>1, <2>2 DEF LoggedOut
    <3>2. AskedLogin(c, frame[c].login)'
      BY <2>1, <2>3 DEF AskedLogin, ConnectFrames
    <3>3. \A u \in Users : loggedInUsers'[u] = c => AskedLogin(c, u)'
      BY <2>1, <2>2, <3>2 DEF LogoutInv, LoginInv, AskedLogin
    <3> QED
      BY <1>2, <2>1, <2>2, <2>3, <3>1, <3>3 DEF LoginInv, Working
  <2>6. FreshInv'
    BY <1>1, <2>1, QuietFresh
  <2> QED
    BY <2>4, <2>5, <2>6 DEF LogoutInv
<1> QED
  BY <1>3, <1>4, <1>5, <1>6, <1>7, <1>8 DEF Connect
LEMMA ToStringChannelsLogout ==
  ASSUME TypeInv, LogoutInv, NEW c \in Conns, ToStringChannels(c),
         UNCHANGED <<connectionID, acceptor>>
  PROVE  LogoutInv'
<1> USE DEF At, request, locals, accounts
<1>1. pc[c] \notin LastLabels /\ Working(c) /\ pc[c] # "new"
  BY DEF Working, ToStringChannels, WalkChannels, WalkDone, WalkFails, LastLabels
<1>2. ~ shouldTerminate[c]
  BY <1>1, Unfinished
<1>3. CASE WalkChannels(c)
  BY <1>1, <1>2, <1>3, QuietPreserves DEF WalkChannels
<1>4. CASE WalkDone(c)
  BY <1>1, <1>2, <1>4, QuietPreserves DEF WalkDone
<1>5. CASE WalkFails(c)
  BY <1>1, <1>2, <1>5, QuietPreserves DEF WalkFails, Die
<1> QED
  BY <1>3, <1>4, <1>5 DEF ToStringChannels

LEMMA SubscribeLogout ==
  ASSUME TypeInv, LogoutInv, NEW c \in Conns, Subscribe(c),
         UNCHANGED <<connectionID, acceptor>>
  PROVE  LogoutInv'
<1> USE DEF At, request, locals, accounts
<1>1. pc[c] \notin LastLabels /\ Working(c) /\ pc[c] # "new"
  BY DEF Working, Subscribe, FindChannel, FindSubscriber, PutSubscription, CreateChannel, LastLabels
<1>2. ~ shouldTerminate[c]
  BY <1>1, Unfinished
<1>3. CASE FindChannel(c)
  BY <1>1, <1>2, <1>3, QuietPreserves DEF FindChannel
<1>4. CASE FindSubscriber(c)
  BY <1>1, <1>2, <1>4, QuietPreserves DEF FindSubscriber
<1>5. CASE PutSubscription(c)
  BY <1>1, <1>2, <1>5, QuietPreserves DEF PutSubscription
<1>6. CASE CreateChannel(c)
  BY <1>1, <1>2, <1>6, QuietPreserves DEF CreateChannel
<1> QED
  BY <1>3, <1>4, <1>5, <1>6 DEF Subscribe

LEMMA SendReportLogout ==
  ASSUME TypeInv, LogoutInv, NEW c \in Conns, SendReport(c),
         UNCHANGED <<connectionID, acceptor>>
  PROVE  LogoutInv'
<1> USE DEF At, request, locals, accounts
<1>1. pc[c] \notin LastLabels /\ Working(c) /\ pc[c] # "new"
  BY DEF Working, SendReport, FindSubscription, GetSubscription, OpenBroadcast, Broadcast, BroadcastFails, BroadcastDone, LastLabels
<1>2. ~ shouldTerminate[c]
  BY <1>1, Unfinished
<1>3. CASE FindSubscription(c)
  BY <1>1, <1>2, <1>3, QuietPreserves DEF FindSubscription
<1>4. CASE GetSubscription(c)
  BY <1>1, <1>2, <1>4, QuietPreserves DEF GetSubscription, Die
<1>5. CASE OpenBroadcast(c)
  BY <1>1, <1>2, <1>5, QuietPreserves DEF OpenBroadcast
<1>6. CASE Broadcast(c)
  <2>1. /\ UNCHANGED <<pc, frame, received, shouldTerminate, victim, loggedInUsers>>
        /\ UNCHANGED <<connectionID, acceptor>>
    BY <1>6 DEF Broadcast
  <2> QED
    BY <2>1 DEF LogoutInv, LoginInv, Working, FreshInv, LoggedOut, OneName, Freed, AskedLogin
<1>7. CASE BroadcastFails(c)
  BY <1>1, <1>2, <1>7, QuietPreserves DEF BroadcastFails, Die
<1>8. CASE BroadcastDone(c)
  BY <1>1, <1>2, <1>8, QuietPreserves DEF BroadcastDone
<1> QED
  BY <1>3, <1>4, <1>5, <1>6, <1>7, <1>8 DEF SendReport

LEMMA RemoveSubscriptionLogout ==
  ASSUME TypeInv, LogoutInv, NEW c \in Conns, RemoveSubscription(c),
         UNCHANGED <<connectionID, acceptor>>
  PROVE  LogoutInv'
<1> USE DEF At, request, locals, accounts
<1>1. pc[c] \notin LastLabels /\ Working(c) /\ pc[c] # "new"
  BY DEF Working, RemoveSubscription, LastLabels
<1>2. ~ shouldTerminate[c]
  BY <1>1, Unfinished
<1>3. Goto(c, "walkChannels") \/ Goto(c, "sendError")
  BY DEF RemoveSubscription
<1> QED
  BY <1>1, <1>2, <1>3, QuietPreserves DEF RemoveSubscription

LEMMA ReplyLogout ==
  ASSUME TypeInv, LogoutInv, NEW c \in Conns, Reply(c),
         UNCHANGED <<connectionID, acceptor>>
  PROVE  LogoutInv'
<1> USE DEF At, request, locals, accounts
<1>1. Working(c) /\ pc[c] # "new"
  BY DEF Working, Reply, SendReceipt, SendErrorTwice, SendError
<1>2. CASE SendReceipt(c)
  <2>1. shouldTerminate[c] => frame[c].command = "DISCONNECT"
    BY <1>1, <1>2 DEF SendReceipt, LogoutInv, LoginInv
  <2> QED
    BY <1>1, <1>2, <2>1, QuietPreserves DEF SendReceipt, LastLabels
<1>3. CASE SendErrorTwice(c)
  <2>1. ~ shouldTerminate[c]
    BY <1>3, Unfinished DEF SendErrorTwice, LastLabels
  <2> QED
    BY <1>1, <1>3, <2>1, QuietPreserves DEF SendErrorTwice
<1>4. CASE SendError(c)
  <2>1. ~ shouldTerminate[c]
    BY <1>4, Unfinished DEF SendError, LastLabels
  <2> QED
    BY <1>1, <1>4, <2>1, QuietPreserves DEF SendError
<1> QED
  BY <1>2, <1>3, <1>4 DEF Reply

-----------------------------------------------------------------------------
LEMMA FindLoginLogout ==
  ASSUME TypeInv, LogoutInv, NEW c \in Conns, FindLogin(c),
         UNCHANGED <<connectionID, acceptor>>
  PROVE  LogoutInv'
<1> USE DEF At, Goto, request, accounts
<1>1. /\ pc[c] = "findLogin"
      /\ UNCHANGED <<frame, received, shouldTerminate, loggedInUsers>>
  BY DEF FindLogin
<1>2. pc \in [Conns -> Labels] /\ victim \in [Conns -> Users \cup {None}]
  BY DEF TypeInv, TypeOK, TablesOK, RequestsOK, LocalsOK
<1>3. CASE /\ \A u \in Users : loggedInUsers[u] # c
           /\ pc' = [pc EXCEPT ![c] = "sweep"]
           /\ UNCHANGED victim
  <2>1. LoginInv(c)'
    BY <1>1, <1>2, <1>3
    DEF LogoutInv, LoginInv, Working, Freed, AskedLogin, LastLabels
  <2>2. ASSUME NEW k \in Conns, k # c
        PROVE  LoginInv(k)'
    BY <1>1, <1>2, <1>3, <2>2, OthersKeepLogin DEF LogoutInv
  <2> QED
    BY <1>1, <1>3, <2>1, <2>2, QuietFresh DEF LogoutInv
<1>4. CASE \E u \in Users : /\ loggedInUsers[u] = c
                           /\ victim' = [victim EXCEPT ![c] = u]
                           /\ pc' = [pc EXCEPT ![c] = "dropLogin"]
  <2>1. PICK u \in Users : /\ loggedInUsers[u] = c
                           /\ victim' = [victim EXCEPT ![c] = u]
                           /\ pc' = [pc EXCEPT ![c] = "dropLogin"]
    BY <1>4
  <2>2. LoginInv(c)'
    <3>1. ~ LoggedOut(c)'
      BY <1>2, <2>1 DEF LoggedOut
    <3>2. AskedLogin(c, victim[c])'
      BY <1>1, <1>2, <2>1 DEF LogoutInv, LoginInv, AskedLogin
    <3> QED
      BY <1>1, <1>2, <2>1, <3>1, <3>2
      DEF LogoutInv, LoginInv, Working, AskedLogin, LastLabels
  <2>3. ASSUME NEW k \in Conns, k # c
        PROVE  LoginInv(k)'
    BY <1>1, <1>2, <2>1, <2>3, OthersKeepLogin DEF LogoutInv
  <2> QED
    BY <1>1, <2>1, <2>2, <2>3, QuietFresh DEF LogoutInv
<1> QED
  BY <1>3, <1>4 DEF FindLogin

LEMMA DropLoginLogout ==
  ASSUME TypeInv, LogoutInv, NEW c \in Conns, DropLogin(c),
         UNCHANGED <<connectionID, acceptor>>
  PROVE  LogoutInv'
<1>1. /\ pc[c] = "dropLogin"
      /\ pc' = [pc EXCEPT ![c] = "sweep"]
      /\ victim' = [victim EXCEPT ![c] = None]
      /\ loggedInUsers' = [loggedInUsers EXCEPT ![victim[c]] = None]
      /\ UNCHANGED <<frame, received, shouldTerminate>>
  BY DEF DropLogin, At, Goto, PutLogin, request
<1>2. /\ pc \in [Conns -> Labels] /\ victim \in [Conns -> Users \cup {None}]
      /\ loggedInUsers \in [Users -> Conns \cup {None}]
  BY DEF TypeInv, TypeOK, TablesOK, RequestsOK, LocalsOK
<1>3. None \notin Conns
  BY ConnectionsAssumption
<1>4. \A u \in Users, k \in Conns :
        loggedInUsers'[u] = k => loggedInUsers[u] = k /\ u # victim[c]
  BY <1>1, <1>2, <1>3
<1>5. ASSUME OneName(c)
      PROVE  Freed(c)'
  <2> SUFFICES ASSUME NEW u \in Users, loggedInUsers'[u] = c PROVE FALSE
    BY DEF Freed
  <2>1. AskedLogin(c, u) /\ u # victim[c]
    BY <1>4 DEF LogoutInv, LoginInv
  <2>2. AskedLogin(c, victim[c])
    BY <1>1 DEF LogoutInv, LoginInv
  <2> QED
    BY <1>5, <2>1, <2>2 DEF OneName, AskedLogin
<1>6. LoginInv(c)'
  BY <1>1, <1>2, <1>4, <1>5
  DEF LogoutInv, LoginInv, Working, OneName, AskedLogin, LastLabels
<1>7. ASSUME NEW k \in Conns, k # c
      PROVE  LoginInv(k)'
  BY <1>1, <1>2, <1>4, <1>7, OthersKeepLogin DEF LogoutInv
<1> QED
  BY <1>1, <1>6, <1>7, QuietFresh DEF LogoutInv

LEMMA SweepLogout ==
  ASSUME TypeInv, LogoutInv, NEW c \in Conns,
         SweepChannel(c) \/ SweepSubscriber(c) \/ SweepFails(c) \/ SweepDone(c),
         UNCHANGED <<connectionID, acceptor>>
  PROVE  LogoutInv'
<1>1. /\ pc[c] = "sweep"
      /\ UNCHANGED <<frame, received, shouldTerminate, victim, loggedInUsers>>
  BY DEF SweepChannel, SweepSubscriber, SweepFails, SweepDone, At, request, accounts, locals
<1>2. UNCHANGED pc \/ Goto(c, "read") \/ Goto(c, "dead") \/ Goto(c, "removeConnection")
  BY DEF SweepChannel, SweepSubscriber, SweepFails, SweepDone, SweepThrows, Die
<1>3. Working(c) /\ LoggedOut(c)
  BY <1>1 DEF Working, LoggedOut
<1>4. CASE UNCHANGED pc
  BY <1>1, <1>4
  DEF LogoutInv, LoginInv, Working, FreshInv, LoggedOut, OneName, Freed, AskedLogin
<1>5. CASE Goto(c, "read") \/ Goto(c, "dead")
  BY <1>1, <1>3, <1>5, QuietPreserves DEF LastLabels
<1>6. CASE Goto(c, "removeConnection")
  <2>1. pc'[c] = "removeConnection"
    BY <1>6 DEF Goto, TypeInv, TypeOK, TablesOK, RequestsOK, LocalsOK
  <2>2. SweepDone(c)
    BY <1>1, <2>1 DEF SweepChannel, SweepSubscriber, SweepFails, SweepThrows, Die, Goto,
                      TypeInv, TypeOK, TablesOK, RequestsOK, LocalsOK
  <2>3. frame[c].command # "DISCONNECT"
    BY <2>1, <2>2 DEF SweepDone, Goto, TypeInv, TypeOK, TablesOK, RequestsOK, LocalsOK
  <2>4. ~ shouldTerminate[c]
    BY <1>3, <2>3 DEF LogoutInv, LoginInv
  <2> QED
    BY <1>1, <1>3, <1>6, <2>4, QuietPreserves DEF LastLabels
<1> QED
  BY <1>2, <1>4, <1>5, <1>6

LEMMA CloseLogout ==
  ASSUME TypeInv, LogoutInv, NEW c \in Conns, CloseSocket(c) \/ Unregister(c),
         UNCHANGED <<connectionID, acceptor>>
  PROVE  LogoutInv'
<1> USE DEF At, request, accounts, locals
<1>1. CASE CloseSocket(c)
  <2>1. ~ shouldTerminate[c] /\ Working(c) /\ pc[c] # "new"
    BY <1>1, Unfinished DEF CloseSocket, LastLabels, Working
  <2> QED
    BY <1>1, <2>1, QuietPreserves DEF CloseSocket
<1>2. CASE Unregister(c)
  <2>1. /\ pc[c] = "removeConnection" /\ pc[c] # "new" /\ pc' = [pc EXCEPT ![c] = "read"]
        /\ shouldTerminate' = [shouldTerminate EXCEPT ![c] = TRUE]
        /\ UNCHANGED <<frame, received, victim, loggedInUsers>>
    BY <1>2 DEF Unregister, Goto
  <2>2. pc \in [Conns -> Labels] /\ shouldTerminate \in [Conns -> BOOLEAN]
    BY DEF TypeInv, TypeOK, TablesOK, RequestsOK, LocalsOK
  <2>3. LoginInv(c)'
    <3>1. LoggedOut(c)
      BY <2>1 DEF LoggedOut
    <3>2. OneName(c)' => Freed(c)'
      BY <2>1, <3>1 DEF LogoutInv, LoginInv, OneName, Freed
    <3> QED
      BY <2>1, <2>2, <3>2 DEF LogoutInv, LoginInv, Working, AskedLogin, LastLabels
  <2>4. ASSUME NEW k \in Conns, k # c
        PROVE  LoginInv(k)'
    BY <2>1, <2>2, <2>4, OthersKeepLogin DEF LogoutInv
  <2> QED
    BY <2>1, <2>3, <2>4, QuietFresh DEF LogoutInv
<1> QED
  BY <1>1, <1>2

LEMMA ProcessLogout ==
  ASSUME TypeInv, LogoutInv, NEW c \in Conns, ProcessStep(c)
  PROVE  LogoutInv'
  BY ConnectLogout, ToStringChannelsLogout, SubscribeLogout, RemoveSubscriptionLogout,
     SendReportLogout, ReplyLogout, FindLoginLogout, DropLoginLogout, SweepLogout,
     CloseLogout
  DEF ProcessStep, Process, EndSession

-----------------------------------------------------------------------------
LEMMA AcceptLogout == TypeInv /\ LogoutInv /\ Accept => LogoutInv'
<1> SUFFICES ASSUME TypeInv, LogoutInv, Accept PROVE LogoutInv'
  OBVIOUS
<1>0. connectionID \in Conns /\ acceptor = "accept"
  BY ConnectionsAssumption DEF TypeInv, TypeOK, TablesOK, RequestsOK, LocalsOK, Accept, Conns
<1>1. PICK c \in Conns : c = connectionID
  BY <1>0
<1>2. /\ pc' = [pc EXCEPT ![c] = "read"]
      /\ acceptor' = "increment"
      /\ UNCHANGED <<connectionID, frame, received, shouldTerminate, victim, loggedInUsers>>
  BY <1>1 DEF Accept, Goto, accounts, request, locals
<1>3. pc \in [Conns -> Labels]
  BY DEF TypeInv, TypeOK, TablesOK, RequestsOK, LocalsOK
<1>4. pc[c] = "new"
  BY <1>0, <1>1 DEF LogoutInv, FreshInv
<1>5. ~ shouldTerminate[c]
  BY <1>1, <1>4, Unfinished DEF LastLabels
<1>6. LoginInv(c)'
  BY <1>1, <1>2, <1>3, <1>5 DEF LogoutInv, LoginInv, Working, LoggedOut, AskedLogin
<1>7. ASSUME NEW k \in Conns, k # c
      PROVE  LoginInv(k)'
  BY <1>2, <1>3, <1>7, OthersKeepLogin DEF LogoutInv
<1>8. FreshInv'
  BY <1>0, <1>1, <1>2, <1>3 DEF LogoutInv, FreshInv, Conns
<1> QED
  BY <1>6, <1>7, <1>8 DEF LogoutInv

LEMMA IncrementLogout == TypeInv /\ LogoutInv /\ Increment => LogoutInv'
<1> SUFFICES ASSUME TypeInv, LogoutInv, Increment PROVE LogoutInv'
  OBVIOUS
<1>1. /\ connectionID' = connectionID + 1 /\ acceptor = "increment"
      /\ UNCHANGED <<pc, frame, received, shouldTerminate, victim, loggedInUsers>>
  BY DEF Increment, accounts, request, locals
<1>2. \A c \in Conns : LoginInv(c)'
  BY <1>1, OthersKeepLogin DEF LogoutInv
<1>3. connectionID \in Int /\ Conns \subseteq Int
  BY ConnectionsAssumption DEF TypeInv, TypeOK, TablesOK, RequestsOK, LocalsOK, Conns
<1>4. FreshInv'
  BY <1>1, <1>3 DEF LogoutInv, FreshInv
<1> QED
  BY <1>2, <1>4 DEF LogoutInv

LEMMA ReceiveLogout ==
  ASSUME TypeInv, LogoutInv, NEW c \in Conns, Receive(c)
  PROVE  LogoutInv'
<1>1. PICK f \in Frames : Dispatch(c, f)
  BY DEF Receive
<1>2. pc[c] = "read" /\ ~ shouldTerminate[c]
  BY DEF Receive, Reading, At
<1>3. PICK l \in Labels \ {"new", "read", "dead", "dropLogin", "sweep", "removeConnection"} :
        /\ pc' = [pc EXCEPT ![c] = l]
        /\ f.command = "DISCONNECT" => l = "sendReceipt"
  BY <1>1, FrameKinds DEF Dispatch, Goto, Labels
<1>4. /\ frame' = [frame EXCEPT ![c] = f]
      /\ received' = [received EXCEPT ![c] = @ \cup {f}]
      /\ shouldTerminate' = [shouldTerminate EXCEPT ![c] = (f.command = "DISCONNECT")]
      /\ UNCHANGED <<victim, loggedInUsers, connectionID, acceptor>>
  BY <1>1 DEF Dispatch, Receive, accounts
<1>5. /\ pc \in [Conns -> Labels] /\ frame \in [Conns -> Frames \cup {None}]
      /\ received \in [Conns -> SUBSET Frames] /\ shouldTerminate \in [Conns -> BOOLEAN]
  BY DEF TypeInv, TypeOK, TablesOK, RequestsOK, LocalsOK
<1>6. LoginInv(c)'
  <2>0. pc'[c] = l
    BY <1>3, <1>5
  <2>1. ~ LoggedOut(c)'
    BY <1>3, <2>0 DEF LoggedOut
  <2>2. \A u \in Users : AskedLogin(c, u) => AskedLogin(c, u)'
    BY <1>4, <1>5 DEF AskedLogin
  <2>3. \A u \in Users : loggedInUsers'[u] = c => AskedLogin(c, u)'
    BY <1>4, <2>2 DEF LogoutInv, LoginInv
  <2>4. frame'[c] = f /\ f \in received'[c]
    BY <1>4, <1>5
  <2>5. shouldTerminate'[c] => f.command = "DISCONNECT"
    BY <1>4, <1>5
  <2> QED
    BY <1>3, <2>0, <2>1, <2>3, <2>4, <2>5 DEF LoginInv, Working, LastLabels
<1>7. ASSUME NEW k \in Conns, k # c
      PROVE  LoginInv(k)'
  BY <1>3, <1>4, <1>5, <1>7, OthersKeepLogin DEF LogoutInv
<1>8. FreshInv'
  BY <1>2, <1>3, <1>4, QuietFresh
<1> QED
  BY <1>6, <1>7, <1>8 DEF LogoutInv

LEMMA EndLogout ==
  ASSUME TypeInv, LogoutInv, NEW c \in Conns, Exit(c) \/ Abort(c)
  PROVE  LogoutInv'
<1>1. /\ pc[c] = "read" /\ pc[c] # "new" /\ Goto(c, "dead")
      /\ UNCHANGED <<connectionID, acceptor>>
      /\ UNCHANGED <<frame, received, shouldTerminate, victim, loggedInUsers>>
  BY DEF Exit, Abort, Reading, At, Die, accounts, request, locals
<1>2. shouldTerminate[c] => LoggedOut(c)
  BY <1>1 DEF LoggedOut
<1> QED
  BY <1>1, <1>2, QuietPreserves DEF LastLabels

\* disconnect frees the login: a connection that used one name is nobody's
\* login once it has logged out, for any number of racing connections.
THEOREM LogoutFreesLogin == Spec => []CleanLogout
<1>1. Init => TypeInv /\ LogoutInv
  BY InitType, InitLogout
<1>2. TypeInv /\ LogoutInv /\ [Next]_vars => TypeInv' /\ LogoutInv'
  <2>1. TypeInv /\ LogoutInv /\ [Next]_vars => TypeInv'
    BY NextType
  <2>2. TypeInv /\ LogoutInv /\ [Next]_vars => LogoutInv'
    BY AcceptLogout, IncrementLogout, ReceiveLogout, EndLogout, ProcessLogout,
       StutterLogout
    DEF Next, Quiescent
  <2> QED
    BY <2>1, <2>2
<1>3. LogoutInv => CleanLogout
  BY DEF LogoutInv, LoginInv, CleanLogout, OneName, Freed
<1> QED
  BY <1>1, <1>2, <1>3, PTL DEF Spec
=============================================================================
