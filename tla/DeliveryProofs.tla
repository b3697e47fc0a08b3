--------------------------- MODULE DeliveryProofs ---------------------------
(***************************************************************************)
(* What the thread-per-client server writes to its clients, for every      *)
(* number of connections, frames, channels and ids.                        *)
(*                                                                         *)
(* Broadcasts: who gets a report (DeliveredOnlyToSubscribers), in which    *)
(* order (SenderOrder), and that no subscriber is skipped                  *)
(* (BroadcastReachesSubscribers).  All three need to know what a           *)
(* broadcast's iterator stands for: the connections it has still to visit  *)
(* asked for the channel, have not got this report, and, as long as the    *)
(* iterator is not stale, are all the subscribers left in its map.  A map  *)
(* keeps its contents under an iterator that is not stale because no       *)
(* thread fills a map that another one has already opened (CreatesFresh).  *)
(*                                                                         *)
(* Answers: the server implements Sessions.  Each client sees its requests *)
(* answered one at a time and in order, and nothing but broadcasts after   *)
(* the last answer.                                                        *)
(***************************************************************************)
EXTENDS TpcServerProofs

Sending == {"getSubscription", "openBroadcast", "broadcast"}

\* The labels of a thread that has found the channel of its frame.
Found == Sending \cup {"findSubscriber", "putSubscription"}

ChannelFound == \A c \in Conns : pc[c] \in Found => HasChannel(frame[c].destination)

\* Nobody is in a map without having asked for the channel.
EntriesAsked ==
  \A ch \in Channels : \A m, k \in Conns : subscribers[ch][m][k] # None => Asked(k, ch)

SendersAsked == \A c \in Conns : pc[c] \in Sending => Asked(c, frame[c].destination)

NewSilent == \A c \in Conns : pc[c] = "new" => received[c] = {}

\* The iterator of a broadcast.
Broadcasts ==
  \A c \in Conns : pc[c] = "broadcast" =>
    /\ iter[c].channel = frame[c].destination /\ iter[c].map \in Conns
    /\ \A k \in iter[c].left : Asked(k, frame[c].destination)

\* The reports of s in what was written to k have numbers below n.
SentBelow(s, k, n) ==
  \A i \in DOMAIN out[k] : IsMessage(k, i) /\ out[k][i].sender = s => out[k][i].messageID < n

Numbered ==
  \A s, k \in Conns :
    /\ SentBelow(s, k, messageID[s])
    /\ pc[s] = "broadcast" /\ k \in iter[s].left => SentBelow(s, k, messageID[s] - 1)

\* An iterator is open on a channel that exists, and a thread that is about
\* to create a map has not created it before.
IteratorsOpen ==
  \A ch \in Channels : ~ HasChannel(ch) => \A k \in Conns : iter[k].channel # ch

CreatesFresh ==
  \A c \in Conns : pc[c] = "createChannel" =>
    LET ch == frame[c].destination IN
    /\ channelsSubscriptions[ch] # c
    /\ \A k \in Conns : iter[k].channel = ch => iter[k].map # c

ReportInv ==
  /\ EntriesAsked /\ SendersAsked /\ NewSilent /\ ChannelFound /\ Broadcasts
  /\ Numbered /\ IteratorsOpen /\ CreatesFresh
  /\ DeliveredOnlyToSubscribers /\ SenderOrder /\ BroadcastReachesSubscribers

-----------------------------------------------------------------------------
LEMMA Types ==
  ASSUME TypeInv
  PROVE  /\ channelsSubscriptions \in [Channels -> Conns \cup {None}]
         /\ subscribers \in [Channels -> [Conns -> [Conns -> SubIds \cup {None}]]]
         /\ iter \in [Conns -> Iterators] /\ open \in [Conns -> BOOLEAN]
         /\ out \in [Conns -> Seq(ReplyFrames \cup MessageFrames)]
         /\ pc \in [Conns -> Labels] /\ frame \in [Conns -> Frames \cup {None}]
         /\ received \in [Conns -> SUBSET Frames] /\ messageID \in [Conns -> Nat]
  BY DEF TypeInv, TypeOK, TablesOK, SocketsOK, RequestsOK, LocalsOK

LEMMA Appended ==
  ASSUME NEW F, NEW s \in Seq(F), NEW m \in F
  PROVE  /\ Len(s) \in Nat /\ DOMAIN s = 1 .. Len(s)
         /\ DOMAIN Append(s, m) = 1 .. Len(s) + 1
         /\ \A i \in 1 .. Len(s) : Append(s, m)[i] = s[i]
         /\ Append(s, m)[Len(s) + 1] = m
  BY AppendProperties, LenProperties

\* What was written stays, and no report is added to it.
SameReports ==
  \A k \in Conns :
    /\ \A i \in DOMAIN out[k] : i \in DOMAIN out'[k] /\ out'[k][i] = out[k][i]
    /\ \A i \in DOMAIN out'[k] : out'[k][i].command = "MESSAGE" => i \in DOMAIN out[k]

LEMMA ReplySent ==
  ASSUME TypeInv, NEW c \in Conns, NEW m \in ReplyFrames, Send(c, m)
  PROVE  SameReports
<1>1. /\ out'[c] = out[c] \/ out'[c] = Append(out[c], m)
      /\ \A k \in Conns \ {c} : out'[k] = out[k]
  BY Types DEF Send
<1>2. m.command # "MESSAGE"
  BY DEF ReplyFrames
<1>3. CASE out'[c] = out[c]
  BY <1>1, <1>3 DEF SameReports
<1>4. CASE out'[c] = Append(out[c], m)
  <2>1. out[c] \in Seq(ReplyFrames \cup MessageFrames)
    BY Types
  <2> QED
    BY <1>1, <1>2, <1>4, <2>1, Appended DEF SameReports
<1> QED
  BY <1>1, <1>3, <1>4

\* A step of the thread of c that broadcasts nothing: it moves on to label l,
\* keeps the maps under every iterator that is not stale, and adds to a map
\* only who asked for the channel.
SameIterator(k) ==
  /\ iter'[k].channel = iter[k].channel /\ iter'[k].map = iter[k].map
  /\ iter'[k].left = iter[k].left
  /\ ~ iter'[k].stale =>
       /\ ~ iter[k].stale
       /\ pc[k] = "broadcast" => subscribers'[iter[k].channel][iter[k].map]
                                   = subscribers[iter[k].channel][iter[k].map]

Quiet(c, l) ==
  /\ pc[c] # "new" /\ l \notin {"new", "broadcast"} /\ Goto(c, l)
  /\ l \in Sending => Asked(c, frame[c].destination)
  /\ l \in Found => HasChannel(frame[c].destination)
  /\ l = "createChannel" => ~ HasChannel(frame[c].destination)
  /\ UNCHANGED <<frame, received, messageID, channelsSubscriptions>>
  /\ \A ch \in Channels : \A m, k \in Conns :
       subscribers'[ch][m][k] # None => subscribers[ch][m][k] # None \/ Asked(k, ch)
  /\ \A k \in Conns \ {c} : SameIterator(k)
  /\ \/ iter'[c].channel = None
     \/ HasChannel(iter'[c].channel) /\ iter'[c].map = channelsSubscriptions[iter'[c].channel]
     \/ iter'[c].channel = iter[c].channel /\ iter'[c].map = iter[c].map
  /\ \A k \in Conns : open'[k] => open[k]
  /\ SameReports

LEMMA QuietReports ==
  ASSUME TypeInv, TypeInv', ReportInv, NEW c \in Conns, NEW l, Quiet(c, l)
  PROVE  ReportInv'
<1>1. pc'[c] = l /\ \A k \in Conns \ {c} : pc'[k] = pc[k]
  BY Types DEF Quiet, Goto
<1>2. EntriesAsked'
  BY DEF Quiet, ReportInv, EntriesAsked, Asked
<1>3. SendersAsked' /\ NewSilent' /\ ChannelFound'
  BY <1>1 DEF Quiet, ReportInv, SendersAsked, NewSilent, ChannelFound, HasChannel, Asked
<1>4. ASSUME NEW k \in Conns, pc'[k] = "broadcast"
      PROVE  k # c /\ pc[k] = "broadcast" /\ SameIterator(k)
  BY <1>1, <1>4 DEF Quiet
<1>5. Broadcasts'
  BY <1>4 DEF Quiet, ReportInv, Broadcasts, SameIterator, Asked
<1>6. \A s, k \in Conns : \A n : SentBelow(s, k, n) => SentBelow(s, k, n)'
  BY DEF Quiet, SameReports, SentBelow, IsMessage
<1>7. Numbered'
  <2> SUFFICES ASSUME NEW s \in Conns, NEW k \in Conns
               PROVE  /\ SentBelow(s, k, messageID[s])'
                      /\ pc'[s] = "broadcast" /\ k \in iter'[s].left
                           => SentBelow(s, k, messageID[s] - 1)'
    BY DEF Numbered
  <2>1. messageID'[s] = messageID[s]
    BY DEF Quiet
  <2>2. SentBelow(s, k, messageID[s])'
    BY <1>6, <2>1 DEF ReportInv, Numbered, SentBelow
  <2>3. ASSUME pc'[s] = "broadcast", k \in iter'[s].left
        PROVE  SentBelow(s, k, messageID[s] - 1)'
    <3>1. SentBelow(s, k, messageID[s] - 1)
      BY <1>4, <2>3 DEF ReportInv, Numbered, SameIterator
    <3> QED
      BY <1>6, <2>1, <3>1 DEF SentBelow
  <2> QED
    BY <2>2, <2>3
<1>8. IteratorsOpen'
  BY ConnectionsAssumption DEF Quiet, ReportInv, IteratorsOpen, HasChannel, SameIterator
<1>9. CreatesFresh'
  <2> SUFFICES ASSUME NEW d \in Conns, pc'[d] = "createChannel"
               PROVE  /\ channelsSubscriptions'[frame'[d].destination] # d
                      /\ \A k \in Conns : iter'[k].channel = frame'[d].destination
                                            => iter'[k].map # d
    BY DEF CreatesFresh
  <2>1. frame'[d] = frame[d] /\ channelsSubscriptions' = channelsSubscriptions
    BY DEF Quiet
  <2>2. frame[d].destination \in Channels
    BY <2>1 DEF TypeInv, FrameFits, Fits, SubscribeFrames
  <2>3. CASE d = c
    BY <1>1, <1>8, <2>1, <2>2, <2>3, ConnectionsAssumption DEF Quiet, IteratorsOpen, HasChannel
  <2>4. CASE d # c
    <3>1. /\ channelsSubscriptions[frame[d].destination] # d
          /\ \A k \in Conns : iter[k].channel = frame[d].destination => iter[k].map # d
      BY <1>1, <2>4 DEF ReportInv, CreatesFresh
    <3>2. \A k \in Conns \ {c} : SameIterator(k)
      BY DEF Quiet
    <3>3. iter'[c].channel = frame[d].destination => iter'[c].map # d
      BY <2>2, <3>1, ConnectionsAssumption DEF Quiet
    <3> QED
      BY <2>1, <3>1, <3>2, <3>3 DEF SameIterator
  <2> QED
    BY <2>3, <2>4
<1>10. DeliveredOnlyToSubscribers'
  BY DEF Quiet, SameReports, ReportInv, DeliveredOnlyToSubscribers, Asked, IsMessage
<1>11. SenderOrder'
  BY DEF Quiet, SameReports, ReportInv, SenderOrder, IsMessage
<1>12. BroadcastReachesSubscribers'
  <2> SUFFICES ASSUME NEW d \in Conns, pc'[d] = "broadcast", ~ iter'[d].stale, NEW k \in Conns,
                      subscribers'[iter'[d].channel][iter'[d].map][k] # None,
                      k \notin iter'[d].left, open'[k]
               PROVE  \E i \in DOMAIN out'[k] :
                        out'[k][i] = Message(iter'[d].channel, d, messageID'[d] - 1)
    BY DEF BroadcastReachesSubscribers, At
  <2>1. /\ pc[d] = "broadcast" /\ ~ iter[d].stale /\ k \notin iter[d].left /\ open[k]
        /\ iter'[d].channel = iter[d].channel /\ messageID'[d] = messageID[d]
        /\ subscribers[iter[d].channel][iter[d].map][k] # None
    BY <1>4 DEF SameIterator, Quiet
  <2>2. PICK i \in DOMAIN out[k] : out[k][i] = Message(iter[d].channel, d, messageID[d] - 1)
    BY <2>1 DEF ReportInv, BroadcastReachesSubscribers, At
  <2>3. i \in DOMAIN out'[k] /\ out'[k][i] = out[k][i]
    BY DEF Quiet, SameReports
  <2> QED
    BY <2>1, <2>2, <2>3
<1> QED
  BY <1>2, <1>3, <1>5, <1>7, <1>8, <1>9, <1>10, <1>11, <1>12 DEF ReportInv

-----------------------------------------------------------------------------
\* What the quiet steps have in common.
LEMMA LookupQuiet ==
  ASSUME TypeInv, NEW c \in Conns, NEW l, pc[c] # "new", l \notin {"new", "broadcast"},
         Goto(c, l),
         l \in Sending => Asked(c, frame[c].destination),
         l \in Found => HasChannel(frame[c].destination),
         l = "createChannel" => ~ HasChannel(frame[c].destination),
         UNCHANGED <<frame, received, messageID, channelsSubscriptions, subscribers>>,
         UNCHANGED iter \/ CloseIterator(c),
         UNCHANGED open \/ open' = [open EXCEPT ![c] = FALSE],
         UNCHANGED out
  PROVE  Quiet(c, l)
<1>1. \A k \in Conns \ {c} : iter'[k] = iter[k]
  BY Types DEF CloseIterator
<1>2. iter'[c].channel = None \/ iter'[c] = iter[c]
  BY Types DEF CloseIterator, NoIterator
<1>3. \A k \in Conns : open'[k] => open[k]
  BY Types
<1> QED
  BY <1>1, <1>2, <1>3 DEF Quiet, SameIterator, SameReports

LEMMA WriteQuiet ==
  ASSUME TypeInv, NEW c \in Conns, NEW l, pc[c] # "new",
         l \notin {"new", "broadcast", "createChannel"} \cup Found,
         Goto(c, l), NEW m \in ReplyFrames, Send(c, m),
         UNCHANGED <<frame, received, messageID, channelsSubscriptions, subscribers, iter, open>>
  PROVE  Quiet(c, l)
  BY ReplySent DEF Quiet, SameIterator, Found

LEMMA OpenQuiet ==
  ASSUME TypeInv, NEW c \in Conns, NEW l, pc[c] # "new",
         l \notin {"new", "broadcast", "createChannel"} \cup Found,
         Goto(c, l), NEW ch \in Channels, HasChannel(ch), OpenIterator(c, ch),
         UNCHANGED <<frame, received, messageID, channelsSubscriptions, subscribers, open, out>>
  PROVE  Quiet(c, l)
<1>1. \A k \in Conns \ {c} : iter'[k] = iter[k]
  BY Types DEF OpenIterator
<1>2. iter'[c].channel = ch /\ iter'[c].map = channelsSubscriptions[ch]
  BY Types DEF OpenIterator
<1> QED
  BY <1>1, <1>2 DEF Quiet, SameIterator, SameReports, Found

LEMMA StaleFields ==
  ASSUME TypeInv, NEW ch, NEW m, NEW j \in Conns
  PROVE  /\ Stale(ch, m)[j].channel = iter[j].channel /\ Stale(ch, m)[j].map = iter[j].map
         /\ Stale(ch, m)[j].left = iter[j].left
         /\ ~ Stale(ch, m)[j].stale =>
              ~ iter[j].stale /\ (iter[j].channel # ch \/ iter[j].map # m)
<1> DEFINE b == iter[j].stale \/ (iter[j].channel = ch /\ iter[j].map = m)
<1>1. Stale(ch, m)[j] = [iter[j] EXCEPT !.stale = b]
  BY DEF Stale
<1>2. iter[j] \in Iterators
  BY Types
<1> HIDE DEF b
<1>3. /\ Stale(ch, m)[j].channel = iter[j].channel /\ Stale(ch, m)[j].map = iter[j].map
      /\ Stale(ch, m)[j].left = iter[j].left /\ Stale(ch, m)[j].stale = b
  BY <1>1, <1>2 DEF Iterators
<1> QED
  BY <1>3 DEF b

LEMMA BroadcastFits ==
  ASSUME TypeInv, ReportInv, NEW j \in Conns, pc[j] = "broadcast"
  PROVE  /\ frame[j].destination \in Channels /\ iter[j].channel = frame[j].destination
         /\ iter[j].map \in Conns
  BY DEF TypeInv, FrameFits, Fits, SendFrames, ReportInv, Broadcasts

\* A change of the entry of k in map m of channel ch, by the thread of c.
LEMMA EntryQuiet ==
  ASSUME TypeInv, ReportInv, NEW c \in Conns, NEW l, pc[c] # "new",
         l \notin {"new", "broadcast", "createChannel"} \cup Found,
         Goto(c, l),
         NEW ch \in Channels \cup {None}, NEW m \in Conns \cup {None}, NEW k \in Conns,
         NEW id \in SubIds \cup {None}, id # None => Asked(k, ch),
         UNCHANGED subscribers \/ subscribers' = [subscribers EXCEPT ![ch][m][k] = id],
         iter' = Stale(ch, m) \/ iter' = [Stale(ch, m) EXCEPT ![c] = NoIterator],
         UNCHANGED <<frame, received, messageID, channelsSubscriptions, out>>,
         UNCHANGED open \/ open' = [open EXCEPT ![c] = FALSE]
  PROVE  Quiet(c, l)
<1>1. /\ \A n \in Channels : \A p, j \in Conns :
           subscribers'[n][p][j] # None => subscribers[n][p][j] # None \/ Asked(j, n)
      /\ \A n \in Channels : \A p \in Conns :
           n # ch \/ p # m => subscribers'[n][p] = subscribers[n][p]
  <2>1. CASE UNCHANGED subscribers
    BY <2>1
  <2>2. CASE subscribers' = [subscribers EXCEPT ![ch][m][k] = id]
    <3>1. subscribers \in [Channels -> [Conns -> [Conns -> SubIds \cup {None}]]]
      BY Types
    <3>2. \A n \in Channels : \A p \in Conns :
            n # ch \/ p # m => subscribers'[n][p] = subscribers[n][p]
      BY <2>2, <3>1
    <3>3. ch \in Channels /\ m \in Conns =>
            /\ subscribers'[ch][m][k] = id
            /\ \A j \in Conns \ {k} : subscribers'[ch][m][j] = subscribers[ch][m][j]
      BY <2>2, <3>1
    <3> QED
      BY <3>2, <3>3
  <2> QED
    BY <2>1, <2>2
<1>2. Stale(ch, m) \in [Conns -> Iterators]
  BY StaleType DEF TypeInv
<1>3. /\ \A j \in Conns \ {c} : iter'[j] = Stale(ch, m)[j]
      /\ iter'[c].channel = None \/ iter'[c] = Stale(ch, m)[c]
  BY <1>2 DEF NoIterator
<1>4. \A j \in Conns \ {c} : SameIterator(j)
  BY <1>1, <1>3, StaleFields, BroadcastFits DEF SameIterator
<1>5. iter'[c].channel = None \/ (iter'[c].channel = iter[c].channel /\ iter'[c].map = iter[c].map)
  BY <1>3, StaleFields
<1>6. \A j \in Conns : open'[j] => open[j]
  BY Types
<1> QED
  BY <1>1, <1>4, <1>5, <1>6 DEF Quiet, SameReports, Found

-----------------------------------------------------------------------------
LEMMA ConnectReports ==
  ASSUME TypeInv, TypeInv', ReportInv, NEW c \in Conns, Connect(c)
  PROVE  ReportInv'
<1>1. pc[c] # "new" /\ UNCHANGED <<frame, received, messageID, channelsSubscriptions,
                                   subscribers, iter, open>>
  BY DEF Connect, UserConnectedAlready, HasRegistered, CheckPasscode, RegisterUser, LogIn,
         SendConnected, At, topics, sockets, request, locals
<1>2. CASE SendConnected(c)
  <2>1. Connected(count[c]) \in ReplyFrames
    BY ConnectionsAssumption DEF Connected, ReplyFrames, TypeInv, TypeOK, RequestsOK
  <2>2. Quiet(c, "read")
    BY <1>1, <1>2, <2>1, WriteQuiet DEF SendConnected, Found, Sending
  <2> QED
    BY <2>2, QuietReports
<1>3. CASE ~ SendConnected(c)
  <2>1. PICK l \in {"sendError", "hasRegistered", "checkPasscode", "addUser", "logIn",
                    "sendErrorTwice", "sendConnected"} : Goto(c, l) /\ UNCHANGED out
    BY <1>3 DEF Connect, UserConnectedAlready, HasRegistered, CheckPasscode, RegisterUser,
                LogIn, sockets
  <2>2. Quiet(c, l)
    BY <1>1, <2>1, LookupQuiet DEF Found, Sending
  <2> QED
    BY <2>2, QuietReports
<1> QED
  BY <1>2, <1>3

LEMMA ToStringChannelsReports ==
  ASSUME TypeInv, TypeInv', ReportInv, NEW c \in Conns, ToStringChannels(c)
  PROVE  ReportInv'
<1>1. /\ pc[c] # "new"
      /\ UNCHANGED <<frame, received, messageID, channelsSubscriptions, subscribers, out>>
  BY DEF ToStringChannels, WalkChannels, WalkDone, WalkFails, At, sockets, request, locals
<1>2. CASE WalkChannels(c)
  <2>1. CASE UNCHANGED iter
    <3>1. Quiet(c, "walked")
      BY <1>1, <1>2, <2>1, LookupQuiet DEF WalkChannels, Found, Sending, sockets
    <3> QED
      BY <3>1, QuietReports
  <2>2. CASE \E ch \in Channels : HasChannel(ch) /\ OpenIterator(c, ch)
    <3>1. Quiet(c, "walked")
      BY <1>1, <1>2, <2>2, OpenQuiet DEF WalkChannels, Found, Sending, sockets
    <3> QED
      BY <3>1, QuietReports
  <2> QED
    BY <1>2, <2>1, <2>2 DEF WalkChannels
<1>3. CASE WalkDone(c) \/ WalkFails(c)
  <2>1. PICK l \in {"findChannel", "sendReceipt", "dead"} :
          /\ Goto(c, l) /\ CloseIterator(c)
          /\ UNCHANGED open \/ open' = [open EXCEPT ![c] = FALSE]
    BY <1>3 DEF WalkDone, WalkFails, Die, sockets
  <2>2. Quiet(c, l)
    BY <1>1, <2>1, LookupQuiet DEF Found, Sending
  <2> QED
    BY <2>2, QuietReports
<1> QED
  BY <1>2, <1>3 DEF ToStringChannels

\* The frame a thread works on was received.
LEMMA FrameReceived ==
  ASSUME LogoutInv, NEW c \in Conns, Working(c)
  PROVE  frame[c] \in received[c]
  BY DEF LogoutInv, LoginInv

\* A map is created where no iterator is open on it.
LEMMA CreateChannelReports ==
  ASSUME TypeInv, TypeInv', LogoutInv, ReportInv, NEW c \in Conns, CreateChannel(c)
  PROVE  ReportInv'
<1> DEFINE ch == frame[c].destination
<1>1. /\ pc[c] = "createChannel" /\ pc' = [pc EXCEPT ![c] = "sendReceipt"]
      /\ channelsSubscriptions' = [channelsSubscriptions EXCEPT ![ch] = c]
      /\ subscribers' = [subscribers EXCEPT ![ch][c] = [EmptyMap EXCEPT ![c] = frame[c].id]]
      /\ UNCHANGED <<iter, open, out, frame, received, messageID>>
  BY DEF CreateChannel, CreateChannelMap, At, Goto, sockets, request, locals
<1>2. frame[c] \in SubscribeFrames /\ ch \in Channels
  BY <1>1 DEF TypeInv, FrameFits, Fits, SubscribeFrames
<1>3. Asked(c, ch)
  BY <1>1, <1>2, FrameReceived DEF Working, SubscribeFrames, Asked
<1> HIDE DEF ch
<1>4. pc'[c] = "sendReceipt" /\ \A k \in Conns \ {c} : pc'[k] = pc[k]
  BY <1>1, Types
<1>5. /\ channelsSubscriptions'[ch] = c
      /\ \A n \in Channels \ {ch} : channelsSubscriptions'[n] = channelsSubscriptions[n]
  BY <1>1, <1>2, Types
<1>6. /\ \A n \in Channels : \A m \in Conns :
           n # ch \/ m # c => subscribers'[n][m] = subscribers[n][m]
      /\ \A k \in Conns : subscribers'[ch][c][k] # None => k = c
  BY <1>1, <1>2, Types DEF EmptyMap
<1>7. EntriesAsked'
  BY <1>1, <1>3, <1>6 DEF ReportInv, EntriesAsked, Asked
<1>13. ChannelFound'
  <2> SUFFICES ASSUME NEW d \in Conns, pc'[d] \in Found
               PROVE  channelsSubscriptions'[frame[d].destination] # None
    BY <1>1 DEF ChannelFound, HasChannel
  <2>1. d # c /\ channelsSubscriptions[frame[d].destination] # None
    BY <1>4 DEF ReportInv, ChannelFound, HasChannel, Found, Sending
  <2>2. frame[d].destination \in Channels
    BY <1>4, <2>1
    DEF TypeInv, FrameFits, Fits, SubscribeFrames, SendFrames, Found, Sending
  <2> QED
    BY <1>5, <2>1, <2>2, ConnectionsAssumption
<1>8. SendersAsked' /\ NewSilent' /\ Broadcasts' /\ Numbered'
  BY <1>1, <1>4 DEF ReportInv, SendersAsked, NewSilent, Broadcasts, Numbered, Asked, Sending,
                    SentBelow, IsMessage
<1>9. IteratorsOpen'
  BY <1>1, <1>5, ConnectionsAssumption DEF ReportInv, IteratorsOpen, HasChannel
<1>10. CreatesFresh'
  <2> SUFFICES ASSUME NEW d \in Conns, pc'[d] = "createChannel"
               PROVE  /\ channelsSubscriptions'[frame[d].destination] # d
                      /\ \A k \in Conns : iter[k].channel = frame[d].destination
                                            => iter[k].map # d
    BY <1>1 DEF CreatesFresh
  <2>1. d # c /\ pc[d] = "createChannel"
    BY <1>4
  <2>2. frame[d].destination \in Channels
    BY <2>1 DEF TypeInv, FrameFits, Fits, SubscribeFrames
  <2> QED
    BY <1>5, <2>1, <2>2 DEF ReportInv, CreatesFresh
<1>11. DeliveredOnlyToSubscribers' /\ SenderOrder'
  BY <1>1 DEF ReportInv, DeliveredOnlyToSubscribers, SenderOrder, IsMessage, Asked
<1>12. BroadcastReachesSubscribers'
  <2> SUFFICES ASSUME NEW d \in Conns, pc'[d] = "broadcast", ~ iter[d].stale, NEW k \in Conns,
                      subscribers'[iter[d].channel][iter[d].map][k] # None,
                      k \notin iter[d].left, open[k]
               PROVE  \E i \in DOMAIN out[k] :
                        out[k][i] = Message(iter[d].channel, d, messageID[d] - 1)
    BY <1>1 DEF BroadcastReachesSubscribers, At
  <2>1. pc[d] = "broadcast"
    BY <1>4
  <2>2. iter[d].channel \in Channels /\ iter[d].map \in Conns
    BY <2>1, BroadcastFits
  <2>3. iter[d].channel # ch \/ iter[d].map # c
    BY <1>1 DEF ReportInv, CreatesFresh, ch
  <2>4. subscribers[iter[d].channel][iter[d].map][k] # None
    BY <1>6, <2>2, <2>3
  <2> QED
    BY <2>1, <2>4 DEF ReportInv, BroadcastReachesSubscribers, At
<1> QED
  BY <1>7, <1>8, <1>9, <1>10, <1>11, <1>12, <1>13 DEF ReportInv

LEMMA SubscribeReports ==
  ASSUME TypeInv, TypeInv', LogoutInv, ReportInv, NEW c \in Conns, Subscribe(c)
  PROVE  ReportInv'
<1>1. pc[c] # "new" /\ Working(c)
  BY DEF Subscribe, FindChannel, FindSubscriber, PutSubscription, CreateChannel, At, Working
<1>2. CASE FindChannel(c) \/ FindSubscriber(c)
  <2>1. /\ UNCHANGED <<frame, received, messageID, channelsSubscriptions, subscribers, iter,
                       open, out>>
        /\ \E l \in {"findSubscriber", "createChannel", "sendError", "putSubscription"} :
             /\ Goto(c, l)
             /\ l = "createChannel" => ~ HasChannel(frame[c].destination)
             /\ l \in Found => HasChannel(frame[c].destination)
    BY <1>2 DEF FindChannel, FindSubscriber, At, ReportInv, ChannelFound, Found, Sending, topics, sockets, request, locals
  <2>2. PICK l \in {"findSubscriber", "createChannel", "sendError", "putSubscription"} :
          /\ Goto(c, l)
          /\ l = "createChannel" => ~ HasChannel(frame[c].destination)
          /\ l \in Found => HasChannel(frame[c].destination)
    BY <2>1
  <2>3. Quiet(c, l)
    BY <1>1, <2>1, <2>2, LookupQuiet DEF Found, Sending
  <2> QED
    BY <2>3, QuietReports
<1>3. CASE PutSubscription(c)
  <2> DEFINE ch == frame[c].destination
             m  == channelsSubscriptions[ch]
  <2>1. frame[c] \in SubscribeFrames
    BY <1>3 DEF PutSubscription, At, TypeInv, FrameFits, Fits
  <2>2. ch \in Channels /\ frame[c].id \in SubIds /\ Asked(c, ch)
    BY <1>1, <2>1, FrameReceived DEF SubscribeFrames, Asked
  <2>3. /\ UNCHANGED subscribers \/ subscribers' = [subscribers EXCEPT ![ch][m][c] = frame[c].id]
        /\ iter' = Stale(ch, m) /\ Goto(c, "sendReceipt")
        /\ UNCHANGED <<frame, received, messageID, channelsSubscriptions, open, out>>
    BY <1>3 DEF PutSubscription, SetEntry, LoseEntry, sockets, request, locals
  <2>4. Quiet(c, "sendReceipt")
    <3>1. m \in Conns
      BY <1>3, <2>2, Types DEF PutSubscription, At, ReportInv, ChannelFound, Found, HasChannel
    <3> QED
      BY <1>1, <2>2, <2>3, <3>1, EntryQuiet DEF Found, Sending
  <2> QED
    BY <2>4, QuietReports
<1> QED
  BY <1>2, <1>3, CreateChannelReports DEF Subscribe

LEMMA RemoveSubscriptionReports ==
  ASSUME TypeInv, TypeInv', ReportInv, NEW c \in Conns, RemoveSubscription(c)
  PROVE  ReportInv'
<1>1. /\ pc[c] # "new"
      /\ UNCHANGED <<frame, received, messageID, channelsSubscriptions, open, out>>
  BY DEF RemoveSubscription, At, sockets, request, locals
<1>2. CASE Goto(c, "sendError") /\ UNCHANGED <<subscribers, iter>>
  <2>1. Quiet(c, "sendError")
    BY <1>1, <1>2, LookupQuiet DEF Found, Sending
  <2> QED
    BY <2>1, QuietReports
<1>3. CASE \E ch \in Channels : /\ HoldsId(c, ch) /\ (SetEntry(ch, c, None) \/ LoseEntry(ch))
                                /\ Goto(c, "walkChannels")
  <2>1. PICK ch \in Channels : /\ HoldsId(c, ch) /\ (SetEntry(ch, c, None) \/ LoseEntry(ch))
                               /\ Goto(c, "walkChannels")
    BY <1>3
  <2>2. channelsSubscriptions[ch] \in Conns
    BY <2>1, Types DEF HoldsId, IsSubscribed, HasChannel
  <2>3. /\ iter' = Stale(ch, channelsSubscriptions[ch])
        /\ \/ UNCHANGED subscribers
           \/ subscribers' = [subscribers EXCEPT ![ch][channelsSubscriptions[ch]][c] = None]
    BY <2>1 DEF SetEntry, LoseEntry
  <2>4. Quiet(c, "walkChannels")
    BY <1>1, <2>1, <2>2, <2>3, EntryQuiet DEF Found, Sending
  <2> QED
    BY <2>4, QuietReports
<1> QED
  BY <1>2, <1>3 DEF RemoveSubscription

\* The broadcast starts: every report of c so far has a number below the one
\* that is sent now, and the iterator holds all subscribers.
LEMMA OpenBroadcastReports ==
  ASSUME TypeInv, TypeInv', ReportInv, NEW c \in Conns, OpenBroadcast(c)
  PROVE  ReportInv'
<1> DEFINE ch == frame[c].destination
           m  == channelsSubscriptions[ch]
<1>1. /\ pc[c] = "openBroadcast" /\ pc' = [pc EXCEPT ![c] = "broadcast"]
      /\ messageID' = [messageID EXCEPT ![c] = @ + 1]
      /\ UNCHANGED <<channelsSubscriptions, subscribers, open, out, frame, received>>
      /\ OpenIterator(c, ch)
  BY DEF OpenBroadcast, At, Goto, sockets, request
<1>2. ch \in Channels /\ m \in Conns /\ Asked(c, ch)
  <2>1. ch \in Channels
    BY <1>1 DEF TypeInv, FrameFits, Fits, SendFrames
  <2> QED
    BY <1>1, <2>1, Types DEF ReportInv, ChannelFound, Found, HasChannel, SendersAsked, Sending
<1>3. /\ \A k \in Conns \ {c} : iter'[k] = iter[k] /\ pc'[k] = pc[k] /\ messageID'[k] = messageID[k]
      /\ pc'[c] = "broadcast" /\ messageID'[c] = messageID[c] + 1
      /\ iter'[c].channel = ch /\ iter'[c].map = m
      /\ iter'[c].left = {k \in Conns : subscribers[ch][m][k] # None}
  BY <1>1, Types DEF OpenIterator, MapOf
<1> HIDE DEF m, ch
<1>4. EntriesAsked' /\ NewSilent' /\ SendersAsked' /\ ChannelFound'
  <2>1. EntriesAsked' /\ NewSilent'
    BY <1>1, <1>3 DEF ReportInv, EntriesAsked, NewSilent, Asked
  <2>2. \A k \in Conns : (pc'[k] \in Sending => pc[k] \in Sending)
                           /\ (pc'[k] \in Found => pc[k] \in Found)
    BY <1>1, <1>3 DEF Sending, Found
  <2> QED
    BY <1>1, <2>1, <2>2 DEF ReportInv, SendersAsked, ChannelFound, HasChannel, Asked
<1>5. Broadcasts'
  <2>1. \A k \in iter'[c].left : Asked(k, ch)
    BY <1>2, <1>3 DEF ReportInv, EntriesAsked
  <2> QED
    BY <1>1, <1>2, <1>3, <2>1 DEF ReportInv, Broadcasts, Asked, ch
<1>6. Numbered'
  <2> SUFFICES ASSUME NEW s \in Conns, NEW k \in Conns
               PROVE  /\ SentBelow(s, k, messageID[s])'
                      /\ pc'[s] = "broadcast" /\ k \in iter'[s].left
                           => SentBelow(s, k, messageID[s] - 1)'
    BY DEF Numbered
  <2>1. SentBelow(s, k, messageID[s])
    BY DEF ReportInv, Numbered
  <2>2. CASE s = c
    <3>1. messageID[c] \in Nat /\ messageID'[c] - 1 = messageID[c]
      BY <1>3, Types
    <3>2. SentBelow(s, k, messageID[s] - 1)'
      BY <1>1, <2>1, <2>2, <3>1 DEF SentBelow, IsMessage
    <3>3. \A i \in DOMAIN out[k] : IsMessage(k, i) => out[k][i].messageID \in Nat
      <4>1. out[k] \in Seq(ReplyFrames \cup MessageFrames)
        BY Types
      <4>2. \A i \in DOMAIN out[k] : out[k][i] \in ReplyFrames \cup MessageFrames
        BY <4>1
      <4> QED
        BY <4>2 DEF IsMessage, ReplyFrames, MessageFrames
    <3>4. SentBelow(s, k, messageID[s])'
      BY <1>1, <1>3, <2>1, <2>2, <3>1, <3>3 DEF SentBelow, IsMessage
    <3> QED
      BY <3>2, <3>4
  <2>3. CASE s # c
    BY <1>1, <1>3, <2>3 DEF ReportInv, Numbered, SentBelow, IsMessage
  <2> QED
    BY <2>2, <2>3
<1>7. IteratorsOpen'
  BY <1>1, <1>2, <1>3, ConnectionsAssumption DEF ReportInv, IteratorsOpen, HasChannel, m
<1>8. CreatesFresh'
  BY <1>1, <1>2, <1>3 DEF ReportInv, CreatesFresh, m
<1>9. DeliveredOnlyToSubscribers' /\ SenderOrder'
  BY <1>1 DEF ReportInv, DeliveredOnlyToSubscribers, SenderOrder, IsMessage, Asked
<1>10. BroadcastReachesSubscribers'
  <2> SUFFICES ASSUME NEW d \in Conns, pc'[d] = "broadcast", ~ iter'[d].stale, NEW k \in Conns,
                      subscribers[iter'[d].channel][iter'[d].map][k] # None,
                      k \notin iter'[d].left, open[k]
               PROVE  \E i \in DOMAIN out[k] :
                        out[k][i] = Message(iter'[d].channel, d, messageID'[d] - 1)
    BY <1>1 DEF BroadcastReachesSubscribers, At
  <2>1. d # c
    BY <1>3
  <2> QED
    BY <1>3, <2>1 DEF ReportInv, BroadcastReachesSubscribers, At
<1> QED
  BY <1>4, <1>5, <1>6, <1>7, <1>8, <1>9, <1>10 DEF ReportInv

\* One more subscriber gets the report: its number is above all the reports of
\* c in the stream of that subscriber.
LEMMA BroadcastStepReports ==
  ASSUME TypeInv, TypeInv', ReportInv, NEW c \in Conns, Broadcast(c)
  PROVE  ReportInv'
<1> DEFINE ch == frame[c].destination
           n  == messageID[c] - 1
           r  == Message(ch, c, n)
<1>1. PICK k \in iter[c].left : Send(k, r) /\ iter' = [iter EXCEPT ![c].left = @ \ {k}]
  BY DEF Broadcast
<1>2. /\ pc[c] = "broadcast"
      /\ UNCHANGED <<channelsSubscriptions, subscribers, open, pc, frame, received, messageID>>
  BY DEF Broadcast, At, request, locals
<1>3. /\ ch \in Channels /\ iter[c].channel = ch /\ iter[c].map \in Conns
      /\ k \in Conns /\ Asked(k, ch) /\ Asked(c, ch) /\ n \in Nat
  <2>1. k \in Conns /\ messageID[c] \in Nat /\ messageID[c] > 0
    BY <1>2, Types DEF Iterators, TypeInv, CountersFit
  <2> QED
    BY <1>2, <2>1, BroadcastFits DEF ReportInv, Broadcasts, SendersAsked, Sending
<1>4. /\ \A j \in Conns \ {c} : iter'[j] = iter[j]
      /\ iter'[c].channel = iter[c].channel /\ iter'[c].map = iter[c].map
      /\ iter'[c].stale = iter[c].stale /\ iter'[c].left = iter[c].left \ {k}
  BY <1>1, Types DEF Iterators
<1>5. /\ r.command = "MESSAGE" /\ r.destination = ch /\ r.sender = c /\ r.messageID = n
  BY DEF Message
<1>6. r \in ReplyFrames \cup MessageFrames
  BY <1>3 DEF Message, MessageFrames
<1>7. SentBelow(c, k, n)
  BY <1>2, <1>3 DEF ReportInv, Numbered
<1> HIDE DEF r, n, ch
<1>8. /\ \A j \in Conns \ {k} : out'[j] = out[j]
      /\ open[k] => out'[k] = Append(out[k], r)
      /\ ~ open[k] => out'[k] = out[k]
  BY <1>1, <1>3, Types DEF Send
<1>9. \A j \in Conns : \A i \in DOMAIN out[j] : i \in DOMAIN out'[j] /\ out'[j][i] = out[j][i]
  <2>1. out[k] \in Seq(ReplyFrames \cup MessageFrames)
    BY <1>3, Types
  <2> QED
    BY <1>6, <1>8, <2>1, Appended
<1>10. \A j \in Conns : \A i \in DOMAIN out'[j] :
          \/ i \in DOMAIN out[j] /\ out'[j][i] = out[j][i]
          \/ j = k /\ out'[j][i] = r /\ \A h \in DOMAIN out[k] : h < i
  <2>1. out[k] \in Seq(ReplyFrames \cup MessageFrames)
    BY <1>3, Types
  <2> QED
    BY <1>6, <1>8, <2>1, Appended
<1>11. EntriesAsked' /\ SendersAsked' /\ ChannelFound'
  BY <1>2 DEF ReportInv, EntriesAsked, SendersAsked, ChannelFound, HasChannel, Asked
<1>12. NewSilent' /\ Broadcasts'
  BY <1>2, <1>4 DEF ReportInv, NewSilent, Broadcasts, Asked
<1>13. Numbered'
  <2> SUFFICES ASSUME NEW s \in Conns, NEW j \in Conns
               PROVE  /\ SentBelow(s, j, messageID[s])'
                      /\ pc'[s] = "broadcast" /\ j \in iter'[s].left
                           => SentBelow(s, j, messageID[s] - 1)'
    BY DEF Numbered
  <2>1. SentBelow(s, j, messageID[s])'
    <3>1. SentBelow(s, j, messageID[s])
      BY DEF ReportInv, Numbered
    <3>2. n < messageID[c]
      BY <1>3, Types DEF n
    <3> QED
      BY <1>2, <1>5, <1>10, <3>1, <3>2 DEF SentBelow, IsMessage
  <2>2. ASSUME pc'[s] = "broadcast", j \in iter'[s].left
        PROVE  SentBelow(s, j, messageID[s] - 1)'
    <3>1. j \in iter[s].left /\ (s = c => j # k)
      BY <1>4, <2>2
    <3>2. SentBelow(s, j, messageID[s] - 1)
      BY <1>2, <2>2, <3>1 DEF ReportInv, Numbered
    <3> QED
      BY <1>2, <1>5, <1>10, <3>1, <3>2 DEF SentBelow, IsMessage
  <2> QED
    BY <2>1, <2>2
<1>14. IteratorsOpen' /\ CreatesFresh'
  <2>1. \A j \in Conns : iter'[j].channel = iter[j].channel /\ iter'[j].map = iter[j].map
    BY <1>4
  <2> QED
    BY <1>2, <2>1 DEF ReportInv, IteratorsOpen, CreatesFresh, HasChannel
<1>15. DeliveredOnlyToSubscribers'
  BY <1>2, <1>3, <1>5, <1>10 DEF ReportInv, DeliveredOnlyToSubscribers, IsMessage, Asked
<1>16. SenderOrder'
  <2> SUFFICES ASSUME NEW j \in Conns, NEW h \in DOMAIN out'[j], NEW i \in DOMAIN out'[j],
                      h < i, IsMessage(j, h)', IsMessage(j, i)',
                      out'[j][h].sender = out'[j][i].sender
               PROVE  out'[j][h].messageID < out'[j][i].messageID
    BY DEF SenderOrder
  <2>1. out[k] \in Seq(ReplyFrames \cup MessageFrames)
    BY <1>3, Types
  <2>2. h \in Int /\ i \in Int
    <3>1. out' \in [Conns -> Seq(ReplyFrames \cup MessageFrames)]
      BY Types DEF TypeInv, TypeOK, SocketsOK
    <3> QED
      BY <3>1
  <2>3. CASE i \in DOMAIN out[j] /\ out'[j][i] = out[j][i]
    <3>1. h \in DOMAIN out[j] /\ out'[j][h] = out[j][h]
      BY <1>10, <2>2, <2>3
    <3> QED
      BY <2>3, <3>1 DEF ReportInv, SenderOrder, IsMessage
  <2>4. CASE j = k /\ out'[j][i] = r /\ \A g \in DOMAIN out[k] : g < i
    <3>1. CASE h \in DOMAIN out[j] /\ out'[j][h] = out[j][h]
      BY <1>5, <1>7, <2>4, <3>1 DEF SentBelow, IsMessage
    <3>2. CASE h \notin DOMAIN out[j]
      <4>1. out'[k] = Append(out[k], r)
        BY <1>8, <2>4, <3>2
      <4>2. h = Len(out[k]) + 1 /\ i = Len(out[k]) + 1
        BY <1>6, <2>1, <2>4, <3>2, <4>1, Appended
      <4> QED
        BY <2>2, <4>2
    <3> QED
      BY <1>10, <2>2, <2>4, <3>1, <3>2
  <2> QED
    BY <1>10, <2>3, <2>4
<1>17. BroadcastReachesSubscribers'
  <2> SUFFICES ASSUME NEW d \in Conns, pc[d] = "broadcast", ~ iter'[d].stale, NEW j \in Conns,
                      subscribers[iter'[d].channel][iter'[d].map][j] # None,
                      j \notin iter'[d].left, open[j]
               PROVE  \E i \in DOMAIN out'[j] :
                        out'[j][i] = Message(iter'[d].channel, d, messageID[d] - 1)
    BY <1>2 DEF BroadcastReachesSubscribers, At
  <2>1. CASE j \notin iter[d].left
    <3>1. PICK i \in DOMAIN out[j] : out[j][i] = Message(iter[d].channel, d, messageID[d] - 1)
      BY <1>4, <2>1 DEF ReportInv, BroadcastReachesSubscribers, At
    <3> QED
      BY <1>4, <1>9, <3>1
  <2>2. CASE j \in iter[d].left
    <3>1. d = c /\ j = k
      BY <1>4, <2>2
    <3>2. r = Message(iter'[d].channel, d, messageID[d] - 1)
      BY <1>3, <1>4, <3>1 DEF r, n, ch
    <3>3. out[k] \in Seq(ReplyFrames \cup MessageFrames) /\ out'[k] = Append(out[k], r)
      BY <1>3, <1>8, <3>1, Types
    <3> QED
      BY <1>6, <3>1, <3>2, <3>3, Appended
  <2> QED
    BY <2>1, <2>2
<1> QED
  BY <1>11, <1>12, <1>13, <1>14, <1>15, <1>16, <1>17 DEF ReportInv

LEMMA SendReportReports ==
  ASSUME TypeInv, TypeInv', ReportInv, NEW c \in Conns, SendReport(c)
  PROVE  ReportInv'
<1> USE DEF At, topics, sockets, request, locals
<1>1. CASE FindSubscription(c) \/ GetSubscription(c)
  <2>1. /\ pc[c] # "new"
        /\ UNCHANGED <<frame, received, messageID, channelsSubscriptions, subscribers, iter, out>>
    BY <1>1 DEF FindSubscription, GetSubscription
  <2>2. frame[c].destination \in Channels
    BY <1>1 DEF FindSubscription, GetSubscription, TypeInv, FrameFits, Fits, SendFrames
  <2>3. IsSubscribed(frame[c].destination, c)
          => Asked(c, frame[c].destination) /\ HasChannel(frame[c].destination)
    BY <2>2, Types DEF IsSubscribed, HasChannel, MapOf, ReportInv, EntriesAsked
  <2>4. PICK l \in {"getSubscription", "openBroadcast", "sendErrorTwice", "dead"} :
          /\ Goto(c, l)
          /\ l \in Sending => IsSubscribed(frame[c].destination, c)
          /\ UNCHANGED open \/ open' = [open EXCEPT ![c] = FALSE]
    BY <1>1 DEF FindSubscription, GetSubscription, Die, Sending
  <2>5. l \in Found => l \in Sending
    BY DEF Found, Sending
  <2>6. Quiet(c, l)
    BY <2>1, <2>3, <2>4, <2>5, LookupQuiet
  <2> QED
    BY <2>6, QuietReports
<1>2. CASE BroadcastFails(c) \/ BroadcastDone(c)
  <2>1. /\ pc[c] # "new"
        /\ UNCHANGED <<frame, received, messageID, channelsSubscriptions, subscribers, out>>
        /\ CloseIterator(c)
    BY <1>2 DEF BroadcastFails, BroadcastDone
  <2>2. PICK l \in {"read", "dead"} :
          Goto(c, l) /\ (UNCHANGED open \/ open' = [open EXCEPT ![c] = FALSE])
    BY <1>2 DEF BroadcastFails, BroadcastDone, Die
  <2>3. Quiet(c, l)
    BY <2>1, <2>2, LookupQuiet DEF Found, Sending
  <2> QED
    BY <2>3, QuietReports
<1> QED
  BY <1>1, <1>2, OpenBroadcastReports, BroadcastStepReports DEF SendReport

-----------------------------------------------------------------------------
LEMMA ReplyReports ==
  ASSUME TypeInv, TypeInv', ReportInv, NEW c \in Conns, Reply(c)
  PROVE  ReportInv'
<1>1. /\ pc[c] # "new"
      /\ UNCHANGED <<frame, received, messageID, channelsSubscriptions, subscribers, iter, open>>
  BY DEF Reply, SendReceipt, SendErrorTwice, SendError, At, topics, request, locals
<1>2. Receipt(count[c]) \in ReplyFrames /\ Error(count[c]) \in ReplyFrames
  BY ConnectionsAssumption DEF Receipt, Error, ReplyFrames, TypeInv, TypeOK, RequestsOK
<1>3. PICK l \in {"findLogin", "read", "sendError", "close"} :
        Goto(c, l) /\ (Send(c, Receipt(count[c])) \/ Send(c, Error(count[c])))
  BY DEF Reply, SendReceipt, SendErrorTwice, SendError
<1>4. Quiet(c, l)
  BY <1>1, <1>2, <1>3, WriteQuiet DEF Found, Sending
<1> QED
  BY <1>4, QuietReports

LEMMA SweepReports ==
  ASSUME TypeInv, TypeInv', ReportInv, NEW c \in Conns, SweepSubscriber(c)
  PROVE  ReportInv'
<1>1. /\ pc[c] = "sweep"
      /\ UNCHANGED <<frame, received, messageID, channelsSubscriptions, out>>
  BY DEF SweepSubscriber, At, request
<1>2. UNCHANGED pc => Goto(c, "sweep")
  BY <1>1, Types DEF Goto
<1>3. PICK k \in iter[c].left :
        \/ /\ k = SweepTarget
           /\ subscribers' = [subscribers EXCEPT ![iter[c].channel][iter[c].map][k] = None]
           /\ iter' = [Stale(iter[c].channel, iter[c].map) EXCEPT ![c] = NoIterator]
           /\ SweepThrows(c) \/ UNCHANGED <<pc, open>>
        \/ /\ \/ iter' = [iter EXCEPT ![c] = NoIterator]
              \/ iter' = [iter EXCEPT ![c].left = @ \ {k}]
           /\ UNCHANGED <<subscribers, pc, open>>
  BY DEF SweepSubscriber
<1>4. k \in Conns /\ iter[c].channel \in Channels \cup {None} /\ iter[c].map \in Conns \cup {None}
  BY Types DEF Iterators
<1>5. CASE /\ subscribers' = [subscribers EXCEPT ![iter[c].channel][iter[c].map][k] = None]
           /\ iter' = [Stale(iter[c].channel, iter[c].map) EXCEPT ![c] = NoIterator]
           /\ SweepThrows(c) \/ UNCHANGED <<pc, open>>
  <2>1. PICK l \in {"sweep", "dead", "read"} :
          Goto(c, l) /\ (UNCHANGED open \/ open' = [open EXCEPT ![c] = FALSE])
    BY <1>2, <1>5 DEF SweepThrows, Die
  <2>2. Quiet(c, l)
    BY <1>1, <1>4, <1>5, <2>1, EntryQuiet DEF Found, Sending
  <2> QED
    BY <2>2, QuietReports
<1>6. CASE /\ \/ iter' = [iter EXCEPT ![c] = NoIterator]
              \/ iter' = [iter EXCEPT ![c].left = @ \ {k}]
           /\ UNCHANGED <<subscribers, pc, open>>
  <2>1. /\ \A j \in Conns \ {c} : iter'[j] = iter[j]
        /\ \/ iter'[c].channel = None
           \/ iter'[c].channel = iter[c].channel /\ iter'[c].map = iter[c].map
    BY <1>6, Types DEF Iterators, NoIterator
  <2>2. Quiet(c, "sweep")
    BY <1>1, <1>2, <1>6, <2>1 DEF Quiet, SameIterator, SameReports, Found, Sending
  <2> QED
    BY <2>2, QuietReports
<1> QED
  BY <1>3, <1>5, <1>6

LEMMA EndSessionReports ==
  ASSUME TypeInv, TypeInv', ReportInv, NEW c \in Conns, EndSession(c)
  PROVE  ReportInv'
<1> USE DEF At, topics, sockets, request, locals
<1>1. CASE CloseSocket(c) \/ FindLogin(c) \/ DropLogin(c) \/ SweepFails(c) \/ SweepDone(c)
             \/ Unregister(c)
  <2>1. /\ pc[c] # "new"
        /\ UNCHANGED <<frame, received, messageID, channelsSubscriptions, subscribers, out>>
        /\ UNCHANGED iter \/ CloseIterator(c)
    BY <1>1 DEF CloseSocket, FindLogin, DropLogin, SweepFails, SweepDone, Unregister
  <2>2. PICK l \in {"findLogin", "dropLogin", "sweep", "read", "dead", "removeConnection"} :
          Goto(c, l) /\ (UNCHANGED open \/ open' = [open EXCEPT ![c] = FALSE])
    BY <1>1 DEF CloseSocket, FindLogin, DropLogin, SweepFails, SweepDone, SweepThrows, Die,
                Unregister
  <2>3. Quiet(c, l)
    BY <2>1, <2>2, LookupQuiet DEF Found, Sending
  <2> QED
    BY <2>3, QuietReports
<1>2. CASE SweepChannel(c)
  <2>1. /\ pc[c] # "new" /\ Goto(c, "sweep")
        /\ UNCHANGED <<frame, received, messageID, channelsSubscriptions, subscribers, open, out>>
    BY <1>2, Types DEF SweepChannel, Goto
  <2>2. CASE CloseIterator(c)
    <3>1. Quiet(c, "sweep")
      BY <2>1, <2>2, LookupQuiet DEF Found, Sending
    <3> QED
      BY <3>1, QuietReports
  <2>3. CASE \E ch \in Channels : HasChannel(ch) /\ OpenIterator(c, ch)
    <3>1. Quiet(c, "sweep")
      BY <2>1, <2>3, OpenQuiet DEF Found, Sending
    <3> QED
      BY <3>1, QuietReports
  <2>4. todo[c] \subseteq Channels
    BY DEF TypeInv, TypeOK, LocalsOK
  <2> QED
    BY <1>2, <2>2, <2>3, <2>4 DEF SweepChannel
<1> QED
  BY <1>1, <1>2, SweepReports DEF EndSession

LEMMA ProcessReports ==
  ASSUME TypeInv, TypeInv', LogoutInv, ReportInv, NEW c \in Conns, Process(c)
  PROVE  ReportInv'
  BY ConnectReports, ToStringChannelsReports, SubscribeReports, RemoveSubscriptionReports,
     SendReportReports, ReplyReports, EndSessionReports
  DEF Process

-----------------------------------------------------------------------------
LEMMA EndReports ==
  ASSUME TypeInv, TypeInv', ReportInv, NEW c \in Conns, Exit(c) \/ Abort(c)
  PROVE  ReportInv'
<1>1. /\ pc[c] # "new" /\ Goto(c, "dead") /\ open' = [open EXCEPT ![c] = FALSE]
      /\ UNCHANGED <<frame, received, messageID, channelsSubscriptions, subscribers, iter, out>>
  BY DEF Exit, Abort, Reading, At, Die, topics, request, locals
<1>2. Quiet(c, "dead")
  BY <1>1, LookupQuiet DEF Found, Sending
<1> QED
  BY <1>2, QuietReports

\* A frame is taken: the thread is at none of the labels the invariant is
\* about, before and after.
LEMMA ReceiveReports ==
  ASSUME TypeInv, TypeInv', ReportInv, NEW c \in Conns, Receive(c)
  PROVE  ReportInv'
<1>1. PICK f \in Frames : Dispatch(c, f)
  BY DEF Receive
<1>2. /\ frame' = [frame EXCEPT ![c] = f]
      /\ received' = [received EXCEPT ![c] = @ \cup {f}]
      /\ UNCHANGED <<messageID, channelsSubscriptions, subscribers, iter, open, out>>
  BY <1>1 DEF Dispatch, Receive, topics, sockets
<1>3. PICK l \in {"userConnectedAlready", "sendReceipt", "removeSubscription", "walkChannels",
                  "findSubscription"} : pc' = [pc EXCEPT ![c] = l]
  BY <1>1, FrameKinds DEF Dispatch, Goto
<1>4. /\ pc'[c] = l /\ \A k \in Conns \ {c} : pc'[k] = pc[k] /\ frame'[k] = frame[k]
      /\ \A k \in Conns : k # c => received'[k] = received[k]
      /\ received[c] \subseteq received'[c] /\ pc[c] = "read"
  BY <1>2, <1>3, Types DEF Receive, Reading, At
<1>5. \A k \in Conns : \A ch : Asked(k, ch) => Asked(k, ch)'
  BY <1>4 DEF Asked
<1>6. \A k \in Conns : pc'[k] \in Found \cup {"broadcast", "createChannel", "new"} =>
                         k # c /\ pc'[k] = pc[k] /\ frame'[k] = frame[k]
  BY <1>4 DEF Found, Sending
<1>7. EntriesAsked'
  BY <1>2, <1>5 DEF ReportInv, EntriesAsked
<1>8. SendersAsked' /\ ChannelFound' /\ NewSilent' /\ Broadcasts'
  <2>1. SendersAsked' /\ ChannelFound'
    BY <1>2, <1>5, <1>6 DEF ReportInv, SendersAsked, ChannelFound, HasChannel, Found, Sending
  <2>2. NewSilent'
    BY <1>4, <1>6 DEF ReportInv, NewSilent
  <2>3. \A k \in Conns : iter[k].left \subseteq Conns
    BY Types DEF Iterators
  <2>4. Broadcasts'
    BY <1>2, <1>5, <1>6, <2>3 DEF ReportInv, Broadcasts
  <2> QED
    BY <2>1, <2>2, <2>4
<1>9. Numbered'
  BY <1>2, <1>6 DEF ReportInv, Numbered, SentBelow, IsMessage
<1>10. IteratorsOpen' /\ CreatesFresh'
  BY <1>2, <1>6 DEF ReportInv, IteratorsOpen, CreatesFresh, HasChannel
<1>11. SenderOrder'
  BY <1>2 DEF ReportInv, SenderOrder, IsMessage
<1>12. BroadcastReachesSubscribers'
  BY <1>2, <1>6 DEF ReportInv, BroadcastReachesSubscribers, At
<1>13. DeliveredOnlyToSubscribers'
  <2>1. \A k \in Conns : \A i \in DOMAIN out[k] : IsMessage(k, i) => out[k][i].sender \in Conns
    <3>1. \A k \in Conns : out[k] \in Seq(ReplyFrames \cup MessageFrames)
      BY Types
    <3>2. \A k \in Conns : \A i \in DOMAIN out[k] : out[k][i] \in ReplyFrames \cup MessageFrames
      BY <3>1
    <3> QED
      BY <3>2 DEF IsMessage, ReplyFrames, MessageFrames
  <2> QED
    BY <1>2, <1>5, <2>1 DEF ReportInv, DeliveredOnlyToSubscribers, IsMessage
<1> QED
  BY <1>7, <1>8, <1>9, <1>10, <1>11, <1>12, <1>13 DEF ReportInv

\* A connection is accepted: it has sent nothing, so it is in no map.
LEMMA AcceptReports ==
  ASSUME TypeInv, TypeInv', LogoutInv, ReportInv, Accept
  PROVE  ReportInv'
<1>1. connectionID \in Conns /\ acceptor = "accept"
  BY ConnectionsAssumption DEF TypeInv, TypeOK, Accept, Conns
<1>2. PICK c \in Conns : c = connectionID
  BY <1>1
<1>3. /\ pc' = [pc EXCEPT ![c] = "read"] /\ open' = [open EXCEPT ![c] = TRUE]
      /\ UNCHANGED <<frame, received, messageID, channelsSubscriptions, subscribers, iter, out>>
  BY <1>2 DEF Accept, Goto, topics, request, locals
<1>4. pc[c] = "new"
  BY <1>1, <1>2 DEF LogoutInv, FreshInv
<1>5. received[c] = {}
  BY <1>4 DEF ReportInv, NewSilent
<1>6. /\ \A k \in Conns : pc'[k] # "read" => k # c /\ pc'[k] = pc[k]
      /\ \A k \in Conns : open'[k] => k = c \/ open[k]
  BY <1>3, Types
<1>7. EntriesAsked' /\ SendersAsked' /\ ChannelFound' /\ NewSilent' /\ Broadcasts'
  BY <1>3, <1>6
  DEF ReportInv, EntriesAsked, SendersAsked, ChannelFound, NewSilent, Broadcasts, HasChannel,
      Asked, Found, Sending
<1>8. Numbered'
  BY <1>3, <1>6 DEF ReportInv, Numbered, SentBelow, IsMessage
<1>9. IteratorsOpen' /\ CreatesFresh'
  BY <1>3, <1>6 DEF ReportInv, IteratorsOpen, CreatesFresh, HasChannel
<1>10. SenderOrder' /\ DeliveredOnlyToSubscribers'
  BY <1>3 DEF ReportInv, SenderOrder, DeliveredOnlyToSubscribers, IsMessage, Asked
<1>11. BroadcastReachesSubscribers'
  <2> SUFFICES ASSUME NEW d \in Conns, pc'[d] = "broadcast", ~ iter[d].stale, NEW k \in Conns,
                      subscribers[iter[d].channel][iter[d].map][k] # None,
                      k \notin iter[d].left, open'[k]
               PROVE  \E i \in DOMAIN out[k] :
                        out[k][i] = Message(iter[d].channel, d, messageID[d] - 1)
    BY <1>3 DEF BroadcastReachesSubscribers, At
  <2>1. pc[d] = "broadcast"
    BY <1>6
  <2>2. Asked(k, iter[d].channel)
    BY <2>1, BroadcastFits DEF ReportInv, EntriesAsked
  <2>3. k # c
    BY <1>5, <2>2 DEF Asked
  <2> QED
    BY <1>6, <2>1, <2>3 DEF ReportInv, BroadcastReachesSubscribers, At
<1> QED
  BY <1>7, <1>8, <1>9, <1>10, <1>11 DEF ReportInv

LEMMA SameReportsInv ==
  ASSUME ReportInv,
         UNCHANGED <<pc, frame, received, messageID, channelsSubscriptions, subscribers, iter,
                     open, out>>
  PROVE  ReportInv'
  BY DEF ReportInv, EntriesAsked, SendersAsked, ChannelFound, NewSilent, Broadcasts, Numbered,
         SentBelow, IteratorsOpen, CreatesFresh, DeliveredOnlyToSubscribers, SenderOrder,
         BroadcastReachesSubscribers, HasChannel, Asked, IsMessage, At

LEMMA InitReports == Init => ReportInv
  BY ConnectionsAssumption
  DEF Init, ConnectionsInit, ProtocolInit, EmptyMap, NoIterator, ReportInv, EntriesAsked,
      SendersAsked, ChannelFound, NewSilent, Broadcasts, Numbered, SentBelow, IteratorsOpen,
      CreatesFresh, DeliveredOnlyToSubscribers, SenderOrder, BroadcastReachesSubscribers,
      HasChannel, Sending, Found, At

LEMMA NextReports ==
  ASSUME TypeInv, LogoutInv, ReportInv, [Next]_vars
  PROVE  TypeInv' /\ LogoutInv' /\ ReportInv'
<1>1. TypeInv'
  BY NextType
<1>2. LogoutInv'
  BY AcceptLogout, IncrementLogout, ReceiveLogout, EndLogout, ProcessLogout, StutterLogout
  DEF Next, Quiescent
<1>3. ReportInv'
  <2>1. CASE Increment \/ UNCHANGED vars
    BY <2>1, SameReportsInv DEF Increment, vars, topics, sockets, request, locals
  <2>2. CASE Accept
    BY <1>1, <2>2, AcceptReports
  <2>3. ASSUME NEW c \in Conns, Receive(c) \/ Exit(c) \/ Abort(c) \/ ProcessStep(c)
        PROVE  ReportInv'
    BY <1>1, <2>3, ReceiveReports, EndReports, ProcessReports DEF ProcessStep
  <2> QED
    BY <2>1, <2>2, <2>3 DEF Next, Quiescent
<1> QED
  BY <1>1, <1>2, <1>3

\* The invariant holds in every reachable state of the server.
THEOREM ReportsInvariant == Spec => []ReportInv
<1>1. Init => TypeInv /\ LogoutInv /\ ReportInv
  BY InitType, InitLogout, InitReports
<1>2. TypeInv /\ LogoutInv /\ ReportInv /\ [Next]_vars => TypeInv' /\ LogoutInv' /\ ReportInv'
  BY NextReports
<1> QED
  BY <1>1, <1>2, PTL DEF Spec

\* Nobody gets a report of a channel that it, and the sender, did not ask for,
\* however maps are replaced and iterators go stale (getUserSubID and
\* send(channel, ..)), for any number of connections and channels.
THEOREM ReportsOnlyToSubscribers == Spec => []DeliveredOnlyToSubscribers
<1>1. ReportInv => DeliveredOnlyToSubscribers
  BY DEF ReportInv
<1> QED
  BY <1>1, ReportsInvariant, PTL

\* The reports of one sender reach each receiver in order and at most once, for
\* any number of senders that write to it at the same time.
THEOREM ReportsInOrder == Spec => []SenderOrder
<1>1. ReportInv => SenderOrder
  BY DEF ReportInv
<1> QED
  BY <1>1, ReportsInvariant, PTL

\* A broadcast over a map nobody changes skips no subscriber of that map.
THEOREM NobodySkipped == Spec => []BroadcastReachesSubscribers
<1>1. ReportInv => BroadcastReachesSubscribers
  BY DEF ReportInv
<1> QED
  BY <1>1, ReportsInvariant, PTL

-----------------------------------------------------------------------------
LEMMA RepliesSelected ==
  ASSUME NEW F, NEW s \in Seq(F)
  PROVE  RepliesIn(s) = Selected(s, {i \in DOMAIN s : s[i].command # "MESSAGE"})
<1> DEFINE I == {i \in DOMAIN s : s[i].command # "MESSAGE"}
<1>1. CASE \A i \in DOMAIN s : s[i].command # "MESSAGE"
  <2>1. \A i \in DOMAIN s : i \in I
    BY <1>1
  <2>2. Selected(s, I) = s
    <3> HIDE DEF I
    <3> QED
      BY <2>1, SelectedAll
  <2> QED
    BY <1>1, <2>2 DEF RepliesIn
<1>2. CASE ~ \A i \in DOMAIN s : s[i].command # "MESSAGE"
  BY <1>2 DEF RepliesIn
<1> QED
  BY <1>1, <1>2

\* What one more frame adds to the replies.
LEMMA RepliesAppend ==
  ASSUME NEW F, NEW s \in Seq(F), NEW m \in F
  PROVE  RepliesIn(Append(s, m)) =
           IF m.command = "MESSAGE" THEN RepliesIn(s) ELSE Append(RepliesIn(s), m)
<1> DEFINE p == Append(s, m)
           I == {i \in DOMAIN s : s[i].command # "MESSAGE"}
           J == {i \in DOMAIN p : p[i].command # "MESSAGE"}
           n == Len(s)
<1>1. /\ p \in Seq(F) /\ n \in Nat /\ Len(p) = n + 1 /\ p[n + 1] = m
      /\ \A i \in 1 .. n : p[i] = s[i]
  BY AppendProperties, LenProperties
<1>2. DOMAIN s = 1 .. n
  OBVIOUS
<1>3. DOMAIN p = 1 .. n + 1
  <2> HIDE DEF p
  <2> QED
    BY <1>1
<1>4. Selected(p, J) = IF n + 1 \in J THEN Append(Selected(s, J), m) ELSE Selected(s, J)
  <2> HIDE DEF J
  <2> QED
    BY SelectedAppend
<1> HIDE DEF p
<1>5. n + 1 \in J <=> m.command # "MESSAGE"
  BY <1>1, <1>3
<1>6. Selected(s, J) = Selected(s, I)
  <2>1. \A i \in DOMAIN s : i \in J <=> i \in I
    BY <1>1, <1>2, <1>3
  <2> HIDE DEF I, J
  <2> QED
    BY <2>1, SelectedAgree
<1>7. RepliesIn(p) = Selected(p, J) /\ RepliesIn(s) = Selected(s, I)
  BY <1>1, RepliesSelected
<1> HIDE DEF I, J
<1> QED
  BY <1>4, <1>5, <1>6, <1>7 DEF p

LEMMA RepliesEmpty == RepliesIn(<< >>) = << >>
  BY DEF RepliesIn

-----------------------------------------------------------------------------
(***************************************************************************)
(* Where the answers to a connection stand.  r are its replies, n counts   *)
(* its requests, f is the last one, l the label of its thread, o whether   *)
(* its socket is open, t its shouldTerminate.                              *)
(***************************************************************************)
\* The labels of a thread that has not answered its request yet.
Fresh == {"userConnectedAlready", "hasRegistered", "checkPasscode", "addUser", "logIn",
          "sendConnected", "walkChannels", "walked", "findChannel", "findSubscriber",
          "putSubscription", "createChannel", "removeSubscription", "findSubscription",
          "getSubscription", "openBroadcast", "broadcast", "sendReceipt", "sendErrorTwice"}

Cleanup == {"findLogin", "dropLogin", "sweep", "removeConnection"}

\* The calls of process that send a second ERROR.
Twice == {"CONNECT", "SEND"}

ErrorsIn(r) == {i \in DOMAIN r : r[i].command = "ERROR"}

Unanswered(r, n) == ErrorsIn(r) = {} /\ \A i \in DOMAIN r : r[i].n < n

LastIs(r, kind, n) == r # << >> /\ r[Len(r)] = [command |-> kind, n |-> n]

OneError(r, n) == LastIs(r, "ERROR", n) /\ \E i \in DOMAIN r : ErrorsIn(r) = {i}

\* What Ended says of a connection.
IsEnd(r, n, f) ==
  /\ r # << >>
  /\ r[Len(r)].n = n
  /\ r[Len(r)].command = "ERROR" \/ f.command = "DISCONNECT"

\* The abstract phase of a connection.
PhaseIs(l, r, n, f) ==
  IF l = "dead" THEN "closed"
  ELSE IF IsEnd(r, n, f) THEN "ending"
  ELSE IF l \in {"new", "read"} THEN "idle" ELSE "busy"

\* A thread answers every request once, but for the second ERROR; an ERROR is
\* followed by the close of the socket and a DISCONNECT by the end of the loop,
\* so that no request is read after either.
AnswersFit(l, o, t, f, n, r) ==
  /\ r \in Seq(ReplyFrames) /\ n \in Nat /\ \A i \in DOMAIN r : r[i].n <= n
  /\ f = None => l \in {"new", "read", "dead"} /\ r = << >>
  /\ l = "new" => f = None
  /\ l \in Fresh => o /\ Unanswered(r, n)
  /\ l = "sendErrorTwice" => f.command \in Twice
  /\ l = "sendReceipt" => f.command \in {"SUBSCRIBE", "UNSUBSCRIBE", "DISCONNECT"}
  /\ l = "sendReceipt" /\ f.command = "DISCONNECT" => t
  /\ l = "sendError" => /\ o /\ f.command # "DISCONNECT"
                        /\ Unanswered(r, n) \/ (f.command \in Twice /\ OneError(r, n))
  /\ l = "close" => LastIs(r, "ERROR", n) /\ f.command # "DISCONNECT"
  /\ l \in Cleanup => IsEnd(r, n, f) /\ (IF f.command = "DISCONNECT" THEN t ELSE ~ o)
  /\ l = "read" => t \/ ~ o \/ (ErrorsIn(r) = {} /\ (f = None \/ f.command # "DISCONNECT"))

AnswersOf(c) ==
  AnswersFit(pc[c], open[c], shouldTerminate[c], frame[c], count[c], Replies(c))

AnswerInv == \A c \in Conns : AnswersOf(c)

\* One more reply.
LEMMA OneMoreReply ==
  ASSUME NEW r \in Seq(ReplyFrames), NEW kind \in {"CONNECTED", "RECEIPT", "ERROR"},
         NEW n \in Nat, \A i \in DOMAIN r : r[i].n <= n,
         NEW q, q = Append(r, [command |-> kind, n |-> n])
  PROVE  /\ q \in Seq(ReplyFrames) /\ \A i \in DOMAIN q : q[i].n <= n
         /\ LastIs(q, kind, n)
         /\ kind # "ERROR" => ErrorsIn(q) = ErrorsIn(r)
         /\ kind = "ERROR" /\ ErrorsIn(r) = {} => OneError(q, n)
<1> DEFINE m == [command |-> kind, n |-> n]
           k == Len(r) + 1
<1>1. m \in ReplyFrames /\ m.command = kind /\ m.n = n
  BY DEF ReplyFrames
<1>2. Len(r) \in Nat /\ DOMAIN r = 1 .. Len(r)
  OBVIOUS
<1> HIDE DEF m
<1>3. /\ q \in Seq(ReplyFrames) /\ Len(q) = k /\ DOMAIN q = 1 .. k
      /\ q[k] = m /\ \A i \in 1 .. Len(r) : q[i] = r[i]
  <2>1. q = Append(r, m)
    BY DEF m
  <2> QED
    BY <1>1, <1>2, <2>1, AppendProperties
<1>4. /\ DOMAIN q = DOMAIN r \cup {k} /\ k \notin DOMAIN r
      /\ \A i \in DOMAIN r : q[i] = r[i]
  BY <1>2, <1>3
<1>5. \A i \in DOMAIN q : q[i].n <= n
  BY <1>1, <1>3, <1>4
<1>6. LastIs(q, kind, n)
  <2>1. q # << >> /\ q[Len(q)] = m
    BY <1>2, <1>3
  <2> QED
    BY <2>1 DEF LastIs, m
<1>7. kind # "ERROR" => ErrorsIn(q) = ErrorsIn(r)
  BY <1>1, <1>3, <1>4 DEF ErrorsIn
<1>8. kind = "ERROR" /\ ErrorsIn(r) = {} => ErrorsIn(q) = {k}
  BY <1>1, <1>3, <1>4 DEF ErrorsIn
<1> QED
  BY <1>3, <1>4, <1>5, <1>6, <1>7, <1>8 DEF OneError

\* What the last reply of a fitting connection says of its phase.
LEMMA PhaseFacts ==
  ASSUME NEW l, NEW o, NEW t, NEW f, NEW n, NEW r, AnswersFit(l, o, t, f, n, r)
  PROVE  /\ l \in Fresh => PhaseIs(l, r, n, f) = "busy" /\ f # None
         /\ l \in Cleanup \cup {"close"} => PhaseIs(l, r, n, f) = "ending" /\ f # None
         /\ l = "sendError" /\ Unanswered(r, n) => PhaseIs(l, r, n, f) = "busy" /\ f # None
         /\ l = "sendError" /\ ~ Unanswered(r, n)
              => PhaseIs(l, r, n, f) = "ending" /\ f # None
         /\ l = "read" /\ ~ t /\ o => PhaseIs(l, r, n, f) = "idle"
         /\ l = "new" => PhaseIs(l, r, n, f) = "idle" /\ r = << >>
         /\ l # "dead" => PhaseIs(l, r, n, f) # "closed"
<1>0. Len(r) \in Nat /\ DOMAIN r = 1 .. Len(r) /\ n \in Nat
  BY DEF AnswersFit
<1>1. r # << >> => Len(r) \in DOMAIN r
  BY <1>0 DEF AnswersFit
<1>2. ASSUME NEW i \in DOMAIN r PROVE r[i].n \in Nat
  <2>1. r[i] \in ReplyFrames
    BY <1>0 DEF AnswersFit
  <2> QED
    BY <2>1 DEF ReplyFrames
<1>3. Unanswered(r, n) => ~ IsEnd(r, n, f)
  BY <1>0, <1>1, <1>2 DEF Unanswered, IsEnd
<1>4. LastIs(r, "ERROR", n) => IsEnd(r, n, f)
  BY DEF LastIs, IsEnd
<1>5. ErrorsIn(r) = {} /\ (f = None \/ f.command # "DISCONNECT") => ~ IsEnd(r, n, f)
  BY <1>1 DEF ErrorsIn, IsEnd, AnswersFit
<1>6. l \in Fresh => l \notin {"dead", "new", "read"}
  BY DEF Fresh
<1>7. l \in Cleanup => l \notin {"dead", "new", "read"}
  BY DEF Cleanup
<1>8. l \in Fresh => PhaseIs(l, r, n, f) = "busy" /\ f # None
  BY <1>3, <1>6 DEF AnswersFit, PhaseIs
<1>9. l \in Cleanup \cup {"close"} => PhaseIs(l, r, n, f) = "ending" /\ f # None
  BY <1>4, <1>7 DEF AnswersFit, PhaseIs
<1>10. l = "sendError" /\ Unanswered(r, n) => PhaseIs(l, r, n, f) = "busy" /\ f # None
  BY <1>3 DEF AnswersFit, PhaseIs
<1>11. l = "sendError" /\ ~ Unanswered(r, n) => PhaseIs(l, r, n, f) = "ending" /\ f # None
  BY <1>4 DEF AnswersFit, PhaseIs, OneError
<1>12. l = "read" /\ ~ t /\ o => PhaseIs(l, r, n, f) = "idle"
  BY <1>5 DEF AnswersFit, PhaseIs
<1>13. l = "new" => PhaseIs(l, r, n, f) = "idle" /\ r = << >>
  BY DEF AnswersFit, PhaseIs, IsEnd
<1>14. l # "dead" => PhaseIs(l, r, n, f) # "closed"
  BY DEF PhaseIs
<1> QED
  BY <1>8, <1>9, <1>10, <1>11, <1>12, <1>13, <1>14

-----------------------------------------------------------------------------
\* Phase and replies in terms of these operators, before and after a step.
LEMMA SessionMapping ==
  ASSUME NEW c
  PROVE  /\ Phase(c) = PhaseIs(pc[c], Replies(c), count[c], frame[c])
         /\ Phase(c)' = PhaseIs(pc'[c], Replies(c)', count'[c], frame'[c])
         /\ Replies(c) = RepliesIn(out[c])
         /\ Replies(c)' = RepliesIn(out'[c])
<1>1. Replies(c) = RepliesIn(out[c]) /\ Replies(c)' = RepliesIn(out'[c])
  BY DEF Replies
<1>2. Phase(c) = PhaseIs(pc[c], Replies(c), count[c], frame[c])
  BY DEF Phase, PhaseIs, IsEnd, Ended, At
<1>3. Phase(c)' = PhaseIs(pc'[c], Replies(c)', count'[c], frame'[c])
  BY DEF Phase, PhaseIs, IsEnd, Ended, At
<1> QED
  BY <1>1, <1>2, <1>3

\* Writing a frame to the socket of k.
LEMMA SendReplies ==
  ASSUME TypeInv, NEW k \in Conns, NEW m \in ReplyFrames \cup MessageFrames, Send(k, m)
  PROVE  /\ \A j \in Conns : j # k => Replies(j)' = Replies(j)
         /\ m \in MessageFrames => \A j \in Conns : Replies(j)' = Replies(j)
         /\ m \in ReplyFrames /\ open[k] => Replies(k)' = Append(Replies(k), m)
<1> DEFINE F == ReplyFrames \cup MessageFrames
<1>1. out \in [Conns -> Seq(F)]
  BY DEF TypeInv, TypeOK, SocketsOK
<1>2. /\ \A j \in Conns : j # k => out'[j] = out[j]
      /\ out'[k] = IF open[k] THEN Append(out[k], m) ELSE out[k]
  BY <1>1 DEF Send
<1>3. out[k] \in Seq(F) /\ m \in F
  BY <1>1
<1>4. RepliesIn(Append(out[k], m)) = IF m.command = "MESSAGE" THEN RepliesIn(out[k])
                                     ELSE Append(RepliesIn(out[k]), m)
  <2> HIDE DEF F
  <2> QED
    BY <1>3, RepliesAppend
<1>5. \A j \in Conns : j # k => Replies(j)' = Replies(j)
  BY <1>2, SessionMapping
<1>6. m \in MessageFrames => Replies(k)' = Replies(k)
  <2>1. m \in MessageFrames => m.command = "MESSAGE"
    BY DEF MessageFrames
  <2> QED
    BY <1>2, <1>4, <2>1, SessionMapping
<1>7. m \in ReplyFrames /\ open[k] => Replies(k)' = Append(Replies(k), m)
  <2>1. m \in ReplyFrames => m.command # "MESSAGE"
    BY DEF ReplyFrames
  <2> QED
    BY <1>2, <1>4, <2>1, SessionMapping
<1> QED
  BY <1>5, <1>6, <1>7

-----------------------------------------------------------------------------
(***************************************************************************)
(* Each step of the abstract sessions, connection by connection.           *)
(***************************************************************************)
Stays(k) == Phase(k)' = Phase(k) /\ Replies(k)' = Replies(k)

LEMMA StayAbstract ==
  ASSUME \A k \in Conns : Stays(k), UNCHANGED <<frame, count>>
  PROVE  [S!Next]_(S!sessions)
  BY DEF S!sessions, Stays

LEMMA TakeAbstract ==
  ASSUME NEW c \in Conns, Phase(c) = "idle", Phase(c)' = "busy",
         \A k \in Conns : k # c => Stays(k),
         Replies(c)' = Replies(c),
         NEW f, f # None, f.command \in S!Commands,
         frame \in [Conns -> Frames \cup {None}], count \in [Conns -> 0 .. MaxFrames],
         frame' = [frame EXCEPT ![c] = f], count' = [count EXCEPT ![c] = @ + 1]
  PROVE  [S!Next]_(S!sessions)
<1> DEFINE C(k) == IF frame[k] = None THEN "none" ELSE frame[k].command
           D(k) == IF frame'[k] = None THEN "none" ELSE frame'[k].command
<1>1. /\ D(c) = f.command
      /\ \A k \in Conns : k # c => D(k) = C(k)
  OBVIOUS
<1>2. [k \in Conns |-> D(k)] = [[k \in Conns |-> C(k)] EXCEPT ![c] = f.command]
  <2> HIDE DEF C, D
  <2> QED
    BY <1>1
<1>3. [k \in Conns |-> Phase(k)'] = [[k \in Conns |-> Phase(k)] EXCEPT ![c] = "busy"]
  BY DEF Stays
<1>4. [k \in Conns |-> Replies(k)'] = [k \in Conns |-> Replies(k)]
  BY DEF Stays
<1>5. S!Take(c)
  BY <1>2, <1>3, <1>4 DEF S!Take, S!Enter
<1> QED
  BY <1>5 DEF S!Next

\* The steps that answer a request, or give it up.
LEMMA AnswerAbstract ==
  ASSUME NEW c \in Conns, frame[c] # None, UNCHANGED <<frame, count>>,
         \A k \in Conns : k # c => Stays(k),
         NEW kind, Replies(c)' = Append(Replies(c), [command |-> kind, n |-> count[c]]),
         \/ /\ Phase(c) = "busy" /\ frame[c].command # "SEND"
            /\ kind = IF frame[c].command = "CONNECT" THEN "CONNECTED" ELSE "RECEIPT"
            /\ Phase(c)' = IF frame[c].command = "DISCONNECT" THEN "ending" ELSE "idle"
         \/ /\ Phase(c) = "busy" /\ frame[c].command # "DISCONNECT"
            /\ kind = "ERROR" /\ Phase(c)' = "ending"
         \/ /\ Phase(c) = "ending" /\ frame[c].command \in Twice
            /\ \E i \in DOMAIN Replies(c) : ErrorsIn(Replies(c)) = {i}
            /\ kind = "ERROR" /\ Phase(c)' = "ending"
  PROVE  [S!Next]_(S!sessions)
<1>1. [k \in Conns |-> Replies(k)']
        = [[k \in Conns |-> Replies(k)]
             EXCEPT ![c] = Append(@, [command |-> kind, n |-> count[c]])]
  BY DEF Stays
<1>2. [k \in Conns |-> Phase(k)'] = [[k \in Conns |-> Phase(k)] EXCEPT ![c] = Phase(c)']
  BY DEF Stays
<1>3. [k \in Conns |-> IF frame'[k] = None THEN "none" ELSE frame'[k].command]
        = [k \in Conns |-> IF frame[k] = None THEN "none" ELSE frame[k].command]
  OBVIOUS
<1>4. S!Answer(c, kind)
  BY <1>1 DEF S!Answer
<1>5. CASE /\ Phase(c) = "busy" /\ frame[c].command # "SEND"
           /\ kind = IF frame[c].command = "CONNECT" THEN "CONNECTED" ELSE "RECEIPT"
           /\ Phase(c)' = IF frame[c].command = "DISCONNECT" THEN "ending" ELSE "idle"
  <2>1. S!Accept(c)
    BY <1>2, <1>3, <1>4, <1>5 DEF S!Accept, S!Enter
  <2> QED
    BY <2>1 DEF S!Next
<1>6. CASE /\ Phase(c) = "busy" /\ frame[c].command # "DISCONNECT"
           /\ kind = "ERROR" /\ Phase(c)' = "ending"
  <2>1. S!Refuse(c)
    BY <1>2, <1>3, <1>4, <1>6 DEF S!Refuse, S!Enter
  <2> QED
    BY <2>1 DEF S!Next
<1>7. CASE /\ Phase(c) = "ending" /\ frame[c].command \in Twice
           /\ \E i \in DOMAIN Replies(c) : ErrorsIn(Replies(c)) = {i}
           /\ kind = "ERROR" /\ Phase(c)' = "ending"
  <2>1. [k \in Conns |-> Phase(k)'] = [k \in Conns |-> Phase(k)]
    BY <1>7 DEF Stays
  <2>2. S!RefuseAgain(c)
    BY <1>3, <1>4, <1>7, <2>1 DEF S!RefuseAgain, S!Errors, ErrorsIn, Twice
  <2> QED
    BY <2>2 DEF S!Next
<1> QED
  BY <1>5, <1>6, <1>7

LEMMA PublishAbstract ==
  ASSUME NEW c \in Conns, frame[c] # None, frame[c].command = "SEND",
         Phase(c) = "busy", Phase(c)' = "idle",
         \A k \in Conns : k # c => Stays(k), Replies(c)' = Replies(c),
         UNCHANGED <<frame, count>>
  PROVE  [S!Next]_(S!sessions)
<1>1. S!Publish(c)
  BY DEF S!Publish, S!Enter, Stays
<1> QED
  BY <1>1 DEF S!Next

LEMMA HangUpAbstract ==
  ASSUME NEW c \in Conns, Phase(c) # "closed", Phase(c)' = "closed",
         \A k \in Conns : k # c => Stays(k), Replies(c)' = Replies(c),
         UNCHANGED <<frame, count>>
  PROVE  [S!Next]_(S!sessions)
<1>1. S!HangUp(c)
  BY DEF S!HangUp, S!Enter, Stays
<1> QED
  BY <1>1 DEF S!Next

-----------------------------------------------------------------------------
(***************************************************************************)
(* The steps of a thread, by what they do to the answers.                  *)
(***************************************************************************)
Implemented == AnswerInv' /\ [S!Next]_(S!sessions)

\* A step of one thread leaves the other connections as they are.
LEMMA OthersStay ==
  ASSUME TypeInv, AnswerInv, NEW c \in Conns, NEW l, Goto(c, l),
         \A k \in Conns \ {c} : /\ open'[k] = open[k] /\ shouldTerminate'[k] = shouldTerminate[k]
                                /\ frame'[k] = frame[k] /\ count'[k] = count[k]
                                /\ Replies(k)' = Replies(k)
  PROVE  /\ \A k \in Conns : k # c => AnswersOf(k)' /\ Stays(k)
         /\ pc'[c] = l
<1>1. /\ pc'[c] = l
      /\ \A k \in Conns : k # c => pc'[k] = pc[k]
  BY DEF Goto, TypeInv, TypeOK, RequestsOK
<1>2. ASSUME NEW k \in Conns, k # c
      PROVE  Stays(k)
  BY <1>1, <1>2, SessionMapping DEF Stays
<1>3. ASSUME NEW k \in Conns, k # c
      PROVE  AnswersOf(k)'
  BY <1>1, <1>3 DEF AnswerInv, AnswersOf
<1> QED
  BY <1>1, <1>2, <1>3

\* On its way to an answer.
LEMMA FreshStep ==
  ASSUME TypeInv, AnswerInv, NEW c \in Conns, NEW l \in Fresh \cup {"sendError"},
         pc[c] \in Fresh, Goto(c, l),
         UNCHANGED <<frame, count, open, out, shouldTerminate>>,
         l = "sendErrorTwice" => frame[c].command \in Twice,
         l = "sendReceipt" => frame[c].command \in {"SUBSCRIBE", "UNSUBSCRIBE"},
         l = "sendError" => frame[c].command # "DISCONNECT"
  PROVE  Implemented
<1>1. \A k \in Conns : Replies(k)' = Replies(k)
  BY SessionMapping
<1>2. /\ \A k \in Conns : k # c => AnswersOf(k)' /\ Stays(k)
      /\ pc'[c] = l
  BY <1>1, OthersStay
<1>3. AnswersFit(pc[c], open[c], shouldTerminate[c], frame[c], count[c], Replies(c))
  BY DEF AnswerInv, AnswersOf
<1>4. l \notin Cleanup \cup {"new", "read", "dead", "close"}
  BY DEF Fresh, Cleanup
<1>5. AnswersFit(l, open[c], shouldTerminate[c], frame[c], count[c], Replies(c))
  <2>1. frame[c] # None
    BY <1>3, PhaseFacts
  <2>2. open[c] /\ Unanswered(Replies(c), count[c])
    BY <1>3 DEF AnswersFit
  <2> QED
    BY <1>3, <1>4, <2>1, <2>2 DEF AnswersFit, Fresh
<1>6. AnswersOf(c)'
  BY <1>1, <1>2, <1>5 DEF AnswersOf
<1>7. Unanswered(Replies(c), count[c])
  BY <1>3 DEF AnswersFit
<1>8. Stays(c)
  <2>1. Phase(c) = "busy"
    BY <1>3, PhaseFacts, SessionMapping
  <2>2. PhaseIs(l, Replies(c), count[c], frame[c]) = "busy"
    BY <1>5, <1>7, PhaseFacts
  <2> QED
    BY <1>1, <1>2, <2>1, <2>2, SessionMapping DEF Stays
<1>9. AnswerInv'
  BY <1>2, <1>6 DEF AnswerInv
<1> QED
  BY <1>2, <1>8, <1>9, StayAbstract DEF Implemented

\* Cleaning up after the last answer.
LEMMA CleanupStep ==
  ASSUME TypeInv, AnswerInv, NEW c \in Conns, NEW l \in Cleanup \cup {"read"},
         pc[c] \in Cleanup \cup {"close"}, Goto(c, l),
         UNCHANGED <<frame, count, out>>,
         IF pc[c] = "close" THEN open' = [open EXCEPT ![c] = FALSE] ELSE UNCHANGED open,
         UNCHANGED shouldTerminate \/ shouldTerminate' = [shouldTerminate EXCEPT ![c] = TRUE]
  PROVE  Implemented
<1>0. open \in [Conns -> BOOLEAN] /\ shouldTerminate \in [Conns -> BOOLEAN]
  BY DEF TypeInv, TypeOK, SocketsOK, LocalsOK
<1>1. \A k \in Conns : Replies(k)' = Replies(k)
  BY SessionMapping
<1>2. /\ \A k \in Conns : k # c => AnswersOf(k)' /\ Stays(k)
      /\ pc'[c] = l
  BY <1>0, <1>1, OthersStay
<1>3. AnswersFit(pc[c], open[c], shouldTerminate[c], frame[c], count[c], Replies(c))
  BY DEF AnswerInv, AnswersOf
<1>4. l \notin Fresh \cup {"new", "dead", "close", "sendError"}
  BY DEF Fresh, Cleanup
<1>5. /\ IsEnd(Replies(c), count[c], frame[c])
      /\ IF frame[c].command = "DISCONNECT" THEN shouldTerminate'[c] ELSE ~ open'[c]
      /\ frame[c] # None
  <2>1. CASE pc[c] = "close"
    BY <1>0, <1>3, <2>1, PhaseFacts DEF AnswersFit, LastIs, IsEnd
  <2>2. CASE pc[c] \in Cleanup
    <3>1. "close" \notin Cleanup
      BY DEF Cleanup
    <3>2. (shouldTerminate[c] => shouldTerminate'[c]) /\ open'[c] = open[c]
      BY <1>0, <2>2, <3>1
    <3>3. /\ IsEnd(Replies(c), count[c], frame[c])
          /\ IF frame[c].command = "DISCONNECT" THEN shouldTerminate[c] ELSE ~ open[c]
      BY <1>3, <2>2 DEF AnswersFit
    <3>4. frame[c] # None
      BY <1>3, <2>2, PhaseFacts
    <3> QED
      BY <3>2, <3>3, <3>4
  <2> QED
    BY <2>1, <2>2
<1>6. AnswersFit(l, open'[c], shouldTerminate'[c], frame[c], count[c], Replies(c))
  BY <1>3, <1>4, <1>5 DEF AnswersFit, Fresh
<1>7. AnswersOf(c)'
  BY <1>1, <1>2, <1>6 DEF AnswersOf
<1>8. Stays(c)
  <2>1. Phase(c) = "ending"
    BY <1>3, PhaseFacts, SessionMapping
  <2>2. PhaseIs(l, Replies(c), count[c], frame[c]) = "ending"
    BY <1>4, <1>5 DEF PhaseIs
  <2> QED
    BY <1>1, <1>2, <2>1, <2>2, SessionMapping DEF Stays
<1>9. AnswerInv'
  BY <1>2, <1>7 DEF AnswerInv
<1> QED
  BY <1>2, <1>8, <1>9, StayAbstract DEF Implemented

\* The end of a thread, wherever it is.
LEMMA DieStep ==
  ASSUME TypeInv, AnswerInv, NEW c \in Conns, pc[c] # "dead", Die(c),
         UNCHANGED <<frame, count, out, shouldTerminate>>
  PROVE  Implemented
<1>0. open \in [Conns -> BOOLEAN]
  BY DEF TypeInv, TypeOK, SocketsOK
<1>1. \A k \in Conns : Replies(k)' = Replies(k)
  BY SessionMapping
<1>2. /\ \A k \in Conns : k # c => AnswersOf(k)' /\ Stays(k)
      /\ pc'[c] = "dead"
  BY <1>0, <1>1, OthersStay DEF Die
<1>3. AnswersFit(pc[c], open[c], shouldTerminate[c], frame[c], count[c], Replies(c))
  BY DEF AnswerInv, AnswersOf
<1>4. AnswersFit("dead", open'[c], shouldTerminate[c], frame[c], count[c], Replies(c))
  BY <1>3 DEF AnswersFit, Fresh, Cleanup
<1>5. AnswersOf(c)'
  BY <1>1, <1>2, <1>4 DEF AnswersOf
<1>6. Phase(c) # "closed" /\ Phase(c)' = "closed"
  <2>1. Phase(c) # "closed"
    BY <1>3, PhaseFacts, SessionMapping
  <2>2. Phase(c)' = "closed"
    BY <1>2, SessionMapping DEF PhaseIs
  <2> QED
    BY <2>1, <2>2
<1>7. AnswerInv'
  BY <1>2, <1>5 DEF AnswerInv
<1> QED
  BY <1>1, <1>2, <1>6, <1>7, HangUpAbstract DEF Implemented

-----------------------------------------------------------------------------
(***************************************************************************)
(* The answers themselves.                                                 *)
(***************************************************************************)
\* A thread writes a reply and moves on to l.
LEMMA ReplyKeeps ==
  ASSUME TypeInv, AnswerInv, NEW c \in Conns, NEW l, Goto(c, l), open[c],
         NEW kind \in {"CONNECTED", "RECEIPT", "ERROR"},
         Send(c, [command |-> kind, n |-> count[c]]),
         UNCHANGED <<frame, count, open, shouldTerminate>>
  PROVE  /\ \A k \in Conns : k # c => AnswersOf(k)' /\ Stays(k)
         /\ pc'[c] = l
         /\ Replies(c)' = Append(Replies(c), [command |-> kind, n |-> count[c]])
<1>1. [command |-> kind, n |-> count[c]] \in ReplyFrames
  BY ConnectionsAssumption DEF ReplyFrames, TypeInv, TypeOK, RequestsOK
<1>2. /\ \A k \in Conns : k # c => Replies(k)' = Replies(k)
      /\ Replies(c)' = Append(Replies(c), [command |-> kind, n |-> count[c]])
  BY <1>1, SendReplies
<1> QED
  BY <1>2, OthersStay

LEMMA SendConnectedStep ==
  ASSUME TypeInv, AnswerInv, NEW c \in Conns, SendConnected(c)
  PROVE  Implemented
<1>1. /\ pc[c] = "sendConnected" /\ Goto(c, "read")
      /\ Send(c, [command |-> "CONNECTED", n |-> count[c]])
      /\ UNCHANGED <<frame, count, open, shouldTerminate>>
  BY DEF SendConnected, At, Connected, request, locals
<1>2. AnswersFit(pc[c], open[c], shouldTerminate[c], frame[c], count[c], Replies(c))
  BY DEF AnswerInv, AnswersOf
<1>3. pc[c] \in Fresh
  BY <1>1 DEF Fresh
<1>4. /\ open[c] /\ Unanswered(Replies(c), count[c]) /\ frame[c] # None
      /\ Phase(c) = "busy"
      /\ Replies(c) \in Seq(ReplyFrames) /\ count[c] \in Nat
      /\ \A i \in DOMAIN Replies(c) : Replies(c)[i].n <= count[c]
  BY <1>2, <1>3, PhaseFacts, SessionMapping DEF AnswersFit
<1>5. frame[c].command = "CONNECT"
  BY <1>1 DEF TypeInv, FrameFits, Fits, ConnectFrames
<1> DEFINE q == Append(Replies(c), [command |-> "CONNECTED", n |-> count[c]])
<1>6. /\ \A k \in Conns : k # c => AnswersOf(k)' /\ Stays(k)
      /\ pc'[c] = "read" /\ Replies(c)' = q
  BY <1>1, <1>4, ReplyKeeps
<1>7. /\ q \in Seq(ReplyFrames) /\ \A i \in DOMAIN q : q[i].n <= count[c]
      /\ LastIs(q, "CONNECTED", count[c]) /\ ErrorsIn(q) = {}
  BY <1>4, OneMoreReply DEF Unanswered
<1> HIDE DEF q
<1>8. AnswersFit("read", open[c], shouldTerminate[c], frame[c], count[c], q)
  BY <1>4, <1>5, <1>7 DEF AnswersFit, Fresh, Cleanup
<1>9. AnswerInv'
  <2>1. AnswersOf(c)'
    BY <1>1, <1>6, <1>8 DEF AnswersOf
  <2> QED
    BY <1>6, <2>1 DEF AnswerInv
<1>10. Phase(c)' = "idle"
  <2>1. PhaseIs("read", q, count[c], frame[c]) = "idle"
    BY <1>5, <1>7 DEF PhaseIs, IsEnd, LastIs
  <2> QED
    BY <1>1, <1>6, <2>1, SessionMapping
<1>11. [S!Next]_(S!sessions)
  <2>1. Replies(c)' = Append(Replies(c), [command |-> "CONNECTED", n |-> count[c]])
    BY <1>6 DEF q
  <2> QED
    BY <1>1, <1>4, <1>5, <1>6, <1>10, <2>1, AnswerAbstract
<1> QED
  BY <1>9, <1>11 DEF Implemented

LEMMA SendReceiptStep ==
  ASSUME TypeInv, AnswerInv, NEW c \in Conns, SendReceipt(c)
  PROVE  Implemented
<1> DEFINE last == frame[c].command = "DISCONNECT"
           l == IF last THEN "findLogin" ELSE "read"
<1>1. /\ pc[c] = "sendReceipt" /\ Goto(c, l)
      /\ Send(c, [command |-> "RECEIPT", n |-> count[c]])
      /\ UNCHANGED <<frame, count, open, shouldTerminate>>
  BY DEF SendReceipt, At, Receipt, request, locals
<1>2. AnswersFit(pc[c], open[c], shouldTerminate[c], frame[c], count[c], Replies(c))
  BY DEF AnswerInv, AnswersOf
<1>3. pc[c] \in Fresh
  BY <1>1 DEF Fresh
<1>4. /\ open[c] /\ Unanswered(Replies(c), count[c]) /\ frame[c] # None
      /\ Phase(c) = "busy"
      /\ Replies(c) \in Seq(ReplyFrames) /\ count[c] \in Nat
      /\ \A i \in DOMAIN Replies(c) : Replies(c)[i].n <= count[c]
  BY <1>2, <1>3, PhaseFacts, SessionMapping DEF AnswersFit
<1>5. /\ frame[c].command \in {"SUBSCRIBE", "UNSUBSCRIBE", "DISCONNECT"}
      /\ last => shouldTerminate[c]
  BY <1>1, <1>2 DEF AnswersFit
<1> DEFINE q == Append(Replies(c), [command |-> "RECEIPT", n |-> count[c]])
<1>6. /\ \A k \in Conns : k # c => AnswersOf(k)' /\ Stays(k)
      /\ pc'[c] = l /\ Replies(c)' = q
  BY <1>1, <1>4, ReplyKeeps
<1>7. /\ q \in Seq(ReplyFrames) /\ \A i \in DOMAIN q : q[i].n <= count[c]
      /\ LastIs(q, "RECEIPT", count[c]) /\ ErrorsIn(q) = {}
  BY <1>4, OneMoreReply DEF Unanswered
<1> HIDE DEF q
<1>8. AnswersFit(l, open[c], shouldTerminate[c], frame[c], count[c], q)
  <2>1. CASE last
    <3>1. IsEnd(q, count[c], frame[c])
      BY <1>7, <2>1 DEF IsEnd, LastIs
    <3> QED
      BY <1>4, <1>5, <1>7, <2>1, <3>1 DEF AnswersFit, Fresh, Cleanup
  <2>2. CASE ~ last
    BY <1>4, <1>5, <1>7, <2>2 DEF AnswersFit, Fresh, Cleanup
  <2> QED
    BY <2>1, <2>2
<1>9. AnswerInv'
  <2>1. AnswersOf(c)'
    BY <1>1, <1>6, <1>8 DEF AnswersOf
  <2> QED
    BY <1>6, <2>1 DEF AnswerInv
<1>10. Phase(c)' = IF last THEN "ending" ELSE "idle"
  <2>1. PhaseIs(l, q, count[c], frame[c]) = IF last THEN "ending" ELSE "idle"
    BY <1>5, <1>7 DEF PhaseIs, IsEnd, LastIs
  <2> QED
    BY <1>1, <1>6, <2>1, SessionMapping
<1>11. [S!Next]_(S!sessions)
  <2>1. Replies(c)' = Append(Replies(c), [command |-> "RECEIPT", n |-> count[c]])
    BY <1>6 DEF q
  <2> QED
    BY <1>1, <1>4, <1>5, <1>6, <1>10, <2>1, AnswerAbstract
<1> QED
  BY <1>9, <1>11 DEF Implemented

\* Both copies of an ERROR.
LEMMA SendErrorStep ==
  ASSUME TypeInv, AnswerInv, NEW c \in Conns, SendErrorTwice(c) \/ SendError(c)
  PROVE  Implemented
<1> DEFINE l == IF pc[c] = "sendErrorTwice" THEN "sendError" ELSE "close"
<1>1. /\ pc[c] \in {"sendErrorTwice", "sendError"} /\ Goto(c, l)
      /\ Send(c, [command |-> "ERROR", n |-> count[c]])
      /\ UNCHANGED <<frame, count, open, shouldTerminate>>
  BY DEF SendErrorTwice, SendError, At, Error, request, locals
<1>2. AnswersFit(pc[c], open[c], shouldTerminate[c], frame[c], count[c], Replies(c))
  BY DEF AnswerInv, AnswersOf
<1>3. "sendErrorTwice" \in Fresh
  BY DEF Fresh
<1>4. /\ open[c] /\ frame[c] # None
      /\ frame[c].command # "DISCONNECT"
      /\ Replies(c) \in Seq(ReplyFrames) /\ count[c] \in Nat
      /\ \A i \in DOMAIN Replies(c) : Replies(c)[i].n <= count[c]
  BY <1>1, <1>2, <1>3, PhaseFacts DEF AnswersFit, Twice
<1>5. /\ pc[c] = "sendErrorTwice" => /\ frame[c].command \in Twice
                                     /\ Unanswered(Replies(c), count[c])
      /\ \/ Unanswered(Replies(c), count[c])
         \/ frame[c].command \in Twice /\ OneError(Replies(c), count[c])
  BY <1>1, <1>2, <1>3 DEF AnswersFit
<1>6. Phase(c) = IF Unanswered(Replies(c), count[c]) THEN "busy" ELSE "ending"
  BY <1>1, <1>2, <1>3, <1>5, PhaseFacts, SessionMapping
<1> DEFINE q == Append(Replies(c), [command |-> "ERROR", n |-> count[c]])
<1>7. /\ \A k \in Conns : k # c => AnswersOf(k)' /\ Stays(k)
      /\ pc'[c] = l /\ Replies(c)' = q
  BY <1>1, <1>4, ReplyKeeps
<1>8. /\ q \in Seq(ReplyFrames) /\ \A i \in DOMAIN q : q[i].n <= count[c]
      /\ LastIs(q, "ERROR", count[c])
      /\ Unanswered(Replies(c), count[c]) => OneError(q, count[c])
  BY <1>4, OneMoreReply DEF Unanswered
<1> HIDE DEF q
<1>9. AnswersFit(l, open[c], shouldTerminate[c], frame[c], count[c], q)
  BY <1>1, <1>4, <1>5, <1>8 DEF AnswersFit, Fresh, Cleanup
<1>10. AnswerInv'
  <2>1. AnswersOf(c)'
    BY <1>1, <1>7, <1>9 DEF AnswersOf
  <2> QED
    BY <1>7, <2>1 DEF AnswerInv
<1>11. Phase(c)' = "ending"
  <2>1. PhaseIs(l, q, count[c], frame[c]) = "ending"
    BY <1>8 DEF PhaseIs, IsEnd, LastIs
  <2> QED
    BY <1>1, <1>7, <2>1, SessionMapping
<1>12. [S!Next]_(S!sessions)
  <2>1. Replies(c)' = Append(Replies(c), [command |-> "ERROR", n |-> count[c]])
    BY <1>7 DEF q
  <2>2. CASE Unanswered(Replies(c), count[c])
    BY <1>1, <1>4, <1>6, <1>7, <1>11, <2>1, <2>2, AnswerAbstract
  <2>3. CASE ~ Unanswered(Replies(c), count[c])
    <3>1. /\ frame[c].command \in Twice
          /\ \E i \in DOMAIN Replies(c) : ErrorsIn(Replies(c)) = {i}
      BY <1>5, <2>3 DEF OneError
    <3> QED
      BY <1>1, <1>4, <1>6, <1>7, <1>11, <2>1, <2>3, <3>1, AnswerAbstract
  <2> QED
    BY <2>2, <2>3
<1> QED
  BY <1>10, <1>12 DEF Implemented

\* A SEND that succeeds is not answered.
LEMMA BroadcastDoneStep ==
  ASSUME TypeInv, AnswerInv, NEW c \in Conns, BroadcastDone(c)
  PROVE  Implemented
<1>1. /\ pc[c] = "broadcast" /\ Goto(c, "read")
      /\ UNCHANGED <<frame, count, open, out, shouldTerminate>>
  BY DEF BroadcastDone, At, request, locals, sockets
<1>2. AnswersFit(pc[c], open[c], shouldTerminate[c], frame[c], count[c], Replies(c))
  BY DEF AnswerInv, AnswersOf
<1>3. pc[c] \in Fresh
  BY <1>1 DEF Fresh
<1>4. Unanswered(Replies(c), count[c]) /\ frame[c] # None /\ Phase(c) = "busy"
  BY <1>2, <1>3, PhaseFacts, SessionMapping DEF AnswersFit
<1>5. frame[c].command = "SEND"
  BY <1>1 DEF TypeInv, FrameFits, Fits, SendFrames
<1>6. \A k \in Conns : Replies(k)' = Replies(k)
  BY <1>1, SessionMapping
<1>7. /\ \A k \in Conns : k # c => AnswersOf(k)' /\ Stays(k)
      /\ pc'[c] = "read"
  BY <1>1, <1>6, OthersStay
<1>8. AnswersFit("read", open[c], shouldTerminate[c], frame[c], count[c], Replies(c))
  BY <1>2, <1>4, <1>5 DEF AnswersFit, Fresh, Cleanup, Unanswered
<1>9. AnswersOf(c)'
  BY <1>1, <1>6, <1>7, <1>8 DEF AnswersOf
<1>10. Phase(c)' = "idle"
  <2>1. /\ Len(Replies(c)) \in Nat /\ DOMAIN Replies(c) = 1 .. Len(Replies(c))
        /\ Replies(c) # << >> => Len(Replies(c)) \in DOMAIN Replies(c)
    BY <1>2 DEF AnswersFit
  <2>2. ~ IsEnd(Replies(c), count[c], frame[c])
    BY <1>4, <1>5, <2>1 DEF IsEnd, Unanswered, ErrorsIn
  <2>3. PhaseIs("read", Replies(c), count[c], frame[c]) = "idle"
    BY <2>2 DEF PhaseIs
  <2> QED
    BY <1>1, <1>6, <1>7, <2>3, SessionMapping
<1>11. AnswerInv'
  BY <1>7, <1>9 DEF AnswerInv
<1> QED
  BY <1>1, <1>4, <1>5, <1>6, <1>7, <1>10, <1>11, PublishAbstract DEF Implemented

\* A report is no answer, to whomever it goes.
LEMMA BroadcastStep ==
  ASSUME TypeInv, AnswerInv, NEW c \in Conns, Broadcast(c)
  PROVE  Implemented
<1>1. PICK k \in iter[c].left : Send(k, Message(frame[c].destination, c, messageID[c] - 1))
  BY DEF Broadcast
<1>2. /\ pc[c] = "broadcast" /\ frame[c] \in SendFrames
      /\ UNCHANGED <<pc, frame, count, open, shouldTerminate>>
  BY DEF Broadcast, At, TypeInv, FrameFits, Fits, request, locals
<1>3. k \in Conns
  <2>1. iter[c] \in Iterators
    BY DEF TypeInv, TypeOK, SocketsOK
  <2> QED
    BY <2>1 DEF Iterators
<1>4. Message(frame[c].destination, c, messageID[c] - 1) \in MessageFrames
  BY <1>2 DEF Message, MessageFrames, SendFrames, TypeInv, TypeOK, LocalsOK, CountersFit
<1>5. \A j \in Conns : Replies(j)' = Replies(j)
  BY <1>1, <1>3, <1>4, SendReplies
<1>6. AnswerInv'
  BY <1>2, <1>5 DEF AnswerInv, AnswersOf
<1>7. \A j \in Conns : Stays(j)
  BY <1>2, <1>5, SessionMapping DEF Stays
<1> QED
  BY <1>2, <1>6, <1>7, StayAbstract DEF Implemented

-----------------------------------------------------------------------------
(***************************************************************************)
(* Every step of the server is one of these.                               *)
(***************************************************************************)
LEMMA ConnectImplements ==
  ASSUME TypeInv, AnswerInv, NEW c \in Conns, Connect(c)
  PROVE  Implemented
<1>1. CASE SendConnected(c)
  BY <1>1, SendConnectedStep
<1>2. CASE UserConnectedAlready(c) \/ HasRegistered(c) \/ CheckPasscode(c)
             \/ RegisterUser(c) \/ LogIn(c)
  <2>1. pc[c] \in {"userConnectedAlready", "hasRegistered", "checkPasscode", "addUser", "logIn"}
    BY <1>2 DEF UserConnectedAlready, HasRegistered, CheckPasscode, RegisterUser, LogIn, At
  <2>2. pc[c] \in Fresh
    BY <2>1 DEF Fresh
  <2>3. frame[c].command = "CONNECT"
    BY <2>1 DEF TypeInv, FrameFits, Fits, ConnectFrames
  <2>4. UNCHANGED <<frame, count, open, out, shouldTerminate>>
    BY <1>2
    DEF UserConnectedAlready, HasRegistered, CheckPasscode, RegisterUser, LogIn, sockets,
        request, locals
  <2>5. \E l \in {"sendError", "hasRegistered", "checkPasscode", "addUser", "logIn",
                  "sendErrorTwice", "sendConnected"} : Goto(c, l)
    BY <1>2 DEF UserConnectedAlready, HasRegistered, CheckPasscode, RegisterUser, LogIn
  <2>6. PICK l \in {"sendError", "hasRegistered", "checkPasscode", "addUser", "logIn",
                    "sendErrorTwice", "sendConnected"} : Goto(c, l)
    BY <2>5
  <2>7. l \in Fresh \cup {"sendError"} /\ l # "sendReceipt"
    BY DEF Fresh
  <2> QED
    BY <2>2, <2>3, <2>4, <2>6, <2>7, FreshStep DEF Twice
<1> QED
  BY <1>1, <1>2 DEF Connect

LEMMA ToStringChannelsImplements ==
  ASSUME TypeInv, AnswerInv, NEW c \in Conns, ToStringChannels(c)
  PROVE  Implemented
<1>1. CASE WalkFails(c)
  <2>1. pc[c] # "dead" /\ Die(c) /\ UNCHANGED <<frame, count, out, shouldTerminate>>
    BY <1>1 DEF WalkFails, At, request, locals
  <2> QED
    BY <2>1, DieStep
<1>2. CASE WalkChannels(c) \/ WalkDone(c)
  <2>1. /\ pc[c] \in {"walkChannels", "walked"}
        /\ UNCHANGED <<frame, count, open, out, shouldTerminate>>
    BY <1>2 DEF WalkChannels, WalkDone, At, sockets, request, locals
  <2>2. pc[c] \in Fresh
    BY <2>1 DEF Fresh
  <2>3. frame[c].command \in {"SUBSCRIBE", "UNSUBSCRIBE"}
    BY <2>1 DEF TypeInv, FrameFits, Fits, SubscribeFrames, UnsubscribeFrames
  <2>4. \E l \in {"walked", "findChannel", "sendReceipt"} : Goto(c, l)
    BY <1>2 DEF WalkChannels, WalkDone
  <2>5. PICK l \in {"walked", "findChannel", "sendReceipt"} : Goto(c, l)
    BY <2>4
  <2>6. l \in Fresh \cup {"sendError"} /\ l # "sendErrorTwice" /\ l # "sendError"
    BY DEF Fresh
  <2> QED
    BY <2>1, <2>2, <2>3, <2>5, <2>6, FreshStep
<1> QED
  BY <1>1, <1>2 DEF ToStringChannels

LEMMA SubscribeImplements ==
  ASSUME TypeInv, AnswerInv, NEW c \in Conns, Subscribe(c)
  PROVE  Implemented
<1>1. /\ pc[c] \in {"findChannel", "findSubscriber", "putSubscription", "createChannel"}
      /\ UNCHANGED <<frame, count, open, out, shouldTerminate>>
  BY DEF Subscribe, FindChannel, FindSubscriber, PutSubscription, CreateChannel, At, sockets,
         request, locals
<1>2. pc[c] \in Fresh
  BY <1>1 DEF Fresh
<1>3. frame[c].command = "SUBSCRIBE"
  BY <1>1 DEF TypeInv, FrameFits, Fits, SubscribeFrames
<1>4. \E l \in {"findSubscriber", "createChannel", "sendError", "putSubscription",
                "sendReceipt"} : Goto(c, l)
  BY DEF Subscribe, FindChannel, FindSubscriber, PutSubscription, CreateChannel
<1>5. PICK l \in {"findSubscriber", "createChannel", "sendError", "putSubscription",
                  "sendReceipt"} : Goto(c, l)
  BY <1>4
<1>6. l \in Fresh \cup {"sendError"} /\ l # "sendErrorTwice"
  BY DEF Fresh
<1> QED
  BY <1>1, <1>2, <1>3, <1>5, <1>6, FreshStep

LEMMA RemoveSubscriptionImplements ==
  ASSUME TypeInv, AnswerInv, NEW c \in Conns, RemoveSubscription(c)
  PROVE  Implemented
<1>1. /\ pc[c] = "removeSubscription"
      /\ UNCHANGED <<frame, count, open, out, shouldTerminate>>
  BY DEF RemoveSubscription, At, sockets, request, locals
<1>2. pc[c] \in Fresh
  BY <1>1 DEF Fresh
<1>3. frame[c].command = "UNSUBSCRIBE"
  BY <1>1 DEF TypeInv, FrameFits, Fits, UnsubscribeFrames
<1>4. PICK l \in {"walkChannels", "sendError"} : Goto(c, l)
  BY DEF RemoveSubscription
<1>5. l \in Fresh \cup {"sendError"} /\ l # "sendErrorTwice" /\ l # "sendReceipt"
  BY DEF Fresh
<1> QED
  BY <1>1, <1>2, <1>3, <1>4, <1>5, FreshStep

LEMMA SendReportImplements ==
  ASSUME TypeInv, AnswerInv, NEW c \in Conns, SendReport(c)
  PROVE  Implemented
<1>1. ASSUME FindSubscription(c) \/ GetSubscription(c) \/ OpenBroadcast(c), ~ Die(c)
      PROVE  Implemented
  <2>1. /\ pc[c] \in {"findSubscription", "getSubscription", "openBroadcast"}
        /\ UNCHANGED <<frame, count, open, out, shouldTerminate>>
    BY <1>1 DEF FindSubscription, GetSubscription, OpenBroadcast, At, sockets, request, locals
  <2>2. pc[c] \in Fresh
    BY <2>1 DEF Fresh
  <2>3. frame[c].command = "SEND"
    BY <2>1 DEF TypeInv, FrameFits, Fits, SendFrames
  <2>4. PICK l \in {"getSubscription", "sendErrorTwice", "openBroadcast", "broadcast"} :
          Goto(c, l)
    BY <1>1 DEF FindSubscription, GetSubscription, OpenBroadcast
  <2>5. l \in Fresh \cup {"sendError"} /\ l # "sendError" /\ l # "sendReceipt"
    BY DEF Fresh
  <2> QED
    BY <2>1, <2>2, <2>3, <2>4, <2>5, FreshStep DEF Twice
<1>2. ASSUME FindSubscription(c) \/ GetSubscription(c) \/ OpenBroadcast(c) \/ BroadcastFails(c),
             Die(c)
      PROVE  Implemented
  <2>1. pc[c] # "dead" /\ UNCHANGED <<frame, count, shouldTerminate>>
    BY <1>2
    DEF FindSubscription, GetSubscription, OpenBroadcast, BroadcastFails, At, request, locals
  <2>2. UNCHANGED out
    BY <1>2 DEF FindSubscription, GetSubscription, OpenBroadcast, BroadcastFails, sockets
  <2> QED
    BY <1>2, <2>1, <2>2, DieStep
<1>3. BroadcastFails(c) => Die(c)
  BY DEF BroadcastFails
<1> QED
  BY <1>1, <1>2, <1>3, BroadcastStep, BroadcastDoneStep DEF SendReport

\* A sweep that throws ends the thread, or is swallowed by an error branch.
LEMMA SweepImplements ==
  ASSUME TypeInv, AnswerInv, NEW c \in Conns, pc[c] = "sweep",
         UNCHANGED <<frame, count, out, shouldTerminate>>,
         SweepThrows(c) \/ UNCHANGED <<pc, open>>
  PROVE  Implemented
<1>1. pc[c] \in Cleanup \cup {"close"} /\ pc[c] # "close" /\ pc[c] # "dead"
  BY DEF Cleanup
<1>2. CASE UNCHANGED <<pc, open>>
  <2>1. Goto(c, "sweep")
    BY <1>2 DEF Goto, TypeInv, TypeOK, RequestsOK
  <2>2. "sweep" \in Cleanup \cup {"read"}
    BY DEF Cleanup
  <2> QED
    BY <1>1, <1>2, <2>1, <2>2, CleanupStep
<1>3. CASE SweepThrows(c) /\ frame[c].command = "DISCONNECT"
  BY <1>1, <1>3, DieStep DEF SweepThrows
<1>4. CASE SweepThrows(c) /\ frame[c].command # "DISCONNECT"
  BY <1>1, <1>4, CleanupStep DEF SweepThrows
<1> QED
  BY <1>2, <1>3, <1>4

LEMMA EndSessionImplements ==
  ASSUME TypeInv, AnswerInv, NEW c \in Conns, EndSession(c)
  PROVE  Implemented
<1>1. CASE CloseSocket(c)
  <2>1. /\ pc[c] = "close" /\ Goto(c, "findLogin") /\ open' = [open EXCEPT ![c] = FALSE]
        /\ UNCHANGED <<frame, count, out, shouldTerminate>>
    BY <1>1 DEF CloseSocket, At, request, locals
  <2>2. "findLogin" \in Cleanup
    BY DEF Cleanup
  <2> QED
    BY <2>1, <2>2, CleanupStep
<1>2. CASE FindLogin(c) \/ DropLogin(c)
  <2>1. /\ pc[c] \in {"findLogin", "dropLogin"}
        /\ UNCHANGED <<frame, count, open, out, shouldTerminate>>
    BY <1>2 DEF FindLogin, DropLogin, At, sockets, request
  <2>2. PICK l \in {"dropLogin", "sweep"} : Goto(c, l)
    BY <1>2 DEF FindLogin, DropLogin
  <2>3. l \in Cleanup /\ pc[c] \in Cleanup /\ pc[c] # "close"
    BY <2>1 DEF Cleanup
  <2> QED
    BY <2>1, <2>2, <2>3, CleanupStep
<1>3. CASE SweepChannel(c) \/ SweepSubscriber(c) \/ SweepFails(c)
  <2>1. /\ pc[c] = "sweep" /\ UNCHANGED <<frame, count, out, shouldTerminate>>
        /\ SweepThrows(c) \/ UNCHANGED <<pc, open>>
    BY <1>3 DEF SweepChannel, SweepSubscriber, SweepFails, At, sockets, request
  <2> QED
    BY <2>1, SweepImplements
<1>4. CASE SweepDone(c)
  <2>1. /\ pc[c] = "sweep" /\ UNCHANGED <<frame, count, open, out, shouldTerminate>>
    BY <1>4 DEF SweepDone, At, sockets, request, locals
  <2>2. PICK l \in {"read", "removeConnection"} : Goto(c, l)
    BY <1>4 DEF SweepDone
  <2>3. l \in Cleanup \cup {"read"} /\ pc[c] \in Cleanup /\ pc[c] # "close"
    BY <2>1 DEF Cleanup
  <2> QED
    BY <2>1, <2>2, <2>3, CleanupStep
<1>5. CASE Unregister(c)
  <2>1. /\ pc[c] = "removeConnection" /\ UNCHANGED <<frame, count, open, out>>
        /\ shouldTerminate' = [shouldTerminate EXCEPT ![c] = TRUE] /\ Goto(c, "read")
    BY <1>5 DEF Unregister, At, sockets, request
  <2>2. pc[c] \in Cleanup /\ pc[c] # "close"
    BY <2>1 DEF Cleanup
  <2> QED
    BY <2>1, <2>2, CleanupStep
<1> QED
  BY <1>1, <1>2, <1>3, <1>4, <1>5 DEF EndSession

LEMMA ProcessImplements ==
  ASSUME TypeInv, AnswerInv, NEW c \in Conns, ProcessStep(c)
  PROVE  Implemented
  BY ConnectImplements, ToStringChannelsImplements, SubscribeImplements,
     RemoveSubscriptionImplements, SendReportImplements, SendReceiptStep, SendErrorStep,
     EndSessionImplements
  DEF ProcessStep, Process, Reply

-----------------------------------------------------------------------------
(***************************************************************************)
(* The accept loop and the reading loop.                                   *)
(***************************************************************************)
LEMMA AcceptImplements ==
  ASSUME TypeInv, FreshInv, AnswerInv, Accept
  PROVE  Implemented
<1>0. connectionID \in Conns /\ acceptor = "accept"
  BY ConnectionsAssumption DEF TypeInv, TypeOK, Accept, Conns
<1>1. PICK c \in Conns : c = connectionID
  BY <1>0
<1>2. /\ Goto(c, "read") /\ open' = [open EXCEPT ![c] = TRUE]
      /\ UNCHANGED <<frame, count, out, shouldTerminate>>
      /\ open \in [Conns -> BOOLEAN]
  BY <1>1 DEF Accept, request, locals, TypeInv, TypeOK, SocketsOK
<1>3. pc[c] = "new"
  BY <1>0, <1>1 DEF FreshInv
<1>4. AnswersFit("new", open[c], shouldTerminate[c], frame[c], count[c], Replies(c))
  BY <1>3 DEF AnswerInv, AnswersOf
<1>5. \A k \in Conns : Replies(k)' = Replies(k)
  BY <1>2, SessionMapping
<1>6. /\ \A k \in Conns : k # c => AnswersOf(k)' /\ Stays(k)
      /\ pc'[c] = "read"
  BY <1>2, <1>5, OthersStay
<1>7. frame[c] = None /\ Replies(c) = << >>
  BY <1>4 DEF AnswersFit
<1>8. AnswersOf(c)'
  <2>1. ErrorsIn(<< >>) = {}
    BY DEF ErrorsIn
  <2>2. AnswersFit("read", open'[c], shouldTerminate[c], frame[c], count[c], Replies(c))
    BY <1>4, <1>7, <2>1 DEF AnswersFit, Fresh, Cleanup
  <2> QED
    BY <1>2, <1>5, <1>6, <2>2 DEF AnswersOf
<1>9. Stays(c)
  <2>1. Phase(c) = "idle"
    BY <1>3, <1>7, SessionMapping DEF PhaseIs, IsEnd
  <2>2. Phase(c)' = "idle"
    BY <1>2, <1>5, <1>6, <1>7, SessionMapping DEF PhaseIs, IsEnd
  <2> QED
    BY <1>5, <2>1, <2>2 DEF Stays
<1>10. AnswerInv'
  BY <1>6, <1>8 DEF AnswerInv
<1> QED
  BY <1>2, <1>6, <1>9, <1>10, StayAbstract DEF Implemented

LEMMA ReceiveImplements ==
  ASSUME TypeInv, AnswerInv, NEW c \in Conns, Receive(c)
  PROVE  Implemented
<1>1. PICK f \in Frames : Dispatch(c, f)
  BY DEF Receive
<1> DEFINE l == CASE f.command = "CONNECT"     -> "userConnectedAlready"
                  [] f.command = "DISCONNECT"  -> "sendReceipt"
                  [] f.command = "UNSUBSCRIBE" -> "removeSubscription"
                  [] f.command = "SUBSCRIBE"   -> "walkChannels"
                  [] f.command = "SEND"        -> "findSubscription"
<1>2. /\ frame' = [frame EXCEPT ![c] = f] /\ count' = [count EXCEPT ![c] = @ + 1]
      /\ shouldTerminate' = [shouldTerminate EXCEPT ![c] = (f.command = "DISCONNECT")]
      /\ Goto(c, l) /\ UNCHANGED <<open, out>>
      /\ pc[c] = "read" /\ ~ shouldTerminate[c] /\ open[c]
  BY <1>1 DEF Dispatch, Goto, Receive, Reading, At, sockets
<1>3. /\ f.command \in {"CONNECT", "SUBSCRIBE", "UNSUBSCRIBE", "SEND", "DISCONNECT"}
      /\ f # None
  BY FrameKinds, FramesAssumption
<1>4. l \in Fresh /\ l # "sendErrorTwice" /\ (l = "sendReceipt" => f.command = "DISCONNECT")
  BY <1>3 DEF Fresh
<1> HIDE DEF l
<1>5. /\ frame \in [Conns -> Frames \cup {None}] /\ count \in [Conns -> 0 .. MaxFrames]
      /\ shouldTerminate \in [Conns -> BOOLEAN]
  BY DEF TypeInv, TypeOK, RequestsOK, LocalsOK
<1>6. /\ frame'[c] = f /\ count'[c] = count[c] + 1
      /\ shouldTerminate'[c] = (f.command = "DISCONNECT") /\ open'[c] = open[c]
  BY <1>2, <1>5
<1>7. AnswersFit("read", open[c], shouldTerminate[c], frame[c], count[c], Replies(c))
  BY <1>2 DEF AnswerInv, AnswersOf
<1>8. \A k \in Conns : Replies(k)' = Replies(k)
  BY <1>2, SessionMapping
<1>9. /\ \A k \in Conns : k # c => AnswersOf(k)' /\ Stays(k)
      /\ pc'[c] = l
  BY <1>2, <1>5, <1>8, OthersStay
<1>10. Unanswered(Replies(c), count[c] + 1)
  <2>1. ASSUME NEW i \in DOMAIN Replies(c) PROVE Replies(c)[i].n < count[c] + 1
    <3>1. Replies(c)[i] \in ReplyFrames
      BY <1>7 DEF AnswersFit
    <3>2. Replies(c)[i].n \in Nat
      BY <3>1 DEF ReplyFrames
    <3> QED
      BY <1>7, <3>2 DEF AnswersFit
  <2>2. ErrorsIn(Replies(c)) = {}
    BY <1>2, <1>7 DEF AnswersFit, ErrorsIn
  <2> QED
    BY <2>1, <2>2 DEF Unanswered
<1>11. AnswersFit(l, open[c], f.command = "DISCONNECT", f, count[c] + 1, Replies(c))
  <2>1. l \notin Cleanup \cup {"new", "read", "dead", "close", "sendError"}
    BY <1>4 DEF Fresh, Cleanup
  <2>2. /\ Replies(c) \in Seq(ReplyFrames) /\ count[c] + 1 \in Nat
        /\ \A i \in DOMAIN Replies(c) : Replies(c)[i].n <= count[c] + 1
    <3>1. Replies(c) \in Seq(ReplyFrames) /\ count[c] \in Nat
      BY <1>7 DEF AnswersFit
    <3>2. ASSUME NEW i \in DOMAIN Replies(c) PROVE Replies(c)[i].n <= count[c] + 1
      <4>1. Replies(c)[i] \in ReplyFrames
        BY <3>1
      <4>2. Replies(c)[i].n \in Nat /\ Replies(c)[i].n < count[c] + 1
        BY <1>10, <4>1 DEF ReplyFrames, Unanswered
      <4> QED
        BY <3>1, <4>2
    <3> QED
      BY <3>1, <3>2
  <2> QED
    BY <1>2, <1>3, <1>4, <1>10, <2>1, <2>2 DEF AnswersFit
<1>12. AnswersOf(c)'
  BY <1>6, <1>8, <1>9, <1>11 DEF AnswersOf
<1>13. Phase(c) = "idle"
  <2>1. /\ open[c] = TRUE /\ shouldTerminate[c] = FALSE /\ pc[c] = "read"
    BY <1>2, <1>5 DEF TypeInv, TypeOK, SocketsOK
  <2>2. AnswersFit("read", TRUE, FALSE, frame[c], count[c], Replies(c))
    BY <1>7, <2>1
  <2>3. PhaseIs("read", Replies(c), count[c], frame[c]) = "idle"
    BY <2>2, PhaseFacts
  <2> QED
    BY <2>1, <2>3, SessionMapping
<1>14. Phase(c)' = "busy"
  <2>1. PhaseIs(l, Replies(c), count[c] + 1, f) = "busy"
    BY <1>4, <1>11, PhaseFacts
  <2> QED
    BY <1>6, <1>8, <1>9, <2>1, SessionMapping
<1>15. AnswerInv'
  BY <1>9, <1>12 DEF AnswerInv
<1>16. f.command \in S!Commands
  BY <1>3 DEF S!Commands
<1> QED
  BY <1>2, <1>3, <1>5, <1>8, <1>9, <1>13, <1>14, <1>15, <1>16, TakeAbstract DEF Implemented

LEMMA EndImplements ==
  ASSUME TypeInv, AnswerInv, NEW c \in Conns, Exit(c) \/ Abort(c)
  PROVE  Implemented
<1>1. pc[c] # "dead" /\ Die(c) /\ UNCHANGED <<frame, count, out, shouldTerminate>>
  BY DEF Exit, Abort, Reading, At, request, locals
<1> QED
  BY <1>1, DieStep

\* Steps that no connection notices.
LEMMA UnnoticedImplements ==
  ASSUME AnswerInv, UNCHANGED <<pc, frame, count, open, out, shouldTerminate>>
  PROVE  Implemented
<1>1. \A k \in Conns : Replies(k)' = Replies(k)
  BY SessionMapping
<1>2. \A k \in Conns : Stays(k)
  BY <1>1, SessionMapping DEF Stays
<1>3. AnswerInv'
  BY <1>1 DEF AnswerInv, AnswersOf
<1> QED
  BY <1>2, <1>3, StayAbstract DEF Implemented

LEMMA NextImplements == TypeInv /\ FreshInv /\ AnswerInv /\ [Next]_vars => Implemented
<1> SUFFICES ASSUME TypeInv, FreshInv, AnswerInv, [Next]_vars PROVE Implemented
  OBVIOUS
<1>1. CASE Increment \/ UNCHANGED vars
  <2>1. UNCHANGED <<pc, frame, count, open, out, shouldTerminate>>
    BY <1>1 DEF Increment, vars, sockets, request, locals
  <2> QED
    BY <2>1, UnnoticedImplements
<1>2. CASE Accept
  BY <1>2, AcceptImplements
<1>3. CASE \E c \in Conns : Receive(c) \/ Exit(c) \/ Abort(c) \/ ProcessStep(c)
  BY <1>3, ReceiveImplements, EndImplements, ProcessImplements
<1> QED
  BY <1>1, <1>2, <1>3 DEF Next, Quiescent

LEMMA InitAnswers == Init => AnswerInv /\ S!Init
<1> SUFFICES ASSUME Init PROVE AnswerInv /\ S!Init
  OBVIOUS
<1> USE DEF Init, ConnectionsInit, ProtocolInit
<1>1. \A c \in Conns : Replies(c) = << >>
  BY RepliesEmpty, SessionMapping
<1>2. AnswerInv
  <2>1. << >> \in Seq(ReplyFrames) /\ DOMAIN << >> = {}
    OBVIOUS
  <2> QED
    BY <1>1, <2>1 DEF AnswerInv, AnswersOf, AnswersFit, Fresh, Cleanup
<1>3. \A c \in Conns : Phase(c) = "idle"
  BY <1>1, SessionMapping DEF PhaseIs, IsEnd
<1>4. S!Init
  BY <1>1, <1>3 DEF S!Init
<1> QED
  BY <1>2, <1>4

\* The server implements Sessions: for any number of connections and frames,
\* requests are answered one at a time and in order, a SEND that succeeds is
\* not answered, and nothing but broadcasts follows an ERROR or the receipt of
\* a DISCONNECT (process, every branch of it).
THEOREM ServerImplementsSessions == Spec => SessionsImplemented
<1>1. Init => TypeInv /\ LogoutInv /\ AnswerInv
  BY InitType, InitLogout, InitAnswers
<1>2. TypeInv /\ LogoutInv /\ AnswerInv /\ [Next]_vars
        => TypeInv' /\ LogoutInv' /\ AnswerInv' /\ [S!Next]_(S!sessions)
  <2> SUFFICES ASSUME TypeInv, LogoutInv, AnswerInv, [Next]_vars
               PROVE  TypeInv' /\ LogoutInv' /\ AnswerInv' /\ [S!Next]_(S!sessions)
    OBVIOUS
  <2>1. TypeInv'
    BY NextType
  <2>2. LogoutInv'
    BY AcceptLogout, IncrementLogout, ReceiveLogout, EndLogout, ProcessLogout, StutterLogout
    DEF Next, Quiescent
  <2>3. Implemented
    BY NextImplements DEF LogoutInv
  <2> QED
    BY <2>1, <2>2, <2>3 DEF Implemented
<1> QED
  BY <1>1, <1>2, InitAnswers, PTL DEF Spec, SessionsImplemented, S!Spec
=============================================================================
