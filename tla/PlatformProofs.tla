--------------------------- MODULE PlatformProofs ---------------------------
(***************************************************************************)
(* Theorems about the platform, for every number of connections, frames    *)
(* and lines, every set of users, passcodes, channels and report files.    *)
(*                                                                         *)
(* First the platform implements the server (ServerImplemented): the       *)
(* client sends only frames a client of TpcServer may send.  So what is    *)
(* proved of the server alone, its types among it, holds of the platform,  *)
(* and the types of the client and the order of its frames (LogoutIsLast)  *)
(* are proved with them.                                                   *)
(***************************************************************************)
EXTENDS Platform, TpcServerProofs

Keyboards == {"loop", "getline", "command", "produceReceipt", "send",
              "produceReceiptAgain", "report", "summary", "end"}

\* What the label of the keyboard thread says of the line it works on.
KeyboardFits ==
  /\ keyboard # "end" => main = "session"
  /\ keyboard = "produceReceipt" => line.verb \in {"join", "exit", "logout"}
  /\ keyboard = "produceReceiptAgain" => line.verb = "exit"
  /\ keyboard = "report" => line.verb = "report"
  /\ keyboard = "send" => line.verb \in {"join", "exit", "report", "logout"}
  /\ keyboard = "send" /\ line.verb = "report" => unsent # << >>
  /\ keyboard = "send" /\ line.verb # "report" => receipts # << >>
  /\ keyboard \in {"report", "send"} /\ line.verb = "report" => line.file.channel \in Channels
  /\ keyboard \in {"produceReceiptAgain", "send"} /\ line.verb = "exit"
       => subscriptions[line.channel] # None
  /\ keyboard \in {"command", "produceReceipt", "send"} /\ line.verb = "join"
       => subscriptionId < typed

\* The types of what the frames are made of.
ClientTypes ==
  /\ main \in {"getline", "login", "session", "terminated"}
  /\ keyboard \in Keyboards
  /\ line \in Client!CommandLines
  /\ unsent \in Seq(Client!EventKinds)
  /\ receipts \in Seq({"SUBSCRIBE", "UNSUBSCRIBE", "DISCONNECT"})
  /\ subscriptions \in [Channels -> (0 .. MaxLines) \cup {None}]
  /\ subscriptionId \in Nat /\ subscriptionId <= typed
  /\ typed \in Nat /\ typed <= MaxLines
  /\ conn \in Conns \cup {None}
  /\ main \in {"login", "session"} => conn \in Conns
  /\ main = "login" => line.verb = "login"

SentTypes == sent \in [Conns -> Seq(Sends)]

\* The inductive invariant behind ServerImplemented.
ClientInv == ClientTypes /\ KeyboardFits /\ SentTypes

-----------------------------------------------------------------------------
\* The fields of a line, by its verb.
LEMMA LineKinds ==
  ASSUME NEW l \in Client!CommandLines
  PROVE  /\ l.verb = "login" => l.login \in Users /\ l.passcode \in Passcodes
         /\ l.verb \in {"join", "exit", "summary"} => l.channel \in Channels
         /\ l.verb = "report" => l.file \in Files
  BY DEF Client!CommandLines

LEMMA FileKinds ==
  ASSUME NEW f \in Files
  PROVE  f.channel \in Channels \cup {None} /\ f.events \in Seq(Client!EventKinds)
  BY InputAssumption

LEMMA OutputFits ==
  ASSUME ClientInv, main = "login" \/ keyboard = "send"
  PROVE  Client!Output \in Frames
<1>1. /\ main = "login" => line.verb = "login"
      /\ keyboard = "send" => line.verb \in {"join", "exit", "report", "logout"}
  BY DEF ClientInv, ClientTypes, KeyboardFits
<1>2. CASE line.verb = "login"
  <2>1. Client!Output \in ConnectFrames
    BY <1>2, LineKinds DEF Client!Output, ClientInv, ClientTypes, ConnectFrames
  <2> QED
    BY <2>1, ClientFramesAssumption
<1>3. CASE line.verb = "join" /\ keyboard = "send"
  <2>1. subscriptionId \in 0 .. MaxLines
    BY <1>3, MaxLinesAssumption DEF ClientInv, ClientTypes, KeyboardFits
  <2>2. Client!Output \in SubscribeFrames
    BY <1>3, <2>1, LineKinds, ClientFramesAssumption
    DEF Client!Output, ClientInv, ClientTypes, SubscribeFrames
  <2> QED
    BY <2>2, ClientFramesAssumption
<1>4. CASE line.verb = "exit" /\ keyboard = "send"
  <2>1. subscriptions[line.channel] \in 0 .. MaxLines
    BY <1>4, LineKinds DEF ClientInv, ClientTypes, KeyboardFits
  <2>2. Client!Output \in UnsubscribeFrames
    BY <1>4, <2>1, ClientFramesAssumption DEF Client!Output, UnsubscribeFrames
  <2> QED
    BY <2>2, ClientFramesAssumption
<1>5. CASE line.verb = "report" /\ keyboard = "send"
  <2>1. Client!Output \in SendFrames
    BY <1>5 DEF Client!Output, SendFrames, ClientInv, KeyboardFits
  <2> QED
    BY <2>1, ClientFramesAssumption
<1>6. CASE line.verb = "logout" /\ keyboard = "send"
  <2>1. Client!Output \in DisconnectFrames
    BY <1>6 DEF Client!Output, DisconnectFrames
  <2> QED
    BY <2>1, ClientFramesAssumption
<1> QED
  BY <1>1, <1>2, <1>3, <1>4, <1>5, <1>6

\* What is sent has the type of a frame under way.
LEMMA TransmitType ==
  ASSUME ClientInv, main = "login" \/ keyboard = "send", Transmit
  PROVE  SentTypes'
<1>1. Client!Output \in Frames
  BY OutputFits
<1>2. Client!OutputReceipt \in Nat \cup {None}
  BY DEF Client!OutputReceipt, ClientInv, ClientTypes, KeyboardFits
<1> DEFINE event == IF line.verb = "report" THEN Head(unsent) ELSE None
<1>3. event \in Client!EventKinds \cup {None}
  BY DEF ClientInv, ClientTypes, KeyboardFits
<1> DEFINE new == [frame |-> Client!Output, receipt |-> Client!OutputReceipt, event |-> event]
<1>4. new \in Sends
  BY <1>1, <1>2, <1>3 DEF Sends
<1>5. sent' = [sent EXCEPT ![conn] = Append(@, new)]
  BY DEF Transmit
<1> HIDE DEF new
<1> SUFFICES ASSUME sent \in [Conns -> Seq(Sends)] PROVE sent' \in [Conns -> Seq(Sends)]
  BY DEF ClientInv, SentTypes
<1>6. conn \in Conns => Append(sent[conn], new) \in Seq(Sends)
  BY <1>4
<1> QED
  BY <1>5, <1>6
-----------------------------------------------------------------------------
LEMMA InitClient == PlatformInit => ClientInv
<1> SUFFICES ASSUME PlatformInit PROVE ClientInv
  OBVIOUS
<1> USE DEF PlatformInit, Client!ClientInit
<1>1. Client!NoLine \in Client!CommandLines
  BY DEF Client!NoLine, Client!CommandLines
<1>2. ClientTypes
  BY <1>1, MaxLinesAssumption DEF ClientTypes, Keyboards
<1> QED
  BY <1>2 DEF ClientInv, KeyboardFits, SentTypes

\* What the invariant speaks of; the socket thread and the server leave it
\* alone.
typing == <<main, keyboard, line, unsent, receipts, subscriptions, subscriptionId,
            typed, conn, sent>>

LEMMA QuietClient ==
  ASSUME ClientInv, UNCHANGED typing
  PROVE  ClientInv'
  BY DEF ClientInv, ClientTypes, KeyboardFits, SentTypes, typing

\* The end of a session or of the program.
LEMMA DestroyedClient ==
  ASSUME ClientInv, Client!Destroyed, main' \in {"getline", "terminated"},
         UNCHANGED <<conn, sent>>, typed' \in typed .. MaxLines
  PROVE  ClientInv'
<1>1. Client!NoLine \in Client!CommandLines
  BY DEF Client!NoLine, Client!CommandLines
<1>2. ClientTypes'
  BY <1>1 DEF ClientInv, ClientTypes, Keyboards, Client!Destroyed
<1>3. KeyboardFits'
  BY DEF KeyboardFits, Client!Destroyed
<1> QED
  BY <1>2, <1>3 DEF ClientInv, SentTypes

-----------------------------------------------------------------------------
LEMMA LoginClient ==
  ASSUME ClientInv, TypeOK, LoginTyped
  PROVE  ClientInv'
<1>1. PICK l \in Lines : Client!Login(l) /\ Typing(l)
  BY DEF LoginTyped
<1>2. l \in Client!CommandLines
  BY InputAssumption
<1>3. conn' \in Conns
  BY ConnectionsAssumption DEF LoginTyped, Accept, TypeOK, Conns
<1>4. ClientTypes'
  BY <1>1, <1>2, <1>3, MaxLinesAssumption
  DEF ClientInv, ClientTypes, Client!Login, Typing, Client!tables
<1>5. KeyboardFits'
  BY <1>1 DEF ClientInv, KeyboardFits, Client!Login
<1>6. SentTypes'
  BY DEF ClientInv, SentTypes, LoginTyped
<1> QED
  BY <1>4, <1>5, <1>6 DEF ClientInv

LEMMA ConnectClient ==
  ASSUME ClientInv, SendConnect
  PROVE  ClientInv'
<1>1. CASE socketOpen /\ Transmit /\ Client!StartSession
  <2>1. SentTypes'
    BY <1>1, TransmitType DEF SendConnect
  <2>2. ClientTypes'
    BY <1>1 DEF SendConnect, ClientInv, ClientTypes, Keyboards, Client!StartSession,
                Client!input, Client!tables, user
  <2>3. KeyboardFits'
    BY <1>1 DEF KeyboardFits, Client!StartSession
  <2> QED
    BY <2>1, <2>2, <2>3 DEF ClientInv
<1>2. CASE WriteMayFail /\ Client!LoginFails /\ UNCHANGED sent
  <2>1. typed' \in typed .. MaxLines
    BY MaxLinesAssumption DEF SendConnect, user, ClientInv, ClientTypes
  <2> QED
    BY <1>2, <2>1, DestroyedClient DEF SendConnect, Client!LoginFails
<1> QED
  BY <1>1, <1>2 DEF SendConnect

\* A line without words, or the end of the input, at the prompt; the join of
\* the two threads.
LEMMA PromptClient ==
  ASSUME ClientInv, EmptyLineTyped \/ PromptInputOver \/ MainThread
  PROVE  ClientInv'
<1>1. Client!Destroyed /\ main' \in {"getline", "terminated"} /\ UNCHANGED <<conn, sent>>
  BY DEF EmptyLineTyped, PromptInputOver, MainThread, Client!LoginLineEmpty,
         Client!ProcessEnds, Client!JoinThreads, link
<1>2. typed' \in typed .. MaxLines
  BY MaxLinesAssumption DEF EmptyLineTyped, PromptInputOver, MainThread, Typing, user,
                            ClientInv, ClientTypes
<1> QED
  BY <1>1, <1>2, DestroyedClient

LEMMA LineClient ==
  ASSUME ClientInv, LineTyped
  PROVE  ClientInv'
<1>1. PICK l \in Lines : Client!GetLine(l) /\ Typing(l)
  BY DEF LineTyped
<1>2. l \in Client!CommandLines
  BY InputAssumption
<1> USE DEF Client!GetLine, Client!Proceed, Client!tables
<1>3. ClientTypes'
  BY <1>1, <1>2, MaxLinesAssumption
  DEF LineTyped, ClientInv, ClientTypes, KeyboardFits, Keyboards, Typing, link
<1>4. KeyboardFits'
  BY <1>1 DEF ClientInv, ClientTypes, KeyboardFits, Typing
<1>5. SentTypes'
  BY DEF LineTyped, link, ClientInv, SentTypes
<1> QED
  BY <1>3, <1>4, <1>5 DEF ClientInv

-----------------------------------------------------------------------------
\* A step of the keyboard thread that takes no line and writes no frame.
QuietKeyboard == UNCHANGED <<main, line, typed, conn, sent>>

LEMMA LoopClient ==
  ASSUME ClientInv, QuietKeyboard,
         Client!KeyboardLoop \/ Client!GetLineFails \/ Client!SummaryDone
  PROVE  ClientInv'
<1>1. keyboard' \in {"loop", "getline", "end"}
  BY DEF Client!KeyboardLoop, Client!GetLineFails, Client!SummaryDone, Client!Proceed
<1>2. UNCHANGED <<unsent, receipts, subscriptions, subscriptionId>>
  BY DEF Client!KeyboardLoop, Client!GetLineFails, Client!SummaryDone, Client!input, Client!tables
<1>3. keyboard # "end"
  BY DEF Client!KeyboardLoop, Client!GetLineFails, Client!SummaryDone
<1>4. ClientTypes'
  BY <1>1, <1>2 DEF QuietKeyboard, ClientInv, ClientTypes, Keyboards
<1>5. KeyboardFits'
  BY <1>1, <1>2, <1>3 DEF QuietKeyboard, ClientInv, KeyboardFits
<1> QED
  BY <1>4, <1>5 DEF ClientInv, SentTypes, QuietKeyboard

LEMMA CommandClient ==
  ASSUME ClientInv, QuietKeyboard, Client!Command
  PROVE  ClientInv'
<1> USE DEF QuietKeyboard
<1> DEFINE begun == ~ terminateKeyboard /\ keyboard' = Client!Begin(line)
<1>1. UNCHANGED <<receipts, subscriptions, subscriptionId>> /\ keyboard = "command"
  BY DEF Client!Command, Client!tables
<1>2. keyboard' = "loop" \/ begun
  BY DEF Client!Command, Client!Proceed
<1>3. begun /\ line.verb = "report" => line.file.channel # None /\ unsent' = line.file.events
  BY DEF Client!Command
<1>4. keyboard' \in {"loop", "produceReceipt", "report", "summary"}
  BY <1>2 DEF Client!Begin
<1>5. /\ keyboard' = "produceReceipt" => line.verb \in {"join", "exit", "logout"}
      /\ keyboard' = "report" => begun /\ line.verb = "report"
  BY <1>2 DEF Client!Begin
<1>6. keyboard' = "report" => line.file.channel \in Channels
  BY <1>3, <1>5, LineKinds, FileKinds DEF ClientInv, ClientTypes
<1>7. unsent' \in Seq(Client!EventKinds)
  BY LineKinds, FileKinds DEF Client!Command, ClientInv, ClientTypes
<1> HIDE DEF begun
<1>8. ClientTypes'
  BY <1>1, <1>4, <1>7 DEF ClientInv, ClientTypes, Keyboards
<1>9. KeyboardFits'
  BY <1>1, <1>4, <1>5, <1>6 DEF ClientInv, KeyboardFits
<1> QED
  BY <1>8, <1>9 DEF ClientInv, SentTypes

LEMMA ReceiptClient ==
  ASSUME ClientInv, QuietKeyboard, Client!ProduceReceipt \/ Client!ProduceReceiptAgain
  PROVE  ClientInv'
<1> USE DEF QuietKeyboard
<1>1. UNCHANGED <<unsent, subscriptions, subscriptionId>>
  BY DEF Client!ProduceReceipt, Client!ProduceReceiptAgain, Client!input
<1>2. line.verb \in {"join", "exit", "logout"} /\ main = "session"
  BY DEF Client!ProduceReceipt, Client!ProduceReceiptAgain, ClientInv, KeyboardFits
<1>3. PICK r \in {"SUBSCRIBE", "UNSUBSCRIBE", "DISCONNECT"} : receipts' = Append(receipts, r)
  BY <1>2 DEF Client!ProduceReceipt, Client!ProduceReceiptAgain, Client!CommandOf
<1>4. receipts' \in Seq({"SUBSCRIBE", "UNSUBSCRIBE", "DISCONNECT"}) /\ receipts' # << >>
  BY <1>3 DEF ClientInv, ClientTypes
<1>5. /\ keyboard' \in {"loop", "produceReceiptAgain", "send"}
      /\ keyboard' = "produceReceiptAgain" => line.verb = "exit"
      /\ keyboard' \in {"produceReceiptAgain", "send"} /\ line.verb = "exit"
           => subscriptions[line.channel] # None
      /\ keyboard' = "send" /\ line.verb = "join" => keyboard = "produceReceipt"
  BY <1>2 DEF Client!ProduceReceipt, Client!ProduceReceiptAgain, Client!Proceed,
              Client!ToSend, Client!Joined, ClientInv, KeyboardFits
<1>6. ClientTypes'
  BY <1>1, <1>4, <1>5 DEF ClientInv, ClientTypes, Keyboards
<1>7. KeyboardFits'
  BY <1>1, <1>2, <1>4, <1>5 DEF ClientInv, KeyboardFits
<1> QED
  BY <1>6, <1>7 DEF ClientInv, SentTypes

LEMMA NextEventClient ==
  ASSUME ClientInv, QuietKeyboard, Client!NextEvent
  PROVE  ClientInv'
<1> USE DEF QuietKeyboard
<1>1. UNCHANGED <<receipts, subscriptions, subscriptionId>> /\ keyboard = "report"
  BY DEF Client!NextEvent, Client!tables
<1>2. line.verb = "report" /\ line.file.channel \in Channels /\ main = "session"
  BY <1>1 DEF ClientInv, KeyboardFits
<1>3. unsent' \in Seq(Client!EventKinds)
  <2>1. unsent' = unsent \/ (unsent # << >> /\ unsent' = Tail(unsent))
    BY DEF Client!NextEvent
  <2>2. unsent \in Seq(Client!EventKinds)
    BY DEF ClientInv, ClientTypes
  <2> QED
    BY <2>1, <2>2, HeadTailProperties
<1>4. /\ keyboard' \in {"loop", "report", "send"}
      /\ keyboard' = "send" => unsent' # << >>
  BY DEF Client!NextEvent, Client!Proceed
<1>5. ClientTypes'
  BY <1>1, <1>3, <1>4 DEF ClientInv, ClientTypes, Keyboards
<1>6. KeyboardFits'
  BY <1>1, <1>2, <1>4 DEF ClientInv, KeyboardFits
<1> QED
  BY <1>5, <1>6 DEF ClientInv, SentTypes

\* What join and exit enter keeps the types, and a report goes on.
LEMMA SendClient ==
  ASSUME ClientInv, KeyboardSend
  PROVE  ClientInv'
<1>1. keyboard = "send" /\ main = "session" /\ line.verb \in {"join", "exit", "report", "logout"}
  BY DEF KeyboardSend, ClientInv, KeyboardFits
<1>2. Client!AfterSend /\ UNCHANGED <<conn, typed>>
  BY DEF KeyboardSend, Client!Sent, Client!SendFails, user
<1>3. UNCHANGED <<main, line, receipts>>
  BY <1>2 DEF Client!AfterSend
<1>4. unsent' \in Seq(Client!EventKinds)
  <2>1. unsent' = unsent \/ (unsent # << >> /\ unsent' = Tail(unsent))
    BY <1>1, <1>2 DEF Client!AfterSend, ClientInv, KeyboardFits
  <2>2. unsent \in Seq(Client!EventKinds)
    BY DEF ClientInv, ClientTypes
  <2> QED
    BY <2>1, <2>2, HeadTailProperties
<1>5. /\ subscriptions' \in [Channels -> (0 .. MaxLines) \cup {None}]
      /\ subscriptionId' \in Nat /\ subscriptionId' <= typed
  <2>1. CASE UNCHANGED <<subscriptions, subscriptionId>>
    BY <2>1 DEF ClientInv, ClientTypes
  <2>2. CASE Client!EnterSubscription /\ line.verb = "join"
    <3>1. subscriptionId < typed /\ subscriptionId \in 0 .. MaxLines
      BY <1>1, <2>2, MaxLinesAssumption DEF ClientInv, ClientTypes, KeyboardFits
    <3> QED
      BY <2>2, <3>1 DEF Client!EnterSubscription, ClientInv, ClientTypes
  <2>3. CASE Client!EnterSubscription /\ line.verb = "exit"
    BY <2>3 DEF Client!EnterSubscription, ClientInv, ClientTypes
  <2> QED
    BY <1>1, <2>1, <2>2, <2>3
    DEF KeyboardSend, Client!Sent, Client!SendFails, Client!EnterSubscription
<1>6. /\ keyboard' \in {"report", "loop"}
      /\ keyboard' = "report" => line.verb = "report"
  BY <1>2 DEF Client!AfterSend, Client!Proceed
<1>7. line.verb = "report" => line.file.channel \in Channels
  BY <1>1 DEF ClientInv, KeyboardFits
<1>8. ClientTypes'
  BY <1>1, <1>2, <1>3, <1>4, <1>5, <1>6 DEF ClientInv, ClientTypes, Keyboards
<1>9. KeyboardFits'
  BY <1>1, <1>3, <1>6, <1>7 DEF KeyboardFits
<1>10. SentTypes'
  BY <1>1, TransmitType DEF KeyboardSend, ClientInv, SentTypes
<1> QED
  BY <1>8, <1>9, <1>10 DEF ClientInv

LEMMA KeyboardClient ==
  ASSUME ClientInv, KeyboardStep \/ InputOverRead
  PROVE  ClientInv'
<1>1. UNCHANGED <<conn, sent, typed>>
  BY DEF KeyboardStep, InputOverRead, link, user
<1>2. CASE Client!CommandFails
  <2>1. typed' \in typed .. MaxLines
    BY <1>1, MaxLinesAssumption DEF ClientInv, ClientTypes
  <2> QED
    BY <1>1, <1>2, <2>1, DestroyedClient DEF Client!CommandFails, Client!ProcessEnds
<1>3. CASE Client!KeyboardLoop \/ Client!GetLineFails \/ Client!SummaryDone
  <2>1. QuietKeyboard
    BY <1>1, <1>3 DEF QuietKeyboard, Client!KeyboardLoop, Client!GetLineFails,
                      Client!SummaryDone, Client!input
  <2> QED
    BY <1>3, <2>1, LoopClient
<1>4. CASE Client!Command
  BY <1>1, <1>4, CommandClient DEF QuietKeyboard, Client!Command
<1>5. CASE Client!ProduceReceipt \/ Client!ProduceReceiptAgain
  <2>1. QuietKeyboard
    BY <1>1, <1>5 DEF QuietKeyboard, Client!ProduceReceipt, Client!ProduceReceiptAgain,
                      Client!input
  <2> QED
    BY <1>5, <2>1, ReceiptClient
<1>6. CASE Client!NextEvent
  BY <1>1, <1>6, NextEventClient DEF QuietKeyboard, Client!NextEvent
<1> QED
  BY <1>2, <1>3, <1>4, <1>5, <1>6 DEF KeyboardStep, InputOverRead

LEMMA SocketClient ==
  ASSUME ClientInv, SocketRead \/ SocketReadFails \/ SocketStep \/ Crash
  PROVE  ClientInv'
<1>1. UNCHANGED <<conn, sent, typed>>
  BY DEF SocketRead, SocketReadFails, SocketStep, Crash, link, user
<1>2. CASE Client!ReportUnreadable \/ Client!RaceCrashes
  <2>1. typed' \in typed .. MaxLines
    BY <1>1, MaxLinesAssumption DEF ClientInv, ClientTypes
  <2> QED
    BY <1>1, <1>2, <2>1, DestroyedClient
    DEF Client!ReportUnreadable, Client!RaceCrashes, Client!ProcessEnds
<1>3. CASE SocketRead
  <2>1. PICK m : Client!ReadFrame(m)
    BY <1>3 DEF SocketRead
  <2> QED
    BY <1>1, <2>1, QuietClient DEF Client!ReadFrame, Client!input, Client!tables, typing
<1>4. CASE Client!ReadFails \/ Client!FindReceipt \/ Client!HandleError \/ Client!AddReport
  <2>1. UNCHANGED typing
    BY <1>1, <1>4 DEF Client!ReadFails, Client!FindReceipt, Client!HandleError,
                      Client!AddReport, Client!input, Client!tables, typing
  <2> QED
    BY <2>1, QuietClient
<1> QED
  BY <1>2, <1>3, <1>4 DEF SocketReadFails, SocketStep, Crash

LEMMA ServerClient ==
  ASSUME ClientInv, NEW c \in Conns,
         ServerReceive(c) \/ ServerAbort(c) \/ ServerStep(c) \/ ServerIncrement
  PROVE  ClientInv'
<1>1. UNCHANGED clientVars
  BY DEF ServerReceive, ServerAbort, ServerStep, ServerIncrement
<1> QED
  BY <1>1, QuietClient DEF clientVars, program, link, user, typing

LEMMA NextClient == ClientInv /\ TypeOK /\ [PlatformNext]_platformVars => ClientInv'
<1> SUFFICES ASSUME ClientInv, TypeOK, [PlatformNext]_platformVars PROVE ClientInv'
  OBVIOUS
<1>1. CASE InputEnds \/ Rest \/ UNCHANGED platformVars
  <2>1. UNCHANGED typing
    BY <1>1 DEF InputEnds, Rest, platformVars, program, link, user, typing
  <2> QED
    BY <2>1, QuietClient
<1>2. CASE ServerIncrement
  <2>1. UNCHANGED typing
    BY <1>2 DEF ServerIncrement, clientVars, program, link, user, typing
  <2> QED
    BY <2>1, QuietClient
<1> QED
  BY <1>1, <1>2, LoginClient, ConnectClient, PromptClient, LineClient, KeyboardClient,
     SendClient, SocketClient, ServerClient DEF PlatformNext

-----------------------------------------------------------------------------
\* Every frame the server takes is a frame a client may send.
LEMMA ReceiveFits ==
  ASSUME ClientInv, TypeOK, NEW c \in Conns, ServerReceive(c)
  PROVE  Receive(c)
<1>1. count[c] + 1 \in DOMAIN sent[c]
  BY DEF ServerReceive, TypeOK, RequestsOK, ClientInv, SentTypes
<1>2. sent[c][count[c] + 1] \in Sends
  BY <1>1 DEF ClientInv, SentTypes
<1>3. sent[c][count[c] + 1].frame \in Frames
  BY <1>2 DEF Sends
<1> QED
  BY <1>3 DEF ServerReceive, Receive

\* A step of the platform is a step of the server, or leaves it alone.
LEMMA StepImplements ==
  ClientInv /\ TypeOK /\ [PlatformNext]_platformVars => [Next]_vars
<1> SUFFICES ASSUME ClientInv, TypeOK, [PlatformNext]_platformVars PROVE [Next]_vars
  OBVIOUS
<1>1. CASE LoginTyped
  BY <1>1 DEF LoginTyped, Next
<1>2. ASSUME NEW c \in Conns, ServerReceive(c) \/ ServerAbort(c) \/ ServerStep(c)
      PROVE  Next
  BY <1>2, ReceiveFits DEF ServerAbort, ServerStep, Next
<1>3. CASE ServerIncrement
  BY <1>3 DEF ServerIncrement, Next
<1>4. CASE \/ SendConnect \/ EmptyLineTyped \/ PromptInputOver \/ MainThread
           \/ LineTyped \/ InputOverRead \/ KeyboardStep \/ KeyboardSend
           \/ SocketRead \/ SocketReadFails \/ SocketStep \/ Crash
           \/ InputEnds \/ Rest \/ UNCHANGED platformVars
  <2>1. UNCHANGED vars
    BY <1>4 DEF SendConnect, EmptyLineTyped, PromptInputOver, MainThread, LineTyped,
                InputOverRead, KeyboardStep, KeyboardSend, SocketRead, SocketReadFails,
                SocketStep, Crash, InputEnds, Rest, platformVars
  <2> QED
    BY <2>1
<1> QED
  BY <1>1, <1>2, <1>3, <1>4 DEF PlatformNext

\* The server inside the platform is the server of TpcServer: every behaviour
\* of the platform, seen at the server, is one of the server alone with
\* clients that send what they like.
THEOREM PlatformImplementsServer == PlatformSpec => ServerImplemented
<1>1. PlatformInit => ClientInv /\ TypeInv
  BY InitClient, InitType DEF PlatformInit
<1>2. TypeInv => TypeOK
  BY DEF TypeInv
<1>3. ClientInv /\ TypeInv /\ [PlatformNext]_platformVars => ClientInv' /\ TypeInv'
  BY <1>2, NextClient, StepImplements, NextType
<1>4. ClientInv /\ TypeInv /\ [PlatformNext]_platformVars => [Next]_vars
  BY <1>2, StepImplements
<1>5. PlatformInit => Init
  BY DEF PlatformInit
<1> QED
  BY <1>1, <1>3, <1>4, <1>5, PTL DEF PlatformSpec, ServerImplemented, Spec

\* The types of the server hold in the platform.
LEMMA PlatformInvariant == PlatformSpec => [](ClientInv /\ TypeInv /\ TypeOK)
<1>1. PlatformInit => ClientInv /\ TypeInv
  BY InitClient, InitType DEF PlatformInit
<1>2. TypeInv => TypeOK
  BY DEF TypeInv
<1>3. ClientInv /\ TypeInv /\ [PlatformNext]_platformVars => ClientInv' /\ TypeInv'
  BY <1>2, NextClient, StepImplements, NextType
<1> QED
  BY <1>1, <1>2, <1>3, PTL DEF PlatformSpec

-----------------------------------------------------------------------------
\* The types ClientTypes leaves out.
RestTypes ==
  /\ socket \in {"read", "findReceipt", "error", "message", "end"}
  /\ delivered \in Nat
  /\ {terminateKeyboard, socketOpen, lost, alone, inputOver} \subseteq BOOLEAN

\* A frame that is read has one of the commands the socket thread knows.
LEMMA IncomingKinds ==
  ASSUME TypeOK, conn \in Conns, NEW i \in DOMAIN out[conn]
  PROVE  Incoming(out[conn][i]).command \in {"CONNECTED", "RECEIPT", "ERROR", "MESSAGE"}
<1>1. out[conn][i] \in ReplyFrames \cup MessageFrames
  BY DEF TypeOK, SocketsOK
<1>2. out[conn][i].command \in {"CONNECTED", "RECEIPT", "ERROR", "MESSAGE"}
  BY <1>1 DEF ReplyFrames, MessageFrames
<1> QED
  BY <1>2 DEF Incoming

\* The socket thread runs in a session only.
SocketFits == socket # "end" => main = "session"

LEMMA SocketTypes ==
  ASSUME ClientInv, TypeOK, RestTypes, SocketFits, SocketRead \/ SocketReadFails \/ SocketStep
  PROVE  RestTypes' /\ SocketFits'
<1>1. UNCHANGED <<lost, alone, inputOver>> /\ main = "session"
  BY DEF SocketRead, SocketReadFails, SocketStep, link, user, SocketFits,
         Client!FindReceipt, Client!HandleError, Client!AddReport, Client!ReportUnreadable
<1>2. CASE SocketRead
  <2>1. conn \in Conns
    BY <1>1 DEF ClientInv, ClientTypes
  <2>2. delivered + 1 \in DOMAIN out[conn]
    BY <1>2, <2>1 DEF SocketRead, RestTypes, TypeOK, SocketsOK
  <2>3. Incoming(out[conn][delivered + 1]).command \in {"CONNECTED", "RECEIPT", "ERROR", "MESSAGE"}
    BY <2>1, <2>2, IncomingKinds
  <2>4. socket' \in {"read", "findReceipt", "error", "message"}
    BY <1>2, <2>3 DEF SocketRead, Client!ReadFrame
  <2>5. UNCHANGED <<main, terminateKeyboard, socketOpen>> /\ delivered' = delivered + 1
    BY <1>2 DEF SocketRead, Client!ReadFrame
  <2>6. delivered' \in Nat
    BY <2>5 DEF RestTypes
  <2> QED
    BY <1>1, <2>4, <2>5, <2>6 DEF RestTypes, SocketFits
<1>3. CASE SocketReadFails
  BY <1>1, <1>3 DEF SocketReadFails, Client!ReadFails, RestTypes, SocketFits, link
<1>4. CASE Client!ReportUnreadable /\ SocketStep
  BY <1>1, <1>4 DEF Client!ReportUnreadable, Client!ProcessEnds, Client!Destroyed,
                    SocketStep, RestTypes, SocketFits, link
<1>5. CASE (Client!FindReceipt \/ Client!HandleError \/ Client!AddReport) /\ SocketStep
  BY <1>1, <1>5 DEF Client!FindReceipt, Client!HandleError, Client!AddReport, Client!tables,
                    SocketStep, RestTypes, SocketFits, link
<1> QED
  BY <1>2, <1>3, <1>4, <1>5 DEF SocketStep

LEMMA NextTypes ==
  ASSUME ClientInv, TypeOK, RestTypes, SocketFits, [PlatformNext]_platformVars
  PROVE  RestTypes' /\ SocketFits'
<1> USE DEF RestTypes, SocketFits
<1>1. CASE LoginTyped
  BY <1>1 DEF LoginTyped, Client!Login, Typing, ClientInv, ClientTypes
<1>2. CASE SendConnect
  BY <1>2 DEF SendConnect, Client!StartSession, Client!LoginFails, Client!Destroyed, user
<1>3. CASE EmptyLineTyped \/ PromptInputOver \/ MainThread
  BY <1>3 DEF EmptyLineTyped, PromptInputOver, MainThread, Client!LoginLineEmpty,
              Client!ProcessEnds, Client!JoinThreads, Client!Destroyed, Typing, link, user
<1>4. CASE LineTyped \/ InputOverRead
  BY <1>4 DEF LineTyped, InputOverRead, Client!GetLine, Client!GetLineFails, Typing, link, user
<1>5. CASE KeyboardStep
  BY <1>5 DEF KeyboardStep, Client!KeyboardLoop, Client!Command, Client!CommandFails,
              Client!ProduceReceipt, Client!ProduceReceiptAgain, Client!NextEvent,
              Client!SummaryDone, Client!ProcessEnds, Client!Destroyed, link, user
<1>6. CASE KeyboardSend
  <2>1. Client!AfterSend /\ UNCHANGED <<delivered, lost, alone, inputOver>>
    BY <1>6 DEF KeyboardSend, Client!Sent, Client!SendFails, user
  <2> QED
    BY <2>1 DEF Client!AfterSend, Client!LogoutEnds
<1>7. CASE SocketRead \/ SocketReadFails \/ SocketStep
  BY <1>7, SocketTypes
<1>8. CASE Crash
  BY <1>8 DEF Crash, Client!RaceCrashes, Client!ProcessEnds, Client!Destroyed, link, user
<1>9. CASE \/ ServerIncrement
           \/ \E c \in Conns : ServerReceive(c) \/ ServerAbort(c) \/ ServerStep(c)
  <2>1. UNCHANGED clientVars
    BY <1>9 DEF ServerReceive, ServerAbort, ServerStep, ServerIncrement
  <2> QED
    BY <2>1 DEF clientVars, program, link, user
<1>10. CASE InputEnds
  BY <1>10 DEF InputEnds, program, link
<1>11. CASE Rest \/ UNCHANGED platformVars
  BY <1>11 DEF Rest, platformVars, program, link, user
<1> QED
  BY <1>1, <1>2, <1>3, <1>4, <1>5, <1>6, <1>7, <1>8, <1>9, <1>10, <1>11 DEF PlatformNext

\* The answer read last, and the reports stored from such answers.
AnswerTypes ==
  /\ channels \in [Channels -> Seq(Conns \X Nat)]
  /\ answer = None \/ answer.command \in {"CONNECTED", "RECEIPT", "ERROR", "MESSAGE"}
  /\ socket = "findReceipt" => answer.command = "RECEIPT"
  /\ socket = "error" => answer.command = "ERROR"
  /\ socket = "message" =>
       answer.command = "MESSAGE" /\ answer.destination \in Channels
                                 /\ answer.report \in Conns \X Nat

\* A client that starts anew has no reports and its socket thread is over.
LEMMA DestroyedAnswer ==
  ASSUME Client!Destroyed PROVE AnswerTypes'
<1>1. channels' = [ch \in Channels |-> << >>] /\ answer' = None /\ socket' = "end"
  BY DEF Client!Destroyed
<1>2. channels' \in [Channels -> Seq(Conns \X Nat)]
  <2>1. << >> \in Seq(Conns \X Nat)
    OBVIOUS
  <2> QED
    BY <1>1, <2>1
<1> QED
  BY <1>1, <1>2 DEF AnswerTypes

\* A step that leaves the answers alone, the socket thread where it is or at its end.
LEMMA QuietAnswer ==
  ASSUME AnswerTypes, UNCHANGED <<channels, answer>>, socket' \in {socket, "read", "end"}
  PROVE  AnswerTypes'
  BY DEF AnswerTypes

LEMMA ReadAnswer ==
  ASSUME ClientInv, TypeOK, RestTypes, SocketFits, AnswerTypes, SocketRead
  PROVE  AnswerTypes'
<1>1. conn \in Conns
  BY DEF SocketRead, SocketFits, ClientInv, ClientTypes
<1> DEFINE m == out[conn][delivered + 1]
           a == Incoming(m)
<1>2. delivered + 1 \in DOMAIN out[conn]
  BY <1>1 DEF SocketRead, RestTypes, TypeOK, SocketsOK
<1>3. m \in ReplyFrames \cup MessageFrames
  BY <1>1, <1>2 DEF TypeOK, SocketsOK
<1>4. a.command \in {"CONNECTED", "RECEIPT", "ERROR", "MESSAGE"}
  BY <1>1, <1>2, IncomingKinds
<1>5. a.command = "MESSAGE" => a.destination \in Channels /\ a.report \in Conns \X Nat
  <2> HIDE DEF m
  <2>1. a.command = m.command
    <3>1. m.command \in {"CONNECTED", "RECEIPT", "ERROR", "MESSAGE"}
      BY <1>3 DEF ReplyFrames, MessageFrames
    <3> QED
      BY <3>1 DEF Incoming
  <2> SUFFICES ASSUME m.command = "MESSAGE"
               PROVE  a.destination \in Channels /\ a.report \in Conns \X Nat
    BY <2>1
  <2>2. m.destination \in Channels /\ m.sender \in Conns /\ m.messageID \in Nat
    BY <1>3 DEF ReplyFrames, MessageFrames
  <2>3. a.destination = m.destination /\ a.report = <<m.sender, m.messageID>>
    BY DEF Incoming
  <2> QED
    BY <2>2, <2>3
<1> HIDE DEF a
<1>6. Client!ReadFrame(a)
  BY DEF SocketRead, a
<1>7. /\ answer' = a /\ UNCHANGED channels
      /\ socket' = "findReceipt" => a.command = "RECEIPT"
      /\ socket' = "error" => a.command = "ERROR"
      /\ socket' = "message" => a.command = "MESSAGE"
  BY <1>4, <1>6 DEF Client!ReadFrame, Client!tables
<1> QED
  BY <1>4, <1>5, <1>7 DEF AnswerTypes

LEMMA StoredAnswer ==
  ASSUME AnswerTypes, Client!AddReport
  PROVE  AnswerTypes'
<1>1. answer.destination \in Channels /\ answer.report \in Conns \X Nat
  BY DEF Client!AddReport, AnswerTypes
<1>2. channels' = [channels EXCEPT ![answer.destination] = Append(@, answer.report)]
  BY DEF Client!AddReport
<1>3. channels' \in [Channels -> Seq(Conns \X Nat)]
  BY <1>1, <1>2 DEF AnswerTypes
<1>4. UNCHANGED answer /\ socket' = "read"
  BY DEF Client!AddReport
<1> QED
  BY <1>3, <1>4 DEF AnswerTypes

LEMMA NextAnswer ==
  ASSUME ClientInv, TypeOK, RestTypes, SocketFits, AnswerTypes, [PlatformNext]_platformVars
  PROVE  AnswerTypes'
<1>1. CASE LoginTyped
  BY <1>1, QuietAnswer DEF LoginTyped, Client!Login, Client!tables
<1>2. CASE SendConnect
  BY <1>2, QuietAnswer, DestroyedAnswer
  DEF SendConnect, Client!StartSession, Client!LoginFails, Client!tables
<1>3. CASE EmptyLineTyped \/ PromptInputOver \/ MainThread
  BY <1>3, DestroyedAnswer DEF EmptyLineTyped, PromptInputOver, MainThread,
     Client!LoginLineEmpty, Client!ProcessEnds, Client!JoinThreads
<1>4. CASE LineTyped \/ InputOverRead
  BY <1>4, QuietAnswer DEF LineTyped, InputOverRead, Client!GetLine, Client!GetLineFails,
     Client!tables
<1>5. CASE KeyboardStep
  BY <1>5, QuietAnswer, DestroyedAnswer
  DEF KeyboardStep, Client!KeyboardLoop, Client!Command, Client!CommandFails,
      Client!ProduceReceipt, Client!ProduceReceiptAgain, Client!NextEvent,
      Client!SummaryDone, Client!ProcessEnds, Client!tables
<1>6. CASE KeyboardSend
  BY <1>6, QuietAnswer DEF KeyboardSend, Client!Sent, Client!SendFails, Client!AfterSend
<1>7. CASE SocketRead
  BY <1>7, ReadAnswer
<1>8. CASE SocketReadFails
  BY <1>8, QuietAnswer DEF SocketReadFails, Client!ReadFails, Client!tables
<1>9. CASE SocketStep
  BY <1>9, QuietAnswer, StoredAnswer, DestroyedAnswer
  DEF SocketStep, Client!FindReceipt, Client!HandleError, Client!ReportUnreadable,
      Client!ProcessEnds, Client!tables
<1>10. CASE Crash
  BY <1>10, DestroyedAnswer DEF Crash, Client!RaceCrashes, Client!ProcessEnds
<1>11. CASE \/ ServerIncrement
            \/ \E c \in Conns : ServerReceive(c) \/ ServerAbort(c) \/ ServerStep(c)
  <2>1. UNCHANGED clientVars
    BY <1>11 DEF ServerReceive, ServerAbort, ServerStep, ServerIncrement
  <2> QED
    BY <2>1, QuietAnswer DEF clientVars, program
<1>12. CASE InputEnds \/ Rest \/ UNCHANGED platformVars
  BY <1>12, QuietAnswer DEF InputEnds, Rest, platformVars, program
<1> QED
  BY <1>1, <1>2, <1>3, <1>4, <1>5, <1>6, <1>7, <1>8, <1>9, <1>10, <1>11, <1>12 DEF PlatformNext

\* Every variable of the client and of the network keeps its type: the frames
\* under way are frames the server can read, the lines and tables have the
\* fields each command uses, and every answer has a command the socket thread
\* tells apart.
THEOREM PlatformTypeCorrect == PlatformSpec => []PlatformTypeOK
<1>1. PlatformInit => RestTypes /\ SocketFits /\ AnswerTypes
  <2> SUFFICES ASSUME PlatformInit PROVE RestTypes /\ SocketFits /\ AnswerTypes
    OBVIOUS
  <2>1. socket = "end" /\ terminateKeyboard = FALSE /\ socketOpen = FALSE
    BY DEF PlatformInit, Client!ClientInit
  <2>2. delivered = 0 /\ lost = FALSE /\ alone = TRUE /\ inputOver = FALSE
    BY DEF PlatformInit
  <2>3. << >> \in Seq(Conns \X Nat) /\ channels = [ch \in Channels |-> << >>] /\ answer = None
    BY DEF PlatformInit, Client!ClientInit
  <2> QED
    BY <2>1, <2>2, <2>3 DEF RestTypes, SocketFits, AnswerTypes
<1>2. /\ ClientInv /\ TypeInv /\ TypeOK
      /\ RestTypes /\ SocketFits /\ AnswerTypes /\ [PlatformNext]_platformVars
      => RestTypes' /\ SocketFits' /\ AnswerTypes'
  BY NextTypes, NextAnswer
<1>3. ClientInv /\ RestTypes /\ AnswerTypes => PlatformTypeOK
  BY MaxLinesAssumption
  DEF ClientInv, ClientTypes, SentTypes, RestTypes, AnswerTypes, PlatformTypeOK, Keyboards
<1> QED
  BY <1>1, <1>2, <1>3, PlatformInvariant, PTL DEF PlatformSpec

-----------------------------------------------------------------------------
\* The server has accepted connection c.
Accepted(c) == c < connectionID \/ (c = connectionID /\ acceptor = "increment")

HasLogout(c) == \E i \in DOMAIN sent[c] : sent[c][i].frame.command = "DISCONNECT"

\* Why nothing follows a logout: a connection starts without frames, and once
\* its DISCONNECT is sent the keyboard thread is at the head of its loop with
\* the flag set, or over; nothing in a session takes the flag back.
LogoutLastInv ==
  /\ \A c \in Conns : sent[c] # << >> => Accepted(c)
  /\ main \in {"login", "session"} => Accepted(conn)
  /\ main = "login" => sent[conn] = << >>
  /\ main = "session" /\ HasLogout(conn) =>
       keyboard = "end" \/ (keyboard = "loop" /\ terminateKeyboard)
  /\ LogoutIsLast

LEMMA InitLogoutLast == PlatformInit => LogoutLastInv
  BY DEF PlatformInit, Client!ClientInit, LogoutLastInv, LogoutIsLast, HasLogout

\* The accept loop forgets no connection.
LEMMA AcceptorLogout ==
  ASSUME TypeOK, ServerIncrement \/ UNCHANGED <<connectionID, acceptor>>
  PROVE  \A c \in Conns : Accepted(c) => Accepted(c)'
<1>1. connectionID \in Nat
  BY ConnectionsAssumption DEF TypeOK
<1> QED
  BY <1>1 DEF Accepted, Conns, ServerIncrement, Increment

\* Steps that send nothing, connect nothing and leave the keyboard thread
\* where a logout wants it.
LEMMA QuietLogout ==
  ASSUME TypeOK, ClientInv, LogoutLastInv, UNCHANGED <<conn, sent>>,
         main' = main \/ main' \in {"getline", "terminated"},
         main' = "session" =>
           \/ keyboard' = keyboard /\ (terminateKeyboard => terminateKeyboard')
           \/ keyboard \notin {"loop", "end"}
           \/ keyboard = "loop" /\ ~ terminateKeyboard
           \/ keyboard' = "end",
         ServerIncrement \/ UNCHANGED <<connectionID, acceptor>>
  PROVE  LogoutLastInv'
<1>1. \A c \in Conns : Accepted(c) => Accepted(c)'
  BY AcceptorLogout
<1>2. main \in {"login", "session"} => conn \in Conns
  BY DEF ClientInv, ClientTypes
<1>3. (HasLogout(conn) <=> HasLogout(conn)') /\ (LogoutIsLast <=> LogoutIsLast')
  BY DEF HasLogout, LogoutIsLast
<1> QED
  BY <1>1, <1>2, <1>3 DEF LogoutLastInv

\* What a frame that is sent does to the order: nothing precedes a CONNECT,
\* and no logout precedes what the keyboard thread sends.
LEMMA TransmitLogout ==
  ASSUME ClientInv, LogoutLastInv, Transmit, UNCHANGED <<conn, connectionID, acceptor>>,
         main = "login" \/ (main = "session" /\ keyboard = "send")
  PROVE  /\ LogoutIsLast'
         /\ \A c \in Conns : sent'[c] # << >> => Accepted(c)'
         /\ HasLogout(conn)' => line.verb = "logout"
<1>1. /\ conn \in Conns /\ Accepted(conn) /\ ~ HasLogout(conn)
      /\ sent \in [Conns -> Seq(Sends)]
  BY DEF ClientInv, ClientTypes, SentTypes, LogoutLastInv, HasLogout
<1> DEFINE new == [frame |-> Client!Output, receipt |-> Client!OutputReceipt,
                   event |-> IF line.verb = "report" THEN Head(unsent) ELSE None]
<1>2. new.frame.command = "DISCONNECT" => line.verb = "logout"
  <2>1. line.verb \in {"login", "join", "exit", "report", "logout"}
    BY DEF ClientInv, ClientTypes, KeyboardFits
  <2> QED
    BY <2>1 DEF Client!Output
<1>3. sent' = [sent EXCEPT ![conn] = Append(@, new)]
  BY DEF Transmit
<1> HIDE DEF new
<1>4. sent'[conn] = Append(sent[conn], new) /\ \A c \in Conns \ {conn} : sent'[c] = sent[c]
  BY <1>1, <1>3
<1>5. /\ Len(sent'[conn]) = Len(sent[conn]) + 1
      /\ DOMAIN sent'[conn] = 1 .. Len(sent[conn]) + 1
      /\ sent'[conn][Len(sent[conn]) + 1] = new
      /\ DOMAIN sent[conn] = 1 .. Len(sent[conn])
      /\ \A i \in DOMAIN sent[conn] : sent'[conn][i] = sent[conn][i]
      /\ Len(sent[conn]) \in Nat
  BY <1>1, <1>4, AppendProperties, LenProperties
<1>6. \A i \in DOMAIN sent'[conn] : sent'[conn][i].frame.command = "DISCONNECT"
        => i = Len(sent'[conn]) /\ line.verb = "logout"
  BY <1>1, <1>2, <1>5 DEF HasLogout
<1>7. LogoutIsLast'
  BY <1>4, <1>6 DEF LogoutLastInv, LogoutIsLast
<1>8. \A c \in Conns : sent'[c] # << >> => Accepted(c)'
  BY <1>1, <1>4 DEF LogoutLastInv, Accepted
<1> QED
  BY <1>6, <1>7, <1>8 DEF HasLogout

LEMMA LoginLogout ==
  ASSUME TypeOK, ClientInv, LogoutLastInv, LoginTyped
  PROVE  LogoutLastInv'
<1>1. /\ acceptor = "accept" /\ acceptor' = "increment"
      /\ connectionID < MaxConnections /\ connectionID' = connectionID
      /\ conn' = connectionID /\ sent' = sent /\ main' = "login"
  BY DEF LoginTyped, Accept, Client!Login
<1>2. connectionID \in Conns
  BY <1>1, ConnectionsAssumption DEF TypeOK, Conns
<1>3. ~ Accepted(connectionID) /\ Accepted(conn)'
  BY <1>1, <1>2 DEF Accepted, Conns
<1>4. sent[connectionID] = << >>
  BY <1>2, <1>3 DEF LogoutLastInv
<1>5. \A c \in Conns : sent'[c] # << >> => Accepted(c)'
  BY <1>1 DEF LogoutLastInv, Accepted
<1>6. LogoutIsLast'
  BY <1>1 DEF LogoutLastInv, LogoutIsLast
<1> QED
  BY <1>1, <1>3, <1>4, <1>5, <1>6 DEF LogoutLastInv

LEMMA ConnectLogoutLast ==
  ASSUME TypeOK, ClientInv, LogoutLastInv, SendConnect
  PROVE  LogoutLastInv'
<1>1. UNCHANGED <<conn, connectionID, acceptor>> /\ main = "login"
  BY DEF SendConnect, vars
<1>2. CASE Client!LoginFails /\ UNCHANGED sent
  BY <1>1, <1>2, QuietLogout DEF Client!LoginFails
<1>3. CASE Client!StartSession /\ Transmit
  <2>1. main' = "session" /\ line.verb = "login" /\ conn \in Conns
    BY <1>1, <1>3 DEF Client!StartSession, ClientInv, ClientTypes
  <2>2. /\ LogoutIsLast' /\ ~ HasLogout(conn)'
        /\ \A c \in Conns : sent'[c] # << >> => Accepted(c)'
    BY <1>1, <1>3, <2>1, TransmitLogout
  <2>3. Accepted(conn)'
    BY <1>1 DEF LogoutLastInv, Accepted
  <2> QED
    BY <2>1, <2>2, <2>3 DEF LogoutLastInv
<1> QED
  BY <1>2, <1>3 DEF SendConnect

LEMMA SendLogout ==
  ASSUME TypeOK, ClientInv, LogoutLastInv, KeyboardSend
  PROVE  LogoutLastInv'
<1>1. /\ UNCHANGED <<conn, connectionID, acceptor, main>>
      /\ keyboard = "send" /\ main = "session" /\ Client!AfterSend
  BY DEF KeyboardSend, Client!Sent, Client!SendFails, Client!AfterSend, vars, ClientInv,
         KeyboardFits
<1>2. CASE UNCHANGED sent
  BY <1>1, <1>2, QuietLogout
<1>3. CASE Transmit
  <2>1. /\ LogoutIsLast' /\ (HasLogout(conn)' => line.verb = "logout")
        /\ \A c \in Conns : sent'[c] # << >> => Accepted(c)'
    BY <1>1, <1>3, TransmitLogout
  <2>2. line.verb = "logout" => keyboard' = "loop" /\ terminateKeyboard'
    BY <1>1 DEF Client!AfterSend, Client!Proceed, Client!LogoutEnds
  <2>3. Accepted(conn)'
    BY <1>1 DEF LogoutLastInv, Accepted
  <2> QED
    BY <1>1, <2>1, <2>2, <2>3 DEF LogoutLastInv
<1> QED
  BY <1>2, <1>3 DEF KeyboardSend

LEMMA NextLogout ==
  ASSUME TypeOK, ClientInv, LogoutLastInv, [PlatformNext]_platformVars
  PROVE  LogoutLastInv'
<1>1. CASE EmptyLineTyped \/ PromptInputOver \/ MainThread \/ Crash
  <2>1. UNCHANGED <<conn, sent, connectionID, acceptor>> /\ main' \in {"getline", "terminated"}
    BY <1>1 DEF EmptyLineTyped, PromptInputOver, MainThread, Crash, vars, link,
                Client!LoginLineEmpty, Client!JoinThreads, Client!RaceCrashes, Client!ProcessEnds
  <2> QED
    BY <2>1, QuietLogout
<1>2. CASE LineTyped \/ InputOverRead
  <2>1. UNCHANGED <<conn, sent, connectionID, acceptor, main>> /\ keyboard = "getline"
    BY <1>2 DEF LineTyped, InputOverRead, vars, link, Client!GetLine, Client!GetLineFails
  <2> QED
    BY <2>1, QuietLogout
<1>3. CASE KeyboardStep
  <2>1. UNCHANGED <<conn, sent, connectionID, acceptor>>
    BY <1>3 DEF KeyboardStep, vars, link
  <2>2. CASE Client!KeyboardLoop
    <3>1. main' = main /\ keyboard = "loop" /\ (terminateKeyboard => keyboard' = "end")
      BY <2>2 DEF Client!KeyboardLoop, Client!Proceed
    <3> QED
      BY <2>1, <3>1, QuietLogout DEF ClientInv
  <2>3. CASE Client!CommandFails
    BY <2>1, <2>3, QuietLogout DEF Client!CommandFails, Client!ProcessEnds
  <2>4. CASE \/ Client!Command \/ Client!ProduceReceipt \/ Client!ProduceReceiptAgain
             \/ Client!NextEvent \/ Client!SummaryDone
    <3>1. main' = main /\ keyboard \notin {"loop", "end"}
      BY <2>4 DEF Client!Command, Client!ProduceReceipt, Client!ProduceReceiptAgain,
                  Client!NextEvent, Client!SummaryDone
    <3> QED
      BY <2>1, <3>1, QuietLogout
  <2> QED
    BY <1>3, <2>2, <2>3, <2>4 DEF KeyboardStep
<1>4. CASE SocketRead \/ SocketReadFails \/ SocketStep
  <2>1. UNCHANGED <<conn, sent, connectionID, acceptor>>
    BY <1>4 DEF SocketRead, SocketReadFails, SocketStep, vars, link
  <2>2. CASE SocketStep /\ Client!ReportUnreadable
    BY <2>1, <2>2, QuietLogout DEF Client!ReportUnreadable, Client!ProcessEnds
  <2>3. CASE \/ SocketRead \/ SocketReadFails
             \/ Client!FindReceipt \/ Client!HandleError \/ Client!AddReport
    <3>1. UNCHANGED <<main, keyboard>> /\ (terminateKeyboard => terminateKeyboard')
      BY <2>3 DEF SocketRead, SocketReadFails, Client!ReadFrame, Client!ReadFails,
                  Client!FindReceipt, Client!HandleError, Client!AddReport
    <3> QED
      BY <2>1, <3>1, QuietLogout
  <2> QED
    BY <1>4, <2>2, <2>3 DEF SocketStep
<1>5. CASE \E c \in Conns : ServerReceive(c) \/ ServerAbort(c) \/ ServerStep(c)
  <2>1. UNCHANGED <<connectionID, acceptor>> /\ UNCHANGED clientVars
    BY <1>5 DEF ServerReceive, ServerAbort, ServerStep, Abort, Exit, ProcessStep
  <2>2. UNCHANGED <<conn, sent, main, keyboard, terminateKeyboard>>
    BY <2>1 DEF clientVars, program, link
  <2> QED
    BY <2>1, <2>2, QuietLogout
<1>6. CASE ServerIncrement
  <2>1. UNCHANGED <<conn, sent, main, keyboard, terminateKeyboard>>
    BY <1>6 DEF ServerIncrement, clientVars, program, link
  <2> QED
    BY <1>6, <2>1, QuietLogout
<1>7. CASE InputEnds \/ Rest \/ UNCHANGED platformVars
  <2>1. UNCHANGED <<conn, sent, main, keyboard, terminateKeyboard, connectionID, acceptor>>
    BY <1>7 DEF InputEnds, Rest, platformVars, program, link, vars
  <2> QED
    BY <2>1, QuietLogout
<1> QED
  BY <1>1, <1>2, <1>3, <1>4, <1>5, <1>6, <1>7, LoginLogout, ConnectLogoutLast, SendLogout
  DEF PlatformNext

\* Whatever is typed and however the threads of both programs interleave, no
\* frame follows a DISCONNECT on its connection: the flag a logout sets
\* (run_keyboard) is never taken back while the session lasts.
THEOREM LogoutLast == PlatformSpec => []LogoutIsLast
<1>1. ClientInv /\ TypeInv /\ TypeOK /\ LogoutLastInv /\ [PlatformNext]_platformVars => LogoutLastInv'
  BY NextLogout
<1>2. LogoutLastInv => LogoutIsLast
  BY DEF LogoutLastInv
<1> QED
  BY <1>1, <1>2, InitLogoutLast, PlatformInvariant, PTL DEF PlatformSpec
=============================================================================
