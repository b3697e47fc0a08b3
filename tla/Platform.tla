------------------------------ MODULE Platform ------------------------------
(***************************************************************************)
(* A client (module Client) and the thread-per-client server (TpcServer)   *)
(* over TCP: every session is a connection of its own, the client writes   *)
(* frames without waiting for answers, and the old connection's thread may *)
(* still be at work when the next session begins.                          *)
(*                                                                         *)
(* The frames under way are the sent ones the server has not taken and the *)
(* written ones the client has not read.  The user's input may end at any  *)
(* time.  The link of a session may break at any time: as neither program  *)
(* sees that before a read or a write fails, and both may still read what  *)
(* was under way, it is decided at the login whether it will.              *)
(***************************************************************************)
EXTENDS TpcServer

CONSTANTS
  Files,      \* the report files at hand
  Lines,      \* the lines the user may type
  MaxLines    \* bound: how many lines the user types

ASSUME MaxLinesAssumption == MaxLines \in Nat

VARIABLES
  main, keyboard, socket, line, unsent, answer, terminateKeyboard, socketOpen,
  receipts, subscriptions, subscriptionId, channels,   \* see Client
  conn,       \* the connection of the current or last session, or None
  sent,       \* connection -> frames written by the client, with their
              \* receipt numbers and the event of a report
  delivered,  \* how many of the frames written to conn the client has read
  lost,       \* the link of conn breaks in this session
  typed,      \* how many lines the user has typed
  inputOver,  \* cin is at its end
  alone       \* when conn was accepted no other connection was being served

Client == INSTANCE Client

\* What a report file holds, and what a user may type.
ASSUME InputAssumption ==
  /\ Files \subseteq [channel : Channels \cup {None}, events : Seq(Client!EventKinds)]
  /\ Lines \subseteq Client!CommandLines

\* Every frame this client can send is one of the frames the server is
\* modelled with; its subscription ids count the joins.
ASSUME ClientFramesAssumption ==
  /\ 0 .. MaxLines \subseteq SubIds
  /\ ConnectFrames \cup SubscribeFrames \cup UnsubscribeFrames \cup SendFrames
       \cup DisconnectFrames \subseteq Frames

program == <<main, keyboard, socket, line, unsent, answer, terminateKeyboard,
             socketOpen, receipts, subscriptions, subscriptionId, channels>>

link == <<conn, sent, delivered, lost, alone>>
user == <<typed, inputOver>>

platformVars == <<vars, program, link, user>>

PlatformInit ==
  /\ Init
  /\ Client!ClientInit
  /\ conn = None
  /\ sent = [c \in Conns |-> << >>]
  /\ delivered = 0 /\ lost = FALSE /\ alone = TRUE
  /\ typed = 0 /\ inputOver = FALSE

Typing(l) ==
  /\ typed < MaxLines /\ ~ inputOver
  /\ typed' = typed + 1
  /\ UNCHANGED inputOver

-----------------------------------------------------------------------------
(***************************************************************************)
(* What the network gives to and takes from the client.                    *)
(***************************************************************************)
ReportsSent(c) ==
  Selected(sent[c], {i \in DOMAIN sent[c] : sent[c][i].frame.command = "SEND"})

\* A frame as the client reads it: a receipt has the number the request had,
\* a message the event its sender reported.
Incoming(m) ==
  CASE m.command = "RECEIPT" -> [command |-> "RECEIPT", receipt |-> sent[conn][m.n].receipt]
    [] m.command = "MESSAGE" -> [command |-> "MESSAGE", destination |-> m.destination,
                                 report |-> <<m.sender, m.messageID>>,
                                 event |-> ReportsSent(m.sender)[m.messageID + 1].event]
    [] OTHER -> [command |-> m.command]

\* A write succeeds while the client's socket is open, whether or not the
\* server will ever read it, and may fail once the other side is gone.
Transmit ==
  sent' = [sent EXCEPT ![conn] =
             Append(@, [frame |-> Client!Output, receipt |-> Client!OutputReceipt,
                        event |-> IF line.verb = "report" THEN Head(unsent) ELSE None])]

WriteMayFail == ~ socketOpen \/ lost \/ ~ open[conn]

\* A read fails when the link is lost, and when the server has closed: after
\* its last frame, or earlier, by the reset that unread requests provoke.
ReadMayFail ==
  \/ lost
  \/ ~ open[conn] /\ (delivered = Len(out[conn]) \/ count[conn] < Len(sent[conn]))

-----------------------------------------------------------------------------
(***************************************************************************)
(* The client's steps.                                                     *)
(***************************************************************************)
Serving(c) == pc[c] \notin {"new", "dead"}

\* The server accepts the connection.
LoginTyped ==
  /\ Accept
  /\ \E l \in Lines : Client!Login(l) /\ Typing(l)
  /\ conn' = connectionID
  /\ delivered' = 0 /\ lost' \in BOOLEAN
  /\ alone' = (\A c \in Conns : ~ Serving(c))
  /\ UNCHANGED sent

SendConnect ==
  /\ main = "login"
  /\ \/ socketOpen /\ Transmit /\ Client!StartSession
     \/ WriteMayFail /\ Client!LoginFails /\ UNCHANGED sent
  /\ UNCHANGED <<vars, conn, delivered, lost, alone, user>>

EmptyLineTyped ==
  /\ \E l \in Lines : Client!LoginLineEmpty(l) /\ Typing(l)
  /\ UNCHANGED <<vars, link>>

\* At the end of the input the login prompt reads an empty line.
PromptInputOver ==
  /\ inputOver
  /\ Client!LoginLineEmpty([verb |-> "empty"])
  /\ UNCHANGED <<vars, link, user>>

MainThread == Client!JoinThreads /\ UNCHANGED <<vars, link, user>>

LineTyped ==
  /\ \E l \in Lines : Client!GetLine(l) /\ Typing(l)
  /\ UNCHANGED <<vars, link>>

InputOverRead ==
  /\ inputOver
  /\ Client!GetLineFails
  /\ UNCHANGED <<vars, link, user>>

KeyboardStep ==
  /\ \/ Client!KeyboardLoop \/ Client!Command \/ Client!CommandFails
     \/ Client!ProduceReceipt \/ Client!ProduceReceiptAgain
     \/ Client!NextEvent \/ Client!SummaryDone
  /\ UNCHANGED <<vars, link, user>>

KeyboardSend ==
  /\ keyboard = "send"
  /\ \/ socketOpen /\ Client!Sent /\ Transmit
     \/ WriteMayFail /\ Client!SendFails /\ UNCHANGED sent
  /\ UNCHANGED <<vars, conn, delivered, lost, alone, user>>

SocketRead ==
  /\ socket = "read"
  /\ delivered < Len(out[conn])
  /\ Client!ReadFrame(Incoming(out[conn][delivered + 1]))
  /\ delivered' = delivered + 1
  /\ UNCHANGED <<vars, conn, sent, lost, alone, user>>

SocketReadFails ==
  /\ socket = "read"
  /\ ReadMayFail
  /\ Client!ReadFails
  /\ UNCHANGED <<vars, link, user>>

SocketStep ==
  /\ \/ Client!FindReceipt \/ Client!HandleError
     \/ Client!AddReport \/ Client!ReportUnreadable
  /\ UNCHANGED <<vars, link, user>>

Crash == Client!RaceCrashes /\ UNCHANGED <<vars, link, user>>

-----------------------------------------------------------------------------
(***************************************************************************)
(* The server's steps (TpcServer), with the frames this client has sent.   *)
(***************************************************************************)
clientVars == <<program, link, user>>

ServerReceive(c) ==
  /\ Reading(c)
  /\ count[c] < MaxFrames
  /\ count[c] < Len(sent[c])
  /\ Dispatch(c, sent[c][count[c] + 1].frame)
  /\ UNCHANGED <<connectionID, activeClients, accounts, topics, sockets, acceptor,
                 clientVars>>

\* The client has closed its end, or the link is lost; what it had sent may
\* still arrive, or not.
ServerAbort(c) ==
  /\ c # conn \/ ~ socketOpen \/ lost
  /\ Abort(c)
  /\ UNCHANGED clientVars

ServerStep(c) == (Exit(c) \/ ProcessStep(c)) /\ UNCHANGED clientVars

ServerIncrement == Increment /\ UNCHANGED clientVars

-----------------------------------------------------------------------------
\* Nobody notices before a thread reads.
InputEnds ==
  /\ main = "getline" \/ keyboard = "getline"
  /\ ~ inputOver
  /\ inputOver' = TRUE
  /\ UNCHANGED <<vars, program, link, typed>>

\* The program is over, or waits for a line the bound does not let the user
\* type, and no thread of the server has work left.
Rest ==
  /\ \/ main = "terminated"
     \/ typed = MaxLines /\ (main = "getline" \/ keyboard = "getline")
  /\ \A c \in Conns : pc[c] \in {"new", "read", "dead"}
  /\ UNCHANGED platformVars

PlatformNext ==
  \/ LoginTyped \/ SendConnect \/ EmptyLineTyped \/ PromptInputOver \/ MainThread
  \/ LineTyped \/ InputOverRead \/ KeyboardStep \/ KeyboardSend
  \/ SocketRead \/ SocketReadFails \/ SocketStep \/ Crash
  \/ \E c \in Conns : ServerReceive(c) \/ ServerAbort(c) \/ ServerStep(c)
  \/ ServerIncrement
  \/ InputEnds
  \/ Rest

PlatformSpec == PlatformInit /\ [][PlatformNext]_platformVars

\* The threads of both programs run, and a read returns what there is to
\* read.  The user need not type, and no link has to break.
PlatformFairness ==
  /\ WF_platformVars(SendConnect)
  /\ WF_platformVars(MainThread)
  /\ WF_platformVars(InputOverRead \/ KeyboardStep \/ KeyboardSend)
  /\ WF_platformVars(SocketRead \/ SocketReadFails \/ SocketStep)
  /\ WF_platformVars(ServerIncrement)
  /\ \A c \in Conns : WF_platformVars(ServerReceive(c) \/ ServerAbort(c) \/ ServerStep(c))

FairPlatform == PlatformSpec /\ PlatformFairness

-----------------------------------------------------------------------------
Sends == [frame : Frames, receipt : Nat \cup {None},
          event : Client!EventKinds \cup {None}]

\* Every variable of the client and of the network has its type, and the answer
\* read last has the fields the step of the socket thread will use.
PlatformTypeOK ==
  /\ main \in {"getline", "login", "session", "terminated"}
  /\ keyboard \in {"loop", "getline", "command", "produceReceipt", "send",
                   "produceReceiptAgain", "report", "summary", "end"}
  /\ socket \in {"read", "findReceipt", "error", "message", "end"}
  /\ line \in Client!CommandLines
  /\ unsent \in Seq(Client!EventKinds)
  /\ receipts \in Seq({"SUBSCRIBE", "UNSUBSCRIBE", "DISCONNECT"})
  /\ subscriptions \in [Channels -> Nat \cup {None}]
  /\ subscriptionId \in Nat
  /\ conn \in Conns \cup {None}
  /\ sent \in [Conns -> Seq(Sends)]
  /\ delivered \in Nat
  /\ {terminateKeyboard, socketOpen, lost, alone, inputOver} \subseteq BOOLEAN
  /\ typed \in 0 .. MaxLines
  /\ channels \in [Channels -> Seq(Conns \X Nat)]
  /\ answer = None \/ answer.command \in {"CONNECTED", "RECEIPT", "ERROR", "MESSAGE"}
  /\ socket = "findReceipt" => answer.command = "RECEIPT"
  /\ socket = "error" => answer.command = "ERROR"
  /\ socket = "message" =>
       answer.command = "MESSAGE" /\ answer.destination \in Channels
                                 /\ answer.report \in Conns \X Nat

-----------------------------------------------------------------------------
(***************************************************************************)
(* Safety.                                                                 *)
(***************************************************************************)
\* The client keeps to the clients of TpcServer: whatever is typed, it sends
\* only frames whose headers the server can read (an exit has the id of a
\* subscription, a report a channel), so that all that holds of the server
\* alone holds of the platform.
ServerImplemented == Spec

\* The number in a receipt leads the client to the command it sent under that
\* number, although joins and exits use up numbers that are never sent; and
\* the one lookup that matters, that of a logout's receipt, cannot meet an
\* insertion by the keyboard thread (produceReceipt, findReceiptCommand).
ReceiptsMatch ==
  socket = "findReceipt" =>
    /\ \E i \in DOMAIN sent[conn] :
         /\ sent[conn][i].receipt = answer.receipt
         /\ sent[conn][i].frame.command = Client!ReceiptCommand(answer)
    /\ Client!ReceiptCommand(answer) = "DISCONNECT" => ~ Client!Inserting

\* The session goes on, and the server has done all it was asked.
Settled ==
  /\ main = "session" /\ ~ lost
  /\ At(conn, "read") /\ open[conn] /\ ~ shouldTerminate[conn]
  /\ count[conn] = Len(sent[conn])

\* join and exit enter their effect before the server confirms it, and never
\* look at the receipt; still the client's table and the server's agree on
\* channels and ids whenever the server has caught up, in every session that
\* found the server idle.
SubscriptionsAgree ==
  Settled /\ alone =>
    \A ch \in Channels :
      subscriptions[ch] = IF HasChannel(ch) THEN MapOf(ch)[conn] ELSE None

\* The client checks every command against its own table, so the server never
\* refuses a join, an exit or a report, however many are under way at once;
\* but for the exit of an id past the Integer cache
\* (ConnectionsImpl.removeChannelSubscription).
OnlyLoginsRefused ==
  alone /\ conn # None =>
    \A i \in DOMAIN out[conn] : out[conn][i].command = "ERROR" =>
      LET f == sent[conn][out[conn][i].n].frame IN
      \/ f.command = "CONNECT"
      \/ f.command = "UNSUBSCRIBE" /\ f.id \notin CachedIds

\* Nothing follows a DISCONNECT: the keyboard thread sends no further frame
\* on the connection, whatever is typed while the receipt is awaited.  The
\* server relies on it (shouldTerminate is assigned by every frame).
LogoutIsLast ==
  \A c \in Conns : \A i \in DOMAIN sent[c] :
    sent[c][i].frame.command = "DISCONNECT" => i = Len(sent[c])

\* The reports connection c sent on channel ch: its own numbers for them are
\* those the server counts.
ReportsOn(c, ch) ==
  LET rs == ReportsSent(c) IN
  Selected([i \in DOMAIN rs |-> <<c, i - 1>>],
           {i \in DOMAIN rs : rs[i].frame.destination = ch})

\* What a user reports comes back: once everything is delivered, the reports
\* stored for a channel, which summary writes, are those the client sent to
\* it, each once and in order.
OwnReportsStored ==
  /\ Settled /\ alone
  /\ delivered = Len(out[conn]) /\ socket = "read"
  => \A ch \in Channels : channels[ch] = ReportsOn(conn, ch)

-----------------------------------------------------------------------------
(***************************************************************************)
(* Liveness, under FairPlatform.                                           *)
(***************************************************************************)
\* A logout leads back to the login prompt, whether its receipt arrives, the
\* connection breaks first, or the server's thread dies (or an unreadable
\* report on the way ends the program).
LogoutReturns ==
  line.verb = "logout" /\ keyboard = "send" ~> main # "session"

\* After a lost connection, or an ERROR, the next line the user types leads
\* back to the login prompt, and so does the end of the input.
LostSessionReturns ==
  socket = "end" /\ (keyboard = "command" \/ inputOver) ~> main # "session"
=============================================================================
