------------------------------- MODULE Client -------------------------------
(***************************************************************************)
(* The client program: the main thread, which reads the login line and     *)
(* opens a session (StompClient.cpp), and the two threads of a session, the *)
(* keyboard thread and the socket thread (StompProtocol.cpp), over the     *)
(* flags, the receipts, the subscriptions and the stored reports they      *)
(* share without a lock (ConnectionHandler.cpp).                           *)
(*                                                                         *)
(* The module is open: what a thread reads or writes at the socket is a    *)
(* parameter of its action, and Platform, which owns the network, says     *)
(* when a read or a write succeeds.                                        *)
(*                                                                         *)
(* terminateServerResponses is written and read by the socket thread only: *)
(* a handler that sets it goes to "end".                                   *)
(***************************************************************************)
EXTENDS Integers, Sequences

CONSTANTS
  Users, Passcodes, Channels,
  Files,   \* the report files at hand; channel None: parseEventsFile throws
  None

\* An event of a report file: one its receivers can parse, one that makes
\* parseEventReport throw, one without the keys the report command looks up.
EventKinds == {"readable", "unreadable", "incomplete"}

\* The lines a user types, by what the program does with them: "blank" is a
\* line of spaces, "other" one that is refused with a message, or, at the
\* login prompt, ignored.
CommandLines ==
  [verb : {"login"}, login : Users, passcode : Passcodes]
    \cup [verb : {"join", "exit", "summary"}, channel : Channels]
    \cup [verb : {"report"}, file : Files]
    \cup [verb : {"logout", "empty", "blank", "other"}]

VARIABLES
  main,              \* label of the main thread
  keyboard,          \* label of the keyboard thread
  socket,            \* label of the socket thread
  line,              \* the line taken last, by whichever thread reads cin
  unsent,            \* events of a report file still to be sent
  answer,            \* the frame the socket thread has read last
  terminateKeyboard,
  socketOpen,        \* the socket of the connection handler is open
  receipts,          \* command of each receipt number produced so far
  subscriptions,     \* channel -> id of the subscription, or None
  subscriptionId,    \* next subscription id
  channels           \* channel -> reports stored, in order

input   == <<line, unsent>>
tables  == <<receipts, subscriptions, subscriptionId, channels>>

NoLine == [verb |-> "other"]

ClientInit ==
  /\ main = "getline" /\ keyboard = "end" /\ socket = "end"
  /\ line = NoLine /\ unsent = << >>
  /\ answer = None
  /\ terminateKeyboard = FALSE /\ socketOpen = FALSE
  /\ receipts = << >>
  /\ subscriptions = [ch \in Channels |-> None]
  /\ subscriptionId = 0
  /\ channels = [ch \in Channels |-> << >>]

\* Both threads are over, and the protocol object and the connection handler
\* are destroyed with all they hold; the handler's destructor closes the
\* socket.
Destroyed ==
  /\ keyboard' = "end" /\ socket' = "end"
  /\ line' = NoLine /\ unsent' = << >>
  /\ answer' = None
  /\ terminateKeyboard' = FALSE /\ socketOpen' = FALSE
  /\ receipts' = << >>
  /\ subscriptions' = [ch \in Channels |-> None]
  /\ subscriptionId' = 0
  /\ channels' = [ch \in Channels |-> << >>]

\* An exception that leaves a thread, or undefined behaviour that crashes,
\* ends the whole process, and the operating system closes its socket.
ProcessEnds == main' = "terminated" /\ Destroyed

-----------------------------------------------------------------------------
(***************************************************************************)
(* The main thread.                                                        *)
(***************************************************************************)
\* A login line, and connect succeeded.
Login(l) ==
  /\ main = "getline" /\ l.verb = "login"
  /\ main' = "login" /\ line' = l
  /\ socketOpen' = TRUE
  /\ UNCHANGED <<keyboard, socket, unsent, answer, terminateKeyboard, tables>>

\* The CONNECT frame is sent: the two threads start.
StartSession ==
  /\ main = "login"
  /\ main' = "session" /\ keyboard' = "loop" /\ socket' = "read"
  /\ UNCHANGED <<input, answer, terminateKeyboard, socketOpen, tables>>

\* "Could not loggin try again".
LoginFails == main = "login" /\ main' = "getline" /\ Destroyed

JoinThreads ==
  /\ main = "session" /\ keyboard = "end" /\ socket = "end"
  /\ main' = "getline"
  /\ Destroyed

\* partsOfCommand[0] of a line without words reads an element of an empty
\* vector.
LoginLineEmpty(l) ==
  /\ main = "getline" /\ l.verb \in {"empty", "blank"}
  /\ ProcessEnds

-----------------------------------------------------------------------------
(***************************************************************************)
(* The keyboard thread.                                                    *)
(***************************************************************************)
Proceed(label) == keyboard' = label

\* while (!terminateKeyboard)
KeyboardLoop ==
  /\ keyboard = "loop"
  /\ Proceed(IF terminateKeyboard THEN "end" ELSE "getline")
  /\ UNCHANGED <<main, socket, input, answer, terminateKeyboard, socketOpen, tables>>

GetLine(l) ==
  /\ keyboard = "getline"
  /\ line' = l
  /\ Proceed("command")
  /\ UNCHANGED <<main, socket, unsent, answer, terminateKeyboard, socketOpen, tables>>

\* getline fails, at the end of the input or after a line of more than 1023
\* characters, and so it will for ever: the loop spins.
GetLineFails ==
  /\ keyboard = "getline"
  /\ Proceed("loop")
  /\ UNCHANGED <<main, socket, input, answer, terminateKeyboard, socketOpen, tables>>

Joined(ch) == subscriptions[ch] # None

\* Mutant: a report does not look whether its channel is joined.
BeginMutant(l) ==
  CASE l.verb \in {"join", "exit", "logout"} -> "produceReceipt"
    [] l.verb = "report"  -> "report"
    [] l.verb = "summary" -> IF Joined(l.channel) THEN "summary" ELSE "loop"
    [] OTHER              -> "loop"

\* The first label of a command.
Begin(l) ==
  CASE l.verb \in {"join", "exit", "logout"} -> "produceReceipt"
    [] l.verb = "report"  -> IF Joined(l.file.channel) THEN "report" ELSE "loop"
    [] l.verb = "summary" -> IF Joined(l.channel) THEN "summary" ELSE "loop"
    [] OTHER              -> "loop"

\* The line is dropped when the session has ended in the meantime.
Command ==
  /\ keyboard = "command"
  /\ terminateKeyboard \/ (line.verb # "blank" /\ ~ (line.verb = "report" /\ line.file.channel = None))
  /\ Proceed(IF terminateKeyboard THEN "loop" ELSE Begin(line))
  /\ unsent' = IF ~ terminateKeyboard /\ line.verb = "report" THEN line.file.events ELSE << >>
  /\ UNCHANGED <<main, socket, line, answer, terminateKeyboard, socketOpen, tables>>

\* A line of spaces has no first word, and parseEventsFile throws in a file
\* it cannot read; nothing in the thread catches.
CommandFails ==
  /\ keyboard = "command" /\ ~ terminateKeyboard
  /\ line.verb = "blank" \/ (line.verb = "report" /\ line.file.channel = None)
  /\ ProcessEnds

\* Mutant: an exit does not look whether the channel is joined.
ToSendMutant == line.verb # "join" \/ ~ Joined(line.channel)

\* Whether a frame follows the first receipt of a command.
ToSend ==
  CASE line.verb = "join"   -> ~ Joined(line.channel)
    [] line.verb = "exit"   -> Joined(line.channel)
    [] line.verb = "logout" -> TRUE

CommandOf(verb) ==
  CASE verb = "join" -> "SUBSCRIBE" [] verb = "exit" -> "UNSUBSCRIBE"
    [] verb = "logout" -> "DISCONNECT" [] verb = "report" -> "SEND"

\* produceReceipt: a join or an exit takes a number before it looks whether
\* there is anything to send ...
ProduceReceipt ==
  /\ keyboard = "produceReceipt"
  /\ receipts' = Append(receipts, CommandOf(line.verb))
  /\ Proceed(IF ~ ToSend THEN "loop"
             ELSE IF line.verb = "exit" THEN "produceReceiptAgain" ELSE "send")
  /\ UNCHANGED <<main, socket, input, answer, terminateKeyboard, socketOpen,
                 subscriptions, subscriptionId, channels>>

\* ... and an exit that does send takes a second one.
ProduceReceiptAgain ==
  /\ keyboard = "produceReceiptAgain"
  /\ receipts' = Append(receipts, "UNSUBSCRIBE")
  /\ Proceed("send")
  /\ UNCHANGED <<main, socket, input, answer, terminateKeyboard, socketOpen,
                 subscriptions, subscriptionId, channels>>

\* Mutant: the program also keeps the report it is about to send.
NextEventMutant ==
  /\ keyboard = "report"
  /\ IF unsent = << >> THEN Proceed("loop") /\ UNCHANGED <<unsent, channels>>
     ELSE IF Head(unsent) = "incomplete"
          THEN Proceed("report") /\ unsent' = Tail(unsent) /\ UNCHANGED channels
          ELSE /\ Proceed("send") /\ UNCHANGED unsent
               /\ channels' = [channels EXCEPT ![line.file.channel] = Append(@, Head(unsent))]
  /\ UNCHANGED <<main, socket, line, answer, terminateKeyboard, socketOpen,
                 receipts, subscriptions, subscriptionId>>

\* The next event of the file: without the expected keys it is skipped.
NextEvent ==
  /\ keyboard = "report"
  /\ IF unsent = << >> THEN Proceed("loop") /\ UNCHANGED unsent
     ELSE IF Head(unsent) = "incomplete"
          THEN Proceed("report") /\ unsent' = Tail(unsent)
          ELSE Proceed("send") /\ UNCHANGED unsent
  /\ UNCHANGED <<main, socket, line, answer, terminateKeyboard, socketOpen, tables>>

\* The frame the program sends next, and the receipt number in it: the one
\* produced last, or none.
Output ==
  CASE line.verb = "login"  -> [command |-> "CONNECT", login |-> line.login,
                                passcode |-> line.passcode]
    [] line.verb = "join"   -> [command |-> "SUBSCRIBE", destination |-> line.channel,
                                id |-> subscriptionId]
    [] line.verb = "exit"   -> [command |-> "UNSUBSCRIBE",
                                id |-> subscriptions[line.channel]]
    [] line.verb = "report" -> [command |-> "SEND", destination |-> line.file.channel]
    [] line.verb = "logout" -> [command |-> "DISCONNECT"]

OutputReceipt ==
  IF line.verb \in {"login", "report"} THEN None ELSE Len(receipts) - 1

\* Mutant: exit leaves its subscription in the table.
EnterSubscriptionMutant ==
  IF line.verb = "join"
  THEN /\ subscriptions' = [subscriptions EXCEPT ![line.channel] = subscriptionId]
       /\ subscriptionId' = subscriptionId + 1
  ELSE UNCHANGED <<subscriptions, subscriptionId>>

\* What join and exit do to the table once their frame is written.
EnterSubscription ==
  \/ /\ line.verb = "join"
     /\ subscriptions' = [subscriptions EXCEPT ![line.channel] = subscriptionId]
     /\ subscriptionId' = subscriptionId + 1
  \/ /\ line.verb = "exit"
     /\ subscriptions' = [subscriptions EXCEPT ![line.channel] = None]
     /\ UNCHANGED subscriptionId
  \/ /\ line.verb \in {"report", "logout"}
     /\ UNCHANGED <<subscriptions, subscriptionId>>

\* Mutant: a logout leaves the flag alone.
LogoutEndsMutant == UNCHANGED terminateKeyboard

\* A logout ends the keyboard thread, whether or not its frame is written.
LogoutEnds == terminateKeyboard' = (terminateKeyboard \/ line.verb = "logout")

\* A report goes on with its next event, sent or not.
AfterSend ==
  /\ keyboard = "send"
  /\ Proceed(IF line.verb = "report" THEN "report" ELSE "loop")
  /\ unsent' = IF line.verb = "report" THEN Tail(unsent) ELSE unsent
  /\ LogoutEnds
  /\ UNCHANGED <<main, socket, line, answer, socketOpen, receipts, channels>>

\* sendFrame returned true: the frame and its delimiter are written.
Sent == AfterSend /\ EnterSubscription

\* sendFrame returned false.
SendFails == AfterSend /\ UNCHANGED <<subscriptions, subscriptionId>>

\* getEventbyUser and writeToFile have returned.
SummaryDone ==
  /\ keyboard = "summary"
  /\ Proceed("loop")
  /\ UNCHANGED <<main, socket, input, answer, terminateKeyboard, socketOpen, tables>>

-----------------------------------------------------------------------------
(***************************************************************************)
(* The socket thread.                                                      *)
(***************************************************************************)
\* getLine returned the frame m.
ReadFrame(m) ==
  /\ socket = "read" /\ socketOpen
  /\ answer' = m
  /\ socket' = CASE m.command = "CONNECTED" -> "read"
                 [] m.command = "RECEIPT"   -> "findReceipt"
                 [] m.command = "ERROR"     -> "error"
                 [] m.command = "MESSAGE"   -> "message"
  /\ UNCHANGED <<main, keyboard, input, terminateKeyboard, socketOpen, tables>>

\* Mutant: the keyboard thread is not told.
ReadFailsMutant ==
  /\ socket = "read"
  /\ socket' = "end"
  /\ UNCHANGED <<main, keyboard, input, answer, terminateKeyboard, socketOpen, tables>>

\* getLine returned false.
ReadFails ==
  /\ socket = "read"
  /\ terminateKeyboard' = TRUE
  /\ socket' = "end"
  /\ UNCHANGED <<main, keyboard, input, answer, socketOpen, tables>>

\* The keyboard thread is inserting into receipts at this moment.
Inserting == keyboard \in {"produceReceipt", "produceReceiptAgain"}

\* Mutant: only the last command is remembered.
ReceiptCommandMutant(m) == receipts[Len(receipts)]

\* What the lookup of an answer's receipt number finds in receipts.
ReceiptCommand(m) == receipts[m.receipt + 1]

\* findReceiptCommand and what follows it.  A lookup in a map that another
\* thread changes may miss: what end() points at is no command.
FindReceipt ==
  /\ socket = "findReceipt"
  /\ \/ /\ ReceiptCommand(answer) = "DISCONNECT"
        /\ socketOpen' = FALSE
        /\ socket' = "end"
     \/ /\ ReceiptCommand(answer) # "DISCONNECT" \/ Inserting
        /\ socket' = "read"
        /\ UNCHANGED socketOpen
  /\ UNCHANGED <<main, keyboard, input, answer, terminateKeyboard, tables>>

HandleError ==
  /\ socket = "error"
  /\ terminateKeyboard' = TRUE
  /\ socketOpen' = FALSE
  /\ socket' = "end"
  /\ UNCHANGED <<main, keyboard, input, answer, tables>>

AddReport ==
  /\ socket = "message" /\ answer.event = "readable"
  /\ channels' = [channels EXCEPT ![answer.destination] = Append(@, answer.report)]
  /\ socket' = "read"
  /\ UNCHANGED <<main, keyboard, input, answer, terminateKeyboard, socketOpen,
                 receipts, subscriptions, subscriptionId>>

\* parseEventReport throws.
ReportUnreadable ==
  /\ socket = "message" /\ answer.event = "unreadable"
  /\ ProcessEnds

\* Two unsynchronised accesses, one of them a write, overlap: the lookup of a
\* receipt while one is inserted, a summary while a report is stored, the close
\* after an ERROR while a frame is written (the close after a logout finds the
\* keyboard thread past its last frame: LogoutIsLast).
Race ==
  \/ socket = "findReceipt" /\ Inserting
  \/ socket = "message" /\ keyboard = "summary"
  \/ socket = "error" /\ keyboard = "send"

RaceCrashes == Race /\ ProcessEnds
=============================================================================
