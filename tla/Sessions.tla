------------------------------ MODULE Sessions ------------------------------
(***************************************************************************)
(* What the server promises to the client of a connection, in terms of the *)
(* replies only (CONNECTED, RECEIPT and ERROR; MESSAGE frames are          *)
(* broadcasts of others).  Requests are answered one at a time and in      *)
(* order, each at most once: a SEND that succeeds is not answered at all,  *)
(* an ERROR or the receipt of a DISCONNECT is the last answer (an ERROR    *)
(* may be written twice), and the server may hang up at any moment, also   *)
(* in the middle of a request.  Connections are independent.               *)
(***************************************************************************)
EXTENDS Integers, Sequences

CONSTANT Conns

VARIABLES
  phase,    \* connection -> "idle", "busy", "ending" or "closed"
  command,  \* connection -> the command of the request taken last
  taken,    \* connection -> how many requests were taken
  replies   \* connection -> the replies so far

sessions == <<phase, command, taken, replies>>

Commands == {"CONNECT", "SUBSCRIBE", "UNSUBSCRIBE", "SEND", "DISCONNECT"}

Init ==
  /\ phase = [c \in Conns |-> "idle"]
  /\ command = [c \in Conns |-> "none"]
  /\ taken = [c \in Conns |-> 0]
  /\ replies = [c \in Conns |-> << >>]

Enter(c, p) == phase' = [phase EXCEPT ![c] = p]

Answer(c, kind) ==
  replies' = [replies EXCEPT ![c] = Append(@, [command |-> kind, n |-> taken[c]])]

Take(c) ==
  /\ phase[c] = "idle"
  /\ Enter(c, "busy")
  /\ \E cmd \in Commands : command' = [command EXCEPT ![c] = cmd]
  /\ taken' = [taken EXCEPT ![c] = @ + 1]
  /\ UNCHANGED replies

Accept(c) ==
  /\ phase[c] = "busy"
  /\ command[c] # "SEND"
  /\ Answer(c, IF command[c] = "CONNECT" THEN "CONNECTED" ELSE "RECEIPT")
  /\ Enter(c, IF command[c] = "DISCONNECT" THEN "ending" ELSE "idle")
  /\ UNCHANGED <<command, taken>>

Publish(c) ==
  /\ phase[c] = "busy"
  /\ command[c] = "SEND"
  /\ Enter(c, "idle")
  /\ UNCHANGED <<command, taken, replies>>

Refuse(c) ==
  /\ phase[c] = "busy"
  /\ command[c] # "DISCONNECT"
  /\ Answer(c, "ERROR")
  /\ Enter(c, "ending")
  /\ UNCHANGED <<command, taken>>

Errors(c) == {i \in DOMAIN replies[c] : replies[c][i].command = "ERROR"}

\* The second copy of the ERROR.
RefuseAgain(c) ==
  /\ phase[c] = "ending"
  /\ command[c] \in {"CONNECT", "SEND"}
  /\ \E i \in DOMAIN replies[c] : Errors(c) = {i}
  /\ Answer(c, "ERROR")
  /\ UNCHANGED <<phase, command, taken>>

HangUp(c) ==
  /\ phase[c] # "closed"
  /\ Enter(c, "closed")
  /\ UNCHANGED <<command, taken, replies>>

Next ==
  \E c \in Conns : Take(c) \/ Accept(c) \/ Publish(c) \/ Refuse(c)
                     \/ RefuseAgain(c) \/ HangUp(c)

Spec == Init /\ [][Next]_sessions
=============================================================================
