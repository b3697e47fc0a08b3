----------------------------- MODULE FrameCodec -----------------------------
(***************************************************************************)
(* Frames as text, on both sides: StompFrame.cpp of the client and         *)
(* StompFrame.java of the server, which share their splitting but not the  *)
(* text they write.                                                        *)
(*                                                                         *)
(* A text is a sequence of tokens: line ends, the NUL at the end of a      *)
(* frame that the client keeps and the server strips, and between them     *)
(* lines without a line end, never empty.  A line "k:v" is the record of k *)
(* and v; a line without a colon has the key "".  The value "" is the      *)
(* empty string and "blank" one of spaces and tabs.                        *)
(***************************************************************************)
EXTENDS Integers, Selections

Field(k, v) == [key |-> k, value |-> v]

Word(v) == Field("", v)

NL  == Field("NL", "")
NUL == Field("NUL", "")

IsNL(t) == t.key = "NL"

-----------------------------------------------------------------------------
\* What split pushes at position i: a line; after a line one line end, or two
\* if another follows; nothing at further line ends.
Parts(text, i) ==
  IF ~ IsNL(text[i]) THEN <<text[i]>>
  ELSE IF i = 1 \/ IsNL(text[i - 1]) THEN << >>
  ELSE IF i < Len(text) /\ IsNL(text[i + 1]) THEN <<NL, NL>> ELSE <<NL>>

Split(text) == FlattenSeq([i \in DOMAIN text |-> Parts(text, i)])

\* An empty line: the header lines end at the first one.
EmptyLineAt(parts, i) ==
  i + 1 \in DOMAIN parts /\ IsNL(parts[i]) /\ IsNL(parts[i + 1])

\* The first part of the body, or 0: nothing follows the empty line.
BodyIndex(parts) ==
  LET ends == {i \in 2 .. Len(parts) - 2 : EmptyLineAt(parts, i)}
  IN  IF ends = {} THEN 0 ELSE Min(ends) + 2

Command(parts) == parts[1].value

\* Where the header lines are.
HeaderAt(parts) ==
  LET last == IF BodyIndex(parts) = 0 THEN Len(parts) ELSE BodyIndex(parts) - 3
  IN  {i \in 2 .. last : parts[i].key \notin {"NL", "NUL"}}

Body(parts) ==
  IF BodyIndex(parts) = 0 THEN << >> ELSE SubSeq(parts, BodyIndex(parts), Len(parts))

\* The header map, for a key that is there: the server puts, so the last line
\* with a key counts.
HeaderPut(parts, k) == parts[Max({i \in HeaderAt(parts) : parts[i].key = k})].value

\* The client's constructor reads at(i + 1) and at(i + 2) behind a line end.
ClientParseThrows(parts) ==
  /\ BodyIndex(parts) = 0
  /\ \E i \in 2 .. Len(parts) : IsNL(parts[i]) /\ (i = Len(parts) \/ EmptyLineAt(parts, i))

\* The server's constructor takes the text before the colon of every header
\* line: substring(0, -1) throws.
ServerParseThrows(parts) ==
  \E i \in HeaderAt(parts) : parts[i].key = ""

-----------------------------------------------------------------------------
Terminated(lines) == FlattenSeq([i \in DOMAIN lines |-> <<lines[i], NL>>])

\* createFrame of the client ends the headers with two line ends ...
ClientFrame(command, headers, body) ==
  Terminated(<<Word(command)>> \o headers) \o <<NL, NL>>
    \o IF body = << >> THEN << >> ELSE Append(body, NL)

\* Mutant: the client drops the NUL it has read up to, as the server does.
ServerFrameMutant(command, headers, body) ==
  Terminated(<<Word(command)>> \o headers) \o <<NL>>
    \o (IF body = << >> THEN << >> ELSE Append(body, NL))

\* ... that of the server with one; its encoder adds the NUL.
ServerFrame(command, headers, body) ==
  Terminated(<<Word(command)>> \o headers) \o <<NL>>
    \o (IF body = << >> THEN << >> ELSE Append(body, NL)) \o <<NUL>>
=============================================================================
