----------------------------- MODULE MCPlatform -----------------------------
(***************************************************************************)
(* The values of the constants of Platform for TLC.                        *)
(***************************************************************************)
EXTENDS Platform, TLC

\* Every frame the client can send.
ClientFrames ==
  ConnectFrames \cup SubscribeFrames \cup UnsubscribeFrames \cup SendFrames
    \cup DisconnectFrames

File(ch, events) == [channel |-> ch, events |-> events]

\* For each channel a file with one event, and one whose first event is
\* skipped and whose second nobody can read; and a file that does not exist.
SomeFiles ==
  {File(ch, <<"readable">>) : ch \in Channels}
    \cup {File(ch, <<"incomplete", "unreadable">>) : ch \in Channels}
    \cup {File(None, << >>)}

\* In a session "empty", "other" and a second login do the same: nothing.
SomeLines == {l \in Client!CommandLines : l.verb \notin {"empty", "other"}}
=============================================================================
