---------------------------- MODULE MCTpcServer ----------------------------
(***************************************************************************)
(* The values of the constants of TpcServer for TLC: the frames clients    *)
(* send in each run.                                                       *)
(***************************************************************************)
EXTENDS TpcServer

\* Clients that log in, under any name and passcode, and log out.
LoginFrames == ConnectFrames \cup DisconnectFrames

\* Clients that subscribe and report.
ReportFrames == SubscribeFrames \cup SendFrames

\* Clients that subscribe, report and unsubscribe.
ChannelFrames == ReportFrames \cup UnsubscribeFrames

\* Clients that subscribe, report and log out.
VisitFrames == ReportFrames \cup DisconnectFrames

\* Every frame.
AllFrames == LoginFrames \cup ChannelFrames
=============================================================================
