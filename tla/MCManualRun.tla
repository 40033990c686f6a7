---------------------------- MODULE MCManualRun ----------------------------
(***************************************************************************)
(* A pull request is opened, run by hand and closed.                       *)
(***************************************************************************)
EXTENDS PullRequests

MCMessages == 1 .. 3
MCRequestID == <<1, 2, 3>>
MCPRNumber == [m \in MCMessages |-> 7]
MCRevision == <<1, 1, 1>>
MCEventTime == <<1, 0, 2>>
MCTTL == <<1, 1, 0>>
=============================================================================
