--------------------------- MODULE MCPullRequests ---------------------------
(***************************************************************************)
(* One pull request: opened, a new revision and a closing with the same    *)
(* time, the first revision again at a later time, and a manual run whose  *)
(* request ID is that of the second message.  And a push.                  *)
(***************************************************************************)
EXTENDS PullRequests

MCMessages == 1 .. 6
MCRequestID == <<1, 2, 3, 4, 2, 5>>
MCPRNumber == <<7, 7, 7, 7, 7, 0>>
MCRevision == <<1, 2, 2, 1, 1, 3>>
MCEventTime == <<1, 2, 2, 3, 0, 0>>
MCTTL == <<1, 2, 0, 1, 1, 0>>
=============================================================================
