----------------------------- MODULE MCPreviews -----------------------------
(***************************************************************************)
(* One pull request: opened, a new revision that replaces the preview of   *)
(* the first, and a closing.                                               *)
(***************************************************************************)
EXTENDS PreviewController

MCMessages == 1 .. 3
MCRequestID == <<1, 2, 3>>
MCPRNumber == [m \in MCMessages |-> 7]
MCRevision == <<1, 2, 2>>
MCEventTime == <<1, 2, 3>>
MCTTL == <<1, 2, 0>>
=============================================================================
