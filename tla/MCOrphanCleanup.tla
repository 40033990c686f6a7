-------------------------- MODULE MCOrphanCleanup --------------------------
(***************************************************************************)
(* One attempt, from before its lease until its namespace is gone.         *)
(***************************************************************************)
EXTENDS OrphanCleanup

MCAttempts == {1}
=============================================================================
