--------------------------- MODULE MCPersistence ----------------------------
(***************************************************************************)
(* Two replicas with a connection each; an attempt with two results that   *)
(* contradict each other, as two processes of a worker that was restarted  *)
(* may report them.                                                        *)
(***************************************************************************)
EXTENDS Persistence

MCReplicas == {"h1", "h2"}
MCConns == {"c1", "c2"}
MCHostOf == [c1 |-> "h1", c2 |-> "h2"]
MCAttempts == {"a"}
MCResults == {"a_ok", "a_bad"}
MCAttemptOf == [r \in MCResults |-> "a"]
=============================================================================
