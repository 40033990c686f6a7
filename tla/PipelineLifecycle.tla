------------------------- MODULE PipelineLifecycle --------------------------
(***************************************************************************)
(* What the control plane promises about a pipeline, without workers,      *)
(* leases, retries or time: it is accepted once, it runs its jobs in the   *)
(* order of their dependencies, a committed success is never taken back or *)
(* committed twice, it ends in exactly one way, and it is forgotten only   *)
(* after it has ended.  JobStore implements this specification.            *)
(***************************************************************************)
EXTENDS Naturals, FiniteSets

CONSTANTS Pipelines, Jobs, PipelineOf, Needs

VARIABLES
    status, \* [Pipelines -> the state a client sees, "NONE" or "PRUNED"]
    done    \* the jobs whose success has been committed

lifecycleVars == <<status, done>>

Members(p) == {j \in Jobs : PipelineOf[j] = p}
IsOpen(p) == status[p] \in {"QUEUED", "RUNNING"}
IsOver(p) == status[p] \in {"SUCCEEDED", "FAILED", "CANCELLED"}

LifecycleInit == status = [p \in Pipelines |-> "NONE"] /\ done = {}

\* A pipeline is accepted; the open pipelines S it supersedes are cancelled.
Accept(p, S) ==
    /\ status[p] = "NONE"
    /\ \A q \in S : IsOpen(q)
    /\ status' = [q \in Pipelines |-> IF q = p THEN "QUEUED"
                                      ELSE IF q \in S THEN "CANCELLED" ELSE status[q]]
    /\ UNCHANGED done

Start(p) ==
    /\ status[p] = "QUEUED"
    /\ status' = [status EXCEPT ![p] = "RUNNING"]
    /\ UNCHANGED done

\* The success of job j is committed, and with the last one the pipeline's.
Commit(j) ==
    LET p == PipelineOf[j]
    IN  /\ status[p] = "RUNNING"
        /\ j \notin done /\ Needs[j] \subseteq done
        /\ done' = done \cup {j}
        /\ status' = [status EXCEPT ![p] =
                         IF Members(p) \subseteq done' THEN "SUCCEEDED" ELSE "RUNNING"]

Fail(p) ==
    /\ status[p] = "RUNNING"
    /\ status' = [status EXCEPT ![p] = "FAILED"]
    /\ UNCHANGED done

Cancel(S) ==
    /\ \A p \in S : IsOpen(p)
    /\ status' = [p \in Pipelines |-> IF p \in S THEN "CANCELLED" ELSE status[p]]
    /\ UNCHANGED done

Forget(S) ==
    /\ \A p \in S : IsOver(p)
    /\ status' = [p \in Pipelines |-> IF p \in S THEN "PRUNED" ELSE status[p]]
    /\ done' = {j \in done : PipelineOf[j] \notin S}

LifecycleNext ==
    \/ \E p \in Pipelines : Start(p) \/ Fail(p) \/ \E S \in SUBSET Pipelines : Accept(p, S)
    \/ \E j \in Jobs : Commit(j)
    \/ \E S \in SUBSET Pipelines : Cancel(S) \/ Forget(S)

LifecycleSpec == LifecycleInit /\ [][LifecycleNext]_lifecycleVars

=============================================================================
