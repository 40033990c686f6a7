---------------------------- MODULE OrphanCleanup ----------------------------
(***************************************************************************)
(* cleanup in cmd/controller: at the end of every round the controller     *)
(* removes the namespaces of attempts that are no longer active.  It reads *)
(* the active attempts, then lists the namespaces, then looks at them one  *)
(* after the other; each step is a call of its own, and the worker and the *)
(* store go on in between.                                                 *)
(***************************************************************************)
EXTENDS Worker

CONSTANTS
    Grace,      \* age a namespace must exceed to be removed, 90 s
    MaxRound    \* bound on the time one round takes

ASSUME CleanupAssumption == Grace \in Nat /\ MaxRound \in Nat

VARIABLES
    age,        \* [Attempts -> age of the namespace, up to Grace + 1]
    sweep,      \* where the round is
    keep,       \* the attempts it read as active
    listed,     \* the namespaces it listed and has still to look at
    spent       \* time the round has taken

sweepVars == <<sweep, keep, listed, spent>>
allVars == <<vars, age, sweepVars>>

CleanupInit ==
    /\ Init
    /\ age = [a \in Attempts |-> 0]
    /\ sweep = "idle" /\ keep = {} /\ listed = {} /\ spent = 0

\* GET /v1/internal/active-attempts.
ReadActive ==
    /\ sweep = "idle"
    /\ keep' = {a \in Attempts : active(att[a])}
    /\ sweep' = "list"
    /\ UNCHANGED <<vars, age, listed, spent>>

ListNamespaces ==
    /\ sweep = "list"
    /\ listed' = {a \in Attempts : ns[a] # "absent"}
    /\ sweep' = "delete"
    /\ UNCHANGED <<vars, age, keep, spent>>

\* The age is taken when the namespace has its turn.
Orphan_AnyAge(a) == a \notin keep
Orphan_Inverted(a) == a \in keep /\ age[a] > Grace
Orphan(a) == a \notin keep /\ age[a] > Grace

RemoveOrphan(a) ==
    /\ sweep = "delete" /\ a \in listed /\ Orphan(a)
    /\ ns' = [ns EXCEPT ![a] = IF @ = "live" THEN "terminating" ELSE @]
    /\ listed' = listed \ {a}
    /\ UNCHANGED <<apiVars, workerVars, pod, finished, age, sweep, keep, spent>>

KeepNamespace(a) ==
    /\ sweep = "delete" /\ a \in listed /\ ~Orphan(a)
    /\ listed' = listed \ {a}
    /\ UNCHANGED <<vars, age, sweep, keep, spent>>

\* The round is over, or one of its calls has failed.
EndRound ==
    /\ sweep # "idle"
    /\ sweep' = "idle" /\ keep' = {} /\ listed' = {} /\ spent' = 0
    /\ UNCHANGED <<vars, age>>

Pass ==
    /\ sweep # "idle" => spent < MaxRound
    /\ age' = [a \in Attempts |-> IF ns[a] # "absent" /\ age[a] <= Grace
                                  THEN age[a] + 1 ELSE age[a]]
    /\ spent' = IF sweep = "idle" THEN 0 ELSE spent + 1
    /\ UNCHANGED <<vars, sweep, keep, listed>>

\* Steps of the worker, the store and Kubernetes; a new namespace has age 0.
Beside == /\ age' = [a \in Attempts |-> IF ns'[a] = "absent" THEN 0 ELSE age[a]]
          /\ UNCHANGED sweepVars
WorkerStep == WorkerNext /\ Beside

Next ==
    \/ WorkerStep \/ Pass
    \/ ReadActive \/ ListNamespaces \/ EndRound
    \/ \E a \in Attempts : RemoveOrphan(a) \/ KeepNamespace(a)

Spec == CleanupInit /\ [][Next]_allVars

\* Every call of a goroutine ends; rounds go on, and some time their calls succeed;
\* a namespace that was deleted goes away; time passes.
LiveSpec ==
    /\ Spec
    /\ WF_allVars(ReadActive) /\ SF_allVars(ListNamespaces) /\ WF_allVars(EndRound)
    /\ WF_allVars(Pass)
    /\ \A a \in Attempts :
          /\ WF_allVars((GiveUp(a) \/ Leave(a)) /\ Beside)
          /\ WF_allVars(NamespaceGone(a) /\ Beside)
          /\ SF_allVars(RemoveOrphan(a))

-----------------------------------------------------------------------------
(* Properties. *)

\* The clean-up never removes the namespace of an attempt that is active
\* ("removes abandoned job namespaces whose attempts are no longer active",
\* docs/architecture.md).
ActiveIsKept == [][\A a \in Attempts : RemoveOrphan(a) => ~active(att[a])]_allVars

\* Once an attempt is over its namespace disappears for good, although the worker
\* may be killed anywhere and its own deletion may fail.
AbandonedIsRemoved == \A a \in Attempts : Over(a) ~> [](ns[a] = "absent")

=============================================================================
