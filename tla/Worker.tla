-------------------------------- MODULE Worker --------------------------------
(***************************************************************************)
(* The attempts of one worker from lease to clean-up: the worker process   *)
(* (cmd/worker) and the pod it runs in a namespace of the attempt's own    *)
(* (internal/kube/runner.go).                                              *)
(*                                                                         *)
(* The store is reduced to what an attempt's state is; JobStore has the    *)
(* rest.  There a lease may end at any time, and so it does here.  Attempts*)
(* are numbers in the order in which they are leased.                      *)
(*                                                                         *)
(* The worker runs one goroutine per attempt, pc[a] being where it is; its *)
(* heartbeats run beside it and may fail at any time.  The process may be  *)
(* killed, which leaves pods and namespaces behind, or told to stop, which *)
(* cancels the goroutines.  A kubectl or API call may fail, and an answer  *)
(* may be lost.                                                            *)
(***************************************************************************)
EXTENDS Integers, FiniteSets, FiniteSetsExt

CONSTANTS
    Attempts,   \* the attempts the store leases to this worker
    Capacity,   \* of the worker
    MaxCrashes  \* bound on the restarts of the worker

ASSUME WorkerAssumption ==
    /\ Attempts \subseteq Nat \ {0} /\ IsFiniteSet(Attempts)
    /\ Capacity \in Nat \ {0} /\ MaxCrashes \in Nat

VARIABLES
    att,        \* [Attempts -> AttemptState], in the store
    up,         \* the worker process runs
    polled,     \* a poll has returned and its answer is not yet dealt with
    assigned,   \* that answer
    seen, busy, \* the maps `seen' and `active' of the worker
    pc,         \* [Attempts -> where the goroutine of the attempt is]
    result,     \* [Attempts -> how the pod ended that Execute returned the result of]
    tries,      \* [Attempts -> completions tried without an answer]
    keys,       \* [Attempts -> the objects whose keys the goroutine was given]
    stored,     \* [Attempts -> the objects in the object store]
    refs,       \* [Attempts -> the objects its committed result refers to]
    ns,         \* [Attempts -> phase of the attempt's namespace]
    pod,        \* [Attempts -> state of its pod]
    crashes,    \* restarts so far
    runs,       \* history: [Attempts -> claims by the current process]
    finished    \* history: [Attempts -> how its pods ended]

apiVars == <<att, refs, stored>>
localVars == <<result, tries, keys>>
workerVars == <<up, polled, assigned, seen, busy, pc, localVars, crashes, runs>>
kubeVars == <<ns, pod, finished>>
vars == <<apiVars, workerVars, kubeVars>>

Results == {"SUCCEEDED", "FAILED"}

\* How a pod may end: a build that pushed its image may leave a digest that is none.
Ends == Results \cup {"INVALID_DIGEST"}

AttemptState == {"NONE", "LEASED", "RUNNING", "LOST"} \cup Results
active(s) == s \in {"LEASED", "RUNNING"}
Objects == {"logs", "artifacts.tar", "provenance.json"}
Over(a) == att[a] \in {"LOST"} \cup Results

Init ==
    /\ att = [a \in Attempts |-> "NONE"]
    /\ up = FALSE /\ polled = FALSE /\ assigned = {} /\ seen = {} /\ busy = {}
    /\ pc = [a \in Attempts |-> "idle"]
    /\ result = [a \in Attempts |-> "none"]
    /\ tries = [a \in Attempts |-> 0]
    /\ keys = [a \in Attempts |-> {}]
    /\ stored = [a \in Attempts |-> {}] /\ refs = [a \in Attempts |-> {}]
    /\ ns = [a \in Attempts |-> "absent"]
    /\ pod = [a \in Attempts |-> "none"]
    /\ crashes = 0
    /\ runs = [a \in Attempts |-> 0]
    /\ finished = [a \in Attempts |-> {}]

(***************************************************************************)
(* The store.                                                              *)
(***************************************************************************)

Lease(a) ==
    /\ att[a] = "NONE"
    /\ \A b \in Attempts : b < a => att[b] # "NONE"
    /\ Cardinality({b \in Attempts : active(att[b])}) < Capacity
    /\ att' = [att EXCEPT ![a] = "LEASED"]
    /\ UNCHANGED <<refs, stored, workerVars, kubeVars>>

\* The lease or the time-out has passed, or the job is cancelled.
EndLease(a) ==
    /\ active(att[a])
    /\ att' = [att EXCEPT ![a] = "LOST"]
    /\ UNCHANGED <<refs, stored, workerVars, kubeVars>>

(***************************************************************************)
(* The worker's main loop.                                                 *)
(***************************************************************************)

Start ==
    /\ ~up
    /\ up' = TRUE
    /\ UNCHANGED <<apiVars, polled, assigned, seen, busy, pc, localVars, crashes, runs, kubeVars>>

\* GET assignments.
AssignedLeases == {a \in Attempts : active(att[a])}
Poll ==
    /\ up /\ ~polled
    /\ polled' = TRUE
    /\ assigned' = AssignedLeases
    /\ UNCHANGED <<apiVars, up, seen, busy, pc, localVars, crashes, runs, kubeVars>>

\* claim: what is neither seen nor running, oldest first, while there is room.
\* An attempt that is no longer assigned is forgotten once it has ended.
Remembered == {a \in seen : a \in assigned \/ a \in busy}
Claimable == assigned \ (Remembered \cup busy)
Claim ==
    LET room == IF Cardinality(busy) < Capacity THEN Capacity - Cardinality(busy) ELSE 0
        claimed == {a \in Claimable : Cardinality({b \in Claimable : b <= a}) <= room}
    IN  /\ up /\ polled
        /\ polled' = FALSE
        /\ seen' = Remembered \cup claimed
        /\ busy' = busy \cup claimed
        /\ pc' = [a \in Attempts |-> IF a \in claimed THEN "claimed" ELSE pc[a]]
        /\ runs' = [a \in Attempts |-> IF a \in claimed THEN runs[a] + 1 ELSE runs[a]]
        /\ assigned' = {}
        /\ UNCHANGED <<apiVars, up, localVars, crashes, kubeVars>>

\* The process is killed, by the node or at the end of its grace period.
Kill ==
    /\ up /\ crashes < MaxCrashes
    /\ up' = FALSE /\ polled' = FALSE /\ assigned' = {} /\ seen' = {} /\ busy' = {}
    /\ pc' = [a \in Attempts |-> "idle"]
    /\ result' = [a \in Attempts |-> "none"]
    /\ tries' = [a \in Attempts |-> 0]
    /\ keys' = [a \in Attempts |-> {}]
    /\ runs' = [a \in Attempts |-> 0]
    /\ crashes' = crashes + 1
    /\ UNCHANGED <<apiVars, kubeVars>>

(***************************************************************************)
(* execute, the goroutine of an attempt.                                   *)
(***************************************************************************)

Goto(a, l) == pc' = [pc EXCEPT ![a] = l]
ProcessUnchanged == UNCHANGED <<up, polled, assigned, seen, busy, crashes, runs>>

\* It returns: what it knew is gone, and what it has deferred is left to do.
Return(a) ==
    /\ Goto(a, "cleanup")
    /\ result' = [result EXCEPT ![a] = "none"]
    /\ tries' = [tries EXCEPT ![a] = 0]
    /\ keys' = [keys EXCEPT ![a] = {}]

\* The first heartbeat, whose answer may be lost, and the token for the checkout.
FirstHeartbeat(a) ==
    /\ pc[a] = "claimed" /\ active(att[a])
    /\ att' = [att EXCEPT ![a] = "RUNNING"]
    /\ Goto(a, "prepare") \/ Goto(a, "cleanup")
    /\ ProcessUnchanged
    /\ UNCHANGED <<refs, stored, localVars, kubeVars>>

\* Prepare: an existing namespace and pod of this attempt are taken over; nothing
\* can be created in a namespace that is going away.
Prepare(a) ==
    /\ pc[a] = "prepare"
    /\ ns[a] = "terminating" => pod[a] # "none"
    /\ ns' = [ns EXCEPT ![a] = IF @ = "absent" THEN "live" ELSE @]
    /\ \/ /\ pod' = [pod EXCEPT ![a] = IF @ = "none" THEN "running" ELSE @]
          /\ Goto(a, "watch")
       \/ /\ UNCHANGED pod
          /\ Goto(a, "cleanup")
    /\ ProcessUnchanged
    /\ UNCHANGED <<apiVars, localVars, finished>>

\* Execute reads that the pod has ended and returns its result.
PodEnded_Gone(a) == pod[a] # "running"
PodEnded(a) == pod[a] \in Ends
Watch(a) ==
    /\ pc[a] = "watch" /\ PodEnded(a)
    /\ result' = [result EXCEPT ![a] = IF pod[a] \in Ends THEN pod[a] ELSE "FAILED"]
    /\ Goto(a, "upload") /\ ProcessUnchanged
    /\ UNCHANGED <<apiVars, tries, keys, kubeVars>>

\* What the worker makes of it: a success with a digest of the wrong form is reported
\* as a failure, with all that the pod produced.
Verdict(r) == IF r = "SUCCEEDED" THEN "SUCCEEDED" ELSE "FAILED"

\* What is uploaded next: the log first, then the archive of a pod that did not fail
\* (which stands for the build metadata as well), the provenance last.
NextObjects(a) ==
    IF keys[a] = {} THEN {"logs"}
    ELSE {"provenance.json"} \cup
            {n \in {"artifacts.tar"} \ keys[a] : result[a] # "FAILED"}

\* PUT objects/{name}: the transaction finds the lease good, and is over.
Authorise(a) ==
    /\ pc[a] = "upload" /\ active(att[a])
    /\ Goto(a, "put") /\ ProcessUnchanged
    /\ UNCHANGED <<apiVars, localVars, kubeVars>>

\* Then the object is stored and the worker is given its key, or it is not answered
\* and gives up, as it does when nothing was stored (GiveUp).
PutObject(a, n) == stored' = [stored EXCEPT ![a] = @ \cup {n}]
AfterFailedPut_Report(a) == Goto(a, "complete") /\ UNCHANGED localVars
AfterFailedPut(a) == Return(a)
Put(a, n) ==
    /\ pc[a] = "put" /\ n \in NextObjects(a)
    /\ \/ /\ PutObject(a, n)
          /\ keys' = [keys EXCEPT ![a] = @ \cup {n}]
          /\ Goto(a, IF n = "provenance.json" THEN "complete" ELSE "upload")
          /\ UNCHANGED <<result, tries>>
       \/ /\ PutObject(a, n)
          /\ AfterFailedPut(a)
    /\ ProcessUnchanged
    /\ UNCHANGED <<att, refs, kubeVars>>

\* POST complete, up to three times: answered, which commits the result of a lease
\* that is good, or without an answer, whether committed or not.
Complete(a) ==
    LET commit == /\ active(att[a])
                  /\ att' = [att EXCEPT ![a] = Verdict(result[a])]
                  /\ refs' = [refs EXCEPT ![a] = keys[a]]
        again == /\ tries[a] < 2
                 /\ tries' = [tries EXCEPT ![a] = @ + 1]
                 /\ UNCHANGED <<pc, result, keys>>
    IN  /\ pc[a] = "complete"
        /\ \/ /\ commit \/ (~active(att[a]) /\ UNCHANGED <<att, refs>>)
              /\ Return(a)
           \/ /\ commit \/ UNCHANGED <<att, refs>>
              /\ again \/ (tries[a] = 2 /\ Return(a))
        /\ ProcessUnchanged
        /\ UNCHANGED <<stored, kubeVars>>

\* A call fails, a heartbeat is refused or the process is told to stop: the
\* goroutine gives up.  The attempt is left to its lease.
GiveUp(a) ==
    /\ pc[a] \in {"claimed", "prepare", "watch", "upload", "put", "complete"}
    /\ Return(a) /\ ProcessUnchanged
    /\ UNCHANGED <<apiVars, kubeVars>>

\* The deferred DeleteNamespace, which may fail, and the end of the goroutine.
Remembers_Nothing(a) == seen \ {a}
Remembers(a) == seen
Leave(a) ==
    /\ pc[a] = "cleanup"
    /\ \/ ns' = [ns EXCEPT ![a] = IF @ = "live" THEN "terminating" ELSE @]
       \/ UNCHANGED ns
    /\ Goto(a, "idle")
    /\ busy' = busy \ {a}
    /\ seen' = Remembers(a)
    /\ UNCHANGED <<apiVars, up, polled, assigned, localVars, crashes, runs, pod, finished>>

(***************************************************************************)
(* Kubernetes.                                                             *)
(***************************************************************************)

\* The pod ends, at the latest at its activeDeadlineSeconds.
PodEnds(a, r) ==
    /\ pod[a] = "running"
    /\ pod' = [pod EXCEPT ![a] = r]
    /\ finished' = [finished EXCEPT ![a] = @ \cup {r}]
    /\ UNCHANGED <<apiVars, workerVars, ns>>

\* The pod is evicted, or removed with its namespace.
PodGone(a) ==
    /\ pod[a] # "none"
    /\ pod' = [pod EXCEPT ![a] = "none"]
    /\ UNCHANGED <<apiVars, workerVars, ns, finished>>

NamespaceGone(a) ==
    /\ ns[a] = "terminating"
    /\ ns' = [ns EXCEPT ![a] = "absent"]
    /\ pod' = [pod EXCEPT ![a] = "none"]
    /\ UNCHANGED <<apiVars, workerVars, finished>>

Execute(a) ==
    \/ FirstHeartbeat(a) \/ Prepare(a) \/ Watch(a) \/ Authorise(a) \/ Complete(a)
    \/ \E n \in Objects : Put(a, n)
    \/ GiveUp(a) \/ Leave(a)

WorkerNext ==
    \/ Start \/ Poll \/ Claim \/ Kill
    \/ \E a \in Attempts :
          \/ Lease(a) \/ EndLease(a) \/ Execute(a)
          \/ PodGone(a) \/ NamespaceGone(a)
          \/ \E r \in Ends : PodEnds(a, r)

WorkerSpec == Init /\ [][WorkerNext]_vars

-----------------------------------------------------------------------------
(* Properties. *)

\* The types of the variables; proved in WorkerProofs (TypeCorrect).
TypeOK ==
    /\ att \in [Attempts -> AttemptState]
    /\ up \in BOOLEAN /\ polled \in BOOLEAN /\ assigned \subseteq Attempts
    /\ seen \subseteq Attempts /\ busy \subseteq seen
    /\ pc \in [Attempts -> {"idle", "claimed", "prepare", "watch", "upload", "put", "complete",
                         "cleanup"}]
    /\ result \in [Attempts -> Ends \cup {"none"}]
    /\ tries \in [Attempts -> 0 .. 2]
    /\ keys \in [Attempts -> SUBSET Objects] /\ refs \in [Attempts -> SUBSET Objects]
    /\ stored \in [Attempts -> SUBSET Objects]
    /\ ns \in [Attempts -> {"absent", "live", "terminating"}]
    /\ pod \in [Attempts -> {"none", "running"} \cup Ends]
    /\ crashes \in 0 .. MaxCrashes
    /\ runs \in [Attempts -> Nat]
    /\ finished \in [Attempts -> SUBSET Ends]

\* A process runs an attempt at most once, however long its lease goes on: a failed
\* execution is left to the lease and the retry limit (claim).
ClaimedOnce == \A a \in Attempts : runs[a] <= 1

\* A success is committed only if a pod of the attempt succeeded, and what it left
\* as its digest is one; a failure only if one failed or left a digest that is none.
\* So it is although pods vanish, the worker is restarted, an attempt may have several
\* pods and completions are repeated (Execute in runner.go; execute, lines 276-280).
NoInventedResult ==
    \A a \in Attempts :
        /\ att[a] = "SUCCEEDED" => "SUCCEEDED" \in finished[a]
        /\ att[a] = "FAILED" => finished[a] \cap {"FAILED", "INVALID_DIGEST"} # {}

\* A result is committed with its log and its provenance, and every object it refers
\* to is in the object store, although each upload may fail, or succeed unknown to
\* the worker, after the transaction that allowed it ("Download committed
\* logs/artifacts", docs/api.md).
ResultIsDocumented ==
    \A a \in Attempts :
        att[a] \in Results =>
            {"logs", "provenance.json"} \subseteq refs[a] /\ refs[a] \subseteq stored[a]

=============================================================================
