---------------------------- MODULE WorkerProofs ----------------------------
(***************************************************************************)
(* What holds of a worker's attempts, and of the clean-up of the job       *)
(* namespaces beside it, for any set of attempts, any capacity and any     *)
(* number of restarts.                                                     *)
(***************************************************************************)
EXTENDS OrphanCleanup, TLAPS

-----------------------------------------------------------------------------
(* The inductive invariant of the worker, attempt by attempt. *)

\* An attempt that this process has run is remembered until the store has ended it,
\* and no answer that is still to be dealt with brings it back.
Once(a) ==
    /\ runs[a] \in 0 .. 1
    /\ a \in assigned => att[a] # "NONE"
    /\ runs[a] = 1 => /\ att[a] # "NONE"
                      /\ a \notin seen => Over(a) /\ a \notin assigned
                      /\ polled /\ a \notin assigned => Over(a)

\* Nothing is left of an earlier execution, and a goroutine knows nothing before its pod
\* has ended and when it cleans up.
Fresh(a) ==
    /\ a \notin busy => pc[a] = "idle"
    /\ pc[a] \in {"idle", "claimed", "prepare", "watch", "cleanup"} =>
          result[a] = "none" /\ keys[a] = {}
    /\ pc[a] # "complete" => tries[a] = 0

\* Every result on its way to the store is that of a pod the attempt had, and what was
\* committed is the verdict on one.
Witnessed(a) ==
    /\ pod[a] \in Ends => pod[a] \in finished[a]
    /\ result[a] # "none" => result[a] \in finished[a]
    /\ pc[a] \in {"upload", "put", "complete"} => result[a] # "none"
    /\ att[a] \in Results => \E r \in finished[a] : att[a] = Verdict(r)

\* The keys are those of stored objects, the log's the first of them.
Uploaded(a) ==
    /\ keys[a] \subseteq stored[a]
    /\ keys[a] # {} => "logs" \in keys[a]
    /\ pc[a] = "complete" => {"logs", "provenance.json"} \subseteq keys[a]
    /\ att[a] \in Results =>
          {"logs", "provenance.json"} \subseteq refs[a] /\ refs[a] \subseteq stored[a]

WorkerInv == TypeOK /\ \A a \in Attempts : Once(a) /\ Fresh(a) /\ Witnessed(a) /\ Uploaded(a)

-----------------------------------------------------------------------------
(* The inductive invariant of the clean-up. *)

SweepType ==
    /\ age \in [Attempts -> Nat] /\ sweep \in {"idle", "list", "delete"}
    /\ keep \subseteq Attempts /\ listed \subseteq Attempts /\ spent \in 0 .. MaxRound

\* An attempt has no namespace before it is leased; one that became active after the
\* round had read the active attempts has a namespace no older than the round.
Young(a) ==
    /\ att[a] = "NONE" => ns[a] = "absent" /\ pc[a] = "idle"
    /\ ns[a] = "absent" => age[a] = 0
    /\ sweep # "idle" /\ a \notin keep /\ active(att[a]) => age[a] <= spent

SweepInv == SweepType /\ \A a \in Attempts : Young(a)

Inv == WorkerInv /\ SweepInv

LEMMA InitInv == CleanupInit => Inv
<1> SUFFICES ASSUME CleanupInit PROVE Inv OBVIOUS
<1> USE DEF CleanupInit, Init
<1>1. TypeOK
  <2>1. keys \in [Attempts -> SUBSET Objects] /\ stored \in [Attempts -> SUBSET Objects]
    BY DEF Objects
  <2>2. finished \in [Attempts -> SUBSET Ends] BY DEF Ends
  <2>3. crashes \in 0 .. MaxCrashes /\ tries \in [Attempts -> 0 .. 2] BY WorkerAssumption
  <2> QED BY <2>1, <2>2, <2>3 DEF TypeOK, AttemptState
<1>2. SweepType BY CleanupAssumption DEF SweepType
<1>3. \A a \in Attempts : Once(a) /\ Fresh(a) /\ Witnessed(a) /\ Uploaded(a) /\ Young(a)
  BY DEF Once, Fresh, Witnessed, Uploaded, Young, Results, Ends, active, Over
<1> QED BY <1>1, <1>2, <1>3 DEF Inv, WorkerInv, SweepInv

-----------------------------------------------------------------------------
(* Every step of the worker, the store and Kubernetes preserves WorkerInv. *)

LEMMA LeaseStep ==
    ASSUME WorkerInv, NEW a \in Attempts, Lease(a)
    PROVE  WorkerInv'
<1> USE DEF Lease, vars, apiVars, workerVars, kubeVars, localVars, ProcessUnchanged, Goto, active
<1>1. TypeOK' BY WorkerAssumption DEF WorkerInv, TypeOK, AttemptState, Results, Ends, Objects, Fresh
<1> SUFFICES ASSUME NEW b \in Attempts PROVE (Once(b) /\ Fresh(b) /\ Witnessed(b) /\ Uploaded(b))'
  BY <1>1 DEF WorkerInv
<1>2. Once(b)' BY DEF WorkerInv, TypeOK, Once, Over, AttemptState, Results
<1>3. Fresh(b)' BY DEF WorkerInv, TypeOK, Fresh
<1>4. Witnessed(b)' BY DEF WorkerInv, TypeOK, Witnessed, Fresh, Results, Ends, Verdict
<1>5. Uploaded(b)' BY DEF WorkerInv, TypeOK, Uploaded, Fresh, Results
<1> QED BY <1>2, <1>3, <1>4, <1>5

LEMMA EndLeaseStep ==
    ASSUME WorkerInv, NEW a \in Attempts, EndLease(a)
    PROVE  WorkerInv'
<1> USE DEF EndLease, vars, apiVars, workerVars, kubeVars, localVars, ProcessUnchanged, Goto,
            active
<1>1. TypeOK' BY WorkerAssumption DEF WorkerInv, TypeOK, AttemptState, Results, Ends, Objects, Fresh
<1> SUFFICES ASSUME NEW b \in Attempts PROVE (Once(b) /\ Fresh(b) /\ Witnessed(b) /\ Uploaded(b))'
  BY <1>1 DEF WorkerInv
<1>2. Once(b)' BY DEF WorkerInv, TypeOK, Once, Over, AttemptState, Results
<1>3. Fresh(b)' BY DEF WorkerInv, TypeOK, Fresh
<1>4. Witnessed(b)' BY DEF WorkerInv, TypeOK, Witnessed, Fresh, Results, Ends, Verdict
<1>5. Uploaded(b)' BY DEF WorkerInv, TypeOK, Uploaded, Fresh, Results
<1> QED BY <1>2, <1>3, <1>4, <1>5

LEMMA StartStep ==
    ASSUME WorkerInv, Start
    PROVE  WorkerInv'
<1> USE DEF Start, vars, apiVars, workerVars, kubeVars, localVars, ProcessUnchanged, Goto
<1>1. TypeOK' BY WorkerAssumption DEF WorkerInv, TypeOK, AttemptState, Results, Ends, Objects, Fresh
<1> SUFFICES ASSUME NEW b \in Attempts PROVE (Once(b) /\ Fresh(b) /\ Witnessed(b) /\ Uploaded(b))'
  BY <1>1 DEF WorkerInv
<1>2. Once(b)' BY DEF WorkerInv, TypeOK, Once, Over, AttemptState, Results
<1>3. Fresh(b)' BY DEF WorkerInv, TypeOK, Fresh
<1>4. Witnessed(b)' BY DEF WorkerInv, TypeOK, Witnessed, Fresh, Results, Ends, Verdict
<1>5. Uploaded(b)' BY DEF WorkerInv, TypeOK, Uploaded, Fresh, Results
<1> QED BY <1>2, <1>3, <1>4, <1>5

LEMMA PollStep ==
    ASSUME WorkerInv, Poll
    PROVE  WorkerInv'
<1> USE DEF Poll, vars, apiVars, workerVars, kubeVars, localVars, ProcessUnchanged, Goto,
            AssignedLeases, active
<1>1. TypeOK' BY WorkerAssumption DEF WorkerInv, TypeOK, AttemptState, Results, Ends, Objects, Fresh
<1> SUFFICES ASSUME NEW b \in Attempts PROVE (Once(b) /\ Fresh(b) /\ Witnessed(b) /\ Uploaded(b))'
  BY <1>1 DEF WorkerInv
<1>2. Once(b)' BY DEF WorkerInv, TypeOK, Once, Over, AttemptState, Results
<1>3. Fresh(b)' BY DEF WorkerInv, TypeOK, Fresh
<1>4. Witnessed(b)' BY DEF WorkerInv, TypeOK, Witnessed, Fresh, Results, Ends, Verdict
<1>5. Uploaded(b)' BY DEF WorkerInv, TypeOK, Uploaded, Fresh, Results
<1> QED BY <1>2, <1>3, <1>4, <1>5

LEMMA ClaimStep ==
    ASSUME WorkerInv, Claim
    PROVE  WorkerInv'
<1> USE DEF Claim, vars, apiVars, workerVars, kubeVars, localVars, ProcessUnchanged, Goto,
            Remembered, Claimable
<1>1. TypeOK'
  <2>1. seen' \subseteq Attempts /\ busy' \subseteq seen' BY DEF WorkerInv, TypeOK
  <2>2. runs' \in [Attempts -> Nat] BY DEF WorkerInv, TypeOK
  <2>3. pc' \in [Attempts -> {"idle", "claimed", "prepare", "watch", "upload", "put", "complete",
                            "cleanup"}] BY DEF WorkerInv, TypeOK
  <2> QED BY <2>1, <2>2, <2>3 DEF WorkerInv, TypeOK
<1> SUFFICES ASSUME NEW b \in Attempts PROVE (Once(b) /\ Fresh(b) /\ Witnessed(b) /\ Uploaded(b))'
  BY <1>1 DEF WorkerInv
<1>2. Once(b)' BY DEF WorkerInv, TypeOK, Once, Over, AttemptState, Results
<1>3. Fresh(b)' BY DEF WorkerInv, TypeOK, Fresh
<1>4. Witnessed(b)' BY DEF WorkerInv, TypeOK, Witnessed, Fresh, Results, Ends, Verdict
<1>5. Uploaded(b)' BY DEF WorkerInv, TypeOK, Uploaded, Fresh, Results
<1> QED BY <1>2, <1>3, <1>4, <1>5

LEMMA KillStep ==
    ASSUME WorkerInv, Kill
    PROVE  WorkerInv'
<1> USE DEF Kill, vars, apiVars, workerVars, kubeVars, localVars, ProcessUnchanged, Goto
<1>1. TypeOK'
  <2>1. keys' \in [Attempts -> SUBSET Objects] /\ tries' \in [Attempts -> 0 .. 2] BY DEF Objects
  <2>2. crashes' \in 0 .. MaxCrashes BY WorkerAssumption DEF WorkerInv, TypeOK
  <2> QED BY <2>1, <2>2 DEF WorkerInv, TypeOK
<1> SUFFICES ASSUME NEW b \in Attempts PROVE (Once(b) /\ Fresh(b) /\ Witnessed(b) /\ Uploaded(b))'
  BY <1>1 DEF WorkerInv
<1>2. Once(b)' BY DEF WorkerInv, TypeOK, Once, Over, AttemptState, Results
<1>3. Fresh(b)' BY DEF WorkerInv, TypeOK, Fresh
<1>4. Witnessed(b)' BY DEF WorkerInv, TypeOK, Witnessed, Fresh, Results, Ends, Verdict
<1>5. Uploaded(b)' BY DEF WorkerInv, TypeOK, Uploaded, Fresh, Results
<1> QED BY <1>2, <1>3, <1>4, <1>5

LEMMA FirstHeartbeatStep ==
    ASSUME WorkerInv, NEW a \in Attempts, FirstHeartbeat(a)
    PROVE  WorkerInv'
<1> USE DEF FirstHeartbeat, vars, apiVars, workerVars, kubeVars, localVars, ProcessUnchanged,
            Goto, active
<1>1. TypeOK' BY WorkerAssumption DEF WorkerInv, TypeOK, AttemptState, Results, Ends, Objects, Fresh
<1> SUFFICES ASSUME NEW b \in Attempts PROVE (Once(b) /\ Fresh(b) /\ Witnessed(b) /\ Uploaded(b))'
  BY <1>1 DEF WorkerInv
<1>2. Once(b)' BY DEF WorkerInv, TypeOK, Once, Over, AttemptState, Results
<1>3. Fresh(b)' BY DEF WorkerInv, TypeOK, Fresh
<1>4. Witnessed(b)' BY DEF WorkerInv, TypeOK, Witnessed, Fresh, Results, Ends, Verdict
<1>5. Uploaded(b)' BY DEF WorkerInv, TypeOK, Uploaded, Fresh, Results
<1> QED BY <1>2, <1>3, <1>4, <1>5

LEMMA PrepareStep ==
    ASSUME WorkerInv, NEW a \in Attempts, Prepare(a)
    PROVE  WorkerInv'
<1> USE DEF Prepare, vars, apiVars, workerVars, kubeVars, localVars, ProcessUnchanged, Goto
<1>1. TypeOK' BY WorkerAssumption DEF WorkerInv, TypeOK, AttemptState, Results, Ends, Objects, Fresh
<1> SUFFICES ASSUME NEW b \in Attempts PROVE (Once(b) /\ Fresh(b) /\ Witnessed(b) /\ Uploaded(b))'
  BY <1>1 DEF WorkerInv
<1>2. Once(b)' BY DEF WorkerInv, TypeOK, Once, Over, AttemptState, Results
<1>3. Fresh(b)' BY DEF WorkerInv, TypeOK, Fresh
<1>4. Witnessed(b)' BY DEF WorkerInv, TypeOK, Witnessed, Fresh, Results, Ends, Verdict
<1>5. Uploaded(b)' BY DEF WorkerInv, TypeOK, Uploaded, Fresh, Results
<1> QED BY <1>2, <1>3, <1>4, <1>5

LEMMA WatchStep ==
    ASSUME WorkerInv, NEW a \in Attempts, Watch(a)
    PROVE  WorkerInv'
<1> USE DEF Watch, vars, apiVars, workerVars, kubeVars, localVars, ProcessUnchanged, Goto,
            PodEnded
<1>1. TypeOK' BY WorkerAssumption DEF WorkerInv, TypeOK, AttemptState, Results, Ends, Objects, Fresh
<1> SUFFICES ASSUME NEW b \in Attempts PROVE (Once(b) /\ Fresh(b) /\ Witnessed(b) /\ Uploaded(b))'
  BY <1>1 DEF WorkerInv
<1>2. Once(b)' BY DEF WorkerInv, TypeOK, Once, Over, AttemptState, Results
<1>3. Fresh(b)' BY DEF WorkerInv, TypeOK, Fresh
<1>4. Witnessed(b)' BY DEF WorkerInv, TypeOK, Witnessed, Fresh, Results, Ends, Verdict
<1>5. Uploaded(b)' BY DEF WorkerInv, TypeOK, Uploaded, Fresh, Results
<1> QED BY <1>2, <1>3, <1>4, <1>5

LEMMA AuthoriseStep ==
    ASSUME WorkerInv, NEW a \in Attempts, Authorise(a)
    PROVE  WorkerInv'
<1> USE DEF Authorise, vars, apiVars, workerVars, kubeVars, localVars, ProcessUnchanged, Goto
<1>1. TypeOK' BY WorkerAssumption DEF WorkerInv, TypeOK, AttemptState, Results, Ends, Objects, Fresh
<1> SUFFICES ASSUME NEW b \in Attempts PROVE (Once(b) /\ Fresh(b) /\ Witnessed(b) /\ Uploaded(b))'
  BY <1>1 DEF WorkerInv
<1>2. Once(b)' BY DEF WorkerInv, TypeOK, Once, Over, AttemptState, Results
<1>3. Fresh(b)' BY DEF WorkerInv, TypeOK, Fresh
<1>4. Witnessed(b)' BY DEF WorkerInv, TypeOK, Witnessed, Fresh, Results, Ends, Verdict
<1>5. Uploaded(b)' BY DEF WorkerInv, TypeOK, Uploaded, Fresh, Results
<1> QED BY <1>2, <1>3, <1>4, <1>5

LEMMA PutStep ==
    ASSUME WorkerInv, NEW a \in Attempts, NEW n \in Objects, Put(a, n)
    PROVE  WorkerInv'
<1> USE DEF Put, vars, apiVars, workerVars, kubeVars, localVars, ProcessUnchanged, Goto,
            PutObject, NextObjects, AfterFailedPut, Return
<1>1. TypeOK' BY WorkerAssumption DEF WorkerInv, TypeOK, AttemptState, Results, Ends, Objects, Fresh
<1> SUFFICES ASSUME NEW b \in Attempts PROVE (Once(b) /\ Fresh(b) /\ Witnessed(b) /\ Uploaded(b))'
  BY <1>1 DEF WorkerInv
<1>2. Once(b)' BY DEF WorkerInv, TypeOK, Once, Over, AttemptState, Results
<1>3. Fresh(b)' BY DEF WorkerInv, TypeOK, Fresh
<1>4. Witnessed(b)' BY DEF WorkerInv, TypeOK, Witnessed, Fresh, Results, Ends, Verdict
<1>5. Uploaded(b)' BY DEF WorkerInv, TypeOK, Uploaded, Fresh, Results
<1> QED BY <1>2, <1>3, <1>4, <1>5

LEMMA CompleteStep ==
    ASSUME WorkerInv, NEW a \in Attempts, Complete(a)
    PROVE  WorkerInv'
<1> USE DEF Complete, vars, apiVars, workerVars, kubeVars, localVars, ProcessUnchanged, Goto,
            Return, active
<1>1. TypeOK'
  <2>1. tries' \in [Attempts -> 0 .. 2] BY DEF WorkerInv, TypeOK, Fresh
  <2>2. att' \in [Attempts -> AttemptState] /\ refs' \in [Attempts -> SUBSET Objects]
    BY DEF WorkerInv, TypeOK, Witnessed, AttemptState, Results, Verdict
  <2>3. pc' \in [Attempts -> {"idle", "claimed", "prepare", "watch", "upload", "put", "complete",
                            "cleanup"}] BY DEF WorkerInv, TypeOK
  <2> QED BY <2>1, <2>2, <2>3 DEF WorkerInv, TypeOK
<1> SUFFICES ASSUME NEW b \in Attempts PROVE (Once(b) /\ Fresh(b) /\ Witnessed(b) /\ Uploaded(b))'
  BY <1>1 DEF WorkerInv
<1>2. Once(b)'
  <2>1. att'[b] = att[b] \/ (active(att[b]) /\ att'[b] \in Results)
    BY DEF WorkerInv, TypeOK, Verdict, Results
  <2>2. UNCHANGED <<runs, assigned, seen, polled>> OBVIOUS
  <2> QED BY <2>1, <2>2 DEF WorkerInv, Once, Over, Results
<1>3. Fresh(b)' BY DEF WorkerInv, TypeOK, Fresh
<1>4. Witnessed(b)' BY DEF WorkerInv, TypeOK, Witnessed, Fresh, Results, Ends, Verdict
<1>5. Uploaded(b)' BY DEF WorkerInv, TypeOK, Uploaded, Fresh, Results
<1> QED BY <1>2, <1>3, <1>4, <1>5

LEMMA GiveUpStep ==
    ASSUME WorkerInv, NEW a \in Attempts, GiveUp(a)
    PROVE  WorkerInv'
<1> USE DEF GiveUp, vars, apiVars, workerVars, kubeVars, localVars, ProcessUnchanged, Goto, Return
<1>1. TypeOK' BY WorkerAssumption DEF WorkerInv, TypeOK, AttemptState, Results, Ends, Objects, Fresh
<1> SUFFICES ASSUME NEW b \in Attempts PROVE (Once(b) /\ Fresh(b) /\ Witnessed(b) /\ Uploaded(b))'
  BY <1>1 DEF WorkerInv
<1>2. Once(b)' BY DEF WorkerInv, TypeOK, Once, Over, AttemptState, Results
<1>3. Fresh(b)' BY DEF WorkerInv, TypeOK, Fresh
<1>4. Witnessed(b)' BY DEF WorkerInv, TypeOK, Witnessed, Fresh, Results, Ends, Verdict
<1>5. Uploaded(b)' BY DEF WorkerInv, TypeOK, Uploaded, Fresh, Results
<1> QED BY <1>2, <1>3, <1>4, <1>5

LEMMA LeaveStep ==
    ASSUME WorkerInv, NEW a \in Attempts, Leave(a)
    PROVE  WorkerInv'
<1> USE DEF Leave, vars, apiVars, workerVars, kubeVars, localVars, ProcessUnchanged, Goto,
            Remembers
<1>1. TypeOK' BY WorkerAssumption DEF WorkerInv, TypeOK, AttemptState, Results, Ends, Objects, Fresh
<1> SUFFICES ASSUME NEW b \in Attempts PROVE (Once(b) /\ Fresh(b) /\ Witnessed(b) /\ Uploaded(b))'
  BY <1>1 DEF WorkerInv
<1>2. Once(b)' BY DEF WorkerInv, TypeOK, Once, Over, AttemptState, Results
<1>3. Fresh(b)' BY DEF WorkerInv, TypeOK, Fresh
<1>4. Witnessed(b)' BY DEF WorkerInv, TypeOK, Witnessed, Fresh, Results, Ends, Verdict
<1>5. Uploaded(b)' BY DEF WorkerInv, TypeOK, Uploaded, Fresh, Results
<1> QED BY <1>2, <1>3, <1>4, <1>5

LEMMA PodEndsStep ==
    ASSUME WorkerInv, NEW a \in Attempts, NEW r \in Ends, PodEnds(a, r)
    PROVE  WorkerInv'
<1> USE DEF PodEnds, vars, apiVars, workerVars, kubeVars, localVars, ProcessUnchanged, Goto
<1>1. TypeOK' BY WorkerAssumption DEF WorkerInv, TypeOK, AttemptState, Results, Ends, Objects, Fresh
<1> SUFFICES ASSUME NEW b \in Attempts PROVE (Once(b) /\ Fresh(b) /\ Witnessed(b) /\ Uploaded(b))'
  BY <1>1 DEF WorkerInv
<1>2. Once(b)' BY DEF WorkerInv, TypeOK, Once, Over, AttemptState, Results
<1>3. Fresh(b)' BY DEF WorkerInv, TypeOK, Fresh
<1>4. Witnessed(b)' BY DEF WorkerInv, TypeOK, Witnessed, Fresh, Results, Ends, Verdict
<1>5. Uploaded(b)' BY DEF WorkerInv, TypeOK, Uploaded, Fresh, Results
<1> QED BY <1>2, <1>3, <1>4, <1>5

LEMMA PodGoneStep ==
    ASSUME WorkerInv, NEW a \in Attempts, PodGone(a)
    PROVE  WorkerInv'
<1> USE DEF PodGone, vars, apiVars, workerVars, kubeVars, localVars, ProcessUnchanged, Goto
<1>1. TypeOK' BY WorkerAssumption DEF WorkerInv, TypeOK, AttemptState, Results, Ends, Objects, Fresh
<1> SUFFICES ASSUME NEW b \in Attempts PROVE (Once(b) /\ Fresh(b) /\ Witnessed(b) /\ Uploaded(b))'
  BY <1>1 DEF WorkerInv
<1>2. Once(b)' BY DEF WorkerInv, TypeOK, Once, Over, AttemptState, Results
<1>3. Fresh(b)' BY DEF WorkerInv, TypeOK, Fresh
<1>4. Witnessed(b)' BY DEF WorkerInv, TypeOK, Witnessed, Fresh, Results, Ends, Verdict
<1>5. Uploaded(b)' BY DEF WorkerInv, TypeOK, Uploaded, Fresh, Results
<1> QED BY <1>2, <1>3, <1>4, <1>5

LEMMA NamespaceGoneStep ==
    ASSUME WorkerInv, NEW a \in Attempts, NamespaceGone(a)
    PROVE  WorkerInv'
<1> USE DEF NamespaceGone, vars, apiVars, workerVars, kubeVars, localVars, ProcessUnchanged, Goto
<1>1. TypeOK' BY WorkerAssumption DEF WorkerInv, TypeOK, AttemptState, Results, Ends, Objects, Fresh
<1> SUFFICES ASSUME NEW b \in Attempts PROVE (Once(b) /\ Fresh(b) /\ Witnessed(b) /\ Uploaded(b))'
  BY <1>1 DEF WorkerInv
<1>2. Once(b)' BY DEF WorkerInv, TypeOK, Once, Over, AttemptState, Results
<1>3. Fresh(b)' BY DEF WorkerInv, TypeOK, Fresh
<1>4. Witnessed(b)' BY DEF WorkerInv, TypeOK, Witnessed, Fresh, Results, Ends, Verdict
<1>5. Uploaded(b)' BY DEF WorkerInv, TypeOK, Uploaded, Fresh, Results
<1> QED BY <1>2, <1>3, <1>4, <1>5

LEMMA UnchangedStep == WorkerInv /\ UNCHANGED vars => WorkerInv'
BY DEF WorkerInv, vars, apiVars, workerVars, kubeVars, localVars, TypeOK, Once, Fresh, Witnessed,
       Uploaded, Over

LEMMA WorkerNextStep ==
    ASSUME WorkerInv, WorkerNext
    PROVE  WorkerInv'
<1>1. CASE Start \/ Poll \/ Claim \/ Kill BY <1>1, StartStep, PollStep, ClaimStep, KillStep
<1>2. ASSUME NEW a \in Attempts, Lease(a) \/ EndLease(a) PROVE WorkerInv'
  BY <1>2, LeaseStep, EndLeaseStep
<1>3. ASSUME NEW a \in Attempts, Execute(a) PROVE WorkerInv'
  BY <1>3, FirstHeartbeatStep, PrepareStep, WatchStep, AuthoriseStep, CompleteStep, PutStep,
     GiveUpStep, LeaveStep DEF Execute
<1>4. ASSUME NEW a \in Attempts, PodGone(a) \/ NamespaceGone(a) \/ \E r \in Ends : PodEnds(a, r)
      PROVE  WorkerInv'
  BY <1>4, PodGoneStep, NamespaceGoneStep, PodEndsStep
<1> QED BY <1>1, <1>2, <1>3, <1>4 DEF WorkerNext

-----------------------------------------------------------------------------
(* The clean-up. *)

\* A step of the worker or the store gives no namespace to an attempt that was never
\* leased, and an attempt that becomes active has none yet.
LEMMA LeasedFirst ==
    ASSUME Inv, WorkerNext, NEW b \in Attempts
    PROVE  /\ att'[b] = "NONE" => ns'[b] = "absent" /\ pc'[b] = "idle"
           /\ active(att'[b]) => active(att[b]) \/ ns'[b] = "absent"
<1> DEFINE Goal == /\ att'[b] = "NONE" => ns'[b] = "absent" /\ pc'[b] = "idle"
                   /\ active(att'[b]) => active(att[b]) \/ ns'[b] = "absent"
<1>0. /\ TypeOK /\ Once(b) /\ Witnessed(b)
      /\ att[b] = "NONE" => ns[b] = "absent" /\ pc[b] = "idle"
  BY DEF Inv, WorkerInv, SweepInv, Young
<1> USE DEF apiVars, workerVars, kubeVars, localVars, ProcessUnchanged, Goto, Return
<1>1. CASE Start \/ Poll BY <1>0, <1>1 DEF Start, Poll
<1>2. CASE Claim BY <1>0, <1>2 DEF Claim, Claimable, Once, TypeOK
<1>3. CASE Kill BY <1>0, <1>3 DEF Kill
<1>4. ASSUME NEW a \in Attempts, Lease(a) \/ EndLease(a) PROVE Goal
  BY <1>0, <1>4 DEF Lease, EndLease, active, TypeOK
<1>5. ASSUME NEW a \in Attempts, Execute(a) PROVE Goal
  <2>1. CASE FirstHeartbeat(a) BY <1>0, <2>1 DEF FirstHeartbeat, active, TypeOK
  <2>2. CASE Prepare(a) BY <1>0, <2>2 DEF Prepare, TypeOK
  <2>3. CASE Watch(a) BY <1>0, <2>3 DEF Watch, TypeOK
  <2>4. CASE Authorise(a) BY <1>0, <2>4 DEF Authorise, TypeOK
  <2>5. CASE Complete(a) BY <1>0, <2>5 DEF Complete, active, TypeOK, Verdict
  <2>6. CASE \E n \in Objects : Put(a, n) BY <1>0, <2>6 DEF Put, AfterFailedPut, TypeOK
  <2>7. CASE GiveUp(a) BY <1>0, <2>7 DEF GiveUp, TypeOK
  <2>8. CASE Leave(a) BY <1>0, <2>8 DEF Leave, TypeOK
  <2> QED BY <1>5, <2>1, <2>2, <2>3, <2>4, <2>5, <2>6, <2>7, <2>8 DEF Execute
<1>6. ASSUME NEW a \in Attempts, PodGone(a) \/ NamespaceGone(a) \/ \E r \in Ends : PodEnds(a, r)
      PROVE  Goal
  BY <1>0, <1>6 DEF PodGone, NamespaceGone, PodEnds, TypeOK
<1> QED BY <1>1, <1>2, <1>3, <1>4, <1>5, <1>6 DEF WorkerNext

LEMMA WorkerStepInv ==
    ASSUME Inv, WorkerStep
    PROVE  Inv'
<1>1. WorkerInv' BY WorkerNextStep DEF Inv, WorkerStep
<1>2. SweepType' BY DEF Inv, SweepInv, SweepType, WorkerStep, Beside, sweepVars
<1>3. ASSUME NEW b \in Attempts PROVE Young(b)'
  <2>1. Young(b) /\ age[b] \in Nat /\ spent \in Nat BY DEF Inv, SweepInv, SweepType
  <2>2. age'[b] = IF ns'[b] = "absent" THEN 0 ELSE age[b] BY DEF WorkerStep, Beside
  <2>3. UNCHANGED <<sweep, keep, spent>> BY DEF WorkerStep, Beside, sweepVars
  <2> QED BY <2>1, <2>2, <2>3, LeasedFirst DEF WorkerStep, Young
<1> QED BY <1>1, <1>2, <1>3 DEF Inv, SweepInv

LEMMA RoundStepInv ==
    ASSUME Inv, ReadActive \/ ListNamespaces \/ EndRound \/ Pass
                \/ \E a \in Attempts : KeepNamespace(a)
    PROVE  Inv'
<1>1. UNCHANGED vars BY DEF ReadActive, ListNamespaces, EndRound, Pass, KeepNamespace
<1>2. WorkerInv' BY <1>1, UnchangedStep DEF Inv
<1>3. SweepType' BY CleanupAssumption DEF Inv, SweepInv, SweepType, ReadActive, ListNamespaces,
                                          EndRound, Pass, KeepNamespace
<1>4. ASSUME NEW b \in Attempts PROVE Young(b)'
  <2>1. UNCHANGED <<att, ns, pc>> BY <1>1 DEF vars, apiVars, workerVars, kubeVars
  <2>2. Young(b) /\ SweepType BY DEF Inv, SweepInv
  <2> QED BY <2>1, <2>2 DEF Young, SweepType, active, ReadActive, ListNamespaces, EndRound, Pass,
                            KeepNamespace
<1> QED BY <1>2, <1>3, <1>4 DEF Inv, SweepInv

LEMMA RemoveOrphanStep ==
    ASSUME Inv, NEW a \in Attempts, RemoveOrphan(a)
    PROVE  Inv'
<1> USE DEF RemoveOrphan, apiVars, workerVars, localVars, Inv
<1>1. TypeOK' BY DEF WorkerInv, TypeOK
<1>2. SweepType' BY DEF SweepInv, SweepType
<1>3. ASSUME NEW b \in Attempts
      PROVE  (Once(b) /\ Fresh(b) /\ Witnessed(b) /\ Uploaded(b))'
  BY DEF WorkerInv, Once, Fresh, Witnessed, Uploaded, Over
<1>4. ASSUME NEW b \in Attempts PROVE Young(b)'
  BY DEF WorkerInv, TypeOK, SweepInv, Young
<1> QED BY <1>1, <1>2, <1>3, <1>4 DEF WorkerInv, SweepInv

LEMMA NextInv == Inv /\ [Next]_allVars => Inv'
<1> SUFFICES ASSUME Inv, [Next]_allVars PROVE Inv' OBVIOUS
<1>1. CASE UNCHANGED allVars
  <2>1. UNCHANGED vars /\ UNCHANGED <<age, sweep, keep, listed, spent>>
    BY <1>1 DEF allVars, sweepVars
  <2>2. UNCHANGED <<att, ns, pc>> BY <2>1 DEF vars, apiVars, workerVars, kubeVars
  <2>3. SweepInv' BY <2>1, <2>2 DEF Inv, SweepInv, SweepType, Young
  <2> QED BY <2>1, <2>3, UnchangedStep DEF Inv
<1>2. CASE Next BY <1>2, WorkerStepInv, RoundStepInv, RemoveOrphanStep DEF Next
<1> QED BY <1>1, <1>2

-----------------------------------------------------------------------------
(* Theorems. *)

THEOREM InvariantHolds == Spec => []Inv
BY InitInv, NextInv, PTL DEF Spec

\* The types of the worker's variables are right (cmd/worker, internal/kube/runner.go).
THEOREM TypeCorrect == Spec => []TypeOK
<1>1. Inv => TypeOK BY DEF Inv, WorkerInv
<1> QED BY <1>1, InvariantHolds, PTL

\* However many attempts and restarts there are, a process runs an attempt at most
\* once: what it forgets at a poll the store has ended (claim in cmd/worker).
THEOREM RunsAtMostOnce == Spec => []ClaimedOnce
<1>1. Inv => ClaimedOnce BY DEF Inv, WorkerInv, Once, ClaimedOnce
<1> QED BY <1>1, InvariantHolds, PTL

\* A committed success is that of a pod that succeeded and left a digest of the right
\* form, if any; a committed failure that of a pod that failed or left one of the wrong
\* form (Execute in internal/kube/runner.go, execute in cmd/worker).
THEOREM ResultsAreWitnessed == Spec => []NoInventedResult
<1>1. Inv => NoInventedResult
  <2> SUFFICES ASSUME Inv, NEW a \in Attempts, att[a] \in Results
               PROVE  \E r \in finished[a] : r \in Ends /\ att[a] = Verdict(r)
    BY DEF NoInventedResult, Results, Ends, Verdict
  <2> QED BY DEF Inv, WorkerInv, TypeOK, Witnessed
<1> QED BY <1>1, InvariantHolds, PTL

\* Every committed result has its log and its provenance, and all that it refers to
\* is in the object store (execute in cmd/worker).
THEOREM ResultsAreDocumented == Spec => []ResultIsDocumented
<1>1. Inv => ResultIsDocumented BY DEF Inv, WorkerInv, Uploaded, ResultIsDocumented
<1> QED BY <1>1, InvariantHolds, PTL

\* A round of the clean-up that takes no longer than the grace period of a namespace
\* never removes that of an active attempt, however stale its list of the active
\* attempts is (cleanup in cmd/controller).
THEOREM QuickRoundsAreSafe == ASSUME MaxRound <= Grace PROVE Spec => ActiveIsKept
<1>1. Inv /\ [Next]_allVars =>
         [\A a \in Attempts : RemoveOrphan(a) => ~active(att[a])]_allVars
  <2> SUFFICES ASSUME Inv, NEW a \in Attempts, RemoveOrphan(a), active(att[a]) PROVE FALSE OBVIOUS
  <2>1. age[a] <= spent BY DEF Inv, SweepInv, Young, RemoveOrphan, Orphan
  <2>2. age[a] > Grace BY DEF RemoveOrphan, Orphan
  <2>3. age[a] \in Nat /\ spent \in Nat /\ spent <= MaxRound
    BY CleanupAssumption DEF Inv, SweepInv, SweepType
  <2> QED BY <2>1, <2>2, <2>3, CleanupAssumption
<1> QED BY <1>1, InvariantHolds, PTL DEF Spec, ActiveIsKept
=============================================================================
