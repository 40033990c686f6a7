--------------------------- MODULE JobStoreProofs ---------------------------
(***************************************************************************)
(* Proofs about JobStore.  The inductive invariant is                      *)
(*                                                                         *)
(*    TypeOK /\ AttemptsAgree /\ RetryBudget /\ PipelineAgrees             *)
(*           /\ DependencyOrder                                            *)
(*                                                                         *)
(* First come lemmas about one job and its attempts, free of time; then    *)
(* one lemma per update the handlers share; then one per action.  That     *)
(* JobStore implements PipelineLifecycle, and that what is over stays      *)
(* over, are then read off the steps, given the invariant.                 *)
(***************************************************************************)
EXTENDS JobStore, SequenceTheorems, FiniteSetTheorems, TLAPS

\* Everything the invariant says of one job in state s with the attempts A.
JobOK(j, s, A) ==
    /\ s \in State \cup {"NONE"}
    /\ A \in Seq(Attempt)
    /\ HistoryAgrees(s, A)
    /\ Len(A) <= Limit(j)
    /\ s = "QUEUED" => Len(A) < Limit(j)

\* Retry limits and time-outs are positive.
LEMMA LimitPositive ==
    ASSUME NEW j \in Jobs
    PROVE  Limit(j) \in Nat \ {0} /\ jobTimeout(j) \in Nat
BY PipelineAssumption, ConfigAssumption DEF Limit, jobTimeout

\* An attempt that ends is an attempt in its final state.
LEMMA EndType ==
    ASSUME NEW a \in Attempt, NEW s \in State
    PROVE  End(a, s) \in Attempt /\ End(a, s).status = s
BY DEF End, Attempt

\* An active attempt is the last one and has the state of its job.
LEMMA ActiveIsLast ==
    ASSUME NEW j \in Jobs, NEW s, NEW A, JobOK(j, s, A),
           NEW n \in DOMAIN A, active(A[n].status)
    PROVE  n = Len(A) /\ s = A[n].status /\ Len(A) > 0 /\ n \in 1 .. Len(A)
BY DEF JobOK, HistoryAgrees, active, State

\* Replacing the last attempt keeps the others.
LEMMA ReplaceLast ==
    ASSUME NEW A \in Seq(Attempt), NEW b \in Attempt, Len(A) > 0
    PROVE  LET B == [A EXCEPT ![Len(A)] = b]
           IN  /\ B \in Seq(Attempt) /\ Len(B) = Len(A)
               /\ B[Len(A)] = b
               /\ \A n \in 1 .. Len(A) - 1 : B[n] = A[n]
BY ExceptSeq

\* A committed result: attempt and job end together.
LEMMA JobCommits ==
    ASSUME NEW j \in Jobs, NEW s, NEW A, JobOK(j, s, A),
           NEW n \in DOMAIN A, active(A[n].status), NEW t \in {"SUCCEEDED", "FAILED"}
    PROVE  JobOK(j, t, [A EXCEPT ![n] = End(A[n], t)])
<1>1. n = Len(A) /\ Len(A) > 0 BY ActiveIsLast
<1>2. A \in Seq(Attempt) /\ A[n] \in Attempt BY DEF JobOK
<1>3. End(A[n], t) \in Attempt /\ End(A[n], t).status = t BY <1>2, EndType DEF State
<1> QED BY <1>1, <1>2, <1>3, ReplaceLast DEF JobOK, HistoryAgrees, State

\* A lost attempt with tries left: the job is queued again.
LEMMA JobRequeued ==
    ASSUME NEW j \in Jobs, NEW s, NEW A, JobOK(j, s, A),
           NEW n \in DOMAIN A, active(A[n].status), n < Limit(j)
    PROVE  JobOK(j, "QUEUED", [A EXCEPT ![n] = End(A[n], "LOST")])
<1>1. n = Len(A) /\ Len(A) > 0 BY ActiveIsLast
<1>2. A \in Seq(Attempt) /\ A[n] \in Attempt BY DEF JobOK
<1>3. End(A[n], "LOST") \in Attempt /\ End(A[n], "LOST").status = "LOST"
  BY <1>2, EndType DEF State
<1> QED BY <1>1, <1>2, <1>3, ReplaceLast DEF JobOK, HistoryAgrees, State

\* A heartbeat: attempt and job run.
LEMMA JobRenewed ==
    ASSUME NEW j \in Jobs, NEW s, NEW A, JobOK(j, s, A),
           NEW n \in DOMAIN A, active(A[n].status)
    PROVE  JobOK(j, "RUNNING", [A EXCEPT ![n] = Renewed(j, A[n])])
<1>1. n = Len(A) /\ Len(A) > 0 BY ActiveIsLast
<1>2. A \in Seq(Attempt) /\ A[n] \in Attempt BY DEF JobOK
<1>3. Renewed(j, A[n]) \in Attempt /\ Renewed(j, A[n]).status = "RUNNING"
  BY <1>2, ConfigAssumption DEF Renewed, Attempt, State
<1> QED BY <1>1, <1>2, <1>3, ReplaceLast DEF JobOK, HistoryAgrees, State

\* A lease: one more attempt.
LEMMA JobLeased ==
    ASSUME NEW j \in Jobs, NEW A, JobOK(j, "QUEUED", A),
           NEW a \in Attempt, a.status = "LEASED"
    PROVE  JobOK(j, "LEASED", Append(A, a))
<1>1. A \in Seq(Attempt) /\ Len(A) \in Nat BY DEF JobOK
<1>2. /\ Append(A, a) \in Seq(Attempt) /\ Len(Append(A, a)) = Len(A) + 1
      /\ Append(A, a)[Len(A) + 1] = a
      /\ \A n \in 1 .. Len(A) : Append(A, a)[n] = A[n]
  BY <1>1
<1>3. Limit(j) \in Nat BY LimitPositive
<1> QED BY <1>1, <1>2, <1>3 DEF JobOK, HistoryAgrees, State

\* A cancellation: an active attempt ends with its job.
LEMMA JobCancelled ==
    ASSUME NEW j \in Jobs, NEW s, NEW A, JobOK(j, s, A), ~terminal(s), s # "NONE"
    PROVE  JobOK(j, "CANCELLED", CancelActive(A))
<1> DEFINE B == CancelActive(A)
<1>1. A \in Seq(Attempt) /\ Len(A) \in Nat /\ DOMAIN A = 1 .. Len(A) BY DEF JobOK
<1>2. \A n \in 1 .. Len(A) : A[n] \in Attempt BY <1>1
<1>3. \A n \in 1 .. Len(A) :
        B[n] = IF active(A[n].status) THEN End(A[n], "CANCELLED") ELSE A[n]
  BY <1>1 DEF CancelActive
<1>4. \A n \in 1 .. Len(A) : B[n] \in Attempt
  BY <1>2, <1>3, EndType DEF State
<1>5. B \in Seq(Attempt) /\ Len(B) = Len(A)
  BY <1>1, <1>4 DEF CancelActive
<1>6. \A n \in 1 .. Len(A) - 1 : B[n].status = "LOST"
  BY <1>1, <1>3 DEF JobOK, HistoryAgrees, active
<1>7. Len(A) = 0 \/ B[Len(A)].status \in {"LOST", "CANCELLED"}
  BY <1>1, <1>2, <1>3, EndType DEF JobOK, HistoryAgrees, active, terminal, State
<1> QED BY <1>1, <1>5, <1>6, <1>7 DEF JobOK, HistoryAgrees, State

\* Time passes for an attempt.
LEMMA AgedType ==
    ASSUME NEW a \in Attempt
    PROVE  Aged(a) \in Attempt /\ Aged(a).status = a.status
<1>1. \A n \in Nat : Earlier(n) \in Nat BY DEF Earlier
<1> QED BY <1>1 DEF Aged, Attempt

LEMMA JobAges ==
    ASSUME NEW j \in Jobs, NEW s, NEW A, JobOK(j, s, A)
    PROVE  JobOK(j, s, [n \in DOMAIN A |-> Aged(A[n])])
<1> DEFINE B == [n \in DOMAIN A |-> Aged(A[n])]
<1>1. A \in Seq(Attempt) /\ Len(A) \in Nat /\ DOMAIN A = 1 .. Len(A) BY DEF JobOK
<1>2. \A n \in 1 .. Len(A) : B[n] \in Attempt /\ B[n].status = A[n].status
  BY <1>1, AgedType
<1>3. B \in Seq(Attempt) /\ Len(B) = Len(A)
  BY <1>1, <1>2
<1>4. HistoryAgrees(s, B)
  BY <1>1, <1>2, <1>3 DEF JobOK, HistoryAgrees
<1> QED BY <1>3, <1>4 DEF JobOK

\* A job without attempts, stored or not.
LEMMA JobEmpty ==
    ASSUME NEW j \in Jobs, NEW s \in {"NONE", "QUEUED"}
    PROVE  JobOK(j, s, << >>)
BY LimitPositive DEF JobOK, HistoryAgrees, State

-----------------------------------------------------------------------------
(* Updates of pipelines, jobs and attempts that several actions share. *)

\* What the invariant says of pipelines, jobs and attempts.
Core ==
    /\ pipeline \in [Pipelines -> State \cup {"NONE", "PRUNED"}]
    /\ job \in [Jobs -> State \cup {"NONE"}]
    /\ attempts \in [Jobs -> Seq(Attempt)]
    /\ \A j \in Jobs : JobOK(j, job[j], attempts[j])
    /\ PipelineAgrees
    /\ DependencyOrder

\* Core is what TypeOK and the four invariants say together.
LEMMA CoreMeaning ==
    ASSUME TypeOK
    PROVE  Core <=> AttemptsAgree /\ RetryBudget /\ PipelineAgrees /\ DependencyOrder
BY DEF TypeOK, Core, JobOK, AttemptsAgree, RetryBudget

\* Jobs that are done stay done and no attempt appears: the order of
\* dependencies is kept.
LEMMA OrderKept ==
    ASSUME DependencyOrder, PipelineAssumption,
           \A j \in Jobs : job[j] = "SUCCEEDED" => job'[j] = "SUCCEEDED",
           \A j \in Jobs : attempts'[j] # << >> => attempts[j] # << >>
    PROVE  DependencyOrder'
BY DEF DependencyOrder, PipelineAssumption

\* A pipeline none of whose jobs changes state keeps agreeing with them.
LEMMA PipelineKept ==
    ASSUME PipelineAgrees, NEW p \in Pipelines, pipeline'[p] = pipeline[p],
           \A j \in JobsOf(p) : job'[j] = job[j]
    PROVE  PipelineAgrees!(p)'
BY DEF PipelineAgrees

\* An open pipeline has jobs that are not over, and none that failed.
LEMMA OpenPipeline ==
    ASSUME Core, NEW p \in Pipelines, Open(p)
    PROVE  /\ \A j \in JobsOf(p) : job[j] \in {"QUEUED", "LEASED", "RUNNING", "SUCCEEDED"}
           /\ \E j \in JobsOf(p) : job[j] # "SUCCEEDED"
           /\ pipeline[p] \in {"QUEUED", "RUNNING"}
<1>1. pipeline[p] \in {"QUEUED", "RUNNING"}
  BY DEF Core, PipelineAgrees, Open, terminal, State
<1>2. \E j \in Jobs : j \in JobsOf(p) BY PipelineAssumption DEF JobsOf
<1> QED BY <1>1, <1>2 DEF Core, PipelineAgrees

\* A job that is not over belongs to an open pipeline.
LEMMA OpenJob ==
    ASSUME Core, NEW j \in Jobs, job[j] \in State, ~terminal(job[j])
    PROVE  /\ PipelineOf[j] \in Pipelines /\ Open(PipelineOf[j])
           /\ job[j] # "QUEUED" => pipeline[PipelineOf[j]] = "RUNNING"
<1>1. PipelineOf[j] \in Pipelines /\ j \in JobsOf(PipelineOf[j])
  BY PipelineAssumption DEF JobsOf
<1>2. pipeline[PipelineOf[j]] \in State \cup {"NONE", "PRUNED"}
  BY <1>1 DEF Core
<1> QED BY <1>1, <1>2 DEF Core, PipelineAgrees, Open, terminal, State

\* Cancelling attempts neither adds nor removes any.
LEMMA CancelActiveEmpty ==
    ASSUME NEW A \in Seq(Attempt), CancelActive(A) # << >>
    PROVE  A # << >>
BY DEF CancelActive

\* Open pipelines are cancelled.
LEMMA CancelStep ==
    ASSUME Core, NEW P \in SUBSET Pipelines, \A p \in P : Open(p), cancelPipelines(P)
    PROVE  Core'
<1>1. \A j \in Jobs : PipelineOf[j] \in P =>
         job[j] \in {"QUEUED", "LEASED", "RUNNING", "SUCCEEDED"}
  BY OpenPipeline DEF JobsOf
<1>2. \A j \in Jobs :
        /\ job'[j] = IF PipelineOf[j] \in P /\ ~terminal(job[j]) THEN "CANCELLED" ELSE job[j]
        /\ attempts'[j] = IF PipelineOf[j] \in P /\ ~terminal(job[j])
                          THEN CancelActive(attempts[j]) ELSE attempts[j]
  BY DEF cancelPipelines, CancelledJobs, CancelledAttempts, Pending
<1>3. \A j \in Jobs : JobOK(j, job'[j], attempts'[j])
  BY <1>1, <1>2, JobCancelled DEF Core
<1>4. /\ pipeline' \in [Pipelines -> State \cup {"NONE", "PRUNED"}]
      /\ job' \in [Jobs -> State \cup {"NONE"}]
      /\ attempts' \in [Jobs -> Seq(Attempt)]
  <2>1. \A j \in Jobs : job'[j] \in State \cup {"NONE"} /\ attempts'[j] \in Seq(Attempt)
    BY <1>3 DEF JobOK
  <2> QED BY <2>1 DEF Core, cancelPipelines, CancelledJobs, CancelledAttempts, State
<1>5. DependencyOrder'
  <2>1. \A j \in Jobs : attempts'[j] # << >> => attempts[j] # << >>
    BY <1>2, CancelActiveEmpty DEF Core
  <2>2. \A j \in Jobs : job[j] = "SUCCEEDED" => job'[j] = "SUCCEEDED"
    BY <1>2 DEF terminal
  <2> QED BY <2>1, <2>2, OrderKept, PipelineAssumption DEF Core
<1>6. PipelineAgrees'
  <2> SUFFICES ASSUME NEW p \in Pipelines PROVE PipelineAgrees!(p)'
    BY DEF PipelineAgrees
  <2>1. CASE p \in P
    <3>1. pipeline'[p] = "CANCELLED" BY <2>1 DEF cancelPipelines
    <3>2. \A j \in JobsOf(p) : job'[j] \in {"SUCCEEDED", "CANCELLED"}
      BY <2>1, <1>1, <1>2 DEF JobsOf, terminal
    <3>3. PICK j \in JobsOf(p) : job[j] # "SUCCEEDED" BY <2>1, OpenPipeline
    <3>4. job'[j] = "CANCELLED" BY <2>1, <3>3, <1>1, <1>2 DEF JobsOf, terminal
    <3> QED BY <3>1, <3>2, <3>3, <3>4
  <2>2. CASE p \notin P
    <3>1. pipeline'[p] = pipeline[p] BY <2>2 DEF cancelPipelines
    <3>2. \A j \in JobsOf(p) : job'[j] = job[j] BY <2>2, <1>2 DEF JobsOf
    <3> QED BY <3>1, <3>2, PipelineKept DEF Core
  <2> QED BY <2>1, <2>2
<1> QED BY <1>3, <1>4, <1>5, <1>6 DEF Core

\* An attempt ends with a result, and updatePipelineLocked follows.
LEMMA CommitStep ==
    ASSUME Core, NEW j \in Jobs, NEW n \in DOMAIN attempts[j],
           active(attempts[j][n].status), NEW s \in {"SUCCEEDED", "FAILED"},
           updatePipeline(PipelineOf[j], [job EXCEPT ![j] = s],
                          [attempts EXCEPT ![j][n] = End(attempts[j][n], s)])
    PROVE  Core'
<1> DEFINE p == PipelineOf[j]
           J == [job EXCEPT ![j] = s]
           A == [attempts EXCEPT ![j][n] = End(attempts[j][n], s)]
<1>1. /\ p \in Pipelines /\ j \in JobsOf(p)
      /\ active(job[j]) /\ job[j] \in State /\ pipeline[p] = "RUNNING" /\ Open(p)
  <2>1. p \in Pipelines /\ j \in JobsOf(p) BY PipelineAssumption DEF JobsOf
  <2>2. active(job[j]) BY ActiveIsLast DEF Core
  <2> QED BY <2>1, <2>2, OpenJob DEF active, terminal, State
<1>2. \A k \in JobsOf(p) : job[k] \in {"QUEUED", "LEASED", "RUNNING", "SUCCEEDED"}
  BY <1>1, OpenPipeline
<1>3. J \in [Jobs -> State \cup {"NONE"}] /\ A \in [Jobs -> Seq(Attempt)]
  <2>1. [attempts[j] EXCEPT ![n] = End(attempts[j][n], s)] \in Seq(Attempt)
    BY JobCommits DEF Core, JobOK
  <2> QED BY <2>1 DEF Core, State
<1>4. \A k \in Jobs : JobOK(k, J[k], A[k])
  <2>1. J[j] = s /\ A[j] = [attempts[j] EXCEPT ![n] = End(attempts[j][n], s)]
    BY DEF Core
  <2>2. JobOK(j, s, [attempts[j] EXCEPT ![n] = End(attempts[j][n], s)])
    <3>1. JobOK(j, job[j], attempts[j]) BY DEF Core
    <3> QED BY <3>1, JobCommits, ZenonT(40)
  <2>3. JobOK(j, J[j], A[j]) BY <2>1, <2>2
  <2> QED BY <2>3 DEF Core
<1>5. \A k \in Jobs : A[k] # << >> => attempts[k] # << >>
  BY DEF Core
<1>6. \A k \in Jobs : job[k] = "SUCCEEDED" => J[k] = "SUCCEEDED"
  BY <1>1 DEF Core, active
<1>7. CASE s = "FAILED"
  <2>1. /\ pipeline' = [pipeline EXCEPT ![p] = "FAILED"]
        /\ job' = CancelledJobs({p}, J) /\ attempts' = CancelledAttempts({p}, J, A)
    BY <1>1, <1>7 DEF updatePipeline, Core
  <2>2. \A k \in Jobs :
          /\ job'[k] = IF PipelineOf[k] = p /\ ~terminal(J[k]) THEN "CANCELLED" ELSE J[k]
          /\ attempts'[k] = IF PipelineOf[k] = p /\ ~terminal(J[k])
                            THEN CancelActive(A[k]) ELSE A[k]
    BY <2>1 DEF CancelledJobs, CancelledAttempts, Pending
  <2>3. \A k \in Jobs : PipelineOf[k] = p => J[k] # "NONE"
    BY <1>2, <1>7 DEF JobsOf, Core
  <2>4. \A k \in Jobs : JobOK(k, job'[k], attempts'[k])
    <3> SUFFICES ASSUME NEW k \in Jobs PROVE JobOK(k, job'[k], attempts'[k])
      OBVIOUS
    <3>1. CASE PipelineOf[k] = p /\ ~terminal(J[k])
      <4>1. JobOK(k, "CANCELLED", CancelActive(A[k])) BY <3>1, <1>4, <2>3, JobCancelled
      <4> QED BY <3>1, <4>1, <2>2
    <3>2. CASE ~(PipelineOf[k] = p /\ ~terminal(J[k]))
      BY <3>2, <2>2, <1>4
    <3> QED BY <3>1, <3>2
  <2>5. /\ pipeline' \in [Pipelines -> State \cup {"NONE", "PRUNED"}]
        /\ job' \in [Jobs -> State \cup {"NONE"}]
        /\ attempts' \in [Jobs -> Seq(Attempt)]
    <3>1. \A k \in Jobs : job'[k] \in State \cup {"NONE"} /\ attempts'[k] \in Seq(Attempt)
      BY <2>4 DEF JobOK
    <3> QED BY <2>1, <3>1 DEF Core, CancelledJobs, CancelledAttempts, State
  <2>6. DependencyOrder'
    <3>1. \A k \in Jobs : attempts'[k] # << >> => attempts[k] # << >>
      BY <1>3, <1>5, <2>2, CancelActiveEmpty
    <3>2. \A k \in Jobs : job[k] = "SUCCEEDED" => job'[k] = "SUCCEEDED"
      BY <1>6, <2>2 DEF terminal
    <3> QED BY <3>1, <3>2, OrderKept, PipelineAssumption DEF Core
  <2>7. PipelineAgrees'
    <3> SUFFICES ASSUME NEW q \in Pipelines PROVE PipelineAgrees!(q)'
      BY DEF PipelineAgrees
    <3>1. CASE q = p
      <4>1. pipeline'[q] = "FAILED" BY <2>1, <3>1, <1>1 DEF Core
      <4>2. \A k \in JobsOf(q) : job'[k] \in {"SUCCEEDED", "FAILED", "CANCELLED"}
        BY <3>1, <1>2, <1>7, <2>2 DEF JobsOf, terminal, Core
      <4>3. job'[j] = "FAILED" BY <1>7, <2>2 DEF terminal, Core
      <4> QED BY <3>1, <1>1, <4>1, <4>2, <4>3
    <3>2. CASE q # p
      <4>1. pipeline'[q] = pipeline[q] BY <2>1, <3>2 DEF Core
      <4>2. \A k \in JobsOf(q) : job'[k] = job[k] BY <3>2, <2>2 DEF JobsOf, Core
      <4> QED BY <4>1, <4>2, PipelineKept DEF Core
    <3> QED BY <3>1, <3>2
  <2> QED BY <2>4, <2>5, <2>6, <2>7 DEF Core
<1>8. CASE s = "SUCCEEDED"
  <2>1. \A k \in JobsOf(p) : J[k] \in {"QUEUED", "LEASED", "RUNNING", "SUCCEEDED"}
    BY <1>2, <1>8 DEF JobsOf, Core
  <2>2. /\ pipeline' = [pipeline EXCEPT ![p] =
                IF \A k \in JobsOf(p) : J[k] = "SUCCEEDED" THEN "SUCCEEDED" ELSE "RUNNING"]
        /\ job' = J /\ attempts' = A
    <3>1. ~ \E k \in JobsOf(p) : J[k] = "FAILED" BY <2>1
    <3> QED BY <3>1 DEF updatePipeline
  <2>3. DependencyOrder'
    BY <1>5, <1>6, <2>2, OrderKept, PipelineAssumption DEF Core
  <2>4. PipelineAgrees'
    <3> SUFFICES ASSUME NEW q \in Pipelines PROVE PipelineAgrees!(q)'
      BY DEF PipelineAgrees
    <3>1. CASE q = p
      <4>1. pipeline'[q] = IF \A k \in JobsOf(p) : J[k] = "SUCCEEDED"
                           THEN "SUCCEEDED" ELSE "RUNNING"
        BY <2>2, <3>1, <1>1 DEF Core
      <4> QED BY <4>1, <3>1, <2>1, <2>2
    <3>2. CASE q # p
      <4>1. pipeline'[q] = pipeline[q] BY <2>2, <3>2 DEF Core
      <4>2. \A k \in JobsOf(q) : job'[k] = job[k] BY <3>2, <2>2 DEF JobsOf, Core
      <4> QED BY <4>1, <4>2, PipelineKept DEF Core
    <3> QED BY <3>1, <3>2
  <2>5. pipeline' \in [Pipelines -> State \cup {"NONE", "PRUNED"}]
    BY <2>2 DEF Core, State
  <2> QED BY <1>3, <1>4, <2>2, <2>3, <2>4, <2>5 DEF Core
<1> QED BY <1>7, <1>8

-----------------------------------------------------------------------------
(* One lemma per action that changes pipelines, jobs or attempts. *)

LEMMA SubmitStep ==
    ASSUME Core, NEW p \in Pipelines, Submit(p)
    PROVE  Core'
<1> DEFINE older == {q \in Pipelines : PROf[p] > 0 /\ PROf[q] = PROf[p] /\ Open(q)}
<1>1. /\ pipeline[p] = "NONE"
      /\ pipeline' = [q \in Pipelines |-> IF q = p THEN "QUEUED"
                                          ELSE IF q \in older THEN "CANCELLED" ELSE pipeline[q]]
      /\ job' = [j \in Jobs |-> IF j \in JobsOf(p) THEN "QUEUED"
                                ELSE CancelledJobs(older, job)[j]]
      /\ attempts' = CancelledAttempts(older, job, attempts)
  BY DEF Submit
<1>2. p \notin older BY <1>1 DEF Open, State
<1>3. \A j \in JobsOf(p) : job[j] = "NONE" /\ attempts[j] = << >>
  <2>1. \A j \in JobsOf(p) : job[j] = "NONE" BY <1>1 DEF Core, PipelineAgrees
  <2> QED BY <2>1 DEF Core, JobOK, HistoryAgrees, JobsOf
<1>4. \A j \in Jobs : PipelineOf[j] \in older =>
         job[j] \in {"QUEUED", "LEASED", "RUNNING", "SUCCEEDED"}
  BY OpenPipeline DEF JobsOf
<1>5. \A j \in Jobs \ JobsOf(p) :
        /\ job'[j] = IF PipelineOf[j] \in older /\ ~terminal(job[j]) THEN "CANCELLED" ELSE job[j]
        /\ attempts'[j] = IF PipelineOf[j] \in older /\ ~terminal(job[j])
                          THEN CancelActive(attempts[j]) ELSE attempts[j]
  BY <1>1 DEF CancelledJobs, CancelledAttempts, Pending
<1>6. \A j \in JobsOf(p) : job'[j] = "QUEUED" /\ attempts'[j] = << >>
  BY <1>1, <1>2, <1>3 DEF CancelledAttempts, Pending, JobsOf
<1>7. \A j \in Jobs : JobOK(j, job'[j], attempts'[j])
  <2> SUFFICES ASSUME NEW j \in Jobs PROVE JobOK(j, job'[j], attempts'[j])
    OBVIOUS
  <2>1. CASE j \in JobsOf(p) BY <2>1, <1>6, JobEmpty
  <2>2. CASE j \notin JobsOf(p) BY <2>2, <1>4, <1>5, JobCancelled DEF Core
  <2> QED BY <2>1, <2>2
<1>8. /\ pipeline' \in [Pipelines -> State \cup {"NONE", "PRUNED"}]
      /\ job' \in [Jobs -> State \cup {"NONE"}]
      /\ attempts' \in [Jobs -> Seq(Attempt)]
  <2>1. \A j \in Jobs : job'[j] \in State \cup {"NONE"} /\ attempts'[j] \in Seq(Attempt)
    BY <1>7 DEF JobOK
  <2> QED BY <1>1, <2>1 DEF Core, CancelledAttempts, State
<1>9. DependencyOrder'
  <2>1. \A j \in Jobs : attempts'[j] # << >> => attempts[j] # << >>
    BY <1>5, <1>6, CancelActiveEmpty DEF Core
  <2>2. \A j \in Jobs : job[j] = "SUCCEEDED" => job'[j] = "SUCCEEDED"
    BY <1>3, <1>5 DEF terminal
  <2> QED BY <2>1, <2>2, OrderKept, PipelineAssumption DEF Core
<1>10. PipelineAgrees'
  <2> SUFFICES ASSUME NEW q \in Pipelines PROVE PipelineAgrees!(q)'
    BY DEF PipelineAgrees
  <2>1. CASE q = p
    <3>1. pipeline'[q] = "QUEUED" BY <2>1, <1>1
    <3> QED BY <2>1, <3>1, <1>6
  <2>2. CASE q \in older
    <3>1. q # p /\ Open(q) /\ pipeline'[q] = "CANCELLED" BY <2>2, <1>1, <1>2
    <3>2. \A j \in JobsOf(q) : j \in Jobs \ JobsOf(p) /\ PipelineOf[j] \in older
      BY <2>2, <3>1 DEF JobsOf
    <3>3. \A j \in JobsOf(q) : job'[j] \in {"SUCCEEDED", "CANCELLED"}
      BY <3>2, <1>4, <1>5 DEF terminal
    <3>4. PICK j \in JobsOf(q) : job[j] # "SUCCEEDED" BY <3>1, OpenPipeline
    <3>5. job'[j] = "CANCELLED" BY <3>2, <3>4, <1>4, <1>5 DEF terminal
    <3> QED BY <3>1, <3>3, <3>4, <3>5
  <2>3. CASE q # p /\ q \notin older
    <3>1. pipeline'[q] = pipeline[q] BY <2>3, <1>1
    <3>2. \A j \in JobsOf(q) : job'[j] = job[j] BY <2>3, <1>5 DEF JobsOf
    <3> QED BY <3>1, <3>2, PipelineKept DEF Core
  <2> QED BY <2>1, <2>2, <2>3
<1> QED BY <1>7, <1>8, <1>9, <1>10 DEF Core

LEMMA ClosePRStep ==
    ASSUME Core, NEW pr \in PullRequests, ClosePR(pr)
    PROVE  Core'
<1> DEFINE P == {p \in Pipelines : PROf[p] = pr /\ Open(p)}
<1>1. P \in SUBSET Pipelines /\ (\A p \in P : Open(p)) /\ cancelPipelines(P) BY DEF ClosePR
<1> QED BY <1>1, CancelStep

LEMMA CancelJobStep ==
    ASSUME Core, NEW j \in Jobs, CancelJob(j)
    PROVE  Core'
<1>1. {PipelineOf[j]} \in SUBSET Pipelines /\ \A p \in {PipelineOf[j]} : Open(p)
  BY OpenJob DEF CancelJob
<1>2. cancelPipelines({PipelineOf[j]}) BY DEF CancelJob
<1> QED BY <1>1, <1>2, CancelStep

\* One job moves between states of an open pipeline that stays RUNNING.
LEMMA MoveStep ==
    ASSUME Core, NEW j \in Jobs, NEW s \in {"QUEUED", "LEASED", "RUNNING"}, NEW A,
           job[j] \in State, ~terminal(job[j]), JobOK(j, s, A),
           job' = [job EXCEPT ![j] = s], attempts' = [attempts EXCEPT ![j] = A],
           pipeline' = [pipeline EXCEPT ![PipelineOf[j]] = "RUNNING"],
           A # << >> => \A k \in Needs[j] : job[k] = "SUCCEEDED"
    PROVE  Core'
<1> DEFINE p == PipelineOf[j]
<1>1. p \in Pipelines /\ Open(p) /\ j \in JobsOf(p) BY OpenJob DEF JobsOf
<1>2. \A k \in Jobs : JobOK(k, job'[k], attempts'[k]) BY DEF Core
<1>3. /\ pipeline' \in [Pipelines -> State \cup {"NONE", "PRUNED"}]
      /\ job' \in [Jobs -> State \cup {"NONE"}]
      /\ attempts' \in [Jobs -> Seq(Attempt)]
  <2>1. A \in Seq(Attempt) BY DEF JobOK
  <2> QED BY <2>1 DEF Core, State
<1>4. DependencyOrder'
  <2>1. \A k \in Jobs : job[k] = "SUCCEEDED" => job'[k] = "SUCCEEDED"
    BY DEF Core, terminal
  <2>2. \A k \in Jobs : attempts'[k] # << >> =>
           attempts[k] # << >> \/ \A i \in Needs[k] : job[i] = "SUCCEEDED"
    BY DEF Core
  <2>3. \A k \in Jobs : Needs[k] \subseteq Jobs BY PipelineAssumption
  <2> QED BY <2>1, <2>2, <2>3 DEF Core, DependencyOrder
<1>5. PipelineAgrees'
  <2> SUFFICES ASSUME NEW q \in Pipelines PROVE PipelineAgrees!(q)'
    BY DEF PipelineAgrees
  <2>1. CASE q = p
    <3>1. pipeline'[q] = "RUNNING" BY <1>1, <2>1 DEF Core
    <3>2. \A k \in JobsOf(q) : job'[k] \in {"QUEUED", "LEASED", "RUNNING", "SUCCEEDED"}
      BY <1>1, <2>1, OpenPipeline DEF JobsOf, Core
    <3>3. j \in JobsOf(q) /\ job'[j] # "SUCCEEDED" BY <1>1, <2>1 DEF Core
    <3> QED BY <3>1, <3>2, <3>3
  <2>2. CASE q # p
    <3>1. pipeline'[q] = pipeline[q] BY <2>2 DEF Core
    <3>2. \A k \in JobsOf(q) : job'[k] = job[k] BY <2>2 DEF JobsOf, Core
    <3> QED BY <3>1, <3>2, PipelineKept DEF Core
  <2> QED BY <2>1, <2>2
<1> QED BY <1>2, <1>3, <1>4, <1>5 DEF Core

\* What holds of a job with an active attempt.
LEMMA ActiveJob ==
    ASSUME Core, NEW j \in Jobs, NEW n \in DOMAIN attempts[j], active(attempts[j][n].status)
    PROVE  /\ JobOK(j, job[j], attempts[j]) /\ job[j] = attempts[j][n].status
           /\ job[j] \in State /\ ~terminal(job[j])
           /\ PipelineOf[j] \in Pipelines /\ pipeline[PipelineOf[j]] = "RUNNING"
           /\ \A k \in Needs[j] : job[k] = "SUCCEEDED"
<1>1. JobOK(j, job[j], attempts[j]) BY DEF Core
<1>2. job[j] = attempts[j][n].status /\ Len(attempts[j]) > 0 BY <1>1, ActiveIsLast
<1>3. job[j] \in State /\ ~terminal(job[j]) /\ job[j] # "QUEUED"
  BY <1>2 DEF active, terminal, State
<1>4. PipelineOf[j] \in Pipelines /\ pipeline[PipelineOf[j]] = "RUNNING" BY <1>3, OpenJob
<1>5. attempts[j] # << >> BY <1>2
<1> QED BY <1>1, <1>2, <1>3, <1>4, <1>5 DEF Core, DependencyOrder

LEMMA HeartbeatAttemptStep ==
    ASSUME Core, NEW j \in Jobs, NEW n \in DOMAIN attempts[j], HeartbeatAttempt(j, n)
    PROVE  Core'
<1> DEFINE A == [attempts[j] EXCEPT ![n] = Renewed(j, attempts[j][n])]
<1>1. active(attempts[j][n].status) BY DEF HeartbeatAttempt, Current
<1>2. /\ JobOK(j, job[j], attempts[j]) /\ job[j] = attempts[j][n].status
      /\ job[j] \in State /\ ~terminal(job[j]) /\ PipelineOf[j] \in Pipelines
      /\ pipeline[PipelineOf[j]] = "RUNNING" /\ \A k \in Needs[j] : job[k] = "SUCCEEDED"
  BY <1>1, ActiveJob
<1>3. JobOK(j, "RUNNING", A) BY <1>1, <1>2, JobRenewed
<1>4. /\ job' = [job EXCEPT ![j] = "RUNNING"]
      /\ attempts' = [attempts EXCEPT ![j] = A]
      /\ pipeline' = [pipeline EXCEPT ![PipelineOf[j]] = "RUNNING"]
  <2>1. attempts' = [attempts EXCEPT ![j] = A] BY DEF HeartbeatAttempt, Core
  <2>2. pipeline' = [pipeline EXCEPT ![PipelineOf[j]] = "RUNNING"]
    BY <1>2 DEF HeartbeatAttempt, Core
  <2>3. attempts[j][n].status \in {"LEASED", "RUNNING"} BY <1>1 DEF active
  <2>4. job' = [job EXCEPT ![j] = "RUNNING"]
    BY <1>2, <2>3 DEF HeartbeatAttempt, Core
  <2> QED BY <2>1, <2>2, <2>4
<1> QED BY <1>2, <1>3, <1>4, MoveStep

LEMMA FinishStep ==
    ASSUME Core, NEW j \in Jobs, NEW n \in DOMAIN attempts[j],
           NEW s \in {"SUCCEEDED", "FAILED"}, Finish(j, n, s)
    PROVE  Core'
BY CommitStep DEF Finish, Current

LEMMA ExpireAttemptStep ==
    ASSUME Core, NEW j \in Jobs, NEW n \in DOMAIN attempts[j], ExpireAttempt(j, n)
    PROVE  Core'
<1> DEFINE a == attempts[j][n]
           A == [attempts[j] EXCEPT ![n] = End(a, "LOST")]
<1>1. active(a.status) BY DEF ExpireAttempt, Expired
<1>2. CASE OutOfTries(j, n, a) BY <1>1, <1>2, CommitStep DEF ExpireAttempt
<1>3. CASE ~OutOfTries(j, n, a)
  <2>1. /\ JobOK(j, job[j], attempts[j]) /\ job[j] = a.status
        /\ job[j] \in State /\ ~terminal(job[j]) /\ PipelineOf[j] \in Pipelines
        /\ pipeline[PipelineOf[j]] = "RUNNING" /\ \A k \in Needs[j] : job[k] = "SUCCEEDED"
    BY <1>1, ActiveJob
  <2>2. n \in Nat /\ n < Limit(j)
    BY <1>3, <2>1, LimitPositive DEF OutOfTries, JobOK
  <2>3. JobOK(j, "QUEUED", A) BY <1>1, <2>1, <2>2, JobRequeued
  <2>4. /\ job' = [job EXCEPT ![j] = "QUEUED"]
        /\ attempts' = [attempts EXCEPT ![j] = A]
        /\ pipeline' = [pipeline EXCEPT ![PipelineOf[j]] = "RUNNING"]
    BY <1>3, <2>1 DEF ExpireAttempt, Core
  <2> QED BY <2>1, <2>3, <2>4, MoveStep
<1> QED BY <1>2, <1>3

LEMMA ScheduleOneStep ==
    ASSUME Core, NEW j \in Jobs, NEW w \in Workers, ScheduleOne(j, w)
    PROVE  Core'
<1> DEFINE a == [worker |-> w, status |-> "LEASED", lease |-> LeaseTTL, left |-> jobTimeout(j)]
           A == Append(attempts[j], a)
<1>1. job[j] = "QUEUED" /\ \A k \in Needs[j] : job[k] = "SUCCEEDED"
  BY DEF ScheduleOne, Schedulable, Runnable
<1>2. a \in Attempt /\ a.status = "LEASED"
  BY LimitPositive, ConfigAssumption DEF Attempt, State
<1>3. JobOK(j, "LEASED", A)
  <2>1. JobOK(j, "QUEUED", attempts[j]) BY <1>1 DEF Core
  <2> QED BY <1>2, <2>1, JobLeased
<1>4. job[j] \in State /\ ~terminal(job[j]) BY <1>1 DEF State, terminal
<1>5. /\ job' = [job EXCEPT ![j] = "LEASED"]
      /\ attempts' = [attempts EXCEPT ![j] = A]
      /\ pipeline' = [pipeline EXCEPT ![PipelineOf[j]] = "RUNNING"]
  BY DEF ScheduleOne, Core
<1> QED BY <1>1, <1>3, <1>4, <1>5, MoveStep

LEMMA PruneStep ==
    ASSUME Core, NEW retained \in SUBSET Pipelines, Prune(retained)
    PROVE  Core'
<1> DEFINE gone == {p \in Pipelines \ retained :
                      pipeline[p] \in State /\ terminal(pipeline[p]) /\ retain[p] = 0}
<1>1. /\ pipeline' = [p \in Pipelines |-> IF p \in gone THEN "PRUNED" ELSE pipeline[p]]
      /\ job' = [j \in Jobs |-> IF PipelineOf[j] \in gone THEN "NONE" ELSE job[j]]
      /\ attempts' = [j \in Jobs |-> IF PipelineOf[j] \in gone THEN << >> ELSE attempts[j]]
  BY DEF Prune
<1>2. \A j \in Jobs : JobOK(j, job'[j], attempts'[j]) BY <1>1, JobEmpty DEF Core
<1>3. /\ pipeline' \in [Pipelines -> State \cup {"NONE", "PRUNED"}]
      /\ job' \in [Jobs -> State \cup {"NONE"}]
      /\ attempts' \in [Jobs -> Seq(Attempt)]
  <2>1. \A j \in Jobs : job'[j] \in State \cup {"NONE"} /\ attempts'[j] \in Seq(Attempt)
    BY <1>2 DEF JobOK
  <2> QED BY <1>1, <2>1 DEF Core
<1>4. DependencyOrder'
  <2>1. \A j \in Jobs : \A k \in Needs[j] : k \in Jobs /\ PipelineOf[k] = PipelineOf[j]
    BY PipelineAssumption
  <2> QED BY <1>1, <2>1 DEF Core, DependencyOrder
<1>5. PipelineAgrees'
  <2> SUFFICES ASSUME NEW q \in Pipelines PROVE PipelineAgrees!(q)'
    BY DEF PipelineAgrees
  <2>1. CASE q \in gone
    <3>1. pipeline'[q] = "PRUNED" BY <2>1, <1>1
    <3>2. \A j \in JobsOf(q) : job'[j] = "NONE" BY <2>1, <1>1 DEF JobsOf
    <3> QED BY <3>1, <3>2
  <2>2. CASE q \notin gone
    <3>1. pipeline'[q] = pipeline[q] BY <2>2, <1>1
    <3>2. \A j \in JobsOf(q) : job'[j] = job[j] BY <2>2, <1>1 DEF JobsOf
    <3> QED BY <3>1, <3>2, PipelineKept DEF Core
  <2> QED BY <2>1, <2>2
<1> QED BY <1>2, <1>3, <1>4, <1>5 DEF Core

LEMMA AdvanceStep ==
    ASSUME Core, Advance
    PROVE  Core'
<1>1. /\ pipeline' = pipeline /\ job' = job
      /\ attempts' = [j \in Jobs |-> [n \in DOMAIN attempts[j] |-> Aged(attempts[j][n])]]
  BY DEF Advance
<1>2. \A j \in Jobs : JobOK(j, job'[j], attempts'[j]) BY <1>1, JobAges DEF Core
<1>3. attempts' \in [Jobs -> Seq(Attempt)]
  <2>1. \A j \in Jobs : attempts'[j] \in Seq(Attempt) BY <1>2 DEF JobOK
  <2> QED BY <1>1, <2>1
<1>4. \A j \in Jobs : attempts'[j] # << >> => attempts[j] # << >>
  BY <1>1 DEF Core
<1>5. DependencyOrder' BY <1>1, <1>4, OrderKept, PipelineAssumption DEF Core
<1>6. PipelineAgrees' BY <1>1 DEF Core, PipelineAgrees
<1> QED BY <1>1, <1>2, <1>3, <1>5, <1>6 DEF Core

LEMMA CoreUnchanged ==
    ASSUME Core, UNCHANGED <<pipeline, job, attempts>>
    PROVE  Core'
BY DEF Core, PipelineAgrees, DependencyOrder

-----------------------------------------------------------------------------
(* The inductive invariant. *)

Inv == TypeOK /\ AttemptsAgree /\ RetryBudget /\ PipelineAgrees /\ DependencyOrder

\* The variables that Core says nothing of.
RestOK ==
    /\ sequence \in Nat
    /\ seqno \in [Jobs -> Nat]
    /\ retain \in [Pipelines -> Nat]
    /\ workers \subseteq Workers
    /\ age \in [Workers -> Nat]
    /\ lastTenant \in Nat
    /\ tick \in {"idle", "reconcile", "schedule"}
    /\ leased \in 0 .. LeasesPerTick

LEMMA InvMeaning == Inv <=> Core /\ RestOK
BY CoreMeaning DEF Inv, TypeOK, Core, RestOK

LEMMA InitInv == Init => Inv
<1> SUFFICES ASSUME Init PROVE Core /\ RestOK BY InvMeaning
<1>1. \A j \in Jobs : JobOK(j, job[j], attempts[j]) BY JobEmpty DEF Init
<1>2. PipelineAgrees BY DEF Init, PipelineAgrees, JobsOf
<1>3. DependencyOrder BY DEF Init, DependencyOrder
<1> QED BY <1>1, <1>2, <1>3, ConfigAssumption DEF Init, Core, RestOK, State

\* The sequence numbers a submission gives out are numbers.
LEMMA RankType ==
    ASSUME NEW p \in Pipelines
    PROVE  /\ Cardinality(JobsOf(p)) \in Nat
           /\ \A j \in Jobs : Cardinality({k \in JobsOf(p) : Position[k] <= Position[j]}) \in Nat
<1>1. IsFiniteSet(JobsOf(p)) BY PipelineAssumption, FS_Subset DEF JobsOf
<1>2. \A j \in Jobs : IsFiniteSet({k \in JobsOf(p) : Position[k] <= Position[j]})
  BY <1>1, FS_Subset
<1> QED BY <1>1, <1>2, FS_CardinalityType

LEMMA RestStep ==
    ASSUME RestOK, [Next]_vars
    PROVE  RestOK'
<1> USE DEF RestOK
<1>1. ASSUME NEW p \in Pipelines, Submit(p) PROVE RestOK'
  BY <1>1, RankType, ConfigAssumption DEF Submit
<1>2. ASSUME NEW pr \in PullRequests, ClosePR(pr) PROVE RestOK'
  BY <1>2 DEF ClosePR
<1>3. ASSUME NEW j \in Jobs, CancelJob(j) PROVE RestOK'
  BY <1>3 DEF CancelJob
<1>4. ASSUME NEW w \in Workers, RegisterWorker(w) \/ HeartbeatWorker(w) PROVE RestOK'
  BY <1>4 DEF RegisterWorker, HeartbeatWorker
<1>5. ASSUME NEW j \in Jobs, NEW n \in DOMAIN attempts[j], HeartbeatAttempt(j, n) PROVE RestOK'
  BY <1>5 DEF HeartbeatAttempt
<1>6. ASSUME NEW j \in Jobs, NEW n \in DOMAIN attempts[j], NEW s, Finish(j, n, s) PROVE RestOK'
  BY <1>6 DEF Finish
<1>7. ASSUME NEW j \in Jobs, NEW n \in DOMAIN attempts[j], ExpireAttempt(j, n) PROVE RestOK'
  BY <1>7 DEF ExpireAttempt
<1>8. ASSUME NEW retained \in SUBSET Pipelines, Prune(retained) PROVE RestOK'
  <2>1. tick' = "schedule" /\ UNCHANGED <<sequence, seqno, retain, workers, age, lastTenant, leased>>
    BY <1>8 DEF Prune
  <2> QED BY <2>1
<1>9. ASSUME NEW j \in Jobs, NEW w \in Workers, ScheduleOne(j, w) PROVE RestOK'
  <2>1. PipelineOf[j] \in Pipelines /\ TenantOf[PipelineOf[j]] \in Nat BY PipelineAssumption
  <2> QED BY <1>9, <2>1, ConfigAssumption DEF ScheduleOne
<1>10. CASE BeginTick BY <1>10 DEF BeginTick
<1>11. CASE EndTick
  <2>1. /\ tick' = "idle" /\ leased' = 0
        /\ UNCHANGED <<sequence, seqno, retain, workers, age, lastTenant>>
    BY <1>11 DEF EndTick
  <2>2. 0 \in 0 .. LeasesPerTick BY ConfigAssumption
  <2> QED BY <2>1, <2>2
<1>12. CASE Advance
  <2>1. \A n \in Nat : Earlier(n) \in Nat BY DEF Earlier
  <2> QED BY <1>12, <2>1 DEF Advance
<1>13. CASE UNCHANGED vars BY <1>13 DEF vars
<1> QED BY <1>1, <1>2, <1>3, <1>4, <1>5, <1>6, <1>7, <1>8, <1>9, <1>10, <1>11, <1>12, <1>13
        DEF Next, Request, TickStep

LEMMA CoreStep ==
    ASSUME Core, [Next]_vars
    PROVE  Core'
<1>1. ASSUME NEW w \in Workers, RegisterWorker(w) \/ HeartbeatWorker(w) PROVE Core'
  BY <1>1, CoreUnchanged DEF RegisterWorker, HeartbeatWorker
<1>2. CASE BeginTick \/ EndTick BY <1>2, CoreUnchanged DEF BeginTick, EndTick
<1>3. CASE UNCHANGED vars BY <1>3, CoreUnchanged DEF vars
<1> QED BY <1>1, <1>2, <1>3, SubmitStep, ClosePRStep, CancelJobStep, HeartbeatAttemptStep,
           FinishStep, ExpireAttemptStep, PruneStep, ScheduleOneStep, AdvanceStep
        DEF Next, Request, TickStep

\* The invariant holds in every state the store can reach: jobs, attempts and
\* pipelines agree, retries stay within their limit and dependencies are
\* respected, for any pipelines, workers and settings.
THEOREM InvariantHolds == Spec => []Inv
<1>1. Init => Inv BY InitInv
<1>2. Inv /\ [Next]_vars => Inv'
  <2>1. Inv' <=> Core' /\ RestOK' BY InvMeaning, PTL
  <2> QED BY <2>1, InvMeaning, CoreStep, RestStep
<1> QED BY <1>1, <1>2, PTL DEF Spec

\* The states of the store are well typed.
THEOREM TypeCorrect == Spec => []TypeOK
BY InvariantHolds, PTL DEF Inv

\* Jobs and attempts agree (heartbeats, results, expiries, cancellations).
THEOREM HistoriesAgree == Spec => []AttemptsAgree
BY InvariantHolds, PTL DEF Inv

\* Retries stay within MaxAttempts (reconcileExpiredLocked).
THEOREM RetriesBounded == Spec => []RetryBudget
BY InvariantHolds, PTL DEF Inv

\* Pipelines have the state of their jobs (updatePipelineLocked).
THEOREM PipelinesAgree == Spec => []PipelineAgrees
BY InvariantHolds, PTL DEF Inv

\* Jobs run after the jobs they need (dependenciesSucceededLocked).
THEOREM OrderRespected == Spec => []DependencyOrder
BY InvariantHolds, PTL DEF Inv


-----------------------------------------------------------------------------
(* The lifecycle: what the shared updates do to the committed successes. *)

\* The committed successes are the same if each job is SUCCEEDED as before.
LEMMA SameSucceeded ==
    ASSUME \A j \in Jobs : job'[j] = "SUCCEEDED" <=> job[j] = "SUCCEEDED"
    PROVE  Succeeded' = Succeeded
BY DEF Succeeded

LEMMA CancelKeepsSucceeded ==
    ASSUME NEW P, cancelPipelines(P)
    PROVE  Succeeded' = Succeeded
BY SameSucceeded DEF cancelPipelines, CancelledJobs, Pending, terminal

LEMMA SubmitMaps ==
    ASSUME Core, NEW p \in Pipelines, Submit(p)
    PROVE  Lifecycle!LifecycleNext
<1> DEFINE older == {q \in Pipelines : PROf[p] > 0 /\ PROf[q] = PROf[p] /\ Open(q)}
<1>1. pipeline[p] = "NONE" BY DEF Submit
<1>2. \A q \in older : pipeline[q] \in {"QUEUED", "RUNNING"} BY OpenPipeline
<1>3. Succeeded' = Succeeded
  <2>1. \A j \in JobsOf(p) : job[j] = "NONE" /\ job'[j] = "QUEUED"
    BY <1>1 DEF Core, PipelineAgrees, Submit, JobsOf
  <2>2. \A j \in Jobs \ JobsOf(p) : job'[j] = "SUCCEEDED" <=> job[j] = "SUCCEEDED"
    BY DEF Submit, CancelledJobs, Pending, terminal
  <2> QED BY <2>1, <2>2, SameSucceeded
<1>4. pipeline' = [q \in Pipelines |-> IF q = p THEN "QUEUED"
                                       ELSE IF q \in older THEN "CANCELLED" ELSE pipeline[q]]
  BY DEF Submit
<1>5. Lifecycle!Accept(p, older)
  BY <1>1, <1>2, <1>3, <1>4 DEF Lifecycle!Accept, Lifecycle!IsOpen
<1> QED BY <1>5 DEF Lifecycle!LifecycleNext

LEMMA CancelMaps ==
    ASSUME Core, NEW P \in SUBSET Pipelines, \A p \in P : Open(p), cancelPipelines(P)
    PROVE  Lifecycle!LifecycleNext
<1>1. \A p \in P : pipeline[p] \in {"QUEUED", "RUNNING"} BY OpenPipeline
<1>2. Lifecycle!Cancel(P)
  BY <1>1, CancelKeepsSucceeded DEF cancelPipelines, Lifecycle!Cancel, Lifecycle!IsOpen
<1> QED BY <1>2 DEF Lifecycle!LifecycleNext

LEMMA CommitMaps ==
    ASSUME Core, NEW j \in Jobs, NEW n \in DOMAIN attempts[j],
           active(attempts[j][n].status), NEW s \in {"SUCCEEDED", "FAILED"},
           updatePipeline(PipelineOf[j], [job EXCEPT ![j] = s],
                          [attempts EXCEPT ![j][n] = End(attempts[j][n], s)])
    PROVE  Lifecycle!LifecycleNext
<1> DEFINE p == PipelineOf[j]
           J == [job EXCEPT ![j] = s]
<1>1. /\ p \in Pipelines /\ pipeline[p] = "RUNNING" /\ j \in JobsOf(p)
      /\ job[j] # "SUCCEEDED" /\ \A k \in Needs[j] : job[k] = "SUCCEEDED"
  BY ActiveJob DEF JobsOf, terminal
<1>2. \A k \in JobsOf(p) : job[k] # "FAILED" BY <1>1 DEF Core, PipelineAgrees
<1>3. CASE s = "FAILED"
  <2>1. job' = CancelledJobs({p}, J) /\ pipeline' = [pipeline EXCEPT ![p] = "FAILED"]
    BY <1>1, <1>3 DEF updatePipeline, Core
  <2>2. Succeeded' = Succeeded
    BY <2>1, <1>1, <1>3, SameSucceeded DEF CancelledJobs, Pending, terminal, Core
  <2>3. Lifecycle!Fail(p) BY <1>1, <2>1, <2>2 DEF Lifecycle!Fail
  <2> QED BY <1>1, <2>3 DEF Lifecycle!LifecycleNext
<1>4. CASE s = "SUCCEEDED"
  <2>1. ~ \E k \in JobsOf(p) : J[k] = "FAILED" BY <1>2, <1>4 DEF Core, JobsOf
  <2>2. /\ job' = J
        /\ pipeline' = [pipeline EXCEPT ![p] =
              IF \A k \in JobsOf(p) : J[k] = "SUCCEEDED" THEN "SUCCEEDED" ELSE "RUNNING"]
    BY <2>1 DEF updatePipeline
  <2>3. Succeeded' = Succeeded \cup {j} BY <2>2, <1>4 DEF Succeeded, Core
  <2>4. (\A k \in JobsOf(p) : J[k] = "SUCCEEDED") <=> Lifecycle!Members(p) \subseteq Succeeded'
    BY <2>2 DEF Succeeded, JobsOf, Lifecycle!Members
  <2>5. j \notin Succeeded /\ Needs[j] \subseteq Succeeded
    BY <1>1, PipelineAssumption DEF Succeeded
  <2>6. Lifecycle!Commit(j)
    BY <1>1, <2>2, <2>3, <2>4, <2>5 DEF Lifecycle!Commit
  <2> QED BY <2>6 DEF Lifecycle!LifecycleNext
<1> QED BY <1>3, <1>4

\* One job moves between states that are not over: a stutter, or the start.
LEMMA MoveMaps ==
    ASSUME Core, NEW j \in Jobs, NEW s \in {"QUEUED", "LEASED", "RUNNING"},
           job[j] \in State, ~terminal(job[j]), job' = [job EXCEPT ![j] = s],
           pipeline' = [pipeline EXCEPT ![PipelineOf[j]] = "RUNNING"]
    PROVE  Lifecycle!LifecycleNext \/ UNCHANGED <<pipeline, Succeeded>>
<1> DEFINE p == PipelineOf[j]
<1>1. p \in Pipelines /\ pipeline[p] \in {"QUEUED", "RUNNING"} BY OpenJob, OpenPipeline
<1>2. Succeeded' = Succeeded BY SameSucceeded DEF Core, terminal
<1>3. CASE pipeline[p] = "QUEUED"
  <2>1. Lifecycle!Start(p) BY <1>2, <1>3 DEF Lifecycle!Start
  <2> QED BY <1>1, <2>1 DEF Lifecycle!LifecycleNext
<1>4. CASE pipeline[p] = "RUNNING" BY <1>2, <1>4 DEF Core
<1> QED BY <1>1, <1>3, <1>4

LEMMA PruneMaps ==
    ASSUME Core, NEW retained \in SUBSET Pipelines, Prune(retained)
    PROVE  Lifecycle!LifecycleNext
<1> DEFINE gone == {p \in Pipelines \ retained :
                      pipeline[p] \in State /\ terminal(pipeline[p]) /\ retain[p] = 0}
<1>1. /\ pipeline' = [p \in Pipelines |-> IF p \in gone THEN "PRUNED" ELSE pipeline[p]]
      /\ job' = [j \in Jobs |-> IF PipelineOf[j] \in gone THEN "NONE" ELSE job[j]]
  BY DEF Prune
<1>2. Succeeded' = {j \in Succeeded : PipelineOf[j] \notin gone} BY <1>1 DEF Succeeded
<1>3. \A p \in gone : pipeline[p] \in {"SUCCEEDED", "FAILED", "CANCELLED"}
  BY DEF Core, PipelineAgrees, terminal, State
<1>4. Lifecycle!Forget(gone) BY <1>1, <1>2, <1>3 DEF Lifecycle!Forget, Lifecycle!IsOver
<1>5. gone \in SUBSET Pipelines OBVIOUS
<1> QED BY <1>4, <1>5 DEF Lifecycle!LifecycleNext

\* The actions that move one job within an open pipeline.
LEMMA MovingActions ==
    ASSUME Core, NEW j \in Jobs,
           \/ \E n \in DOMAIN attempts[j] : HeartbeatAttempt(j, n)
           \/ \E n \in DOMAIN attempts[j] :
                ExpireAttempt(j, n) /\ ~OutOfTries(j, n, attempts[j][n])
           \/ \E w \in Workers : ScheduleOne(j, w)
    PROVE  /\ job[j] \in State /\ ~terminal(job[j])
           /\ \E s \in {"QUEUED", "LEASED", "RUNNING"} : job' = [job EXCEPT ![j] = s]
           /\ pipeline' = [pipeline EXCEPT ![PipelineOf[j]] = "RUNNING"]
<1>1. ASSUME NEW n \in DOMAIN attempts[j], HeartbeatAttempt(j, n)
      PROVE  /\ job[j] \in State /\ ~terminal(job[j])
             /\ \E s \in {"QUEUED", "LEASED", "RUNNING"} : job' = [job EXCEPT ![j] = s]
             /\ pipeline' = [pipeline EXCEPT ![PipelineOf[j]] = "RUNNING"]
  <2>1. active(attempts[j][n].status) BY <1>1 DEF HeartbeatAttempt, Current
  <2>2. /\ job[j] = attempts[j][n].status /\ job[j] \in State /\ ~terminal(job[j])
        /\ pipeline[PipelineOf[j]] = "RUNNING"
    BY <2>1, ActiveJob
  <2>3. job' = [job EXCEPT ![j] = "RUNNING"]
    BY <1>1, <2>1, <2>2 DEF HeartbeatAttempt, Core, active
  <2> QED BY <1>1, <2>2, <2>3 DEF HeartbeatAttempt, Core
<1>2. ASSUME NEW n \in DOMAIN attempts[j], ExpireAttempt(j, n),
             ~OutOfTries(j, n, attempts[j][n])
      PROVE  /\ job[j] \in State /\ ~terminal(job[j])
             /\ \E s \in {"QUEUED", "LEASED", "RUNNING"} : job' = [job EXCEPT ![j] = s]
             /\ pipeline' = [pipeline EXCEPT ![PipelineOf[j]] = "RUNNING"]
  <2>1. active(attempts[j][n].status) BY <1>2 DEF ExpireAttempt, Expired
  <2>2. job[j] \in State /\ ~terminal(job[j]) /\ pipeline[PipelineOf[j]] = "RUNNING"
    BY <2>1, ActiveJob
  <2>3. job' = [job EXCEPT ![j] = "QUEUED"] BY <1>2, <2>2 DEF ExpireAttempt
  <2> QED BY <1>2, <2>2, <2>3 DEF ExpireAttempt, Core
<1>3. ASSUME NEW w \in Workers, ScheduleOne(j, w)
      PROVE  /\ job[j] \in State /\ ~terminal(job[j])
             /\ \E s \in {"QUEUED", "LEASED", "RUNNING"} : job' = [job EXCEPT ![j] = s]
             /\ pipeline' = [pipeline EXCEPT ![PipelineOf[j]] = "RUNNING"]
  BY <1>3 DEF ScheduleOne, Schedulable, Runnable, State, terminal
<1> QED BY <1>1, <1>2, <1>3

\* Every step of the store is a step of the lifecycle or leaves it alone.
LifecycleStep == Lifecycle!LifecycleNext \/ UNCHANGED <<pipeline, Succeeded>>

LEMMA StepMaps ==
    ASSUME Core, [Next]_vars
    PROVE  LifecycleStep
<1>1. ASSUME NEW p \in Pipelines, Submit(p) PROVE LifecycleStep
  BY <1>1, SubmitMaps DEF LifecycleStep
<1>2. ASSUME NEW pr \in PullRequests, ClosePR(pr) PROVE LifecycleStep
  <2> DEFINE P == {p \in Pipelines : PROf[p] = pr /\ Open(p)}
  <2>1. P \in SUBSET Pipelines /\ (\A p \in P : Open(p)) /\ cancelPipelines(P)
    BY <1>2 DEF ClosePR
  <2> QED BY <2>1, CancelMaps DEF LifecycleStep
<1>3. ASSUME NEW j \in Jobs, CancelJob(j) PROVE LifecycleStep
  <2>1. /\ {PipelineOf[j]} \in SUBSET Pipelines /\ (\A p \in {PipelineOf[j]} : Open(p))
        /\ cancelPipelines({PipelineOf[j]})
    BY <1>3, OpenJob DEF CancelJob
  <2> QED BY <2>1, CancelMaps DEF LifecycleStep
<1>4. ASSUME NEW j \in Jobs, NEW n \in DOMAIN attempts[j], HeartbeatAttempt(j, n)
      PROVE LifecycleStep
  BY <1>4, MovingActions, MoveMaps DEF LifecycleStep
<1>5. ASSUME NEW j \in Jobs, NEW n \in DOMAIN attempts[j],
             NEW s \in {"SUCCEEDED", "FAILED"}, Finish(j, n, s)
      PROVE  LifecycleStep
  BY <1>5, CommitMaps DEF LifecycleStep, Finish, Current
<1>6. ASSUME NEW j \in Jobs, NEW n \in DOMAIN attempts[j], ExpireAttempt(j, n) PROVE LifecycleStep
  <2>1. CASE OutOfTries(j, n, attempts[j][n])
    <3>1. active(attempts[j][n].status) BY <1>6 DEF ExpireAttempt, Expired
    <3> QED BY <1>6, <2>1, <3>1, CommitMaps DEF LifecycleStep, ExpireAttempt
  <2>2. CASE ~OutOfTries(j, n, attempts[j][n])
    BY <1>6, <2>2, MovingActions, MoveMaps DEF LifecycleStep
  <2> QED BY <2>1, <2>2
<1>7. ASSUME NEW retained \in SUBSET Pipelines, Prune(retained) PROVE LifecycleStep
  BY <1>7, PruneMaps DEF LifecycleStep
<1>8. ASSUME NEW j \in Jobs, NEW w \in Workers, ScheduleOne(j, w) PROVE LifecycleStep
  BY <1>8, MovingActions, MoveMaps DEF LifecycleStep
<1>9. ASSUME UNCHANGED <<pipeline, job>> PROVE LifecycleStep
  BY <1>9, SameSucceeded DEF LifecycleStep
<1>10. ASSUME NEW w \in Workers, RegisterWorker(w) \/ HeartbeatWorker(w) PROVE LifecycleStep
  BY <1>9, <1>10 DEF RegisterWorker, HeartbeatWorker
<1>11. CASE BeginTick \/ EndTick \/ Advance
  BY <1>9, <1>11 DEF BeginTick, EndTick, Advance
<1>12. CASE UNCHANGED vars BY <1>9, <1>12 DEF vars
<1> QED BY <1>1, <1>2, <1>3, <1>4, <1>5, <1>6, <1>7, <1>8, <1>10, <1>11, <1>12
        DEF Next, Request, TickStep

\* The store implements the lifecycle its clients see.
THEOREM StoreImplementsLifecycle == Spec => RefinesLifecycle
<1>1. Init => Lifecycle!LifecycleInit
  BY DEF Init, Lifecycle!LifecycleInit, Succeeded
<1>2. Inv /\ [Next]_vars => [Lifecycle!LifecycleNext]_(Lifecycle!lifecycleVars)
  BY InvMeaning, StepMaps DEF LifecycleStep, Lifecycle!lifecycleVars
<1> QED BY <1>1, <1>2, InvariantHolds, PTL DEF Spec, RefinesLifecycle, Lifecycle!LifecycleSpec

-----------------------------------------------------------------------------
(* What is over stays over. *)

\* The attempts B keep every attempt of A that has ended as it ended.
KeepsEnded(A, B) ==
    \A n \in DOMAIN A : terminal(A[n].status) => n \in DOMAIN B /\ B[n].status = A[n].status

LEMMA CancelKeepsEnded ==
    ASSUME NEW A PROVE KeepsEnded(A, CancelActive(A))
BY DEF KeepsEnded, CancelActive, active, terminal

LEMMA ReplaceKeepsEnded ==
    ASSUME NEW A \in Seq(Attempt), NEW n \in DOMAIN A, active(A[n].status), NEW b
    PROVE  KeepsEnded(A, [A EXCEPT ![n] = b])
BY DEF KeepsEnded, active, terminal

LEMMA AppendKeepsEnded ==
    ASSUME NEW A \in Seq(Attempt), NEW b PROVE KeepsEnded(A, Append(A, b))
BY DEF KeepsEnded

LEMMA AgeKeepsEnded ==
    ASSUME NEW A \in Seq(Attempt) PROVE KeepsEnded(A, [n \in DOMAIN A |-> Aged(A[n])])
BY AgedType DEF KeepsEnded

\* What FinalStep asks of the jobs, without the exception for pruned pipelines.
LEMMA FinalFromParts ==
    ASSUME \A p \in Pipelines : Over(p) => pipeline'[p] \in {pipeline[p], "PRUNED"},
           \A j \in Jobs : terminal(job[j]) => job'[j] = job[j],
           \A j \in Jobs : KeepsEnded(attempts[j], attempts'[j])
    PROVE  FinalStep
BY DEF FinalStep, KeepsEnded

LEMMA CancelIsFinal ==
    ASSUME Core, NEW P \in SUBSET Pipelines, \A p \in P : Open(p), cancelPipelines(P)
    PROVE  FinalStep
<1>1. \A p \in Pipelines : Over(p) => pipeline'[p] = pipeline[p]
  BY DEF cancelPipelines, Over, Open
<1>2. \A j \in Jobs : terminal(job[j]) => job'[j] = job[j]
  BY DEF cancelPipelines, CancelledJobs, Pending
<1>3. \A j \in Jobs : attempts'[j] \in {attempts[j], CancelActive(attempts[j])}
  BY DEF cancelPipelines, CancelledAttempts
<1>4. \A j \in Jobs : KeepsEnded(attempts[j], attempts[j]) BY DEF KeepsEnded
<1>5. \A j \in Jobs : KeepsEnded(attempts[j], attempts'[j]) BY <1>3, <1>4, CancelKeepsEnded
<1> QED BY <1>1, <1>2, <1>5, FinalFromParts

LEMMA SubmitIsFinal ==
    ASSUME Core, NEW p \in Pipelines, Submit(p)
    PROVE  FinalStep
<1> DEFINE older == {q \in Pipelines : PROf[p] > 0 /\ PROf[q] = PROf[p] /\ Open(q)}
<1>1. /\ pipeline[p] = "NONE"
      /\ pipeline' = [q \in Pipelines |-> IF q = p THEN "QUEUED"
                                          ELSE IF q \in older THEN "CANCELLED" ELSE pipeline[q]]
      /\ job' = [j \in Jobs |-> IF j \in JobsOf(p) THEN "QUEUED"
                                ELSE CancelledJobs(older, job)[j]]
      /\ attempts' = CancelledAttempts(older, job, attempts)
  BY DEF Submit
<1>2. \A q \in Pipelines : Over(q) => pipeline'[q] = pipeline[q]
  BY <1>1 DEF Over, Open, State
<1>3. \A j \in JobsOf(p) : job[j] = "NONE" BY <1>1 DEF Core, PipelineAgrees
<1>4. \A j \in Jobs : terminal(job[j]) => job'[j] = job[j]
  BY <1>1, <1>3 DEF CancelledJobs, Pending, terminal
<1>5. \A j \in Jobs : attempts'[j] \in {attempts[j], CancelActive(attempts[j])}
  BY <1>1 DEF CancelledAttempts
<1>6. \A j \in Jobs : KeepsEnded(attempts[j], attempts[j]) BY DEF KeepsEnded
<1>7. \A j \in Jobs : KeepsEnded(attempts[j], attempts'[j]) BY <1>5, <1>6, CancelKeepsEnded
<1> QED BY <1>2, <1>4, <1>7, FinalFromParts

LEMMA CommitIsFinal ==
    ASSUME Core, NEW j \in Jobs, NEW n \in DOMAIN attempts[j],
           active(attempts[j][n].status), NEW s \in {"SUCCEEDED", "FAILED"},
           updatePipeline(PipelineOf[j], [job EXCEPT ![j] = s],
                          [attempts EXCEPT ![j][n] = End(attempts[j][n], s)])
    PROVE  FinalStep
<1> DEFINE p == PipelineOf[j]
           J == [job EXCEPT ![j] = s]
           A == [attempts EXCEPT ![j][n] = End(attempts[j][n], s)]
<1>1. p \in Pipelines /\ pipeline[p] = "RUNNING" /\ ~terminal(job[j]) BY ActiveJob
<1>2. \A q \in Pipelines : Over(q) => pipeline'[q] = pipeline[q]
  BY <1>1 DEF updatePipeline, Over, terminal, Core
<1>3. \A k \in Jobs : terminal(job[k]) => job'[k] = job[k]
  BY <1>1 DEF updatePipeline, CancelledJobs, Pending, Core
<1>4. \A k \in Jobs : KeepsEnded(attempts[k], A[k])
  <2>1. A[j] = [attempts[j] EXCEPT ![n] = End(attempts[j][n], s)] BY DEF Core
  <2>2. KeepsEnded(attempts[j], A[j])
    BY <2>1, ReplaceKeepsEnded DEF Core
  <2>3. \A k \in Jobs \ {j} : A[k] = attempts[k] BY DEF Core
  <2> QED BY <2>2, <2>3 DEF KeepsEnded
<1>5. \A k \in Jobs : attempts'[k] \in {A[k], CancelActive(A[k])}
  BY DEF updatePipeline, CancelledAttempts, Core
<1>6. \A k \in Jobs : KeepsEnded(A[k], A[k]) BY DEF KeepsEnded
<1>7. \A k \in Jobs : KeepsEnded(A[k], attempts'[k]) BY <1>5, <1>6, CancelKeepsEnded
<1>8. \A k \in Jobs : KeepsEnded(attempts[k], attempts'[k]) BY <1>4, <1>7 DEF KeepsEnded
<1> QED BY <1>2, <1>3, <1>8, FinalFromParts

\* The actions that move one job change at most its active attempt.
LEMMA MovesAreFinal ==
    ASSUME Core, NEW j \in Jobs,
           \/ \E n \in DOMAIN attempts[j] : HeartbeatAttempt(j, n)
           \/ \E n \in DOMAIN attempts[j] :
                ExpireAttempt(j, n) /\ ~OutOfTries(j, n, attempts[j][n])
           \/ \E w \in Workers : ScheduleOne(j, w)
    PROVE  FinalStep
<1>1. /\ job[j] \in State /\ ~terminal(job[j])
      /\ \E s \in {"QUEUED", "LEASED", "RUNNING"} : job' = [job EXCEPT ![j] = s]
      /\ pipeline' = [pipeline EXCEPT ![PipelineOf[j]] = "RUNNING"]
  BY MovingActions
<1>2. \A q \in Pipelines : Over(q) => pipeline'[q] = pipeline[q]
  <2>1. Open(PipelineOf[j]) BY <1>1, OpenJob
  <2> QED BY <1>1, <2>1 DEF Over, Open, Core
<1>3. \A k \in Jobs : terminal(job[k]) => job'[k] = job[k] BY <1>1 DEF Core
<1>4. KeepsEnded(attempts[j], attempts'[j]) /\ \A k \in Jobs \ {j} : attempts'[k] = attempts[k]
  <2>1. ASSUME NEW n \in DOMAIN attempts[j], NEW b, active(attempts[j][n].status),
               attempts' = [attempts EXCEPT ![j][n] = b]
        PROVE  /\ KeepsEnded(attempts[j], attempts'[j])
               /\ \A k \in Jobs \ {j} : attempts'[k] = attempts[k]
    <3>1. attempts'[j] = [attempts[j] EXCEPT ![n] = b] BY <2>1 DEF Core
    <3> QED BY <2>1, <3>1, ReplaceKeepsEnded DEF Core
  <2>2. ASSUME NEW w \in Workers, ScheduleOne(j, w)
        PROVE  /\ KeepsEnded(attempts[j], attempts'[j])
               /\ \A k \in Jobs \ {j} : attempts'[k] = attempts[k]
    <3> DEFINE a == [worker |-> w, status |-> "LEASED", lease |-> LeaseTTL, left |-> jobTimeout(j)]
    <3>1. attempts' = [attempts EXCEPT ![j] = Append(attempts[j], a)]
      BY <2>2 DEF ScheduleOne
    <3>2. attempts'[j] = Append(attempts[j], a) BY <3>1 DEF Core
    <3> QED BY <3>1, <3>2, AppendKeepsEnded DEF Core
  <2>3. ASSUME NEW n \in DOMAIN attempts[j], HeartbeatAttempt(j, n)
        PROVE  active(attempts[j][n].status) /\ \E b : attempts' = [attempts EXCEPT ![j][n] = b]
    BY <2>3 DEF HeartbeatAttempt, Current
  <2>4. ASSUME NEW n \in DOMAIN attempts[j], ExpireAttempt(j, n),
               ~OutOfTries(j, n, attempts[j][n])
        PROVE  active(attempts[j][n].status) /\ \E b : attempts' = [attempts EXCEPT ![j][n] = b]
    BY <2>4 DEF ExpireAttempt, Expired
  <2> QED BY <2>1, <2>2, <2>3, <2>4
<1>5. \A k \in Jobs : KeepsEnded(attempts[k], attempts'[k])
  BY <1>4 DEF KeepsEnded
<1> QED BY <1>2, <1>3, <1>5, FinalFromParts

LEMMA PruneIsFinal ==
    ASSUME Core, NEW retained \in SUBSET Pipelines, Prune(retained)
    PROVE  FinalStep
<1>1. \A p \in Pipelines : pipeline'[p] \in {pipeline[p], "PRUNED"} BY DEF Prune
<1>2. \A j \in Jobs : PipelineOf[j] \in Pipelines BY PipelineAssumption
<1>3. \A j \in Jobs : pipeline'[PipelineOf[j]] # "PRUNED" =>
        job'[j] = job[j] /\ attempts'[j] = attempts[j]
  BY <1>2 DEF Prune
<1> QED BY <1>1, <1>3 DEF FinalStep

LEMMA StepIsFinal ==
    ASSUME Core, [Next]_vars
    PROVE  FinalStep \/ UNCHANGED vars
<1>1. ASSUME NEW pr \in PullRequests, ClosePR(pr) PROVE FinalStep
  <2> DEFINE P == {p \in Pipelines : PROf[p] = pr /\ Open(p)}
  <2>1. P \in SUBSET Pipelines /\ (\A p \in P : Open(p)) /\ cancelPipelines(P)
    BY <1>1 DEF ClosePR
  <2> QED BY <2>1, CancelIsFinal
<1>2. ASSUME NEW j \in Jobs, CancelJob(j) PROVE FinalStep
  <2>1. /\ {PipelineOf[j]} \in SUBSET Pipelines /\ (\A p \in {PipelineOf[j]} : Open(p))
        /\ cancelPipelines({PipelineOf[j]})
    BY <1>2, OpenJob DEF CancelJob
  <2> QED BY <2>1, CancelIsFinal
<1>3. ASSUME NEW j \in Jobs, NEW n \in DOMAIN attempts[j],
             NEW s \in {"SUCCEEDED", "FAILED"}, Finish(j, n, s)
      PROVE  FinalStep
  BY <1>3, CommitIsFinal DEF Finish, Current
<1>4. ASSUME NEW j \in Jobs, NEW n \in DOMAIN attempts[j], ExpireAttempt(j, n) PROVE FinalStep
  <2>1. CASE OutOfTries(j, n, attempts[j][n])
    <3>1. active(attempts[j][n].status) BY <1>4 DEF ExpireAttempt, Expired
    <3> QED BY <1>4, <2>1, <3>1, CommitIsFinal DEF ExpireAttempt
  <2>2. CASE ~OutOfTries(j, n, attempts[j][n]) BY <1>4, <2>2, MovesAreFinal
  <2> QED BY <2>1, <2>2
<1>5. CASE Advance
  <2>1. \A j \in Jobs : KeepsEnded(attempts[j], attempts'[j])
    BY <1>5, AgeKeepsEnded DEF Advance, Core
  <2> QED BY <1>5, <2>1, FinalFromParts DEF Advance
<1>6. ASSUME UNCHANGED <<pipeline, job, attempts>> PROVE FinalStep
  BY <1>6 DEF FinalStep
<1>7. ASSUME NEW w \in Workers, RegisterWorker(w) \/ HeartbeatWorker(w) PROVE FinalStep
  BY <1>6, <1>7 DEF RegisterWorker, HeartbeatWorker
<1>8. CASE BeginTick \/ EndTick BY <1>6, <1>8 DEF BeginTick, EndTick
<1> QED BY <1>1, <1>2, <1>3, <1>4, <1>5, <1>7, <1>8, SubmitIsFinal, MovesAreFinal, PruneIsFinal
        DEF Next, Request, TickStep

\* Nothing that has ended changes again, in any behaviour of the store.
THEOREM EndedStaysEnded == Spec => TerminalIsFinal
<1>1. Inv /\ [Next]_vars => [FinalStep]_vars BY InvMeaning, StepIsFinal
<1> QED BY <1>1, InvariantHolds, PTL DEF Spec, TerminalIsFinal

=============================================================================
