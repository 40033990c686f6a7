------------------------------ MODULE JobStore ------------------------------
(***************************************************************************)
(* Pipelines, jobs, attempts and workers as internal/control keeps them:   *)
(* admission, the tick of the API process (lease expiry, retention and     *)
(* round-robin scheduling in one transaction), leases, completion and      *)
(* cancellation.                                                           *)
(*                                                                         *)
(* Every request of the API runs as one transaction under the lock of the  *)
(* state row (persistence/backend.go), so an action is one transaction; a  *)
(* transaction that returns an error is rolled back and is a stuttering    *)
(* step.  The tick is the one transaction with inner steps worth telling   *)
(* apart: `tick' is its program counter, and while it is not "idle" no     *)
(* other transaction runs and the time does not move.                      *)
(*                                                                         *)
(* Time stamps are kept as what the code compares them for: the time left  *)
(* until LeaseExpires, until CreatedAt + timeout and until CreatedAt +     *)
(* Retention, and the age of a worker's last heartbeat.  Reading           *)
(* `now.Before(LeaseExpires)' is then `lease > 0'.                         *)
(*                                                                         *)
(* A request of a worker names an attempt and proves it with that          *)
(* attempt's token.  Tokens are random and never shared, so a request is   *)
(* the pair <<j, n>> of a job and an attempt number; it can come at any    *)
(* time, any number of times: retries, duplicates and late messages are    *)
(* all in.  PR state, delivery deduplication and previews are kept apart   *)
(* (see README); here any pipeline may be submitted, superseded or closed  *)
(* and a preview may keep any finished pipeline from being pruned.         *)
(*                                                                         *)
(* An operator with a name of the form Op_Mistake is Op with one plausible *)
(* mistake.  No specification uses it; putting it in the place of Op shows *)
(* that a property can tell the two apart.                                 *)
(***************************************************************************)
EXTENDS Domain, Integers, Sequences, FiniteSets, FiniteSetsExt

CONSTANTS
    Pipelines,      \* pipeline IDs; each is submitted at most once
    Jobs,           \* job IDs
    Workers,        \* worker IDs, numbers standing for the sorted strings
    Kinds,          \* the resources that are budgeted: CPU and memory
    PipelineOf,     \* [Jobs -> Pipelines]
    Position,       \* [Jobs -> Nat], the place in the order planner.Validate returns
    Needs,          \* [Jobs -> SUBSET Jobs]
    TenantOf,       \* [Pipelines -> Nat \ {0}], numbers standing for the sorted strings
    PROf,           \* [Pipelines -> Nat], the pull request, 0 for none
    Priority,       \* [Jobs -> Int]
    Trusted,        \* the jobs that run in trusted workers
    Capabilities,   \* [Jobs -> set of capabilities]
    Resources,      \* [Jobs -> [Kinds -> Nat]]
    MaxAttempts,    \* [Jobs -> Int], the default applies below 1
    Timeout,        \* [Jobs -> Int], the default applies below 1
    WorkerTrusted,  \* the trusted workers
    WorkerCaps,     \* [Workers -> set of capabilities]
    WorkerRes,      \* [Workers -> [Kinds -> Int]], no limit if not positive
    Capacity,       \* [Workers -> Nat \ {0}]
    LeaseTTL, WorkerTTL, Retention, TenantLimit, TenantQuota, MaxQueuedJobs,
    DefaultTimeout, \* 900 s in ticks of the model's clock
    LeasesPerTick,  \* ScheduleOne calls in one tick, 64 in the code
    LiveWorkers     \* workers assumed to heartbeat in time; {} assumes nothing

VARIABLES
    pipeline,   \* [Pipelines -> State \cup {"NONE", "PRUNED"}]
    job,        \* [Jobs -> State \cup {"NONE"}]
    attempts,   \* [Jobs -> Seq(Attempt)], the attempts of job.AttemptIDs
    sequence,   \* the last job sequence number given out
    seqno,      \* [Jobs -> Nat], job.Sequence
    retain,     \* [Pipelines -> Nat], time left until Retention has passed
    workers,    \* the registered workers
    age,        \* [Workers -> Nat], time since the last heartbeat
    lastTenant, \* the tenant of the last lease, 0 for none
    tick,       \* where the tick's transaction is
    leased      \* leases given out in this tick

vars == <<pipeline, job, attempts, sequence, seqno, retain, workers, age,
          lastTenant, tick, leased>>

JobsOf(p) == {j \in Jobs : PipelineOf[j] = p}

\* The retry limit of a job (reconcileExpiredLocked) and its time-out.
Limit(j) == IF MaxAttempts[j] <= 0 THEN 3 ELSE MaxAttempts[j]
jobTimeout(j) == IF Timeout[j] <= 0 THEN DefaultTimeout ELSE Timeout[j]

ASSUME PipelineAssumption ==
    /\ IsFiniteSet(Pipelines) /\ IsFiniteSet(Jobs)
    /\ PipelineOf \in [Jobs -> Pipelines]
    /\ \A p \in Pipelines : JobsOf(p) # {}
    /\ Position \in [Jobs -> Nat]
    /\ Needs \in [Jobs -> SUBSET Jobs]
    /\ \A j \in Jobs : \A k \in Needs[j] :
          PipelineOf[k] = PipelineOf[j] /\ Position[k] < Position[j]
    /\ TenantOf \in [Pipelines -> Nat \ {0}]
    /\ PROf \in [Pipelines -> Nat]
    /\ MaxAttempts \in [Jobs -> Int]
    /\ Timeout \in [Jobs -> Int]

ASSUME ConfigAssumption ==
    /\ Workers \subseteq Nat
    /\ Capacity \in [Workers -> Nat \ {0}]
    /\ LeaseTTL \in Nat \ {0} /\ WorkerTTL \in Nat \ {0}
    /\ Retention \in Nat \ {0} /\ TenantLimit \in Nat \ {0}
    /\ MaxQueuedJobs \in Nat \ {0} /\ DefaultTimeout \in Nat \ {0}
    /\ LeasesPerTick \in Nat \ {0}
    /\ LiveWorkers \subseteq Workers

\* planner.Validate refuses negative resources; New sets positive quotas.
ASSUME ResourceAssumption ==
    /\ Resources \in [Jobs -> [Kinds -> Nat]]
    /\ WorkerRes \in [Workers -> [Kinds -> Int]]
    /\ TenantQuota \in [Kinds -> Nat]

Tenants == {TenantOf[p] : p \in Pipelines}
PullRequests == {PROf[p] : p \in Pipelines} \ {0}

Attempt == [worker : Workers, status : State, lease : Nat, left : Nat]

-----------------------------------------------------------------------------
(* Readings of the state. *)

\* A stored pipeline that is not over.
Open_Stored(p) == pipeline[p] \in State
Open(p) == pipeline[p] \in State /\ ~terminal(pipeline[p])

\* The attempts of the store, by job and number.
AttemptIds == UNION {{j} \X DOMAIN attempts[j] : j \in Jobs}
ActiveIds == {a \in AttemptIds : active(attempts[a[1]][a[2]].status)}

activeForWorker_Running(w) ==
    Cardinality({a \in ActiveIds : /\ attempts[a[1]][a[2]].worker = w
                                   /\ attempts[a[1]][a[2]].status = "RUNNING"})
activeForWorker(w) == Cardinality({a \in ActiveIds : attempts[a[1]][a[2]].worker = w})
activeForTenant_Running(t) ==
    Cardinality({j \in Jobs : TenantOf[PipelineOf[j]] = t /\ job[j] = "RUNNING"})
activeForTenant(t) ==
    Cardinality({j \in Jobs : TenantOf[PipelineOf[j]] = t /\ active(job[j])})
queuedCount_Waiting == Cardinality({j \in Jobs : job[j] = "QUEUED"})
queuedCount == Cardinality({j \in Jobs : job[j] \in State /\ ~terminal(job[j])})

\* usedResourcesLocked, for the attempts of one tenant or on one worker.
Used(ids, k) == MapThenSumSet(LAMBDA a : Resources[a[1]][k], ids)
tenantUse(t, k) == Used({a \in ActiveIds : TenantOf[PipelineOf[a[1]]] = t}, k)
workerUse(w, k) == Used({a \in ActiveIds : attempts[a[1]][a[2]].worker = w}, k)

\* An active attempt whose lease or time-out has passed.
Expired_LeaseOnly(a) == active(a.status) /\ a.lease = 0
Expired(a) == active(a.status) /\ (a.lease = 0 \/ a.left = 0)

\* The token of attempt a is still good for a heartbeat or a result.
Current_TokenOnly(a) == TRUE
Current(a) == active(a.status) /\ ~Expired(a)

\* An expired attempt that fails the job instead of being retried.
OutOfTries_OffByOne(j, n, a) == a.left = 0 \/ n > Limit(j)
OutOfTries(j, n, a) == a.left = 0 \/ n >= Limit(j)

-----------------------------------------------------------------------------
(* Updates shared by the handlers. *)

\* An attempt that ends.  Nothing reads the time stamps of one that is not
\* active, so the model drops them.
End(a, s) == [a EXCEPT !.status = s, !.lease = 0, !.left = 0]

\* The jobs of the pipelines P that are not over are cancelled, and with them
\* their active attempts; J and A are the job states and the attempts so far.
Pending_QueuedOnly(P, J) == {j \in Jobs : PipelineOf[j] \in P /\ J[j] = "QUEUED"}
Pending(P, J) == {j \in Jobs : PipelineOf[j] \in P /\ ~terminal(J[j])}
CancelledJobs(P, J) == [j \in Jobs |-> IF j \in Pending(P, J) THEN "CANCELLED" ELSE J[j]]
CancelActive(A) ==
    [n \in DOMAIN A |-> IF active(A[n].status) THEN End(A[n], "CANCELLED") ELSE A[n]]
CancelledAttempts_Kept(P, J, A) == A
CancelledAttempts(P, J, A) ==
    [j \in Jobs |-> IF j \in Pending(P, J) THEN CancelActive(A[j]) ELSE A[j]]

\* cancelPipelineLocked for each pipeline of P.
cancelPipelines(P) ==
    /\ pipeline' = [p \in Pipelines |-> IF p \in P THEN "CANCELLED" ELSE pipeline[p]]
    /\ job' = CancelledJobs(P, job)
    /\ attempts' = CancelledAttempts(P, job, attempts)

\* updatePipelineLocked after jobs and attempts have become J and A: the first
\* failure ends the pipeline and cancels the rest of it.
updatePipeline(p, J, A) ==
    LET failed == \E j \in JobsOf(p) : J[j] = "FAILED"
        allSucceeded == \A j \in JobsOf(p) : J[j] = "SUCCEEDED"
    IN  /\ pipeline' = [pipeline EXCEPT ![p] = IF failed THEN "FAILED"
                                               ELSE IF allSucceeded THEN "SUCCEEDED"
                                               ELSE "RUNNING"]
        /\ job' = IF failed THEN CancelledJobs({p}, J) ELSE J
        /\ attempts' = IF failed THEN CancelledAttempts({p}, J, A) ELSE A

-----------------------------------------------------------------------------
Init ==
    /\ pipeline = [p \in Pipelines |-> "NONE"]
    /\ job = [j \in Jobs |-> "NONE"]
    /\ attempts = [j \in Jobs |-> << >>]
    /\ sequence = 0
    /\ seqno = [j \in Jobs |-> 0]
    /\ retain = [p \in Pipelines |-> 0]
    /\ workers = {}
    /\ age = [w \in Workers |-> 0]
    /\ lastTenant = 0
    /\ tick = "idle"
    /\ leased = 0

(***************************************************************************)
(* Submissions.                                                            *)
(***************************************************************************)

\* Submit with an accepted event: the capacity check comes before the older
\* pipelines of the same pull request are cancelled.
Submit(p) ==
    LET older == {q \in Pipelines : PROf[p] > 0 /\ PROf[q] = PROf[p] /\ Open(q)}
        rank(j) == Cardinality({k \in JobsOf(p) : Position[k] <= Position[j]})
    IN  /\ tick = "idle"
        /\ pipeline[p] = "NONE"
        /\ queuedCount + Cardinality(JobsOf(p)) <= MaxQueuedJobs
        /\ pipeline' = [q \in Pipelines |-> IF q = p THEN "QUEUED"
                                            ELSE IF q \in older THEN "CANCELLED"
                                            ELSE pipeline[q]]
        /\ job' = [j \in Jobs |-> IF j \in JobsOf(p) THEN "QUEUED"
                                  ELSE CancelledJobs(older, job)[j]]
        /\ attempts' = CancelledAttempts(older, job, attempts)
        /\ sequence' = sequence + Cardinality(JobsOf(p))
        /\ seqno' = [j \in Jobs |-> IF j \in JobsOf(p) THEN sequence + rank(j)
                                    ELSE seqno[j]]
        /\ retain' = [retain EXCEPT ![p] = Retention]
        /\ UNCHANGED <<workers, age, lastTenant, tick, leased>>

\* Submit with the accepted event that a pull request was closed.
ClosePR(pr) ==
    /\ tick = "idle"
    /\ cancelPipelines({p \in Pipelines : PROf[p] = pr /\ Open(p)})
    /\ UNCHANGED <<sequence, seqno, retain, workers, age, lastTenant, tick, leased>>

\* CancelJob, which the route that cancels a pipeline calls for each of its jobs.
CancelJob(j) ==
    /\ tick = "idle"
    /\ job[j] \in State /\ ~terminal(job[j])
    /\ cancelPipelines({PipelineOf[j]})
    /\ UNCHANGED <<sequence, seqno, retain, workers, age, lastTenant, tick, leased>>

(***************************************************************************)
(* Workers.                                                                *)
(***************************************************************************)

RegisterWorker(w) ==
    /\ tick = "idle"
    /\ workers' = workers \cup {w}
    /\ age' = [age EXCEPT ![w] = 0]
    /\ UNCHANGED <<pipeline, job, attempts, sequence, seqno, retain, lastTenant, tick, leased>>

HeartbeatWorker(w) ==
    /\ tick = "idle"
    /\ w \in workers
    /\ age' = [age EXCEPT ![w] = 0]
    /\ UNCHANGED <<pipeline, job, attempts, sequence, seqno, retain, workers,
                   lastTenant, tick, leased>>

\* The first heartbeat starts the attempt; each one renews the lease.
Renewed_WithTimeout(j, a) ==
    [a EXCEPT !.status = "RUNNING", !.lease = LeaseTTL, !.left = jobTimeout(j)]
Renewed(j, a) == [a EXCEPT !.status = "RUNNING", !.lease = LeaseTTL]

HeartbeatAttempt(j, n) ==
    LET a == attempts[j][n]
    IN  /\ tick = "idle"
        /\ Current(a)
        /\ attempts' = [attempts EXCEPT ![j][n] = Renewed(j, a)]
        /\ job' = [job EXCEPT ![j] = IF a.status = "LEASED" THEN "RUNNING" ELSE @]
        /\ UNCHANGED <<pipeline, sequence, seqno, retain, workers, age, lastTenant,
                       tick, leased>>

\* Finish with a result that is committed.  A replay of the committed result and
\* a different result for an attempt that is over change nothing.
Finish(j, n, s) ==
    LET a == attempts[j][n]
    IN  /\ tick = "idle"
        /\ Current(a)
        /\ job[j] # "CANCELLED"
        /\ updatePipeline(PipelineOf[j], [job EXCEPT ![j] = s],
                          [attempts EXCEPT ![j][n] = End(a, s)])
        /\ UNCHANGED <<sequence, seqno, retain, workers, age, lastTenant, tick, leased>>

(***************************************************************************)
(* The tick: Reconcile, then up to LeasesPerTick calls of ScheduleOne.     *)
(***************************************************************************)

BeginTick ==
    /\ tick = "idle"
    /\ tick' = "reconcile"
    /\ UNCHANGED <<pipeline, job, attempts, sequence, seqno, retain, workers, age,
                   lastTenant, leased>>

\* One turn of the loop of reconcileExpiredLocked, which visits the attempts in
\* the arbitrary order of a Go map.
ExpireAttempt(j, n) ==
    LET a == attempts[j][n]
        final == OutOfTries(j, n, a)
    IN  /\ tick = "reconcile"
        /\ Expired(a)
        /\ \/ /\ final
              /\ updatePipeline(PipelineOf[j], [job EXCEPT ![j] = "FAILED"],
                                [attempts EXCEPT ![j][n] = End(a, "FAILED")])
           \/ /\ ~final
              /\ attempts' = [attempts EXCEPT ![j][n] = End(a, "LOST")]
              /\ job' = [job EXCEPT ![j] = IF terminal(@) THEN @ ELSE "QUEUED"]
              /\ UNCHANGED pipeline
        /\ UNCHANGED <<sequence, seqno, retain, workers, age, lastTenant, tick, leased>>

\* pruneLocked, at the end of Reconcile, with the pipelines that previews retain.
Prune(retained) ==
    LET gone == {p \in Pipelines \ retained :
                    pipeline[p] \in State /\ terminal(pipeline[p]) /\ retain[p] = 0}
    IN  /\ tick = "reconcile"
        /\ \A a \in AttemptIds : ~Expired(attempts[a[1]][a[2]])
        /\ pipeline' = [p \in Pipelines |-> IF p \in gone THEN "PRUNED" ELSE pipeline[p]]
        /\ job' = [j \in Jobs |-> IF PipelineOf[j] \in gone THEN "NONE" ELSE job[j]]
        /\ attempts' = [j \in Jobs |-> IF PipelineOf[j] \in gone THEN << >>
                                       ELSE attempts[j]]
        /\ tick' = "schedule"
        /\ UNCHANGED <<sequence, seqno, retain, workers, age, lastTenant, leased>>

\* runnableJobsLocked: queued, and every dependency has succeeded.
Runnable_StartedNeeds(j) == job[j] = "QUEUED" /\ \A k \in Needs[j] : job[k] # "QUEUED"
Runnable(j) == job[j] = "QUEUED" /\ \A k \in Needs[j] : job[k] = "SUCCEEDED"

\* What worker w has left is enough for job j; a worker that declares no CPU or
\* memory is not limited in it.
HasRoom_WhenIdle(j, w) ==
    \A k \in Kinds : WorkerRes[w][k] > 0 => Resources[j][k] <= WorkerRes[w][k]
HasRoom(j, w) ==
    \A k \in Kinds : WorkerRes[w][k] > 0 =>
        workerUse(w, k) + Resources[j][k] <= WorkerRes[w][k]

\* The workers selectWorkerLocked may choose from.
Eligible(j, w) ==
    /\ w \in workers
    /\ age[w] <= WorkerTTL
    /\ activeForWorker(w) < Capacity[w]
    /\ (j \in Trusted) = (w \in WorkerTrusted)
    /\ HasRoom(j, w)
    /\ Capabilities[j] \subseteq WorkerCaps[w]

Schedulable(j) ==
    LET t == TenantOf[PipelineOf[j]]
    IN  /\ Runnable(j)
        /\ activeForTenant(t) < TenantLimit
        /\ \A k \in Kinds : tenantUse(t, k) + Resources[j][k] <= TenantQuota[k]
        /\ \E w \in Workers : Eligible(j, w)

\* Job j is offered to the workers before job k.
Before(j, k) ==
    LET t == TenantOf[PipelineOf[j]]
        u == TenantOf[PipelineOf[k]]
    IN  \/ t # u /\ TurnBefore(lastTenant, t, u)
        \/ t = u /\ Priority[j] > Priority[k]
        \/ t = u /\ Priority[j] = Priority[k] /\ seqno[j] < seqno[k]

\* ScheduleOne when it gives out a lease: the first job in order that fits gets
\* the eligible worker with the smallest ID.  Its own call of
\* reconcileExpiredLocked finds nothing: see NothingExpiredWhileScheduling.
ScheduleOne(j, w) ==
    /\ tick = "schedule" /\ leased < LeasesPerTick
    /\ Schedulable(j)
    /\ \A k \in Jobs \ {j} : Schedulable(k) => Before(j, k)
    /\ Eligible(j, w)
    /\ \A v \in Workers : Eligible(j, v) => w <= v
    /\ attempts' = [attempts EXCEPT ![j] = Append(@,
                        [worker |-> w, status |-> "LEASED",
                         lease |-> LeaseTTL, left |-> jobTimeout(j)])]
    /\ job' = [job EXCEPT ![j] = "LEASED"]
    /\ pipeline' = [pipeline EXCEPT ![PipelineOf[j]] = "RUNNING"]
    /\ lastTenant' = TenantOf[PipelineOf[j]]
    /\ leased' = leased + 1
    /\ UNCHANGED <<sequence, seqno, retain, workers, age, tick>>

\* The loop ends: ErrNoWork, or the last of the calls it makes.
EndTick ==
    /\ tick = "schedule"
    /\ leased = LeasesPerTick \/ \A j \in Jobs : ~Schedulable(j)
    /\ tick' = "idle"
    /\ leased' = 0
    /\ UNCHANGED <<pipeline, job, attempts, sequence, seqno, retain, workers, age, lastTenant>>

(***************************************************************************)
(* The database's clock.  A live worker is one whose heartbeats arrive in  *)
(* time: it is not let past WorkerTTL.                                     *)
(***************************************************************************)

Earlier_NoFloor(n) == n - 1
Earlier(n) == IF n = 0 THEN 0 ELSE n - 1
Aged(a) == [a EXCEPT !.lease = Earlier(a.lease), !.left = Earlier(a.left)]

Advance ==
    /\ tick = "idle"
    /\ \A w \in LiveWorkers : w \in workers /\ age[w] < WorkerTTL
    /\ attempts' = [j \in Jobs |-> [n \in DOMAIN attempts[j] |-> Aged(attempts[j][n])]]
    /\ retain' = [p \in Pipelines |-> Earlier(retain[p])]
    /\ age' = [w \in Workers |-> IF w \in workers /\ age[w] <= WorkerTTL
                                 THEN age[w] + 1 ELSE age[w]]
    /\ UNCHANGED <<pipeline, job, sequence, seqno, workers, lastTenant, tick, leased>>

Request ==
    \/ \E p \in Pipelines : Submit(p)
    \/ \E pr \in PullRequests : ClosePR(pr)
    \/ \E j \in Jobs : CancelJob(j)
    \/ \E w \in Workers : RegisterWorker(w) \/ HeartbeatWorker(w)
    \/ \E j \in Jobs : \E n \in DOMAIN attempts[j] :
          \/ HeartbeatAttempt(j, n)
          \/ \E s \in {"SUCCEEDED", "FAILED"} : Finish(j, n, s)

TickStep ==
    \/ BeginTick
    \/ \E j \in Jobs : \E n \in DOMAIN attempts[j] : ExpireAttempt(j, n)
    \/ \E retained \in SUBSET Pipelines : Prune(retained)
    \/ \E j \in Jobs, w \in Workers : ScheduleOne(j, w)
    \/ EndTick

Next == Request \/ TickStep \/ Advance

Spec == Init /\ [][Next]_vars

\* The ticker fires forever and a tick runs to its end; the clock moves on
\* however many ticks run; the heartbeats of live workers get their turn at the
\* row lock.  Nothing else is assumed: attempts may stay silent.
LiveSpec ==
    /\ Spec
    /\ WF_vars(TickStep)
    /\ SF_vars(Advance)
    /\ \A w \in LiveWorkers : SF_vars(RegisterWorker(w))

-----------------------------------------------------------------------------
(* Properties. *)

TypeOK ==
    /\ pipeline \in [Pipelines -> State \cup {"NONE", "PRUNED"}]
    /\ job \in [Jobs -> State \cup {"NONE"}]
    /\ attempts \in [Jobs -> Seq(Attempt)]
    /\ sequence \in Nat
    /\ seqno \in [Jobs -> Nat]
    /\ retain \in [Pipelines -> Nat]
    /\ workers \subseteq Workers
    /\ age \in [Workers -> Nat]
    /\ lastTenant \in Nat
    /\ tick \in {"idle", "reconcile", "schedule"}
    /\ leased \in 0 .. LeasesPerTick

\* A job in state s with the attempts A: every attempt but the last was lost, the
\* last one has the state of an active, succeeded or failed job, and no attempt
\* outlives a job that is queued, cancelled or gone.
HistoryAgrees(s, A) ==
    LET tries == Len(A)
        last == A[tries].status
    IN  /\ \A n \in 1 .. tries - 1 : A[n].status = "LOST"
        /\ s = "NONE" => tries = 0
        /\ s = "QUEUED" => tries = 0 \/ last = "LOST"
        /\ s = "CANCELLED" => tries = 0 \/ last \in {"LOST", "CANCELLED"}
        /\ s \in {"LEASED", "RUNNING", "SUCCEEDED", "FAILED"} => tries > 0 /\ last = s
        /\ s # "LOST"

\* Jobs and attempts tell the same story after every interleaving of heartbeats,
\* results, expiries and cancellations; so a job never has two active attempts
\* and two results are never committed for it.
AttemptsAgree == \A j \in Jobs : HistoryAgrees(job[j], attempts[j])

\* A job is attempted at most Limit(j) times, and one that waits for a retry has
\* a try left (reconcileExpiredLocked fails the job of the last expired lease).
RetryBudget ==
    \A j \in Jobs : /\ Len(attempts[j]) <= Limit(j)
                    /\ job[j] = "QUEUED" => Len(attempts[j]) < Limit(j)

\* The state of a pipeline is the one its jobs imply, after every interleaving of
\* results, expiries and cancellations: in particular nothing of a pipeline that
\* is over is still waiting or running.
PipelineAgrees ==
    \A p \in Pipelines :
        LET Some(s) == \E j \in JobsOf(p) : job[j] = s
            All(S) == \A j \in JobsOf(p) : job[j] \in S
        IN  /\ pipeline[p] \in {"NONE", "PRUNED"} => All({"NONE"})
            /\ pipeline[p] = "QUEUED" => All({"QUEUED"})
            /\ pipeline[p] = "RUNNING" =>
                  /\ All({"QUEUED", "LEASED", "RUNNING", "SUCCEEDED"})
                  /\ ~All({"SUCCEEDED"})
            /\ pipeline[p] = "SUCCEEDED" => All({"SUCCEEDED"})
            /\ pipeline[p] = "FAILED" =>
                  Some("FAILED") /\ All({"SUCCEEDED", "FAILED", "CANCELLED"})
            /\ pipeline[p] = "CANCELLED" =>
                  Some("CANCELLED") /\ All({"SUCCEEDED", "CANCELLED"})
            /\ pipeline[p] \notin {"LEASED", "LOST"}

\* A job is attempted only after every job it needs has succeeded, and those stay
\* succeeded for as long as the attempt is stored.
DependencyOrder ==
    \A j \in Jobs : attempts[j] # << >> => \A k \in Needs[j] : job[k] = "SUCCEEDED"

\* A worker never holds more active attempts than its capacity.
WorkerWithinCapacity ==
    \A w \in Workers :
        Cardinality({a \in ActiveIds : attempts[a[1]][a[2]].worker = w}) <= Capacity[w]

\* A tenant never has more active attempts than its limit, although the
\* scheduler counts jobs and not attempts.
TenantWithinLimit ==
    \A t \in Tenants :
        Cardinality({a \in ActiveIds : TenantOf[PipelineOf[a[1]]] = t}) <= TenantLimit

\* What the active attempts of a tenant, and on a worker, reserve stays within
\* the quota of the tenant and within what the worker has.
WithinResources ==
    \A k \in Kinds :
        /\ \A t \in Tenants : tenantUse(t, k) <= TenantQuota[k]
        /\ \A w \in Workers : WorkerRes[w][k] > 0 => workerUse(w, k) <= WorkerRes[w][k]

\* Admission bounds the jobs that are not over; retries and supersession never
\* push them past MaxQueuedJobs.
QueueBounded ==
    Cardinality({j \in Jobs : job[j] \in {"QUEUED", "LEASED", "RUNNING"}}) <= MaxQueuedJobs

\* While the tick schedules there is no active attempt whose lease or time-out
\* has passed: the slots it sees taken are held by attempts that may still
\* finish, and the reconcileExpiredLocked call of ScheduleOne does nothing.
NothingExpiredWhileScheduling ==
    tick = "schedule" =>
        \A a \in ActiveIds :
            attempts[a[1]][a[2]].lease > 0 /\ attempts[a[1]][a[2]].left > 0

Over(p) == pipeline[p] \in State /\ terminal(pipeline[p])

FinalStep ==
    /\ \A p \in Pipelines : Over(p) => pipeline'[p] \in {pipeline[p], "PRUNED"}
    /\ \A j \in Jobs : pipeline'[PipelineOf[j]] # "PRUNED" =>
          /\ terminal(job[j]) => job'[j] = job[j]
          /\ \A n \in DOMAIN attempts[j] : terminal(attempts[j][n].status) =>
                n \in DOMAIN attempts'[j] /\ attempts'[j][n].status = attempts[j][n].status

\* What is over stays as it is until its pipeline is pruned: no late heartbeat,
\* result, expiry or cancellation revives a pipeline, a job or an attempt or
\* replaces a result.
TerminalIsFinal == [][FinalStep]_vars

\* The store, with its workers, leases and retries, does nothing a client that
\* sees only pipelines and committed successes could not explain.
Succeeded == {j \in Jobs : job[j] = "SUCCEEDED"}
Lifecycle == INSTANCE PipelineLifecycle WITH status <- pipeline, done <- Succeeded
RefinesLifecycle == Lifecycle!LifecycleSpec

\* Every pipeline that is accepted ends, whatever its workers do, if for each of
\* its jobs some live worker could run it alone.
Finishes == \A p \in Pipelines : pipeline[p] = "QUEUED" ~> pipeline[p] \notin {"QUEUED", "RUNNING"}

=============================================================================
