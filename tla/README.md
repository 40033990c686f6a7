# A TLA+ model of the CI preview platform

The platform runs CI pipelines and pull-request previews on Kubernetes. This
directory models its control plane, checks the model with TLC on small instances
and proves the most important facts with TLAPS for every instance.

## The system

| part | code | state | operations |
|---|---|---|---|
| job store and scheduler | `internal/control/store.go`, `workflow.go`, the tick in `cmd/api/main.go` | pipelines, jobs, attempts with leases, workers, the rotation pointer | submit, cancel, register, heartbeat, finish, tick (reconcile, prune, schedule) |
| pull-request events | `Submit` in `workflow.go`, `internal/api/webhook.go` | PR clock, generation and closed flag; deliveries and request hashes | submit, close, replay |
| previews | `activatePreviewLocked`, `EnsurePreviews`, `Reconcile`, `ObservePreview` | desired and actual state, generation, owner pipeline, expiry | activate, supersede, expire, observe, remove |
| preview controller | `cmd/controller/main.go`, `internal/kube/preview.go` | none of its own; Kubernetes namespaces | list, apply or delete, observe; clean up job namespaces |
| worker agent | `cmd/worker/main.go`, `internal/kube/runner.go` | active and seen attempts | register, poll, claim, heartbeat, execute, complete |
| persistence | `internal/persistence/backend.go` | one state row, one audit table | transaction under the row lock, rollback |
| GitHub checks | check loop in `cmd/api/main.go`, `internal/github/app.go` | `CheckRunID`, `CheckState` | read, patch remote, record |
| planner | `internal/planner` | none | check that a pipeline can be run, validate, order |
| API | `internal/api/server.go` | none | routes to the above |
| object store | `internal/objectstore` | the objects of attempts | put, get |
| authentication, cache keys, CLI | `internal/auth`, `internal/cache`, `cmd/cictl` | none | stateless checks and I/O |

All API replicas, the tick of each of them, the workers and the controller meet in
the state row: every write is one transaction that holds the row's lock, so writes
are serial and a transaction that fails leaves nothing behind. What is hard is what
happens between transactions. Leases expire while results are under way, a
cancellation meets a result, several leases of a pipeline expire in the same tick,
webhooks come late and out of order, the controller acts on what it read some time
ago, and the processes stop at any point. The full list, with the line where each
bites, is under `hazards` in `PROJECT.json`.

What makes each part correct:

* job store: jobs, attempts and pipelines never contradict each other; at most one
  result per job; retries, capacity, quotas and queue stay within bounds; a pipeline
  that was accepted ends; a tenant is not starved by another;
* pull-request events: the newest event wins whatever the order of arrival; a replay
  changes nothing; at most one pipeline of a pull request is open;
* previews: a closed, superseded or expired preview is never brought back; its
  namespace disappears in the end; an observation never lands on another generation;
* controller and worker: an active attempt's namespace is not removed under it, an
  abandoned one is; a result is reported at most once;
* persistence: replicas and crashes are equivalent to one atomic store;
* checks: GitHub never shows an end that did not happen, and shows every end;
* planner: the order is a topological order and exists exactly without cycles, and a
  preview that was accepted has the image its pipeline built.

## Modules

| module | what it is |
|---|---|
| `Domain` | the states, `active`, `terminal`, and the rotation order of tenants |
| `JobStore` | the job store and scheduler, one action per transaction; the tick in steps |
| `PipelineLifecycle` | what a client is promised about pipelines; `JobStore` implements it |
| `FairShare` | `JobStore` with a history variable that counts who was served before whom |
| `TenantRotation` | the rotation alone, under demand that never ends |
| `PullRequests` | submissions, deliveries, generations and the previews as the store keeps them |
| `PreviewController` | `PullRequests` with the controller's rounds and the namespaces of the previews |
| `Planner` | `planner.Executable` and `planner.Validate`: what is accepted, and in which order |
| `ImageBuild` | `Planner`, then the run of what it accepted, from the build to the preview's image |
| `AtomicStore` | what the API promises about results, as if there were one store; `Persistence` implements it |
| `Persistence` | the state row, its lock, replicas and connections, and clients that try again |
| `GitHubChecks` | `PipelineLifecycle` with the check loop of the replicas and GitHub's check runs |
| `Worker` | the worker process, its goroutines, uploads, pods and namespaces |
| `OrphanCleanup` | `Worker` with the controller's clean-up of job namespaces |
| `JobStoreProofs` | the inductive invariant of `JobStore`; it implements `PipelineLifecycle`; what has ended stays as it is |
| `SchedulerProofs` | the bounds the scheduler keeps, and the turns of the tenants |
| `PullRequestsProofs` | the inductive invariant of `PullRequests`; answers are final; webhooks alone close in time |
| `PreviewProofs` | the inductive invariant of `PreviewController`; it implements `StoreSpec`; nothing is brought back |
| `WorkerProofs` | the inductive invariants of `Worker` and of `OrphanCleanup` |
| `PersistenceProofs` | the inductive invariant of `Persistence`; it implements `AtomicStore` |
| `GitHubChecksProofs` | what holds of check runs with any number of replicas, and with one |
| `PlannerProofs` | the inductive invariants of `Planner` and of `ImageBuild` |
| `MC...` | the instances TLC checks |

### JobStore and the code

`pipeline`, `job`, `attempts` stand for the three maps of `Store`; a job's attempts
are the sequence `AttemptIDs` names. IDs are random and never reused, so each
pipeline and its jobs are constants that are submitted at most once; `"NONE"` is not
submitted yet, `"PRUNED"` is deleted by `pruneLocked`. `sequence` and `seqno` are the
job sequence numbers, `lastTenant` the rotation pointer.

Time stamps appear as the time left: `lease` is `LeaseExpires - now`, `left` is
`CreatedAt + timeout - now`, `retain` is `CreatedAt + Retention - now`, `age` is `now -
Heartbeat`; each stops where the code no longer tells values apart, and the stamps of
attempts that ended are dropped because nothing reads them. `Advance` is the clock of
the database. A transaction has one time stamp, so the clock does not move in a tick.

The tick of `cmd/api/main.go` is one transaction: `BeginTick`, any number of
`ExpireAttempt` steps in any order (Go's map order), `Prune`, `ScheduleOne` steps and
`EndTick`. No other action is enabled in between, so the inner states are seen by
nobody, and a tick that fails half way is a tick that never began. `EnsurePreviews`
touches previews only.

A request of a worker names an attempt; the token check is that the request is for
this attempt and no other. Requests are enabled whenever the store would accept
them, in any order and any number of times, which covers delays, duplicates, retries
and workers that stop. A request the store refuses is a stuttering step. `Finish`
covers the routes' `complete`; that a buildkit job needs a digest is in `ImageBuild`.

Left out: queue reasons, metrics, result metadata (display only); the older entry
points `CreatePipeline`, `CreatePipelineForDelivery`, `MarkPreviewDeletingForDelivery`,
`CompleteAttempt`, `SetTenantLimit`, which only tests call.

### PullRequests and PreviewController and the code

A message is a `Submission`: a webhook delivery (`webhook`) or a manual submission
(`normalize`, which clears the event time; `At` is the stamp `Submit` gives it). The
four ways through `Submit` are `IgnoreStale`, `Share`, `Accept` and `Close`; a replay, a
conflict and a refusal for lack of capacity change nothing and are stuttering steps.
`deliveries` holds pipeline IDs, with `Nothing` for the empty one. A pipeline is named
after the message that created it and has one job, so that `"OPEN"` covers what
`JobStore` tells apart; what `Submit` compares to share a pipeline is `Revision`.
`stamp` is a history variable.

`preview` is the map of previews: `owner` is `PipelineID`, `gen` is `Generation`.
`Succeed` is `updatePipelineLocked` with `activatePreviewLocked`; `CancelJob` includes
the preview part of `cancelPipelineLocked`. `Tick` is `Reconcile`, `pruneLocked` and
`EnsurePreviews`, which are one transaction. `ExpiresAt` counts from the activation,
the window of `EnsurePreviews` from the creation of the pipeline.

In `PreviewController` a round is `List` and then, for each entry, `RemoveNamespace`,
`ApplyPreview` or `ReconcileFails`, and the report. `ReconcileFails` leaves the cluster
as each of the calls may have left it. A report is applied, lost, or, when the client's
time-out of 40 s passes first, left under way (`late`); the store itself refuses what
it must. Ownership labels refuse namespaces of others, which is a failing call.

### Worker and OrphanCleanup and the code

`seen` and `busy` are the maps `seen` and `active` of `worker`; `polled` and `assigned`
are the answer of the last poll, so that what happens between the poll and `claim` is
covered. `pc[a]` is where `execute` is for attempt `a`; `GiveUp` is every early return,
every refused heartbeat and the cancelled context. `Leave` is the deferred
`DeleteNamespace`, which may fail. `Prepare` takes over a pod an earlier process left,
as a server-side apply does. `Return` ends `execute`: its locals are gone and the deferred
calls are left. The store is `Lease`, which keeps to the worker's capacity, `EndLease`,
`FirstHeartbeat` and `Complete`; `JobStore` has the rest.

A pod ends in success, in failure, or, when a build has succeeded, with a digest that has
not the form of one (`"INVALID_DIGEST"`). The worker reports the last as a failure, but
uploads what the pod produced first: `Verdict` is what it makes of an end, and
`NoInventedResult` relates what is committed to the ends of the attempt's pods, of which
`finished` is the history.

An upload is two steps of the API: `Authorise`, the transaction that finds the lease
good, and `Put`, after it, outside of any transaction. `stored` is the bucket, `keys`
what the worker was given back, `refs` what the store records with the result. The log
comes first and the provenance last; the archive stands for the build metadata as well,
which goes the same way.

`cleanup` is `ReadActive`, `ListNamespaces`, then `RemoveOrphan` or `KeepNamespace` for
each namespace, all with the rest of the system going on in between. `spent` is how
long the round has taken; `age` of a namespace stops one above `Grace`.

### Planner and ImageBuild and the code

`Check` is `Executable` and the first half of `Validate`, `Sort` one turn of its loop,
`Return` the test for a cycle. The list of ready jobs is sorted after every change, hence
a set. In `Executable` the checks that relate values are kept (type and settings, trust,
one build, one preview, the preview's image); a check of one value alone is the flag
`bounded` of its job. `Admitted` and `Trusted` are how `normalize` and `webhook` treat a fork.

`ImageBuild` runs a pipeline that was accepted. The image that attempt `n` pushes has
the digest `n`, and the tag stands for the image pushed last, which may be that of an
attempt given up long ago. `Read` is what `Runner.Execute` may find in the pod, `Refused`
the route's test, `ImageOf` the loop in `activatePreviewLocked`.

### Persistence and the code

`row` and `created` are the table, `lock` the row lock of `SELECT ... FOR UPDATE`, `tx[c]`
the transaction on connection `c`: `Begin`, `SelectForUpdate`, `ReadClock`, `Update` or
`Rollback`, `Commit`, `Answer` follow the statements of `Transact`. `Abort` is the
transaction's time-out of ten seconds and a broken connection, in every phase; `Crash`
takes all connections of a replica and with them its lock. A commit whose answer is lost
is `Answer` with `"failed"`. `Start` is `Open` with `migrate`, which other replicas may be
running beside. `call` and `tries` are the clients, who send a completion again until it is
answered; `ClientTimeout` leaves the transaction behind. The operations inside are
`Finish`, which accepts what is already stored, `HeartbeatAttempt` and the tick.

### GitHubChecks and the code

`ReadList` is `PipelineList` with its bound of entries and the test of the loop, made on
what was read. For each entry `Check` or `CheckFails` is the call of `App.Check`, whose
answer may be lost after its effect, and `RecordCheck` or `RecordFails` the transaction
that follows, whose error the loop ignores. `Restart` may come anywhere. `runs` are the
check runs at GitHub. The token and its cache are part of a call that may fail. The
pipelines go on in between, by the steps of `PipelineLifecycle`.

## Runs

| run | asks |
|---|---|
| `job_store` | do jobs, attempts and pipelines agree after every interleaving; does the tenant limit hold; is what ended final; is it the promised lifecycle; does every accepted pipeline end |
| `scheduler` | do capacity, quota, memory and queue bounds hold while they bind; is a ready tenant passed over twice |
| `rotation_two_pools` | does the rotation serve every tenant again and again in two pools: violated |
| `pull_requests` | does the newest event win in every order of arrival; is one pipeline open after a supersession or a closing, and the preview the newest revision's; are answers final |
| `previews` | is what the store believes about a namespace true; is one ever left behind; does a closed pull request come down, the newest revision come up, an expired preview stay away |
| `manual_run` | does a closing take effect unless a later event came before it: violated |
| `planner` | are exactly the acyclic executable pipelines accepted, and is their order canonical; does the preview run the image that the successful build pushed |
| `worker_cleanup` | is a lease run once per process; does a success come from a pod that succeeded and a failure from one that did not, with their objects stored; is every abandoned namespace removed and none of an active attempt, in rounds within the grace period |
| `orphan_cleanup_slow` | is the namespace of an active attempt kept when a round takes longer: violated |
| `persistence` | do replicas, stops and repeated requests amount to one atomic store; is a lease ever cut short; does the row come free |
| `checks` | does a check run show a false end; is what is recorded as reported shown; is every end shown; how many check runs are created |
| `checks_two_replicas` | is what is recorded as reported shown when two replicas run: violated |

Bounds. `job_store` has two pipelines of one pull request, one with three parallel jobs,
one with two in sequence, so that the second supersedes the first; two attempts per job,
a lease of 2 and a time-out of 3 ticks, so that lease expiry, retry, retry limit and
time-out all happen, in one tick for two attempts at once; the tenant's limit is below
the worker's capacity and binds. `scheduler` has three one-job pipelines of two tenants
with single attempts and a queue of two. `pull_requests` has one pull request with an
opening, a new revision and a closing at the same time, the first revision again later,
a manual run that repeats a request ID, and a push; the queue holds two jobs, so that a
new revision finds the pipeline of the former open and supersedes it, and capacity binds
when the push is open as well. Event times go to 3, GitHub's clock may be 1 ahead. `previews` has an
opening, a new revision and a closing over four instants with times to live of 1 and 2,
and one late report. The retention is not below the time to live, as in the code, which
bounds the latter to 7 days and keeps pipelines at least as long. `planner` takes every
list of up to two names, one unknown, for three jobs: every graph on them, with
repetitions; and two jobs of every kind before a plain third, side by side and in
sequence, trusted, untrusted and from a fork, with two attempts each, which is enough
for a lost build to push before and after the one that replaced it. `worker_cleanup` has one attempt, one restart and a
grace period of 1; a round is bounded by the grace period, and by one more (3, grace
2) in `orphan_cleanup_slow`. `persistence` has two replicas with a connection each, two
contradicting results of one attempt, sent twice each, a lease of 2, a time-out of 3 and
a clock to 3, and one stop: requests wait for each other, leases end while a completion
waits, and a result is repeated after it. `checks` has three pipelines, one without an
installation, and a list of two, so that an entry falls off and comes back, and one check
run that is lost; other failures are unbounded. Larger sets repeat these cases; the
proofs below cover all sizes for the properties they state.

Fairness (`LiveSpec`). Ticks go on and a tick that began ends (`WF` of `TickStep`: the
ticker and the row lock). The clock advances however many transactions run (`SF` of
`Advance`). One worker, in `LiveWorkers`, gets its heartbeats through in time: it sends
one every 3 s against a `WorkerTTL` of 45 s. Nothing is assumed of the attempts: they
may never heartbeat, never finish or renew their lease until the time-out. `Finishes`
is about finitely many pipelines; under endless demand see `NotOvertakenTwice`
and the run of the rotation.

In `PreviewController` ticks and rounds go on (their tickers), a round's calls end
(`WF` of `ApplyPreview \/ ReconcileFails` and of `DropReport`: every call has a time-out),
Kubernetes removes a namespace it was told to (`WF`), and what is tried again and again
succeeds some time: the removal of a namespace and the reports that it is there or gone
(`SF`). The
tick is `SF` because a failing round may turn `DELETED` back to `PENDING` before the tick
sees it. No fairness is assumed of messages, results, rollouts or the clock. In
`OrphanCleanup` rounds go on, some of them get through their calls (`SF` of
`ListNamespaces` and of `RemoveOrphan`), goroutines end, time passes (`WF`; a round that has
used up its time ends).

In `Persistence` a transaction that began ends (`WF` of `Transact`: every statement returns
or the time-out of ten seconds aborts it); nothing else is assumed, neither that a commit
succeeds nor that a replica comes back. In `GitHubChecks` rounds go on (the ticker), and the
call and the record of a pipeline that is tried in round after round succeed some time
(`SF` of `Check` and of `RecordCheck`).

### Findings

1. ADR 0003 says "Small tenants continue receiving slots during a large burst."
There is one rotation pointer for all pools. If tenant 1 is leased a job in its own
pool between any two leases of the other pool, the rotation there restarts after
tenant 1 every time and always picks tenant 2; the other tenants starve
(`rotation_two_pools`). With one pool a ready tenant is not passed over twice
(`NotOvertakenTwice`, for any number of tenants: `RotationIsFair`).

2. `docs/github-app.md` says "a closed event cancels active work and requests deletion"
and "The PR updated_at clock fences older deliveries". A manual submission for a pull
request moves its clock to the time of the transaction; a closing that happened just
before and is delivered just after is then taken for an old event and ignored, and the
preview stays until it expires (`manual_run`). Among webhooks alone the newest event wins
(`NewestEventWins`, which takes the stamps as `Submit` gives them), and a closing is ignored for
a later one only (`WebhooksCloseInTime`).

3. `docs/architecture.md` says the controller "removes abandoned job namespaces whose
attempts are no longer active after a grace period". The active attempts are read once
per round, and the age of a namespace is taken when its turn comes. A round can take
longer than the 90 s of grace (45 s per `kubectl` call, two per deletion), and then the
namespace of an attempt leased after the read is removed (`orphan_cleanup_slow`). Rounds
within the grace period are safe (`worker_cleanup`, `QuickRoundsAreSafe`).

4. `docs/known-limitations.md` says "GitHub check delivery is best-effort and retried". Reading
the pipelines, changing the check run and recording the reported status are three steps,
and `RecordCheck` compares nothing. When one replica has read `RUNNING`, another reports
the end, and the first one's update arrives last at GitHub but is recorded first, then the
recorded status is that of the pipeline, no round looks at it again, and the check run
stays in progress (`checks_two_replicas`). With one replica this cannot happen (`checks`,
`NothingReportedIsLost`); a rolling update runs two for a while.

## Proofs

The invariant `Inv` of `JobStoreProofs` is `TypeOK`, `AttemptsAgree`, `RetryBudget`,
`PipelineAgrees` and `DependencyOrder` together. None of them is inductive alone: that
a heartbeat keeps a pipeline consistent needs that its attempt is the last of its job
and that the job has the attempt's state (`AttemptsAgree`); that a result moves the
pipeline correctly needs that the pipeline of an active job is `RUNNING` and none of
its jobs failed (`PipelineAgrees`); that a retry is within its limit needs that a
queued job has a try left (`RetryBudget`). The proof treats one job and its attempts
first (`JobOK` and the lemmas `JobCommits`, `JobRequeued`, `JobRenewed`, `JobLeased`,
`JobCancelled`, `JobAges`), then the shared updates (`CancelStep`, `CommitStep`,
`MoveStep`), then each action.

The second part of `JobStoreProofs` maps each action to a step of `PipelineLifecycle` or a
stutter (`StoreImplementsLifecycle`) and shows that no step changes what has ended
(`EndedStaysEnded`).

`SchedulerProofs` has the bounds (`Limits`). Two facts carry them: an attempt becomes active
in `ScheduleOne` only (`NoNewAttempts`), and a job becomes open in `Submit` only
(`NoNewJobs`); every other action can only lower a count or a sum. In `ScheduleOne` the
new attempt is the one the tests of tenant, worker and resources were made for. The sums
of `WithinResources` are folds over the set of active attempts; that a sum over a subset
is no larger, and that one more attempt adds its own cost, is shown from a smallest set
for which it fails. `NothingExpiredWhileScheduling` holds because the tick has expired
everything before it schedules and the clock stands still. `NotOvertakenTwice` rests on
`Waiting`: a tenant passed over once for another comes before it in the rotation.

The invariant of `PullRequestsProofs` is `TypeOK`, `NewestEventWins`, `OneOpenPipeline`,
`ActiveIsCurrent` and `Bookkeeping`. The last one ties the records together: a message
that was answered is in the deliveries, the generation of a pipeline is one its pull
request has reached, and a pull request has a generation exactly if something was heard
of it. It is what makes the others inductive: a new pipeline's generation is larger than
any before only because those are bounded by the pull request's, and a message that is
not stale is newer than all that were heard only because a pull request without a
generation was not heard of. `Newest` states `NewestEventWins` for one pull request, so
that its three lemmas (a late message, a newer one, one of another pull request) are free
of actions; `TakenStep` is what `Accept` and `Close` have in common, `QuietStep` what all
actions but those of `Submit` have. `AnswersStay` is the action property
`AnswersAreFinal`. The specification proved about, `StoreSpec`, has a controller that may
report anything, any time, for the preview as stored; messages, request IDs, revisions,
event times and clocks are arbitrary (`MessageAssumption`: a closing is a webhook of a
pull request, so it has an event time).

`WebhooksCloseInTime` is the other side of the second finding: if every message of a pull
request has an event time (`OnlyWebhooks`), the clock of a pull request is the event time
of a message that was answered (`StampedByEvent`), so a closing is ignored for a later
event only.

`PreviewProofs` is about a controller that acts on old readings, so its invariant orders
the readings in time. `NotAfter(v, w)` says that the preview was in state `v` no later
than in `w`: a smaller generation, or the same owner with the removal after the preview.
That this is an order in time needs that the owner of a preview which is taken down is
superseded or past its time to live, and gets no preview again (`Spent`, `Lifetimes`).
`Views` says that an observation on its way is no newer than the reading the controller
still has to act on, and that no newer than the preview in the store; `Truth` that what
was observed, or is believed, of the preview still stored is so in the cluster, and that
nothing the round has left to do changes it. The steps of the store are summed up once:
`Onwards` for pipelines and generations, and `PreviewStep` for a preview, which stays,
is taken down, is forgotten or is raised for a pipeline that is not spent. Then each
step of the controller is a report or a stutter of the store, so `PreviewController`
implements `StoreSpec` (`ImplementsStore`) and the theorems of `PullRequestsProofs` hold
of it. `NothingComesBack` follows with `Barred`: a pipeline whose preview is to be
removed is spent from then on.

`WorkerProofs` goes attempt by attempt. `Once`: an attempt this process has run is in `seen`
until the store has ended it, and no answer of a poll that is still to be dealt with
brings it back after that. `Fresh`: nothing is left of an earlier execution, and a
goroutine knows nothing before its pod has ended and when it cleans up. `Witnessed`: what
a goroutine holds is how a pod of the attempt ended, and what was committed is the
verdict on such an end.
`Uploaded`: the keys the worker holds, and the references that were committed, are of
stored objects, the log first. For the clean-up, `Young`: an attempt that became active
after the round read the active ones has a namespace no older than the round, hence not
past the grace period if rounds are no longer than that. `QuickRoundsAreSafe` assumes just
this (`MaxRound <= Grace`), and the third finding is what happens otherwise.

The invariant of `PersistenceProofs` is `TypeOK` with `Fenced` (from the read to the
commit a transaction holds the lock, and its copy is the row), `Exists` (no transaction
without a row), `Leases` (no lease is longer than one granted now), `Waiting`,
`Confirmed` (what was answered with 200 is in the row) and `Refusals` (what was answered
with 409 is not there, and no transaction under way or still to come will store it: the
attempt has ended, or its lease or its time-out has passed). The last two are what makes
an answer mean the same to clients who repeat their request. `Atomic` maps the row and
the clients' answers; a commit is the atomic step, all else is an answer or a stutter
(`ReplicasAreOneStore`).

In `GitHubChecksProofs` an end that any replica has read has happened and stays
(`Honest`), which is all `NoFalseConclusion` needs, for any number of replicas and however
old the lists. With one replica (`Alone`) the entry being worked on has the check run the
store has (`Current`), the answer at hand is the check run of that entry (`Answer`), and a
recorded end is shown (`Recorded`); hence `NothingReportedIsLost`, whose assumption the
fourth finding shows to be needed. The run `checks` has one replica; that two replicas in any
order show no false end is what `ConclusionsAreTrue` adds to it. `Counted` bounds the check runs by the pipelines that
have one, or are about to, and the mishaps.

In `PlannerProofs` no set of jobs that need each other is ever entered (`Sound`), the
counters are the dependencies not yet placed (`Counters`), and each place was taken by the
smallest name that could (`Canonical`); when no job is ready, those left form the cycle.
For `ImageBuild`, `Built` says that a success is that of a job's last attempt, and the digest of
a build's the one that attempt pushed, and `Staged` that there is no image before the last
success.

Assumptions. Each component states its own on its constants. `JobStore`: finitely many
pipelines and jobs, every pipeline has a job, the jobs a job needs belong to its
pipeline and come before it (what `planner.Validate` establishes), positive settings
(what `New` establishes), and resources that are not negative (`ResourceAssumption`;
`planner` refuses others, `New` sets the tenants' quotas); what a worker declares may be
any integer. `Worker`: finitely many attempts. `Persistence`: each connection belongs to
a replica, each result to an attempt. `GitHubChecks`: pipelines are numbered by age.
`Planner`: finitely many jobs, at least one, whose names are ordered. Beyond those, a
theorem assumes only what its statement says (`OnlyWebhooks`, `MaxRound <= Grace`,
`Alone`).

Only model-checked: liveness (`Finishes`, `ClosedComesDown`, `SuccessIsDeployed`,
`AbandonedIsRemoved`, `RowComesFree`, `EndIsShown`), because fairness is stated with
`ENABLED`, which is out of the prover's reach. Every safety invariant and every action
property of a passing run is stated by a theorem. The counterexamples of the runs that
expect a violation are TLC's.

Operators named `Op_Mistake` are `Op` with a plausible mistake; each property is
violated when one of them takes the place of the original.

## Not modelled

* The encoding (gob) and encryption of the state row, the YAML of a pipeline (`Parse`), the
  JSON of requests and answers, and the limits on sizes: conversions that change no state;
  the models start from their results.
* Authentication of users, workers and webhooks, and the tokens of attempts: stateless
  checks. A request that fails them changes nothing; what is modelled is that a token
  belongs to one attempt.
* The requests to the object store: signing, bounds, and the check of a digest in `Get`.
  `Put` is modelled by its effect.
* The validation of cache keys, a test of one string.
* `cictl` and the HTTP client: they keep no state. Their time-outs and repetitions are in
  the models of those who call (`ClientTimeout`, `Send`, `Complete`, late reports).
* The cache of installation tokens in `App.Token`: a call that may fail.
* `Memory`, the backend of the unit tests, and the entry points of `Store` that only tests
  call.
* Manifests and the contents of pods: data that `kubectl` is given.

## Plan

1. Proofs: that `GitHubChecks` over `JobStore`, not only over `PipelineLifecycle`, keeps
   `NoFalseConclusion` (by `StoreImplementsLifecycle`); that a completion of the `Worker` is one
   `AtomicStore` answers.
2. `JobStore` and `PullRequests` in one store, with previews of pipelines of several jobs.
