---------------------------- MODULE PullRequests ----------------------------
(***************************************************************************)
(* Submissions and previews as internal/control keeps them: the clock,     *)
(* generation and closed flag of every pull request, the deliveries that   *)
(* were answered, the pipeline each accepted submission created, and the   *)
(* preview of every pull request with its desired and its actual state.    *)
(*                                                                         *)
(* As in JobStore an action is one transaction on the state row, and one   *)
(* that returns an error is a stuttering step.  The jobs of a pipeline are *)
(* JobStore's; here a pipeline has a single job and is "OPEN" until it     *)
(* succeeds, fails or is cancelled.                                        *)
(*                                                                         *)
(* A message is a webhook delivery or a manual submission.  It carries a   *)
(* request ID, and two messages may carry the same one; it can arrive at   *)
(* any time, in any order, any number of times.  A pipeline is named after *)
(* the message that created it.                                            *)
(***************************************************************************)
EXTENDS Integers, FiniteSets

CONSTANTS
    Messages,       \* the submissions, as numbers from 1
    RequestID,      \* [Messages -> Nat], delivery ID or idempotency key
    PRNumber,       \* [Messages -> Nat], 0 for a push
    Revision,       \* [Messages -> what identifies source, commit and configuration]
    EventTime,      \* [Messages -> Nat], 0 for a manual submission
    Closing,        \* the messages that close their pull request
    Rerun,          \* the messages that ask for another run of a revision
    TTL,            \* [Messages -> Nat], of the preview; 0 for none
    MaxQueuedJobs,
    Retention,
    Skew,           \* how far GitHub's clock may be ahead of the database's
    MaxTime         \* bound of the model's clock

VARIABLES
    now,        \* the database's clock
    prState,    \* [PRs -> [at, closed, gen]]; gen = 0 if there is none
    deliveries, \* [RequestIDs -> Messages \cup {Nothing, Unseen}]
    status,     \* [Messages -> Status], of the pipeline a message created
    gen,        \* [Messages -> Nat], Pipeline.Generation
    created,    \* [Messages -> Nat], Pipeline.CreatedAt
    preview,    \* [PRs -> Preview \cup {NoPreview}]
    stamp       \* history: [Messages -> Nat], the event time a message was answered with

submitVars == <<prState, deliveries, gen, created, stamp>>
storeVars == <<now, submitVars, status, preview>>

ASSUME MessageAssumption ==
    /\ Messages \subseteq Nat \ {0} /\ IsFiniteSet(Messages)
    /\ RequestID \in [Messages -> Nat]
    /\ PRNumber \in [Messages -> Nat]
    /\ EventTime \in [Messages -> Nat]
    /\ TTL \in [Messages -> Nat]
    /\ Closing \subseteq {m \in Messages : PRNumber[m] > 0 /\ EventTime[m] > 0}
    /\ Rerun \subseteq Messages
    /\ MaxQueuedJobs \in Nat \ {0} /\ Retention \in Nat \ {0}
    /\ Skew \in Nat /\ MaxTime \in Nat \ {0}

PRs == {PRNumber[m] : m \in Messages} \ {0}
RequestIDs == {RequestID[m] : m \in Messages}

Unseen == -1    \* the request ID is not in the map
Nothing == 0    \* the map holds the empty pipeline ID

Status == {"NONE", "OPEN", "SUCCEEDED", "FAILED", "CANCELLED", "PRUNED"}
Stored(p) == status[p] \notin {"NONE", "PRUNED"}

Preview == [desired : {"ACTIVE", "DELETING"}, actual : {"PENDING", "ACTIVE", "DELETED"},
            gen : Nat, owner : Messages, expires : Nat]
NoPreview == [desired |-> "NONE", actual |-> "NONE", gen |-> 0, owner |-> 0, expires |-> 0]

-----------------------------------------------------------------------------
(* What a message means in the current state. *)

\* The state of the message's pull request; a push has none.
Previous(m) == IF PRNumber[m] > 0 THEN prState[PRNumber[m]]
               ELSE [at |-> 0, closed |-> FALSE, gen |-> 0]
At(m) == IF EventTime[m] = 0 THEN now ELSE EventTime[m]

\* The event is not after the last one that counted, and is not the closing that
\* wins a tie.
Stale_LateOpen(m) ==
    LET previous == Previous(m)
    IN  previous.gen > 0 /\ At(m) < previous.at
Stale(m) ==
    LET previous == Previous(m)
    IN  /\ previous.gen > 0
        /\ At(m) <= previous.at
        /\ m \notin Closing \/ previous.closed \/ At(m) < previous.at

queuedCount == Cardinality({p \in Messages : status[p] = "OPEN"})
HasCapacity(m) == m \in Closing \/ queuedCount + 1 <= MaxQueuedJobs

\* The stored pipelines the message shares, if it may share one.  The second
\* search of Submit, after the generation has moved on, finds none.
Shared(m) ==
    {p \in Messages : /\ m \notin Closing \cup Rerun
                      /\ ~Previous(m).closed
                      /\ Stored(p)
                      /\ PRNumber[p] = PRNumber[m] /\ Revision[p] = Revision[m]
                      /\ gen[p] = Previous(m).gen}

\* The request ID was not answered before.  A repetition gets the old answer, one
\* with other contents a conflict; neither changes anything.
Fresh_AnyTime(m) == TRUE
Fresh(m) == deliveries[RequestID[m]] = Unseen

\* A message arrives; a webhook does so after its event.
Arrives(m) ==
    /\ EventTime[m] <= now + Skew
    /\ Fresh(m)
    /\ stamp' = [stamp EXCEPT ![m] = At(m)]

\* The newest accepted event ends what the pull request had open and asks for the
\* removal of its preview.
Deleting(v, g) == [v EXCEPT !.desired = "DELETING", !.gen = g]
Superseded_Unchecked(v, g) == Deleting(v, g)
Superseded(v, g) == IF v = NoPreview THEN v ELSE Deleting(v, g)
supersede(m) ==
    LET pr == PRNumber[m]
        g == Previous(m).gen + 1
    IN  IF pr = 0 THEN UNCHANGED <<prState, preview>>
        ELSE /\ prState' = [prState EXCEPT ![pr] = [at |-> At(m), closed |-> m \in Closing,
                                                   gen |-> g]]
             /\ preview' = [preview EXCEPT ![pr] = Superseded(@, g)]

\* The status of every pipeline once those the message supersedes are cancelled.
CancelOlder_WhenClosing(m) ==
    [p \in Messages |-> IF /\ m \in Closing
                           /\ PRNumber[p] > 0 /\ PRNumber[p] = PRNumber[m]
                           /\ status[p] = "OPEN"
                        THEN "CANCELLED" ELSE status[p]]
CancelOlder(m) ==
    [p \in Messages |-> IF /\ PRNumber[p] > 0 /\ PRNumber[p] = PRNumber[m]
                           /\ status[p] = "OPEN"
                        THEN "CANCELLED" ELSE status[p]]

-----------------------------------------------------------------------------
Init ==
    /\ now = 1
    /\ prState = [pr \in PRs |-> [at |-> 0, closed |-> FALSE, gen |-> 0]]
    /\ deliveries = [id \in RequestIDs |-> Unseen]
    /\ status = [m \in Messages |-> "NONE"]
    /\ gen = [m \in Messages |-> 0]
    /\ created = [m \in Messages |-> 0]
    /\ preview = [pr \in PRs |-> NoPreview]
    /\ stamp = [m \in Messages |-> 0]

(***************************************************************************)
(* Submit.                                                                 *)
(***************************************************************************)

IgnoreStale(m) ==
    /\ Arrives(m)
    /\ Stale(m)
    /\ deliveries' = [deliveries EXCEPT ![RequestID[m]] = Nothing]
    /\ UNCHANGED <<now, prState, gen, created, status, preview>>

\* The same revision again, in the current generation: only the clock moves.
Share(m) ==
    /\ Arrives(m)
    /\ ~Stale(m)
    /\ HasCapacity(m)
    /\ \E p \in Shared(m) : deliveries' = [deliveries EXCEPT ![RequestID[m]] = p]
    /\ prState' = IF PRNumber[m] = 0 THEN prState
                  ELSE [prState EXCEPT ![PRNumber[m]].at = At(m)]
    /\ UNCHANGED <<now, gen, created, status, preview>>

Accept(m) ==
    /\ Arrives(m)
    /\ m \notin Closing
    /\ ~Stale(m)
    /\ HasCapacity(m)
    /\ Shared(m) = {}
    /\ supersede(m)
    /\ status' = [CancelOlder(m) EXCEPT ![m] = "OPEN"]
    /\ deliveries' = [deliveries EXCEPT ![RequestID[m]] = m]
    /\ gen' = [gen EXCEPT ![m] = IF PRNumber[m] > 0 THEN Previous(m).gen + 1 ELSE 0]
    /\ created' = [created EXCEPT ![m] = now]
    /\ UNCHANGED now

Close(m) ==
    /\ Arrives(m)
    /\ m \in Closing
    /\ ~Stale(m)
    /\ supersede(m)
    /\ status' = CancelOlder(m)
    /\ deliveries' = [deliveries EXCEPT ![RequestID[m]] = Nothing]
    /\ UNCHANGED <<now, gen, created>>

Submit(m) == IgnoreStale(m) \/ Share(m) \/ Accept(m) \/ Close(m)

(***************************************************************************)
(* The end of a pipeline.                                                  *)
(***************************************************************************)

\* activatePreviewLocked lets pipeline p have the preview of its pull request.
MayActivate_AnyGeneration(p) ==
    /\ PRNumber[p] > 0 /\ TTL[p] > 0
    /\ ~prState[PRNumber[p]].closed
MayActivate(p) ==
    /\ PRNumber[p] > 0 /\ TTL[p] > 0
    /\ ~prState[PRNumber[p]].closed /\ prState[PRNumber[p]].gen = gen[p]
Activated(p) == [desired |-> "ACTIVE", actual |-> "PENDING", gen |-> gen[p],
                 owner |-> p, expires |-> now + TTL[p]]

Succeed(p) ==
    LET pr == PRNumber[p]
    IN  /\ status[p] = "OPEN"
        /\ status' = [status EXCEPT ![p] = "SUCCEEDED"]
        /\ preview' = IF MayActivate(p) /\ preview[pr].desired # "DELETING"
                      THEN [preview EXCEPT ![pr] = Activated(p)] ELSE preview
        /\ UNCHANGED <<now, submitVars>>

\* A failed result, or the last lease of a job that expires.
Fail(p) ==
    /\ status[p] = "OPEN"
    /\ status' = [status EXCEPT ![p] = "FAILED"]
    /\ UNCHANGED <<now, submitVars, preview>>

CancelJob(p) ==
    LET pr == PRNumber[p]
    IN  /\ status[p] = "OPEN"
        /\ status' = [status EXCEPT ![p] = "CANCELLED"]
        /\ preview' = IF pr > 0 /\ preview[pr].desired = "ACTIVE"
                      THEN [preview EXCEPT ![pr] = Deleting(@, @.gen + 1)] ELSE preview
        /\ UNCHANGED <<now, submitVars>>

(***************************************************************************)
(* The tick: Reconcile, with pruneLocked at its end, then EnsurePreviews.  *)
(***************************************************************************)

\* What Reconcile makes of a preview.
Removed_OnRequest(v) == IF v.desired = "DELETING" THEN NoPreview ELSE v
Removed(v) == IF v.desired = "DELETING" /\ v.actual = "DELETED" THEN NoPreview ELSE v
Reconciled(v) ==
    Removed(IF v.desired = "ACTIVE" /\ now >= v.expires THEN Deleting(v, v.gen + 1) ELSE v)

Over(p) == status[p] \in {"SUCCEEDED", "FAILED", "CANCELLED"}
Pruned(previews) ==
    {p \in Messages : /\ Over(p) /\ now - created[p] >= Retention
                      /\ \A pr \in PRs : previews[pr].owner # p}

\* The pipelines EnsurePreviews would give the preview of pr to.
Window_FromNow(p) == TRUE
Window(p) == now < created[p] + TTL[p]
Deferred_Never(pr, gone) == {}
Deferred(pr, gone) ==
    {p \in Messages \ gone : /\ PRNumber[p] = pr /\ status[p] = "SUCCEEDED"
                             /\ MayActivate(p) /\ Window(p)}

Tick ==
    LET reconciled == [pr \in PRs |-> Reconciled(preview[pr])]
        gone == Pruned(reconciled)
        Ensured(pr) == IF reconciled[pr] # NoPreview \/ Deferred(pr, gone) = {}
                       THEN {reconciled[pr]}
                       ELSE {Activated(p) : p \in Deferred(pr, gone)}
    IN  /\ preview' \in {f \in [PRs -> UNION {Ensured(pr) : pr \in PRs}] :
                            \A pr \in PRs : f[pr] \in Ensured(pr)}
        /\ status' = [p \in Messages |-> IF p \in gone THEN "PRUNED" ELSE status[p]]
        /\ UNCHANGED <<now, submitVars>>

\* ObservePreview with what the controller read of a preview, and what it found.
\* An observation of another generation, owner or desired state is refused.
SameRequest_AnyOwner(v, seen) == v # NoPreview
SameRequest(v, seen) ==
    v.gen = seen.gen /\ v.owner = seen.owner /\ v.desired = seen.desired
ObservePreview(pr, seen, actual) ==
    /\ preview[pr] # NoPreview
    /\ SameRequest(preview[pr], seen)
    /\ preview' = [preview EXCEPT ![pr].actual = actual]
    /\ UNCHANGED <<now, submitVars, status>>

Advance ==
    /\ now < MaxTime
    /\ now' = now + 1
    /\ UNCHANGED <<submitVars, status, preview>>

StoreNext ==
    \/ \E m \in Messages : Submit(m) \/ Succeed(m) \/ Fail(m) \/ CancelJob(m)
    \/ Tick
    \/ Advance

\* The store with a controller that may report anything about what is stored; one
\* that manages namespaces is in PreviewController.
AnyReport ==
    \E pr \in PRs : \E actual \in {"PENDING", "ACTIVE", "DELETED"} :
        ObservePreview(pr, preview[pr], actual)

StoreSpec == Init /\ [][StoreNext \/ AnyReport]_storeVars

-----------------------------------------------------------------------------
(* Properties. *)

TypeOK ==
    /\ now \in 1 .. MaxTime
    /\ prState \in [PRs -> [at : Nat, closed : BOOLEAN, gen : Nat]]
    /\ deliveries \in [RequestIDs -> Messages \cup {Nothing, Unseen}]
    /\ status \in [Messages -> Status]
    /\ gen \in [Messages -> Nat]
    /\ created \in [Messages -> Nat]
    /\ preview \in [PRs -> Preview \cup {NoPreview}]
    /\ stamp \in [Messages -> Nat]

\* Whatever the order in which the events of a pull request arrive, its clock is
\* that of the newest, and it is closed exactly if one of the newest closes it:
\* late deliveries lose, and close wins a tie (Submit).
NewestEventWins ==
    \A pr \in PRs :
        LET heard == {m \in Messages : PRNumber[m] = pr /\ stamp[m] > 0}
        IN  heard # {} =>
              /\ \A m \in heard : stamp[m] <= prState[pr].at
              /\ \E m \in heard : stamp[m] = prState[pr].at
              /\ prState[pr].closed =
                    \E m \in heard \cap Closing : stamp[m] = prState[pr].at

\* A pull request has at most one open pipeline, that of its newest revision, and
\* none once it is closed.
OneOpenPipeline ==
    \A p \in Messages : status[p] = "OPEN" /\ PRNumber[p] > 0 =>
        /\ ~prState[PRNumber[p]].closed
        /\ gen[p] = prState[PRNumber[p]].gen
        /\ \A q \in Messages \ {p} : PRNumber[q] = PRNumber[p] => gen[q] # gen[p]

\* A preview that is to be up belongs to the succeeded pipeline of the newest
\* revision of an open pull request, whatever the order in which closings,
\* revisions, results, expiries and deferred activations happened.
ActiveIsCurrent ==
    \A pr \in PRs : preview[pr].desired = "ACTIVE" =>
        /\ ~prState[pr].closed
        /\ preview[pr].gen = prState[pr].gen
        /\ status[preview[pr].owner] = "SUCCEEDED"
        /\ gen[preview[pr].owner] = prState[pr].gen

AnsweredStep ==
    /\ \A id \in RequestIDs : deliveries[id] # Unseen => deliveries'[id] = deliveries[id]
    /\ \A m \in Messages : status[m] = "NONE" /\ status'[m] # "NONE" =>
          deliveries[RequestID[m]] = Unseen

\* The answer to a request ID never changes, and no repetition of it, with the
\* same contents or others, creates another pipeline.
AnswersAreFinal == [][AnsweredStep]_storeVars

CloseStep ==
    \A m \in Closing :
        /\ stamp[m] = 0 /\ stamp'[m] # 0
        /\ \A n \in Messages : PRNumber[n] = PRNumber[m] /\ stamp[n] > 0 =>
              EventTime[n] <= EventTime[m]
        => prState'[PRNumber[m]].closed

\* A closing that is answered takes effect unless a later event of the pull request
\* was answered before it ("a closed event cancels active work and requests
\* deletion", docs/github-app.md).  A manual submission is no such event, but
\* Submit moves the clock of the pull request to the time of its transaction.
CloseTakesEffect == [][CloseStep]_storeVars

\* A preview that was to be removed is not brought back for the same pipeline:
\* neither a late result nor a deferred activation undoes an expiry.
NoResurrection ==
    \A p \in Messages \ Closing :
        LET pr == PRNumber[p]
        IN  pr > 0 =>
              [](preview[pr].desired = "DELETING" /\ preview[pr].owner = p =>
                   []~(preview[pr].desired = "ACTIVE" /\ preview[pr].owner = p))

=============================================================================
