---------------------------- MODULE GitHubChecks -----------------------------
(***************************************************************************)
(* The check loop of the API (loops in cmd/api/main.go) and App.Check      *)
(* (internal/github/app.go): each replica reads the newest pipelines,      *)
(* brings the check run of each at GitHub up to date and records what it   *)
(* has reported.  The pipelines are those of PipelineLifecycle, which      *)
(* JobStore implements; they go on while a replica works on what it read.  *)
(*                                                                         *)
(* GitHub is the environment: a call has its effect before the client's    *)
(* time-out or not at all, and its answer may be lost.                     *)
(***************************************************************************)
EXTENDS PipelineLifecycle, Integers, Sequences, FiniteSets

CONSTANTS
    Replicas,
    Manual,     \* the pipelines without an installation: no check run
    ListCap,    \* how many pipelines PipelineList returns
    MaxMishaps  \* bound on the check runs created and not recorded

\* Pipelines are numbers, in the order in which they are created.
ASSUME ChecksAssumption ==
    /\ Pipelines \subseteq Nat /\ Manual \subseteq Pipelines
    /\ ListCap \in Nat \ {0} /\ MaxMishaps \in Nat

VARIABLES
    checkState, \* [Pipelines -> the status recorded as reported, or "NONE"]
    checkRunID, \* [Pipelines -> its check run, 0 for none]
    runs,       \* the check runs at GitHub, in the order of their IDs
    todo,       \* [Replicas -> what is left of the list it read, newest next]
    answered,   \* [Replicas -> the ID GitHub answered, 0 while there is none]
    mishaps     \* history: check runs created and not recorded

storeVars == <<lifecycleVars, checkState, checkRunID>>
loopVars == <<todo, answered, mishaps>>
vars == <<storeVars, runs, loopVars>>

Shown == {"in_progress", "success", "failure", "cancelled"}
Entries == [p : Pipelines \ Manual, run : Nat,
            status : {"QUEUED", "RUNNING", "SUCCEEDED", "FAILED", "CANCELLED"}]

\* The types of the variables, for the reader; no run checks them.  What the proofs need
\* of them is part of the invariant of GitHubChecksProofs.
ChecksTypeOK ==
    /\ checkState \in [Pipelines ->
                          {"NONE", "QUEUED", "RUNNING", "SUCCEEDED", "FAILED", "CANCELLED"}]
    /\ checkRunID \in [Pipelines -> 0 .. Len(runs)]
    /\ runs \in Seq([of : Pipelines \ Manual, shows : Shown])
    /\ \A h \in Replicas : todo[h] \subseteq Entries /\ Cardinality(todo[h]) <= ListCap
    /\ answered \in [Replicas -> 0 .. Len(runs)]
    /\ mishaps \in 0 .. MaxMishaps

ChecksInit ==
    /\ LifecycleInit
    /\ checkState = [p \in Pipelines |-> "NONE"]
    /\ checkRunID = [p \in Pipelines |-> 0]
    /\ runs = << >>
    /\ todo = [h \in Replicas |-> {}]
    /\ answered = [h \in Replicas |-> 0]
    /\ mishaps = 0

-----------------------------------------------------------------------------
(* The pipelines. *)

InOrder == \A p, q \in Pipelines : p < q /\ status'[q] # "NONE" => status'[p] # "NONE"

PipelineStep ==
    /\ LifecycleNext /\ InOrder
    /\ UNCHANGED <<checkState, checkRunID, runs, loopVars>>

-----------------------------------------------------------------------------
(* A round of a replica. *)

Retained == {p \in Pipelines : status[p] \notin {"NONE", "PRUNED"}}
Listed == {p \in Retained : Cardinality({q \in Retained : q > p}) < ListCap}

\* What the loop does not skip, as it was when the list was read.
Due_Once(p) == p \notin Manual /\ checkState[p] = "NONE"
Due(p) == p \notin Manual /\ checkState[p] # status[p]

Idle(h) == todo[h] = {}
NextEntry(h) == CHOOSE e \in todo[h] : \A f \in todo[h] : f.p <= e.p

ReadList(h) ==
    /\ Idle(h)
    /\ todo' = [todo EXCEPT ![h] = {[p |-> p, status |-> status[p], run |-> checkRunID[p]] :
                                       p \in {q \in Listed : Due(q)}}]
    /\ UNCHANGED <<storeVars, runs, answered, mishaps>>

\* The status or conclusion the payload of Check has.
Conclusion_Default(s) == IF s \in {"SUCCEEDED", "CANCELLED"} THEN "success"
                         ELSE IF s = "FAILED" THEN "failure" ELSE "in_progress"
Conclusion(s) == CASE s = "SUCCEEDED" -> "success"
                   [] s = "FAILED"    -> "failure"
                   [] s = "CANCELLED" -> "cancelled"
                   [] OTHER           -> "in_progress"

\* POST creates a check run, PATCH changes the one that was read.
RunOf_Created(e) == Len(runs) + 1
RunOf(e) == IF e.run = 0 THEN Len(runs) + 1 ELSE e.run
Post(e) == RunOf(e) > Len(runs)
Apply(e) ==
    LET run == [of |-> e.p, shows |-> Conclusion(e.status)]
    IN  runs' = IF Post(e) THEN Append(runs, run) ELSE [runs EXCEPT ![e.run] = run]

\* The check run that was created is not going to be recorded.
Mishap == mishaps < MaxMishaps /\ mishaps' = mishaps + 1

Drop(h, e) == /\ todo' = [todo EXCEPT ![h] = @ \ {e}]
              /\ answered' = [answered EXCEPT ![h] = 0]

Calls(h, e) == ~Idle(h) /\ answered[h] = 0 /\ e = NextEntry(h)

Check(h, p) ==
    \E e \in todo[h] :
        /\ e.p = p /\ Calls(h, e)
        /\ Apply(e)
        /\ answered' = [answered EXCEPT ![h] = RunOf(e)]
        /\ UNCHANGED <<storeVars, todo, mishaps>>

\* The call fails, or it succeeds and its answer is lost: the next pipeline's turn.
CheckFails(h) ==
    \E e \in todo[h] :
        /\ Calls(h, e)
        /\ \/ UNCHANGED <<runs, mishaps>>
           \/ /\ Apply(e)
              /\ IF Post(e) THEN Mishap ELSE UNCHANGED mishaps
        /\ Drop(h, e)
        /\ UNCHANGED storeVars

\* The status that was read, not the one the pipeline has by now.
RecordedState_Now(e) == status[e.p]
RecordedState(e) == e.status

RecordCheck(h, p) ==
    \E e \in todo[h] :
        /\ e.p = p /\ answered[h] # 0 /\ e = NextEntry(h)
        /\ IF p \in Retained
           THEN /\ checkRunID' = [checkRunID EXCEPT ![p] = answered[h]]
                /\ checkState' = [checkState EXCEPT ![p] = RecordedState(e)]
           ELSE UNCHANGED <<checkRunID, checkState>>
        /\ Drop(h, e)
        /\ UNCHANGED <<lifecycleVars, runs, mishaps>>

\* The transaction fails, and its error is ignored.
RecordFails(h) ==
    \E e \in todo[h] :
        /\ answered[h] # 0 /\ e = NextEntry(h)
        /\ IF e.run = 0 THEN Mishap ELSE UNCHANGED mishaps
        /\ Drop(h, e)
        /\ UNCHANGED <<storeVars, runs>>

\* The replica stops, at any point, and is started again.
Restart(h) ==
    /\ ~Idle(h)
    /\ IF answered[h] # 0 /\ NextEntry(h).run = 0 THEN Mishap ELSE UNCHANGED mishaps
    /\ todo' = [todo EXCEPT ![h] = {}]
    /\ answered' = [answered EXCEPT ![h] = 0]
    /\ UNCHANGED <<storeVars, runs>>

Round(h) == \/ ReadList(h) \/ CheckFails(h) \/ RecordFails(h)
            \/ \E p \in Pipelines : Check(h, p) \/ RecordCheck(h, p)

ChecksNext == PipelineStep \/ \E h \in Replicas : Round(h) \/ Restart(h)

ChecksSpec == ChecksInit /\ [][ChecksNext]_vars

\* Rounds go on, and what is tried again and again succeeds some time.
LiveChecksSpec ==
    /\ ChecksSpec
    /\ \A h \in Replicas :
          /\ WF_vars(Round(h))
          /\ \A p \in Pipelines \ Manual : SF_vars(Check(h, p)) /\ SF_vars(RecordCheck(h, p))

-----------------------------------------------------------------------------
(* Properties. *)

\* A check run never says that a pipeline ended unless it did, and in the same way,
\* although every update is made from a list that may be old (Check, lines 136-148).
NoFalseConclusion ==
    \A i \in DOMAIN runs :
        LET s == status[runs[i].of]
        IN  s # "PRUNED" => /\ runs[i].shows = "success"   => s = "SUCCEEDED"
                            /\ runs[i].shows = "failure"   => s = "FAILED"
                            /\ runs[i].shows = "cancelled" => s = "CANCELLED"

Shows(p, s) == checkRunID[p] # 0 /\ runs[checkRunID[p]].shows = s

\* When the final status of a pipeline is recorded as reported, so that no round
\* looks at the pipeline again, its check run shows it, unless an update is under way
\* (loops, lines 133-142: read, patch and record are three steps).
ReportedIsShown ==
    \A p \in Retained :
        IsOver(p) /\ checkState[p] = status[p] /\ (\A h \in Replicas : \A e \in todo[h] : e.p # p)
            => ~Shows(p, "in_progress") /\ checkRunID[p] # 0

\* One check run is created per pipeline, and one more for each that was created and
\* could not be recorded (App.Check, lines 152-157).
OneRunPerMishap ==
    Len(runs) <= Cardinality({p \in Pipelines \ Manual : status[p] # "NONE"}) + mishaps

\* The end of a pipeline is shown at GitHub in the end, whatever calls fail and
\* however often the replica stops, unless it is pruned first or newer pipelines
\* have pushed it off the list that is read.
EndIsShown ==
    \A p \in Pipelines \ Manual :
        IsOver(p) ~> \/ Shows(p, "success") \/ Shows(p, "failure") \/ Shows(p, "cancelled")
                     \/ p \notin Listed

=============================================================================
