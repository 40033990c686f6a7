------------------------- MODULE GitHubChecksProofs -------------------------
(***************************************************************************)
(* What holds of the check runs at GitHub, for any pipelines and any length*)
(* of the list: with any number of replicas no check run is wrong about how*)
(* a pipeline ended; with one replica nothing that was reported is lost and*)
(* no check run is created without need.                                   *)
(***************************************************************************)
EXTENDS GitHubChecks, FiniteSetTheorems, TLAPS

-----------------------------------------------------------------------------
(* The inductive invariant for any number of replicas. *)

Ended == {"SUCCEEDED", "FAILED", "CANCELLED"}

CheckRuns == [of : Pipelines \ Manual, shows : Shown]
Type ==
    /\ status \in [Pipelines -> {"NONE", "QUEUED", "RUNNING", "PRUNED"} \cup Ended]
    /\ checkState \in [Pipelines -> {"NONE", "QUEUED", "RUNNING"} \cup Ended]
    /\ checkRunID \in [Pipelines -> Nat]
    /\ runs \in Seq(CheckRuns)
    /\ todo \in [Replicas -> SUBSET Entries]
    /\ answered \in [Replicas -> Nat]
    /\ mishaps \in Nat

\* Whatever names a check run names one there is.
Known ==
    /\ \A p \in Pipelines : checkRunID[p] <= Len(runs)
    /\ \A h \in Replicas : answered[h] <= Len(runs) /\ \A e \in todo[h] : e.run <= Len(runs)

\* An end that was read has happened, and is not taken back.
Honest == \A h \in Replicas : \A e \in todo[h] :
              e.status \in Ended => status[e.p] \in {e.status, "PRUNED"}

Inv == Type /\ Known /\ Honest /\ NoFalseConclusion

-----------------------------------------------------------------------------
(* What one replica adds to it. *)

Alone == \A g, h \in Replicas : g = h

\* The list has one entry for a pipeline, with the check run it still has, and none
\* for a pipeline whose end is recorded.
Current == \A h \in Replicas : \A e \in todo[h] :
              /\ \A f \in todo[h] : e.p = f.p => e = f
              /\ e.run = checkRunID[e.p] /\ checkState[e.p] \notin Ended /\ status[e.p] # "NONE"

\* The check run that was answered is the entry's, and shows what was read.
Answer == \A h \in Replicas : answered[h] # 0 =>
              LET e == NextEntry(h)
              IN  /\ e \in todo[h] /\ (e.run # 0 => answered[h] = e.run)
                  /\ runs[answered[h]].of = e.p /\ runs[answered[h]].shows = Conclusion(e.status)

\* The recorded check run is the pipeline's own, and shows a recorded end.
Recorded == \A p \in Pipelines :
    /\ checkRunID[p] # 0 => runs[checkRunID[p]].of = p /\ status[p] # "NONE"
    /\ checkState[p] \in Ended => /\ status[p] \in {checkState[p], "PRUNED"}
                                  /\ Shows(p, Conclusion(checkState[p]))

AloneInv == Inv /\ Current /\ Answer /\ Recorded

\* The pipelines whose check run is recorded, or is about to be, or went unrecorded
\* because the pipeline was pruned.
Created == {p \in Pipelines \ Manual : status[p] # "NONE"}
Made == {p \in Created :
            \/ checkRunID[p] # 0
            \/ \E h \in Replicas : answered[h] # 0 /\ p = NextEntry(h).p
            \/ status[p] = "PRUNED" /\ \A h \in Replicas : \A e \in todo[h] : e.p # p}

Counted == IsFiniteSet(Created) /\ Len(runs) <= Cardinality(Made) + mishaps

-----------------------------------------------------------------------------
(* The pipelines. *)

\* A pipeline that has ended stays as it is or is pruned, and none is ever unmade.
Onward ==
    /\ status' \in [Pipelines -> {"NONE", "QUEUED", "RUNNING", "PRUNED"} \cup Ended]
    /\ \A p \in Pipelines : /\ status[p] \in Ended => status'[p] \in {status[p], "PRUNED"}
                            /\ status[p] = "PRUNED" => status'[p] = "PRUNED"
                            /\ status[p] # "NONE" => status'[p] # "NONE"

LEMMA LifecycleStep ==
    ASSUME Type, LifecycleNext
    PROVE  Onward
<1>0. status \in [Pipelines -> {"NONE", "QUEUED", "RUNNING", "PRUNED"} \cup Ended] BY DEF Type
<1>1. ASSUME NEW p \in Pipelines, Start(p) \/ Fail(p) PROVE Onward
  BY <1>0, <1>1 DEF Start, Fail, Ended, Onward
<1>2. ASSUME NEW p \in Pipelines, NEW S \in SUBSET Pipelines, Accept(p, S) PROVE Onward
  BY <1>0, <1>2 DEF Accept, IsOpen, Ended, Onward
<1>3. ASSUME NEW j \in Jobs, Commit(j) PROVE Onward
  BY <1>0, <1>3 DEF Commit, Ended, Onward
<1>4. ASSUME NEW S \in SUBSET Pipelines, Cancel(S) \/ Forget(S) PROVE Onward
  BY <1>0, <1>4 DEF Cancel, Forget, IsOpen, IsOver, Ended, Onward
<1> QED BY <1>1, <1>2, <1>3, <1>4 DEF LifecycleNext

\* Pipelines are created one at a time.
LEMMA LifecycleCreates ==
    ASSUME Type, LifecycleNext
    PROVE  \E q : Created' \subseteq Created \cup {q}
<1>0. status \in [Pipelines -> {"NONE", "QUEUED", "RUNNING", "PRUNED"} \cup Ended] BY DEF Type
<1>1. CASE \E p \in Pipelines : \E S \in SUBSET Pipelines : Accept(p, S)
  <2>1. PICK p \in Pipelines, S \in SUBSET Pipelines : Accept(p, S) BY <1>1
  <2>2. Created' \subseteq Created \cup {p} BY <1>0, <2>1 DEF Accept, IsOpen, Created
  <2> QED BY <2>2
<1>2. CASE ~\E p \in Pipelines : \E S \in SUBSET Pipelines : Accept(p, S)
  <2>1. CASE \E p \in Pipelines : Start(p) \/ Fail(p)
    BY <1>0, <2>1 DEF Start, Fail, Created
  <2>2. CASE \E j \in Jobs : Commit(j)
    <3>1. Created' \subseteq Created BY <1>0, <2>2 DEF Commit, Created
    <3> QED BY <3>1
  <2>3. CASE \E S \in SUBSET Pipelines : Cancel(S) \/ Forget(S)
    <3>1. Created' \subseteq Created BY <1>0, <2>3 DEF Cancel, Forget, IsOpen, IsOver, Created
    <3> QED BY <3>1
  <2> QED BY <1>2, <2>1, <2>2, <2>3 DEF LifecycleNext
<1> QED BY <1>1, <1>2

-----------------------------------------------------------------------------
(* The calls. *)

LEMMA ConclusionType == \A s : Conclusion(s) \in Shown
BY DEF Conclusion, Shown

LEMMA RunTypes ==
    ASSUME Type
    PROVE  /\ Len(runs) \in Nat /\ DOMAIN runs = 1 .. Len(runs)
           /\ \A i \in 1 .. Len(runs) : runs[i].of \in Pipelines
<1>1. /\ Len(runs) \in Nat /\ DOMAIN runs = 1 .. Len(runs)
      /\ \A i \in 1 .. Len(runs) : runs[i] \in CheckRuns
  BY DEF Type
<1>2. \A r \in CheckRuns : r.of \in Pipelines BY DEF CheckRuns
<1> QED BY <1>1, <1>2

LEMMA ApplyEffect ==
    ASSUME Type, NEW e \in Entries, e.run <= Len(runs), Apply(e)
    PROVE  /\ runs' \in Seq(CheckRuns)
           /\ Len(runs') = IF e.run = 0 THEN Len(runs) + 1 ELSE Len(runs)
           /\ Post(e) <=> e.run = 0
           /\ RunOf(e) \in 1 .. Len(runs')
           /\ runs'[RunOf(e)].of = e.p /\ runs'[RunOf(e)].shows = Conclusion(e.status)
           /\ \A i \in 1 .. Len(runs) : i # RunOf(e) => runs'[i] = runs[i]
<1> DEFINE r == [of |-> e.p, shows |-> Conclusion(e.status)]
<1>1. r \in CheckRuns BY ConclusionType DEF Entries, CheckRuns
<1>2. e.run \in Nat /\ Len(runs) \in Nat BY DEF Entries, Type
<1>3. Post(e) <=> e.run = 0 BY <1>2 DEF Post, RunOf
<1>4. r.of = e.p /\ r.shows = Conclusion(e.status) OBVIOUS
<1> HIDE DEF r
<1>5. CASE e.run = 0
  <2>1. runs' = Append(runs, r) BY <1>3, <1>5 DEF Apply, r
  <2> QED BY <1>1, <1>2, <1>3, <1>4, <1>5, <2>1 DEF RunOf, Type
<1>6. CASE e.run # 0
  <2>1. runs' = [runs EXCEPT ![e.run] = r] BY <1>3, <1>6 DEF Apply, r
  <2> QED BY <1>1, <1>2, <1>3, <1>4, <1>6, <2>1 DEF RunOf, Type
<1> QED BY <1>5, <1>6

\* A check run that is brought up to date from an honest entry is not wrong.
LEMMA ApplyIsTrue ==
    ASSUME Inv, NEW h \in Replicas, NEW e \in todo[h], Apply(e), UNCHANGED status
    PROVE  NoFalseConclusion'
<1>1. e \in Entries /\ e.run <= Len(runs) BY DEF Inv, Type, Known
<1>2. SUFFICES ASSUME NEW i \in DOMAIN runs', status'[runs'[i].of] # "PRUNED"
               PROVE  /\ runs'[i].shows = "success"   => status'[runs'[i].of] = "SUCCEEDED"
                      /\ runs'[i].shows = "failure"   => status'[runs'[i].of] = "FAILED"
                      /\ runs'[i].shows = "cancelled" => status'[runs'[i].of] = "CANCELLED"
  BY DEF NoFalseConclusion
<1>3. i \in 1 .. Len(runs') BY <1>1, ApplyEffect DEF Inv
<1>4. CASE i = RunOf(e)
  <2>1. runs'[i].of = e.p /\ runs'[i].shows = Conclusion(e.status)
    BY <1>1, <1>4, ApplyEffect DEF Inv
  <2>2. e.status \in Ended => status[e.p] = e.status BY <1>2, <2>1 DEF Inv, Honest
  <2> QED BY <2>1, <2>2 DEF Conclusion, Ended
<1>5. CASE i # RunOf(e)
  <2>1. Len(runs) \in Nat /\ i \in 1 .. Len(runs)
    BY <1>1, <1>3, <1>5, ApplyEffect DEF Inv, RunOf, Type
  <2>2. runs'[i] = runs[i] BY <1>1, <1>5, <2>1, ApplyEffect DEF Inv
  <2>3. i \in DOMAIN runs BY <2>1 DEF Inv, Type
  <2> QED BY <1>2, <2>2, <2>3 DEF Inv, NoFalseConclusion
<1> QED BY <1>4, <1>5

-----------------------------------------------------------------------------
(* Every step preserves Inv. *)

LEMMA ChecksInitInv == ChecksInit => Inv
<1> SUFFICES ASSUME ChecksInit PROVE Inv OBVIOUS
<1>1. runs = << >> /\ \A h \in Replicas : todo[h] = {} BY DEF ChecksInit
<1>2. Type BY DEF ChecksInit, LifecycleInit, Type
<1>3. Known BY <1>1 DEF Known, ChecksInit
<1> QED BY <1>1, <1>2, <1>3 DEF Inv, Honest, NoFalseConclusion

LEMMA PipelineStepInv ==
    ASSUME Inv, PipelineStep
    PROVE  Inv'
<1>1. Onward BY LifecycleStep DEF Inv, PipelineStep
<1>2. UNCHANGED <<checkState, checkRunID, runs, todo, answered, mishaps>>
  BY DEF PipelineStep, loopVars
<1>3. Type' BY <1>1, <1>2 DEF Inv, Type, Onward
<1>4. Known' BY <1>2 DEF Inv, Known
<1>5. ASSUME NEW h \in Replicas, NEW e \in todo[h], e.status \in Ended
      PROVE  status'[e.p] \in {e.status, "PRUNED"}
  <2>1. e.p \in Pipelines BY DEF Inv, Type, Entries
  <2> QED BY <1>1, <1>5, <2>1 DEF Inv, Honest, Onward
<1>6. NoFalseConclusion'
  <2> SUFFICES ASSUME NEW i \in DOMAIN runs, status'[runs[i].of] # "PRUNED"
               PROVE  /\ runs[i].shows = "success"   => status'[runs[i].of] = "SUCCEEDED"
                      /\ runs[i].shows = "failure"   => status'[runs[i].of] = "FAILED"
                      /\ runs[i].shows = "cancelled" => status'[runs[i].of] = "CANCELLED"
    BY <1>2 DEF NoFalseConclusion
  <2>1. runs[i].of \in Pipelines BY RunTypes DEF Inv
  <2>2. status[runs[i].of] # "PRUNED" BY <1>1, <2>1 DEF Onward
  <2> QED BY <1>1, <2>1, <2>2 DEF Inv, NoFalseConclusion, Onward, Ended
<1> QED BY <1>2, <1>3, <1>4, <1>5, <1>6 DEF Inv, Honest

LEMMA ReadListInv ==
    ASSUME Inv, NEW h \in Replicas, ReadList(h)
    PROVE  Inv'
<1>1. UNCHANGED <<status, checkState, checkRunID, runs, answered, mishaps>>
  BY DEF ReadList, storeVars, lifecycleVars
<1>2. /\ DOMAIN todo' = Replicas
      /\ \A g \in Replicas \ {h} : todo'[g] = todo[g]
  BY DEF ReadList, Inv, Type
<1>3. ASSUME NEW e \in todo'[h]
      PROVE  e \in Entries /\ e.status = status[e.p] /\ e.run = checkRunID[e.p]
  <2>1. PICK p \in Listed : Due(p) /\ e = [p |-> p, status |-> status[p], run |-> checkRunID[p]]
    BY DEF ReadList, Inv, Type
  <2>2. p \in Pipelines \ Manual /\ status[p] \notin {"NONE", "PRUNED"}
    BY <2>1 DEF Listed, Retained, Due
  <2>3. status[p] \in {"QUEUED", "RUNNING", "SUCCEEDED", "FAILED", "CANCELLED"} /\ checkRunID[p] \in Nat
    BY <2>2 DEF Inv, Type, Ended
  <2> QED BY <2>1, <2>2, <2>3 DEF Entries
<1>4. Type'
  <2>1. todo' = [todo EXCEPT ![h] = todo'[h]] BY DEF ReadList, Inv, Type
  <2>2. todo' \in [Replicas -> SUBSET Entries] BY <1>3, <2>1 DEF Inv, Type
  <2> QED BY <1>1, <2>2 DEF Inv, Type
<1>5. ASSUME NEW g \in Replicas, NEW e \in todo'[g]
      PROVE  e.run <= Len(runs) /\ (e.status \in Ended => status[e.p] \in {e.status, "PRUNED"})
  <2>1. CASE g = h BY <1>3, <2>1 DEF Inv, Known, Entries
  <2>2. CASE g # h BY <1>2, <2>2 DEF Inv, Known, Honest
  <2> QED BY <2>1, <2>2
<1>6. Known' /\ Honest' BY <1>1, <1>5 DEF Inv, Known, Honest
<1> QED BY <1>1, <1>4, <1>6 DEF Inv, NoFalseConclusion

\* What a replica has left to do only shrinks, and its check runs only grow.
LEMMA LoopStepInv ==
    ASSUME Inv, UNCHANGED status,
           todo' \in [Replicas -> SUBSET Entries], \A h \in Replicas : todo'[h] \subseteq todo[h],
           runs' \in Seq(CheckRuns), Len(runs') >= Len(runs),
           answered' \in [Replicas -> 0 .. Len(runs')],
           checkRunID' \in [Pipelines -> 0 .. Len(runs')],
           checkState' \in [Pipelines -> {"NONE", "QUEUED", "RUNNING"} \cup Ended],
           mishaps' \in Nat, NoFalseConclusion'
    PROVE  Inv'
<1>1. Type' BY DEF Inv, Type
<1>2. Known'
  <2>1. ASSUME NEW h \in Replicas, NEW e \in todo'[h] PROVE e.run <= Len(runs')
    <3>1. e.run \in Nat /\ e.run <= Len(runs) BY DEF Inv, Type, Known, Entries
    <3> QED BY <3>1 DEF Inv, Type
  <2> QED BY <2>1 DEF Known
<1>3. Honest' BY DEF Inv, Honest
<1> QED BY <1>1, <1>2, <1>3 DEF Inv

LEMMA DropEffect ==
    ASSUME Inv, NEW h \in Replicas, NEW e \in todo[h], Drop(h, e)
    PROVE  /\ todo' \in [Replicas -> SUBSET Entries] /\ todo'[h] = todo[h] \ {e}
           /\ \A g \in Replicas : todo'[g] \subseteq todo[g] /\ (g # h => todo'[g] = todo[g])
           /\ answered' \in [Replicas -> 0 .. Len(runs)] /\ answered'[h] = 0
           /\ \A g \in Replicas \ {h} : answered'[g] = answered[g]
BY DEF Drop, Inv, Type, Known

LEMMA CheckInv ==
    ASSUME Inv, NEW h \in Replicas, NEW p \in Pipelines, Check(h, p)
    PROVE  Inv'
<1>1. PICK e \in todo[h] : Apply(e) /\ answered' = [answered EXCEPT ![h] = RunOf(e)]
  BY DEF Check
<1>2. UNCHANGED <<status, checkState, checkRunID, todo, mishaps>>
  BY DEF Check, storeVars, lifecycleVars
<1>3. e \in Entries /\ e.run <= Len(runs) BY DEF Inv, Type, Known
<1>4. NoFalseConclusion' BY <1>1, <1>2, ApplyIsTrue
<1>5. /\ runs' \in Seq(CheckRuns) /\ Len(runs') >= Len(runs)
      /\ RunOf(e) \in 0 .. Len(runs')
  BY <1>1, <1>3, ApplyEffect, RunTypes DEF Inv
<1>6. Len(runs) \in Nat /\ Len(runs') \in Nat BY <1>5 DEF Inv, Type
<1>7. answered' \in [Replicas -> 0 .. Len(runs')] BY <1>1, <1>5, <1>6 DEF Inv, Type, Known
<1>8. checkRunID' \in [Pipelines -> 0 .. Len(runs')] BY <1>2, <1>5, <1>6 DEF Inv, Type, Known
<1> QED BY <1>2, <1>4, <1>5, <1>7, <1>8, LoopStepInv DEF Inv, Type

LEMMA CheckFailsInv ==
    ASSUME Inv, NEW h \in Replicas, CheckFails(h)
    PROVE  Inv'
<1>1. PICK e \in todo[h] : /\ Drop(h, e)
                           /\ \/ UNCHANGED <<runs, mishaps>>
                              \/ Apply(e) /\ (Mishap \/ UNCHANGED mishaps)
  BY DEF CheckFails
<1>2. UNCHANGED <<status, checkState, checkRunID>> BY DEF CheckFails, storeVars, lifecycleVars
<1>3. e \in Entries /\ e.run <= Len(runs) BY DEF Inv, Type, Known
<1>4. NoFalseConclusion'
  <2>1. CASE Apply(e) BY <1>2, <2>1, ApplyIsTrue
  <2>2. CASE UNCHANGED runs BY <1>2, <2>2 DEF Inv, NoFalseConclusion
  <2> QED BY <1>1, <2>1, <2>2
<1>5. runs' \in Seq(CheckRuns) /\ Len(runs') >= Len(runs)
  <2>1. CASE Apply(e) BY <1>3, <2>1, ApplyEffect, RunTypes DEF Inv
  <2>2. CASE UNCHANGED runs BY <2>2, RunTypes DEF Inv, Type
  <2> QED BY <1>1, <2>1, <2>2
<1>6. Len(runs) \in Nat /\ Len(runs') \in Nat BY <1>5 DEF Inv, Type
<1>7. answered' \in [Replicas -> 0 .. Len(runs')] BY <1>1, <1>5, <1>6, DropEffect
<1>8. checkRunID' \in [Pipelines -> 0 .. Len(runs')] BY <1>2, <1>5, <1>6 DEF Inv, Type, Known
<1>9. mishaps' \in Nat BY <1>1 DEF Mishap, Inv, Type
<1> QED BY <1>1, <1>2, <1>4, <1>5, <1>7, <1>8, <1>9, DropEffect, LoopStepInv DEF Inv, Type

LEMMA RecordCheckInv ==
    ASSUME Inv, NEW h \in Replicas, NEW p \in Pipelines, RecordCheck(h, p)
    PROVE  Inv'
<1>1. PICK e \in todo[h] :
         /\ Drop(h, e)
         /\ checkRunID' \in {checkRunID, [checkRunID EXCEPT ![p] = answered[h]]}
         /\ checkState' \in {checkState, [checkState EXCEPT ![p] = e.status]}
  BY DEF RecordCheck, RecordedState
<1>2. UNCHANGED <<status, runs, mishaps>> BY DEF RecordCheck, lifecycleVars
<1>3. e \in Entries BY DEF Inv, Type
<1>4. checkState' \in [Pipelines -> {"NONE", "QUEUED", "RUNNING"} \cup Ended]
  BY <1>1, <1>3 DEF Inv, Type, Entries, Ended
<1>5. checkRunID' \in [Pipelines -> 0 .. Len(runs')] BY <1>1, <1>2 DEF Inv, Type, Known
<1>6. NoFalseConclusion' BY <1>2 DEF Inv, NoFalseConclusion
<1>7. Len(runs) >= Len(runs) BY DEF Inv, Type
<1> QED BY <1>1, <1>2, <1>4, <1>5, <1>6, <1>7, DropEffect, LoopStepInv DEF Inv, Type

LEMMA RecordFailsInv ==
    ASSUME Inv, NEW h \in Replicas, RecordFails(h)
    PROVE  Inv'
<1>1. PICK e \in todo[h] : Drop(h, e) /\ (Mishap \/ UNCHANGED mishaps) BY DEF RecordFails
<1>2. UNCHANGED <<status, checkState, checkRunID, runs>>
  BY DEF RecordFails, storeVars, lifecycleVars
<1>3. checkRunID' \in [Pipelines -> 0 .. Len(runs')] BY <1>2 DEF Inv, Type, Known
<1>4. NoFalseConclusion' BY <1>2 DEF Inv, NoFalseConclusion
<1>5. mishaps' \in Nat /\ Len(runs) >= Len(runs) BY <1>1 DEF Mishap, Inv, Type
<1> QED BY <1>1, <1>2, <1>3, <1>4, <1>5, DropEffect, LoopStepInv DEF Inv, Type

LEMMA RestartInv ==
    ASSUME Inv, NEW h \in Replicas, Restart(h)
    PROVE  Inv'
<1>1. /\ todo' \in [Replicas -> SUBSET Entries] /\ \A g \in Replicas : todo'[g] \subseteq todo[g]
      /\ answered' \in [Replicas -> 0 .. Len(runs)]
  BY DEF Restart, Inv, Type, Known
<1>2. UNCHANGED <<status, checkState, checkRunID, runs>> BY DEF Restart, storeVars, lifecycleVars
<1>3. checkRunID' \in [Pipelines -> 0 .. Len(runs')] BY <1>2 DEF Inv, Type, Known
<1>4. NoFalseConclusion' BY <1>2 DEF Inv, NoFalseConclusion
<1>5. mishaps' \in Nat /\ Len(runs) >= Len(runs) BY DEF Restart, Mishap, Inv, Type
<1> QED BY <1>1, <1>2, <1>3, <1>4, <1>5, LoopStepInv DEF Inv, Type

LEMMA NextInv == Inv /\ [ChecksNext]_vars => Inv'
<1> SUFFICES ASSUME Inv, [ChecksNext]_vars PROVE Inv' OBVIOUS
<1>1. CASE UNCHANGED vars
  BY <1>1 DEF vars, storeVars, loopVars, lifecycleVars, Inv, Type, Known, Honest, NoFalseConclusion
<1>2. CASE ChecksNext
  BY <1>2, PipelineStepInv, ReadListInv, CheckInv, CheckFailsInv, RecordCheckInv, RecordFailsInv,
     RestartInv DEF ChecksNext, Round
<1> QED BY <1>1, <1>2

THEOREM InvariantHolds == ChecksSpec => []Inv
BY ChecksInitInv, NextInv, PTL DEF ChecksSpec

\* However many replicas update the check runs from however old a list, in whatever
\* order, no check run says that a pipeline ended in a way in which it did not
\* (loops in cmd/api/main.go, App.Check in internal/github/app.go).
THEOREM ConclusionsAreTrue == ChecksSpec => []NoFalseConclusion
<1>1. Inv => NoFalseConclusion BY DEF Inv
<1> QED BY <1>1, InvariantHolds, PTL

-----------------------------------------------------------------------------
(* Every step of a system with one replica preserves AloneInv. *)

LEMMA InitAlone == ChecksInit => AloneInv
<1> SUFFICES ASSUME ChecksInit PROVE AloneInv OBVIOUS
<1>1. \A h \in Replicas : todo[h] = {} /\ answered[h] = 0 BY DEF ChecksInit
<1>2. \A p \in Pipelines : checkRunID[p] = 0 /\ checkState[p] = "NONE" BY DEF ChecksInit
<1> QED BY <1>1, <1>2, ChecksInitInv DEF AloneInv, Current, Answer, Recorded, Ended

LEMMA PipelineStepAlone ==
    ASSUME AloneInv, PipelineStep
    PROVE  AloneInv'
<1>1. Onward BY LifecycleStep DEF AloneInv, Inv, PipelineStep
<1>2. UNCHANGED <<checkState, checkRunID, runs, todo, answered>> BY DEF PipelineStep, loopVars
<1>3. \A h \in Replicas : NextEntry(h)' = NextEntry(h) BY <1>2 DEF NextEntry
<1>4. Current'
  <2>1. \A h \in Replicas : \A e \in todo[h] : e.p \in Pipelines BY DEF AloneInv, Inv, Type, Entries
  <2> QED BY <1>1, <1>2, <2>1 DEF AloneInv, Current, Onward
<1>5. Answer' BY <1>2, <1>3 DEF AloneInv, Answer
<1>6. Recorded' BY <1>1, <1>2 DEF AloneInv, Recorded, Onward, Shows
<1> QED BY <1>4, <1>5, <1>6, PipelineStepInv DEF AloneInv

LEMMA ReadListAlone ==
    ASSUME Alone, AloneInv, NEW h \in Replicas, ReadList(h)
    PROVE  AloneInv'
<1>1. UNCHANGED <<status, checkState, checkRunID, runs, answered>>
  BY DEF ReadList, storeVars, lifecycleVars
<1>2. todo'[h] = {[p |-> p, status |-> status[p], run |-> checkRunID[p]] :
                     p \in {q \in Listed : Due(q)}}
  BY DEF ReadList, AloneInv, Inv, Type
<1>3. ASSUME NEW e \in todo'[h]
      PROVE  /\ e = [p |-> e.p, status |-> status[e.p], run |-> checkRunID[e.p]]
             /\ checkState[e.p] \notin Ended /\ status[e.p] # "NONE"
  <2>1. PICK p \in Listed : Due(p) /\ e = [p |-> p, status |-> status[p], run |-> checkRunID[p]]
    BY <1>2
  <2>2. p \in Pipelines /\ status[p] \notin {"NONE", "PRUNED"} BY <2>1 DEF Listed, Retained
  <2>3. checkState[p] \notin Ended BY <2>1, <2>2 DEF Due, AloneInv, Recorded
  <2>4. e.p = p BY <2>1
  <2> QED BY <2>1, <2>2, <2>3, <2>4
<1>4. ASSUME NEW e \in todo'[h] PROVE e.run = checkRunID[e.p] BY <1>3
<1>5. Current' BY <1>1, <1>3, <1>4 DEF Alone, Current
<1>6. answered[h] = 0 BY DEF ReadList, Idle, AloneInv, Answer
<1>7. Answer' BY <1>1, <1>6 DEF Alone, Answer
<1>8. Recorded' BY <1>1 DEF AloneInv, Recorded, Shows
<1> QED BY <1>5, <1>7, <1>8, ReadListInv DEF AloneInv

\* An update of an entry's check run is seen in no other pipeline's.
LEMMA ApplyAlone ==
    ASSUME AloneInv, NEW h \in Replicas, NEW e \in todo[h], Apply(e),
           UNCHANGED <<status, checkState, checkRunID>>
    PROVE  Recorded'
<1>1. e \in Entries /\ e.run <= Len(runs) /\ e.p \in Pipelines
  BY DEF AloneInv, Inv, Type, Known, Entries
<1>2. e.run = checkRunID[e.p] /\ checkState[e.p] \notin Ended BY DEF AloneInv, Current
<1>3. ASSUME NEW p \in Pipelines, checkRunID[p] # 0
      PROVE  runs'[checkRunID[p]].of = p /\ (p # e.p => runs'[checkRunID[p]] = runs[checkRunID[p]])
  <2>1. checkRunID[p] \in 1 .. Len(runs) BY <1>3 DEF AloneInv, Inv, Type, Known
  <2>2. CASE p = e.p
    <3>1. RunOf(e) = checkRunID[p] BY <1>2, <1>3, <2>2 DEF RunOf
    <3> QED BY <1>1, <2>2, <3>1, ApplyEffect DEF AloneInv, Inv
  <2>3. CASE p # e.p
    <3>1. runs[checkRunID[p]].of = p BY <1>3 DEF AloneInv, Recorded
    <3>2. e.run # 0 => runs[e.run].of = e.p BY <1>1, <1>2 DEF AloneInv, Recorded
    <3>3. checkRunID[p] # RunOf(e) BY <2>1, <2>3, <3>1, <3>2, RunTypes DEF RunOf, AloneInv, Inv
    <3>4. runs'[checkRunID[p]] = runs[checkRunID[p]]
      BY <1>1, <2>1, <3>3, ApplyEffect DEF AloneInv, Inv
    <3> QED BY <3>1, <3>4
  <2> QED BY <2>2, <2>3
<1> QED BY <1>2, <1>3 DEF AloneInv, Recorded, Shows

LEMMA CheckAlone ==
    ASSUME Alone, AloneInv, NEW h \in Replicas, NEW p \in Pipelines, Check(h, p)
    PROVE  AloneInv'
<1>1. PICK e \in todo[h] : /\ Apply(e) /\ answered' = [answered EXCEPT ![h] = RunOf(e)]
                           /\ e = NextEntry(h)
  BY DEF Check, Calls
<1>2. UNCHANGED <<status, checkState, checkRunID, todo>> BY DEF Check, storeVars, lifecycleVars
<1>3. e \in Entries /\ e.run <= Len(runs) BY DEF AloneInv, Inv, Type, Known
<1>4. NextEntry(h)' = e BY <1>1, <1>2 DEF NextEntry
<1>5. answered'[h] = RunOf(e) BY <1>1 DEF AloneInv, Inv, Type
<1>6. Answer'
  <2>1. e.run # 0 => RunOf(e) = e.run BY DEF RunOf
  <2>2. runs'[RunOf(e)].of = e.p /\ runs'[RunOf(e)].shows = Conclusion(e.status)
    BY <1>1, <1>3, ApplyEffect DEF AloneInv, Inv
  <2> QED BY <1>2, <1>4, <1>5, <2>1, <2>2 DEF Alone, Answer
<1>7. Current' BY <1>2 DEF AloneInv, Current
<1>8. Recorded' BY <1>1, <1>2, ApplyAlone
<1> QED BY <1>6, <1>7, <1>8, CheckInv DEF AloneInv

LEMMA CheckFailsAlone ==
    ASSUME Alone, AloneInv, NEW h \in Replicas, CheckFails(h)
    PROVE  AloneInv'
<1>1. PICK e \in todo[h] : Drop(h, e) /\ (UNCHANGED runs \/ Apply(e)) BY DEF CheckFails
<1>2. UNCHANGED <<status, checkState, checkRunID>> BY DEF CheckFails, storeVars, lifecycleVars
<1>3. todo'[h] \subseteq todo[h] /\ answered'[h] = 0 BY <1>1, DropEffect DEF AloneInv
<1>4. Answer' BY <1>3 DEF Alone, Answer
<1>5. Current' BY <1>2, <1>3 DEF Alone, AloneInv, Current
<1>6. Recorded'
  <2>1. CASE UNCHANGED runs BY <1>2, <2>1 DEF AloneInv, Recorded, Shows
  <2>2. CASE Apply(e) BY <1>2, <2>2, ApplyAlone
  <2> QED BY <1>1, <2>1, <2>2
<1> QED BY <1>4, <1>5, <1>6, CheckFailsInv DEF AloneInv

LEMMA RecordCheckAlone ==
    ASSUME Alone, AloneInv, NEW h \in Replicas, NEW p \in Pipelines, RecordCheck(h, p)
    PROVE  AloneInv'
<1>1. PICK e \in todo[h] :
         /\ e.p = p /\ answered[h] # 0 /\ e = NextEntry(h) /\ Drop(h, e)
         /\ IF p \in Retained
            THEN /\ checkRunID' = [checkRunID EXCEPT ![p] = answered[h]]
                 /\ checkState' = [checkState EXCEPT ![p] = e.status]
            ELSE UNCHANGED <<checkRunID, checkState>>
  BY DEF RecordCheck, RecordedState
<1>2. UNCHANGED <<status, runs>> BY DEF RecordCheck, lifecycleVars
<1>3. todo'[h] = todo[h] \ {e} /\ answered'[h] = 0 BY <1>1, DropEffect DEF AloneInv
<1>4. Answer' BY <1>3 DEF Alone, Answer
<1>5. \A q \in Pipelines \ {p} : checkRunID'[q] = checkRunID[q] /\ checkState'[q] = checkState[q]
  BY <1>1 DEF AloneInv, Inv, Type
<1>6. Current'
  <2>1. \A f \in todo'[h] : f \in todo[h] /\ f.p # p /\ f.p \in Pipelines
    BY <1>1, <1>3 DEF AloneInv, Current, Inv, Type, Entries
  <2>2. \A f \in todo'[h] : checkRunID'[f.p] = checkRunID[f.p] /\ checkState'[f.p] = checkState[f.p]
    BY <1>5, <2>1
  <2> QED BY <1>2, <2>1, <2>2 DEF Alone, AloneInv, Current
<1>7. ASSUME NEW q \in Pipelines
      PROVE  /\ checkRunID'[q] # 0 => runs[checkRunID'[q]].of = q /\ status[q] # "NONE"
             /\ checkState'[q] \in Ended =>
                   /\ status[q] \in {checkState'[q], "PRUNED"}
                   /\ checkRunID'[q] # 0 /\ runs[checkRunID'[q]].shows = Conclusion(checkState'[q])
  <2>1. CASE q # p \/ p \notin Retained
    <3>1. checkRunID'[q] = checkRunID[q] /\ checkState'[q] = checkState[q] BY <1>1, <1>5, <2>1
    <3> QED BY <3>1 DEF AloneInv, Recorded, Shows
  <2>2. CASE q = p /\ p \in Retained
    <3>1. checkRunID'[q] = answered[h] /\ checkState'[q] = e.status
      BY <1>1, <2>2 DEF AloneInv, Inv, Type
    <3>2. runs[answered[h]].of = q /\ runs[answered[h]].shows = Conclusion(e.status)
      BY <1>1, <2>2 DEF AloneInv, Answer
    <3>3. status[q] # "NONE" BY <2>2 DEF Retained
    <3>4. e.status \in Ended => status[q] \in {e.status, "PRUNED"}
      BY <1>1, <2>2 DEF AloneInv, Inv, Honest
    <3> QED BY <1>1, <3>1, <3>2, <3>3, <3>4
  <2> QED BY <2>1, <2>2
<1>8. Recorded' BY <1>2, <1>7 DEF Recorded, Shows
<1> QED BY <1>4, <1>6, <1>8, RecordCheckInv DEF AloneInv

LEMMA StopAlone ==
    ASSUME Alone, AloneInv, NEW h \in Replicas, RecordFails(h) \/ Restart(h)
    PROVE  AloneInv'
<1>1. UNCHANGED <<status, checkState, checkRunID, runs>>
  BY DEF RecordFails, Restart, storeVars, lifecycleVars
<1>2. todo'[h] \subseteq todo[h] /\ answered'[h] = 0
  <2>1. CASE RecordFails(h) BY <2>1, DropEffect DEF RecordFails, AloneInv
  <2>2. CASE Restart(h) BY <2>2 DEF Restart, AloneInv, Inv, Type
  <2> QED BY <2>1, <2>2
<1>3. Answer' BY <1>2 DEF Alone, Answer
<1>4. Current' BY <1>1, <1>2 DEF Alone, AloneInv, Current
<1>5. Recorded' BY <1>1 DEF AloneInv, Recorded, Shows
<1> QED BY <1>3, <1>4, <1>5, RecordFailsInv, RestartInv DEF AloneInv

LEMMA UnchangedAlone == AloneInv /\ UNCHANGED vars => AloneInv'
<1> SUFFICES ASSUME AloneInv, UNCHANGED vars PROVE AloneInv' OBVIOUS
<1>1. UNCHANGED <<status, checkState, checkRunID, runs, todo, answered>>
  BY DEF vars, storeVars, loopVars, lifecycleVars
<1>2. \A h \in Replicas : NextEntry(h)' = NextEntry(h) BY <1>1 DEF NextEntry
<1>3. Current' /\ Recorded' BY <1>1 DEF AloneInv, Current, Recorded, Shows
<1>4. Answer' BY <1>1, <1>2 DEF AloneInv, Answer
<1> QED BY <1>3, <1>4, NextInv DEF AloneInv

LEMMA NextAlone ==
    ASSUME Alone
    PROVE  AloneInv /\ [ChecksNext]_vars => AloneInv'
BY UnchangedAlone, PipelineStepAlone, ReadListAlone, CheckAlone, CheckFailsAlone, RecordCheckAlone,
   StopAlone DEF ChecksNext, Round

THEOREM AloneInvariantHolds == ASSUME Alone PROVE ChecksSpec => []AloneInv
BY InitAlone, NextAlone, PTL DEF ChecksSpec

\* With one replica, a pipeline whose end is recorded as reported, and which no later
\* round therefore looks at, has a check run that shows the end, whatever calls failed
\* or lost their answers and however often the replica was stopped (loops in
\* cmd/api/main.go).
THEOREM NothingReportedIsLost == ASSUME Alone PROVE ChecksSpec => []ReportedIsShown
<1>1. AloneInv => ReportedIsShown
  <2> SUFFICES ASSUME AloneInv, NEW p \in Retained, IsOver(p), checkState[p] = status[p]
               PROVE  ~Shows(p, "in_progress") /\ checkRunID[p] # 0
    BY DEF ReportedIsShown
  <2>1. p \in Pipelines /\ checkState[p] \in Ended BY DEF Retained, IsOver, Ended
  <2>2. Shows(p, Conclusion(checkState[p])) BY <2>1 DEF AloneInv, Recorded
  <2> QED BY <2>1, <2>2 DEF Shows, Conclusion, Ended
<1> QED BY <1>1, AloneInvariantHolds, PTL

-----------------------------------------------------------------------------
(* Counting the check runs. *)

LEMMA MadeIsFinite ==
    ASSUME IsFiniteSet(Created)
    PROVE  /\ IsFiniteSet(Made) /\ Cardinality(Made) \in Nat
           /\ Cardinality(Made) <= Cardinality(Created) /\ Cardinality(Created) \in Nat
BY FS_Subset, FS_CardinalityType DEF Made

\* The count is kept by a step that loses no pipeline of Made and creates no more
\* check runs than it counts mishaps.
LEMMA CountedFromGrowth ==
    ASSUME Inv, Inv', Counted, IsFiniteSet(Created'), Made \subseteq Made',
           Len(runs') - Len(runs) <= mishaps' - mishaps
    PROVE  Counted'
<1>1. IsFiniteSet(Made) /\ Cardinality(Made) \in Nat BY MadeIsFinite DEF Counted
<1>2. IsFiniteSet(Made') /\ Cardinality(Made') \in Nat BY FS_Subset, FS_CardinalityType DEF Made
<1>3. Cardinality(Made) <= Cardinality(Made') BY <1>2, FS_Subset
<1>4. Len(runs) \in Nat /\ Len(runs') \in Nat /\ mishaps \in Nat /\ mishaps' \in Nat
  BY DEF Inv, Type
<1> QED BY <1>1, <1>2, <1>3, <1>4 DEF Counted

LEMMA InitCounted == ChecksInit => Counted
<1> SUFFICES ASSUME ChecksInit PROVE Counted OBVIOUS
<1>1. Created = {} BY DEF ChecksInit, LifecycleInit, Created
<1>2. IsFiniteSet(Created) BY <1>1, FS_EmptySet
<1>3. Len(runs) = 0 /\ mishaps = 0 BY DEF ChecksInit
<1> QED BY <1>2, <1>3, MadeIsFinite DEF Counted

LEMMA PipelineStepCounted ==
    ASSUME AloneInv, Counted, PipelineStep
    PROVE  Counted'
<1>1. Onward BY LifecycleStep DEF AloneInv, Inv, PipelineStep
<1>2. UNCHANGED <<checkState, checkRunID, runs, todo, answered, mishaps>>
  BY DEF PipelineStep, loopVars
<1>3. \A h \in Replicas : NextEntry(h)' = NextEntry(h) BY <1>2 DEF NextEntry
<1>4. IsFiniteSet(Created')
  <2>1. PICK q : Created' \subseteq Created \cup {q}
    BY LifecycleCreates DEF PipelineStep, AloneInv, Inv
  <2>2. IsFiniteSet(Created \cup {q}) BY FS_AddElement DEF Counted
  <2> QED BY <2>1, <2>2, FS_Subset
<1>5. Made \subseteq Made' BY <1>1, <1>2, <1>3 DEF Made, Created, Onward
<1>6. Len(runs') - Len(runs) <= mishaps' - mishaps BY <1>2, RunTypes DEF AloneInv, Inv, Type
<1> QED BY <1>4, <1>5, <1>6, CountedFromGrowth, PipelineStepInv DEF AloneInv

LEMMA ReadListCounted ==
    ASSUME Alone, AloneInv, Counted, NEW h \in Replicas, ReadList(h)
    PROVE  Counted'
<1>1. UNCHANGED <<status, checkRunID, runs, answered, mishaps>>
  BY DEF ReadList, storeVars, lifecycleVars
<1>2. answered[h] = 0 BY DEF ReadList, Idle, AloneInv, Answer
<1>3. ASSUME NEW e \in todo'[h] PROVE status[e.p] # "PRUNED"
  <2>1. PICK p \in Listed : e = [p |-> p, status |-> status[p], run |-> checkRunID[p]]
    BY DEF ReadList, AloneInv, Inv, Type
  <2> QED BY <2>1 DEF Listed, Retained
<1>4. Made \subseteq Made' BY <1>1, <1>2, <1>3 DEF Alone, Made, Created
<1>5. Len(runs') - Len(runs) <= mishaps' - mishaps BY <1>1, RunTypes DEF AloneInv, Inv, Type
<1>6. Created' = Created BY <1>1 DEF Created
<1> QED BY <1>4, <1>5, <1>6, CountedFromGrowth, ReadListInv DEF AloneInv, Counted

LEMMA CheckCounted ==
    ASSUME Alone, AloneInv, Counted, NEW h \in Replicas, NEW p \in Pipelines, Check(h, p)
    PROVE  Counted'
<1>1. PICK e \in todo[h] : /\ Apply(e) /\ answered' = [answered EXCEPT ![h] = RunOf(e)]
                           /\ e = NextEntry(h) /\ e.p = p /\ answered[h] = 0
  BY DEF Check, Calls
<1>2. UNCHANGED <<status, checkRunID, todo, mishaps>> BY DEF Check, storeVars, lifecycleVars
<1>3. e \in Entries /\ e.run <= Len(runs) BY DEF AloneInv, Inv, Type, Known
<1>4. e.run = checkRunID[p] /\ status[p] # "NONE" /\ p \notin Manual
  BY <1>1, <1>3 DEF AloneInv, Current, Entries
<1>5. Created' = Created /\ p \in Created BY <1>2, <1>4 DEF Created
<1>6. Made \subseteq Made' BY <1>1, <1>2, <1>5 DEF Alone, Made
<1>7. CASE e.run # 0
  <2>1. Len(runs') = Len(runs) BY <1>1, <1>3, <1>7, ApplyEffect DEF AloneInv, Inv
  <2>2. Len(runs') - Len(runs) <= mishaps' - mishaps BY <1>2, <2>1, RunTypes DEF AloneInv, Inv, Type
  <2> QED BY <1>5, <1>6, <2>2, CountedFromGrowth, CheckInv DEF AloneInv, Counted
<1>8. CASE e.run = 0
  <2>1. Len(runs') = Len(runs) + 1 BY <1>1, <1>3, <1>8, ApplyEffect DEF AloneInv, Inv
  <2>2. p \notin Made BY <1>1, <1>4, <1>8 DEF Alone, Made
  <2>3. answered'[h] # 0
    <3>1. answered'[h] = RunOf(e) BY <1>1 DEF AloneInv, Inv, Type
    <3>2. RunOf(e) \in 1 .. Len(runs') BY <1>1, <1>3, ApplyEffect DEF AloneInv, Inv
    <3> QED BY <3>1, <3>2
  <2>4. NextEntry(h)' = e BY <1>1, <1>2 DEF NextEntry
  <2>5. p \in Made' BY <1>1, <1>5, <2>3, <2>4 DEF Made
  <2>6. IsFiniteSet(Made) /\ Cardinality(Made) \in Nat BY MadeIsFinite DEF Counted
  <2>7. Cardinality(Made \cup {p}) = Cardinality(Made) + 1 BY <2>2, <2>6, FS_AddElement
  <2>8. IsFiniteSet(Made') BY <1>5, FS_Subset DEF Made, Counted
  <2>9. Cardinality(Made \cup {p}) <= Cardinality(Made') /\ Cardinality(Made') \in Nat
    BY <1>6, <2>5, <2>8, FS_Subset, FS_CardinalityType
  <2>10. Len(runs) \in Nat /\ mishaps \in Nat BY DEF AloneInv, Inv, Type
  <2> QED BY <1>2, <1>5, <2>1, <2>6, <2>7, <2>9, <2>10 DEF Counted
<1> QED BY <1>7, <1>8

LEMMA CheckFailsCounted ==
    ASSUME Alone, AloneInv, Counted, NEW h \in Replicas, CheckFails(h)
    PROVE  Counted'
<1>1. PICK e \in todo[h] : /\ answered[h] = 0 /\ Drop(h, e)
                           /\ \/ UNCHANGED <<runs, mishaps>>
                              \/ Apply(e) /\ IF Post(e) THEN Mishap ELSE UNCHANGED mishaps
  BY DEF CheckFails, Calls
<1>2. UNCHANGED <<status, checkRunID>> BY DEF CheckFails, storeVars, lifecycleVars
<1>3. e \in Entries /\ e.run <= Len(runs) BY DEF AloneInv, Inv, Type, Known
<1>4. todo'[h] \subseteq todo[h] /\ answered'[h] = 0 BY <1>1, DropEffect DEF AloneInv
<1>5. Created' = Created BY <1>2 DEF Created
<1>6. Made \subseteq Made' BY <1>1, <1>2, <1>4, <1>5 DEF Alone, Made
<1>7. Len(runs') - Len(runs) <= mishaps' - mishaps
  <2>0. Len(runs) \in Nat /\ mishaps \in Nat BY DEF AloneInv, Inv, Type
  <2>1. CASE UNCHANGED <<runs, mishaps>> BY <2>0, <2>1
  <2>2. CASE Apply(e) /\ IF Post(e) THEN Mishap ELSE UNCHANGED mishaps
    BY <1>3, <2>0, <2>2, ApplyEffect DEF AloneInv, Inv, Mishap
  <2> QED BY <1>1, <2>1, <2>2
<1> QED BY <1>5, <1>6, <1>7, CountedFromGrowth, CheckFailsInv DEF AloneInv, Counted

LEMMA RecordCheckCounted ==
    ASSUME Alone, AloneInv, Counted, NEW h \in Replicas, NEW p \in Pipelines, RecordCheck(h, p)
    PROVE  Counted'
<1>1. PICK e \in todo[h] :
         /\ e.p = p /\ answered[h] # 0 /\ e = NextEntry(h) /\ Drop(h, e)
         /\ IF p \in Retained THEN checkRunID' = [checkRunID EXCEPT ![p] = answered[h]]
                              ELSE UNCHANGED checkRunID
  BY DEF RecordCheck
<1>2. UNCHANGED <<status, runs, mishaps>> BY DEF RecordCheck, lifecycleVars
<1>3. todo'[h] = todo[h] \ {e} BY <1>1, DropEffect DEF AloneInv
<1>4. \A f \in todo'[h] : f \in todo[h] /\ f.p # p BY <1>1, <1>3 DEF AloneInv, Current
<1>5. Created' = Created BY <1>2 DEF Created
<1>6. ASSUME NEW q \in Made PROVE q \in Made'
  <2>0. q \in Created /\ q \in Pipelines /\ status[q] # "NONE" BY DEF Made, Created
  <2>1. CASE q = p /\ p \in Retained
    <3>1. checkRunID'[q] = answered[h] BY <1>1, <2>0, <2>1 DEF AloneInv, Inv, Type
    <3> QED BY <1>1, <1>5, <2>0, <3>1 DEF Made
  <2>2. CASE q = p /\ p \notin Retained
    <3>1. status'[q] = "PRUNED" BY <1>2, <2>0, <2>2 DEF Retained
    <3> QED BY <1>4, <1>5, <2>0, <2>2, <3>1 DEF Alone, Made
  <2>3. CASE q # p
    <3>1. checkRunID'[q] = checkRunID[q] BY <1>1, <2>0, <2>3 DEF AloneInv, Inv, Type
    <3> QED BY <1>1, <1>2, <1>4, <1>5, <2>0, <2>3, <3>1 DEF Alone, Made
  <2> QED BY <2>1, <2>2, <2>3
<1>7. Len(runs') - Len(runs) <= mishaps' - mishaps BY <1>2, RunTypes DEF AloneInv, Inv, Type
<1> QED BY <1>5, <1>6, <1>7, CountedFromGrowth, RecordCheckInv DEF AloneInv, Counted

\* A replica that stops, or whose transaction fails, counts a mishap when it knew of a
\* check run that is not recorded.
LEMMA StopCounted ==
    ASSUME Alone, AloneInv, Counted, NEW h \in Replicas, RecordFails(h) \/ Restart(h)
    PROVE  Counted'
<1>1. UNCHANGED <<status, checkRunID, runs>> BY DEF RecordFails, Restart, storeVars, lifecycleVars
<1>2. /\ todo'[h] \subseteq todo[h]
      /\ IF answered[h] # 0 /\ NextEntry(h).run = 0 THEN Mishap ELSE UNCHANGED mishaps
  <2>1. CASE RecordFails(h) BY <2>1, DropEffect DEF RecordFails, AloneInv
  <2>2. CASE Restart(h) BY <2>2 DEF Restart, AloneInv, Inv, Type
  <2> QED BY <2>1, <2>2
<1>3. Created' = Created BY <1>1 DEF Created
<1>4. Inv /\ Inv' BY RecordFailsInv, RestartInv DEF AloneInv
<1>5. Len(runs) \in Nat /\ mishaps \in Nat BY DEF AloneInv, Inv, Type
<1>6. CASE answered[h] # 0 /\ NextEntry(h).run = 0
  <2> DEFINE p == NextEntry(h).p
  <2>1. Made \subseteq Made' \cup {p} BY <1>1, <1>2, <1>3 DEF Alone, Made
  <2> HIDE DEF p
  <2>2. IsFiniteSet(Made') /\ Cardinality(Made') \in Nat
    BY <1>3, FS_Subset, FS_CardinalityType DEF Made, Counted
  <2>3. /\ IsFiniteSet(Made' \cup {p}) /\ Cardinality(Made' \cup {p}) \in Nat
        /\ Cardinality(Made' \cup {p}) <= Cardinality(Made') + 1
    <3>1. /\ IsFiniteSet(Made' \cup {p})
          /\ Cardinality(Made' \cup {p}) \in {Cardinality(Made'), Cardinality(Made') + 1}
      BY <2>2, FS_AddElement
    <3> QED BY <2>2, <3>1
  <2>4. Cardinality(Made) <= Cardinality(Made' \cup {p}) /\ Cardinality(Made) \in Nat
    BY <2>1, <2>3, FS_Subset, FS_CardinalityType
  <2>5. mishaps' = mishaps + 1 BY <1>2, <1>6 DEF Mishap
  <2> QED BY <1>1, <1>3, <1>5, <2>2, <2>3, <2>4, <2>5 DEF Counted
<1>7. CASE ~(answered[h] # 0 /\ NextEntry(h).run = 0)
  <2>1. answered[h] # 0 => checkRunID[NextEntry(h).p] # 0
    BY <1>7 DEF AloneInv, Answer, Current
  <2>2. Made \subseteq Made' BY <1>1, <1>2, <1>3, <2>1 DEF Alone, Made
  <2>3. Len(runs') - Len(runs) <= mishaps' - mishaps BY <1>1, <1>2, <1>5, <1>7
  <2> QED BY <1>3, <1>4, <2>2, <2>3, CountedFromGrowth DEF Counted
<1> QED BY <1>6, <1>7

LEMMA UnchangedCounted == Counted /\ UNCHANGED vars => Counted'
<1> SUFFICES ASSUME Counted, UNCHANGED vars PROVE Counted' OBVIOUS
<1>1. UNCHANGED <<status, checkRunID, runs, todo, answered, mishaps>>
  BY DEF vars, storeVars, loopVars, lifecycleVars
<1>2. \A h \in Replicas : NextEntry(h)' = NextEntry(h) BY <1>1 DEF NextEntry
<1>3. Created' = Created BY <1>1 DEF Created
<1>4. Made' = Made BY <1>1, <1>2, <1>3 DEF Made
<1> QED BY <1>1, <1>3, <1>4 DEF Counted

LEMMA NextCounted ==
    ASSUME Alone
    PROVE  AloneInv /\ Counted /\ [ChecksNext]_vars => Counted'
BY UnchangedCounted, PipelineStepCounted, ReadListCounted, CheckCounted, CheckFailsCounted,
   RecordCheckCounted, StopCounted DEF ChecksNext, Round

\* With one replica, no more check runs are created than there are pipelines, but for
\* those that could not be recorded, although every round starts from the list again
\* (App.Check in internal/github/app.go).
THEOREM NoNeedlessRuns == ASSUME Alone PROVE ChecksSpec => []OneRunPerMishap
<1>1. Inv /\ Counted => OneRunPerMishap
  <2> SUFFICES ASSUME Inv, Counted PROVE OneRunPerMishap OBVIOUS
  <2>1. Len(runs) \in Nat /\ mishaps \in Nat BY DEF Inv, Type
  <2>2. Len(runs) <= Cardinality(Created) + mishaps BY <2>1, MadeIsFinite DEF Counted
  <2> QED BY <2>2 DEF OneRunPerMishap, Created
<1>2. ChecksSpec => []Counted
  BY InitCounted, NextCounted, AloneInvariantHolds, PTL DEF ChecksSpec
<1> QED BY <1>1, <1>2, InvariantHolds, PTL
=============================================================================
