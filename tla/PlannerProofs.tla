---------------------------- MODULE PlannerProofs ----------------------------
(***************************************************************************)
(* The planner accepts exactly the pipelines whose dependencies have no    *)
(* cycle and orders them in one way, and the preview of an accepted one    *)
(* runs the image it built: for any jobs, dependencies and attempts.       *)
(***************************************************************************)
EXTENDS ImageBuild, FiniteSetTheorems, TLAPS

-----------------------------------------------------------------------------
(* The inductive invariant of the planner. *)

Placed == {order[i] : i \in DOMAIN order}
Before(i) == {order[k] : k \in 1 .. i - 1}
Possible(B) == {j \in Jobs \ B : Needed(j) \subseteq B}
CyclicSet(S) == \A j \in S : Needed(j) \cap S # {}

PlanTypeOK ==
    /\ spec \in Submissions
    /\ order \in Seq(Jobs)
    /\ outcome \in {"check", "sort", "rejected", "accepted"}

WellFormed == Admitted /\ Executable /\ \A j \in Jobs : ~Malformed(j)

\* No job is placed twice, and what a placed job needs is placed; no cycle is entered.
Sound ==
    /\ Placed \subseteq Jobs /\ Cardinality(Placed) = Len(order)
    /\ \A j \in Placed : Needed(j) \subseteq Placed
    /\ \A S \in SUBSET Jobs : CyclicSet(S) => S \cap Placed = {}

\* The counters are the dependencies not yet placed, and ready is who has none.
Counters ==
    /\ indegree \in [Jobs -> Int]
    /\ \A j \in Jobs : indegree[j] = Cardinality(Needed(j) \ Placed)
    /\ ready = Possible(Placed)

\* Every place was taken by the smallest name that could take it.
Canonical ==
    \A i \in 1 .. Len(order) : /\ order[i] \in Possible(Before(i))
                               /\ \A j \in Possible(Before(i)) : order[i] <= j

PlanInv ==
    /\ PlanTypeOK
    /\ outcome = "check" => order = << >>
    /\ outcome \in {"sort", "accepted"} => WellFormed /\ Sound /\ Canonical
    /\ outcome = "sort" => Counters
    /\ outcome = "accepted" => Placed = Jobs
    /\ outcome = "rejected" => AcceptsExactlyDAGs

-----------------------------------------------------------------------------
(* The inductive invariant of the build. *)

BuildTypeOK ==
    /\ job \in [Jobs -> {"QUEUED", "ACTIVE", "SUCCEEDED", "FAILED"}]
    /\ digests \in [Jobs -> Seq(Int)]
    /\ winner \in [Jobs -> Nat]

\* Nothing is built before the pipeline is accepted; a preview has an image when all
\* jobs have succeeded, and not before.
Staged ==
    /\ outcome # "accepted" => \A j \in Jobs : job[j] = "QUEUED"
    /\ image # NoPreview => \A j \in Jobs : job[j] = "SUCCEEDED"

\* A job's success is that of its last attempt, whose digest is of what it pushed.
Built == \A j \in Jobs :
    /\ job[j] \in {"ACTIVE", "SUCCEEDED"} => Len(digests[j]) > 0
    /\ job[j] = "SUCCEEDED" =>
          /\ winner[j] = Len(digests[j])
          /\ Builds(j) => digests[j][Len(digests[j])] = winner[j] /\ winner[j] \in pushed

Inv == PlanInv /\ BuildTypeOK /\ Staged /\ Built /\ PreviewRunsTheBuild

-----------------------------------------------------------------------------
(* The operators of the planner. *)

LEMMA MinIsSmallest ==
    ASSUME NEW S, S \subseteq Nat, S # {}
    PROVE  Min(S) \in S /\ \A y \in S : Min(S) <= y
<1>1. \E x \in S : \A y \in S : ~(<<y, x>> \in OpToRel(<, Nat)) BY WFMin, NatLessThanWellFounded
<1>2. PICK x \in S : \A y \in S : ~(<<y, x>> \in OpToRel(<, Nat)) BY <1>1
<1>3. ASSUME NEW y \in S PROVE x <= y
  <2>1. <<y, x>> \in Nat \X Nat /\ <<y, x>>[1] = y /\ <<y, x>>[2] = x OBVIOUS
  <2>2. ~(y < x) BY <1>2, <2>1 DEF OpToRel
  <2> QED BY <2>2
<1> QED BY <1>3 DEF Min

\* A list of dependencies that is well formed names as many jobs as it has entries.
LEMMA NeedsFacts ==
    ASSUME spec \in Submissions, NEW j \in Jobs, ~Malformed(j)
    PROVE  /\ Needed(j) \subseteq Jobs /\ j \notin Needed(j) /\ IsFiniteSet(Needed(j))
           /\ Cardinality(Needed(j)) = Len(Needs(j))
           /\ Needs(j) = << >> <=> Needed(j) = {}
<1>1. Needed(j) \subseteq Jobs /\ j \notin Needed(j) /\ Cardinality(Needed(j)) = Len(Needs(j))
  BY DEF Malformed
<1>2. IsFiniteSet(Needed(j)) BY <1>1, JobsAssumption, FS_Subset
<1>3. Needs(j) \in Lists
  <2>1. spec.needs \in [Jobs -> Lists] BY JobsAssumption
  <2> QED BY <2>1 DEF Needs
<1>4. PICK n \in 0 .. MaxNeeds : Needs(j) \in [1 .. n -> Names] BY <1>3 DEF Lists
<1>5. n \in Nat BY JobsAssumption
<1>6. DOMAIN Needs(j) = 1 .. n /\ Needs(j) \in Seq(Names) BY <1>4, <1>5
<1>7. Needs(j) = << >> => Needed(j) = {} BY DEF Needed
<1>8. Needed(j) = {} => Needs(j) = << >>
  <2> SUFFICES ASSUME Needed(j) = {} PROVE Needs(j) = << >> OBVIOUS
  <2>1. Len(Needs(j)) = 0 BY <1>1, FS_EmptySet
  <2> QED BY <1>6, <2>1
<1> QED BY <1>1, <1>2, <1>7, <1>8

LEMMA PlacedAppend ==
    ASSUME order \in Seq(Jobs), NEW name \in Jobs, order' = Append(order, name)
    PROVE  /\ order' \in Seq(Jobs) /\ Len(order') = Len(order) + 1
           /\ Placed' = Placed \cup {name}
           /\ \A n \in Nat : n = Len(order) + 1 => order'[n] = name /\ Before(n)' = Placed
           /\ \A i \in 1 .. Len(order) : order'[i] = order[i] /\ Before(i)' = Before(i)
<1>1. /\ order' \in Seq(Jobs) /\ Len(order') = Len(order) + 1 /\ Len(order) \in Nat
      /\ order'[Len(order) + 1] = name
      /\ \A i \in 1 .. Len(order) : order'[i] = order[i]
      /\ DOMAIN order = 1 .. Len(order) /\ DOMAIN order' = 1 .. Len(order) + 1
  OBVIOUS
<1>2. 1 .. Len(order) + 1 = (1 .. Len(order)) \cup {Len(order) + 1} BY <1>1
<1>3. Placed' = Placed \cup {name}
  <2>1. Placed' = {order'[i] : i \in (1 .. Len(order)) \cup {Len(order) + 1}}
    BY <1>1, <1>2 DEF Placed
  <2> QED BY <1>1, <2>1 DEF Placed
<1>4. ASSUME NEW i \in 1 .. Len(order) PROVE Before(i)' = Before(i)
  <2>1. \A k \in 1 .. i - 1 : order'[k] = order[k] BY <1>1
  <2> QED BY <2>1 DEF Before
<1>5. ASSUME NEW n \in Nat, n = Len(order) + 1 PROVE Before(n)' = Placed
  <2>1. 1 .. n - 1 = 1 .. Len(order) BY <1>1, <1>5
  <2> QED BY <1>1, <2>1 DEF Before, Placed
<1> QED BY <1>1, <1>3, <1>4, <1>5

-----------------------------------------------------------------------------
(* Every step of the planner preserves PlanInv. *)

LEMMA InitPlan == Init => PlanInv
BY DEF Init, PlanInv, PlanTypeOK

\* What is derived from the submitted pipeline alone changes with it alone.
LEMMA SpecFixes ==
    ASSUME UNCHANGED spec
    PROVE  /\ Admitted' = Admitted /\ Executable' = Executable
           /\ Environments' = Environments /\ Builders' = Builders
           /\ \A j : /\ Needs(j)' = Needs(j) /\ Needed(j)' = Needed(j) /\ Malformed(j)' = Malformed(j)
                     /\ Builds(j)' = Builds(j)
           /\ \A B : Possible(B)' = Possible(B)
           /\ \A S : CyclicSet(S)' = CyclicSet(S)
           /\ Cyclic' = Cyclic
BY DEF Admitted, Executable, WellTyped, Type, Trusted, Environments, Builders, HasImage, Needs, Needed,
       Malformed, Builds, Possible, CyclicSet, Cyclic

LEMMA CheckStep ==
    ASSUME PlanInv, Check
    PROVE  PlanInv'
<1>1. UNCHANGED <<spec, order>> /\ order = << >> /\ spec \in Submissions
  BY DEF Check, PlanInv, PlanTypeOK
<1>2. CASE outcome' = "rejected"
  <2>1. ~Admitted \/ ~Executable \/ \E j \in Jobs : Malformed(j) BY <1>2 DEF Check
  <2>2. ASSUME NEW j \in Jobs, Malformed(j)
        PROVE  Cyclic \/ ~(Needed(j) \subseteq Jobs) \/ Cardinality(Needed(j)) # Len(Needs(j))
    <3>1. j \in Needed(j) => {j} \in (SUBSET Jobs) \ {{}} /\ \A k \in {j} : Needed(k) \cap {j} # {}
      OBVIOUS
    <3> QED BY <2>2, <3>1 DEF Malformed, Cyclic
  <2>3. AcceptsExactlyDAGs'
    BY <1>1, <1>2, <2>1, <2>2, SpecFixes DEF AcceptsExactlyDAGs
  <2> QED BY <1>1, <1>2, <2>3 DEF PlanInv, PlanTypeOK
<1>3. CASE outcome' = "sort"
  <2>1. WellFormed /\ indegree' = [j \in Jobs |-> Len(Needs(j))] /\ ready' = {j \in Jobs : Needs(j) = << >>}
    BY <1>3 DEF Check, WellFormed
  <2>2. Placed' = {} /\ Len(order') = 0 BY <1>1 DEF Placed
  <2>3. WellFormed' BY <1>1, <2>1, SpecFixes DEF WellFormed
  <2>4. Sound' BY <2>2, FS_EmptySet DEF Sound
  <2>5. Canonical' BY <2>2 DEF Canonical
  <2>6. ASSUME NEW j \in Jobs
        PROVE  /\ Len(Needs(j)) \in Int /\ Len(Needs(j)) = Cardinality(Needed(j) \ {})
               /\ Needs(j) = << >> <=> Needed(j) \subseteq {}
    <3>1. ~Malformed(j) BY <2>1 DEF WellFormed
    <3>2. Needed(j) \ {} = Needed(j) OBVIOUS
    <3> QED BY <1>1, <3>1, <3>2, NeedsFacts, FS_CardinalityType
  <2>7. Counters'
    <3>1. indegree' \in [Jobs -> Int] BY <2>1, <2>6
    <3>2. \A j \in Jobs : indegree'[j] = Cardinality(Needed(j)' \ Placed')
      BY <1>1, <2>1, <2>2, <2>6, SpecFixes
    <3>3. ready' = Possible(Placed)' BY <1>1, <2>1, <2>2, <2>6, SpecFixes DEF Possible
    <3> QED BY <3>1, <3>2, <3>3 DEF Counters
  <2> QED BY <1>1, <1>3, <2>3, <2>4, <2>5, <2>7 DEF PlanInv, PlanTypeOK
<1> QED BY <1>2, <1>3 DEF Check

\* The counters after a job has been placed.
LEMMA LessCounts ==
    ASSUME PlanTypeOK, WellFormed, Sound, Counters, NEW name \in ready, NEW k \in Jobs
    PROVE  /\ Less(name)[k] = Cardinality(Needed(k) \ (Placed \cup {name})) /\ Less(name)[k] \in Int
           /\ Less(name)[k] = 0 <=> Needed(k) \subseteq Placed \cup {name}
<1> DEFINE R == Needed(k) \ Placed
<1>1. IsFiniteSet(Needed(k)) BY NeedsFacts DEF PlanTypeOK, WellFormed
<1>2. IsFiniteSet(R) /\ Cardinality(R) \in Nat BY <1>1, FS_Subset, FS_CardinalityType
<1>3. name \notin Placed BY DEF Counters, Possible
<1>4. R \ {name} = Needed(k) \ (Placed \cup {name}) OBVIOUS
<1>5. indegree[k] = Cardinality(R) BY DEF Counters
<1>6. name \in R <=> name \in Needed(k) BY <1>3
<1> HIDE DEF R
<1>7. /\ IsFiniteSet(R \ {name}) /\ Cardinality(R \ {name}) \in Nat
      /\ Cardinality(R \ {name}) = IF name \in R THEN Cardinality(R) - 1 ELSE Cardinality(R)
  BY <1>2, FS_RemoveElement, FS_CardinalityType
<1>8. Less(name)[k] = Cardinality(R \ {name}) BY <1>5, <1>6, <1>7 DEF Less
<1>9. Cardinality(R \ {name}) = 0 <=> R \ {name} = {} BY <1>7, FS_EmptySet
<1> QED BY <1>4, <1>7, <1>8, <1>9

LEMMA SortStep ==
    ASSUME PlanInv, Sort
    PROVE  PlanInv'
<1> DEFINE name == First(ready)
<1>1. /\ PlanTypeOK /\ WellFormed /\ Sound /\ Canonical /\ Counters
      /\ UNCHANGED <<spec, outcome>> /\ outcome = "sort"
  BY DEF Sort, PlanInv
<1>2. /\ order' = Append(order, name) /\ indegree' = Less(name)
      /\ ready' = (ready \ {name}) \cup NowReady(name)
  BY DEF Sort
<1>3. ready = Possible(Placed) /\ ready # {} /\ ready \subseteq Nat
  BY <1>1, JobsAssumption DEF Sort, Counters, Possible
<1>4. name \in ready /\ \A j \in ready : name <= j BY <1>3, MinIsSmallest DEF First
<1> HIDE DEF name
<1>5. name \in Jobs /\ name \notin Placed /\ Needed(name) \subseteq Placed
  BY <1>3, <1>4 DEF Possible
<1>6. /\ order \in Seq(Jobs) /\ Placed' = Placed \cup {name} /\ Len(order') = Len(order) + 1
      /\ order' \in Seq(Jobs) /\ Len(order) \in Nat
  BY <1>1, <1>2, <1>5, PlacedAppend DEF PlanTypeOK
<1>7. Sound'
  <2>1. Placed' \subseteq Jobs /\ IsFiniteSet(Placed)
    BY <1>1, <1>5, <1>6, FS_Subset, JobsAssumption DEF Sound
  <2>2. Cardinality(Placed') = Len(order') BY <1>1, <1>5, <1>6, <2>1, FS_AddElement DEF Sound
  <2>3. \A j \in Placed' : Needed(j) \subseteq Placed' BY <1>1, <1>5, <1>6 DEF Sound
  <2>4. ASSUME NEW S \in SUBSET Jobs, CyclicSet(S) PROVE S \cap Placed' = {}
    <3>1. S \cap Placed = {} BY <1>1, <2>4 DEF Sound
    <3>2. name \notin S BY <1>5, <2>4, <3>1 DEF CyclicSet
    <3> QED BY <1>6, <3>1, <3>2
  <2> QED BY <1>1, <2>1, <2>2, <2>3, <2>4, SpecFixes DEF Sound
<1>8. Canonical'
  <2>1. ASSUME NEW i \in 1 .. Len(order')
        PROVE  order'[i] \in Possible(Before(i)') /\ \A j \in Possible(Before(i)') : order'[i] <= j
    <3>1. CASE i \in 1 .. Len(order)
      <4>1. order'[i] = order[i] /\ Before(i)' = Before(i)
        BY <1>2, <1>5, <1>6, <3>1, PlacedAppend
      <4> QED BY <1>1, <3>1, <4>1 DEF Canonical
    <3>2. CASE i = Len(order) + 1
      <4>1. order'[i] = name /\ Before(i)' = Placed BY <1>2, <1>5, <1>6, <3>2, PlacedAppend
      <4> QED BY <1>3, <1>4, <4>1
    <3> QED BY <1>6, <3>1, <3>2
  <2> QED BY <1>1, <2>1, SpecFixes DEF Canonical
<1>9. Counters'
  <2>1. indegree' \in [Jobs -> Int] BY <1>1, <1>2, <1>4, LessCounts DEF Less
  <2>2. \A k \in Jobs : indegree'[k] = Cardinality(Needed(k) \ Placed')
    BY <1>1, <1>2, <1>4, <1>6, LessCounts
  <2>3. ASSUME NEW k \in Jobs PROVE k \in ready' <=> k \in Possible(Placed')
    <3>1. k \in NowReady(name) <=> name \in Needed(k) /\ Needed(k) \subseteq Placed'
      BY <1>1, <1>4, <1>6, LessCounts DEF NowReady
    <3>2. name \in Needed(k) => k \notin Placed'
      <4>1. name \notin Needed(name) BY <1>1, <1>5, NeedsFacts DEF WellFormed, PlanTypeOK
      <4> QED BY <1>1, <1>5, <1>6, <4>1 DEF Sound
    <3> QED BY <1>2, <1>3, <1>6, <3>1, <3>2 DEF Possible
  <2>4. ready' \subseteq Jobs BY <1>2, <1>3 DEF Possible, NowReady
  <2>5. ready' = Possible(Placed') BY <2>3, <2>4 DEF Possible
  <2> QED BY <1>1, <2>1, <2>2, <2>5, SpecFixes DEF Counters
<1>10. PlanTypeOK' /\ WellFormed' BY <1>1, <1>6, SpecFixes DEF PlanTypeOK, WellFormed
<1> QED BY <1>1, <1>7, <1>8, <1>9, <1>10 DEF PlanInv

LEMMA ReturnStep ==
    ASSUME PlanInv, Return
    PROVE  PlanInv'
<1>1. /\ UNCHANGED <<spec, order>> /\ outcome' = IF Complete THEN "accepted" ELSE "rejected"
      /\ PlanTypeOK /\ WellFormed /\ Sound /\ Canonical /\ Possible(Placed) = {}
  BY DEF Return, PlanInv, Counters
<1>2. IsFiniteSet(Jobs) /\ Placed \subseteq Jobs /\ Cardinality(Placed) = Len(order)
  BY <1>1, JobsAssumption DEF Sound
<1>3. Complete <=> Placed = Jobs BY <1>2, FS_Subset DEF Complete
<1>4. Placed' = Placed BY <1>1 DEF Placed
<1>5. CASE Complete
  <2>1. WellFormed' /\ Sound' /\ Canonical'
    BY <1>1, <1>4, SpecFixes DEF WellFormed, Sound, Canonical, Before
  <2> QED BY <1>1, <1>3, <1>4, <1>5, <2>1 DEF PlanInv, PlanTypeOK
<1>6. CASE ~Complete
  <2> DEFINE S == Jobs \ Placed
  <2>1. S # {} BY <1>2, <1>3, <1>6
  <2>2. ASSUME NEW j \in S PROVE Needed(j) \cap S # {}
    <3>1. ~(Needed(j) \subseteq Placed) BY <1>1 DEF Possible
    <3>2. Needed(j) \subseteq Jobs BY <1>1, NeedsFacts DEF WellFormed, PlanTypeOK
    <3> QED BY <3>1, <3>2
  <2>3. Cyclic BY <2>1, <2>2 DEF Cyclic
  <2>4. AcceptsExactlyDAGs' BY <1>1, <1>6, <2>3, SpecFixes DEF AcceptsExactlyDAGs
  <2> QED BY <1>1, <1>6, <2>4 DEF PlanInv, PlanTypeOK
<1> QED BY <1>5, <1>6

LEMMA UnchangedPlan ==
    ASSUME PlanInv, UNCHANGED plannerVars
    PROVE  PlanInv'
<1>1. UNCHANGED <<spec, indegree, ready, order, outcome>> BY DEF plannerVars
<1>2. Placed' = Placed /\ \A i : Before(i)' = Before(i) BY <1>1 DEF Placed, Before
<1>3. (WellFormed => WellFormed') /\ (Sound => Sound')
  BY <1>1, <1>2, SpecFixes DEF WellFormed, Sound
<1>4. (Counters => Counters') /\ (Canonical => Canonical')
  BY <1>1, <1>2, SpecFixes DEF Counters, Canonical
<1>5. AcceptsExactlyDAGs => AcceptsExactlyDAGs' BY <1>1, SpecFixes DEF AcceptsExactlyDAGs
<1> QED BY <1>1, <1>2, <1>3, <1>4, <1>5 DEF PlanInv, PlanTypeOK

-----------------------------------------------------------------------------
(* Every step of the build preserves Inv. *)

LEMMA InitInv == BuildInit => Inv
<1> SUFFICES ASSUME BuildInit PROVE Inv OBVIOUS
<1>1. PlanInv BY InitPlan DEF BuildInit
<1>2. BuildTypeOK BY DEF BuildInit, BuildTypeOK
<1>3. image = NoPreview /\ Staged BY DEF BuildInit, Staged
<1>4. Built BY DEF BuildInit, Built
<1>5. PreviewRunsTheBuild BY <1>3, JobsAssumption DEF BuildInit, PreviewRunsTheBuild
<1> QED BY <1>1, <1>2, <1>3, <1>4, <1>5 DEF Inv

\* The submitted pipeline stays the same, and an accepted one stays accepted.
LEMMA PlanKeepsSpec == Plan => UNCHANGED spec /\ outcome # "accepted"
BY DEF Plan, Check, Sort, Return

LEMMA PlanStep ==
    ASSUME Inv, Plan, UNCHANGED buildVars
    PROVE  Inv'
<1>1. UNCHANGED <<spec, job, digests, pushed, tag, image, winner>> /\ outcome # "accepted"
  BY PlanKeepsSpec DEF buildVars
<1>2. PlanInv' BY CheckStep, SortStep, ReturnStep DEF Inv, Plan
<1>3. BuildTypeOK' /\ Built' BY <1>1, SpecFixes DEF Inv, BuildTypeOK, Built
<1>4. \A j \in Jobs : job[j] = "QUEUED" BY <1>1 DEF Inv, Staged
<1>5. image = NoPreview BY <1>4, JobsAssumption DEF Inv, Staged
<1>6. Staged' BY <1>1, <1>4, <1>5 DEF Staged
<1>7. PreviewRunsTheBuild' BY <1>1, <1>4, <1>5, JobsAssumption DEF PreviewRunsTheBuild
<1> QED BY <1>2, <1>3, <1>6, <1>7 DEF Inv

\* While a job has still to succeed the preview has no image.
LEMMA NotYet ==
    ASSUME Inv, NEW j \in Jobs, job[j] # "SUCCEEDED"
    PROVE  image = NoPreview
BY DEF Inv, Staged

LEMMA LeaseStep ==
    ASSUME Inv, NEW j \in Jobs, Lease(j)
    PROVE  Inv'
<1>1. UNCHANGED <<spec, outcome, pushed, image, winner>> /\ outcome = "accepted" /\ job[j] = "QUEUED"
  BY DEF Lease, plannerVars, Running
<1>2. PlanInv' BY UnchangedPlan DEF Inv, Lease
<1>3. /\ job' = [job EXCEPT ![j] = "ACTIVE"]
      /\ digests' = [digests EXCEPT ![j] = Append(digests[j], NoDigest)]
  BY DEF Lease
<1>4. BuildTypeOK' BY <1>1, <1>3 DEF Inv, BuildTypeOK, NoDigest
<1>5. image = NoPreview /\ job'[j] # "SUCCEEDED" BY <1>1, <1>3, NotYet DEF Inv, BuildTypeOK
<1>6. Staged' /\ PreviewRunsTheBuild' BY <1>1, <1>5 DEF Staged, PreviewRunsTheBuild
<1>7. ASSUME NEW k \in Jobs
      PROVE  /\ job'[k] \in {"ACTIVE", "SUCCEEDED"} => Len(digests'[k]) > 0
             /\ job'[k] = "SUCCEEDED" =>
                   /\ winner[k] = Len(digests'[k])
                   /\ Builds(k) => digests'[k][Len(digests'[k])] = winner[k] /\ winner[k] \in pushed
  <2>1. CASE k = j
    <3>1. digests[j] \in Seq(Int) BY DEF Inv, BuildTypeOK
    <3>2. digests'[j] = Append(digests[j], NoDigest) BY <1>3 DEF Inv, BuildTypeOK
    <3>3. Len(digests'[j]) = Len(digests[j]) + 1 /\ Len(digests[j]) \in Nat BY <3>1, <3>2
    <3> QED BY <1>5, <2>1, <3>3
  <2>2. CASE k # j
    <3>1. digests'[k] = digests[k] /\ job'[k] = job[k] BY <1>3, <2>2 DEF Inv, BuildTypeOK
    <3> QED BY <3>1 DEF Inv, Built
  <2> QED BY <2>1, <2>2
<1>8. Built' BY <1>1, <1>7, SpecFixes DEF Built
<1> QED BY <1>2, <1>4, <1>6, <1>8 DEF Inv

LEMMA PushStep ==
    ASSUME Inv, NEW j \in Jobs, NEW n \in 1 .. MaxAttempts, Push(j, n)
    PROVE  Inv'
<1>1. UNCHANGED <<spec, outcome, job, digests, image, winner>> /\ pushed' = pushed \cup {n}
  BY DEF Push, plannerVars
<1>2. PlanInv' BY UnchangedPlan DEF Inv, Push
<1>3. BuildTypeOK' /\ Staged' BY <1>1 DEF Inv, BuildTypeOK, Staged
<1>4. Built' BY <1>1, SpecFixes DEF Inv, Built
<1>5. PreviewRunsTheBuild' BY <1>1, SpecFixes DEF Inv, PreviewRunsTheBuild
<1> QED BY <1>2, <1>3, <1>4, <1>5 DEF Inv

LEMMA ExpireStep ==
    ASSUME Inv, NEW j \in Jobs, Expire(j)
    PROVE  Inv'
<1>1. UNCHANGED <<spec, outcome, pushed, image, winner, digests>> /\ outcome = "accepted" /\ job[j] = "ACTIVE"
  BY DEF Expire, plannerVars, Running
<1>2. PlanInv' BY UnchangedPlan DEF Inv, Expire
<1>3. BuildTypeOK' /\ job'[j] \in {"QUEUED", "FAILED"} /\ \A k \in Jobs \ {j} : job'[k] = job[k]
  BY <1>1 DEF Expire, Inv, BuildTypeOK
<1>4. image = NoPreview BY <1>1, NotYet
<1>5. Staged' /\ PreviewRunsTheBuild' BY <1>1, <1>3, <1>4 DEF Staged, PreviewRunsTheBuild
<1>6. Built' BY <1>1, <1>3, SpecFixes DEF Inv, Built
<1> QED BY <1>2, <1>3, <1>5, <1>6 DEF Inv

\* A build that is committed as a success has pushed the image whose digest it reports.
LEMMA CommittedDigest ==
    ASSUME NEW j \in Jobs, NEW success \in BOOLEAN, NEW read \in Read(j, success),
           success, read # BadDigest, ~Refused(j, success, read), Builds(j)
    PROVE  read = Len(digests[j]) /\ read \in pushed
BY DEF Read, Refused

LEMMA ExceptInSeq ==
    ASSUME NEW s \in Seq(Int), NEW n, NEW d \in Int
    PROVE  [s EXCEPT ![n] = d] \in Seq(Int)
<1>1. s \in [1 .. Len(s) -> Int] /\ Len(s) \in Nat OBVIOUS
<1>2. [s EXCEPT ![n] = d] \in [1 .. Len(s) -> Int] BY <1>1
<1> QED BY <1>1, <1>2

LEMMA FinishStep ==
    ASSUME Inv, NEW j \in Jobs, NEW success \in BOOLEAN, NEW read \in Read(j, success),
           Finish(j, success, read)
    PROVE  Inv'
<1> DEFINE ok == success /\ read # BadDigest
           d == IF read = BadDigest THEN NoDigest ELSE read
           n == Len(digests[j])
<1>1. /\ UNCHANGED <<spec, outcome, pushed>> /\ outcome = "accepted" /\ job[j] = "ACTIVE"
      /\ UNCHANGED plannerVars
  BY DEF Finish, plannerVars, Running
<1>2. /\ ~Refused(j, ok, d)
      /\ job' = [job EXCEPT ![j] = IF ok THEN "SUCCEEDED" ELSE "FAILED"]
      /\ digests' = [digests EXCEPT ![j] = [digests[j] EXCEPT ![n] = d]]
      /\ winner' = [winner EXCEPT ![j] = IF ok THEN n ELSE winner[j]]
      /\ image' = IF Environments # {} /\ \A k \in Jobs : job'[k] = "SUCCEEDED"
                  THEN PreviewImage(CHOOSE e \in Environments : TRUE, digests')
                  ELSE image
  BY DEF Finish
<1>3. ok /\ Builds(j) => d = n /\ d \in pushed BY <1>2, CommittedDigest
<1>4. digests[j] \in Seq(Int) /\ n \in Nat /\ n > 0 BY <1>1 DEF Inv, BuildTypeOK, Built
<1>5. d \in Int BY <1>4 DEF Read, NoDigest, BadDigest
<1> HIDE DEF ok, d, n
<1>6. [digests[j] EXCEPT ![n] = d] \in Seq(Int) BY <1>4, <1>5, ExceptInSeq
<1>7. BuildTypeOK' BY <1>2, <1>4, <1>6 DEF Inv, BuildTypeOK
<1>8. /\ job'[j] = (IF ok THEN "SUCCEEDED" ELSE "FAILED")
      /\ digests'[j] = [digests[j] EXCEPT ![n] = d]
      /\ winner'[j] = (IF ok THEN n ELSE winner[j])
      /\ \A k \in Jobs \ {j} : job'[k] = job[k] /\ digests'[k] = digests[k] /\ winner'[k] = winner[k]
  BY <1>2 DEF Inv, BuildTypeOK
<1>9. Len(digests'[j]) = n /\ digests'[j][n] = d BY <1>4, <1>8 DEF n
<1>10. ASSUME NEW k \in Jobs
       PROVE  /\ job'[k] \in {"ACTIVE", "SUCCEEDED"} => Len(digests'[k]) > 0
              /\ job'[k] = "SUCCEEDED" =>
                    /\ winner'[k] = Len(digests'[k])
                    /\ Builds(k) => digests'[k][Len(digests'[k])] = winner'[k] /\ winner'[k] \in pushed
  <2>1. CASE k = j BY <1>3, <1>4, <1>8, <1>9, <2>1
  <2>2. CASE k # j BY <1>8, <2>2 DEF Inv, Built
  <2> QED BY <2>1, <2>2
<1>11. Built' BY <1>1, <1>10, SpecFixes DEF Built
<1>12. PlanInv' BY <1>1, UnchangedPlan DEF Inv
<1>13. image = NoPreview BY <1>1, NotYet
<1>14. CASE Environments # {} /\ \A k \in Jobs : job'[k] = "SUCCEEDED"
  <2> DEFINE e == CHOOSE e \in Environments : TRUE
             b == CHOOSE b \in Jobs : Builds(b)
  <2>1. image' = PreviewImage(e, digests') BY <1>2, <1>14
  <2>2. e \in Environments /\ HasImage(e)
    BY <1>1, <1>14 DEF Inv, PlanInv, WellFormed, Executable
  <2>3. Staged' BY <1>1, <1>14 DEF Staged
  <2>4. CASE spec.jobs[e].environment = "digest"
    <3>1. image' = Explicit /\ image' # NoPreview
      BY <2>1, <2>4 DEF PreviewImage, Explicit, NoPreview
    <3>2. PreviewRunsTheBuild' BY <1>1, <2>2, <2>4, <3>1, SpecFixes DEF PreviewRunsTheBuild
    <3> QED BY <1>7, <1>11, <1>12, <2>3, <3>2 DEF Inv
  <2>5. CASE spec.jobs[e].environment = "built" /\ Cardinality(Builders) = 1
    <3>1. Builders # {} BY <2>5, FS_EmptySet
    <3>2. \A k \in Jobs : WellTyped(k) BY <1>1 DEF Inv, PlanInv, WellFormed, Executable
    <3>3. \E k \in Jobs : Builds(k) BY <3>1, <3>2 DEF Builders, WellTyped, Builds
    <3>4. b \in Jobs /\ Builds(b) BY <3>3
    <3>5. b \in Builders BY <3>2, <3>4 DEF Builders, WellTyped, Builds
    <3>6. image' = digests'[b][Len(digests'[b])]
      BY <2>1, <2>5 DEF PreviewImage, ImageOf
    <3> HIDE DEF b, e
    <3>7. image' = winner'[b] /\ winner'[b] \in pushed' /\ winner'[b] \in Nat
      BY <1>1, <1>7, <1>10, <1>14, <3>4, <3>6 DEF BuildTypeOK
    <3>8. image' # NoPreview BY <3>7 DEF NoPreview
    <3>9. PreviewRunsTheBuild'
      BY <1>1, <2>2, <2>5, <3>5, <3>7, <3>8, SpecFixes DEF PreviewRunsTheBuild
    <3> QED BY <1>7, <1>11, <1>12, <2>3, <3>9 DEF Inv
  <2> QED BY <2>2, <2>4, <2>5 DEF HasImage
<1>15. CASE ~(Environments # {} /\ \A k \in Jobs : job'[k] = "SUCCEEDED")
  <2>1. image' = NoPreview BY <1>2, <1>13, <1>15
  <2>2. Staged' /\ PreviewRunsTheBuild'
    BY <1>1, <1>15, <2>1, SpecFixes DEF Staged, PreviewRunsTheBuild
  <2> QED BY <1>7, <1>11, <1>12, <2>2 DEF Inv
<1> QED BY <1>14, <1>15

LEMMA UnchangedInv == Inv /\ UNCHANGED allVars => Inv'
<1> SUFFICES ASSUME Inv, UNCHANGED allVars PROVE Inv' OBVIOUS
<1>1. UNCHANGED <<spec, outcome, job, digests, pushed, tag, image, winner>> /\ UNCHANGED plannerVars
  BY DEF allVars, plannerVars, buildVars
<1>2. PlanInv' BY <1>1, UnchangedPlan DEF Inv
<1>3. BuildTypeOK' /\ Staged' BY <1>1 DEF Inv, BuildTypeOK, Staged
<1>4. Built' /\ PreviewRunsTheBuild' BY <1>1, SpecFixes DEF Inv, Built, PreviewRunsTheBuild
<1> QED BY <1>2, <1>3, <1>4 DEF Inv

LEMMA NextInv == Inv /\ [Next]_allVars => Inv'
<1> SUFFICES ASSUME Inv, Next PROVE Inv' BY UnchangedInv
<1>1. CASE Plan /\ UNCHANGED buildVars BY <1>1, PlanStep
<1>2. ASSUME NEW j \in Jobs, Lease(j) \/ Expire(j) PROVE Inv' BY <1>2, LeaseStep, ExpireStep
<1>3. ASSUME NEW j \in Jobs, NEW n \in 1 .. MaxAttempts, Push(j, n) PROVE Inv' BY <1>3, PushStep
<1>4. ASSUME NEW j \in Jobs, NEW success \in BOOLEAN, NEW read \in Read(j, success),
             Finish(j, success, read)
      PROVE  Inv'
  BY <1>4, FinishStep
<1>5. CASE Done BY <1>5, UnchangedInv DEF Done
<1> QED BY <1>1, <1>2, <1>3, <1>4, <1>5 DEF Next

-----------------------------------------------------------------------------
(* Theorems. *)

THEOREM InvariantHolds == Spec => []Inv
BY InitInv, NextInv, PTL DEF Spec

\* Whatever its jobs and their dependencies, an executable pipeline is accepted exactly
\* if every dependency is a job of its own, named once, and none leads back to where it
\* started (Validate in internal/planner/planner.go).
THEOREM PlannerIsExact == Spec => []AcceptsExactlyDAGs
<1>1. Inv => AcceptsExactlyDAGs
  <2> SUFFICES ASSUME Inv, outcome = "accepted"
               PROVE  ~Cyclic /\ \A j \in Jobs : Needed(j) \subseteq Jobs
    BY DEF Inv, PlanInv, AcceptsExactlyDAGs
  <2>1. Sound /\ Placed = Jobs /\ WellFormed BY DEF Inv, PlanInv
  <2>2. ~Cyclic BY <2>1 DEF Sound, Cyclic, CyclicSet
  <2>3. \A j \in Jobs : Needed(j) \subseteq Jobs BY <2>1 DEF WellFormed, Malformed
  <2> QED BY <2>2, <2>3
<1> QED BY <1>1, InvariantHolds, PTL

\* The order of an accepted pipeline holds every job once, each after all it needs, and
\* at every place the smallest name that could stand there: no other order does (Validate).
THEOREM OrderIsUnique == Spec => []OrderIsCanonical
<1>1. Inv => OrderIsCanonical
  <2> SUFFICES ASSUME Inv, outcome = "accepted" PROVE OrderIsCanonical BY DEF OrderIsCanonical
  <2>1. Sound /\ Placed = Jobs /\ Canonical /\ order \in Seq(Jobs)
    BY DEF Inv, PlanInv, PlanTypeOK
  <2>2. Len(order) = Cardinality(Jobs) /\ DOMAIN order = 1 .. Len(order) BY <2>1 DEF Sound
  <2> QED BY <2>1, <2>2 DEF OrderIsCanonical, Canonical, Possible, Before, Placed
<1> QED BY <1>1, InvariantHolds, PTL

\* However many attempts a build takes, and whatever lost ones push under its tag, the
\* preview of an accepted pipeline runs its own image or the one its committed attempt
\* pushed (completeLocked and activatePreviewLocked in internal/control).
THEOREM PreviewImageIsTheBuilds == Spec => []PreviewRunsTheBuild
<1>1. Inv => PreviewRunsTheBuild BY DEF Inv
<1> QED BY <1>1, InvariantHolds, PTL
=============================================================================
