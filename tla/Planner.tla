------------------------------- MODULE Planner -------------------------------
(***************************************************************************)
(* planner.Executable and planner.Validate, as the API calls them: whether *)
(* a submitted pipeline can be run, and the order of its jobs.  Its source *)
(* may be a fork, which the repository's policy allows or not and which is *)
(* never trusted.  Names are numbers that stand for the sorted strings.  A *)
(* check that looks at one value alone (a name, a bound, a path, a port, a *)
(* destination) is part of the flag `bounded' of its job.  The list of jobs*)
(* that are ready is sorted after every change and holds no job twice, so  *)
(* it is a set here and its head is its smallest element.                  *)
(***************************************************************************)
EXTENDS Integers, Sequences, FiniteSets, FiniteSetsExt

CONSTANTS
    Jobs,           \* the names of the pipeline's jobs
    Names,          \* all names a job may ask for
    MaxNeeds,       \* bound on the length of a job's list of dependencies
    Submissions     \* the pipelines that are submitted

Lists == UNION {[1 .. n -> Names] : n \in 0 .. MaxNeeds}

\* A job has a type, perhaps settings for a build and perhaps a preview: of an image
\* given by digest, of one given otherwise, or of the image the pipeline builds.
JobSpec == [type : {"", "command", "buildkit", "other"}, buildkit : BOOLEAN, bounded : BOOLEAN,
            environment : {"none", "digest", "tag", "built"}]

Policy == [trusted : BOOLEAN, allowForks : BOOLEAN]

ASSUME JobsAssumption ==
    /\ Jobs # {} /\ IsFiniteSet(Jobs) /\ Jobs \subseteq Names /\ Names \subseteq Nat
    /\ MaxNeeds \in Nat
    /\ \A s \in Submissions : s \in [needs : [Jobs -> Lists], jobs : [Jobs -> JobSpec],
                                      fork : BOOLEAN, policy : Policy]

VARIABLES
    spec,       \* the pipeline that was submitted
    indegree,   \* [Jobs -> Nat]
    ready,      \* the jobs whose dependencies are all in order
    order,      \* the jobs in order so far
    outcome     \* "check", "sort", then "rejected" or "accepted"

plannerVars == <<spec, indegree, ready, order, outcome>>

Needs(j) == spec.needs[j]
Needed(j) == {Needs(j)[i] : i \in DOMAIN Needs(j)}

\* normalize, and webhook: whose pipelines are looked at, and which may build.
Admitted == spec.fork => spec.policy.allowForks
Trusted == spec.policy.trusted /\ ~spec.fork

\* Executable: the type decides what must be there, and only a trusted repository
\* may build; one build, one preview, and the preview's image given by digest or
\* built by the pipeline.
Type(j) == IF spec.jobs[j].type = "" THEN "command" ELSE spec.jobs[j].type
WellTyped(j) ==
    \/ Type(j) = "command" /\ ~spec.jobs[j].buildkit
    \/ Type(j) = "buildkit" /\ spec.jobs[j].buildkit /\ Trusted
Builders == {j \in Jobs : Type(j) = "buildkit"}
Environments == {j \in Jobs : spec.jobs[j].environment # "none"}
HasImage(j) ==
    \/ spec.jobs[j].environment = "digest"
    \/ spec.jobs[j].environment = "built" /\ Cardinality(Builders) = 1

Executable ==
    /\ \A j \in Jobs : spec.jobs[j].bounded /\ WellTyped(j)
    /\ Cardinality(Environments) <= 1 /\ Cardinality(Builders) <= 1
    /\ \A j \in Environments : HasImage(j)

\* A job that depends on itself, on an unknown job or twice on the same one.
Malformed(j) ==
    \/ j \in Needed(j)
    \/ ~(Needed(j) \subseteq Jobs)
    \/ Cardinality(Needed(j)) # Len(Needs(j))

Init ==
    /\ spec \in Submissions
    /\ indegree = [j \in Jobs |-> 0]
    /\ ready = {}
    /\ order = << >>
    /\ outcome = "check"

Check ==
    /\ outcome = "check"
    /\ \/ /\ ~Admitted \/ ~Executable \/ \E j \in Jobs : Malformed(j)
          /\ outcome' = "rejected"
          /\ UNCHANGED <<indegree, ready>>
       \/ /\ Admitted /\ Executable /\ \A j \in Jobs : ~Malformed(j)
          /\ indegree' = [j \in Jobs |-> Len(Needs(j))]
          /\ ready' = {j \in Jobs : Needs(j) = << >>}
          /\ outcome' = "sort"
    /\ UNCHANGED <<spec, order>>

\* One turn of the loop: the first job that is ready is put in order and no longer
\* holds up the jobs that need it.
Less(j) == [k \in Jobs |-> IF j \in Needed(k) THEN indegree[k] - 1 ELSE indegree[k]]
NowReady(j) == {k \in Jobs : j \in Needed(k) /\ Less(j)[k] = 0}
First_Largest(S) == Max(S)
First(S) == Min(S)

Sort ==
    LET name == First(ready)
    IN  /\ outcome = "sort"
        /\ ready # {}
        /\ order' = Append(order, name)
        /\ indegree' = Less(name)
        /\ ready' = (ready \ {name}) \cup NowReady(name)
        /\ UNCHANGED <<spec, outcome>>

Complete_Unchecked == TRUE
Complete == Len(order) = Cardinality(Jobs)

Return ==
    /\ outcome = "sort"
    /\ ready = {}
    /\ outcome' = IF Complete THEN "accepted" ELSE "rejected"
    /\ UNCHANGED <<spec, indegree, ready, order>>

Plan == Check \/ Sort \/ Return

-----------------------------------------------------------------------------
(* Properties. *)

\* A cycle is a set of jobs each of which needs another one of the set.
Cyclic == \E S \in (SUBSET Jobs) \ {{}} : \A j \in S : Needed(j) \cap S # {}

\* An executable pipeline is accepted exactly if its lists of dependencies are well
\* formed and free of cycles (Validate) and its source is not a fork that may not
\* run here (normalize).
AcceptsExactlyDAGs ==
    /\ outcome = "accepted" => ~Cyclic /\ \A j \in Jobs : Needed(j) \subseteq Jobs
    /\ outcome = "rejected" /\ Admitted /\ Executable =>
          Cyclic \/ \E j \in Jobs : \/ ~(Needed(j) \subseteq Jobs)
                                    \/ Cardinality(Needed(j)) # Len(Needs(j))

\* The order of an accepted pipeline has every job once, after all it needs, and
\* depends on the pipeline alone: each place is taken by the smallest name that
\* can take it.
OrderIsCanonical ==
    outcome = "accepted" =>
        /\ {order[i] : i \in DOMAIN order} = Jobs /\ Len(order) = Cardinality(Jobs)
        /\ \A i \in DOMAIN order :
              LET before == {order[k] : k \in 1 .. i - 1}
                  possible == {j \in Jobs \ before : Needed(j) \subseteq before}
              IN  order[i] \in possible /\ \A j \in possible : order[i] <= j

=============================================================================
