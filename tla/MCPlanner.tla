------------------------------ MODULE MCPlanner ------------------------------
(***************************************************************************)
(* All pipelines of three plain jobs with up to two dependencies each, one *)
(* of them possibly unknown; two jobs of every kind before a plain one,    *)
(* side by side and in sequence, in a trusted repository, in one that is   *)
(* not, and from a fork of a trusted one; and a fork that may not run.     *)
(***************************************************************************)
EXTENDS ImageBuild

MCJobs == 1 .. 3
MCNames == 1 .. 4
Plain == [type |-> "command", buildkit |-> FALSE, bounded |-> TRUE, environment |-> "none"]
AllPlain == [j \in MCJobs |-> Plain]
Open == [trusted |-> TRUE, allowForks |-> TRUE]
Closed == [trusted |-> FALSE, allowForks |-> FALSE]
MCSubmissions ==
    {[needs |-> n, jobs |-> AllPlain, fork |-> FALSE, policy |-> Closed] : n \in [MCJobs -> Lists]}
    \cup
    {[needs |-> n, jobs |-> <<s, t, Plain>>, fork |-> x[1], policy |-> x[2]] :
        n \in {<<<< >>, << >>, <<1, 2>>>>, <<<<2>>, << >>, <<1>>>>},
        s \in JobSpec, t \in {u \in JobSpec : u.bounded},
        x \in {<<FALSE, Open>>, <<FALSE, Closed>>, <<TRUE, Open>>}}
    \cup
    {[needs |-> [j \in MCJobs |-> << >>], jobs |-> AllPlain, fork |-> TRUE, policy |-> Closed]}
=============================================================================
