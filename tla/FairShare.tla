----------------------------- MODULE FairShare ------------------------------
(***************************************************************************)
(* JobStore with a history variable that counts, for each tenant that      *)
(* could have been served at every call of ScheduleOne since it was last   *)
(* served, how often each other tenant was served instead.                 *)
(***************************************************************************)
EXTENDS JobStore

VARIABLE overtakes \* [Tenants -> [Tenants -> 0 .. 2]], counting up to 2

Ready(t) == \E j \in Jobs : TenantOf[PipelineOf[j]] = t /\ Schedulable(j)
Fresh == [t \in Tenants |-> 0]

FairInit == Init /\ overtakes = [t \in Tenants |-> Fresh]

\* A step that gives out a lease serves lastTenant'.
FairNext ==
    /\ Next
    /\ overtakes' =
         IF leased' <= leased THEN overtakes
         ELSE [t \in Tenants |->
                 IF t = lastTenant' \/ ~Ready(t) THEN Fresh
                 ELSE [overtakes[t] EXCEPT ![lastTenant'] = IF @ < 2 THEN @ + 1 ELSE 2]]

FairSpec == FairInit /\ [][FairNext]_<<vars, overtakes>>

\* A tenant that has a job which fits its quotas and a free worker is not passed
\* over twice for the same tenant: the rotation of ScheduleOne resumes after the
\* tenant served last, over ticks and across failed and finished attempts.
NotOvertakenTwice == \A t, u \in Tenants : overtakes[t][u] <= 1

=============================================================================
