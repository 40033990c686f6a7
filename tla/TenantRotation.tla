--------------------------- MODULE TenantRotation ---------------------------
(***************************************************************************)
(* The rotation of ScheduleOne under a burst that never ends: every tenant *)
(* always has a runnable job, and each job may run in the worker slots its *)
(* trust and capabilities select.  What the store keeps for fairness is    *)
(* lastTenant alone, one pointer for all worker pools.                     *)
(***************************************************************************)
EXTENDS Domain

CONSTANTS
    Tenants,    \* numbers above 0
    Slots,      \* worker slots
    MayUse      \* [Tenants -> SUBSET Slots]

VARIABLES
    holder,     \* [Slots -> Tenants \cup {0}], 0 for a free slot
    lastTenant, \* the tenant of the last lease, 0 for none
    ticking     \* the tick's transaction is running

rotationVars == <<holder, lastTenant, ticking>>

RotationInit == holder = [s \in Slots |-> 0] /\ lastTenant = 0 /\ ticking = FALSE

\* A free slot tenant t could be given, within a limit of one job at a time.
CanServe(t, s) == s \in MayUse[t] /\ holder[s] = 0 /\ \A r \in Slots : holder[r] # t
Servable(t) == \E s \in Slots : CanServe(t, s)

BeginRotation ==
    /\ ~ticking
    /\ ticking' = TRUE
    /\ UNCHANGED <<holder, lastTenant>>

\* ScheduleOne, by tenant.
Serve(t, s) ==
    /\ ticking
    /\ CanServe(t, s)
    /\ \A u \in Tenants \ {t} : Servable(u) => TurnBefore(lastTenant, t, u)
    /\ holder' = [holder EXCEPT ![s] = t]
    /\ lastTenant' = t
    /\ UNCHANGED ticking

EndRotation ==
    /\ ticking
    /\ \A t \in Tenants : ~Servable(t)
    /\ ticking' = FALSE
    /\ UNCHANGED <<holder, lastTenant>>

\* The attempt in slot s ends, by its result or by its expiry.
Release(s) ==
    /\ ~ticking
    /\ holder[s] # 0
    /\ holder' = [holder EXCEPT ![s] = 0]
    /\ UNCHANGED <<lastTenant, ticking>>

Rotate == BeginRotation \/ EndRotation \/ \E t \in Tenants, s \in Slots : Serve(t, s)

RotationNext == Rotate \/ \E s \in Slots : Release(s)

\* The ticks go on and run to their end, and every attempt ends.
RotationSpec ==
    /\ RotationInit
    /\ [][RotationNext]_rotationVars
    /\ WF_rotationVars(Rotate)
    /\ \A s \in Slots : SF_rotationVars(Release(s))

\* Every tenant keeps receiving slots while all the others have work without end
\* (the consequence that the round-robin of ScheduleOne is chosen for).
EveryTenantServed == \A t \in Tenants : []<>(\E s \in Slots : holder[s] = t)

=============================================================================
