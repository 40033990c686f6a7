------------------------------- MODULE Domain -------------------------------
(***************************************************************************)
(* The lifecycle states of internal/domain/types.go and the two            *)
(* classifications internal/control/store.go tests them with, and the      *)
(* order in which its scheduler turns to the tenants.                      *)
(***************************************************************************)
EXTENDS Integers

\* domain.State as pipelines, jobs and attempts use it.
State == {"QUEUED", "LEASED", "RUNNING", "SUCCEEDED", "FAILED", "LOST", "CANCELLED"}

\* The state of something that holds a lease and so occupies a worker slot.
active(s) == s \in {"LEASED", "RUNNING"}

\* The state of something that is over.
terminal(s) == s \in {"SUCCEEDED", "FAILED", "CANCELLED", "LOST"}

\* Tenant t has its turn before tenant u.  Tenants are numbers that stand for the
\* sorted names; the rotation starts after the tenant served last, 0 for none.
TurnBefore_Fixed(last, t, u) == t < u
TurnBefore(last, t, u) == IF (t > last) = (u > last) THEN t < u ELSE t > last

=============================================================================
