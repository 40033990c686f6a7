----------------------------- MODULE MCRotation -----------------------------
(***************************************************************************)
(* Five tenants and two slots in two pools, of which one serves tenant 1   *)
(* alone.                                                                  *)
(***************************************************************************)
EXTENDS TenantRotation

MCTenants == 1 .. 5
MCSlots == {"s1", "s2"}
TwoPools == [t \in MCTenants |-> IF t = 1 THEN {"s1"} ELSE {"s2"}]

=============================================================================
