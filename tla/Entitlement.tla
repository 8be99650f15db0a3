---------------------------- MODULE Entitlement ----------------------------
(***************************************************************************)
(* What the platform promises about a tenant's plan, whatever the payment  *)
(* flow that leads there: the plan a tenant is on, and the date it is paid *)
(* up to, change only by granting a plan that someone with authority over  *)
(* it (a super admin, or the payment gateway reporting the money received) *)
(* has authorised for that tenant.                                         *)
(***************************************************************************)
EXTENDS Naturals

CONSTANTS
    Tenants,
    Plans       \* every plan key a subscription can carry

VARIABLES
    plan,       \* the plan each tenant is on, "none" without a subscription
    until,      \* the end of each tenant's current period
    granted     \* the <<tenant, plan>> pairs an authority has approved

entitlementVars == <<plan, until, granted>>

EntitlementInit ==
    /\ plan = [t \in Tenants |-> "none"]
    /\ until = [t \in Tenants |-> 0]
    /\ granted = {}

Authorise(t, p) ==
    /\ granted' = granted \union {<<t, p>>}
    /\ UNCHANGED <<plan, until>>

Grant(t, p) ==
    /\ <<t, p>> \in granted
    /\ until' = [until EXCEPT ![t] = until'[t]]
    /\ until'[t] \in Nat
    /\ plan' = [plan EXCEPT ![t] = p]
    /\ UNCHANGED granted

EntitlementNext ==
    \E t \in Tenants, p \in Plans : Authorise(t, p) \/ Grant(t, p)

EntitlementSpec == EntitlementInit /\ [][EntitlementNext]_entitlementVars
=============================================================================
