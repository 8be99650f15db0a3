-------------------------- MODULE MCTenantBilling --------------------------
(* Small instances of TenantBilling for TLC. *)
EXTENDS TenantBilling, TLC

\* Handlers take any request, so they are interchangeable.
HandlerSymmetry == Permutations(Handlers)

\* The kinds of request an instance lets arrive.  Served one at a time: the
\* tenant's life from sign-up through its payments, ...
SerialKinds == {"create", "renewal", "upgrade", "claim", "checkout",
                "callback", "confirm", "login", "sub_status", "resend",
                "reset"}

\* ... and side by side: the same payments, and the super admin's other hands
\* on the same tenant.
ConcurrentKinds == {"create", "upgrade", "claim", "confirm", "manual",
                    "login", "assign", "tenant_status", "checkout", "callback"}

\* A tenant pressing the upgrade button twice, and a first payment that comes
\* after the subscription it was for has lapsed.
DoubleRequestKinds == {"create", "login", "upgrade"}
LatePaymentKinds == {"create", "upgrade", "confirm"}
=============================================================================
