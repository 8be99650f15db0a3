--------------------------- MODULE TenantBilling ---------------------------
(***************************************************************************)
(* Tenants, their subscriptions and the payments that renew them:          *)
(* payment.service.ts, subscription-expiry.service.ts, the tenant and      *)
(* subscription operations of super_admin.service.ts, and login.           *)
(*                                                                         *)
(* Every database call is atomic and the process may interleave other      *)
(* requests at each await.  A request is therefore a chain of steps: it    *)
(* occupies a handler, keeps in job[h] what it has read, and ends in       *)
(* Finish.  The deactivation cron job is one more process.                 *)
(***************************************************************************)
EXTENDS Naturals, FiniteSets

CONSTANTS
    Tenants,
    Handlers,      \* requests that may be in flight at once
    PaidPlans,     \* the plans with a monthly price
    MaxTxns,       \* bound: payment transactions ever created
    MaxNow,        \* bound: the clock
    TrialLength,   \* length of the free trial
    MonthLength,   \* length of a paid period and of a reactivation link
    MaxRequests,   \* bound: requests ever accepted
    MaxFaults,     \* bound: restarts and failed database or mail calls
    Kinds          \* bound: the kinds of request that arrive

Plans == PaidPlans \union {"free"}
Txns == 1..MaxTxns
Nobody == "nobody"

ASSUME BillingAssumption ==
    /\ {MaxTxns, MaxNow, TrialLength, MonthLength, MaxRequests, MaxFaults}
           \subseteq Nat
    /\ "free" \notin PaidPlans
    /\ "none" \notin PaidPlans
    /\ Nobody \notin Tenants

AccountStatus ==
    {"absent", "awaiting_payment", "pending", "active", "inactive", "suspended"}
SubscriptionStatus ==
    {"none", "trial", "active", "expired", "cancelled", "suspended"}
TxnStatus ==
    {"absent", "pending", "awaiting_payment", "payment_claimed", "paid",
     "failed"}
TxnType == {"none", "new", "upgrade", "renewal"}

\* Where a request in flight stands: the name of its next step.
JobPc ==
    {"idle", "create_sub", "welcome", "find_open", "create_invoice", "claim",
     "checkout", "token", "verify", "settle_dpo", "refuse_dpo", "settle",
     "read_period", "apply", "read_account", "issue", "unlock", "open_team",
     "set_account", "cascade", "assign", "record_payment", "login"}
\* What it carries along besides the documents it read.
JobArg == AccountStatus \union SubscriptionStatus \union TxnType
              \union {"dpo", "quoted"}

VARIABLES
    now,        \* the clock
    account,    \* users: status of the tenant's own account
    creds,      \* whether the tenant was ever mailed a password
    team,       \* whether the cascade has locked the tenant's users
    linkEnd,    \* reactivationTokenExpires, 0 before any link was issued
    sub,        \* tenant_subscriptions
    txns,       \* payment_transactions
    received,   \* transactions whose money the gateway really holds
    job,        \* the requests in flight
    cron,       \* the deactivation job
    requests,   \* requests accepted so far
    faults,     \* faults so far
    authorised, \* history: plans an authority approved for a tenant
    settled,    \* history: transactions that were ever written "paid"
    grants      \* history: how often each transaction was applied

users == <<account, creds, team, linkEnd>>
history == <<authorised, settled, grants>>
vars == <<now, account, creds, team, linkEnd, sub, txns, received, job, cron,
          requests, faults, authorised, settled, grants>>

NoSub == [plan |-> "none", status |-> "none", end |-> 0]
NoTxn == [tenant |-> Nobody, type |-> "none", status |-> "absent",
          plan |-> "none", own |-> FALSE, token |-> FALSE]
\* A request at step pc, with what it read so far.
Task(pc, t, x, plan, arg) ==
    [pc |-> pc, t |-> t, x |-> x, plan |-> plan, arg |-> arg, end |-> 0]
Idle == Task("idle", Nobody, 0, "none", "none")
CronIdle == [pc |-> "idle", todo |-> {}, t |-> Nobody]

Subscription == [plan : Plans \union {"none"}, status : SubscriptionStatus,
                 end : Nat]
Transaction == [tenant : Tenants \union {Nobody}, type : TxnType,
                status : TxnStatus, plan : Plans \union {"none"},
                own : BOOLEAN, token : BOOLEAN]
Request == [pc : JobPc, t : Tenants \union {Nobody}, x : Txns \union {0},
            plan : Plans \union {"none"}, arg : JobArg, end : Nat]
CronRun == [pc : {"idle", "pick", "expire", "user", "team", "link"},
            todo : SUBSET Tenants, t : Tenants \union {Nobody}]

TypeOK ==
    /\ now \in Nat
    /\ account \in [Tenants -> AccountStatus]
    /\ creds \in [Tenants -> BOOLEAN]
    /\ team \in [Tenants -> {"open", "locked"}]
    /\ linkEnd \in [Tenants -> Nat]
    /\ sub \in [Tenants -> Subscription]
    /\ txns \in [Txns -> Transaction]
    /\ received \subseteq Txns
    /\ job \in [Handlers -> Request]
    /\ cron \in CronRun
    /\ requests \in Nat
    /\ faults \in Nat
    /\ authorised \subseteq Tenants \X Plans
    /\ settled \subseteq Txns
    /\ grants \in [Txns -> Nat]

Init ==
    /\ now = 1
    /\ account = [t \in Tenants |-> "absent"]
    /\ creds = [t \in Tenants |-> FALSE]
    /\ team = [t \in Tenants |-> "open"]
    /\ linkEnd = [t \in Tenants |-> 0]
    /\ sub = [t \in Tenants |-> NoSub]
    /\ txns = [x \in Txns |-> NoTxn]
    /\ received = {}
    /\ job = [h \in Handlers |-> Idle]
    /\ cron = CronIdle
    /\ requests = 0
    /\ faults = 0
    /\ authorised = {}
    /\ settled = {}
    /\ grants = [x \in Txns |-> 0]

-----------------------------------------------------------------------------
(* The life of a request *)

\* Handler h takes a request of the given kind; its first step leaves the
\* request at pc with these locals.
Accept(h, kind, locals) ==
    /\ kind \in Kinds
    /\ job[h] = Idle
    /\ requests < MaxRequests
    /\ requests' = requests + 1
    /\ job' = [job EXCEPT ![h] = locals]

At(h, pc) == job[h].pc = pc
Goto(h, pc) == job' = [job EXCEPT ![h].pc = pc]
Finish(h) == job' = [job EXCEPT ![h] = Idle]

\* JwtStrategy.validate lets a tenant in; a reactivation link does as well.
LoggedIn(t) == account[t] = "active"
HasLink(t) == linkEnd[t] > now
Lapsed(t) == sub[t].end < now
IsOpen(x) == txns[x].status \in {"awaiting_payment", "payment_claimed"}

\* The next document inserted in payment_transactions.
Fresh(x) ==
    /\ x \in Txns
    /\ txns[x].status = "absent"
    /\ \A y \in Txns : txns[y].status = "absent" => x <= y

SetStatus(x, status) == txns' = [txns EXCEPT ![x].status = status]

-----------------------------------------------------------------------------
(* Signing a tenant up, and logging in *)

\* createTenant: a paid plan waits for its payment, the free one is mailed a
\* password.  Choosing the plan is the super admin's authority over it.
CreateTenant(h, t, p) ==
    /\ account[t] = "absent"
    /\ Accept(h, "create", Task("create_sub", t, 0, p, "none"))
    /\ account' = [account EXCEPT
           ![t] = IF p = "free" THEN "pending" ELSE "awaiting_payment"]
    /\ authorised' = authorised \union {<<t, p>>}
    /\ UNCHANGED <<now, creds, team, linkEnd, sub, txns, received, cron, faults,
                   settled, grants>>

\* createDefaultSubscription; tenantId is unique, so it fails when the tenant
\* was given a subscription meanwhile.
CreateSub(h) ==
    LET t == job[h].t
        p == job[h].plan
    IN  /\ At(h, "create_sub")
        /\ IF sub[t] # NoSub
           THEN Finish(h) /\ UNCHANGED sub
           ELSE /\ sub' = [sub EXCEPT ![t] =
                       IF p = "free"
                       THEN [plan |-> p, status |-> "trial",
                             end |-> now + TrialLength]
                       ELSE [plan |-> p, status |-> "active",
                             end |-> now + MonthLength]]
                /\ IF p = "free" THEN Goto(h, "welcome") ELSE Finish(h)
        /\ UNCHANGED <<now, users, txns, received, cron, requests, faults,
                       history>>

\* sendTenantWelcome: the temporary password reaches the tenant.
Welcome(h) ==
    /\ At(h, "welcome")
    /\ creds' = [creds EXCEPT ![job[h].t] = TRUE]
    /\ Finish(h)
    /\ UNCHANGED <<now, account, team, linkEnd, sub, txns, received, cron,
                   requests, faults, history>>

\* Mutant: lets in a tenant who was never mailed a password.
LogInUnmailed(h, t) ==
    /\ account[t] = "pending"
    /\ Accept(h, "login", Task("login", t, 0, "none", "none"))
    /\ UNCHANGED <<now, users, sub, txns, received, cron, faults, history>>

\* login with the password that was mailed: only the first login writes.
LogIn(h, t) ==
    /\ account[t] = "pending"
    /\ creds[t]
    /\ Accept(h, "login", Task("login", t, 0, "none", "none"))
    /\ UNCHANGED <<now, users, sub, txns, received, cron, faults, history>>

WriteLogIn(h) ==
    /\ At(h, "login")
    /\ account' = [account EXCEPT ![job[h].t] = "active"]
    /\ Finish(h)
    /\ UNCHANGED <<now, creds, team, linkEnd, sub, txns, received, cron,
                   requests, faults, history>>

\* forgotPassword and resetPassword: possible whatever the account's status.
ResetPassword(h, t) ==
    /\ account[t] # "absent"
    /\ Accept(h, "reset", Idle)
    /\ creds' = [creds EXCEPT ![t] = TRUE]
    /\ UNCHANGED <<now, account, team, linkEnd, sub, txns, received, cron,
                   faults, history>>

-----------------------------------------------------------------------------
(* Invoices a tenant asks for itself *)

\* tenantRequestUpgrade
AskUpgrade(h, t, p) ==
    /\ LoggedIn(t) \/ HasLink(t)
    /\ sub[t].plan # p
    /\ Accept(h, "upgrade", Task("find_open", t, 0, p, "upgrade"))
    /\ UNCHANGED <<now, users, sub, txns, received, cron, faults, history>>

\* tenantRequestRenewal
AskRenewal(h, t) ==
    /\ LoggedIn(t)
    /\ sub[t].plan \in PaidPlans
    /\ Accept(h, "renewal", Task("find_open", t, 0, sub[t].plan, "renewal"))
    /\ UNCHANGED <<now, users, sub, txns, received, cron, faults, history>>

\* Mutant: overlooks an invoice whose payment is claimed.
FindOpenAwaiting(h) ==
    /\ At(h, "find_open")
    /\ IF \E x \in Txns : /\ txns[x].tenant = job[h].t
                         /\ txns[x].status = "awaiting_payment"
       THEN Finish(h)
       ELSE Goto(h, "create_invoice")
    /\ UNCHANGED <<now, users, sub, txns, received, cron, requests, faults,
                   history>>

\* createInvoiceRequest: an open invoice refuses the request.
FindOpen(h) ==
    /\ At(h, "find_open")
    /\ IF \E x \in Txns : txns[x].tenant = job[h].t /\ IsOpen(x)
       THEN Finish(h)
       ELSE Goto(h, "create_invoice")
    /\ UNCHANGED <<now, users, sub, txns, received, cron, requests, faults,
                   history>>

CreateInvoice(h) ==
    /\ At(h, "create_invoice")
    /\ \E x \in Txns :
           /\ Fresh(x)
           /\ txns' = [txns EXCEPT ![x] =
                  [tenant |-> job[h].t, type |-> job[h].arg,
                   status |-> "awaiting_payment", plan |-> job[h].plan,
                   own |-> TRUE, token |-> FALSE]]
    /\ Finish(h)
    /\ UNCHANGED <<now, users, sub, received, cron, requests, faults, history>>

\* Mutant: any invoice can be claimed.
MarkPaidAnyStatus(h, x) ==
    /\ txns[x].status # "absent"
    /\ LoggedIn(txns[x].tenant) \/ HasLink(txns[x].tenant)
    /\ Accept(h, "claim", Task("claim", txns[x].tenant, x, "none", "none"))
    /\ UNCHANGED <<now, users, sub, txns, received, cron, faults, history>>

\* Mutant: a claim is as good as a payment.
MarkPaidSettles(h, x) ==
    /\ txns[x].status = "awaiting_payment"
    /\ LoggedIn(txns[x].tenant) \/ HasLink(txns[x].tenant)
    /\ Accept(h, "claim",
              Task("settle", txns[x].tenant, x, txns[x].plan, "none"))
    /\ UNCHANGED <<now, users, sub, txns, received, cron, faults, history>>

\* tenantMarkPaymentClaimed reads an invoice that awaits payment ...
MarkPaid(h, x) ==
    /\ txns[x].status = "awaiting_payment"
    /\ LoggedIn(txns[x].tenant) \/ HasLink(txns[x].tenant)
    /\ Accept(h, "claim", Task("claim", txns[x].tenant, x, "none", "none"))
    /\ UNCHANGED <<now, users, sub, txns, received, cron, faults, history>>

\* ... and writes it by its id, whatever it has become.
WriteClaim(h) ==
    /\ At(h, "claim")
    /\ SetStatus(job[h].x, "payment_claimed")
    /\ Finish(h)
    /\ UNCHANGED <<now, users, sub, received, cron, requests, faults, history>>

-----------------------------------------------------------------------------
(* Checkout at the payment gateway *)

\* initiateUpgradePayment
Checkout(h, t, p) ==
    /\ LoggedIn(t)
    /\ sub[t].plan # p
    /\ Accept(h, "checkout", Task("checkout", t, 0, p, "dpo"))
    /\ UNCHANGED <<now, users, sub, txns, received, cron, faults, history>>

CreateCheckout(h) ==
    /\ At(h, "checkout")
    /\ \E x \in Txns :
           /\ Fresh(x)
           /\ txns' = [txns EXCEPT ![x] =
                  [tenant |-> job[h].t, type |-> "upgrade",
                   status |-> "pending", plan |-> job[h].plan,
                   own |-> FALSE, token |-> FALSE]]
           /\ job' = [job EXCEPT ![h] = [@ EXCEPT !.pc = "token", !.x = x]]
    /\ UNCHANGED <<now, users, sub, received, cron, requests, faults, history>>

\* createToken: the gateway hands out a token, or the transaction has failed.
SaveToken(h) ==
    /\ At(h, "token")
    /\ \/ txns' = [txns EXCEPT ![job[h].x].token = TRUE]
       \/ SetStatus(job[h].x, "failed")
    /\ Finish(h)
    /\ UNCHANGED <<now, users, sub, received, cron, requests, faults, history>>

\* The customer pays on the gateway's page: money received is the authority
\* for the plan it buys.
CustomerPays(x) ==
    /\ txns[x].token
    /\ x \notin received
    /\ received' = received \union {x}
    /\ authorised' = authorised \union {<<txns[x].tenant, txns[x].plan>>}
    /\ UNCHANGED <<now, users, sub, txns, job, cron, requests, faults, settled,
                   grants>>

\* handleDpoCallback; the gateway may call it any number of times.
Callback(h, x) ==
    /\ txns[x].status = "pending"
    /\ txns[x].token
    /\ Accept(h, "callback",
              Task("verify", txns[x].tenant, x, txns[x].plan, "dpo"))
    /\ UNCHANGED <<now, users, sub, txns, received, cron, faults, history>>

\* verifyToken answers "paid" only for money received; a network error reads
\* as not paid.
VerifyPaid(h) ==
    /\ At(h, "verify")
    /\ job[h].x \in received
    /\ Goto(h, "settle_dpo")
    /\ UNCHANGED <<now, users, sub, txns, received, cron, requests, faults,
                   history>>

VerifyUnpaid(h) ==
    /\ At(h, "verify")
    /\ \/ job[h].x \notin received /\ UNCHANGED faults
       \/ faults < MaxFaults /\ faults' = faults + 1
    /\ Goto(h, "refuse_dpo")
    /\ UNCHANGED <<now, users, sub, txns, received, cron, requests, history>>

RefuseDpo(h) ==
    /\ At(h, "refuse_dpo")
    /\ SetStatus(job[h].x, "failed")
    /\ Finish(h)
    /\ UNCHANGED <<now, users, sub, received, cron, requests, faults, history>>

\* activateSubscriptionAfterPayment
SettleDpo(h) ==
    /\ At(h, "settle_dpo")
    /\ SetStatus(job[h].x, "paid")
    /\ settled' = settled \union {job[h].x}
    /\ Goto(h, "read_period")
    /\ UNCHANGED <<now, users, sub, received, cron, requests, faults,
                   authorised, grants>>

-----------------------------------------------------------------------------
(* Payments a super admin records or confirms *)

\* Mutant: an invoice activates the account as a receipt does.
RecordManualActivates(h, t, p, doc) ==
    /\ account[t] # "absent"
    /\ \E x \in Txns :
           /\ Fresh(x)
           /\ txns' = [txns EXCEPT ![x] =
                  [tenant |-> t, type |-> "new",
                   status |-> IF doc = "receipt" THEN "paid"
                              ELSE "awaiting_payment",
                   plan |-> p, own |-> FALSE, token |-> FALSE]]
           /\ settled' = IF doc = "receipt" THEN settled \union {x}
                         ELSE settled
           /\ Accept(h, "manual", Task("read_account", t, x, "none", "none"))
    /\ UNCHANGED <<now, users, sub, received, cron, faults, authorised, grants>>

\* recordManualPayment, and the mail the controller sends after it: a receipt
\* activates the account, an invoice only waits.
RecordManual(h, t, p, doc) ==
    /\ account[t] # "absent"
    /\ \E x \in Txns :
           /\ Fresh(x)
           /\ txns' = [txns EXCEPT ![x] =
                  [tenant |-> t, type |-> "new",
                   status |-> IF doc = "receipt" THEN "paid"
                              ELSE "awaiting_payment",
                   plan |-> p, own |-> FALSE, token |-> FALSE]]
           /\ settled' = IF doc = "receipt" THEN settled \union {x}
                         ELSE settled
           /\ Accept(h, "manual",
                     IF doc = "invoice" THEN Idle
                     ELSE Task("read_account", t, x, "none", "none"))
    /\ UNCHANGED <<now, users, sub, received, cron, faults, authorised, grants>>

\* Mutant: confirms a transaction whatever its status.
ConfirmAnyStatus(h, x) ==
    /\ txns[x].status # "absent"
    /\ Accept(h, "confirm",
              Task("settle", txns[x].tenant, x, txns[x].plan, txns[x].type))
    /\ authorised' = authorised \union {<<txns[x].tenant, txns[x].plan>>}
    /\ UNCHANGED <<now, users, sub, txns, received, cron, faults, settled,
                   grants>>

\* confirmInvoicePayment
Confirm(h, x) ==
    /\ IsOpen(x)
    /\ Accept(h, "confirm",
              Task("settle", txns[x].tenant, x, txns[x].plan, txns[x].type))
    /\ authorised' = authorised \union {<<txns[x].tenant, txns[x].plan>>}
    /\ UNCHANGED <<now, users, sub, txns, received, cron, faults, settled,
                   grants>>

\* Mutant: applies the plan without writing the payment first.
SettleUnwritten(h) ==
    /\ At(h, "settle")
    /\ Goto(h, "read_period")
    /\ UNCHANGED <<now, users, sub, txns, received, cron, requests, faults,
                   history>>

Settle(h) ==
    /\ At(h, "settle")
    /\ SetStatus(job[h].x, "paid")
    /\ settled' = settled \union {job[h].x}
    /\ Goto(h, "read_period")
    /\ UNCHANGED <<now, users, sub, received, cron, requests, faults,
                   authorised, grants>>

\* applyPlanToSubscription reads the current period ...
ReadPeriod(h) ==
    /\ At(h, "read_period")
    /\ job' = [job EXCEPT ![h] = [@ EXCEPT !.pc = "apply",
                                            !.end = sub[job[h].t].end]]
    /\ UNCHANGED <<now, users, sub, txns, received, cron, requests, faults,
                   history>>

\* ... and writes the next one: a renewal starts where the current one ends.
\* A DPO payment ends here; a confirmed invoice goes on to the account.
ApplyPlan(h) ==
    LET j    == job[h]
        base == IF j.arg = "renewal" /\ j.end > now THEN j.end ELSE now
    IN  /\ At(h, "apply")
        /\ sub' = [sub EXCEPT ![j.t] = [plan |-> j.plan, status |-> "active",
                                        end |-> base + MonthLength]]
        /\ grants' = [grants EXCEPT ![j.x] = @ + 1]
        /\ IF j.arg = "dpo" THEN Finish(h) ELSE Goto(h, "read_account")
        /\ UNCHANGED <<now, users, txns, received, cron, requests, faults,
                       authorised, settled>>

\* activateTenantAccount: a first activation, a locked account, or neither.
ReadAccount(h) ==
    LET status == account[job[h].t]
    IN  /\ At(h, "read_account")
        /\ \/ status = "awaiting_payment" /\ Goto(h, "issue")
           \/ status \in {"inactive", "suspended"} /\ Goto(h, "unlock")
           \/ status \notin {"awaiting_payment", "inactive", "suspended"}
              /\ Finish(h)
        /\ UNCHANGED <<now, users, sub, txns, received, cron, requests, faults,
                       history>>

IssueCredentials(h) ==
    /\ At(h, "issue")
    /\ account' = [account EXCEPT ![job[h].t] = "pending"]
    /\ Goto(h, "welcome")
    /\ UNCHANGED <<now, creds, team, linkEnd, sub, txns, received, cron,
                   requests, faults, history>>

Unlock(h) ==
    /\ At(h, "unlock")
    /\ account' = [account EXCEPT ![job[h].t] = "active"]
    /\ Goto(h, "open_team")
    /\ UNCHANGED <<now, creds, team, linkEnd, sub, txns, received, cron,
                   requests, faults, history>>

\* cascadeReactivateTenantUsers
OpenTeam(h) ==
    /\ At(h, "open_team")
    /\ team' = [team EXCEPT ![job[h].t] = "open"]
    /\ Finish(h)
    /\ UNCHANGED <<now, account, creds, linkEnd, sub, txns, received, cron,
                   requests, faults, history>>

-----------------------------------------------------------------------------
(* Tenants and subscriptions under a super admin's hands *)

\* updateTenantStatus: a lapsed subscription refuses a bare reactivation.
SetTenantStatus(h, t, status) ==
    /\ account[t] # "absent"
    /\ (status = "active" /\ account[t] # "active" /\ sub[t] # NoSub)
           => ~(sub[t].status = "expired" \/ Lapsed(t))
    /\ Accept(h, "tenant_status", Task("set_account", t, 0, "none", status))
    /\ UNCHANGED <<now, users, sub, txns, received, cron, faults, history>>

WriteTenantStatus(h) ==
    /\ At(h, "set_account")
    /\ account' = [account EXCEPT ![job[h].t] = job[h].arg]
    /\ IF job[h].arg \in {"active", "inactive", "suspended"}
       THEN Goto(h, "cascade")
       ELSE Finish(h)
    /\ UNCHANGED <<now, creds, team, linkEnd, sub, txns, received, cron,
                   requests, faults, history>>

\* The tenant's users follow the status that was set.
Cascade(h) ==
    /\ At(h, "cascade")
    /\ team' = [team EXCEPT
           ![job[h].t] = IF job[h].arg = "active" THEN "open" ELSE "locked"]
    /\ Finish(h)
    /\ UNCHANGED <<now, account, creds, linkEnd, sub, txns, received, cron,
                   requests, faults, history>>

\* assignTenantSubscription: a tenant locked out by expiry needs a payment.
AssignPlan(h, t, p, paid) ==
    /\ account[t] # "absent"
    /\ (p # "free" /\ sub[t].status = "expired"
                   /\ account[t] \in {"inactive", "suspended"}) => paid
    /\ Accept(h, "assign",
              Task("assign", t, 0, p, IF paid THEN "upgrade" ELSE "quoted"))
    /\ authorised' = authorised \union {<<t, p>>}
    /\ UNCHANGED <<now, users, sub, txns, received, cron, faults, settled,
                   grants>>

\* The end may be chosen by the super admin: today, or a month from now.
WriteAssignment(h) ==
    LET t == job[h].t
        p == job[h].plan
    IN  /\ At(h, "assign")
        /\ \E end \in {now, now + MonthLength} :
               sub' = [sub EXCEPT ![t] =
                   IF p = "free"
                   THEN [plan |-> p, status |-> "trial",
                         end |-> now + TrialLength]
                   ELSE [plan |-> p, status |-> "active", end |-> end]]
        /\ \/ job[h].arg = "upgrade" /\ Goto(h, "record_payment")
           \/ job[h].arg = "quoted" /\ p # "free" /\ Goto(h, "open_team")
           \/ job[h].arg = "quoted" /\ p = "free" /\ Finish(h)
        /\ UNCHANGED <<now, users, txns, received, cron, requests, faults,
                       history>>

RecordAssignment(h) ==
    /\ At(h, "record_payment")
    /\ \E x \in Txns :
           /\ Fresh(x)
           /\ txns' = [txns EXCEPT ![x] =
                  [tenant |-> job[h].t, type |-> "upgrade", status |-> "paid",
                   plan |-> job[h].plan, own |-> FALSE, token |-> FALSE]]
           /\ settled' = settled \union {x}
    /\ IF job[h].plan = "free" THEN Finish(h) ELSE Goto(h, "open_team")
    /\ UNCHANGED <<now, users, sub, received, cron, requests, faults,
                   authorised, grants>>

\* updateTenantSubscriptionStatus
SetSubscriptionStatus(h, t, status) ==
    /\ sub[t] # NoSub
    /\ Accept(h, "sub_status", Task("cascade", t, 0, "none", status))
    /\ sub' = [sub EXCEPT ![t].status = status]
    /\ UNCHANGED <<now, users, txns, received, cron, faults, history>>

\* resendReactivationLink
ResendLink(h, t) ==
    /\ account[t] \in {"inactive", "suspended"}
    /\ Accept(h, "resend", Idle)
    /\ linkEnd' = [linkEnd EXCEPT ![t] = now + MonthLength]
    /\ UNCHANGED <<now, account, creds, team, sub, txns, received, cron, faults,
                   history>>

-----------------------------------------------------------------------------
(* The deactivation cron job *)

Live(t) == sub[t].status \in {"trial", "active"}

\* Mutant: forgets the trials.
ListLapsedPaid ==
    LET lapsed == {t \in Tenants : sub[t].status = "active" /\ Lapsed(t)}
    IN  /\ cron.pc = "idle"
        /\ lapsed # {}
        /\ cron' = [cron EXCEPT !.pc = "pick", !.todo = lapsed]
        /\ UNCHANGED <<now, users, sub, txns, received, job, requests, faults,
                       history>>

\* deactivateExpiredSubscriptions lists the lapsed subscriptions once ...
ListLapsed ==
    LET lapsed == {t \in Tenants : Live(t) /\ Lapsed(t)}
    IN  /\ cron.pc = "idle"
        /\ lapsed # {}
        /\ cron' = [cron EXCEPT !.pc = "pick", !.todo = lapsed]
        /\ UNCHANGED <<now, users, sub, txns, received, job, requests, faults,
                       history>>

\* ... and deactivates them one after the other.
PickLapsed ==
    /\ cron.pc = "pick"
    /\ IF cron.todo = {}
       THEN cron' = CronIdle
       ELSE \E t \in cron.todo :
                cron' = [pc |-> "expire", todo |-> cron.todo \ {t}, t |-> t]
    /\ UNCHANGED <<now, users, sub, txns, received, job, requests, faults,
                   history>>

\* deactivateTenant, step 1
ExpireSub ==
    /\ cron.pc = "expire"
    /\ sub' = [sub EXCEPT ![cron.t].status = "expired"]
    /\ cron' = [cron EXCEPT !.pc = "user"]
    /\ UNCHANGED <<now, users, txns, received, job, requests, faults, history>>

\* step 2
LockAccount ==
    /\ cron.pc = "user"
    /\ account' = [account EXCEPT ![cron.t] = "inactive"]
    /\ cron' = [cron EXCEPT !.pc = "team"]
    /\ UNCHANGED <<now, creds, team, linkEnd, sub, txns, received, job,
                   requests, faults, history>>

\* step 3, cascadeDeactivateTenantUsers
LockTeam ==
    /\ cron.pc = "team"
    /\ team' = [team EXCEPT ![cron.t] = "locked"]
    /\ cron' = [cron EXCEPT !.pc = "link"]
    /\ UNCHANGED <<now, account, creds, linkEnd, sub, txns, received, job,
                   requests, faults, history>>

\* step 4: the reactivation link
SendLink ==
    /\ cron.pc = "link"
    /\ linkEnd' = [linkEnd EXCEPT ![cron.t] = now + MonthLength]
    /\ cron' = [cron EXCEPT !.pc = "pick"]
    /\ UNCHANGED <<now, account, creds, team, sub, txns, received, job,
                   requests, faults, history>>

\* An error in any of the steps is logged, and the job goes on to the next.
SkipTenant ==
    /\ cron.pc \in {"expire", "user", "team", "link"}
    /\ faults < MaxFaults
    /\ faults' = faults + 1
    /\ cron' = [cron EXCEPT !.pc = "pick"]
    /\ UNCHANGED <<now, users, sub, txns, received, job, requests, history>>

CronStep ==
    \/ ListLapsed \/ PickLapsed
    \/ ExpireSub \/ LockAccount \/ LockTeam \/ SendLink

-----------------------------------------------------------------------------
(* Time and faults *)

Tick ==
    /\ now < MaxNow
    /\ now' = now + 1
    /\ UNCHANGED <<users, sub, txns, received, job, cron, requests, faults,
                   history>>

\* A database or mail call throws: the request is answered with an error.
Abort(h) ==
    /\ job[h] # Idle
    /\ faults < MaxFaults
    /\ faults' = faults + 1
    /\ Finish(h)
    /\ UNCHANGED <<now, users, sub, txns, received, cron, requests, history>>

\* The process restarts: every request and the cron job stop where they are.
Restart ==
    /\ faults < MaxFaults
    /\ faults' = faults + 1
    /\ job' = [h \in Handlers |-> Idle]
    /\ cron' = CronIdle
    /\ UNCHANGED <<now, users, sub, txns, received, requests, history>>

-----------------------------------------------------------------------------
TenantRequest(h) ==
    \/ \E t \in Tenants :
           \/ LogIn(h, t)
           \/ ResetPassword(h, t)
           \/ AskRenewal(h, t)
           \/ ResendLink(h, t)
           \/ \E p \in PaidPlans : AskUpgrade(h, t, p) \/ Checkout(h, t, p)
    \/ \E x \in Txns : MarkPaid(h, x) \/ Callback(h, x)

AdminRequest(h) ==
    \/ \E t \in Tenants :
           \/ \E p \in Plans :
                  \/ CreateTenant(h, t, p)
                  \/ \E paid \in BOOLEAN : AssignPlan(h, t, p, paid)
           \/ \E p \in PaidPlans, doc \in {"invoice", "receipt"} :
                  RecordManual(h, t, p, doc)
           \/ \E s \in AccountStatus \ {"absent"} : SetTenantStatus(h, t, s)
           \/ \E s \in SubscriptionStatus \ {"none"} :
                  SetSubscriptionStatus(h, t, s)
    \/ \E x \in Txns : Confirm(h, x)

Step(h) ==
    \/ CreateSub(h) \/ Welcome(h) \/ WriteLogIn(h)
    \/ FindOpen(h) \/ CreateInvoice(h) \/ WriteClaim(h)
    \/ CreateCheckout(h) \/ SaveToken(h)
    \/ VerifyPaid(h) \/ VerifyUnpaid(h) \/ RefuseDpo(h) \/ SettleDpo(h)
    \/ Settle(h) \/ ReadPeriod(h) \/ ApplyPlan(h)
    \/ ReadAccount(h) \/ IssueCredentials(h) \/ Unlock(h) \/ OpenTeam(h)
    \/ WriteTenantStatus(h) \/ Cascade(h)
    \/ WriteAssignment(h) \/ RecordAssignment(h)

Next ==
    \/ \E h \in Handlers :
           TenantRequest(h) \/ AdminRequest(h) \/ Step(h) \/ Abort(h)
    \/ \E x \in Txns : CustomerPays(x)
    \/ CronStep \/ SkipTenant
    \/ Tick \/ Restart

\* The cron job is scheduled daily, and node runs what it awaits; nothing
\* obliges a tenant or a super admin to ask for anything.
Spec == Init /\ [][Next]_vars /\ WF_vars(CronStep)

-----------------------------------------------------------------------------
(* What must hold whatever runs at the same time *)

\* A tenant's plan and paid-up date move only with an authority behind them:
\* "No plan change happens until a super admin later confirms it"
\* (payment.controller.ts), or the gateway holds the money.
E == INSTANCE Entitlement
         WITH plan <- [t \in Tenants |-> sub[t].plan],
              until <- [t \in Tenants |-> sub[t].end],
              granted <- authorised
RefinesEntitlement == E!EntitlementSpec

\* A transaction buys a period only after it was written "paid": a failure
\* between the two loses the tenant's month, never gives one away.
GrantNeedsSettlement ==
    \A x \in Txns : grants[x] > 0 => x \in settled

\* A tenant created on a paid plan, never having had a password, gets out of
\* awaiting_payment only once a payment of its own is settled or a super admin
\* sets the account's status by hand.
NoAccessBeforePayment ==
    [][\A t \in Tenants :
          (/\ account[t] = "awaiting_payment" /\ ~creds[t]
           /\ account'[t] \in {"pending", "active"})
          => \/ \E x \in settled : txns[x].tenant = t
             \/ \E h \in Handlers : At(h, "set_account") /\ job[h].t = t]_vars

\* What a request carries from one of its steps to the next is still backed by
\* the database when it is used, whatever other requests did in between: the
\* tenant and transaction it read, the authority for its plan, the settled
\* payment behind an activation, the password behind a login.  And so are the
\* transactions: each names a tenant and a plan, money is only received for a
\* plan that is then authorised, and only settled transactions are applied.
HoldsSettledTxn ==
    {"read_period", "apply", "read_account", "issue", "unlock"}
HoldsTxn == HoldsSettledTxn \union
    {"claim", "token", "verify", "settle_dpo", "refuse_dpo", "settle"}
HoldsGrant == {"create_sub", "assign", "record_payment", "settle", "settle_dpo",
               "read_period", "apply"}
RequestBacked(h) ==
    LET j == job[h]
    IN  /\ j.pc # "idle" => j.t \in Tenants
        /\ j.pc \in {"find_open", "create_invoice", "checkout"}
               => j.plan \in Plans
        /\ j.pc \in {"find_open", "create_invoice"} => j.arg \in TxnType
        /\ j.pc = "set_account" => j.arg \in AccountStatus \ {"absent"}
        /\ j.pc \in HoldsTxn => /\ j.x \in Txns
                                /\ txns[j.x].status # "absent"
                                /\ txns[j.x].tenant = j.t
        /\ j.pc = "verify" => j.plan = txns[j.x].plan
        /\ j.pc \in HoldsGrant => <<j.t, j.plan>> \in authorised
        /\ j.pc \in HoldsSettledTxn => j.x \in settled
        /\ j.pc = "login" => creds[j.t]
TxnBacked(x) ==
    /\ txns[x].status # "absent" =>
           txns[x].tenant \in Tenants /\ txns[x].plan \in Plans
    /\ txns[x].token => txns[x].status # "absent"
    /\ x \in received => /\ txns[x].status # "absent"
                         /\ <<txns[x].tenant, txns[x].plan>> \in authorised
    /\ x \in settled => txns[x].status # "absent"
    /\ grants[x] > 0 => x \in settled
Backed == /\ \A h \in Handlers : RequestBacked(h)
          /\ \A x \in Txns : TxnBacked(x)

-----------------------------------------------------------------------------
(* What holds as long as requests are served one at a time *)

\* A payment adds one period, however often it is claimed, confirmed, called
\* back or retried after a fault.
OneGrantPerPayment == \A x \in Txns : grants[x] <= 1

\* "A tenant shouldn't be able to stack multiple open invoices for themselves"
\* (createInvoiceRequest).
OneOpenRequest ==
    \A x, y \in Txns :
        /\ txns[x].own /\ IsOpen(x)
        /\ txns[y].own /\ IsOpen(y)
        /\ txns[x].tenant = txns[y].tenant
        => x = y

\* A paid transaction stays paid: neither a claim nor a late gateway answer
\* takes the receipt back.
PaidIsFinal ==
    [][\A x \in Txns : txns[x].status = "paid" => txns'[x].status = "paid"]_vars

\* The cron job gets to every lapsed subscription in the end, whatever restarts
\* and errors befall its runs.
LapsedIsExpired ==
    \A t \in Tenants : (Live(t) /\ Lapsed(t)) ~> ~(Live(t) /\ Lapsed(t))

\* Not so: "they already have real credentials from before"
\* (activateTenantAccount, on unlocking an account).
UnlockedHasCredentials ==
    \A h \in Handlers : At(h, "unlock") => creds[job[h].t]
=============================================================================
