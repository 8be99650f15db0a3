------------------------ MODULE TenantBilling_proofs ------------------------
(* Proofs about TenantBilling, for every value of its constants. *)
EXTENDS TenantBilling, TLAPS

(***************************************************************************)
(* Typing alone is not inductive: a step uses what its request carries, so *)
(* the invariant also says that what it carries is backed by the database. *)
(***************************************************************************)
IInv == TypeOK /\ Backed

-----------------------------------------------------------------------------
(* What the helpers do to a request *)

\* What BillingAssumption says of the constants, one by one.
LEMMA ConstantFacts ==
    /\ TrialLength \in Nat /\ MonthLength \in Nat
    /\ "free" \in Plans /\ PaidPlans \subseteq Plans
    /\ "none" \notin Plans /\ Nobody \notin Tenants
BY BillingAssumption DEF Plans

\* A task holds what it is given.
LEMMA TaskFacts ==
    ASSUME NEW pc \in JobPc, NEW t \in Tenants \union {Nobody},
           NEW x \in Txns \union {0}, NEW p \in Plans \union {"none"},
           NEW arg \in JobArg
    PROVE  LET j == Task(pc, t, x, p, arg)
           IN  /\ j \in Request
               /\ j.pc = pc /\ j.t = t /\ j.x = x /\ j.plan = p /\ j.arg = arg
BY DEF Task, Request

LEMMA IdleFacts == Idle \in Request /\ Idle.pc = "idle"
BY TaskFacts DEF Idle, JobPc, JobArg, TxnType

\* The fields of a request in flight are typed.
LEMMA JobFacts ==
    ASSUME TypeOK, NEW h \in Handlers
    PROVE  /\ job \in [Handlers -> Request]
           /\ job[h] \in Request
           /\ job[h].pc \in JobPc /\ job[h].t \in Tenants \union {Nobody}
           /\ job[h].x \in Txns \union {0}
           /\ job[h].plan \in Plans \union {"none"}
           /\ job[h].arg \in JobArg /\ job[h].end \in Nat
BY DEF TypeOK, Request

\* Only handler h moves.
OnlyJob(h) ==
    /\ job' \in [Handlers -> Request]
    /\ \A k \in Handlers \ {h} : job'[k] = job[k]

LEMMA JobWritten ==
    ASSUME TypeOK, NEW h \in Handlers, NEW r \in Request,
           job' = [job EXCEPT ![h] = r]
    PROVE  OnlyJob(h) /\ job'[h] = r
BY DEF TypeOK, OnlyJob

LEMMA AcceptFacts ==
    ASSUME TypeOK, NEW h \in Handlers, NEW kind, NEW locals \in Request,
           Accept(h, kind, locals)
    PROVE  OnlyJob(h) /\ job'[h] = locals /\ requests' \in Nat
BY DEF Accept, OnlyJob, TypeOK

LEMMA GotoFacts ==
    ASSUME TypeOK, NEW h \in Handlers, NEW pc \in JobPc, Goto(h, pc)
    PROVE  /\ OnlyJob(h)
           /\ job'[h].pc = pc /\ job'[h].t = job[h].t /\ job'[h].x = job[h].x
           /\ job'[h].plan = job[h].plan /\ job'[h].arg = job[h].arg
BY JobFacts DEF Goto, OnlyJob, Request

LEMMA FinishFacts ==
    ASSUME TypeOK, NEW h \in Handlers, Finish(h)
    PROVE  OnlyJob(h) /\ job'[h].pc = "idle"
BY JobFacts, IdleFacts DEF Finish, OnlyJob

\* Writing a status keeps the transactions typed, and their other fields.
LEMMA SetStatusFacts ==
    ASSUME TypeOK, NEW x \in Txns, NEW s \in TxnStatus, SetStatus(x, s)
    PROVE  /\ txns' \in [Txns -> Transaction]
           /\ txns'[x].status = s
           /\ \A y \in Txns \ {x} : txns'[y] = txns[y]
           /\ \A y \in Txns : /\ txns'[y].tenant = txns[y].tenant
                              /\ txns'[y].plan = txns[y].plan
                              /\ txns'[y].token = txns[y].token
BY DEF SetStatus, TypeOK, Transaction

\* Writing a subscription keeps the subscriptions typed.
LEMMA SubWritten ==
    ASSUME TypeOK, NEW t \in Tenants, NEW p \in Plans \union {"none"},
           NEW s \in SubscriptionStatus, NEW end \in Nat,
           sub' = [sub EXCEPT ![t] = [plan |-> p, status |-> s, end |-> end]]
    PROVE  sub' \in [Tenants -> Subscription]
BY DEF TypeOK, Subscription

-----------------------------------------------------------------------------
(* What a step leaves alone keeps the rest backed *)

\* No transaction is lost or moved to another tenant or plan, and what was
\* authorised, settled or mailed stays so.
Stable ==
    /\ \A x \in Txns : txns[x].status # "absent" =>
           /\ txns'[x].status # "absent"
           /\ txns'[x].tenant = txns[x].tenant
           /\ txns'[x].plan = txns[x].plan
    /\ authorised \subseteq authorised'
    /\ settled \subseteq settled'
    /\ \A t \in Tenants : creds[t] => creds'[t]

\* A step that writes no transaction and no history.
Quiet ==
    /\ UNCHANGED <<txns, received, authorised, settled, grants>>
    /\ \A t \in Tenants : creds[t] => creds'[t]

LEMMA OtherBacked ==
    ASSUME Stable, NEW k \in Handlers, RequestBacked(k), job'[k] = job[k]
    PROVE  RequestBacked(k)'
<1>1. CASE job[k].pc \in HoldsTxn
  BY <1>1 DEF RequestBacked, Stable, HoldsTxn, HoldsSettledTxn, HoldsGrant
<1>2. CASE job[k].pc \notin HoldsTxn
  BY <1>2 DEF RequestBacked, Stable, HoldsTxn, HoldsSettledTxn, HoldsGrant
<1> QED BY <1>1, <1>2

LEMMA StepBacked ==
    ASSUME IInv, NEW h \in Handlers, OnlyJob(h), Stable, RequestBacked(h)',
           \A x \in Txns : TxnBacked(x)'
    PROVE  Backed'
<1>1. ASSUME NEW k \in Handlers PROVE RequestBacked(k)'
  BY OtherBacked DEF IInv, Backed, OnlyJob
<1> QED BY <1>1 DEF Backed

LEMMA QuietBacked ==
    ASSUME IInv, NEW h \in Handlers, OnlyJob(h), Quiet, RequestBacked(h)'
    PROVE  Backed'
<1>1. Stable
  BY DEF Quiet, Stable
<1>2. ASSUME NEW x \in Txns PROVE TxnBacked(x)'
  BY DEF IInv, Backed, Quiet, TxnBacked
<1> QED BY <1>1, <1>2, StepBacked

\* A request that is over, or that reaches a step which only needs to know its
\* tenant, is backed.
LEMMA IdleBacked ==
    ASSUME NEW h \in Handlers, job'[h].pc = "idle"
    PROVE  RequestBacked(h)'
BY DEF RequestBacked, HoldsTxn, HoldsSettledTxn, HoldsGrant

LEMMA TenantBacked ==
    ASSUME NEW h \in Handlers, job'[h].t \in Tenants,
           job'[h].pc \in {"welcome", "open_team", "cascade"}
    PROVE  RequestBacked(h)'
BY DEF RequestBacked, HoldsTxn, HoldsSettledTxn, HoldsGrant

\* Only the status of a transaction of the request's own changes.
LEMMA WrittenBacked ==
    ASSUME IInv, NEW h \in Handlers, OnlyJob(h),
           job[h].pc \in HoldsTxn,
           NEW s \in TxnStatus \ {"absent"}, SetStatus(job[h].x, s),
           UNCHANGED <<received, authorised, grants, creds>>,
           settled' \in {settled, settled \union {job[h].x}},
           RequestBacked(h)'
    PROVE  txns' \in [Txns -> Transaction] /\ settled' \subseteq Txns /\ Backed'
<1>1. job[h].x \in Txns /\ txns[job[h].x].status # "absent"
  BY DEF IInv, Backed, RequestBacked
<1>2. /\ txns' \in [Txns -> Transaction]
      /\ txns'[job[h].x].status = s
      /\ \A y \in Txns \ {job[h].x} : txns'[y] = txns[y]
      /\ \A y \in Txns : /\ txns'[y].tenant = txns[y].tenant
                         /\ txns'[y].plan = txns[y].plan
                         /\ txns'[y].token = txns[y].token
  BY <1>1, SetStatusFacts DEF IInv
<1>3. Stable
  BY <1>1, <1>2 DEF Stable
<1>4. ASSUME NEW x \in Txns PROVE TxnBacked(x)'
  <2>1. TxnBacked(x)
    BY DEF IInv, Backed
  <2> QED BY <1>1, <1>2, <2>1 DEF TxnBacked
<1>5. settled' \subseteq Txns
  BY <1>1 DEF IInv, TypeOK
<1> QED BY <1>2, <1>3, <1>4, <1>5, StepBacked

\* A new transaction for a tenant joins the others.
LEMMA InsertedBacked ==
    ASSUME IInv, NEW h \in Handlers, OnlyJob(h),
           NEW x \in Txns, Fresh(x), NEW d \in Transaction,
           d.status # "absent", d.tenant \in Tenants, d.plan \in Plans,
           txns' = [txns EXCEPT ![x] = d],
           UNCHANGED <<received, authorised, grants, creds>>,
           settled' \in {settled, settled \union {x}},
           RequestBacked(h)'
    PROVE  txns' \in [Txns -> Transaction] /\ settled' \subseteq Txns /\ Backed'
<1>1. txns[x].status = "absent"
  BY DEF Fresh
<1>2. /\ txns' \in [Txns -> Transaction]
      /\ txns'[x] = d
      /\ \A y \in Txns \ {x} : txns'[y] = txns[y]
      /\ settled' \subseteq Txns
  BY DEF IInv, TypeOK
<1>3. Stable
  BY <1>1, <1>2 DEF Stable
<1>4. ASSUME NEW y \in Txns PROVE TxnBacked(y)'
  <2>1. TxnBacked(y) /\ TxnBacked(x)
    BY DEF IInv, Backed
  <2>2. CASE y = x
    BY <1>1, <1>2, <2>1, <2>2 DEF TxnBacked, IInv, TypeOK
  <2>3. CASE y # x
    BY <1>1, <1>2, <2>1, <2>3 DEF TxnBacked
  <2> QED BY <2>2, <2>3
<1> QED BY <1>2, <1>3, <1>4, StepBacked

-----------------------------------------------------------------------------
(* The requests a tenant makes *)

LEMMA TenantRequestSafe ==
    ASSUME IInv, NEW h \in Handlers, TenantRequest(h)
    PROVE  TypeOK' /\ Backed'
<1>a. TypeOK /\ Backed
  BY DEF IInv
<1>1. ASSUME NEW t \in Tenants, LogIn(h, t) PROVE TypeOK' /\ Backed'
  <2> DEFINE new == Task("login", t, 0, "none", "none")
  <2>1. /\ new \in Request
        /\ new.pc = "login" /\ new.t = t
    BY TaskFacts DEF JobPc, JobArg, TxnType
  <2>2. OnlyJob(h) /\ job'[h] = new /\ requests' \in Nat
    BY <1>a, <1>1, <2>1, AcceptFacts DEF LogIn
  <2>3. TypeOK'
    BY <1>a, <1>1, <2>2 DEF LogIn, OnlyJob, TypeOK, users, history
  <2>4. RequestBacked(h)'
    BY <1>1, <2>1, <2>2
       DEF LogIn, users, RequestBacked, HoldsTxn, HoldsSettledTxn, HoldsGrant
  <2> QED
    BY <1>1, <2>2, <2>3, <2>4, QuietBacked DEF LogIn, Quiet, users, history
<1>2. ASSUME NEW t \in Tenants, ResetPassword(h, t) PROVE TypeOK' /\ Backed'
  <2>1. OnlyJob(h) /\ job'[h] = Idle /\ requests' \in Nat
    BY <1>a, <1>2, IdleFacts, AcceptFacts DEF ResetPassword
  <2>2. TypeOK'
    BY <1>a, <1>2, <2>1 DEF ResetPassword, OnlyJob, TypeOK, history
  <2>3. Quiet
    BY <1>a, <1>2 DEF ResetPassword, Quiet, TypeOK, history
  <2> QED
    BY <2>1, <2>2, <2>3, IdleFacts, IdleBacked, QuietBacked
<1>3. ASSUME NEW t \in Tenants, AskRenewal(h, t) PROVE TypeOK' /\ Backed'
  <2> DEFINE new == Task("find_open", t, 0, sub[t].plan, "renewal")
  <2>1. /\ new \in Request
        /\ new.pc = "find_open" /\ new.t = t /\ new.arg = "renewal"
        /\ new.plan \in Plans
    BY <1>3, TaskFacts, ConstantFacts DEF AskRenewal, JobPc, JobArg, TxnType
  <2>2. OnlyJob(h) /\ job'[h] = new /\ requests' \in Nat
    BY <1>a, <1>3, <2>1, AcceptFacts DEF AskRenewal
  <2>3. TypeOK'
    BY <1>a, <1>3, <2>2 DEF AskRenewal, OnlyJob, TypeOK, users, history
  <2>4. RequestBacked(h)'
    BY <2>1, <2>2
       DEF RequestBacked, HoldsTxn, HoldsSettledTxn, HoldsGrant, TxnType
  <2> QED
    BY <1>3, <2>2, <2>3, <2>4, QuietBacked DEF AskRenewal, Quiet, users, history
<1>4. ASSUME NEW t \in Tenants, ResendLink(h, t) PROVE TypeOK' /\ Backed'
  <2>1. OnlyJob(h) /\ job'[h] = Idle /\ requests' \in Nat
    BY <1>a, <1>4, IdleFacts, AcceptFacts DEF ResendLink
  <2>2. TypeOK'
    BY <1>a, <1>4, <2>1, ConstantFacts DEF ResendLink, OnlyJob, TypeOK, history
  <2>3. Quiet
    BY <1>4 DEF ResendLink, Quiet, history
  <2> QED
    BY <2>1, <2>2, <2>3, IdleFacts, IdleBacked, QuietBacked
<1>5. ASSUME NEW t \in Tenants, NEW p \in PaidPlans, AskUpgrade(h, t, p)
      PROVE  TypeOK' /\ Backed'
  <2> DEFINE new == Task("find_open", t, 0, p, "upgrade")
  <2>1. /\ new \in Request
        /\ new.pc = "find_open" /\ new.t = t /\ new.arg = "upgrade"
        /\ new.plan \in Plans
    BY TaskFacts, ConstantFacts DEF JobPc, JobArg, TxnType
  <2>2. OnlyJob(h) /\ job'[h] = new /\ requests' \in Nat
    BY <1>a, <1>5, <2>1, AcceptFacts DEF AskUpgrade
  <2>3. TypeOK'
    BY <1>a, <1>5, <2>2 DEF AskUpgrade, OnlyJob, TypeOK, users, history
  <2>4. RequestBacked(h)'
    BY <2>1, <2>2
       DEF RequestBacked, HoldsTxn, HoldsSettledTxn, HoldsGrant, TxnType
  <2> QED
    BY <1>5, <2>2, <2>3, <2>4, QuietBacked DEF AskUpgrade, Quiet, users, history
<1>6. ASSUME NEW t \in Tenants, NEW p \in PaidPlans, Checkout(h, t, p)
      PROVE  TypeOK' /\ Backed'
  <2> DEFINE new == Task("checkout", t, 0, p, "dpo")
  <2>1. /\ new \in Request
        /\ new.pc = "checkout" /\ new.t = t /\ new.plan \in Plans
    BY TaskFacts, ConstantFacts DEF JobPc, JobArg, TxnType
  <2>2. OnlyJob(h) /\ job'[h] = new /\ requests' \in Nat
    BY <1>a, <1>6, <2>1, AcceptFacts DEF Checkout
  <2>3. TypeOK'
    BY <1>a, <1>6, <2>2 DEF Checkout, OnlyJob, TypeOK, users, history
  <2>4. RequestBacked(h)'
    BY <2>1, <2>2 DEF RequestBacked, HoldsTxn, HoldsSettledTxn, HoldsGrant
  <2> QED
    BY <1>6, <2>2, <2>3, <2>4, QuietBacked DEF Checkout, Quiet, users, history
<1>7. ASSUME NEW x \in Txns, MarkPaid(h, x) PROVE TypeOK' /\ Backed'
  <2> DEFINE new == Task("claim", txns[x].tenant, x, "none", "none")
  <2>1. txns[x].tenant \in Tenants /\ txns[x].status # "absent"
    BY <1>a, <1>7 DEF MarkPaid, Backed, TxnBacked
  <2>2. /\ new \in Request
        /\ new.pc = "claim" /\ new.t = txns[x].tenant /\ new.x = x
    BY <2>1, TaskFacts DEF JobPc, JobArg, TxnType
  <2>3. OnlyJob(h) /\ job'[h] = new /\ requests' \in Nat
    BY <1>a, <1>7, <2>2, AcceptFacts DEF MarkPaid
  <2>4. TypeOK'
    BY <1>a, <1>7, <2>3 DEF MarkPaid, OnlyJob, TypeOK, users, history
  <2>5. RequestBacked(h)'
    BY <1>7, <2>1, <2>2, <2>3
       DEF MarkPaid, RequestBacked, HoldsTxn, HoldsSettledTxn, HoldsGrant
  <2> QED
    BY <1>7, <2>3, <2>4, <2>5, QuietBacked DEF MarkPaid, Quiet, users, history
<1>8. ASSUME NEW x \in Txns, Callback(h, x) PROVE TypeOK' /\ Backed'
  <2> DEFINE new == Task("verify", txns[x].tenant, x, txns[x].plan, "dpo")
  <2>1. /\ txns[x].tenant \in Tenants /\ txns[x].plan \in Plans
        /\ txns[x].status # "absent"
    BY <1>a, <1>8 DEF Callback, Backed, TxnBacked
  <2>2. /\ new \in Request
        /\ new.pc = "verify" /\ new.t = txns[x].tenant /\ new.x = x
        /\ new.plan = txns[x].plan
    BY <2>1, TaskFacts DEF JobPc, JobArg
  <2>3. OnlyJob(h) /\ job'[h] = new /\ requests' \in Nat
    BY <1>a, <1>8, <2>2, AcceptFacts DEF Callback
  <2>4. TypeOK'
    BY <1>a, <1>8, <2>3 DEF Callback, OnlyJob, TypeOK, users, history
  <2>5. RequestBacked(h)'
    BY <1>8, <2>1, <2>2, <2>3
       DEF Callback, RequestBacked, HoldsTxn, HoldsSettledTxn, HoldsGrant
  <2> QED
    BY <1>8, <2>3, <2>4, <2>5, QuietBacked DEF Callback, Quiet, users, history
<1> QED
  BY <1>1, <1>2, <1>3, <1>4, <1>5, <1>6, <1>7, <1>8 DEF TenantRequest

-----------------------------------------------------------------------------
(* The requests a super admin makes *)

LEMMA AdminRequestSafe ==
    ASSUME IInv, NEW h \in Handlers, AdminRequest(h)
    PROVE  TypeOK' /\ Backed'
<1>a. TypeOK /\ Backed
  BY DEF IInv
<1>1. ASSUME NEW t \in Tenants, NEW p \in Plans, CreateTenant(h, t, p)
      PROVE  TypeOK' /\ Backed'
  <2> DEFINE new == Task("create_sub", t, 0, p, "none")
  <2>1. new \in Request /\ new.pc = "create_sub" /\ new.t = t /\ new.plan = p
    BY TaskFacts DEF JobPc, JobArg, TxnType
  <2>2. OnlyJob(h) /\ job'[h] = new /\ requests' \in Nat
    BY <1>a, <1>1, <2>1, AcceptFacts DEF CreateTenant
  <2>3. TypeOK'
    BY <1>a, <1>1, <2>2 DEF CreateTenant, OnlyJob, TypeOK, AccountStatus
  <2>4. Stable /\ \A x \in Txns : TxnBacked(x)'
    BY <1>a, <1>1 DEF CreateTenant, Stable, Backed, TxnBacked
  <2>5. RequestBacked(h)'
    BY <1>1, <2>1, <2>2
       DEF CreateTenant, RequestBacked, HoldsTxn, HoldsSettledTxn, HoldsGrant
  <2> QED
    BY <2>2, <2>3, <2>4, <2>5, StepBacked
<1>2. ASSUME NEW t \in Tenants, NEW p \in Plans, NEW paid \in BOOLEAN,
             AssignPlan(h, t, p, paid)
      PROVE  TypeOK' /\ Backed'
  <2> DEFINE arg == IF paid THEN "upgrade" ELSE "quoted"
             new == Task("assign", t, 0, p, arg)
  <2>1. new \in Request /\ new.pc = "assign" /\ new.t = t /\ new.plan = p
    <3>1. arg \in JobArg
      BY DEF JobArg, TxnType
    <3> HIDE DEF arg
    <3> QED BY <3>1, TaskFacts DEF JobPc
  <2>2. OnlyJob(h) /\ job'[h] = new /\ requests' \in Nat
    BY <1>a, <1>2, <2>1, AcceptFacts DEF AssignPlan
  <2>3. TypeOK'
    BY <1>a, <1>2, <2>2 DEF AssignPlan, OnlyJob, TypeOK, users
  <2>4. Stable /\ \A x \in Txns : TxnBacked(x)'
    BY <1>a, <1>2 DEF AssignPlan, users, Stable, Backed, TxnBacked
  <2>5. RequestBacked(h)'
    BY <1>2, <2>1, <2>2
       DEF AssignPlan, RequestBacked, HoldsTxn, HoldsSettledTxn, HoldsGrant
  <2> QED
    BY <2>2, <2>3, <2>4, <2>5, StepBacked
<1>3. ASSUME NEW t \in Tenants, NEW p \in PaidPlans,
             NEW doc \in {"invoice", "receipt"}, RecordManual(h, t, p, doc)
      PROVE  TypeOK' /\ Backed'
  <2>1. PICK x \in Txns :
            /\ Fresh(x)
            /\ txns' = [txns EXCEPT ![x] =
                   [tenant |-> t, type |-> "new",
                    status |-> IF doc = "receipt" THEN "paid"
                               ELSE "awaiting_payment",
                    plan |-> p, own |-> FALSE, token |-> FALSE]]
            /\ settled' = IF doc = "receipt" THEN settled \union {x}
                          ELSE settled
            /\ Accept(h, "manual",
                      IF doc = "invoice" THEN Idle
                      ELSE Task("read_account", t, x, "none", "none"))
    BY <1>3 DEF RecordManual
  <2> DEFINE d == [tenant |-> t, type |-> "new",
                   status |-> IF doc = "receipt" THEN "paid"
                              ELSE "awaiting_payment",
                   plan |-> p, own |-> FALSE, token |-> FALSE]
             busy == Task("read_account", t, x, "none", "none")
             new == IF doc = "invoice" THEN Idle ELSE busy
  <2>2. /\ d \in Transaction /\ d.status # "absent"
        /\ d.tenant = t /\ d.plan \in Plans
    BY ConstantFacts DEF Transaction, TxnType, TxnStatus
  <2>3. /\ busy \in Request
        /\ busy.pc = "read_account" /\ busy.t = t /\ busy.x = x
    BY TaskFacts DEF JobPc, JobArg, TxnType
  <2>4. OnlyJob(h) /\ job'[h] = new /\ requests' \in Nat
    BY <1>a, <2>1, <2>3, IdleFacts, AcceptFacts
  <2>5. txns'[x].status # "absent" /\ txns'[x].tenant = t
    BY <1>a, <2>1, <2>2 DEF TypeOK
  <2>6. RequestBacked(h)'
    <3>1. CASE doc = "invoice"
      BY <2>4, <3>1, IdleFacts, IdleBacked
    <3>2. CASE doc = "receipt"
      BY <2>1, <2>3, <2>4, <2>5, <3>2
         DEF RequestBacked, HoldsTxn, HoldsSettledTxn, HoldsGrant
    <3> QED BY <3>1, <3>2
  <2>7. txns' \in [Txns -> Transaction] /\ settled' \subseteq Txns /\ Backed'
    <3>1. /\ txns' = [txns EXCEPT ![x] = d]
          /\ settled' \in {settled, settled \union {x}}
          /\ UNCHANGED <<received, authorised, grants, creds>>
      BY <1>3, <2>1 DEF RecordManual, users
    <3> HIDE DEF d
    <3> QED BY <2>1, <2>2, <2>4, <2>6, <3>1, InsertedBacked
  <2>8. TypeOK'
    BY <1>a, <1>3, <2>4, <2>7 DEF RecordManual, OnlyJob, TypeOK, users
  <2> QED BY <2>7, <2>8
<1>4. ASSUME NEW t \in Tenants, NEW s \in AccountStatus \ {"absent"},
             SetTenantStatus(h, t, s)
      PROVE  TypeOK' /\ Backed'
  <2> DEFINE new == Task("set_account", t, 0, "none", s)
  <2>1. new \in Request /\ new.pc = "set_account" /\ new.t = t /\ new.arg = s
    BY TaskFacts DEF JobPc, JobArg
  <2>2. OnlyJob(h) /\ job'[h] = new /\ requests' \in Nat
    BY <1>a, <1>4, <2>1, AcceptFacts DEF SetTenantStatus
  <2>3. TypeOK'
    BY <1>a, <1>4, <2>2 DEF SetTenantStatus, OnlyJob, TypeOK, users, history
  <2>4. RequestBacked(h)'
    BY <2>1, <2>2 DEF RequestBacked, HoldsTxn, HoldsSettledTxn, HoldsGrant
  <2> QED
    BY <1>4, <2>2, <2>3, <2>4, QuietBacked
       DEF SetTenantStatus, Quiet, users, history
<1>5. ASSUME NEW t \in Tenants, NEW s \in SubscriptionStatus \ {"none"},
             SetSubscriptionStatus(h, t, s)
      PROVE  TypeOK' /\ Backed'
  <2> DEFINE new == Task("cascade", t, 0, "none", s)
  <2>1. new \in Request /\ new.pc = "cascade" /\ new.t = t
    BY TaskFacts DEF JobPc, JobArg
  <2>2. OnlyJob(h) /\ job'[h] = new /\ requests' \in Nat
    BY <1>a, <1>5, <2>1, AcceptFacts DEF SetSubscriptionStatus
  <2>3. sub' \in [Tenants -> Subscription]
    BY <1>a, <1>5 DEF SetSubscriptionStatus, TypeOK, Subscription
  <2>4. TypeOK'
    BY <1>a, <1>5, <2>2, <2>3
       DEF SetSubscriptionStatus, OnlyJob, TypeOK, users, history
  <2> QED
    BY <1>5, <2>1, <2>2, <2>4, TenantBacked, QuietBacked
       DEF SetSubscriptionStatus, Quiet, users, history
<1>6. ASSUME NEW x \in Txns, Confirm(h, x) PROVE TypeOK' /\ Backed'
  <2> DEFINE new == Task("settle", txns[x].tenant, x, txns[x].plan,
                         txns[x].type)
  <2>1. /\ txns[x].tenant \in Tenants /\ txns[x].plan \in Plans
        /\ txns[x].type \in TxnType /\ txns[x].status # "absent"
    BY <1>a, <1>6
       DEF Confirm, IsOpen, Backed, TxnBacked, TypeOK, Transaction
  <2>2. /\ new \in Request
        /\ new.pc = "settle" /\ new.t = txns[x].tenant /\ new.x = x
        /\ new.plan = txns[x].plan
    BY <2>1, TaskFacts DEF JobPc, JobArg
  <2>3. OnlyJob(h) /\ job'[h] = new /\ requests' \in Nat
    BY <1>a, <1>6, <2>2, AcceptFacts DEF Confirm
  <2>4. TypeOK'
    BY <1>a, <1>6, <2>1, <2>3 DEF Confirm, OnlyJob, TypeOK, users
  <2>5. Stable /\ \A y \in Txns : TxnBacked(y)'
    BY <1>a, <1>6 DEF Confirm, users, Stable, Backed, TxnBacked
  <2>6. RequestBacked(h)'
    BY <1>6, <2>1, <2>2, <2>3
       DEF Confirm, RequestBacked, HoldsTxn, HoldsSettledTxn, HoldsGrant
  <2> QED
    BY <2>3, <2>4, <2>5, <2>6, StepBacked
<1> QED
  BY <1>1, <1>2, <1>3, <1>4, <1>5, <1>6 DEF AdminRequest

-----------------------------------------------------------------------------
(* The steps of a request under way *)

LEMMA StepSafe ==
    ASSUME IInv, NEW h \in Handlers, Step(h)
    PROVE  TypeOK' /\ Backed'
<1> DEFINE j == job[h]
<1>a. TypeOK /\ Backed /\ RequestBacked(h)
  BY DEF IInv, Backed
<1>b. /\ j.pc \in JobPc /\ j.t \in Tenants \union {Nobody}
      /\ j.x \in Txns \union {0} /\ j.plan \in Plans \union {"none"}
      /\ j.arg \in JobArg /\ j.end \in Nat
  BY <1>a, JobFacts
<1>c. j.pc # "idle" => j.t \in Tenants
  BY <1>a DEF RequestBacked
<1>1. CASE CreateSub(h)
  <2>1. j.pc = "create_sub" /\ j.plan \in Plans
    BY <1>a, <1>1 DEF CreateSub, At, RequestBacked, HoldsGrant, TypeOK
  <2>2. OnlyJob(h) /\ RequestBacked(h)'
    <3>1. CASE Finish(h)
      BY <1>a, <3>1, FinishFacts, IdleBacked
    <3>2. CASE Goto(h, "welcome")
      BY <1>a, <1>c, <2>1, <3>2, GotoFacts, TenantBacked DEF JobPc
    <3> QED BY <1>1, <3>1, <3>2 DEF CreateSub
  <2>3. sub' \in [Tenants -> Subscription]
    <3>1. now + TrialLength \in Nat /\ now + MonthLength \in Nat
      BY <1>a, ConstantFacts DEF TypeOK
    <3> QED
      BY <1>a, <1>1, <2>1, <3>1
         DEF CreateSub, TypeOK, Subscription, SubscriptionStatus
  <2>4. TypeOK'
    BY <1>a, <1>1, <2>2, <2>3 DEF CreateSub, OnlyJob, TypeOK, users, history
  <2> QED
    BY <1>1, <2>2, <2>4, QuietBacked DEF CreateSub, Quiet, users, history
<1>2. CASE Welcome(h)
  <2>1. j.t \in Tenants
    BY <1>2, <1>c DEF Welcome, At
  <2>2. OnlyJob(h) /\ RequestBacked(h)'
    BY <1>a, <1>2, FinishFacts, IdleBacked DEF Welcome
  <2>3. TypeOK'
    BY <1>a, <1>2, <2>1, <2>2 DEF Welcome, OnlyJob, TypeOK, history
  <2>4. Quiet
    BY <1>a, <1>2 DEF Welcome, Quiet, TypeOK, history
  <2> QED BY <2>2, <2>3, <2>4, QuietBacked
<1>3. CASE WriteLogIn(h)
  <2>1. OnlyJob(h) /\ RequestBacked(h)'
    BY <1>a, <1>3, FinishFacts, IdleBacked DEF WriteLogIn
  <2>2. TypeOK'
    BY <1>a, <1>3, <2>1
       DEF WriteLogIn, OnlyJob, TypeOK, AccountStatus, history
  <2> QED
    BY <1>3, <2>1, <2>2, QuietBacked DEF WriteLogIn, Quiet, history
<1>4. CASE FindOpen(h)
  <2>1. OnlyJob(h) /\ RequestBacked(h)'
    <3>1. CASE Finish(h)
      BY <1>a, <3>1, FinishFacts, IdleBacked
    <3>2. CASE Goto(h, "create_invoice")
      BY <1>a, <1>4, <3>2, GotoFacts
         DEF FindOpen, At, JobPc, RequestBacked, HoldsTxn, HoldsSettledTxn,
             HoldsGrant
    <3> QED BY <1>4, <3>1, <3>2 DEF FindOpen
  <2>2. TypeOK'
    BY <1>a, <1>4, <2>1 DEF FindOpen, OnlyJob, TypeOK, users, history
  <2> QED
    BY <1>4, <2>1, <2>2, QuietBacked DEF FindOpen, Quiet, users, history
<1>5. CASE CreateInvoice(h)
  <2>1. PICK x \in Txns :
            /\ Fresh(x)
            /\ txns' = [txns EXCEPT ![x] =
                   [tenant |-> job[h].t, type |-> job[h].arg,
                    status |-> "awaiting_payment", plan |-> job[h].plan,
                    own |-> TRUE, token |-> FALSE]]
    BY <1>5 DEF CreateInvoice
  <2> DEFINE d == [tenant |-> job[h].t, type |-> job[h].arg,
                   status |-> "awaiting_payment", plan |-> job[h].plan,
                   own |-> TRUE, token |-> FALSE]
  <2>2. j.t \in Tenants /\ j.plan \in Plans /\ j.arg \in TxnType
    BY <1>a, <1>5 DEF CreateInvoice, At, RequestBacked
  <2>3. /\ d \in Transaction /\ d.status # "absent"
        /\ d.tenant \in Tenants /\ d.plan \in Plans
    BY <2>2 DEF Transaction, TxnStatus
  <2>4. OnlyJob(h) /\ RequestBacked(h)'
    BY <1>a, <1>5, FinishFacts, IdleBacked DEF CreateInvoice
  <2>5. /\ txns' = [txns EXCEPT ![x] = d]
        /\ UNCHANGED <<received, authorised, grants, creds, settled>>
    BY <1>5, <2>1 DEF CreateInvoice, users, history
  <2> HIDE DEF d
  <2>6. txns' \in [Txns -> Transaction] /\ Backed'
    BY <2>1, <2>3, <2>4, <2>5, InsertedBacked
  <2>7. TypeOK'
    BY <1>a, <1>5, <2>4, <2>6 DEF CreateInvoice, OnlyJob, TypeOK, users, history
  <2> QED BY <2>6, <2>7
<1>6. CASE WriteClaim(h)
  <2>1. OnlyJob(h) /\ RequestBacked(h)'
    BY <1>a, <1>6, FinishFacts, IdleBacked DEF WriteClaim
  <2>2. /\ j.pc \in HoldsTxn /\ SetStatus(j.x, "payment_claimed")
        /\ UNCHANGED <<received, authorised, grants, creds, settled>>
    BY <1>6 DEF WriteClaim, At, HoldsTxn, users, history
  <2>3. txns' \in [Txns -> Transaction] /\ Backed'
    BY <2>1, <2>2, WrittenBacked DEF TxnStatus
  <2>4. TypeOK'
    BY <1>a, <1>6, <2>1, <2>3 DEF WriteClaim, OnlyJob, TypeOK, users, history
  <2> QED BY <2>3, <2>4
<1>7. CASE CreateCheckout(h)
  <2>1. PICK x \in Txns :
            /\ Fresh(x)
            /\ txns' = [txns EXCEPT ![x] =
                   [tenant |-> job[h].t, type |-> "upgrade",
                    status |-> "pending", plan |-> job[h].plan,
                    own |-> FALSE, token |-> FALSE]]
            /\ job' = [job EXCEPT ![h] = [@ EXCEPT !.pc = "token", !.x = x]]
    BY <1>7 DEF CreateCheckout
  <2> DEFINE d == [tenant |-> job[h].t, type |-> "upgrade",
                   status |-> "pending", plan |-> job[h].plan,
                   own |-> FALSE, token |-> FALSE]
  <2>2. j.pc = "checkout" /\ j.t \in Tenants /\ j.plan \in Plans
    BY <1>a, <1>7 DEF CreateCheckout, At, RequestBacked
  <2>3. /\ d \in Transaction /\ d.status # "absent"
        /\ d.tenant = j.t /\ d.plan \in Plans
    BY <2>2 DEF Transaction, TxnStatus, TxnType
  <2>4. OnlyJob(h) /\ job'[h].pc = "token" /\ job'[h].x = x /\ job'[h].t = j.t
    <3> DEFINE r == [j EXCEPT !.pc = "token", !.x = x]
    <3>1. r \in Request /\ r.pc = "token" /\ r.x = x /\ r.t = j.t
      BY <1>a, JobFacts DEF Request, JobPc
    <3>2. job' = [job EXCEPT ![h] = r]
      BY <2>1
    <3> HIDE DEF r
    <3> QED BY <1>a, <3>1, <3>2, JobWritten
  <2>5. /\ txns' = [txns EXCEPT ![x] = d]
        /\ UNCHANGED <<received, authorised, grants, creds, settled>>
    BY <1>7, <2>1 DEF CreateCheckout, users, history
  <2> HIDE DEF d
  <2>6. txns'[x] = d
    BY <1>a, <2>5 DEF TypeOK
  <2>7. RequestBacked(h)'
    BY <2>2, <2>3, <2>4, <2>6
       DEF RequestBacked, HoldsTxn, HoldsSettledTxn, HoldsGrant
  <2>8. txns' \in [Txns -> Transaction] /\ Backed'
    BY <2>1, <2>2, <2>3, <2>4, <2>5, <2>7, InsertedBacked
  <2>9. TypeOK'
    BY <1>a, <1>7, <2>4, <2>8
       DEF CreateCheckout, OnlyJob, TypeOK, users, history
  <2> QED BY <2>8, <2>9
<1>8. CASE SaveToken(h)
  <2>1. OnlyJob(h) /\ RequestBacked(h)'
    BY <1>a, <1>8, FinishFacts, IdleBacked DEF SaveToken
  <2>2. /\ j.pc \in HoldsTxn /\ j.x \in Txns /\ txns[j.x].status # "absent"
        /\ UNCHANGED <<received, authorised, grants, creds, settled>>
    BY <1>a, <1>8 DEF SaveToken, At, HoldsTxn, RequestBacked, users, history
  <2>3. txns' \in [Txns -> Transaction] /\ Backed'
    <3>1. CASE SetStatus(j.x, "failed")
      BY <2>1, <2>2, <3>1, WrittenBacked DEF TxnStatus
    <3>2. CASE txns' = [txns EXCEPT ![j.x].token = TRUE]
      <4>1. txns' \in [Txns -> Transaction]
        <5>1. txns \in [Txns -> Transaction] /\ txns[j.x] \in Transaction
          BY <1>a, <2>2 DEF TypeOK
        <5>2. [txns[j.x] EXCEPT !.token = TRUE] \in Transaction
          BY <5>1 DEF Transaction
        <5>3. txns' = [txns EXCEPT ![j.x] = [txns[j.x] EXCEPT !.token = TRUE]]
          BY <3>2
        <5> QED BY <5>1, <5>2, <5>3
      <4>2. /\ \A y \in Txns : /\ txns'[y].tenant = txns[y].tenant
                               /\ txns'[y].plan = txns[y].plan
                               /\ txns'[y].status = txns[y].status
            /\ \A y \in Txns \ {j.x} : txns'[y] = txns[y]
        BY <1>a, <2>2, <3>2 DEF TypeOK, Transaction
      <4>3. Stable
        BY <2>2, <4>2 DEF Stable
      <4>4. ASSUME NEW y \in Txns PROVE TxnBacked(y)'
        BY <1>a, <2>2, <4>2 DEF Backed, TxnBacked
      <4> QED BY <2>1, <4>1, <4>3, <4>4, StepBacked
    <3> QED BY <1>8, <3>1, <3>2 DEF SaveToken
  <2>4. TypeOK'
    BY <1>a, <1>8, <2>1, <2>3 DEF SaveToken, OnlyJob, TypeOK, users, history
  <2> QED BY <2>3, <2>4
<1>9. CASE VerifyPaid(h)
  <2>1. j.pc = "verify" /\ j.x \in received
    BY <1>9 DEF VerifyPaid, At
  <2>2. /\ OnlyJob(h) /\ job'[h].pc = "settle_dpo"
        /\ job'[h].t = j.t /\ job'[h].x = j.x /\ job'[h].plan = j.plan
    BY <1>a, <1>9, GotoFacts DEF VerifyPaid, JobPc
  <2>3. <<j.t, j.plan>> \in authorised
    BY <1>a, <2>1 DEF RequestBacked, HoldsTxn, Backed, TxnBacked
  <2>4. RequestBacked(h)'
    BY <1>a, <1>9, <2>1, <2>2, <2>3
       DEF VerifyPaid, history, RequestBacked, HoldsTxn, HoldsSettledTxn,
           HoldsGrant
  <2>5. TypeOK'
    BY <1>a, <1>9, <2>2 DEF VerifyPaid, OnlyJob, TypeOK, users, history
  <2> QED
    BY <1>9, <2>2, <2>4, <2>5, QuietBacked DEF VerifyPaid, Quiet, users, history
<1>10. CASE VerifyUnpaid(h)
  <2>1. /\ OnlyJob(h) /\ job'[h].pc = "refuse_dpo"
        /\ job'[h].t = j.t /\ job'[h].x = j.x
    BY <1>a, <1>10, GotoFacts DEF VerifyUnpaid, JobPc
  <2>2. RequestBacked(h)'
    BY <1>a, <1>10, <2>1
       DEF VerifyUnpaid, At, RequestBacked, HoldsTxn, HoldsSettledTxn,
           HoldsGrant
  <2>3. TypeOK'
    BY <1>a, <1>10, <2>1 DEF VerifyUnpaid, OnlyJob, TypeOK, users, history
  <2> QED
    BY <1>10, <2>1, <2>2, <2>3, QuietBacked
       DEF VerifyUnpaid, Quiet, users, history
<1>11. CASE RefuseDpo(h)
  <2>1. OnlyJob(h) /\ RequestBacked(h)'
    BY <1>a, <1>11, FinishFacts, IdleBacked DEF RefuseDpo
  <2>2. /\ j.pc \in HoldsTxn /\ SetStatus(j.x, "failed")
        /\ UNCHANGED <<received, authorised, grants, creds, settled>>
    BY <1>11 DEF RefuseDpo, At, HoldsTxn, users, history
  <2>3. txns' \in [Txns -> Transaction] /\ Backed'
    BY <2>1, <2>2, WrittenBacked DEF TxnStatus
  <2>4. TypeOK'
    BY <1>a, <1>11, <2>1, <2>3 DEF RefuseDpo, OnlyJob, TypeOK, users, history
  <2> QED BY <2>3, <2>4
<1>12. CASE SettleDpo(h) \/ Settle(h)
  <2>1. /\ j.pc \in {"settle_dpo", "settle"} /\ SetStatus(j.x, "paid")
        /\ settled' = settled \union {j.x}
        /\ Goto(h, "read_period")
        /\ UNCHANGED <<now, users, sub, received, cron, requests, faults,
                       authorised, grants>>
    BY <1>12 DEF SettleDpo, Settle, At
  <2>2. /\ OnlyJob(h) /\ job'[h].pc = "read_period"
        /\ job'[h].t = j.t /\ job'[h].x = j.x /\ job'[h].plan = j.plan
    BY <1>a, <2>1, GotoFacts DEF JobPc
  <2>3. /\ j.t \in Tenants /\ j.x \in Txns /\ txns[j.x].tenant = j.t
        /\ <<j.t, j.plan>> \in authorised
    BY <1>a, <2>1 DEF RequestBacked, HoldsTxn, HoldsGrant
  <2>4. txns'[j.x].status = "paid" /\ txns'[j.x].tenant = j.t
    BY <1>a, <2>1, <2>3, SetStatusFacts DEF TxnStatus
  <2>5. RequestBacked(h)'
    BY <2>1, <2>2, <2>3, <2>4
       DEF RequestBacked, HoldsTxn, HoldsSettledTxn, HoldsGrant
  <2>6. txns' \in [Txns -> Transaction] /\ settled' \subseteq Txns /\ Backed'
    <3>1. j.pc \in HoldsTxn /\ "paid" \in TxnStatus \ {"absent"}
      BY <2>1 DEF HoldsTxn, TxnStatus
    <3> QED BY <2>1, <2>2, <2>5, <3>1, WrittenBacked DEF users
  <2>7. TypeOK'
    BY <1>a, <2>1, <2>2, <2>6 DEF OnlyJob, TypeOK, users
  <2> QED BY <2>6, <2>7
<1>13. CASE ReadPeriod(h)
  <2>1. j.pc = "read_period" /\ j.t \in Tenants
    BY <1>13, <1>c DEF ReadPeriod, At
  <2>2. sub[j.t].end \in Nat
    BY <1>a, <2>1 DEF TypeOK, Subscription
  <2>3. /\ OnlyJob(h) /\ job'[h].pc = "apply"
        /\ job'[h].t = j.t /\ job'[h].x = j.x /\ job'[h].plan = j.plan
    <3> DEFINE r == [j EXCEPT !.pc = "apply", !.end = sub[j.t].end]
    <3>1. /\ r \in Request /\ r.pc = "apply"
          /\ r.t = j.t /\ r.x = j.x /\ r.plan = j.plan
      BY <1>a, <2>2, JobFacts DEF Request, JobPc
    <3>2. job' = [job EXCEPT ![h] = r]
      BY <1>13 DEF ReadPeriod
    <3> HIDE DEF r
    <3> QED BY <1>a, <3>1, <3>2, JobWritten
  <2>4. RequestBacked(h)'
    BY <1>a, <1>13, <2>1, <2>3
       DEF ReadPeriod, history, RequestBacked, HoldsTxn, HoldsSettledTxn,
           HoldsGrant
  <2>5. TypeOK'
    BY <1>a, <1>13, <2>3 DEF ReadPeriod, OnlyJob, TypeOK, users, history
  <2> QED
    BY <1>13, <2>3, <2>4, <2>5, QuietBacked
       DEF ReadPeriod, Quiet, users, history
<1>14. CASE ApplyPlan(h)
  <2> DEFINE base == IF j.arg = "renewal" /\ j.end > now THEN j.end ELSE now
  <2>1. /\ j.pc = "apply" /\ j.t \in Tenants /\ j.x \in Txns
        /\ j.x \in settled /\ txns[j.x].tenant = j.t
        /\ txns[j.x].status # "absent"
    BY <1>a, <1>14
       DEF ApplyPlan, At, RequestBacked, HoldsTxn, HoldsSettledTxn
  <2>2. base + MonthLength \in Nat
    BY <1>a, <1>b, ConstantFacts DEF TypeOK
  <2>3. /\ OnlyJob(h)
        /\ \/ job'[h].pc = "idle"
           \/ /\ job'[h].pc = "read_account"
              /\ job'[h].t = j.t /\ job'[h].x = j.x
    <3>1. CASE Finish(h)
      BY <1>a, <3>1, FinishFacts
    <3>2. CASE Goto(h, "read_account")
      BY <1>a, <3>2, GotoFacts DEF JobPc
    <3> QED BY <1>14, <3>1, <3>2 DEF ApplyPlan
  <2>4. RequestBacked(h)'
    BY <1>14, <2>1, <2>3
       DEF ApplyPlan, RequestBacked, HoldsTxn, HoldsSettledTxn, HoldsGrant
  <2>5. sub' \in [Tenants -> Subscription] /\ grants' \in [Txns -> Nat]
    <3> HIDE DEF base
    <3>1. sub' = [sub EXCEPT ![j.t] = [plan |-> j.plan, status |-> "active",
                                       end |-> base + MonthLength]]
      BY <1>14 DEF ApplyPlan, base
    <3>2. grants' = [grants EXCEPT ![j.x] = @ + 1]
      BY <1>14 DEF ApplyPlan
    <3>3. sub' \in [Tenants -> Subscription]
      BY <1>a, <1>b, <2>1, <2>2, <3>1, SubWritten DEF SubscriptionStatus
    <3>4. grants' \in [Txns -> Nat]
      BY <1>a, <2>1, <3>2 DEF TypeOK
    <3> QED BY <3>3, <3>4
  <2>6. TypeOK'
    BY <1>a, <1>14, <2>3, <2>5 DEF ApplyPlan, OnlyJob, TypeOK, users
  <2>7. Stable
    BY <1>14 DEF ApplyPlan, users, Stable
  <2>8. ASSUME NEW x \in Txns PROVE TxnBacked(x)'
    <3>1. TxnBacked(x)
      BY <1>a DEF Backed
    <3>2. x # j.x => grants'[x] = grants[x]
      BY <1>a, <1>14 DEF ApplyPlan, TypeOK
    <3> QED BY <1>14, <2>1, <3>1, <3>2 DEF ApplyPlan, TxnBacked
  <2> QED BY <2>3, <2>4, <2>6, <2>7, <2>8, StepBacked
<1>15. CASE ReadAccount(h)
  <2>1. j.pc = "read_account" /\ j.t \in Tenants
    BY <1>15, <1>c DEF ReadAccount, At
  <2>2. /\ OnlyJob(h)
        /\ \/ job'[h].pc = "idle"
           \/ /\ job'[h].pc \in {"issue", "unlock"}
              /\ job'[h].t = j.t /\ job'[h].x = j.x
    <3>1. CASE Finish(h)
      BY <1>a, <3>1, FinishFacts
    <3>2. CASE Goto(h, "issue") \/ Goto(h, "unlock")
      BY <1>a, <3>2, GotoFacts DEF JobPc
    <3> QED BY <1>15, <3>1, <3>2 DEF ReadAccount
  <2>3. RequestBacked(h)'
    BY <1>a, <1>15, <2>1, <2>2
       DEF ReadAccount, history, RequestBacked, HoldsTxn, HoldsSettledTxn,
           HoldsGrant
  <2>4. TypeOK'
    BY <1>a, <1>15, <2>2 DEF ReadAccount, OnlyJob, TypeOK, users, history
  <2> QED
    BY <1>15, <2>2, <2>3, <2>4, QuietBacked
       DEF ReadAccount, Quiet, users, history
<1>16. CASE IssueCredentials(h)
  <2>1. OnlyJob(h) /\ job'[h].pc = "welcome" /\ job'[h].t = j.t
    BY <1>a, <1>16, GotoFacts DEF IssueCredentials, JobPc
  <2>2. j.t \in Tenants
    BY <1>16, <1>c DEF IssueCredentials, At
  <2>3. TypeOK'
    BY <1>a, <1>16, <2>1
       DEF IssueCredentials, OnlyJob, TypeOK, AccountStatus, history
  <2> QED
    BY <1>16, <2>1, <2>2, <2>3, TenantBacked, QuietBacked
       DEF IssueCredentials, Quiet, history
<1>17. CASE Unlock(h)
  <2>1. OnlyJob(h) /\ job'[h].pc = "open_team" /\ job'[h].t = j.t
    BY <1>a, <1>17, GotoFacts DEF Unlock, JobPc
  <2>2. j.t \in Tenants
    BY <1>17, <1>c DEF Unlock, At
  <2>3. TypeOK'
    BY <1>a, <1>17, <2>1 DEF Unlock, OnlyJob, TypeOK, AccountStatus, history
  <2> QED
    BY <1>17, <2>1, <2>2, <2>3, TenantBacked, QuietBacked
       DEF Unlock, Quiet, history
<1>18. CASE OpenTeam(h) \/ Cascade(h)
  <2>1. OnlyJob(h) /\ RequestBacked(h)'
    BY <1>a, <1>18, FinishFacts, IdleBacked DEF OpenTeam, Cascade
  <2>2. TypeOK'
    BY <1>a, <1>18, <2>1 DEF OpenTeam, Cascade, OnlyJob, TypeOK, history
  <2> QED
    BY <1>18, <2>1, <2>2, QuietBacked DEF OpenTeam, Cascade, Quiet, history
<1>19. CASE WriteTenantStatus(h)
  <2>1. j.t \in Tenants /\ j.arg \in AccountStatus
    BY <1>a, <1>19 DEF WriteTenantStatus, At, RequestBacked
  <2>2. OnlyJob(h) /\ RequestBacked(h)'
    <3>1. CASE Finish(h)
      BY <1>a, <3>1, FinishFacts, IdleBacked
    <3>2. CASE Goto(h, "cascade")
      BY <1>a, <2>1, <3>2, GotoFacts, TenantBacked DEF JobPc
    <3> QED BY <1>19, <3>1, <3>2 DEF WriteTenantStatus
  <2>3. TypeOK'
    BY <1>a, <1>19, <2>1, <2>2
       DEF WriteTenantStatus, OnlyJob, TypeOK, history
  <2> QED
    BY <1>19, <2>2, <2>3, QuietBacked DEF WriteTenantStatus, Quiet, history
<1>20. CASE WriteAssignment(h)
  <2>1. j.pc = "assign" /\ j.t \in Tenants /\ <<j.t, j.plan>> \in authorised
    BY <1>a, <1>20 DEF WriteAssignment, At, RequestBacked, HoldsGrant
  <2>2. /\ OnlyJob(h)
        /\ \/ job'[h].pc \in {"idle", "open_team"} /\ RequestBacked(h)'
           \/ /\ job'[h].pc = "record_payment"
              /\ job'[h].t = j.t /\ job'[h].plan = j.plan
    <3>1. CASE Finish(h)
      BY <1>a, <3>1, FinishFacts, IdleBacked
    <3>2. CASE Goto(h, "open_team")
      BY <1>a, <2>1, <3>2, GotoFacts, TenantBacked DEF JobPc
    <3>3. CASE Goto(h, "record_payment")
      BY <1>a, <3>3, GotoFacts DEF JobPc
    <3> QED BY <1>20, <3>1, <3>2, <3>3 DEF WriteAssignment
  <2>3. RequestBacked(h)'
    BY <1>20, <2>1, <2>2
       DEF WriteAssignment, history, RequestBacked, HoldsTxn,
           HoldsSettledTxn, HoldsGrant
  <2>4. sub' \in [Tenants -> Subscription]
    <3>1. /\ now + TrialLength \in Nat /\ now \in Nat
          /\ now + MonthLength \in Nat
      BY <1>a, ConstantFacts DEF TypeOK
    <3>2. CASE j.plan = "free"
      <4>1. sub' = [sub EXCEPT ![j.t] = [plan |-> j.plan, status |-> "trial",
                                         end |-> now + TrialLength]]
        BY <1>20, <3>2 DEF WriteAssignment
      <4> QED BY <1>a, <1>b, <2>1, <3>1, <4>1, SubWritten DEF SubscriptionStatus
    <3>3. CASE j.plan # "free"
      <4>1. PICK end \in {now, now + MonthLength} :
                sub' = [sub EXCEPT ![j.t] =
                    [plan |-> j.plan, status |-> "active", end |-> end]]
        BY <1>20, <3>3 DEF WriteAssignment
      <4>2. end \in Nat
        BY <3>1
      <4> QED
        BY <1>a, <1>b, <2>1, <4>1, <4>2, SubWritten DEF SubscriptionStatus
    <3> QED BY <3>2, <3>3
  <2>5. TypeOK'
    BY <1>a, <1>20, <2>2, <2>4
       DEF WriteAssignment, OnlyJob, TypeOK, users, history
  <2> QED
    BY <1>20, <2>2, <2>3, <2>5, QuietBacked
       DEF WriteAssignment, Quiet, users, history
<1>21. CASE RecordAssignment(h)
  <2>1. PICK x \in Txns :
            /\ Fresh(x)
            /\ txns' = [txns EXCEPT ![x] =
                   [tenant |-> job[h].t, type |-> "upgrade", status |-> "paid",
                    plan |-> job[h].plan, own |-> FALSE, token |-> FALSE]]
            /\ settled' = settled \union {x}
    BY <1>21 DEF RecordAssignment
  <2> DEFINE d == [tenant |-> job[h].t, type |-> "upgrade", status |-> "paid",
                   plan |-> job[h].plan, own |-> FALSE, token |-> FALSE]
  <2>2. j.t \in Tenants /\ j.plan \in Plans
    BY <1>a, <1>21
       DEF RecordAssignment, At, RequestBacked, HoldsGrant, TypeOK
  <2>3. /\ d \in Transaction /\ d.status # "absent"
        /\ d.tenant \in Tenants /\ d.plan \in Plans
    BY <2>2 DEF Transaction, TxnStatus, TxnType
  <2>4. OnlyJob(h) /\ RequestBacked(h)'
    <3>1. CASE Finish(h)
      BY <1>a, <3>1, FinishFacts, IdleBacked
    <3>2. CASE Goto(h, "open_team")
      BY <1>a, <2>2, <3>2, GotoFacts, TenantBacked DEF JobPc
    <3> QED BY <1>21, <3>1, <3>2 DEF RecordAssignment
  <2>5. /\ txns' = [txns EXCEPT ![x] = d]
        /\ UNCHANGED <<received, authorised, grants, creds>>
    BY <1>21, <2>1 DEF RecordAssignment, users
  <2> HIDE DEF d
  <2>6. txns' \in [Txns -> Transaction] /\ settled' \subseteq Txns /\ Backed'
    BY <2>1, <2>3, <2>4, <2>5, InsertedBacked
  <2>7. TypeOK'
    BY <1>a, <1>21, <2>4, <2>6 DEF RecordAssignment, OnlyJob, TypeOK, users
  <2> QED BY <2>6, <2>7
<1> QED
  BY <1>1, <1>2, <1>3, <1>4, <1>5, <1>6, <1>7, <1>8, <1>9, <1>10, <1>11, <1>12,
     <1>13, <1>14, <1>15, <1>16, <1>17, <1>18, <1>19, <1>20, <1>21 DEF Step

-----------------------------------------------------------------------------
(* The cron job, the clock, the customer and the faults *)

\* A step that touches neither requests nor transactions.
LEMMA AsideBacked ==
    ASSUME IInv, UNCHANGED <<job, txns, received, creds, history>>
    PROVE  Backed'
<1>1. Stable
  BY DEF Stable, history
<1>2. ASSUME NEW x \in Txns PROVE TxnBacked(x)'
  BY DEF IInv, Backed, TxnBacked, history
<1>3. ASSUME NEW k \in Handlers PROVE RequestBacked(k)'
  BY <1>1, OtherBacked DEF IInv, Backed
<1> QED BY <1>2, <1>3 DEF Backed

LEMMA CronSafe ==
    ASSUME IInv, CronStep \/ SkipTenant
    PROVE  TypeOK' /\ Backed'
<1>a. TypeOK
  BY DEF IInv
<1>b. UNCHANGED <<job, txns, received, creds, history>>
  BY DEF CronStep, ListLapsed, PickLapsed, ExpireSub, LockAccount, LockTeam,
         SendLink, SkipTenant, users
<1>1. /\ cron.pc \in {"idle", "pick", "expire", "user", "team", "link"}
      /\ cron.t \in Tenants \union {Nobody} /\ cron.todo \subseteq Tenants
      /\ cron = [pc |-> cron.pc, todo |-> cron.todo, t |-> cron.t]
  BY <1>a DEF TypeOK, CronRun
<1>2. cron' \in CronRun
  <2>1. CASE ListLapsed
    BY <1>1, <2>1 DEF ListLapsed, CronRun
  <2>2. CASE PickLapsed
    BY <1>1, <2>2 DEF PickLapsed, CronIdle, CronRun
  <2>3. CASE ExpireSub \/ LockAccount \/ LockTeam
    BY <1>1, <2>3 DEF ExpireSub, LockAccount, LockTeam, CronRun
  <2>4. CASE SendLink \/ SkipTenant
    BY <1>1, <2>4 DEF SendLink, SkipTenant, CronRun
  <2> QED BY <2>1, <2>2, <2>3, <2>4 DEF CronStep
<1>3. /\ account' \in [Tenants -> AccountStatus]
      /\ team' \in [Tenants -> {"open", "locked"}]
      /\ linkEnd' \in [Tenants -> Nat]
  <2>1. CASE LockAccount
    BY <1>a, <2>1 DEF LockAccount, TypeOK, AccountStatus
  <2>2. CASE LockTeam
    BY <1>a, <2>2 DEF LockTeam, TypeOK
  <2>3. CASE SendLink
    <3>1. now + MonthLength \in Nat
      BY <1>a, ConstantFacts DEF TypeOK
    <3>2. /\ linkEnd \in [Tenants -> Nat]
          /\ account \in [Tenants -> AccountStatus]
          /\ team \in [Tenants -> {"open", "locked"}]
      BY <1>a DEF TypeOK
    <3> QED BY <2>3, <3>1, <3>2 DEF SendLink
  <2>4. CASE ListLapsed \/ PickLapsed \/ ExpireSub \/ SkipTenant
    BY <1>a, <2>4
       DEF ListLapsed, PickLapsed, ExpireSub, SkipTenant, users, TypeOK
  <2> QED BY <2>1, <2>2, <2>3, <2>4 DEF CronStep
<1>4. sub' \in [Tenants -> Subscription]
  <2>1. CASE ExpireSub
    <3>1. sub \in [Tenants -> Subscription]
      BY <1>a DEF TypeOK
    <3>2. ASSUME NEW s \in Subscription
          PROVE  [s EXCEPT !.status = "expired"] \in Subscription
      BY DEF Subscription, SubscriptionStatus
    <3>3. sub' = [sub EXCEPT ![cron.t] =
                    [sub[cron.t] EXCEPT !.status = "expired"]]
      BY <2>1 DEF ExpireSub
    <3> QED BY <3>1, <3>2, <3>3
  <2>2. CASE ~ExpireSub
    BY <1>a, <2>2
       DEF CronStep, ListLapsed, PickLapsed, LockAccount, LockTeam, SendLink,
           SkipTenant, TypeOK
  <2> QED BY <2>1, <2>2
<1>5. now' = now /\ requests' = requests /\ faults' \in Nat
  BY <1>a
     DEF CronStep, ListLapsed, PickLapsed, ExpireSub, LockAccount, LockTeam,
         SendLink, SkipTenant, TypeOK
<1>6. TypeOK'
  BY <1>a, <1>b, <1>2, <1>3, <1>4, <1>5 DEF TypeOK, history
<1> QED BY <1>b, <1>6, AsideBacked

LEMMA CustomerPaysSafe ==
    ASSUME IInv, NEW x \in Txns, CustomerPays(x)
    PROVE  TypeOK' /\ Backed'
<1>a. TypeOK /\ Backed /\ TxnBacked(x)
  BY DEF IInv, Backed
<1>1. /\ txns[x].tenant \in Tenants /\ txns[x].plan \in Plans
      /\ txns[x].status # "absent"
  BY <1>a DEF CustomerPays, TxnBacked
<1>2. TypeOK'
  BY <1>a, <1>1 DEF CustomerPays, TypeOK, users
<1>3. Stable
  BY DEF CustomerPays, Stable, users
<1>4. ASSUME NEW y \in Txns PROVE TxnBacked(y)'
  BY <1>a, <1>1 DEF CustomerPays, Backed, TxnBacked
<1>5. ASSUME NEW k \in Handlers PROVE RequestBacked(k)'
  BY <1>a, <1>3, OtherBacked DEF CustomerPays, Backed
<1> QED BY <1>2, <1>4, <1>5 DEF Backed

LEMMA TickSafe == IInv /\ Tick => TypeOK' /\ Backed'
<1> SUFFICES ASSUME IInv, Tick PROVE TypeOK' /\ Backed'
  OBVIOUS
<1>1. TypeOK'
  BY DEF IInv, Tick, TypeOK, users, history
<1> QED BY <1>1, AsideBacked DEF Tick, users

LEMMA AbortSafe ==
    ASSUME IInv, NEW h \in Handlers, Abort(h)
    PROVE  TypeOK' /\ Backed'
<1>1. OnlyJob(h) /\ RequestBacked(h)'
  BY FinishFacts, IdleBacked DEF IInv, Abort
<1>2. TypeOK'
  BY <1>1 DEF IInv, Abort, OnlyJob, TypeOK, users, history
<1> QED BY <1>1, <1>2, QuietBacked DEF Abort, Quiet, users, history

LEMMA RestartSafe == IInv /\ Restart => TypeOK' /\ Backed'
<1> SUFFICES ASSUME IInv, Restart PROVE TypeOK' /\ Backed'
  OBVIOUS
<1>1. job' \in [Handlers -> Request] /\ \A k \in Handlers : job'[k].pc = "idle"
  BY IdleFacts DEF Restart
<1>2. TypeOK'
  BY <1>1 DEF IInv, Restart, CronIdle, CronRun, TypeOK, users, history
<1>3. ASSUME NEW k \in Handlers PROVE RequestBacked(k)'
  BY <1>1, IdleBacked
<1>4. ASSUME NEW x \in Txns PROVE TxnBacked(x)'
  BY DEF IInv, Backed, Restart, TxnBacked, history
<1> QED BY <1>2, <1>3, <1>4 DEF Backed

-----------------------------------------------------------------------------
(* The theorems *)

LEMMA InitIInv == Init => IInv
<1> SUFFICES ASSUME Init PROVE IInv
  OBVIOUS
<1>1. TypeOK
  BY IdleFacts DEF Init, TypeOK, AccountStatus, NoSub, Subscription,
         SubscriptionStatus, NoTxn, Transaction, TxnType, TxnStatus, CronIdle,
         CronRun
<1>2. ASSUME NEW h \in Handlers PROVE RequestBacked(h)
  BY IdleFacts DEF Init, RequestBacked, HoldsTxn, HoldsSettledTxn, HoldsGrant
<1>3. ASSUME NEW x \in Txns PROVE TxnBacked(x)
  BY DEF Init, NoTxn, TxnBacked
<1> QED BY <1>1, <1>2, <1>3 DEF IInv, Backed

LEMMA NextIInv == IInv /\ [Next]_vars => IInv'
<1> SUFFICES ASSUME IInv, [Next]_vars PROVE TypeOK' /\ Backed'
  BY DEF IInv
<1>1. CASE Next
  BY <1>1, TenantRequestSafe, AdminRequestSafe, StepSafe, AbortSafe, CronSafe,
     CustomerPaysSafe, TickSafe, RestartSafe DEF Next
<1>2. CASE UNCHANGED vars
  <2>1. TypeOK'
    BY <1>2 DEF IInv, TypeOK, vars
  <2> QED BY <1>2, <2>1, AsideBacked DEF vars, history
<1> QED BY <1>1, <1>2

\* Every variable keeps its type, whatever requests run side by side.
THEOREM TypeCorrect == Spec => []TypeOK
<1>1. IInv => TypeOK
  BY DEF IInv
<1> QED BY <1>1, InitIInv, NextIInv, PTL DEF Spec

\* What a request carries is backed by the database when it is used.
THEOREM RequestsStayBacked == Spec => []Backed
<1>1. IInv => Backed
  BY DEF IInv
<1> QED BY <1>1, InitIInv, NextIInv, PTL DEF Spec

\* No period is ever added for a transaction that was not written "paid" first:
\* confirmInvoicePayment and handleDpoCallback settle, then apply.
THEOREM GrantsAreSettled == Spec => []GrantNeedsSettlement
<1>1. IInv => GrantNeedsSettlement
  BY DEF IInv, Backed, TxnBacked, GrantNeedsSettlement
<1> QED BY <1>1, InitIInv, NextIInv, PTL DEF Spec

-----------------------------------------------------------------------------
(* Access follows payment *)

\* The steps that write an account; every other step leaves all of them alone.
LEMMA AccountWriters ==
    ASSUME [Next]_vars
    PROVE  \/ UNCHANGED account
           \/ \E h \in Handlers :
                  \/ \E t \in Tenants, p \in Plans : CreateTenant(h, t, p)
                  \/ WriteLogIn(h) \/ IssueCredentials(h) \/ Unlock(h)
                  \/ WriteTenantStatus(h)
           \/ LockAccount
<1>1. ASSUME NEW h \in Handlers, TenantRequest(h) PROVE UNCHANGED account
  BY <1>1 DEF TenantRequest, LogIn, ResetPassword, AskRenewal, ResendLink,
              AskUpgrade, Checkout, MarkPaid, Callback, users
<1>2. ASSUME NEW h \in Handlers, AdminRequest(h)
      PROVE  \/ UNCHANGED account
             \/ \E t \in Tenants, p \in Plans : CreateTenant(h, t, p)
  BY <1>2 DEF AdminRequest, AssignPlan, RecordManual, SetTenantStatus,
              SetSubscriptionStatus, Confirm, users
<1>3. ASSUME NEW h \in Handlers, Step(h)
      PROVE  \/ UNCHANGED account
             \/ WriteLogIn(h) \/ IssueCredentials(h) \/ Unlock(h)
             \/ WriteTenantStatus(h)
  BY <1>3 DEF Step, CreateSub, Welcome, FindOpen, CreateInvoice, WriteClaim,
              CreateCheckout, SaveToken, VerifyPaid, VerifyUnpaid, RefuseDpo,
              SettleDpo, Settle, ReadPeriod, ApplyPlan, ReadAccount, OpenTeam,
              Cascade, WriteAssignment, RecordAssignment, users
<1>4. CASE CronStep \/ SkipTenant
  BY <1>4 DEF CronStep, ListLapsed, PickLapsed, ExpireSub, LockTeam, SendLink,
              SkipTenant, users
<1>5. CASE (\E h \in Handlers : Abort(h)) \/ (\E x \in Txns : CustomerPays(x))
  BY <1>5 DEF Abort, CustomerPays, users
<1>6. CASE Tick \/ Restart \/ UNCHANGED vars
  BY <1>6 DEF Tick, Restart, users, vars
<1> QED BY <1>1, <1>2, <1>3, <1>4, <1>5, <1>6 DEF Next

LEMMA AccessStep ==
    ASSUME IInv, [Next]_vars, NEW t \in Tenants,
           account[t] = "awaiting_payment", ~creds[t],
           account'[t] \in {"pending", "active"}
    PROVE  \/ \E x \in settled : txns[x].tenant = t
           \/ \E h \in Handlers : At(h, "set_account") /\ job[h].t = t
<1>a. TypeOK /\ \A h \in Handlers : RequestBacked(h)
  BY DEF IInv, Backed
<1>1. ASSUME NEW h \in Handlers, NEW u \in Tenants, NEW p \in Plans,
             CreateTenant(h, u, p)
      PROVE  FALSE
  BY <1>a, <1>1 DEF CreateTenant, TypeOK
<1>2. ASSUME NEW h \in Handlers, WriteLogIn(h) PROVE FALSE
  <2>1. creds[job[h].t]
    BY <1>a, <1>2 DEF WriteLogIn, At, RequestBacked
  <2> QED BY <1>a, <1>2, <2>1 DEF WriteLogIn, TypeOK
<1>3. ASSUME NEW h \in Handlers, IssueCredentials(h) \/ Unlock(h)
      PROVE  \E x \in settled : txns[x].tenant = t
  <2>1. job[h].x \in settled /\ txns[job[h].x].tenant = job[h].t
    BY <1>a, <1>3 DEF IssueCredentials, Unlock, At, RequestBacked, HoldsTxn,
                      HoldsSettledTxn
  <2>2. job[h].t = t
    BY <1>a, <1>3 DEF IssueCredentials, Unlock, TypeOK
  <2> QED BY <2>1, <2>2
<1>4. ASSUME NEW h \in Handlers, WriteTenantStatus(h)
      PROVE  At(h, "set_account") /\ job[h].t = t
  BY <1>a, <1>4 DEF WriteTenantStatus, TypeOK
<1>5. CASE LockAccount
  BY <1>a, <1>5 DEF LockAccount, TypeOK
<1> QED BY <1>1, <1>2, <1>3, <1>4, <1>5, AccountWriters

\* A tenant that never had a password leaves awaiting_payment only behind a
\* settled payment of its own, or by a super admin's hand.
THEOREM AccessFollowsPayment == Spec => NoAccessBeforePayment
<1>1. IInv /\ [Next]_vars =>
          \A t \in Tenants :
              (/\ account[t] = "awaiting_payment" /\ ~creds[t]
               /\ account'[t] \in {"pending", "active"})
              => \/ \E x \in settled : txns[x].tenant = t
                 \/ \E h \in Handlers : At(h, "set_account") /\ job[h].t = t
  BY AccessStep
<1> QED
  BY <1>1, InitIInv, NextIInv, PTL DEF Spec, NoAccessBeforePayment

-----------------------------------------------------------------------------
(* The plan and its paid-up date are granted, never taken *)

\* A function that differs from another at one point is its EXCEPT.
LEMMA PointChange ==
    ASSUME NEW S, NEW f, NEW g, NEW t \in S, NEW v,
           f = [u \in S |-> f[u]], g = [u \in S |-> g[u]],
           g[t] = v, \A u \in S \ {t} : g[u] = f[u]
    PROVE  g = [f EXCEPT ![t] = v]
OBVIOUS

\* Writing a subscription with an authorised plan is a Grant.
LEMMA GrantRefines ==
    ASSUME TypeOK, NEW t \in Tenants, NEW p \in Plans,
           <<t, p>> \in authorised, authorised' = authorised,
           NEW s, NEW end \in Nat,
           sub' = [sub EXCEPT ![t] = [plan |-> p, status |-> s, end |-> end]]
    PROVE  E!EntitlementNext
<1> DEFINE plan  == [u \in Tenants |-> sub[u].plan]
           until == [u \in Tenants |-> sub[u].end]
<1>1. \A u \in Tenants :
          /\ sub'[u].plan = IF u = t THEN p ELSE plan[u]
          /\ sub'[u].end = IF u = t THEN end ELSE until[u]
  BY DEF TypeOK
<1>2. /\ plan = [u \in Tenants |-> plan[u]]
      /\ plan' = [u \in Tenants |-> plan'[u]]
      /\ plan'[t] = p
      /\ \A u \in Tenants \ {t} : plan'[u] = plan[u]
  BY <1>1
<1>3. /\ until = [u \in Tenants |-> until[u]]
      /\ until' = [u \in Tenants |-> until'[u]]
      /\ until'[t] = end
      /\ \A u \in Tenants \ {t} : until'[u] = until[u]
  BY <1>1
<1> HIDE DEF plan, until
<1>4. /\ plan' = [plan EXCEPT ![t] = p]
      /\ until' = [until EXCEPT ![t] = until'[t]]
      /\ until'[t] \in Nat
  BY <1>2, <1>3, PointChange
<1>5. E!Grant(t, p)
  BY <1>4 DEF E!Grant, plan, until
<1> QED BY <1>5 DEF E!EntitlementNext

\* Approving a plan without writing a subscription is an Authorise.
LEMMA AuthoriseRefines ==
    ASSUME NEW t \in Tenants, NEW p \in Plans, UNCHANGED sub,
           authorised' = authorised \union {<<t, p>>}
    PROVE  E!EntitlementNext
<1>1. E!Authorise(t, p)
  BY DEF E!Authorise
<1> QED BY <1>1 DEF E!EntitlementNext

\* Writing only statuses, or nothing, is a stutter.
LEMMA StutterRefines ==
    ASSUME UNCHANGED authorised,
           \A t \in Tenants : /\ sub'[t].plan = sub[t].plan
                              /\ sub'[t].end = sub[t].end
    PROVE  UNCHANGED E!entitlementVars
BY DEF E!entitlementVars

\* A request's step grants, or leaves plans and dates alone.
LEMMA StepRefines ==
    ASSUME IInv, NEW h \in Handlers, Step(h)
    PROVE  E!EntitlementNext \/ UNCHANGED E!entitlementVars
<1> DEFINE j == job[h]
<1>a. TypeOK /\ RequestBacked(h)
  BY DEF IInv, Backed
<1>b. /\ now \in Nat /\ now + TrialLength \in Nat /\ now + MonthLength \in Nat
      /\ j.end \in Nat /\ j.end + MonthLength \in Nat
  BY <1>a, JobFacts, ConstantFacts DEF TypeOK
<1>c. j.pc \in {"create_sub", "apply", "assign"} =>
          /\ j.t \in Tenants /\ j.plan \in Plans
          /\ <<j.t, j.plan>> \in authorised
  BY <1>a DEF RequestBacked, HoldsGrant, TypeOK
<1>1. CASE CreateSub(h)
  <2>1. CASE sub[j.t] # NoSub
    BY <1>1, <2>1, StutterRefines DEF CreateSub, history
  <2>2. CASE sub[j.t] = NoSub /\ j.plan = "free"
    <3>1. sub' = [sub EXCEPT ![j.t] = [plan |-> j.plan, status |-> "trial",
                                       end |-> now + TrialLength]]
      BY <1>1, <2>2 DEF CreateSub
    <3> QED BY <1>a, <1>b, <1>c, <1>1, <3>1, GrantRefines
            DEF CreateSub, At, history
  <2>3. CASE sub[j.t] = NoSub /\ j.plan # "free"
    <3>1. sub' = [sub EXCEPT ![j.t] = [plan |-> j.plan, status |-> "active",
                                       end |-> now + MonthLength]]
      BY <1>1, <2>3 DEF CreateSub
    <3> QED BY <1>a, <1>b, <1>c, <1>1, <3>1, GrantRefines
            DEF CreateSub, At, history
  <2> QED BY <2>1, <2>2, <2>3
<1>2. CASE ApplyPlan(h)
  <2> DEFINE base == IF j.arg = "renewal" /\ j.end > now THEN j.end ELSE now
  <2>1. base + MonthLength \in Nat
    BY <1>b
  <2> HIDE DEF base
  <2>2. sub' = [sub EXCEPT ![j.t] = [plan |-> j.plan, status |-> "active",
                                     end |-> base + MonthLength]]
    BY <1>2 DEF ApplyPlan, base
  <2>3. /\ j.t \in Tenants /\ j.plan \in Plans
        /\ <<j.t, j.plan>> \in authorised /\ authorised' = authorised
    BY <1>c, <1>2 DEF ApplyPlan, At
  <2> QED BY <1>a, <2>1, <2>2, <2>3, GrantRefines
<1>3. CASE WriteAssignment(h)
  <2>1. CASE j.plan = "free"
    <3>1. sub' = [sub EXCEPT ![j.t] = [plan |-> j.plan, status |-> "trial",
                                       end |-> now + TrialLength]]
      BY <1>3, <2>1 DEF WriteAssignment
    <3> QED BY <1>a, <1>b, <1>c, <1>3, <3>1, GrantRefines
            DEF WriteAssignment, At, history
  <2>2. CASE j.plan # "free"
    <3>1. PICK end \in {now, now + MonthLength} :
              sub' = [sub EXCEPT ![j.t] = [plan |-> j.plan, status |-> "active",
                                           end |-> end]]
      BY <1>3, <2>2 DEF WriteAssignment
    <3>2. end \in Nat
      BY <1>b
    <3> QED BY <1>a, <1>c, <1>3, <3>1, <3>2, GrantRefines
            DEF WriteAssignment, At, history
  <2> QED BY <2>1, <2>2
<1>4. CASE ~(CreateSub(h) \/ ApplyPlan(h) \/ WriteAssignment(h))
  <2>1. UNCHANGED <<sub, authorised>>
    BY <1>4
       DEF Step, Welcome, WriteLogIn, FindOpen, CreateInvoice, WriteClaim,
           CreateCheckout, SaveToken, VerifyPaid, VerifyUnpaid, RefuseDpo,
           SettleDpo, Settle, ReadPeriod, ReadAccount, IssueCredentials,
           Unlock, OpenTeam, WriteTenantStatus, Cascade, RecordAssignment,
           history
  <2> QED BY <2>1, StutterRefines
<1> QED BY <1>1, <1>2, <1>3, <1>4

\* Accepting a request approves a plan, or leaves plans and dates alone.
LEMMA RequestRefines ==
    ASSUME IInv, NEW h \in Handlers, TenantRequest(h) \/ AdminRequest(h)
    PROVE  E!EntitlementNext \/ UNCHANGED E!entitlementVars
<1>a. TypeOK /\ \A x \in Txns : TxnBacked(x)
  BY DEF IInv, Backed
<1>1. CASE TenantRequest(h)
  <2>1. UNCHANGED <<sub, authorised>>
    BY <1>1 DEF TenantRequest, LogIn, ResetPassword, AskRenewal, ResendLink,
                AskUpgrade, Checkout, MarkPaid, Callback, history
  <2> QED BY <2>1, StutterRefines
<1>2. ASSUME NEW t \in Tenants, NEW p \in Plans, NEW paid \in BOOLEAN,
             CreateTenant(h, t, p) \/ AssignPlan(h, t, p, paid)
      PROVE  E!EntitlementNext
  BY <1>2, AuthoriseRefines DEF CreateTenant, AssignPlan
<1>3. ASSUME NEW t \in Tenants, NEW p \in PaidPlans,
             NEW doc \in {"invoice", "receipt"}, RecordManual(h, t, p, doc)
      PROVE  UNCHANGED E!entitlementVars
  BY <1>3, StutterRefines DEF RecordManual
<1>4. ASSUME NEW t \in Tenants, NEW s, SetTenantStatus(h, t, s)
      PROVE  UNCHANGED E!entitlementVars
  BY <1>4, StutterRefines DEF SetTenantStatus, history
<1>5. ASSUME NEW t \in Tenants, NEW s \in SubscriptionStatus,
             SetSubscriptionStatus(h, t, s)
      PROVE  UNCHANGED E!entitlementVars
  <2>1. \A u \in Tenants : /\ sub'[u].plan = sub[u].plan
                           /\ sub'[u].end = sub[u].end
    BY <1>a, <1>5 DEF SetSubscriptionStatus, TypeOK, Subscription
  <2> QED BY <1>5, <2>1, StutterRefines DEF SetSubscriptionStatus, history
<1>6. ASSUME NEW x \in Txns, Confirm(h, x) PROVE E!EntitlementNext
  <2>1. txns[x].tenant \in Tenants /\ txns[x].plan \in Plans
    BY <1>a, <1>6 DEF Confirm, IsOpen, TxnBacked
  <2> QED BY <1>6, <2>1, AuthoriseRefines DEF Confirm
<1> QED
  BY <1>1, <1>2, <1>3, <1>4, <1>5, <1>6 DEF AdminRequest

LEMMA AsideRefines ==
    ASSUME IInv,
           \/ CronStep \/ SkipTenant \/ Tick \/ Restart
           \/ \E h \in Handlers : Abort(h)
           \/ \E x \in Txns : CustomerPays(x)
    PROVE  E!EntitlementNext \/ UNCHANGED E!entitlementVars
<1>a. TypeOK /\ \A x \in Txns : TxnBacked(x)
  BY DEF IInv, Backed
<1>1. CASE ExpireSub
  <2>1. \A u \in Tenants : /\ sub'[u].plan = sub[u].plan
                           /\ sub'[u].end = sub[u].end
    BY <1>a, <1>1 DEF ExpireSub, TypeOK, Subscription
  <2> QED BY <1>1, <2>1, StutterRefines DEF ExpireSub, history
<1>2. CASE \/ ListLapsed \/ PickLapsed \/ LockAccount \/ LockTeam \/ SendLink
           \/ SkipTenant \/ Tick \/ Restart \/ \E h \in Handlers : Abort(h)
  BY <1>2, StutterRefines
     DEF ListLapsed, PickLapsed, LockAccount, LockTeam, SendLink, SkipTenant,
         Tick, Restart, Abort, history
<1>3. ASSUME NEW x \in Txns, CustomerPays(x) PROVE E!EntitlementNext
  <2>1. txns[x].tenant \in Tenants /\ txns[x].plan \in Plans
    BY <1>a, <1>3 DEF CustomerPays, TxnBacked
  <2> QED BY <1>3, <2>1, AuthoriseRefines DEF CustomerPays
<1> QED BY <1>1, <1>2, <1>3 DEF CronStep

\* Every behaviour of the payment flows moves plans and paid-up dates only as
\* Entitlement allows: behind an authority's approval of that very plan.
THEOREM BillingRefinesEntitlement == Spec => RefinesEntitlement
<1>1. Init => E!EntitlementInit
  <2> SUFFICES ASSUME Init PROVE E!EntitlementInit
    OBVIOUS
  <2> QED BY DEF Init, NoSub, E!EntitlementInit
<1>2. IInv /\ [Next]_vars => [E!EntitlementNext]_(E!entitlementVars)
  <2> SUFFICES ASSUME IInv, [Next]_vars
               PROVE  E!EntitlementNext \/ UNCHANGED E!entitlementVars
    OBVIOUS
  <2>1. CASE Next
    BY <2>1, StepRefines, RequestRefines, AsideRefines DEF Next
  <2>2. CASE UNCHANGED vars
    BY <2>2, StutterRefines DEF vars
  <2> QED BY <2>1, <2>2
<1> QED
  BY <1>1, <1>2, InitIInv, NextIInv, PTL
     DEF Spec, RefinesEntitlement, E!EntitlementSpec
-----------------------------------------------------------------------------
(* Requests of a tenant served in turn, a payment counts once *)

(***************************************************************************)
(* Two requests that work on one transaction at once may apply it twice,   *)
(* so these results are about behaviours in which no two requests about    *)
(* one tenant are in flight together; those of other tenants, the cron     *)
(* job, the gateway's customers, failures and restarts interleave with     *)
(* them all the same.  With one handler, as in the run billing_serial,     *)
(* every behaviour is of that kind.                                        *)
(***************************************************************************)
InTurn ==
    \A g, h \in Handlers :
        g # h /\ job[g].pc # "idle" /\ job[h].pc # "idle"
        => job[g].t # job[h].t

\* What a request read of the transactions still holds when it writes.
StillTrue(h) ==
    LET j == job[h]
    IN  /\ j.pc = "create_invoice" =>
               \A x \in Txns :
                   txns[x].own /\ txns[x].tenant = j.t => ~IsOpen(x)
        /\ j.pc = "claim" => txns[j.x].status = "awaiting_payment"
        /\ j.pc \in {"token", "verify", "settle_dpo", "refuse_dpo"} =>
               txns[j.x].status = "pending"
        /\ j.pc = "settle" => IsOpen(j.x)
        /\ j.pc \in {"read_period", "apply"} => grants[j.x] = 0

\* A transaction is applied once at most, and is paid by then.
AppliedOnce(x) ==
    /\ grants[x] <= 1
    /\ grants[x] > 0 => txns[x].status = "paid"

SerialInv ==
    /\ \A h \in Handlers : StillTrue(h)
    /\ \A x \in Txns : AppliedOnce(x)
    /\ \A x \in Txns : x \in settled => txns[x].status = "paid"
    /\ OneOpenRequest

\* No receipt is taken back by a step.
PaidStays == \A x \in Txns : txns[x].status = "paid" => txns'[x].status = "paid"

LEMMA SerialInit == Init => SerialInv
<1> SUFFICES ASSUME Init PROVE SerialInv
  OBVIOUS
<1>1. ASSUME NEW h \in Handlers PROVE StillTrue(h)
  BY IdleFacts DEF Init, StillTrue
<1>2. ASSUME NEW x \in Txns PROVE AppliedOnce(x) /\ x \notin settled
  BY DEF Init, AppliedOnce
<1>3. ASSUME NEW x \in Txns PROVE ~IsOpen(x)
  BY DEF Init, IsOpen, NoTxn
<1> QED BY <1>1, <1>2, <1>3 DEF SerialInv, OneOpenRequest

\* A step that writes neither transactions nor grants.
LEMMA SerialQuiet ==
    ASSUME SerialInv, NEW h \in Handlers, OnlyJob(h), StillTrue(h)',
           UNCHANGED <<txns, grants, settled>>
    PROVE  SerialInv' /\ PaidStays
<1>1. ASSUME NEW k \in Handlers PROVE StillTrue(k)'
  BY DEF OnlyJob, SerialInv, StillTrue, IsOpen
<1>2. ASSUME NEW x \in Txns PROVE AppliedOnce(x)'
  BY DEF SerialInv, AppliedOnce
<1>3. OneOpenRequest'
  BY DEF SerialInv, OneOpenRequest, IsOpen
<1> QED BY <1>1, <1>2, <1>3 DEF SerialInv, PaidStays

\* What another request holds of transactions is of another tenant.
LEMMA OthersTxn ==
    ASSUME InTurn, IInv, NEW h \in Handlers, NEW k \in Handlers \ {h},
           job[h].pc \in HoldsTxn, job[k].pc \in HoldsTxn
    PROVE  job[k].x \in Txns /\ job[k].x # job[h].x
<1>1. RequestBacked(h) /\ RequestBacked(k)
  BY DEF IInv, Backed
<1>2. "idle" \notin HoldsTxn
  BY DEF HoldsTxn, HoldsSettledTxn
<1> QED BY <1>1, <1>2 DEF RequestBacked, InTurn

\* A request past the steps that read or write a transaction knows nothing.
LEMMA NothingHeld ==
    ASSUME NEW h \in Handlers,
           job'[h].pc \notin {"create_invoice", "claim", "token", "verify",
                              "settle_dpo", "refuse_dpo", "settle",
                              "read_period", "apply"}
    PROVE  StillTrue(h)'
BY DEF StillTrue

\* The request writes the status of its transaction, which is not paid yet and
\* is not opened by it.
LEMMA SerialWritten ==
    ASSUME InTurn, IInv, SerialInv, NEW h \in Handlers,
           OnlyJob(h), job[h].pc \in HoldsTxn,
           NEW s \in TxnStatus, SetStatus(job[h].x, s),
           txns[job[h].x].status # "paid",
           s \in {"awaiting_payment", "payment_claimed"} => IsOpen(job[h].x),
           \A x \in Txns : txns'[x].own = txns[x].own,
           settled' = IF s = "paid" THEN settled \union {job[h].x}
                                    ELSE settled,
           UNCHANGED grants, StillTrue(h)'
    PROVE  SerialInv' /\ PaidStays
<1> DEFINE x == job[h].x
<1>1. x \in Txns
  BY DEF IInv, Backed, RequestBacked
<1>2. /\ txns'[x].status = s
      /\ \A y \in Txns \ {x} : txns'[y] = txns[y]
      /\ \A y \in Txns : txns'[y].tenant = txns[y].tenant
  BY <1>1, SetStatusFacts DEF IInv
<1>3. ASSUME NEW k \in Handlers PROVE StillTrue(k)'
  <2> SUFFICES ASSUME k # h PROVE StillTrue(k)'
    OBVIOUS
  <2>1. StillTrue(k) /\ job'[k] = job[k]
    BY DEF SerialInv, OnlyJob
  <2>2. job[k].pc \in HoldsTxn => txns'[job[k].x] = txns[job[k].x]
    BY <1>2, OthersTxn
  <2>3. \A y \in Txns : IsOpen(y)' => IsOpen(y)
    BY <1>2 DEF IsOpen
  <2> QED
    BY <1>2, <2>1, <2>2, <2>3
       DEF StillTrue, IsOpen, HoldsTxn, HoldsSettledTxn
<1>4. ASSUME NEW y \in Txns
      PROVE  AppliedOnce(y)' /\ (y \in settled => txns[y].status = "paid")'
  <2>1. /\ AppliedOnce(y) /\ (y \in settled => txns[y].status = "paid")
        /\ grants[y] \in Nat
    BY DEF SerialInv, IInv, TypeOK
  <2>2. CASE y = x
    <3>1. grants[y] = 0 /\ y \notin settled
      BY <2>1, <2>2 DEF AppliedOnce
    <3> QED BY <1>2, <2>2, <3>1 DEF AppliedOnce
  <2>3. CASE y # x
    BY <1>2, <2>1, <2>3 DEF AppliedOnce
  <2> QED BY <2>2, <2>3
<1>5. OneOpenRequest'
  <2>1. ASSUME NEW y \in Txns, IsOpen(y)' PROVE IsOpen(y)
    BY <1>2, <2>1 DEF IsOpen
  <2> QED BY <1>2, <2>1 DEF SerialInv, OneOpenRequest
<1>6. PaidStays
  BY <1>2 DEF PaidStays
<1> QED BY <1>3, <1>4, <1>5, <1>6 DEF SerialInv

\* A transaction is inserted; the tenant's own only where none is open.
LEMMA SerialInserted ==
    ASSUME InTurn, IInv, SerialInv, NEW h \in Handlers, OnlyJob(h),
           NEW x \in Txns, Fresh(x), NEW d,
           txns' = [txns EXCEPT ![x] = d],
           d.own => /\ d.tenant = job[h].t /\ job[h].pc # "idle"
                    /\ \A y \in Txns :
                          txns[y].own /\ txns[y].tenant = d.tenant
                          => ~IsOpen(y),
           settled' = IF d.status = "paid" THEN settled \union {x}
                                           ELSE settled,
           UNCHANGED grants, StillTrue(h)'
    PROVE  SerialInv' /\ PaidStays
<1>1. txns[x].status = "absent"
  BY DEF Fresh
<1>2. /\ txns'[x] = d
      /\ \A y \in Txns \ {x} : txns'[y] = txns[y]
  BY DEF IInv, TypeOK
<1>3. ASSUME NEW k \in Handlers PROVE StillTrue(k)'
  <2> SUFFICES ASSUME k # h PROVE StillTrue(k)'
    OBVIOUS
  <2>1. StillTrue(k) /\ RequestBacked(k) /\ job'[k] = job[k]
    BY DEF SerialInv, OnlyJob, IInv, Backed
  <2>2. job[k].pc \in HoldsTxn => txns'[job[k].x] = txns[job[k].x]
    BY <1>1, <1>2, <2>1 DEF RequestBacked
  <2>3. ASSUME job[k].pc = "create_invoice", NEW y \in Txns,
               txns'[y].own, txns'[y].tenant = job[k].t
        PROVE  ~IsOpen(y)'
    <3>1. CASE y = x
      BY <1>2, <2>3, <3>1 DEF InTurn
    <3>2. CASE y # x
      BY <1>2, <2>1, <2>3, <3>2 DEF StillTrue, IsOpen
    <3> QED BY <3>1, <3>2
  <2> QED
    BY <2>1, <2>2, <2>3 DEF StillTrue, IsOpen, HoldsTxn, HoldsSettledTxn
<1>4. ASSUME NEW y \in Txns
      PROVE  AppliedOnce(y)' /\ (y \in settled => txns[y].status = "paid")'
  <2>1. /\ AppliedOnce(y) /\ (y \in settled => txns[y].status = "paid")
        /\ grants[y] \in Nat
    BY DEF SerialInv, IInv, TypeOK
  <2>2. CASE y = x
    <3>1. grants[y] = 0 /\ y \notin settled
      BY <1>1, <2>1, <2>2 DEF AppliedOnce
    <3> QED BY <1>2, <2>2, <3>1 DEF AppliedOnce
  <2>3. CASE y # x
    BY <1>2, <2>1, <2>3 DEF AppliedOnce
  <2> QED BY <2>2, <2>3
<1>5. OneOpenRequest'
  <2> SUFFICES ASSUME NEW y \in Txns, NEW z \in Txns,
                      txns'[y].own, IsOpen(y)', txns'[z].own, IsOpen(z)',
                      txns'[y].tenant = txns'[z].tenant
               PROVE  y = z
    BY DEF OneOpenRequest
  <2>1. CASE y # x /\ z # x
    BY <1>2, <2>1 DEF SerialInv, OneOpenRequest, IsOpen
  <2>2. CASE y = x /\ z # x
    BY <1>2, <2>2 DEF IsOpen
  <2>3. CASE y # x /\ z = x
    BY <1>2, <2>3 DEF IsOpen
  <2> QED BY <2>1, <2>2, <2>3
<1>6. PaidStays
  BY <1>1, <1>2 DEF PaidStays
<1> QED BY <1>3, <1>4, <1>5, <1>6 DEF SerialInv

\* What the requests read before they start writing.
LEMMA TenantRequestSerial ==
    ASSUME InTurn, IInv, SerialInv, NEW h \in Handlers, TenantRequest(h)
    PROVE  SerialInv' /\ PaidStays
<1>a. TypeOK /\ UNCHANGED <<txns, grants, settled>>
  BY DEF IInv, TenantRequest, LogIn, ResetPassword, AskRenewal, ResendLink,
         AskUpgrade, Checkout, MarkPaid, Callback, history
<1>1. ASSUME NEW t \in Tenants, LogIn(h, t) PROVE StillTrue(h)' /\ OnlyJob(h)
  <2> DEFINE new == Task("login", t, 0, "none", "none")
  <2>1. new \in Request /\ new.pc = "login"
    BY TaskFacts DEF JobPc, JobArg, TxnType
  <2> HIDE DEF new
  <2>2. job'[h] = new /\ OnlyJob(h)
    BY <1>a, <1>1, <2>1, AcceptFacts DEF LogIn, new
  <2> QED BY <2>1, <2>2, NothingHeld
<1>2. ASSUME NEW t \in Tenants, ResetPassword(h, t) \/ ResendLink(h, t)
      PROVE  StillTrue(h)' /\ OnlyJob(h)
  <2>1. job'[h] = Idle /\ OnlyJob(h)
    BY <1>a, <1>2, IdleFacts, AcceptFacts DEF ResetPassword, ResendLink
  <2> QED BY <2>1, IdleFacts, NothingHeld
<1>3. ASSUME NEW t \in Tenants, NEW p \in Plans \union {"none"},
             NEW pc \in {"find_open", "checkout"}, NEW arg \in JobArg,
             NEW kind, Accept(h, kind, Task(pc, t, 0, p, arg))
      PROVE  StillTrue(h)' /\ OnlyJob(h)
  <2> DEFINE new == Task(pc, t, 0, p, arg)
  <2>1. new \in Request /\ new.pc = pc
    BY TaskFacts DEF JobPc
  <2> HIDE DEF new
  <2>2. job'[h] = new /\ OnlyJob(h)
    BY <1>a, <1>3, <2>1, AcceptFacts DEF new
  <2> QED BY <2>1, <2>2, NothingHeld
<1>4. ASSUME NEW t \in Tenants, AskRenewal(h, t)
      PROVE  StillTrue(h)' /\ OnlyJob(h)
  <2>1. sub[t].plan \in Plans /\ "renewal" \in JobArg
    BY <1>4, ConstantFacts DEF AskRenewal, JobArg, TxnType
  <2> QED BY <1>3, <1>4, <2>1 DEF AskRenewal
<1>5. ASSUME NEW t \in Tenants, NEW p \in PaidPlans,
             AskUpgrade(h, t, p) \/ Checkout(h, t, p)
      PROVE  StillTrue(h)' /\ OnlyJob(h)
  <2>1. p \in Plans /\ "upgrade" \in JobArg /\ "dpo" \in JobArg
    BY ConstantFacts DEF JobArg, TxnType
  <2> QED BY <1>3, <1>5, <2>1 DEF AskUpgrade, Checkout
<1>6. ASSUME NEW x \in Txns, MarkPaid(h, x) PROVE StillTrue(h)' /\ OnlyJob(h)
  <2> DEFINE new == Task("claim", txns[x].tenant, x, "none", "none")
  <2>1. txns[x].tenant \in Tenants
    BY <1>6 DEF MarkPaid, IInv, Backed, TxnBacked
  <2>2. new \in Request /\ new.pc = "claim" /\ new.x = x
    BY <2>1, TaskFacts DEF JobPc, JobArg, TxnType
  <2> HIDE DEF new
  <2>3. job'[h] = new /\ OnlyJob(h)
    BY <1>a, <1>6, <2>2, AcceptFacts DEF MarkPaid, new
  <2> QED BY <1>a, <1>6, <2>2, <2>3 DEF MarkPaid, StillTrue
<1>7. ASSUME NEW x \in Txns, Callback(h, x) PROVE StillTrue(h)' /\ OnlyJob(h)
  <2> DEFINE new == Task("verify", txns[x].tenant, x, txns[x].plan, "dpo")
  <2>1. txns[x].tenant \in Tenants /\ txns[x].plan \in Plans
    BY <1>7 DEF Callback, IInv, Backed, TxnBacked
  <2>2. new \in Request /\ new.pc = "verify" /\ new.x = x
    BY <2>1, TaskFacts DEF JobPc, JobArg
  <2> HIDE DEF new
  <2>3. job'[h] = new /\ OnlyJob(h)
    BY <1>a, <1>7, <2>2, AcceptFacts DEF Callback, new
  <2> QED BY <1>a, <1>7, <2>2, <2>3 DEF Callback, StillTrue
<1>8. StillTrue(h)' /\ OnlyJob(h)
  BY <1>1, <1>2, <1>4, <1>5, <1>6, <1>7 DEF TenantRequest
<1> QED BY <1>a, <1>8, SerialQuiet

LEMMA AdminRequestSerial ==
    ASSUME InTurn, IInv, SerialInv, NEW h \in Handlers, AdminRequest(h)
    PROVE  SerialInv' /\ PaidStays
<1>a. TypeOK
  BY DEF IInv
<1>1. ASSUME NEW t \in Tenants, NEW p \in Plans \union {"none"},
             NEW pc \in {"create_sub", "assign", "set_account", "cascade"},
             NEW arg \in JobArg, NEW kind,
             Accept(h, kind, Task(pc, t, 0, p, arg)),
             UNCHANGED <<txns, grants, settled>>
      PROVE  SerialInv' /\ PaidStays
  <2> DEFINE new == Task(pc, t, 0, p, arg)
  <2>1. new \in Request /\ new.pc = pc
    BY TaskFacts DEF JobPc
  <2> HIDE DEF new
  <2>2. job'[h] = new /\ OnlyJob(h)
    BY <1>a, <1>1, <2>1, AcceptFacts DEF new
  <2> QED BY <1>1, <2>1, <2>2, NothingHeld, SerialQuiet
<1>2. ASSUME NEW t \in Tenants, NEW p \in Plans, CreateTenant(h, t, p)
      PROVE  SerialInv' /\ PaidStays
  <2>1. "none" \in JobArg
    BY DEF JobArg, SubscriptionStatus
  <2> QED BY <1>1, <1>2, <2>1 DEF CreateTenant
<1>3. ASSUME NEW t \in Tenants, NEW p \in Plans, NEW paid \in BOOLEAN,
             AssignPlan(h, t, p, paid)
      PROVE  SerialInv' /\ PaidStays
  <2>1. (IF paid THEN "upgrade" ELSE "quoted") \in JobArg
    BY DEF JobArg, TxnType
  <2> QED BY <1>1, <1>3, <2>1 DEF AssignPlan
<1>4. ASSUME NEW t \in Tenants, NEW s \in AccountStatus \ {"absent"},
             SetTenantStatus(h, t, s)
      PROVE  SerialInv' /\ PaidStays
  <2>1. s \in JobArg
    BY DEF JobArg
  <2> QED BY <1>1, <1>4, <2>1 DEF SetTenantStatus, history
<1>5. ASSUME NEW t \in Tenants, NEW s \in SubscriptionStatus \ {"none"},
             SetSubscriptionStatus(h, t, s)
      PROVE  SerialInv' /\ PaidStays
  <2>1. s \in JobArg
    BY DEF JobArg
  <2> QED BY <1>1, <1>5, <2>1 DEF SetSubscriptionStatus, history
<1>6. ASSUME NEW x \in Txns, Confirm(h, x) PROVE SerialInv' /\ PaidStays
  <2> DEFINE new ==
          Task("settle", txns[x].tenant, x, txns[x].plan, txns[x].type)
  <2>1. /\ txns[x].tenant \in Tenants /\ txns[x].plan \in Plans
        /\ txns[x].type \in JobArg
    BY <1>a, <1>6 DEF Confirm, IsOpen, IInv, Backed, TxnBacked, TypeOK,
                      Transaction, JobArg
  <2>2. new \in Request /\ new.pc = "settle" /\ new.x = x
    BY <2>1, TaskFacts DEF JobPc
  <2> HIDE DEF new
  <2>3. job'[h] = new /\ OnlyJob(h)
    BY <1>a, <1>6, <2>2, AcceptFacts DEF Confirm, new
  <2>4. StillTrue(h)'
    BY <1>6, <2>2, <2>3 DEF Confirm, StillTrue, IsOpen
  <2> QED BY <1>6, <2>3, <2>4, SerialQuiet DEF Confirm
<1>7. ASSUME NEW t \in Tenants, NEW p \in PaidPlans,
             NEW doc \in {"invoice", "receipt"}, RecordManual(h, t, p, doc)
      PROVE  SerialInv' /\ PaidStays
  <2> DEFINE doing(x) == IF doc = "invoice" THEN Idle
                         ELSE Task("read_account", t, x, "none", "none")
             new == [tenant |-> t, type |-> "new",
                     status |-> IF doc = "receipt" THEN "paid"
                                ELSE "awaiting_payment",
                     plan |-> p, own |-> FALSE, token |-> FALSE]
  <2>1. PICK x \in Txns :
            /\ Fresh(x)
            /\ txns' = [txns EXCEPT ![x] = new]
            /\ settled' = IF doc = "receipt" THEN settled \union {x}
                          ELSE settled
            /\ Accept(h, "manual", doing(x))
    BY <1>7 DEF RecordManual
  <2>2. doing(x) \in Request /\ doing(x).pc \in {"idle", "read_account"}
    BY IdleFacts, TaskFacts DEF JobPc, JobArg, TxnType
  <2>3. ~new.own /\ (new.status = "paid" <=> doc = "receipt")
    OBVIOUS
  <2> HIDE DEF doing, new
  <2>4. job'[h] = doing(x) /\ OnlyJob(h)
    BY <1>a, <2>1, <2>2, AcceptFacts
  <2>5. StillTrue(h)'
    BY <2>2, <2>4, NothingHeld
  <2>6. UNCHANGED grants
    BY <1>7 DEF RecordManual
  <2> QED BY <2>1, <2>3, <2>4, <2>5, <2>6, SerialInserted
<1> QED
  BY <1>2, <1>3, <1>4, <1>5, <1>6, <1>7 DEF AdminRequest

\* The steps of a request in flight: each writes a transaction only after what
\* it read of it, and the grant only once.
LEMMA StepSerial ==
    ASSUME InTurn, IInv, SerialInv, NEW h \in Handlers, Step(h)
    PROVE  SerialInv' /\ PaidStays
<1> DEFINE j == job[h]
<1>a. TypeOK /\ Backed /\ RequestBacked(h) /\ StillTrue(h)
  BY DEF IInv, Backed, SerialInv
<1>b. j.pc \in HoldsTxn => j.x \in Txns
  BY <1>a DEF RequestBacked
<1>1. CASE \/ CreateSub(h) \/ Welcome(h) \/ WriteLogIn(h)
           \/ ReadAccount(h) \/ IssueCredentials(h) \/ Unlock(h)
           \/ OpenTeam(h) \/ WriteTenantStatus(h) \/ Cascade(h)
           \/ WriteAssignment(h)
  <2>1. \/ Finish(h)
        \/ \E pc \in {"welcome", "issue", "unlock", "open_team", "cascade",
                      "record_payment"} : Goto(h, pc)
    BY <1>1 DEF CreateSub, Welcome, WriteLogIn, ReadAccount, IssueCredentials,
                Unlock, OpenTeam, WriteTenantStatus, Cascade, WriteAssignment
  <2>2. StillTrue(h)' /\ OnlyJob(h)
    BY <1>a, <2>1, FinishFacts, GotoFacts, NothingHeld DEF JobPc
  <2>3. UNCHANGED <<txns, grants, settled>>
    BY <1>1 DEF CreateSub, Welcome, WriteLogIn, ReadAccount, IssueCredentials,
                Unlock, OpenTeam, WriteTenantStatus, Cascade, WriteAssignment,
                history
  <2> QED BY <2>2, <2>3, SerialQuiet
<1>2. CASE FindOpen(h)
  <2>1. UNCHANGED <<txns, grants, settled>>
    BY <1>2 DEF FindOpen, history
  <2>2. CASE Finish(h)
    BY <1>a, <2>1, <2>2, FinishFacts, NothingHeld, SerialQuiet
  <2>3. CASE ~Finish(h)
    <3>1. /\ \A x \in Txns : txns[x].tenant = j.t => ~IsOpen(x)
          /\ Goto(h, "create_invoice")
      BY <1>2, <2>3 DEF FindOpen
    <3>2. /\ OnlyJob(h)
          /\ job'[h].pc = "create_invoice" /\ job'[h].t = j.t
      BY <1>a, <3>1, GotoFacts DEF JobPc
    <3>3. StillTrue(h)'
      BY <2>1, <3>1, <3>2 DEF StillTrue, IsOpen
    <3> QED BY <2>1, <3>2, <3>3, SerialQuiet
  <2> QED BY <2>2, <2>3
<1>3. CASE CreateInvoice(h)
  <2> DEFINE d == [tenant |-> j.t, type |-> j.arg,
                   status |-> "awaiting_payment", plan |-> j.plan,
                   own |-> TRUE, token |-> FALSE]
  <2>1. PICK x \in Txns : Fresh(x) /\ txns' = [txns EXCEPT ![x] = d]
    BY <1>3 DEF CreateInvoice
  <2>2. /\ d.tenant = j.t /\ d.status # "paid" /\ j.pc # "idle"
        /\ \A y \in Txns :
              txns[y].own /\ txns[y].tenant = j.t => ~IsOpen(y)
    BY <1>a, <1>3 DEF CreateInvoice, At, StillTrue
  <2> HIDE DEF d
  <2>3. StillTrue(h)' /\ OnlyJob(h)
    BY <1>a, <1>3, FinishFacts, NothingHeld DEF CreateInvoice
  <2>4. UNCHANGED <<grants, settled>>
    BY <1>3 DEF CreateInvoice, history
  <2> QED BY <2>1, <2>2, <2>3, <2>4, SerialInserted
<1>4. CASE WriteClaim(h)
  <2>1. /\ j.pc \in HoldsTxn
        /\ txns[j.x].status = "awaiting_payment" /\ IsOpen(j.x)
    BY <1>a, <1>4 DEF WriteClaim, At, HoldsTxn, StillTrue, IsOpen
  <2>2. StillTrue(h)' /\ OnlyJob(h)
    BY <1>a, <1>4, FinishFacts, NothingHeld DEF WriteClaim
  <2>3. \A x \in Txns : txns'[x].own = txns[x].own
    BY <1>a, <1>4 DEF WriteClaim, SetStatus, TypeOK, Transaction
  <2> QED
    BY <1>4, <2>1, <2>2, <2>3, SerialWritten DEF WriteClaim, TxnStatus, history
<1>5. CASE CreateCheckout(h)
  <2> DEFINE d == [tenant |-> j.t, type |-> "upgrade", status |-> "pending",
                   plan |-> j.plan, own |-> FALSE, token |-> FALSE]
             r(x) == [j EXCEPT !.pc = "token", !.x = x]
  <2>1. PICK x \in Txns : /\ Fresh(x)
                          /\ txns' = [txns EXCEPT ![x] = d]
                          /\ job' = [job EXCEPT ![h] = r(x)]
    BY <1>5, Zenon DEF CreateCheckout
  <2>2. r(x).pc = "token" /\ r(x).x = x /\ r(x) \in Request
    BY <1>a, JobFacts DEF Request, JobPc
  <2>3. ~d.own /\ d.status = "pending"
    OBVIOUS
  <2> HIDE DEF d, r
  <2>4. job'[h] = r(x) /\ OnlyJob(h) /\ txns'[x] = d
    BY <1>a, <2>1, <2>2, JobWritten DEF TypeOK
  <2>5. StillTrue(h)'
    BY <2>2, <2>3, <2>4 DEF StillTrue
  <2>6. UNCHANGED <<grants, settled>>
    BY <1>5 DEF CreateCheckout, history
  <2> QED BY <2>1, <2>3, <2>4, <2>5, <2>6, SerialInserted
<1>6. CASE SaveToken(h)
  <2>1. /\ j.pc \in HoldsTxn /\ j.x \in Txns /\ txns[j.x].status = "pending"
    BY <1>a, <1>b, <1>6 DEF SaveToken, At, HoldsTxn, StillTrue
  <2>2. StillTrue(h)' /\ OnlyJob(h)
    BY <1>a, <1>6, FinishFacts, NothingHeld DEF SaveToken
  <2>3. UNCHANGED <<grants, settled>>
    BY <1>6 DEF SaveToken, history
  <2>4. \A x \in Txns : txns'[x].own = txns[x].own
    BY <1>a, <1>6 DEF SaveToken, SetStatus, TypeOK, Transaction
  <2>7. OnlyJob(h)
    BY <1>a, <1>6, FinishFacts DEF SaveToken
  <2>5. CASE SetStatus(j.x, "failed")
    BY <2>1, <2>2, <2>3, <2>4, <2>5, <2>7, SerialWritten DEF TxnStatus
  <2>6. CASE txns' = [txns EXCEPT ![j.x].token = TRUE]
    <3>1. /\ \A x \in Txns : /\ txns'[x].status = txns[x].status
                             /\ txns'[x].tenant = txns[x].tenant
      BY <1>a, <2>1, <2>6 DEF TypeOK, Transaction
    <3>2. ASSUME NEW k \in Handlers PROVE StillTrue(k)'
      <4>1. CASE k # h
        <5>1. StillTrue(k) /\ job'[k] = job[k]
          BY <2>7, <4>1 DEF SerialInv, OnlyJob
        <5>2. \A x \in Txns : IsOpen(x)' <=> IsOpen(x)
          BY <3>1 DEF IsOpen
        <5>3. job[k].pc \in HoldsTxn => job[k].x \in Txns
          BY <1>a DEF Backed, RequestBacked
        <5> QED
          BY <2>3, <2>4, <3>1, <5>1, <5>2, <5>3
             DEF StillTrue, HoldsTxn, HoldsSettledTxn
      <4> QED BY <2>2, <4>1
    <3>3. ASSUME NEW x \in Txns
          PROVE  AppliedOnce(x)' /\ (x \in settled => txns[x].status = "paid")'
      BY <2>3, <3>1 DEF SerialInv, AppliedOnce
    <3>4. OneOpenRequest'
      BY <2>4, <3>1 DEF SerialInv, OneOpenRequest, IsOpen
    <3> QED BY <3>1, <3>2, <3>3, <3>4 DEF SerialInv, PaidStays
  <2> QED BY <1>6, <2>5, <2>6 DEF SaveToken
<1>7. CASE VerifyPaid(h) \/ VerifyUnpaid(h)
  <2>1. PICK pc \in {"settle_dpo", "refuse_dpo"} : Goto(h, pc)
    BY <1>7 DEF VerifyPaid, VerifyUnpaid
  <2>2. UNCHANGED <<txns, grants, settled>>
    BY <1>7 DEF VerifyPaid, VerifyUnpaid, history
  <2>3. txns[j.x].status = "pending"
    BY <1>a, <1>7 DEF VerifyPaid, VerifyUnpaid, At, StillTrue
  <2>4. OnlyJob(h) /\ job'[h].pc = pc /\ job'[h].x = j.x
    BY <1>a, <2>1, GotoFacts DEF JobPc
  <2>5. StillTrue(h)'
    BY <2>2, <2>3, <2>4 DEF StillTrue
  <2> QED BY <2>2, <2>4, <2>5, SerialQuiet
<1>8. CASE RefuseDpo(h)
  <2>1. /\ j.pc \in HoldsTxn /\ txns[j.x].status = "pending"
    BY <1>a, <1>8 DEF RefuseDpo, At, HoldsTxn, StillTrue
  <2>2. StillTrue(h)' /\ OnlyJob(h)
    BY <1>a, <1>8, FinishFacts, NothingHeld DEF RefuseDpo
  <2>3. \A x \in Txns : txns'[x].own = txns[x].own
    BY <1>a, <1>8 DEF RefuseDpo, SetStatus, TypeOK, Transaction
  <2> QED
    BY <1>8, <2>1, <2>2, <2>3, SerialWritten DEF RefuseDpo, TxnStatus, history
<1>9. CASE Settle(h) \/ SettleDpo(h)
  <2>1. /\ j.pc \in HoldsTxn /\ j.x \in Txns
        /\ txns[j.x].status \in
               {"pending", "awaiting_payment", "payment_claimed"}
    BY <1>a, <1>b, <1>9
       DEF Settle, SettleDpo, At, HoldsTxn, StillTrue, IsOpen
  <2>2. /\ SetStatus(j.x, "paid") /\ settled' = settled \union {j.x}
        /\ Goto(h, "read_period") /\ UNCHANGED grants
    BY <1>9 DEF Settle, SettleDpo
  <2>3. grants[j.x] = 0
    BY <1>a, <2>1 DEF SerialInv, AppliedOnce, TypeOK
  <2>4. OnlyJob(h) /\ job'[h].pc = "read_period" /\ job'[h].x = j.x
    BY <1>a, <2>2, GotoFacts DEF JobPc
  <2>5. StillTrue(h)'
    BY <2>2, <2>3, <2>4 DEF StillTrue
  <2>6. \A x \in Txns : txns'[x].own = txns[x].own
    BY <1>a, <2>2 DEF SetStatus, TypeOK, Transaction
  <2> QED BY <2>1, <2>2, <2>4, <2>5, <2>6, SerialWritten DEF TxnStatus
<1>10. CASE ReadPeriod(h)
  <2> DEFINE r == [j EXCEPT !.pc = "apply", !.end = sub[j.t].end]
  <2>1. job' = [job EXCEPT ![h] = r]
    BY <1>10 DEF ReadPeriod
  <2>2. r.pc = "apply" /\ r.x = j.x /\ r \in Request
    <3>1. j.t \in Tenants
      BY <1>a, <1>10 DEF ReadPeriod, At, RequestBacked
    <3>2. sub[j.t].end \in Nat
      BY <1>a, <3>1 DEF TypeOK, Subscription
    <3> QED BY <1>a, <3>2, JobFacts DEF Request, JobPc
  <2> HIDE DEF r
  <2>3. job'[h] = r /\ OnlyJob(h)
    BY <1>a, <2>1, <2>2, JobWritten
  <2>4. UNCHANGED <<txns, grants, settled>> /\ grants[j.x] = 0
    BY <1>a, <1>10 DEF ReadPeriod, At, StillTrue, history
  <2>5. StillTrue(h)'
    BY <2>2, <2>3, <2>4 DEF StillTrue
  <2> QED BY <2>3, <2>4, <2>5, SerialQuiet
<1>11. CASE ApplyPlan(h)
  <2>1. /\ j.x \in Txns /\ j.x \in settled /\ grants[j.x] = 0
    BY <1>a, <1>b, <1>11 DEF ApplyPlan, At, StillTrue, RequestBacked,
                             HoldsSettledTxn, HoldsTxn
  <2>2. /\ grants' = [grants EXCEPT ![j.x] = @ + 1]
        /\ UNCHANGED <<txns, settled>>
        /\ Finish(h) \/ Goto(h, "read_account")
    BY <1>11 DEF ApplyPlan
  <2>3. StillTrue(h)' /\ OnlyJob(h)
    BY <1>a, <2>2, FinishFacts, GotoFacts, NothingHeld DEF JobPc
  <2>4. ASSUME NEW k \in Handlers PROVE StillTrue(k)'
    <3>1. CASE k # h
      <4>1. StillTrue(k) /\ job'[k] = job[k]
        BY <1>a, <2>2, <3>1, FinishFacts, GotoFacts
           DEF SerialInv, OnlyJob, JobPc
      <4>2. j.pc \in HoldsTxn
        BY <1>11 DEF ApplyPlan, At, HoldsTxn, HoldsSettledTxn
      <4>3. job[k].pc \in {"read_period", "apply"} =>
                grants'[job[k].x] = grants[job[k].x]
        BY <1>a, <2>2, <3>1, <4>2, OthersTxn
           DEF TypeOK, HoldsTxn, HoldsSettledTxn
      <4> QED BY <2>2, <4>1, <4>3 DEF StillTrue, IsOpen
    <3> QED BY <2>3, <3>1
  <2>5. ASSUME NEW x \in Txns PROVE AppliedOnce(x)'
    <3>1. AppliedOnce(x) /\ (x \in settled => txns[x].status = "paid")
      BY DEF SerialInv
    <3>2. grants'[x] = IF x = j.x THEN 1 ELSE grants[x]
      BY <1>a, <2>1, <2>2 DEF TypeOK
    <3> QED BY <2>1, <2>2, <3>1, <3>2 DEF AppliedOnce
  <2>6. OneOpenRequest'
    BY <2>2 DEF SerialInv, OneOpenRequest, IsOpen
  <2> QED BY <2>2, <2>4, <2>5, <2>6 DEF SerialInv, PaidStays
<1>12. CASE RecordAssignment(h)
  <2> DEFINE d == [tenant |-> j.t, type |-> "upgrade", status |-> "paid",
                   plan |-> j.plan, own |-> FALSE, token |-> FALSE]
  <2>1. PICK x \in Txns : /\ Fresh(x)
                          /\ txns' = [txns EXCEPT ![x] = d]
                          /\ settled' = settled \union {x}
    BY <1>12 DEF RecordAssignment
  <2>2. ~d.own /\ d.status = "paid"
    OBVIOUS
  <2> HIDE DEF d
  <2>3. Finish(h) \/ Goto(h, "open_team")
    BY <1>12 DEF RecordAssignment
  <2>4. StillTrue(h)' /\ OnlyJob(h)
    BY <1>a, <2>3, FinishFacts, GotoFacts, NothingHeld DEF JobPc
  <2>5. UNCHANGED grants
    BY <1>12 DEF RecordAssignment
  <2> QED BY <2>1, <2>2, <2>4, <2>5, SerialInserted
<1> QED
  BY <1>1, <1>2, <1>3, <1>4, <1>5, <1>6, <1>7, <1>8, <1>9, <1>10, <1>11, <1>12
     DEF Step

\* The cron job, the gateway's customers, time and failures write no
\* transaction; a failure or a restart only ends the request.
LEMMA AsideSerial ==
    ASSUME InTurn, IInv, SerialInv,
           \/ CronStep \/ SkipTenant \/ Tick \/ Restart \/ UNCHANGED vars
           \/ \E h \in Handlers : Abort(h)
           \/ \E x \in Txns : CustomerPays(x)
    PROVE  SerialInv' /\ PaidStays
<1>1. UNCHANGED <<txns, grants, settled>>
  BY DEF CronStep, ListLapsed, PickLapsed, ExpireSub, LockAccount, LockTeam,
         SendLink, SkipTenant, Tick, Restart, Abort, CustomerPays, vars, history
<1>2. ASSUME NEW h \in Handlers PROVE StillTrue(h)'
  <2>1. CASE job'[h] = job[h]
    BY <1>1, <2>1 DEF SerialInv, StillTrue, IsOpen
  <2>2. CASE job'[h].pc = "idle"
    BY <2>2, NothingHeld
  <2>3. CASE Restart
    BY <2>2, <2>3, IdleFacts DEF Restart
  <2>4. ASSUME NEW k \in Handlers, Abort(k) PROVE StillTrue(h)'
    BY <2>1, <2>2, <2>4, FinishFacts DEF Abort, IInv, OnlyJob
  <2> QED
    BY <2>1, <2>3, <2>4
       DEF CronStep, ListLapsed, PickLapsed, ExpireSub, LockAccount, LockTeam,
           SendLink, SkipTenant, Tick, CustomerPays, vars
<1>3. PaidStays /\ OneOpenRequest' /\ \A x \in Txns : AppliedOnce(x)'
  BY <1>1 DEF SerialInv, AppliedOnce, OneOpenRequest, IsOpen, PaidStays
<1> QED BY <1>1, <1>2, <1>3 DEF SerialInv

LEMMA NextSerial ==
    InTurn /\ IInv /\ SerialInv /\ [Next]_vars => SerialInv' /\ PaidStays
BY TenantRequestSerial, AdminRequestSerial, StepSerial, AsideSerial DEF Next

\* A single handler takes its requests in turn.
LEMMA OneHandlerInTurn == ASSUME \A g, h \in Handlers : g = h PROVE InTurn
BY DEF InTurn

\* Where requests about one tenant are served in turn, a payment adds one
\* period, however often it is claimed, confirmed, called back or retried.
THEOREM PaymentsCountOnce == Spec /\ []InTurn => []OneGrantPerPayment
<1>1. SerialInv => OneGrantPerPayment
  BY DEF SerialInv, AppliedOnce, OneGrantPerPayment
<1>2. InTurn /\ IInv /\ SerialInv /\ [Next]_vars => SerialInv'
  BY NextSerial
<1> QED BY <1>1, <1>2, SerialInit, InitIInv, NextIInv, PTL DEF Spec

\* Where requests about one tenant are served in turn, no tenant stacks open
\* invoices of its own.
THEOREM NoStackedInvoices == Spec /\ []InTurn => []OneOpenRequest
<1>1. SerialInv => OneOpenRequest
  BY DEF SerialInv
<1>2. InTurn /\ IInv /\ SerialInv /\ [Next]_vars => SerialInv'
  BY NextSerial
<1> QED BY <1>1, <1>2, SerialInit, InitIInv, NextIInv, PTL DEF Spec

\* Where requests about one tenant are served in turn, neither a claim nor a
\* late answer of the gateway takes a receipt back.
THEOREM ReceiptsStand == Spec /\ []InTurn => PaidIsFinal
<1>1. InTurn /\ IInv /\ SerialInv /\ [Next]_vars => SerialInv'
  BY NextSerial
<1>2. InTurn /\ IInv /\ SerialInv /\ [Next]_vars =>
          \A x \in Txns : txns[x].status = "paid" => txns'[x].status = "paid"
  BY NextSerial DEF PaidStays
<1> QED
  BY <1>1, <1>2, SerialInit, InitIInv, NextIInv, PTL DEF Spec, PaidIsFinal
=============================================================================
