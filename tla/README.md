# TLA+ models of the Lexora engine

The Lexora engine is a NestJS backend over MongoDB for law and advisory firms.
One Node process (or several: nothing forbids more) serves HTTP requests and
runs cron jobs. No code path uses a database transaction, so every database
call is atomic by itself and other requests run at every `await` between two of
them. Nearly everything that is hard about this code is of one shape: *a
request reads a document, decides, awaits something, and writes by id what it
decided then*. The repository has two tests, which start the application.

This directory holds TLA+ models of the parts where that shape decides about
money, access, mail and votes, TLC runs over small instances, and proofs
checked by TLAPS for instances of any size.

    tlc -workers 2 -config trust.cfg MCTrustAccounting
    tlapm TrustAccounting_proofs.tla

`PROJECT.json` lists components, runs, mutants, the map from definitions to
source lines, findings, hazards and theorems.

## 1. Inventory

Paths are under `src/src/`.

### Parts that are modelled

| component | state | operations | talks to |
|---|---|---|---|
| **Subscription billing** `modules/payment` | `payment_transactions` (status pending, awaiting_payment, payment_claimed, paid, failed), `tenant_subscriptions` | checkout and callback of the DPO gateway; upgrade and renewal invoices asked for by a tenant; "I have paid"; confirmation and manual payment by a super admin; applying the plan; unlocking the account | DPO over HTTP, mail, accounts, the cascade of the expiry job |
| **Expiry job** `super_admin/services/subscription-expiry.service.ts` | reactivation link on the account, `deactivatedByTenantCascade` flag on the team | daily run over lapsed subscriptions; cascade down and up; resending the link | subscriptions, accounts, mail |
| **Tenants** `super_admin/services/super_admin.service.ts` | accounts, subscriptions | create a tenant, set its status, assign a plan, set the subscription's status, delete | the cascade, payment transactions |
| **Login** `modules/auth` | account status, password, sessions | login (pending becomes active), reset of the password, status check on every request | accounts |
| **Trust accounting** `crm/finance/services/trust.service.ts` | `crm_trust_ledgers`, `crm_trust_movements`; the balance is never stored | open a ledger, record a deposit, request, authorise and reject a drawdown | general ledger postings (`gl-posting.service.ts`) |
| **Events** `crm/tools/services/event.service.ts` | one document per event: status, guests, settings, `automationLog` | create, publish (mails the guests), cancel, complete, settings; guests, attendance, surveys, reports | mail, CRM contacts |
| **Event automation** `crm/tools/services/event-automation.service.ts` | `automationLog` of the event; a `running` flag per process | job every five minutes: skip, send or record each step, close the event; "Send now" | mail, notifications |
| **Receivables** `crm/finance/services/invoice.service.ts` with `installment-auto-send`, `wht`, credit notes of `sales`, `match` of `banking`, WIP review of `time-entry` | `crm_invoices` (stage, `paidAmount`, lines), `crm_payment_plans`, the review of time entries, bank transactions, the register of withholding tax | draft, bill work in progress, submit, approve, send, record a payment, match a transaction, cancel, write off, credit, plan instalments, approve them all; the daily job that sends them | general ledger, Banking |
| **Payroll and loans** `hr/services/payroll-run.service.ts`, `employee-loan.service.ts` | runs (draft, processed, paid), payslips, loans with balance and history of deductions | create, redo, discard, process, pay a run; ask for, grant, log, delete a loan | nothing |
| **Leave** `hr/services/leave.service.ts` | requests for leave, days used of each employee, policies | ask, review, cancel; the owner's own leave; change the policy | mail |
| **Campaigns** `crm/tools/services/newsletter.service.ts` | campaigns (draft, scheduled, sending, sent; a snapshot of recipients), the suppression list | create, edit, schedule, unschedule, delete, send now; the job of each minute; unsubscribe | mail |
| **Board resolutions** `grc/governance/services/resolution.service.ts` | `grc_resolutions`: status, outcome, a row for each director or the figures of a poll | draft, vote, circulate, respond, add a proxy, enter a poll, close as any of three types | mail |

What makes each correct:

* billing: nobody gets a plan, a month or access without a payment or an
  administrator behind it, a payment counts once, lapsed tenants are locked and
  paying ones are not, who is let in can log in;
* trust: a client's balance never goes below zero, no money leaves on one
  person's word, a decision is final, the books hold each movement once;
* events: nobody gets a mail twice, what is due is sent or recorded as skipped,
  the log is true, an event that is over stays over;
* receivables: the ledger holds what the documents say, an invoice counts as
  paid what Banking shows, an hour is billed once, a plan loses nothing of the
  debt and its instalments go out;
* payroll: a loan loses what the payslips withhold, nobody is paid twice for a
  month, what is processed stands;
* leave: nobody is away twice on one day or beyond the allowance, and days are
  counted once;
* campaigns: nobody gets one twice, who is marked as reached was reached, the
  audience is fixed once mail has gone out;
* resolutions: the outcome is that of the votes on record, everyone's vote is
  their own, a closed circulation takes no more responses.

### Parts that are not modelled

| component | state and hard behaviour | why not, or when |
|---|---|---|
| team access (HR suspension against the billing cascade) | a member's own status and the cascade's flag | next in the plan: extends TenantBilling |
| purchases, journals, period close, the rest of banking | stages with dual control; the integrity check of trust money (`trust.service.ts:148`), which compares ledgers with transactions that a deposit never creates | planned; what touches an invoice is in `Receivables` |
| platform newsletter, alerts | the send loop and the job of campaigns once more | twins of `Campaigns` |
| board meetings, committees | minutes, attendance, reminders | one secretary, one save each |
| contracts and signatures, notices and disputes | documents signed or chased in any order, in-memory flags of the notice job | late in the plan |
| funds, tax, budgets, reports, management reporting | arithmetic over one document, reads | computations, no protocol |
| CRM clients and leads, projects, cases, tickets, time | single documents saved once per request | nothing interleaves beyond what the models show |
| compliance, risk, ESG, deals, intelligence, health score, KYC | registers and scores | formulas; the crisis messages of `bcp-comms` are a candidate |
| employees, recruitment, performance, learning, attendance | forms with a status | as above |
| portals, support tickets, platform content, realtime gateway | views and messages; the gateway keeps rooms only | no state another part relies on |
| guards, mail templates, PDFs, DTOs, filters | none | formatting and one check per request |

`SubscriptionExpiryService.reactivateAfterRenewal` has no caller and is left out.

## 2. Modules

| module | what it is |
|---|---|
| `Entitlement` | abstract: plan and paid-up date of a tenant move only with an authority behind them |
| `TenantBilling` | billing, expiry job, tenant administration, login; refines `Entitlement` |
| `TrustAccounting` | client money |
| `EventAutomation` | one event: its life and its automation on several instances |
| `Receivables` | invoices, what they owe, and the books |
| `Requests` | what the four modules below share: requests in flight, faults |
| `Payroll` | runs, payslips and loans |
| `Leave` | leave of the staff |
| `Campaigns` | campaigns, the job that sends them, the suppression list |
| `Resolutions` | resolutions of a board, votes and polls |
| `Offices` | composes the last four on one server |
| `MC...` | instances: symmetry, and for billing which kinds of request arrive |
| `..._proofs` | inductive invariants, theorems, proofs; `Offices_proofs` has campaigns, resolutions and the composition |
| `Sums` | lemmas about sums over finite sets, which the proofs share |

### How code becomes actions

A request occupies a handler `h` and keeps in `job[h]` what the code keeps in
local variables; `pc` names its next step. A step runs up to the point where
state that was read before an await is acted on after it, and makes every write
of that stretch. So `Confirm` finds the transaction, `Settle` writes it paid,
`ReadPeriod` reads the subscription, `ApplyPlan` writes it, `ReadAccount` reads
the account, and `IssueCredentials` or `Unlock` and `OpenTeam` write it. Reads
whose result nothing later depends on get no step. A mongoose `save()` writes
the changed paths by id whatever the document says by then, and is modelled so;
a conditional `updateOne` (the claim in `automationLog`, the closing of an
event) tests and writes at once.

Faults: a database, mail or gateway call fails and the request ends where it
stands (`Abort`), or the process restarts and everything in flight is gone
(`Restart`; `Die` for one worker of `EventAutomation`).

**TenantBilling.** `account`, `creds`, `team`, `linkEnd` are the tenant's user
document (`creds`: whether a password was ever mailed; `team`: whether the
cascade has locked its people), `sub` the subscription, `txns` the transactions,
`received` the money that really is with the gateway. `VerifyPaid` and
`VerifyUnpaid` are the gateway's answers; a network error counts as unpaid, as
in `verifyToken`. `CronStep` is the deactivation run: list, then per tenant
expire, lock the account, lock the team, send the link; an error skips to the
next tenant (`SkipTenant`). History: `authorised`, `settled`, `grants`.

**TrustAccounting.** A balance is two aggregates asked for at once; `ReadSum`
answers them one by one. As an amount never changes a request carries the
movements it saw, not their sum. `posted` counts postings to the general
ledger. History: `raced` holds the ledgers on which two decisions overlapped,
`lost` the movements whose posting fell to a fault.

**EventAutomation.** `log` is `automationLog`. `StartTick`, `LoadEvent`,
`ClaimNext`, `Execute`, `FinishStep`, `EndTick` are a run of the job; `RunNow`,
`Pull`, `ClaimManually` and the same `Execute` and `FinishStep` are "Send now".
A batch of mail is one step that reached somebody or nobody, which is all that
the recorded status tells. Steps are the reminders (a custom one is one more),
the follow-ups and the notices to the organiser, which are not `Manual`;
`post:crmsync` mails nobody and is left out. History: `sends`, `mailed`, and
the provisos `raced` (a step was resent while a worker was at it), `clashed`
(two changes of the status overlapped), `abandoned` (a worker died at it).
The job lists only events dated within a window, in the code 45 days past and
32 ahead, whose ends are `Past` and `Ahead` (`InWindow`). `publish` asks for no
date, so an event can be published later than that: no run ever lists it, its
follow-ups are never recorded and nobody closes it but the organiser. The model
has those behaviours, and the liveness properties speak of events in the
window only.

**Receivables.** `invoices` is the document; `receivable` and `ledger` are what
the postings of the general ledger add up to, account 1200 by invoice and the
others in one sum each; `certificates` counts entries in the register of
withholding tax. A payment is `RecordPayment` or `SaveMatch`, `FindPayment`,
`SavePayment`, `Bank` (which throws when no account matches) and `PostReceipt`,
in that order, each an await of the code. Its amount is one that is given or
what remains, which is zero of what is paid and below zero of what was paid too
much: a refund. A line of the bank's feed comes in or goes out; `ImportTx`
creates it and `PostFeed` posts it, so that a fault or a match falls between
the two, and `Reclassify` finds nothing to move of what is not posted. `match`
pays an invoice the `Magnitude` of the amount, whichever way the money went.
`BillEntries`, `CreateFromWip` and `MarkInvoiced` are `createFromWip`; the
entries are a list, as in the request, and nothing refuses one that is on it
twice. `FindCancel`, `Reverse`, `SaveCancel` are `cancel`. A handler named
`Job` is the daily run of the instalments. History: `raced` (an invoice written
after it had changed since it was read, or given back more than was over by
then; an entry billed by two requests at once), `lost` (a request died at it),
`astray` (paid while nothing stood against it, or written off once it was
cancelled), `rematched` (a transaction matched again, which `match` does not
refuse), `unmoved` (matched with a transaction that had not been posted),
`repeated` (an entry that one request listed twice).

**Payroll, Leave, Campaigns, Resolutions** extend `Requests`. A request reads
what it checks, and its later steps use what it read. `Generate` makes one
payslip, `Deduct` writes one loan back, so a fault or another run falls between
any two of them. `Mail` reaches one person of a campaign or fails. Mongoose
does two things of its own that matter: `save()` sends the changed paths only,
and for an array that is replaced as a whole it asks that the version be the
one that was read. In `Resolutions`, `Reads` is an operation up to its save,
`Written` is what the save makes of the document as it is by then, `Fits` the
version check, `Bumps` the operations that move the version on. History:
`contested`, `crossed`, `failed`, `alone` (Payroll), `disputed`, `pooled`,
`dropped` (Leave), `entangled`, `interrupted` (Campaigns), `overtaken`,
`misrouted` (Resolutions); each is defined where it is declared.

**Offices.** The four offices of a tenant share the server and no record. The
product of their states says nothing more than its factors, so `office` picks
the one that is looked at; steps of the others would be stutters.

### Left out inside these modules

Amounts and currencies of payments, module lists, seat overrides, document
numbers, deleting a tenant, mails other than those with credentials, warnings;
`lastReconciledAt`, bank transactions and the integrity check of trust;
editing, rescheduling and deleting events, single guests, registration;
disbursements (expense claims) on invoices, reminders, fiscal receipts, the
client portal's claims and remittance accounts of invoices; salaries, currencies and allowances of payslips; weekends, custom
types and locations of leave; segments, test sends and tracking of campaigns;
references, comments and mails of resolutions, and figures of a poll below
zero, which its DTO lets through. The calendar: days and months are units of a
counter, so what `setMonth` makes of the 31st (`payment.service.ts:693`) is not
seen.

## 3. Runs

| run | checks | result |
|---|---|---|
| `billing_serial` | `OneGrantPerPayment`, `OneOpenRequest`, `PaidIsFinal`, `LapsedIsExpired` | pass, 0.7 M states |
| `billing_concurrent` | `GrantNeedsSettlement`, `Backed`, `RefinesEntitlement`, `NoAccessBeforePayment` | pass, 2.8 M states |
| `billing_double_request` | `OneOpenRequest` | violated |
| `billing_late_payment` | `UnlockedHasCredentials` | violated |
| `trust` | `NoOverdraw`, `DualControl`, `DecisionsFresh`, `BooksFollow`, `DecisionsStand` | pass, 1.1 M states |
| `trust_overdraw` | `NeverOverdrawn` | violated |
| `automation` | `AtMostOnce`, `LogHonest`, `InvitedOnce`, `StatusStands`, `DueIsRecorded`, `SendingSettles`, `ClosedInTheEnd` | pass, 0.6 M states |
| `automation_double_send` | `NeverTwice` | violated |
| `receivables` | `ReceivableFollows`, `PaidIsBanked`, `CancelledUnpaid` | pass, 2.7 M states |
| `receivables_plans` | `BilledOnce`, `PlanCoversDebt`, `InstalmentsGoOut` | pass, 0.1 M states |
| `receivables_unbalanced` | `BooksBalance` | violated |
| `offices` | Payroll: `PayslipsDeducted`, `LoanPaidDown`, `OnePayslipEach`, `ProcessedStands`. Leave: `UsedIsApproved`, `NoDayTwice`, `WithinAllowance`. Campaigns: `MailedOnce`, `DeliveredGotIt`, `AudienceStands`. Resolutions: `OutcomeFollowsVotes`, `VotesAreOwn`, `ResponsesStand` | pass, 2.9 M states |

Type invariants are in no run: each is proved, which shows more.

**What passes.** With requests served one at a time, a payment adds one period
however it is claimed, confirmed, called back or retried after a fault; a
tenant has one open request; a receipt is never taken back; the job gets to
every lapsed subscription. Served side by side, the first three fail (each
check and its write are apart), and what is left is weaker and still worth
having: the order "written paid, then applied" never gives a month away, and
every plan, date and access has money or an administrator behind it. In trust
accounting dual control needs no proviso, and the rest holds on ledgers where
decisions do not overlap: the second balance check, the status checks and the
postings are right, and only the gap between check and save is not. The claim
in `automationLog` does what its comment says on any number of instances; what
breaks it is the unconditional pull before a resend.

The other modules hold under provisos, and each proviso is a thing the code
does not do. Receivables: the receivable of an invoice follows its document
through any order of sales, payments, refunds, credits, cancellation and
write-off, but not through two requests at one invoice (the later save wins
over the amount the other read), a fault between the save and the posting, a
payment of what was never sent, or a match with a transaction that is matched
already, not yet posted, or of money that went out; an entry that one list
names twice is billed twice; and a fault in the middle of a payment plan leaves
the debt to nobody, as the invoice is cancelled and no plan stored
(`PlanCoversDebt` speaks of stored ones). Payroll: two requests at one run, or a fault while it is
processed, deduct twice; two drafts side by side withhold the last instalment
twice; a run for everyone asks for no earlier payslip. Leave: two decisions on
one request both count its days; several open requests are each checked
against the same balance. Campaigns: two workers at one campaign mail it twice,
as the job claims nothing; `sendNow` sends again what got stuck half-way.
Resolutions need the fewest: no vote ever overwrites another director's, as
the version check refuses the second save, and no response lands after a
circulation was closed. The board's own vote lacks that: `closeBoardVote`
writes status and outcome only, so a vote that was read before the close and
saved after it changes the record under the outcome, and figures of a poll
saved late open the resolution again; `OutcomeFollowsVotes` leaves out both as
`overtaken`, and as `misrouted` what `closeWritten` or `closeShareholder`
closed of another type, for neither asks.

**What is violated** are five statements of comments in the code; `findings` in
`PROJECT.json` quotes each and says which lines break it.

* `billing_double_request`: two upgrade requests both find no open invoice.
* `billing_late_payment`: a subscription lapses before its first payment; the
  payment unlocks the account, and no password was ever issued.
* `trust_overdraw`: two authorisations pass the second check together.
* `automation_double_send`: of two resends the later pulls the claim that the
  earlier has just made.
* `receivables_unbalanced`: the sale of an invoice with withholding tax debits
  the receivable with what is left after tax and credits net and VAT in full.
  The two comments it contradicts are those over `GlPostingService.post`
  (callers pass lines that balance) and over `writeOff` (which speaks of the
  unbalanced trial balance as a thing of the past).

**Bounds.** One tenant is enough for billing: no operation reads another
tenant's documents, and the job treats tenants one after the other, any of
which may be skipped. Two transactions let one be open while another is
settled; two handlers are the least that race, and every race in the hazard
list needs two. `billing_serial` takes one handler, a fault, four units of
time, so that a trial lapses, is renewed and lapses again;
`billing_concurrent` takes time for one lapse and no fault (the theorems cover
faults there). `Kinds` keeps a run to the requests that bear on its question;
between them the runs let every kind arrive. In `trust` two ledgers, three
movements (a deposit and two drawdowns), two people, amounts 1 and 2, a fault.
In `automation` two instances and a handler, a reminder and a follow-up, two
requests, a death, and four units of time: before, at and after the event, and
once the job's window is past. Without symmetry, as it checks liveness.
`automation_double_send` has the second handler that its race takes.
`receivables` has one invoice, as no action on an invoice reads
another but for plans and billing, two bank transactions, so that money comes
by two ways and one of them twice, and goes out too, seven requests and no
fault (the theorems cover faults there); `receivables_plans` has three
invoices, the least for a plan of two instalments, an entry to bill, which a
list names once or twice, and a fault. `receivables_unbalanced` needs one
invoice. In `offices` two requests overlap, five come
in all, and one fault: two runs and a loan over a month, two leaves over two
days, a campaign to two people with one run of the job beside the two
requests, a resolution of two directors or three polls (a tie, a special
majority with a quorum and without). Records of different offices never meet,
and the configuration gives them the same names, so that one permutation of
`a` and `b` is a symmetry of each office. `MaxRequests` bounds requests over the whole run, so each instance
falls quiet in the end.

**Deadlock** is not checked: once requests, faults and time are used up nothing
has to happen, as no tenant is obliged to ask for anything.

**Fairness.** Only what the runtime owes: the scheduler starts each cron job
again and again, and what is awaited returns or fails, so `CronStep` (and in
`EventAutomation` the steps of a request in flight) are weakly fair. Time is
not: it goes on or stands for as long as it likes, so that a unit of it is long
enough for the job to run as often as it takes, and the liveness properties of
events hold of those that the window does not leave behind.
No arrival of a request, no answer of the gateway and no fault is fair. In
`Receivables` the daily job is weakly fair in the same sense: its start
(`AutoSend`) and the steps of its run, and nothing else. The offices have no
liveness property: what gets stuck there (a campaign left Sending, a half
processed run) stays so until someone acts.

**Mutants.** Each property of a passing run is broken by a plausible slip: a
dropped status check, a status set too early, an update without its condition.
They stand next to the definitions they mutate, as "Mutant".

## 4. Proofs

TLC shows the properties on the instances above; these theorems show them for
every value of the constants, under the named assumptions on constants
(`BillingAssumption`, `TrustAssumption`, `AutomationAssumption`,
`ReceivablesAssumption`, `RequestsAssumption`, `PayrollAssumption`,
`LeaveAssumption`, `CampaignsAssumption`, `ResolutionsAssumption`: the bounds
are natural numbers, placeholder values differ from real ones, sets of ids are
disjoint, an event ends after it starts, an invoice owes something, lists of
entries are sequences, amounts of the bank's feed are integers, a board is
finite, and so are the collections that something is summed over: movements,
invoices, bank transactions, runs, leaves, and the requests in flight at
invoices).

| module | theorems |
|---|---|
| `TenantBilling_proofs` | `TypeCorrect`, `RequestsStayBacked`, `GrantsAreSettled`, `AccessFollowsPayment`, `BillingRefinesEntitlement`, `PaymentsCountOnce`, `NoStackedInvoices`, `ReceiptsStand` |
| `TrustAccounting_proofs` | `TypeCorrect`, `DrawdownsDualControlled`, `DecisionsAreFresh`, `BooksFollowMovements`, `DecisionsAreFinal`, `NothingOverdrawn` |
| `EventAutomation_proofs` | `TypeCorrect`, `StepsGoOutOnce`, `LogTellsTheTruth`, `InvitationsGoOutOnce`, `OverIsOver` |
| `Receivables_proofs` | `TypeCorrect`, `HoursBilledOnce`, `ReceivablesFollow`, `PaymentsBanked`, `PlansCoverDebt`, `NothingPaidCancelled` |
| `Payroll_proofs` | `PayrollTypeCorrect`, `NoSecondPayslip`, `ProcessedIsFinal`, `WithheldOnce`, `BalanceIsLeft` |
| `Leave_proofs` | `LeaveTypeCorrect`, `NoDayIsTakenTwice`, `AllowanceHolds`, `UsedDaysAreApproved` |
| `Offices_proofs` | `CampaignTypeCorrect`, `NobodyMailedTwice`, `MarkedGotIt`, `AudienceFixedOnceMailed`; `ResolutionTypeCorrect`, `OutcomesFollowVotes`, `VotesStayOwn`, `ResponsesStayPut`; `OfficesKeepTheirRecords`, `OfficesKeepWhatIsSettled` |

The argument of each:

* *TenantBilling.* `TypeOK /\ Backed` is inductive. `Backed` says what a
  request in flight may still rely on after each await: its transaction exists
  and is its tenant's, its plan was authorised, its payment is settled, its
  tenant had a password. Every write only adds to `settled`, `authorised` and
  `creds`, so another request cannot take that away; this is why these
  properties survive the races that break the serial ones. The other theorems
  read off it, the refinement by mapping `ApplyPlan`, `WriteAssignment` and
  `CreateSub` to `Grant`, the authorising steps to `Authorise`, all others to
  a stutter.
* *TenantBilling, in turn.* `OneGrantPerPayment`, `OneOpenRequest` and
  `PaidIsFinal` are false of requests that overlap, as `billing_double_request`
  shows. `PaymentsCountOnce` and its two neighbours have the form `Spec /\
  []InTurn => ...`: in behaviours in which no two requests *about one tenant*
  are in flight together, with any number of handlers, and the job, the
  gateway, faults and restarts interleaved as they like. With one handler, as
  in `billing_serial`, `InTurn` always holds (`OneHandlerInTurn`). On top of
  `Backed`, `SerialInv` adds that what a request has read of its transaction is
  still so when it writes (`StillTrue`), and that what was applied is paid
  (`AppliedOnce`). A request of another tenant works on another transaction,
  which is what `Backed` gives.
* *TrustAccounting.* `TypeOK /\ Grounded /\ DecisionsFresh /\ DualControl /\
  BooksFollow` is inductive. `Grounded` ties a request to the movement it works
  on: its ledger, its preparer and the other person. `BooksFollow` counts: each
  step moves one unit between "posted", "owed by a request" and "lost".
  `NothingOverdrawn` adds `Funded`: a request that is to decide on a ledger
  nobody else decides on has seen deposits that are all still there and
  exactly the drawdowns that stand, though it read the two sums one by one.
* *EventAutomation.* `TypeOK /\ Grounded /\ StepsHeld /\ ChangesApart`.
  `StepsHeld`: at each step that no resend raced at most one worker is at it,
  and the record in the log says so; `ChangesApart`: changes of the status that
  did not clash exclude each other, and what their guards read is still so.
* *Receivables.* `TypeOK /\ JobsOK /\ LinesOK /\ TwiceOK /\ Billing(e)` for
  each entry. `Billing`: of an entry that nobody raced for, at most one request
  is billing it, and where it stands while that request is under way;
  `TwiceOK`: what no request has listed twice is on no list twice, and so on no
  two lines of an invoice. What is said about
  money needs more, `Books`: `Grounded`, what each request knows of its invoice
  and transaction; then for each equation what the requests in flight have done
  to one side of it and not yet to the other, so that the two sides differ by
  the sum of it over all of them. That is `Ahead` for the receivable and the
  claim (`Balanced`), `Unbanked` for an invoice and Banking (`BankedOK`), and
  `SplitOK` and `PlannedOK` for the instalments that a plan still has to make. Each action changes one
  summand and one side by the same amount.
* *Payroll.* `PayrollTypeOK /\ Ordered /\ OnePayslipEach`. `Ordered`: at each
  run that is not contested at most one request works, and the run's status is
  still the one it read; while a payslip for one is being made, nobody it is
  still to be made for has one. For the loans, `LoansOK` and `RunsOK` follow a
  deduction on its way: of a run that is nobody else's, what is still to be
  deducted is what its payslips withhold, each line once (`DueOK`), what has
  been is in the loan's history and the rest is not (`Drawn`), and the lines of
  a draft fit into the balance, so that `Math.max(0, ...)` never cuts one off
  (`LoanOK`).
* *Leave.* `LeaveTypeOK /\ DeskOK /\ LeaveOK /\ StaffOK /\ NoDayTwice`. `StaffOK`
  bounds the days used together with those that may still come to count, which
  is why a check at the request suffices for a deduction much later. `DaysOK`
  adds that the days used are the sum over the leave approved that no request
  has yet to deduct.
* *Campaigns.* `CampaignTypeOK`, and for each campaign: nobody has a copy
  before it is sending (`UnbornOK`); with one worker at a time, its status and
  version are those the worker knows (`UntangledOK`); without faults, who has a
  copy is whom the worker has noted (`ComposedOK`).
* *Resolutions.* `ResolutionTypeOK /\ JobOK /\ RuleOK /\ OutcomeFollowsVotes`.
  `JobFits`: who read the version of now read the rows of now, as whatever
  writes rows moves the version on. `Late`: a request that would write the rows
  of a closed circulation knows an older version, as closing moves it on too.
  That counting approvals against the eligible is counting them against the
  others is a lemma about cardinalities (`SplitCount`).
* *Offices.* The conjunction of the four offices' invariants is inductive for
  `OfficesSpec`, the specification that the run `offices` checks: a step of an
  office keeps its own, and the others' hold of records that did not change,
  given that the counts of requests and faults that they share stay counts.

**Sums.** The model's balances are `SumFunctionOnSet` of module Functions.
Induction over data by the library's theorems is out of the provers' reach, as
these take an operator as a parameter; for sums there is a way round. A set of
finite subsets that is not empty has a smallest member (the library's
`FS_StrictSubsetOrderingWellFounded` and `WFMin`), and of the subsets on which
a given equation of sums fails there can be no smallest. `Sums` proves so that
the fold is well defined, and what follows from that: a member taken out or
put in, one summand changed, two functions added, the parts of a set.

Only model-checked are the five liveness properties under fairness,
`LapsedIsExpired`, `DueIsRecorded`, `SendingSettles`, `ClosedInTheEnd` and
`InstalmentsGoOut`, which this prover does not do. Every other property of a
passing run is a theorem. The properties of the five runs that expect a
violation are false.

## 5. Plan

1. **Done**: TenantBilling with Entitlement, TrustAccounting, EventAutomation,
   Receivables; Payroll, Leave, Campaigns and Resolutions side by side in
   Offices; of each, type correctness and every safety property that a run
   checks, proved.
2. **Team access**: members' own statuses under the billing cascade, as an
   extension of `team` in TenantBilling: reactivation opens whom HR suspended.
3. **The rest of the finance module**: bills and expense claims, trust accounts
   in Banking with the integrity check, period close against late postings.
4. **Contracts and notices**: signatures in any order, the in-memory flags of
   the notice job across restarts.
5. **Proofs**: further abstract specifications in the manner of `Entitlement`,
   with the refinements proved: a client account under dual control that
   `TrustAccounting` implements where decisions do not overlap, a mailing that
   reaches each person once for `EventAutomation` and `Campaigns`, a loan for
   `Payroll`.
