--------------------------- MODULE Payroll_proofs ---------------------------
(* Proofs about Payroll, for every value of its constants. *)
EXTENDS Payroll, Sums, TLAPS

(***************************************************************************)
(* What the properties rest on: which run a request is at and in which     *)
(* status, that requests which did not contest a run or a period are alone *)
(* there, and that a request for one employee still finds no payslip of    *)
(* the month in a run made for one.                                        *)
(***************************************************************************)
OnRun == {"clear", "generate", "collect", "find", "deduct",
          "save processed", "save paid", "delete slips", "delete run"}
OnDraft == OnRun \ {"save paid"}
Drafting == {"create", "generate"}

PayrollJobOK(h) ==
    /\ payroll[h].at \in OnRun =>
           /\ payroll[h].run \in Runs
           /\ runs[payroll[h].run].status # "absent"
    /\ payroll[h].at \notin OnRun => payroll[h].run = NoRun
    /\ payroll[h].at \in {"decide", "deduct"} => payroll[h].loan \in Loans
    /\ payroll[h].at = "clear" => ~payroll[h].one
    /\ payroll[h].run \in alone => payroll[h].at # "clear"
    /\ payroll[h].run \in alone /\ payroll[h].at = "generate" =>
           payroll[h].one

RunOK(r) ==
    r \notin contested =>
        /\ \A g, h \in Handlers :
               payroll[g].run = r /\ payroll[h].run = r => g = h
        /\ \A h \in Handlers : payroll[h].run = r =>
               /\ payroll[h].at \in OnDraft => runs[r].status = "draft"
               /\ payroll[h].at = "save paid" => runs[r].status = "processed"

One(h, p) ==
    payroll[h].one /\ payroll[h].at \in Drafting /\ payroll[h].period = p

PeriodOK(p) ==
    p \notin contested =>
        /\ \A g, h \in Handlers : One(g, p) /\ One(h, p) => g = h
        /\ \A h \in Handlers : One(h, p) =>
               \A s \in slips :
                   s.period = p /\ s.employee \in payroll[h].todo =>
                       s.run \notin alone

SlipsOK ==
    /\ \A s \in slips : runs[s.run].status # "absent"
    /\ \A r \in alone : runs[r].status # "absent"

Ordered ==
    /\ \A h \in Handlers : PayrollJobOK(h)
    /\ \A r \in Runs : RunOK(r)
    /\ \A p \in Periods : PeriodOK(p)
    /\ SlipsOK

PayrollIInv == PayrollTypeOK /\ Ordered /\ OnePayslipEach

-----------------------------------------------------------------------------
(* Types *)

LEMMA PayrollTypeFacts ==
    ASSUME PayrollTypeOK
    PROVE  /\ requests \in Nat /\ faults \in Nat /\ issued \in Nat
           /\ loans \in [Loans -> Loan]
           /\ history \in [Loans -> [Runs -> Nat]]
           /\ runs \in [Runs -> [status : RunStatus, period : Periods]]
           /\ slips \subseteq Slip
           /\ payroll \in [Handlers -> PayrollJob]
BY DEF PayrollTypeOK

LEMMA PayrollCountersTyped ==
    ASSUME PayrollTypeOK, Request \/ Step \/ Fault
    PROVE  requests' \in Nat /\ faults' \in Nat
BY PayrollTypeFacts DEF Request, Step, Fault

LEMMA PayrollJobFacts ==
    ASSUME PayrollTypeOK, NEW h \in Handlers
    PROVE  /\ payroll[h] \in PayrollJob
           /\ payroll[h].run \in Runs \union {NoRun}
           /\ payroll[h].loan \in Loans \union {NoLoan}
           /\ payroll[h].approve \in BOOLEAN /\ payroll[h].one \in BOOLEAN
           /\ payroll[h].amount \in Nat /\ payroll[h].outstanding \in Nat
           /\ payroll[h].period \in Periods
           /\ payroll[h].term \subseteq Periods
           /\ payroll[h].todo \subseteq Employees
           /\ payroll[h].due \subseteq Deduction
BY PayrollTypeFacts DEF PayrollJob

LEMMA FreeFacts ==
    /\ FreeDesk \in PayrollJob /\ FreeDesk.at = "idle"
    /\ FreeDesk.run = NoRun /\ ~FreeDesk.one /\ FreeDesk.period \in Periods
<1>1. (CHOOSE p \in Periods : TRUE) \in Periods
  BY PayrollAssumption
<1> QED BY <1>1 DEF FreeDesk, PayrollJob

\* Handler h goes on with job t, and no other handler moves.
PayrollMoves(h, t) ==
    /\ t \in PayrollJob
    /\ payroll' = [payroll EXCEPT ![h] = t]

LEMMA PayrollMovesFacts ==
    ASSUME PayrollTypeOK, NEW h \in Handlers, NEW t, PayrollMoves(h, t)
    PROVE  /\ payroll' \in [Handlers -> PayrollJob] /\ payroll'[h] = t
           /\ \A g \in Handlers \ {h} : payroll'[g] = payroll[g]
BY PayrollTypeFacts DEF PayrollMoves

\* A request goes on to its next step with what it knows.
LEMMA ThenMoves ==
    ASSUME PayrollTypeOK, NEW h \in Handlers,
           NEW at \in {"generate", "find", "save processed", "delete run"},
           Then(h, at)
    PROVE  \E t : /\ PayrollMoves(h, t) /\ t.at = at
                  /\ t = [payroll[h] EXCEPT !.at = at]
<1>1. [payroll[h] EXCEPT !.at = at] \in PayrollJob
  BY PayrollJobFacts DEF PayrollJob
<1>2. payroll' = [payroll EXCEPT ![h] = [payroll[h] EXCEPT !.at = at]]
  BY PayrollTypeFacts DEF Then
<1>3. [payroll[h] EXCEPT !.at = at].at = at
  BY PayrollJobFacts DEF PayrollJob
<1> QED BY <1>1, <1>2, <1>3 DEF PayrollMoves

-----------------------------------------------------------------------------
(* Frames *)

\* Nobody else's affairs: run r keeps its status, or its status matters to
\* nobody; nothing is added where h is not.
LEMMA PayrollOthersOK ==
    ASSUME PayrollIInv, NEW h \in Handlers, NEW t, PayrollMoves(h, t),
           contested \subseteq contested', alone' \subseteq alone,
           \A r \in Runs : runs[r].status # "absent" =>
               runs'[r].status # "absent"
    PROVE  \A g \in Handlers \ {h} : PayrollJobOK(g)'
<1> SUFFICES ASSUME NEW g \in Handlers \ {h} PROVE PayrollJobOK(g)'
  OBVIOUS
<1>1. payroll'[g] = payroll[g]
  BY PayrollMovesFacts DEF PayrollIInv
<1> QED BY <1>1 DEF PayrollIInv, Ordered, PayrollJobOK

\* Run r, which request h is not at after its step.
LEMMA RunAside ==
    ASSUME PayrollIInv, NEW h \in Handlers, NEW t, PayrollMoves(h, t),
           contested \subseteq contested',
           NEW r \in Runs, t.run # r,
           runs'[r].status = runs[r].status \/ payroll[h].run = r
    PROVE  RunOK(r)'
<1>1. payroll'[h] = t /\ \A g \in Handlers \ {h} : payroll'[g] = payroll[g]
  BY PayrollMovesFacts DEF PayrollIInv
<1>2. RunOK(r)
  BY DEF PayrollIInv, Ordered
<1> QED BY <1>1, <1>2 DEF RunOK

\* Run r, which request h is and stays at, alone if it was.
LEMMA RunKept ==
    ASSUME PayrollIInv, NEW h \in Handlers, NEW t, PayrollMoves(h, t),
           contested \subseteq contested',
           NEW r \in Runs, payroll[h].run = r, t.run = r,
           payroll[h].at \in OnDraft, t.at \in OnDraft,
           runs'[r].status = runs[r].status
    PROVE  RunOK(r)'
<1>1. payroll'[h] = t /\ \A g \in Handlers \ {h} : payroll'[g] = payroll[g]
  BY PayrollMovesFacts DEF PayrollIInv
<1>2. RunOK(r)
  BY DEF PayrollIInv, Ordered
<1> QED BY <1>1, <1>2 DEF RunOK, OnDraft

\* Run r, which request h takes up.
LEMMA RunTaken ==
    ASSUME PayrollIInv, NEW h \in Handlers, NEW t, PayrollMoves(h, t),
           NEW r \in Runs,
           t.run = r, Contest(h, r), runs' = runs,
           t.at \in OnDraft => runs[r].status = "draft",
           t.at = "save paid" => runs[r].status = "processed"
    PROVE  RunOK(r)' /\ contested \subseteq contested'
<1>1. payroll'[h] = t /\ \A g \in Handlers \ {h} : payroll'[g] = payroll[g]
  BY PayrollMovesFacts DEF PayrollIInv
<1>2. contested \subseteq contested'
      /\ (r \notin contested' =>
             \A g \in Handlers \ {h} : payroll[g].run # r)
  BY DEF Contest
<1> QED BY <1>1, <1>2 DEF RunOK

\* Request h is not one for an employee alone after its step, or it has
\* become no more: the months stay in order if no payslip is added.
LEMMA PeriodsAside ==
    ASSUME PayrollIInv, NEW h \in Handlers, NEW t, PayrollMoves(h, t),
           contested \subseteq contested', alone' \subseteq alone,
           slips' \subseteq slips,
           t.one /\ t.at \in Drafting =>
               /\ payroll[h].one /\ payroll[h].at \in Drafting
               /\ t.period = payroll[h].period
               /\ t.todo \subseteq payroll[h].todo
    PROVE  \A p \in Periods : PeriodOK(p)'
<1> SUFFICES ASSUME NEW p \in Periods PROVE PeriodOK(p)'
  OBVIOUS
<1>1. payroll'[h] = t /\ \A g \in Handlers \ {h} : payroll'[g] = payroll[g]
  BY PayrollMovesFacts DEF PayrollIInv
<1>2. \A g \in Handlers :
          /\ One(g, p)' => One(g, p)
          /\ One(g, p)' => payroll'[g].todo \subseteq payroll[g].todo
  BY <1>1 DEF One
<1>3. PeriodOK(p)
  BY DEF PayrollIInv, Ordered
<1> QED BY <1>2, <1>3 DEF PeriodOK

LEMMA FewerSlips ==
    ASSUME PayrollIInv, slips' \subseteq slips, contested \subseteq contested',
           alone' \subseteq alone,
           \A r \in Runs : runs[r].status # "absent" =>
               runs'[r].status # "absent"
    PROVE  SlipsOK' /\ OnePayslipEach'
<1>1. \A s \in slips : s.run \in Runs
  BY PayrollTypeFacts DEF PayrollIInv, Slip
<1>2. SlipsOK'
  BY <1>1 DEF PayrollIInv, PayrollTypeOK, Ordered, SlipsOK
<1>3. OnePayslipEach'
  BY DEF PayrollIInv, OnePayslipEach
<1> QED BY <1>2, <1>3

\* Steps of a request that adds no payslip and makes no run.
LEMMA Moved ==
    ASSUME PayrollIInv, NEW h \in Handlers, NEW t, PayrollMoves(h, t),
           PayrollTypeOK',
           contested \subseteq contested', alone' \subseteq alone,
           slips' \subseteq slips, PayrollJobOK(h)',
           \A r \in Runs : runs[r].status # "absent" =>
               runs'[r].status # "absent",
           \A r \in Runs : RunOK(r)',
           t.one /\ t.at \in Drafting =>
               /\ payroll[h].one /\ payroll[h].at \in Drafting
               /\ t.period = payroll[h].period
               /\ t.todo \subseteq payroll[h].todo
    PROVE  PayrollIInv'
BY PayrollOthersOK, PeriodsAside, FewerSlips DEF PayrollIInv, Ordered

-----------------------------------------------------------------------------
(* Loans *)

\* A step that concerns loans only, or nothing.
LEMMA LoansOnly ==
    ASSUME PayrollIInv, PayrollTypeOK',
           UNCHANGED <<runs, slips, payroll, contested, alone>>
    PROVE  PayrollIInv'
<1>1. \A h \in Handlers : PayrollJobOK(h)'
  BY DEF PayrollIInv, Ordered, PayrollJobOK
<1>2. \A r \in Runs : RunOK(r)'
  BY DEF PayrollIInv, Ordered, RunOK
<1>3. \A p \in Periods : PeriodOK(p)'
  BY DEF PayrollIInv, Ordered, PeriodOK, One
<1>4. SlipsOK' /\ OnePayslipEach'
  BY DEF PayrollIInv, Ordered, SlipsOK, OnePayslipEach
<1> QED BY <1>1, <1>2, <1>3, <1>4 DEF PayrollIInv, Ordered

LEMMA RequestLoanSafe ==
    ASSUME PayrollIInv, NEW e \in Employees, NEW l \in Loans,
           NEW p \in Principals,
           RequestLoan(e, l, p)
    PROVE  PayrollIInv'
<1>1. [of |-> e, status |-> "pending", principal |-> p, outstanding |-> p,
       instalment |-> 0, term |-> {}] \in Loan
  BY PayrollAssumption DEF Loan, LoanStatus
<1>2. PayrollTypeOK'
  BY <1>1, PayrollCountersTyped, PayrollTypeFacts
     DEF PayrollIInv, PayrollTypeOK, RequestLoan, LoanUntouched
<1> QED BY <1>2, LoansOnly DEF RequestLoan, LoanUntouched

LEMMA LogOwnerLoanSafe ==
    ASSUME PayrollIInv, NEW l \in Loans, NEW p \in Principals,
           NEW i \in Principals,
           NEW term \in SUBSET Periods, LogOwnerLoan(l, p, i, term)
    PROVE  PayrollIInv'
<1>1. [of |-> Owner, status |-> "active", principal |-> p,
       outstanding |-> p, instalment |-> i, term |-> term] \in Loan
  BY PayrollAssumption DEF Loan, LoanStatus
<1>2. PayrollTypeOK'
  BY <1>1, PayrollCountersTyped, PayrollTypeFacts
     DEF PayrollIInv, PayrollTypeOK, LogOwnerLoan, LoanUntouched
<1> QED BY <1>2, LoansOnly DEF LogOwnerLoan, LoanUntouched

LEMMA DeleteLoanSafe ==
    ASSUME PayrollIInv, NEW l \in Loans, DeleteLoan(l)
    PROVE  PayrollIInv'
<1>1. loans' \in [Loans -> Loan]
  BY PayrollTypeFacts DEF PayrollIInv, DeleteLoan, Loan, LoanStatus
<1>2. PayrollTypeOK'
  BY <1>1, PayrollCountersTyped, PayrollTypeFacts
     DEF PayrollIInv, PayrollTypeOK, DeleteLoan, LoanUntouched
<1> QED BY <1>2, LoansOnly DEF DeleteLoan, LoanUntouched

\* A request that is at no run, before and after.
LEMMA OffRun ==
    ASSUME PayrollIInv, NEW h \in Handlers, NEW t, PayrollMoves(h, t),
           PayrollTypeOK',
           contested \subseteq contested', UNCHANGED <<runs, slips, alone>>,
           t.at \in {"idle", "decide"}, t.run = NoRun,
           t.at = "decide" => t.loan \in Loans
    PROVE  PayrollIInv'
<1>1. payroll'[h] = t
  BY PayrollMovesFacts DEF PayrollIInv
<1>2. alone \subseteq Runs
  BY DEF PayrollIInv, PayrollTypeOK
<1>3. PayrollJobOK(h)'
  BY <1>1, <1>2, PayrollAssumption DEF PayrollJobOK, OnRun
<1>4. \A r \in Runs : RunOK(r)'
  BY PayrollAssumption, RunAside
<1> QED BY <1>3, <1>4, Moved DEF Drafting

LEMMA DecideLoanSafe ==
    ASSUME PayrollIInv, NEW h \in Handlers, NEW l \in Loans,
           NEW approve \in BOOLEAN, NEW i \in Principals,
           NEW term \in SUBSET Periods, DecideLoan(h, l, approve, i, term)
    PROVE  PayrollIInv'
<1> DEFINE t == [FreeDesk EXCEPT !.at = "decide", !.loan = l,
                    !.approve = approve, !.amount = i, !.term = term]
<1>1. /\ t \in PayrollJob /\ t.at = "decide" /\ t.run = NoRun
      /\ t.loan \in Loans
  BY FreeFacts, PayrollAssumption DEF PayrollJob
<1>2. PayrollMoves(h, t)
  BY <1>1 DEF DecideLoan, TakeUp, PayrollMoves
<1> HIDE DEF t
<1>3. PayrollTypeOK'
  BY <1>2, PayrollMovesFacts, PayrollCountersTyped, PayrollTypeFacts
     DEF PayrollIInv, PayrollTypeOK, DecideLoan, LoanUntouched
<1> QED BY <1>1, <1>2, <1>3, OffRun DEF DecideLoan, LoanUntouched

LEMMA AnswerMoves ==
    ASSUME PayrollTypeOK, NEW h \in Handlers, Answer(h)
    PROVE  PayrollMoves(h, FreeDesk)
BY FreeFacts DEF Answer, PayrollMoves

LEMMA SaveDecisionSafe ==
    ASSUME PayrollIInv, NEW h \in Handlers, SaveDecision(h)
    PROVE  PayrollIInv'
<1>1. PayrollMoves(h, FreeDesk)
  BY AnswerMoves DEF PayrollIInv, SaveDecision
<1>2. payroll[h].loan \in Loans
  BY DEF PayrollIInv, Ordered, PayrollJobOK, SaveDecision
<1>3. loans' \in [Loans -> Loan]
  <2> DEFINE l == payroll[h].loan
             yes == [loans[l] EXCEPT !.status = "active",
                        !.instalment = payroll[h].amount,
                        !.term = payroll[h].term]
             no == [loans[l] EXCEPT !.status = "rejected"]
  <2>1. loans[l] \in Loan
    BY <1>2, PayrollTypeFacts DEF PayrollIInv
  <2>2. yes \in Loan /\ no \in Loan
    BY <2>1, PayrollJobFacts DEF PayrollIInv, Loan, LoanStatus
  <2>3. \/ loans' = loans \/ loans' = [loans EXCEPT ![l] = yes]
        \/ loans' = [loans EXCEPT ![l] = no]
    BY <1>2, <2>1, PayrollTypeFacts DEF PayrollIInv, SaveDecision, Loan
  <2> QED BY <1>2, <2>2, <2>3, PayrollTypeFacts DEF PayrollIInv
<1>4. /\ contested \subseteq contested'
      /\ contested' \subseteq contested \union Loans
  BY <1>2 DEF SaveDecision
<1>5. PayrollTypeOK'
  BY <1>1, <1>3, <1>4, PayrollMovesFacts, PayrollCountersTyped, PayrollTypeFacts
     DEF PayrollIInv, PayrollTypeOK, SaveDecision, LoanUntouched
<1> QED BY <1>1, <1>4, <1>5, FreeFacts, OffRun
        DEF SaveDecision, LoanUntouched

-----------------------------------------------------------------------------
(* Requests for a run *)

\* Request h takes up a run, or leaves it, or goes on with it.
LEMMA TakesUp ==
    ASSUME PayrollIInv, NEW h \in Handlers, NEW r \in Runs, NEW t,
           PayrollMoves(h, t),
           t.run = r, t.at \in OnRun, ~t.one, Contest(h, r), Request,
           payroll[h].at = "idle",
           alone' \subseteq alone, t.at \in {"clear", "generate"} =>
               r \notin alone',
           runs[r].status # "absent",
           t.at \in OnDraft => runs[r].status = "draft",
           t.at = "save paid" => runs[r].status = "processed",
           t.at # "deduct",
           UNCHANGED <<loans, history, runs, slips, issued, crossed, failed>>
    PROVE  PayrollIInv'
<1>1. payroll'[h] = t /\ payroll' \in [Handlers -> PayrollJob]
  BY PayrollMovesFacts DEF PayrollIInv
<1>2. RunOK(r)' /\ contested \subseteq contested'
  BY RunTaken
<1>3. contested' \subseteq contested \union Runs
  BY DEF Contest
<1>4. PayrollTypeOK'
  BY <1>1, <1>3, PayrollCountersTyped, PayrollTypeFacts
     DEF PayrollIInv, PayrollTypeOK
<1>5. PayrollJobOK(h)'
  BY <1>1 DEF PayrollJobOK, OnRun
<1>6. \A q \in Runs : RunOK(q)'
  BY <1>2, RunAside
<1> QED BY <1>2, <1>4, <1>5, <1>6, Moved

LEMMA RecalculateSafe ==
    ASSUME PayrollIInv, NEW h \in Handlers, NEW r \in Runs, Recalculate(h, r)
    PROVE  PayrollIInv'
<1> DEFINE t == [FreeDesk EXCEPT !.at = "clear", !.run = r,
                    !.period = runs[r].period, !.todo = Employees]
<1>1. t \in PayrollJob /\ t.at = "clear" /\ t.run = r /\ ~t.one
  BY FreeFacts, PayrollTypeFacts DEF PayrollJob, PayrollIInv
<1>2. PayrollMoves(h, t) /\ payroll[h].at = "idle"
  BY <1>1 DEF Recalculate, TakeUp, PayrollMoves, Busy
<1> HIDE DEF t
<1> QED BY <1>1, <1>2, TakesUp DEF Recalculate, Drafted, OnRun, OnDraft

LEMMA OtherRequestsSafe ==
    ASSUME PayrollIInv, NEW h \in Handlers, NEW r \in Runs
    PROVE  Discard(h, r) \/ ProcessRun(h, r) \/ MarkPaid(h, r) => PayrollIInv'
<1>1. ASSUME NEW at \in {"delete slips", "collect", "save paid"}, Request,
             TakeUp(h, [FreeDesk EXCEPT !.at = at, !.run = r]),
             Contest(h, r),
             at = "save paid" => runs[r].status = "processed",
             at # "save paid" => runs[r].status = "draft",
             UNCHANGED <<loans, history, runs, slips, issued, alone, crossed,
                         failed>>
      PROVE  PayrollIInv'
  <2> DEFINE t == [FreeDesk EXCEPT !.at = at, !.run = r]
  <2>1. t \in PayrollJob /\ t.at = at /\ t.run = r /\ ~t.one
    BY FreeFacts DEF PayrollJob
  <2>2. PayrollMoves(h, t) /\ payroll[h].at = "idle"
    BY <1>1, <2>1 DEF TakeUp, PayrollMoves, Busy
  <2> HIDE DEF t
  <2> QED BY <1>1, <2>1, <2>2, TakesUp DEF OnRun, OnDraft
<1>2. Discard(h, r) => PayrollIInv'
  BY <1>1 DEF Discard, Drafted
<1>3. ProcessRun(h, r) => PayrollIInv'
  BY <1>1 DEF ProcessRun
<1>4. MarkPaid(h, r) => PayrollIInv'
  BY <1>1 DEF MarkPaid
<1> QED BY <1>2, <1>3, <1>4

LEMMA CreateRunSafe ==
    ASSUME PayrollIInv, NEW h \in Handlers, NEW p \in Periods,
           NEW scope \in SUBSET Employees, NEW one \in BOOLEAN,
           CreateRun(h, p, scope, one)
    PROVE  PayrollIInv'
<1> DEFINE t == [FreeDesk EXCEPT !.at = "create", !.period = p,
                                 !.todo = scope, !.one = one]
<1>1. /\ t \in PayrollJob /\ t.at = "create" /\ t.run = NoRun
      /\ t.period = p /\ t.todo = scope /\ t.one = one
  BY FreeFacts DEF PayrollJob
<1>2. PayrollMoves(h, t) /\ payroll[h].at = "idle"
  BY <1>1 DEF CreateRun, TakeUp, PayrollMoves, Busy
<1> HIDE DEF t
<1>3. /\ payroll' \in [Handlers -> PayrollJob] /\ payroll'[h] = t
      /\ \A g \in Handlers \ {h} : payroll'[g] = payroll[g]
  BY <1>2, PayrollMovesFacts DEF PayrollIInv
<1>4. /\ contested \subseteq contested'
      /\ contested' \subseteq contested \union {p}
      /\ p \notin contested' => \A g \in Handlers \ {h} : ~One(g, p)
      /\ UNCHANGED <<loans, history, runs, slips, issued, alone, crossed,
                     failed>>
  BY DEF CreateRun, One, Drafting
<1>5. PayrollTypeOK'
  BY <1>3, <1>4, PayrollCountersTyped, PayrollTypeFacts
     DEF PayrollIInv, PayrollTypeOK, CreateRun
<1>6. \A g \in Handlers \ {h} : PayrollJobOK(g)'
  BY <1>2, <1>4, PayrollOthersOK
<1>7. PayrollJobOK(h)'
  BY <1>1, <1>3, <1>5, PayrollAssumption DEF PayrollJobOK, OnRun, PayrollTypeOK
<1>8. \A r \in Runs : RunOK(r)'
  BY <1>1, <1>2, <1>4, PayrollAssumption, RunAside
<1>9. ASSUME NEW q \in Periods PROVE PeriodOK(q)'
  <2>1. PeriodOK(q)
    BY DEF PayrollIInv, Ordered
  <2>2. \A g \in Handlers \ {h} : One(g, q)' <=> One(g, q)
    BY <1>3 DEF One
  <2>3. CASE q # p \/ ~one
    <3>1. ~One(h, q)'
      BY <1>1, <1>3, <2>3 DEF One
    <3> QED BY <1>3, <1>4, <2>1, <2>2, <3>1 DEF PeriodOK
  <2>4. CASE q = p /\ one
    <3>1. \A s \in slips : ~(s.period = p /\ s.employee \in scope)
      BY <2>4 DEF CreateRun, Unpaid
    <3> QED BY <1>1, <1>3, <1>4, <2>2, <2>4, <3>1 DEF PeriodOK
  <2> QED BY <2>3, <2>4
<1>10. SlipsOK' /\ OnePayslipEach'
  BY <1>4, FewerSlips
<1> QED BY <1>5, <1>6, <1>7, <1>8, <1>9, <1>10 DEF PayrollIInv, Ordered

-----------------------------------------------------------------------------
(* The steps of a run *)

LEMMA NewRunSafe ==
    ASSUME PayrollIInv, NEW h \in Handlers, NEW r \in Runs, NewRun(h, r)
    PROVE  PayrollIInv'
<1> DEFINE t == [payroll[h] EXCEPT !.at = "generate", !.run = r]
<1>0. payroll[h].at = "create" /\ payroll[h].run = NoRun
      /\ runs[r].status = "absent"
  BY DEF NewRun, PayrollIInv, Ordered, PayrollJobOK, OnRun
<1>1. /\ t \in PayrollJob /\ t.at = "generate" /\ t.run = r
      /\ t.period = payroll[h].period /\ t.todo = payroll[h].todo
      /\ t.one = payroll[h].one
  BY PayrollJobFacts DEF PayrollIInv, PayrollJob
<1>2. PayrollMoves(h, t)
  BY <1>1, PayrollTypeFacts, PayrollJobFacts
     DEF NewRun, PayrollMoves, PayrollIInv, PayrollJob
<1> HIDE DEF t
<1>3. /\ payroll' \in [Handlers -> PayrollJob] /\ payroll'[h] = t
      /\ \A g \in Handlers \ {h} : payroll'[g] = payroll[g]
  BY <1>2, PayrollMovesFacts DEF PayrollIInv
<1>4. /\ runs' \in [Runs -> [status : RunStatus, period : Periods]]
      /\ runs'[r].status = "draft"
      /\ \A q \in Runs \ {r} : runs'[q] = runs[q]
      /\ alone' = IF payroll[h].one THEN alone \union {r} ELSE alone
      /\ UNCHANGED <<loans, history, slips, issued, contested, crossed,
                     failed>>
  BY PayrollJobFacts, PayrollTypeFacts DEF NewRun, PayrollIInv, RunStatus
<1>5. PayrollTypeOK'
  BY <1>3, <1>4, PayrollCountersTyped, PayrollTypeFacts
     DEF PayrollIInv, PayrollTypeOK, NewRun
<1>6. r \notin alone /\ \A s \in slips : s.run \in Runs \ {r}
  BY <1>0, PayrollTypeFacts DEF PayrollIInv, Ordered, SlipsOK, Slip
<1>7. \A g \in Handlers : payroll[g].run # r
  BY <1>0, PayrollAssumption DEF PayrollIInv, Ordered, PayrollJobOK
<1>8. ASSUME NEW g \in Handlers \ {h} PROVE PayrollJobOK(g)'
  BY <1>3, <1>4, <1>6, <1>7 DEF PayrollIInv, Ordered, PayrollJobOK
<1>9. PayrollJobOK(h)'
  BY <1>1, <1>3, <1>4, <1>6 DEF PayrollJobOK, OnRun
<1>10. ASSUME NEW q \in Runs PROVE RunOK(q)'
  <2>1. RunOK(q)
    BY DEF PayrollIInv, Ordered
  <2>2. CASE q = r
    BY <1>1, <1>3, <1>4, <1>7, <2>2 DEF RunOK
  <2>3. CASE q # r
    BY <1>2, <1>1, <1>4, <2>3, RunAside
  <2> QED BY <2>2, <2>3
<1>11. ASSUME NEW p \in Periods PROVE PeriodOK(p)'
  <2>1. PeriodOK(p)
    BY DEF PayrollIInv, Ordered
  <2>2. \A g \in Handlers : One(g, p)' <=> One(g, p)
    BY <1>0, <1>1, <1>3 DEF One, Drafting
  <2>3. \A g \in Handlers : payroll'[g].todo = payroll[g].todo
    BY <1>1, <1>3
  <2>4. \A s \in slips : s.run \in alone' => s.run \in alone
    BY <1>4, <1>6
  <2> QED BY <1>4, <2>1, <2>2, <2>3, <2>4 DEF PeriodOK
<1>12. SlipsOK'
  BY <1>4, <1>6 DEF PayrollIInv, PayrollTypeOK, Ordered, SlipsOK
<1>13. OnePayslipEach'
  BY <1>4, <1>6 DEF PayrollIInv, OnePayslipEach
<1> QED BY <1>5, <1>8, <1>9, <1>10, <1>11, <1>12, <1>13 DEF PayrollIInv, Ordered

LEMMA LinesTyped ==
    ASSUME PayrollTypeOK, NEW e \in Employees, NEW p \in Periods
    PROVE  [l \in Loans |-> Withheld(e, l, p)] \in [Loans -> Nat]
BY PayrollTypeFacts DEF Withheld, Min2, Loan

LEMMA GenerateSafe ==
    ASSUME PayrollIInv, NEW h \in Handlers, NEW e \in Employees, Generate(h, e)
    PROVE  PayrollIInv'
<1>0. /\ payroll[h].at = "generate" /\ e \in payroll[h].todo
      /\ payroll[h].run \in Runs /\ payroll[h].period \in Periods
      /\ runs[payroll[h].run].status # "absent"
  BY PayrollJobFacts DEF Generate, PayrollIInv, Ordered, PayrollJobOK, OnRun
<1> PICK r \in Runs, p \in Periods : payroll[h].run = r /\ payroll[h].period = p
  BY <1>0
<1> DEFINE t == [payroll[h] EXCEPT !.todo = payroll[h].todo \ {e}]
           new == [id |-> issued, run |-> r, employee |-> e, period |-> p,
                   lines |-> [l \in Loans |-> Withheld(e, l, p)]]
<1>1. /\ t \in PayrollJob /\ t.at = "generate" /\ t.run = r /\ t.period = p
      /\ t.todo = payroll[h].todo \ {e} /\ t.one = payroll[h].one
  BY <1>0, PayrollJobFacts DEF PayrollIInv, PayrollJob
<1>2. PayrollMoves(h, t)
  BY <1>1, PayrollTypeFacts DEF Generate, PayrollMoves, PayrollIInv
<1>3. /\ new \in Slip /\ new.run = r /\ new.employee = e /\ new.period = p
  BY LinesTyped, PayrollTypeFacts DEF PayrollIInv, Slip
<1>4. slips' = slips \union {new} /\ issued' = issued + 1
      /\ UNCHANGED <<loans, history, runs, alone, contested, failed>>
  BY DEF Generate
<1>5. crossed' \subseteq crossed \union Loans
  BY DEF Generate
<1> HIDE DEF t, new
<1>6. /\ payroll' \in [Handlers -> PayrollJob] /\ payroll'[h] = t
      /\ \A g \in Handlers \ {h} : payroll'[g] = payroll[g]
  BY <1>2, PayrollMovesFacts DEF PayrollIInv
<1>7. PayrollTypeOK'
  <2>1. slips' \subseteq Slip /\ issued' \in Nat
    BY <1>3, <1>4, PayrollTypeFacts DEF PayrollIInv
  <2>2. requests' \in Nat /\ faults' \in Nat
    BY PayrollCountersTyped DEF PayrollIInv, Generate
  <2>3. crossed' \subseteq Loans
    BY <1>5 DEF PayrollIInv, PayrollTypeOK
  <2> QED BY <1>4, <1>6, <2>1, <2>2, <2>3 DEF PayrollIInv, PayrollTypeOK
<1>8. \A g \in Handlers \ {h} : PayrollJobOK(g)'
  BY <1>2, <1>4, PayrollOthersOK
<1>9. PayrollJobOK(h)'
  BY <1>0, <1>1, <1>4, <1>6 DEF PayrollIInv, Ordered, PayrollJobOK, OnRun
<1>10. ASSUME NEW q \in Runs PROVE RunOK(q)'
  BY <1>0, <1>1, <1>2, <1>4, RunAside, RunKept DEF OnDraft, OnRun
<1>11. r \in alone => One(h, p)
  BY <1>0 DEF PayrollIInv, Ordered, PayrollJobOK, One, Drafting
<1>12. ASSUME NEW q \in Periods PROVE PeriodOK(q)'
  <2>1. PeriodOK(q)
    BY DEF PayrollIInv, Ordered
  <2>2. \A g \in Handlers : One(g, q)' <=> One(g, q)
    BY <1>0, <1>1, <1>6 DEF One, Drafting
  <2>3. \A g \in Handlers : payroll'[g].todo \subseteq payroll[g].todo
    BY <1>1, <1>6
  <2>4. ASSUME q \notin contested, NEW g \in Handlers, One(g, q),
               q = p, e \in payroll'[g].todo
        PROVE  r \notin alone
    BY <1>1, <1>6, <1>11, <2>1, <2>4 DEF PeriodOK
  <2> QED BY <1>3, <1>4, <2>1, <2>2, <2>3, <2>4 DEF PeriodOK
<1>13. SlipsOK'
  BY <1>0, <1>3, <1>4 DEF PayrollIInv, Ordered, SlipsOK
<1>14. ASSUME r \in alone, p \notin contested, NEW s \in slips,
              s.period = p, s.employee = e
       PROVE  s.run \notin alone
  BY <1>0, <1>11, <1>14 DEF PayrollIInv, Ordered, PeriodOK
<1>15. OnePayslipEach'
  <2> SUFFICES ASSUME NEW x \in slips', NEW y \in slips', x # y,
                      x.employee = y.employee, x.period = y.period,
                      {x.run, y.run, x.period} \intersect contested = {},
                      x.run \in alone, y.run \in alone
               PROVE  FALSE
    BY <1>4 DEF OnePayslipEach
  <2>1. CASE x \in slips /\ y \in slips
    BY <2>1 DEF PayrollIInv, OnePayslipEach
  <2>2. CASE x = new \/ y = new
    BY <1>3, <1>4, <1>14, <2>2
  <2> QED BY <1>4, <2>1, <2>2
<1> QED BY <1>7, <1>8, <1>9, <1>10, <1>12, <1>13, <1>15 DEF PayrollIInv, Ordered

\* A step of request h that stays at its run, changing neither runs nor what
\* the payslips of others hold.
LEMMA StaysAtRun ==
    ASSUME PayrollIInv, NEW h \in Handlers, NEW t, PayrollMoves(h, t),
           PayrollTypeOK',
           payroll[h].at \in OnDraft, t.at \in OnDraft,
           t.run = payroll[h].run,
           t.at = "deduct" => t.loan \in Loans,
           t.at = "clear" => FALSE,
           t.at = "generate" => /\ payroll[h].at \in {"generate", "clear"}
                                /\ t.one = payroll[h].one
                                /\ t.period = payroll[h].period
                                /\ t.todo \subseteq payroll[h].todo,
           contested \subseteq contested', slips' \subseteq slips,
           UNCHANGED <<runs, alone>>
    PROVE  PayrollIInv'
<1>1. payroll'[h] = t
  BY PayrollMovesFacts DEF PayrollIInv
<1>2. PayrollJobOK(h)
  BY DEF PayrollIInv, Ordered
<1>3. PayrollJobOK(h)'
  BY <1>1, <1>2 DEF PayrollJobOK, OnDraft, OnRun
<1>4. \A r \in Runs : RunOK(r)'
  BY RunKept, RunAside
<1>5. t.one /\ t.at \in Drafting =>
          /\ payroll[h].one /\ payroll[h].at \in Drafting
          /\ t.period = payroll[h].period
          /\ t.todo \subseteq payroll[h].todo
  BY <1>2 DEF PayrollJobOK, Drafting, OnDraft, OnRun
<1> QED BY <1>3, <1>4, <1>5, Moved

\* The fields that most steps of a request leave alone.
LEMMA Typed ==
    ASSUME PayrollIInv, NEW h \in Handlers, NEW t, PayrollMoves(h, t),
           Request \/ Step \/ Fault, slips' \subseteq slips,
           runs' \in [Runs -> [status : RunStatus, period : Periods]],
           failed' \subseteq failed \union Runs,
           UNCHANGED <<loans, history, issued, alone, contested, crossed>>
    PROVE  PayrollTypeOK'
BY PayrollMovesFacts, PayrollCountersTyped, PayrollTypeFacts
   DEF PayrollIInv, PayrollTypeOK

LEMMA SkipSafe ==
    ASSUME PayrollIInv, NEW h \in Handlers, NEW e \in Employees, Skip(h, e)
    PROVE  PayrollIInv'
<1> DEFINE t == [payroll[h] EXCEPT !.todo = payroll[h].todo \ {e}]
<1>1. /\ t \in PayrollJob /\ t.at = "generate" /\ t.run = payroll[h].run
      /\ t.period = payroll[h].period /\ t.one = payroll[h].one
      /\ t.todo \subseteq payroll[h].todo
  BY PayrollJobFacts DEF PayrollIInv, PayrollJob, Skip
<1>2. PayrollMoves(h, t)
  BY <1>1, PayrollTypeFacts DEF Skip, PayrollMoves, PayrollIInv
<1> HIDE DEF t
<1>3. PayrollTypeOK'
  BY <1>2, Typed, PayrollTypeFacts DEF Skip, payrollHistory, PayrollIInv
<1> QED BY <1>1, <1>2, <1>3, StaysAtRun
        DEF Skip, payrollHistory, OnDraft, OnRun

LEMMA DeleteSlipsSafe ==
    ASSUME PayrollIInv, NEW h \in Handlers, DeleteSlips(h)
    PROVE  PayrollIInv'
<1>1. PICK t : PayrollMoves(h, t) /\ t = [payroll[h] EXCEPT !.at = "delete run"]
  BY ThenMoves DEF DeleteSlips, PayrollIInv
<1>2. t.at = "delete run" /\ t.run = payroll[h].run
  BY <1>1, PayrollJobFacts DEF PayrollIInv, PayrollJob
<1>3. PayrollTypeOK'
  BY <1>1, Typed, PayrollTypeFacts DEF DeleteSlips, payrollHistory, PayrollIInv
<1> QED BY <1>1, <1>2, <1>3, StaysAtRun
        DEF DeleteSlips, payrollHistory, OnDraft, OnRun

LEMMA DueTyped ==
    ASSUME PayrollTypeOK, NEW r \in Runs
    PROVE  DeductionsOf(r) \subseteq Deduction
<1>1. \A s \in SlipsOf(r), l \in Loans :
          [id |-> s.id, loan |-> l, amount |-> s.lines[l]] \in Deduction
  BY PayrollTypeFacts DEF SlipsOf, Slip, Deduction
<1> QED BY <1>1 DEF DeductionsOf

LEMMA CollectSafe ==
    ASSUME PayrollIInv, NEW h \in Handlers, Collect(h)
    PROVE  PayrollIInv'
<1> DEFINE t == [payroll[h] EXCEPT !.at = "find",
                    !.due = DeductionsOf(payroll[h].run)]
<1>0. payroll[h].run \in Runs
  BY DEF PayrollIInv, Ordered, PayrollJobOK, OnRun, Collect
<1>1. t \in PayrollJob /\ t.at = "find" /\ t.run = payroll[h].run
  BY <1>0, DueTyped, PayrollJobFacts DEF PayrollIInv, PayrollJob
<1>2. PayrollMoves(h, t)
  BY <1>1, PayrollTypeFacts DEF Collect, PayrollMoves, PayrollIInv
<1> HIDE DEF t
<1>3. PayrollTypeOK'
  BY <1>2, Typed, PayrollTypeFacts DEF Collect, payrollHistory, PayrollIInv
<1> QED BY <1>1, <1>2, <1>3, StaysAtRun
        DEF Collect, payrollHistory, OnDraft, OnRun

LEMMA FindLoanSafe ==
    ASSUME PayrollIInv, NEW h \in Handlers, NEW d \in payroll[h].due,
           FindLoan(h, d)
    PROVE  PayrollIInv'
<1> DEFINE gone == [payroll[h] EXCEPT !.due = payroll[h].due \ {d}]
           found == [payroll[h] EXCEPT !.at = "deduct",
                        !.due = payroll[h].due \ {d}, !.loan = d.loan,
                        !.amount = d.amount,
                        !.outstanding = loans[d.loan].outstanding]
<1>0. d.loan \in Loans /\ d.amount \in Nat
      /\ loans[d.loan].outstanding \in Nat
  BY PayrollJobFacts, PayrollTypeFacts DEF PayrollIInv, Deduction, Loan
<1>1. /\ gone \in PayrollJob /\ gone.at = "find"
      /\ gone.run = payroll[h].run
  BY PayrollJobFacts DEF PayrollIInv, PayrollJob, FindLoan
<1>2. /\ found \in PayrollJob /\ found.at = "deduct"
      /\ found.run = payroll[h].run /\ found.loan \in Loans
  BY <1>0, PayrollJobFacts DEF PayrollIInv, PayrollJob
<1>3. PayrollMoves(h, gone) \/ PayrollMoves(h, found)
  BY <1>1, <1>2, PayrollTypeFacts DEF FindLoan, PayrollMoves, PayrollIInv
<1> HIDE DEF gone, found
<1>4. PayrollTypeOK'
  BY <1>3, Typed, PayrollTypeFacts DEF FindLoan, payrollHistory, PayrollIInv
<1>5. CASE PayrollMoves(h, gone)
  BY <1>1, <1>4, <1>5, StaysAtRun
     DEF FindLoan, payrollHistory, OnDraft, OnRun
<1>6. CASE PayrollMoves(h, found)
  BY <1>2, <1>4, <1>6, StaysAtRun
     DEF FindLoan, payrollHistory, OnDraft, OnRun
<1> QED BY <1>3, <1>5, <1>6

LEMMA AllDeductedSafe ==
    ASSUME PayrollIInv, NEW h \in Handlers, AllDeducted(h)
    PROVE  PayrollIInv'
<1>1. PICK t : /\ PayrollMoves(h, t)
               /\ t = [payroll[h] EXCEPT !.at = "save processed"]
  BY ThenMoves DEF AllDeducted, PayrollIInv
<1>2. t.at = "save processed" /\ t.run = payroll[h].run
  BY <1>1, PayrollJobFacts DEF PayrollIInv, PayrollJob
<1>3. PayrollTypeOK'
  BY <1>1, Typed, PayrollTypeFacts DEF AllDeducted, payrollHistory, PayrollIInv
<1> QED BY <1>1, <1>2, <1>3, StaysAtRun
        DEF AllDeducted, payrollHistory, OnDraft, OnRun

\* A request that ends, whatever it was at: runs change in their status, and
\* at most the one it was at.
LEMMA Ends ==
    ASSUME PayrollIInv, NEW h \in Handlers, Answer(h), PayrollTypeOK',
           contested \subseteq contested', slips' \subseteq slips,
           UNCHANGED alone,
           \A r \in Runs : \/ runs'[r].status = runs[r].status
                           \/ /\ payroll[h].run = r
                              /\ runs'[r].status # "absent"
    PROVE  PayrollIInv'
<1>1. PayrollMoves(h, FreeDesk) /\ payroll'[h] = FreeDesk
  BY AnswerMoves, PayrollMovesFacts DEF PayrollIInv
<1>2. alone \subseteq Runs
  BY DEF PayrollIInv, PayrollTypeOK
<1>3. PayrollJobOK(h)'
  BY <1>1, <1>2, FreeFacts, PayrollAssumption DEF PayrollJobOK, OnRun
<1>4. \A r \in Runs : RunOK(r)'
  BY <1>1, FreeFacts, PayrollAssumption, RunAside
<1> QED BY <1>1, <1>3, <1>4, FreeFacts, Moved

LEMMA GeneratedSafe ==
    ASSUME PayrollIInv, NEW h \in Handlers, Generated(h)
    PROVE  PayrollIInv'
<1>1. PayrollTypeOK'
  BY AnswerMoves, Typed, PayrollTypeFacts
     DEF Generated, payrollHistory, PayrollIInv
<1> QED BY <1>1, Ends DEF Generated, payrollHistory

LEMMA ClearSafe ==
    ASSUME PayrollIInv, NEW h \in Handlers, Clear(h)
    PROVE  PayrollIInv'
<1> DEFINE t == [payroll[h] EXCEPT !.at = "generate"]
<1>1. /\ t \in PayrollJob /\ t.at = "generate" /\ t.run = payroll[h].run
      /\ t.period = payroll[h].period /\ t.one = payroll[h].one
      /\ t.todo = payroll[h].todo
  BY PayrollJobFacts DEF PayrollIInv, PayrollJob
<1>2. /\ payroll[h].at = "clear" /\ Step
      /\ slips' \subseteq slips
      /\ UNCHANGED <<loans, history, runs, issued, payrollHistory>>
  BY DEF Clear
<1>3. CASE Answer(h)
  <2>1. PayrollTypeOK'
    BY <1>2, <1>3, AnswerMoves, Typed, PayrollTypeFacts
       DEF payrollHistory, PayrollIInv
  <2> QED BY <1>2, <1>3, <2>1, Ends DEF payrollHistory
<1>4. CASE Then(h, "generate")
  <2>1. PayrollMoves(h, t)
    BY <1>1, <1>4, PayrollTypeFacts DEF Then, PayrollMoves, PayrollIInv
  <2> HIDE DEF t
  <2>2. PayrollTypeOK'
    BY <1>2, <2>1, Typed, PayrollTypeFacts DEF payrollHistory, PayrollIInv
  <2> QED BY <1>1, <1>2, <2>1, <2>2, StaysAtRun
          DEF payrollHistory, OnDraft, OnRun
<1> QED BY <1>3, <1>4 DEF Clear

\* The last step of a request for a run, which gives it a new status or, when
\* it has been discarded, throws.
LEMMA EndsRun ==
    ASSUME PayrollIInv, NEW h \in Handlers, Step, Answer(h),
           payroll[h].at \in OnRun,
           NEW new \in {"discarded", "processed", "paid"},
           \/ runs' = runs
           \/ runs' = [runs EXCEPT ![payroll[h].run].status = new],
           UNCHANGED <<loans, history, slips, issued, payrollHistory>>
    PROVE  PayrollIInv'
<1>1. payroll[h].run \in Runs
  BY DEF PayrollIInv, Ordered, PayrollJobOK
<1>2. runs' \in [Runs -> [status : RunStatus, period : Periods]]
  BY PayrollTypeFacts DEF PayrollIInv, RunStatus
<1>3. \A r \in Runs : \/ runs'[r].status = runs[r].status
                       \/ /\ payroll[h].run = r
                          /\ runs'[r].status # "absent"
  BY <1>1, PayrollTypeFacts DEF PayrollIInv
<1>4. PayrollTypeOK'
  BY <1>2, AnswerMoves, Typed DEF payrollHistory, PayrollIInv
<1> QED BY <1>3, <1>4, Ends DEF payrollHistory

LEMMA LastStepsSafe ==
    ASSUME PayrollIInv, NEW h \in Handlers
    PROVE  DeleteRun(h) \/ SaveProcessed(h) \/ SavePaid(h) => PayrollIInv'
<1>1. DeleteRun(h) => PayrollIInv'
  BY EndsRun DEF DeleteRun, OnRun
<1>2. SaveProcessed(h) => PayrollIInv'
  BY EndsRun DEF SaveProcessed, OnRun
<1>3. SavePaid(h) => PayrollIInv'
  BY EndsRun DEF SavePaid, OnRun
<1> QED BY <1>1, <1>2, <1>3

LEMMA PayrollFaultSafe ==
    ASSUME PayrollIInv, NEW h \in Handlers, PayrollFault(h)
    PROVE  PayrollIInv'
<1>1. failed' \subseteq failed \union Runs
  BY PayrollJobFacts DEF PayrollFault, PayrollIInv
<1>2. PayrollTypeOK'
  BY <1>1, AnswerMoves, Typed, PayrollTypeFacts DEF PayrollFault, PayrollIInv
<1> QED BY <1>2, Ends DEF PayrollFault

LEMMA LeftTyped ==
    ASSUME NEW a \in Nat, NEW b \in Nat
    PROVE  Left(a, b) \in Nat
BY DEF Left

LEMMA DeductSafe ==
    ASSUME PayrollIInv, NEW h \in Handlers, Deduct(h)
    PROVE  PayrollIInv'
<1> PICK l \in Loans, r \in Runs : payroll[h].loan = l /\ payroll[h].run = r
  BY DEF PayrollIInv, Ordered, PayrollJobOK, OnRun, Deduct
<1>1. CASE loans[l].status = "deleted"
  <2>1. /\ Step /\ Answer(h) /\ failed' = failed \union {r}
        /\ UNCHANGED <<loans, history, runs, slips, issued, alone, crossed,
                       contested>>
    BY <1>1 DEF Deduct
  <2>2. PayrollTypeOK'
    BY <2>1, AnswerMoves, Typed, PayrollTypeFacts DEF PayrollIInv
  <2> QED BY <2>1, <2>2, Ends
<1>2. CASE loans[l].status # "deleted"
  <2> DEFINE left == Left(payroll[h].outstanding, payroll[h].amount)
             paid == [loans[l] EXCEPT !.outstanding = left,
                        !.status = IF left = 0 THEN "paid_off"
                                   ELSE loans[l].status]
             booked ==
                 [history[l] EXCEPT ![r] = history[l][r] + payroll[h].amount]
  <2>1. /\ Step /\ Then(h, "find")
        /\ loans' = [loans EXCEPT ![l] = paid]
        /\ history' = [history EXCEPT ![l] = booked]
        /\ contested \subseteq contested'
        /\ contested' \subseteq contested \union {l}
        /\ UNCHANGED <<runs, slips, issued, alone, crossed, failed>>
    BY <1>2, PayrollTypeFacts DEF Deduct, PayrollIInv, Loan
  <2>2. paid \in Loan
    <3>1. left \in Nat
      BY LeftTyped, PayrollJobFacts DEF PayrollIInv
    <3>2. loans[l] \in Loan
      BY PayrollTypeFacts DEF PayrollIInv
    <3> HIDE DEF left
    <3> QED BY <3>1, <3>2 DEF Loan, LoanStatus
  <2>3. booked \in [Runs -> Nat]
    <3>1. history[l] \in [Runs -> Nat] /\ payroll[h].amount \in Nat
      BY PayrollJobFacts, PayrollTypeFacts DEF PayrollIInv
    <3> QED BY <3>1
  <2> HIDE DEF paid, booked
  <2>4. loans' \in [Loans -> Loan] /\ history' \in [Loans -> [Runs -> Nat]]
    BY <2>1, <2>2, <2>3, PayrollTypeFacts DEF PayrollIInv
  <2>5. PICK t : PayrollMoves(h, t) /\ t = [payroll[h] EXCEPT !.at = "find"]
    BY <2>1, ThenMoves DEF PayrollIInv
  <2>6. t.at = "find" /\ t.run = payroll[h].run
    BY <2>5, PayrollJobFacts DEF PayrollIInv, PayrollJob
  <2>7. payroll' \in [Handlers -> PayrollJob]
    BY <2>5, PayrollMovesFacts DEF PayrollIInv
  <2>8. PayrollTypeOK'
    BY <2>1, <2>4, <2>7, PayrollCountersTyped, PayrollTypeFacts
       DEF PayrollIInv, PayrollTypeOK
  <2> QED BY <2>1, <2>5, <2>6, <2>8, StaysAtRun DEF Deduct, OnDraft, OnRun
<1> QED BY <1>1, <1>2

-----------------------------------------------------------------------------
(* The theorems *)

LEMMA PayrollInitSafe == PayrollInit => PayrollIInv
<1> SUFFICES ASSUME PayrollInit PROVE PayrollIInv
  OBVIOUS
<1>1. \A h \in Handlers : payroll[h] = FreeDesk
  BY DEF PayrollInit
<1>2. PayrollTypeOK
  <2>1. [of |-> Owner, status |-> "absent", principal |-> 0,
         outstanding |-> 0, instalment |-> 0, term |-> {}] \in Loan
    BY PayrollAssumption DEF Loan, LoanStatus
  <2>2. [status |-> "absent", period |-> FreeDesk.period]
            \in [status : RunStatus, period : Periods]
    BY FreeFacts DEF RunStatus
  <2> QED BY <2>1, <2>2, FreeFacts DEF PayrollInit, PayrollTypeOK
<1>3. Ordered
  BY <1>1, FreeFacts, PayrollAssumption
     DEF PayrollInit, Ordered, PayrollJobOK, RunOK, PeriodOK, One, SlipsOK,
         OnRun, Drafting
<1>4. OnePayslipEach
  BY DEF PayrollInit, OnePayslipEach
<1> QED BY <1>2, <1>3, <1>4 DEF PayrollIInv

LEMMA LoanRequestedSafe ==
    ASSUME PayrollIInv, NEW h \in Handlers, LoanRequested(h)
    PROVE  PayrollIInv'
BY RequestLoanSafe, LogOwnerLoanSafe, DecideLoanSafe, DeleteLoanSafe
   DEF LoanRequested

LEMMA RunRequestedSafe ==
    ASSUME PayrollIInv, NEW h \in Handlers, RunRequested(h)
    PROVE  PayrollIInv'
<1>1. \A p \in Periods : CreateRun(h, p, Employees, FALSE) => PayrollIInv'
  BY CreateRunSafe
<1>2. \A p \in Periods, e \in Employees : CreateRun(h, p, {e}, TRUE) =>
          PayrollIInv'
  BY CreateRunSafe
<1> QED BY <1>1, <1>2, RecalculateSafe, OtherRequestsSafe DEF RunRequested

LEMMA PayrollStepSafe ==
    ASSUME PayrollIInv, NEW h \in Handlers, PayrollStep(h)
    PROVE  PayrollIInv'
<1>1. CASE SaveDecision(h) \/ \E r \in Runs : NewRun(h, r)
  BY <1>1, SaveDecisionSafe, NewRunSafe
<1>2. CASE \E e \in Employees : Generate(h, e) \/ Skip(h, e)
  BY <1>2, GenerateSafe, SkipSafe
<1>3. CASE Generated(h) \/ Clear(h) \/ DeleteSlips(h) \/ DeleteRun(h)
  BY <1>3, GeneratedSafe, ClearSafe, DeleteSlipsSafe, LastStepsSafe
<1>4. CASE Collect(h) \/ \E d \in payroll[h].due : FindLoan(h, d)
  BY <1>4, CollectSafe, FindLoanSafe
<1>5. CASE AllDeducted(h) \/ Deduct(h) \/ SaveProcessed(h) \/ SavePaid(h)
  BY <1>5, AllDeductedSafe, DeductSafe, LastStepsSafe
<1> QED BY <1>1, <1>2, <1>3, <1>4, <1>5 DEF PayrollStep

LEMMA PayrollNextSafe == PayrollIInv /\ [PayrollNext]_payrollVars =>
    PayrollIInv'
<1> SUFFICES ASSUME PayrollIInv, [PayrollNext]_payrollVars PROVE PayrollIInv'
  OBVIOUS
<1>1. CASE PayrollNext
  BY <1>1, LoanRequestedSafe, RunRequestedSafe, PayrollStepSafe,
     PayrollFaultSafe DEF PayrollNext
<1>2. CASE UNCHANGED payrollVars
  <2>1. PayrollTypeOK'
    BY <1>2 DEF PayrollIInv, PayrollTypeOK, payrollVars, payrollHistory
  <2> QED BY <1>2, <2>1, LoansOnly DEF payrollVars, payrollHistory
<1> QED BY <1>1, <1>2

LEMMA PayrollInvariance == PayrollSpec => []PayrollIInv
BY PayrollInitSafe, PayrollNextSafe, PTL DEF PayrollSpec

\* Every variable of payroll keeps its type; in particular a loan's balance
\* and what the runs have taken off it never go below zero.
THEOREM PayrollTypeCorrect == PayrollSpec => []PayrollTypeOK
<1>1. PayrollIInv => PayrollTypeOK
  BY DEF PayrollIInv
<1> QED BY <1>1, PayrollInvariance, PTL

\* However many employees, runs and requests there are, an employee has at
\* most one payslip for a month among the runs made for one employee, unless
\* two requests were at the run, or two drafted for the month, at once.
THEOREM NoSecondPayslip == PayrollSpec => []OnePayslipEach
<1>1. PayrollIInv => OnePayslipEach
  BY DEF PayrollIInv
<1> QED BY <1>1, PayrollInvariance, PTL

\* What ProcessedStands says of a step.
Stands(r) ==
    runs[r].status \in {"processed", "paid"} /\ r \notin contested' =>
        /\ runs'[r].status \in {runs[r].status, "paid"}
        /\ {s \in slips' : s.run = r} = SlipsOf(r)

\* A request at a processed run that nobody contested only pays it.
LEMMA AtProcessed ==
    ASSUME PayrollIInv, NEW h \in Handlers, NEW r \in Runs,
           runs[r].status \in {"processed", "paid"}, r \notin contested,
           payroll[h].run = r
    PROVE  payroll[h].at \notin OnDraft
BY DEF PayrollIInv, Ordered, RunOK

LEMMA NothingWithdrawn ==
    ASSUME PayrollIInv, NEW h \in Handlers, NEW r \in Runs,
           runs[r].status \in {"processed", "paid"}, r \notin contested,
           PayrollStep(h)
    PROVE  /\ runs'[r].status \in {runs[r].status, "paid"}
           /\ {s \in slips' : s.run = r} = SlipsOf(r)
<1>1. payroll[h].at \in OnDraft => payroll[h].run # r
  BY AtProcessed
<1>2. CASE \/ SaveDecision(h) \/ \E e \in Employees : Skip(h, e)
           \/ Generated(h) \/ Collect(h)
           \/ \E d \in payroll[h].due : FindLoan(h, d)
           \/ AllDeducted(h) \/ Deduct(h)
  <2>1. UNCHANGED <<runs, slips>>
    BY <1>2 DEF SaveDecision, LoanUntouched, Skip, Generated, Collect,
                FindLoan, AllDeducted, Deduct
  <2> QED BY <2>1 DEF SlipsOf
<1>3. CASE \E q \in Runs : NewRun(h, q)
  BY <1>3, PayrollTypeFacts DEF NewRun, SlipsOf, PayrollIInv
<1>4. CASE \E e \in Employees : Generate(h, e)
  BY <1>1, <1>4 DEF Generate, SlipsOf, OnDraft, OnRun
<1>5. CASE Clear(h) \/ DeleteSlips(h)
  BY <1>1, <1>5 DEF Clear, DeleteSlips, SlipsOf, OnDraft, OnRun
<1>6. CASE DeleteRun(h) \/ SaveProcessed(h)
  BY <1>1, <1>6, PayrollTypeFacts
     DEF DeleteRun, SaveProcessed, SlipsOf, OnDraft, OnRun, PayrollIInv
<1>7. CASE SavePaid(h)
  BY <1>7, PayrollTypeFacts DEF SavePaid, SlipsOf, PayrollIInv
<1> QED BY <1>2, <1>3, <1>4, <1>5, <1>6, <1>7 DEF PayrollStep

LEMMA ContestedStays ==
    ASSUME NEW h \in Handlers, PayrollStep(h)
    PROVE  contested \subseteq contested'
<1>1. CASE SaveDecision(h) \/ Deduct(h)
  BY <1>1 DEF SaveDecision, Deduct
<1>2. CASE ~(SaveDecision(h) \/ Deduct(h))
  <2>1. UNCHANGED contested
    <3>1. CASE \E r \in Runs : NewRun(h, r)
      BY <3>1 DEF NewRun
    <3>2. CASE \E e \in Employees : Generate(h, e) \/ Skip(h, e)
      BY <3>2 DEF Generate, Skip, payrollHistory
    <3>3. CASE Generated(h) \/ Clear(h) \/ DeleteSlips(h) \/ DeleteRun(h)
      BY <3>3 DEF Generated, Clear, DeleteSlips, DeleteRun, payrollHistory
    <3>4. CASE Collect(h) \/ \E d \in payroll[h].due : FindLoan(h, d)
      BY <3>4 DEF Collect, FindLoan, payrollHistory
    <3>5. CASE AllDeducted(h) \/ SaveProcessed(h) \/ SavePaid(h)
      BY <3>5 DEF AllDeducted, SaveProcessed, SavePaid, payrollHistory
    <3> QED BY <1>2, <3>1, <3>2, <3>3, <3>4, <3>5 DEF PayrollStep
  <2> QED BY <2>1
<1> QED BY <1>1, <1>2

LEMMA RequestsTouchNothing ==
    ASSUME NEW h \in Handlers,
           LoanRequested(h) \/ RunRequested(h) \/ PayrollFault(h)
    PROVE  UNCHANGED <<runs, slips>>
<1>1. CASE LoanRequested(h)
  BY <1>1 DEF LoanRequested, RequestLoan, LogOwnerLoan, DecideLoan,
              DeleteLoan, LoanUntouched
<1>2. CASE RunRequested(h)
  <2>1. \A p \in Periods, scope \in SUBSET Employees, one \in BOOLEAN :
            CreateRun(h, p, scope, one) => UNCHANGED <<runs, slips>>
    BY DEF CreateRun
  <2>2. \A r \in Runs : \/ Recalculate(h, r) \/ Discard(h, r)
                        \/ ProcessRun(h, r) \/ MarkPaid(h, r)
                        => UNCHANGED <<runs, slips>>
    BY DEF Recalculate, Discard, ProcessRun, MarkPaid
  <2> QED BY <1>2, <2>1, <2>2 DEF RunRequested
<1>3. CASE PayrollFault(h)
  BY <1>3 DEF PayrollFault
<1> QED BY <1>1, <1>2, <1>3

LEMMA StandsInStep ==
    ASSUME PayrollIInv, [PayrollNext]_payrollVars, NEW r \in Runs
    PROVE  Stands(r)
<1>1. CASE \E h \in Handlers : PayrollStep(h)
  BY <1>1, ContestedStays, NothingWithdrawn DEF Stands
<1>2. CASE \E h \in Handlers :
              LoanRequested(h) \/ RunRequested(h) \/ PayrollFault(h)
  BY <1>2, RequestsTouchNothing DEF Stands, SlipsOf
<1>3. CASE UNCHANGED payrollVars
  BY <1>3 DEF payrollVars, Stands, SlipsOf
<1> QED BY <1>1, <1>2, <1>3 DEF PayrollNext

\* A processed run stays processed or gets paid, and its payslips stay as
\* they are, whatever requests come, unless two were at the run at once.
THEOREM ProcessedIsFinal == PayrollSpec => ProcessedStands
<1>1. PayrollIInv /\ [PayrollNext]_payrollVars =>
          [\A r \in Runs :
              runs[r].status \in {"processed", "paid"}
                  /\ r \notin contested' =>
                  /\ runs'[r].status \in {runs[r].status, "paid"}
                  /\ {s \in slips' : s.run = r} = SlipsOf(r)]_payrollVars
  BY StandsInStep DEF Stands
<1> QED BY <1>1, PayrollInvariance, PTL DEF PayrollSpec, ProcessedStands

-----------------------------------------------------------------------------
(* What is taken off a loan *)

(***************************************************************************)
(* What ties a loan to the payslips.  Only of a run that is whole (no two  *)
(* requests were at it at once, and no fault cut one short) is anything    *)
(* known: it has one payslip for an employee, and it has taken off a loan  *)
(* either nothing yet or what that payslip withholds, which is what the    *)
(* request that is processing it still has to do or has done.              *)
(***************************************************************************)
Whole(r) == r \notin contested \union failed

Taking == {"find", "deduct"}
Takes(h, r) ==
    payroll[h].run = r /\ payroll[h].at \in Taking \union {"save processed"}
PendingLine(h, l) ==
    \/ payroll[h].at \in Taking /\ \E d \in payroll[h].due : d.loan = l
    \/ payroll[h].at = "deduct" /\ payroll[h].loan = l

\* A payslip withholds for loans of its employee only, which are given out.
SlipOK(s) ==
    \A l \in Loans : s.lines[l] > 0 =>
        s.employee = loans[l].of /\ loans[l].status # "absent"

\* Request h decides on a loan that was asked for, or is about to take
\* something off loans that are given out: of a whole run, what a payslip of
\* it withholds, and each once.
DueOK(h) == LET r == payroll[h].run IN
    /\ payroll[h].at = "decide" => loans[payroll[h].loan].status # "absent"
    /\ payroll[h].at \in Taking =>
           /\ \A d \in payroll[h].due :
                  d.amount > 0 /\ loans[d.loan].status # "absent"
           /\ Whole(r) =>
                  /\ \A d \in payroll[h].due :
                         \E s \in SlipsOf(r) : s.lines[d.loan] = d.amount
                  /\ \A c, d \in payroll[h].due : c.loan = d.loan => c = d
    /\ payroll[h].at = "deduct" =>
           /\ payroll[h].amount > 0
           /\ loans[payroll[h].loan].status # "absent"
           /\ Whole(r) =>
                  /\ \E s \in SlipsOf(r) :
                         s.lines[payroll[h].loan] = payroll[h].amount
                  /\ \A d \in payroll[h].due : d.loan # payroll[h].loan

OneSlipEach(r) ==
    /\ \A s, t \in SlipsOf(r) : s.employee = t.employee => s = t
    /\ \A h \in Handlers : payroll[h].run = r /\ payroll[h].at = "generate" =>
           \A s \in SlipsOf(r) : s.employee \notin payroll[h].todo

TakenBy(h, r, l) ==
    /\ PendingLine(h, l) => history[l][r] = 0
    /\ ~PendingLine(h, l) /\ loans[l].status # "deleted" =>
           history[l][r] = WithheldBy(r, l)
Taken(r, l) ==
    /\ runs[r].status \notin {"processed", "paid"} => history[l][r] = 0
    /\ runs[r].status \in {"processed", "paid"}
           /\ loans[l].status # "deleted" => history[l][r] = WithheldBy(r, l)
Drawn(r, l) ==
    /\ \A h \in Handlers : Takes(h, r) => TakenBy(h, r, l)
    /\ (\A h \in Handlers : ~Takes(h, r)) => Taken(r, l)

\* The balance of a loan is trusted, and every payslip that a draft still
\* has to take off it fits into it.
Trusted(l) == l \notin crossed \union contested /\ ~Sullied(l)
OpenLine(s, l) == s.lines[l] > 0 /\ runs[s.run].status = "draft"
LoanOK(l) ==
    /\ loans[l].status = "absent" => \A r \in Runs : history[l][r] = 0
    /\ l \notin crossed =>
           \A s, t \in slips : OpenLine(s, l) /\ OpenLine(t, l) => s.run = t.run
    /\ Trusted(l) =>
           /\ \A s \in slips :
                  OpenLine(s, l) /\ Whole(s.run) /\ history[l][s.run] = 0 =>
                      s.lines[l] <= loans[l].outstanding
           /\ loans[l].principal - loans[l].outstanding = Deducted(l)

LoansOK == /\ IsFiniteSet(slips) /\ \A s \in slips : SlipOK(s)
           /\ \A l \in Loans : LoanOK(l)
RunsOK == /\ \A h \in Handlers : DueOK(h)
          /\ \A r \in Runs : Whole(r) =>
                 OneSlipEach(r) /\ \A l \in Loans : Drawn(r, l)

-----------------------------------------------------------------------------
(* What payslips withhold *)

LEMMA SlipsFinite ==
    ASSUME IsFiniteSet(slips), NEW r PROVE IsFiniteSet(SlipsOf(r))
<1>1. SlipsOf(r) \subseteq slips
  BY DEF SlipsOf
<1> QED
  BY <1>1, FS_Subset

LEMMA SlipFacts ==
    ASSUME PayrollTypeOK, NEW s \in slips
    PROVE  /\ s.run \in Runs /\ s.employee \in Employees /\ s.id \in Nat
           /\ \A l \in Loans : s.lines[l] \in Nat
BY PayrollTypeFacts DEF Slip

LEMMA WithheldNone ==
    ASSUME PayrollIInv, IsFiniteSet(slips), NEW r, NEW l \in Loans,
           \A s \in SlipsOf(r) : ~(s.lines[l] > 0)
    PROVE  WithheldBy(r, l) = 0
<1> DEFINE f == [s \in SlipsOf(r) |-> s.lines[l]]
<1>1. \A s \in SlipsOf(r) : s.lines[l] \in Nat
  BY SlipFacts DEF SlipsOf, PayrollIInv
<1>2. \A n \in Nat : ~(n > 0) => n = 0
  OBVIOUS
<1>3. \A s \in SlipsOf(r) : f[s] = 0
  BY <1>1, <1>2
<1> HIDE DEF f
<1>4. SumFunctionOnSet(f, SlipsOf(r)) = 0
  BY <1>3, SlipsFinite, SumZero
<1> QED
  BY <1>4 DEF WithheldBy, f

LEMMA WithheldOne ==
    ASSUME PayrollIInv, LoansOK, NEW r, OneSlipEach(r), NEW l \in Loans,
           NEW s \in SlipsOf(r), s.lines[l] > 0
    PROVE  WithheldBy(r, l) = s.lines[l]
<1> DEFINE f == [x \in SlipsOf(r) |-> x.lines[l]]
<1>1. \A x \in SlipsOf(r) : x.lines[l] \in Nat /\ x \in slips
  BY SlipFacts DEF SlipsOf, PayrollIInv
<1>2. \A n \in Nat : ~(n > 0) => n = 0
  OBVIOUS
<1>3. ASSUME NEW x \in SlipsOf(r) \ {s} PROVE f[x] = 0
  <2>1. ~(x.lines[l] > 0)
    BY <1>1 DEF LoansOK, SlipOK, OneSlipEach
  <2> QED
    BY <1>1, <1>2, <2>1
<1>4. (\A x \in SlipsOf(r) : f[x] \in Int) /\ f[s] = s.lines[l]
  BY <1>1
<1>5. IsFiniteSet(SlipsOf(r)) /\ IsFiniteSet(SlipsOf(r) \ {s})
  BY SlipsFinite, FS_Subset DEF LoansOK
<1> HIDE DEF f
<1>6. SumFunctionOnSet(f, SlipsOf(r))
          = f[s] + SumFunctionOnSet(f, SlipsOf(r) \ {s})
  BY <1>4, <1>5, SumRemove
<1>7. SumFunctionOnSet(f, SlipsOf(r) \ {s}) = 0
  BY <1>3, <1>5, SumZero
<1>8. PICK n \in Nat : n = s.lines[l]
  BY <1>1
<1>9. SumFunctionOnSet(f, SlipsOf(r)) = n + 0
  BY <1>4, <1>6, <1>7, <1>8
<1> QED
  BY <1>8, <1>9 DEF WithheldBy, f

LEMMA SameWithheld ==
    ASSUME NEW r, NEW l, SlipsOf(r)' = SlipsOf(r)
    PROVE  WithheldBy(r, l)' = WithheldBy(r, l)
BY DEF WithheldBy

LEMMA HistoryTyped ==
    ASSUME PayrollIInv, NEW l \in Loans, NEW r \in Runs
    PROVE  history[l][r] \in Nat /\ loans[l].outstanding \in Nat
           /\ loans[l].principal \in Nat
BY PayrollTypeFacts DEF PayrollIInv, Loan

-----------------------------------------------------------------------------
(* The loans, after every step *)

\* Nothing that counts is forgotten.
Remembers == /\ contested \subseteq contested' /\ crossed \subseteq crossed'
             /\ failed \subseteq failed'

\* A loan that no money went to or from.
SameLoan(l) ==
    /\ loans'[l].of = loans[l].of
    /\ loans'[l].status = "absent" <=> loans[l].status = "absent"
    /\ loans'[l].outstanding = loans[l].outstanding
    /\ loans'[l].principal = loans[l].principal
    /\ history'[l] = history[l]

\* Drafts are drafts from the start.
NoNewDraft ==
    \A s \in slips : runs'[s.run].status = "draft" =>
        runs[s.run].status = "draft"

LEMMA TrustedBefore ==
    ASSUME PayrollIInv, Remembers, NEW l, Trusted(l)',
           \A r \in Runs : history[l][r] > 0 => history'[l][r] > 0
    PROVE  Trusted(l)
BY DEF Trusted, Sullied, Remembers

LEMMA SameLoanOK ==
    ASSUME PayrollIInv, Remembers, LoansOK, NEW l \in Loans, SameLoan(l),
           NoNewDraft,
           slips' \subseteq slips
    PROVE  LoanOK(l)'
<1>1. LoanOK(l)
  BY DEF LoansOK
<1>2. Trusted(l)' => Trusted(l)
  BY TrustedBefore DEF SameLoan
<1>3. \A s \in slips' : OpenLine(s, l)' => OpenLine(s, l)
  BY DEF OpenLine, NoNewDraft
<1>4. \A r : Whole(r)' => Whole(r)
  BY DEF Whole, Remembers
<1>5. Deducted(l)' = Deducted(l)
  BY DEF Deducted, SameLoan
<1>6. loans'[l].status = "absent" => \A r \in Runs : history'[l][r] = 0
  BY <1>1 DEF LoanOK, SameLoan
<1>7. l \notin crossed' =>
          \A s, t \in slips' : OpenLine(s, l)' /\ OpenLine(t, l)' =>
              s.run = t.run
  BY <1>1, <1>3 DEF LoanOK, Remembers
<1>8. ASSUME Trusted(l)'
      PROVE  /\ \A s \in slips' :
                  OpenLine(s, l)' /\ Whole(s.run)' /\ history'[l][s.run] = 0 =>
                      s.lines[l] <= loans'[l].outstanding
             /\ loans'[l].principal - loans'[l].outstanding = Deducted(l)'
  BY <1>1, <1>2, <1>3, <1>4, <1>5, <1>8 DEF LoanOK, SameLoan
<1> QED
  BY <1>6, <1>7, <1>8 DEF LoanOK

LEMMA SameLoansOK ==
    ASSUME PayrollIInv, Remembers, LoansOK, \A l \in Loans : SameLoan(l),
           NoNewDraft,
           slips' \subseteq slips
    PROVE  LoansOK'
<1>1. IsFiniteSet(slips')
  BY FS_Subset DEF LoansOK
<1>2. \A s \in slips' : SlipOK(s)'
  BY DEF LoansOK, SlipOK, SameLoan
<1> QED
  BY <1>1, <1>2, SameLoanOK DEF LoansOK

LEMMA DeductedNone ==
    ASSUME PayrollIInv, NEW l \in Loans, \A r \in Runs : history[l][r] = 0
    PROVE  Deducted(l) = 0
<1>1. SumFunctionOnSet(history[l], Runs) = 0
  BY PayrollAssumption, SumZero
<1> QED
  BY <1>1 DEF Deducted

\* A loan is asked for, or given to the owner: nothing is owed for it yet.
LEMMA LentOK ==
    ASSUME PayrollIInv, LoansOK, NEW l \in Loans, loans[l].status = "absent",
           NEW new \in Loan, new.status # "absent",
           new.principal = new.outstanding, loans' = [loans EXCEPT ![l] = new],
           UNCHANGED <<history, runs, slips, contested, crossed, failed>>
    PROVE  LoansOK'
<1>1. loans'[l] = new /\ \A k \in Loans \ {l} : loans'[k] = loans[k]
  BY PayrollTypeFacts DEF PayrollIInv
<1>2. \A s \in slips : ~(s.lines[l] > 0)
  BY DEF LoansOK, SlipOK
<1>3. ASSUME NEW k \in Loans PROVE LoanOK(k)'
  <2>1. CASE k # l
    <3>1. SameLoan(k) /\ Remembers /\ NoNewDraft
      BY <1>1, <2>1 DEF SameLoan, Remembers, NoNewDraft
    <3> QED
      BY <3>1, SameLoanOK
  <2>2. CASE k = l
    <3>1. Deducted(l)' = 0
      <4>1. Deducted(l) = 0
        BY DeductedNone DEF LoansOK, LoanOK
      <4> QED
        BY <4>1 DEF Deducted
    <3>2. \A s \in slips' : ~OpenLine(s, l)'
      BY <1>2 DEF OpenLine
    <3>3. new.principal - new.outstanding = 0
      BY DEF Loan
    <3> QED
      BY <1>1, <2>2, <3>1, <3>2, <3>3 DEF LoanOK
  <2> QED
    BY <2>1, <2>2
<1>4. \A s \in slips' : SlipOK(s)'
  BY <1>1, <1>2 DEF LoansOK, SlipOK
<1> QED
  BY <1>3, <1>4 DEF LoansOK

LEMMA GenerateLoans ==
    ASSUME PayrollIInv, LoansOK, NEW h \in Handlers, NEW e \in Employees,
           Generate(h, e)
    PROVE  LoansOK'
<1>1. PICK r \in Runs, p \in Periods : /\ payroll[h].run = r
                                       /\ payroll[h].period = p
  BY PayrollJobFacts DEF Generate, PayrollIInv, Ordered, PayrollJobOK, OnRun
<1>0. PICK new : new = [id |-> issued, run |-> r, employee |-> e, period |-> p,
                        lines |-> [l \in Loans |-> Withheld(e, l, p)]]
  OBVIOUS
<1>2. /\ slips' = slips \union {new}
      /\ UNCHANGED <<loans, history, runs, alone, contested, failed>>
      /\ crossed' = crossed \union
           {l \in Loans : /\ new.lines[l] > 0
                          /\ \E s \in slips : /\ s.run # r
                                              /\ s.lines[l] > 0
                                              /\ runs[s.run].status = "draft"}
  BY <1>0, <1>1 DEF Generate
<1>3. /\ new.run = r /\ new.employee = e
      /\ \A l \in Loans : new.lines[l] = Withheld(e, l, p)
  BY <1>0
<1>4. ASSUME NEW l \in Loans, new.lines[l] > 0
      PROVE  /\ loans[l].of = e /\ loans[l].status # "absent"
             /\ new.lines[l] <= loans[l].outstanding
  <2>1. loans[l].of = e /\ loans[l].status = "active"
        /\ new.lines[l] = Min2(loans[l].instalment, loans[l].outstanding)
    BY <1>3, <1>4 DEF Withheld
  <2>2. loans[l].instalment \in Nat /\ loans[l].outstanding \in Nat
    BY PayrollTypeFacts DEF PayrollIInv, Loan
  <2> QED
    BY <2>1, <2>2 DEF Min2
<1>5. IsFiniteSet(slips') /\ \A s \in slips' : SlipOK(s)'
  <2>1. SlipOK(new)'
    BY <1>2, <1>3, <1>4 DEF SlipOK
  <2>2. \A s \in slips : SlipOK(s)'
    BY <1>2 DEF LoansOK, SlipOK
  <2> QED
    BY <1>2, <2>1, <2>2, FS_AddElement DEF LoansOK
<1>6. ASSUME NEW l \in Loans PROVE LoanOK(l)'
  <2>1. LoanOK(l)
    BY DEF LoansOK
  <2>2. \A s \in slips \union {new} : OpenLine(s, l)' <=> OpenLine(s, l)
    BY <1>2 DEF OpenLine
  <2>3. l \notin crossed' =>
            \A s, t \in slips' : OpenLine(s, l)' /\ OpenLine(t, l)' =>
                s.run = t.run
    <3>1. ASSUME l \notin crossed', NEW s \in slips, OpenLine(s, l),
                 OpenLine(new, l)
          PROVE  s.run = r
      BY <1>2, <3>1 DEF OpenLine
    <3> QED
      BY <1>2, <1>3, <2>1, <2>2, <3>1 DEF LoanOK
  <2>4. Trusted(l)' => Trusted(l)
    BY <1>2, TrustedBefore DEF Remembers
  <2>5. Deducted(l)' = Deducted(l) /\ \A q : Whole(q)' <=> Whole(q)
    BY <1>2 DEF Deducted, Whole
  <2>6. ASSUME Trusted(l)', NEW s \in slips', OpenLine(s, l), Whole(s.run),
               history[l][s.run] = 0
        PROVE  s.lines[l] <= loans[l].outstanding
    BY <1>2, <1>4, <2>1, <2>4, <2>6 DEF LoanOK, OpenLine
  <2> QED
    BY <1>2, <2>1, <2>2, <2>3, <2>4, <2>5, <2>6 DEF LoanOK
<1> QED
  BY <1>5, <1>6 DEF LoansOK

LEMMA DeductShape ==
    ASSUME PayrollIInv, NEW h \in Handlers, Deduct(h), NEW l \in Loans,
           NEW r \in Runs,
           payroll[h].loan = l, payroll[h].run = r,
           loans[l].status # "deleted",
           NEW o, NEW a, o = payroll[h].outstanding, a = payroll[h].amount
    PROVE  /\ Then(h, "find") /\ Remembers
           /\ \A k \in Loans \ {l} : loans'[k] = loans[k]
                                     /\ history'[k] = history[k]
           /\ loans'[l].outstanding = Left(o, a)
           /\ loans'[l].of = loans[l].of
           /\ loans'[l].principal = loans[l].principal
           /\ loans'[l].status \in {loans[l].status, "paid_off"}
           /\ history'[l][r] = history[l][r] + a
           /\ \A q \in Runs \ {r} : history'[l][q] = history[l][q]
           /\ loans[l].outstanding # o => l \in contested'
           /\ UNCHANGED <<runs, slips, crossed, failed>>
<1>1. loans \in [Loans -> Loan] /\ history \in [Loans -> [Runs -> Nat]]
      /\ loans[l] \in Loan /\ history[l] \in [Runs -> Nat]
  BY PayrollTypeFacts DEF PayrollIInv
<1> DEFINE new == [loans[l] EXCEPT !.outstanding = Left(o, a),
                       !.status = IF Left(o, a) = 0 THEN "paid_off"
                                  ELSE loans[l].status]
<1>2. loans' = [loans EXCEPT ![l] = new]
  BY <1>1 DEF Deduct, Loan
<1>3. /\ new.outstanding = Left(o, a) /\ new.of = loans[l].of
      /\ new.principal = loans[l].principal
      /\ new.status \in {loans[l].status, "paid_off"}
  BY <1>1 DEF Loan
<1> HIDE DEF new
<1>4. loans'[l] = new /\ \A k \in Loans \ {l} : loans'[k] = loans[k]
  BY <1>1, <1>2
<1>5. history' = [history EXCEPT
                      ![l] = [history[l] EXCEPT ![r] = history[l][r] + a]]
  BY <1>1 DEF Deduct
<1>6. /\ history'[l][r] = history[l][r] + a
      /\ \A q \in Runs \ {r} : history'[l][q] = history[l][q]
      /\ \A k \in Loans \ {l} : history'[k] = history[k]
  BY <1>1, <1>5
<1>7. /\ Then(h, "find") /\ Remembers
      /\ loans[l].outstanding # o => l \in contested'
      /\ UNCHANGED <<runs, slips, crossed, failed>>
  BY DEF Deduct, Remembers
<1> QED
  BY <1>3, <1>4, <1>6, <1>7

\* An instalment is taken off: the balance was the one that was read, and the
\* payslip fitted into it, as no other draft had withheld for the loan.
LEMMA DeductLoans ==
    ASSUME PayrollIInv, LoansOK, RunsOK, NEW h \in Handlers, Deduct(h)
    PROVE  LoansOK'
<1>1. PICK l \in Loans, r \in Runs : payroll[h].loan = l /\ payroll[h].run = r
  BY DEF PayrollIInv, Ordered, PayrollJobOK, OnRun, Deduct
<1>2. PICK o \in Nat, a \in Nat :
          o = payroll[h].outstanding /\ a = payroll[h].amount
  BY PayrollJobFacts DEF PayrollIInv
<1>3. payroll[h].at = "deduct" /\ DueOK(h)
  BY DEF Deduct, RunsOK
<1>4. a > 0 /\ loans[l].status # "absent"
  BY <1>1, <1>2, <1>3 DEF DueOK
<1>5. CASE loans[l].status = "deleted"
  <2>1. UNCHANGED <<loans, history, runs, slips, crossed, contested>>
        /\ failed \subseteq failed'
    BY <1>1, <1>5 DEF Deduct
  <2>2. (\A k \in Loans : SameLoan(k)) /\ Remembers /\ NoNewDraft
    BY <2>1 DEF SameLoan, Remembers, NoNewDraft
  <2> QED
    BY <2>1, <2>2, SameLoansOK
<1>6. CASE loans[l].status # "deleted"
  <2>1. /\ Remembers
        /\ \A k \in Loans \ {l} : loans'[k] = loans[k]
                                  /\ history'[k] = history[k]
        /\ loans'[l].outstanding = Left(o, a)
        /\ loans'[l].of = loans[l].of
        /\ loans'[l].principal = loans[l].principal
        /\ loans'[l].status \in {loans[l].status, "paid_off"}
        /\ history'[l][r] = history[l][r] + a
        /\ \A q \in Runs \ {r} : history'[l][q] = history[l][q]
        /\ loans[l].outstanding # o => l \in contested'
        /\ UNCHANGED <<runs, slips, crossed, failed>>
    BY <1>1, <1>2, <1>6, DeductShape
  <2>2. \A s \in slips' : SlipOK(s)'
    BY <1>4, <2>1 DEF LoansOK, SlipOK
  <2>3. NoNewDraft /\ \A k \in Loans \ {l} : SameLoan(k)
    BY <2>1 DEF NoNewDraft, SameLoan
  <2>4. LoanOK(l) /\ \A s \in slips : OpenLine(s, l)' <=> OpenLine(s, l)
    BY <2>1 DEF LoansOK, OpenLine
  <2>5. PICK old \in Nat : old = history[l][r]
    BY HistoryTyped
  <2>6. history'[l][r] > 0
    BY <1>4, <2>1, <2>5
  <2>7. ASSUME Trusted(l)'
        PROVE  /\ Trusted(l) /\ Whole(r) /\ loans[l].outstanding = o
               /\ history[l][r] = 0 /\ a <= o
               /\ \E s \in slips : OpenLine(s, l) /\ s.run = r
    <3>1. Trusted(l) /\ loans[l].outstanding = o
      <4>1. \A q \in Runs : history[l][q] > 0 => history'[l][q] > 0
        BY <2>1, <2>6
      <4>2. Trusted(l)
        BY <2>1, <2>7, <4>1, TrustedBefore
      <4> QED
        BY <2>1, <2>7, <4>2 DEF Trusted
    <3>2. Whole(r)
      BY <2>1, <2>6, <2>7 DEF Trusted, Sullied, Whole, Remembers
    <3>3. runs[r].status = "draft"
      BY <1>1, <1>3, <3>2 DEF PayrollIInv, Ordered, RunOK, Whole, OnDraft, OnRun
    <3>4. PICK s \in SlipsOf(r) : s.lines[l] = a
      BY <1>1, <1>2, <1>3, <3>2 DEF DueOK
    <3>5. Takes(h, r) /\ PendingLine(h, l) /\ Drawn(r, l)
      BY <1>1, <1>3, <3>2 DEF Takes, PendingLine, Taking, RunsOK
    <3>6. history[l][r] = 0
      BY <3>5 DEF Drawn, TakenBy
    <3>7. s \in slips /\ s.run = r /\ OpenLine(s, l)
      BY <1>4, <3>3, <3>4 DEF SlipsOf, OpenLine
    <3> QED
      BY <2>4, <3>1, <3>2, <3>4, <3>6, <3>7 DEF LoanOK
  <2>8. LoanOK(l)'
    <3>1. loans'[l].status # "absent"
      BY <1>4, <2>1
    <3>2. l \notin crossed' =>
              \A s, t \in slips' : OpenLine(s, l)' /\ OpenLine(t, l)' =>
                  s.run = t.run
      BY <2>1, <2>4 DEF LoanOK
    <3>3. ASSUME Trusted(l)', NEW s \in slips', OpenLine(s, l)', Whole(s.run)',
                 history'[l][s.run] = 0
          PROVE  s.lines[l] <= loans'[l].outstanding
      <4>1. s.run = r
        BY <2>1, <2>4, <2>7, <3>3 DEF LoanOK, Trusted
      <4> QED
        BY <2>6, <3>3, <4>1
    <3>4. ASSUME Trusted(l)'
          PROVE  loans'[l].principal - loans'[l].outstanding = Deducted(l)'
      <4>1. PICK principal \in Nat : principal = loans[l].principal
        BY HistoryTyped
      <4>2. principal - o = Deducted(l)
        BY <2>4, <2>7, <3>4, <4>1 DEF LoanOK
      <4>3. Deducted(l)' = Deducted(l) + a
        <5> DEFINE f == history[l]
                   g == history'[l]
        <5>1. /\ \A q \in Runs : f[q] \in Int
              /\ g[r] = f[r] + a /\ f[r] = 0
              /\ \A q \in Runs \ {r} : g[q] = f[q]
          BY <2>1, <2>7, <3>4, HistoryTyped
        <5>2. g[r] = a /\ g[r] \in Int
          BY <5>1
        <5> HIDE DEF f, g
        <5>3. SumFunctionOnSet(g, Runs)
                  = SumFunctionOnSet(f, Runs) + g[r] - f[r]
          BY <5>1, <5>2, PayrollAssumption, SumChange
        <5>4. SumFunctionOnSet(f, Runs) \in Int
          BY <5>1, PayrollAssumption, SumInt
        <5>5. SumFunctionOnSet(g, Runs) = SumFunctionOnSet(f, Runs) + a
          BY <5>1, <5>2, <5>3, <5>4
        <5> QED
          BY <5>5 DEF Deducted, f, g
      <4>4. Left(o, a) = o - a /\ loans'[l].principal = principal
        BY <2>1, <2>7, <3>4, <4>1 DEF Left
      <4>5. principal - (o - a) = principal - o + a
        OBVIOUS
      <4> QED
        BY <2>1, <4>2, <4>3, <4>4, <4>5
    <3> QED
      BY <3>1, <3>2, <3>3, <3>4 DEF LoanOK
  <2>9. \A k \in Loans : LoanOK(k)'
    BY <2>1, <2>3, <2>8, SameLoanOK
  <2> QED
    BY <2>1, <2>2, <2>9 DEF LoansOK
<1> QED
  BY <1>5, <1>6

LEMMA QuietLoans ==
    ASSUME PayrollIInv, LoansOK, Remembers, UNCHANGED <<loans, history, runs>>,
           slips' \subseteq slips
    PROVE  LoansOK'
<1>1. NoNewDraft /\ \A l \in Loans : SameLoan(l)
  BY DEF NoNewDraft, SameLoan
<1> QED
  BY <1>1, SameLoansOK

LEMMA LendingLoans ==
    ASSUME PayrollIInv, LoansOK, NEW l \in Loans, NEW p \in Principals
    PROVE  /\ \A e \in Employees : RequestLoan(e, l, p) => LoansOK'
           /\ \A i \in Principals, t \in SUBSET Periods :
                  LogOwnerLoan(l, p, i, t) => LoansOK'
<1>1. ASSUME NEW e \in Employees, RequestLoan(e, l, p) PROVE LoansOK'
  <2> DEFINE new == [of |-> e, status |-> "pending", principal |-> p,
                     outstanding |-> p, instalment |-> 0, term |-> {}]
  <2>1. /\ new \in Loan /\ new.status # "absent"
        /\ new.principal = new.outstanding
    BY PayrollAssumption DEF Loan, LoanStatus
  <2>2. /\ loans[l].status = "absent" /\ loans' = [loans EXCEPT ![l] = new]
        /\ UNCHANGED <<history, runs, slips, contested, crossed, failed>>
    BY <1>1 DEF RequestLoan, LoanUntouched
  <2> HIDE DEF new
  <2> QED
    BY <2>1, <2>2, LentOK
<1>2. ASSUME NEW i \in Principals, NEW t \in SUBSET Periods,
             LogOwnerLoan(l, p, i, t)
      PROVE  LoansOK'
  <2> DEFINE new == [of |-> Owner, status |-> "active", principal |-> p,
                     outstanding |-> p, instalment |-> i, term |-> t]
  <2>1. /\ new \in Loan /\ new.status # "absent"
        /\ new.principal = new.outstanding
    BY PayrollAssumption DEF Loan, LoanStatus
  <2>2. /\ loans[l].status = "absent" /\ loans' = [loans EXCEPT ![l] = new]
        /\ UNCHANGED <<history, runs, slips, contested, crossed, failed>>
    BY <1>2 DEF LogOwnerLoan, LoanUntouched
  <2> HIDE DEF new
  <2> QED
    BY <2>1, <2>2, LentOK
<1> QED
  BY <1>1, <1>2

\* A decision changes the terms of a loan, and a deletion its status.
LEMMA TermsLoans ==
    ASSUME PayrollIInv, LoansOK, RunsOK,
           (\E h \in Handlers : SaveDecision(h))
               \/ \E l \in Loans : DeleteLoan(l)
    PROVE  LoansOK'
<1>1. NoNewDraft /\ Remembers /\ UNCHANGED <<history, slips>>
  BY DEF SaveDecision, DeleteLoan, LoanUntouched, NoNewDraft, Remembers
<1>2. ASSUME NEW h \in Handlers, SaveDecision(h), NEW k \in Loans
      PROVE  SameLoan(k)
  <2>1. loans[k] \in Loan /\ loans \in [Loans -> Loan]
    BY PayrollTypeFacts DEF PayrollIInv
  <2>2. PICK l : l = payroll[h].loan
    OBVIOUS
  <2>3. l \in Loans /\ loans[l].status # "absent"
    BY <1>2, <2>2 DEF SaveDecision, PayrollIInv, Ordered, PayrollJobOK, RunsOK,
                      DueOK
  <2>4. CASE loans' = loans
    BY <1>1, <2>4 DEF SameLoan
  <2>5. CASE loans' = [loans EXCEPT ![l].status = "active",
                           ![l].instalment = payroll[h].amount,
                           ![l].term = payroll[h].term]
    <3> DEFINE new == [loans[l] EXCEPT !.status = "active",
                           !.instalment = payroll[h].amount,
                           !.term = payroll[h].term]
    <3>1. loans' = [loans EXCEPT ![l] = new]
      BY <2>1, <2>3, <2>5 DEF Loan
    <3>2. /\ new.of = loans[l].of /\ new.status = "active"
          /\ new.outstanding = loans[l].outstanding
          /\ new.principal = loans[l].principal
      BY <2>3, PayrollTypeFacts DEF PayrollIInv, Loan
    <3> HIDE DEF new
    <3> QED
      BY <1>1, <2>1, <2>3, <3>1, <3>2 DEF SameLoan
  <2>6. CASE loans' = [loans EXCEPT ![l].status = "rejected"]
    BY <1>1, <2>1, <2>3, <2>6 DEF SameLoan, Loan
  <2> QED
    BY <1>2, <2>2, <2>4, <2>5, <2>6 DEF SaveDecision
<1>3. ASSUME NEW l \in Loans, DeleteLoan(l), NEW k \in Loans
      PROVE  SameLoan(k)
  <2>1. loans[k] \in Loan /\ loans \in [Loans -> Loan]
    BY PayrollTypeFacts DEF PayrollIInv
  <2> QED
    BY <1>1, <1>3, <2>1 DEF DeleteLoan, SameLoan, Loan
<1> QED
  BY <1>1, <1>2, <1>3, SameLoansOK

LEMMA LoansKept ==
    ASSUME PayrollIInv, LoansOK, RunsOK, [PayrollNext]_payrollVars
    PROVE  LoansOK'
<1>1. ASSUME NEW h \in Handlers, LoanRequested(h)
      PROVE  LoansOK'
  <2>1. ASSUME NEW l \in Loans, NEW approve, NEW i, NEW t,
               DecideLoan(h, l, approve, i, t)
        PROVE  LoansOK'
    BY <2>1, QuietLoans DEF DecideLoan, LoanUntouched, Remembers
  <2> QED
    BY <1>1, <2>1, LendingLoans, TermsLoans DEF LoanRequested
<1>2. ASSUME NEW h \in Handlers, RunRequested(h)
      PROVE  LoansOK'
  <2>1. Remembers /\ UNCHANGED <<loans, history, runs, slips>>
    BY <1>2 DEF RunRequested, CreateRun, Recalculate, Discard, ProcessRun,
       MarkPaid, Contest, Remembers
  <2> QED
    BY <2>1, QuietLoans
<1>3. ASSUME NEW h \in Handlers, NEW r \in Runs, NewRun(h, r)
      PROVE  LoansOK'
  <2>1. \A s \in slips : s.run \in Runs /\ s.run # r
    BY <1>3, SlipFacts DEF NewRun, PayrollIInv, Ordered, SlipsOK
  <2>2. /\ Remembers /\ UNCHANGED <<loans, history, slips>>
        /\ \A q \in Runs \ {r} : runs'[q] = runs[q]
    BY <1>3, PayrollTypeFacts DEF NewRun, Remembers, PayrollIInv
  <2>3. NoNewDraft /\ \A l \in Loans : SameLoan(l)
    BY <2>1, <2>2 DEF NoNewDraft, SameLoan
  <2> QED
    BY <2>2, <2>3, SameLoansOK
<1>4. ASSUME NEW h \in Handlers, DeleteRun(h) \/ SaveProcessed(h) \/ SavePaid(h)
      PROVE  LoansOK'
  <2>1. Remembers /\ UNCHANGED <<loans, history, slips>>
    BY <1>4 DEF DeleteRun, SaveProcessed, SavePaid, payrollHistory, Remembers
  <2>2. \A q \in Runs : runs'[q] = runs[q] \/ runs'[q].status # "draft"
    BY <1>4, PayrollTypeFacts DEF DeleteRun, SaveProcessed, SavePaid,
                                  PayrollIInv
  <2>3. NoNewDraft /\ \A l \in Loans : SameLoan(l)
    BY <2>1, <2>2, SlipFacts DEF NoNewDraft, SameLoan, PayrollIInv
  <2> QED
    BY <2>1, <2>3, SameLoansOK
<1>5. ASSUME NEW h \in Handlers,
             \/ \E e \in Employees : Skip(h, e)
             \/ Generated(h) \/ Clear(h) \/ DeleteSlips(h) \/ Collect(h)
             \/ \E d \in payroll[h].due : FindLoan(h, d)
             \/ AllDeducted(h) \/ PayrollFault(h)
      PROVE  LoansOK'
  <2>1. /\ Remembers /\ UNCHANGED <<loans, history, runs>>
        /\ slips' \subseteq slips
    BY <1>5 DEF Skip, Generated, Clear, DeleteSlips, Collect, FindLoan,
       AllDeducted, PayrollFault, payrollHistory, Remembers
  <2> QED
    BY <2>1, QuietLoans
<1>6. CASE UNCHANGED payrollVars
  <2>1. Remembers /\ UNCHANGED <<loans, history, runs, slips>>
    BY <1>6 DEF payrollVars, payrollHistory, Remembers
  <2> QED
    BY <2>1, QuietLoans
<1>7. ASSUME NEW h \in Handlers, PayrollStep(h) PROVE LoansOK'
  BY <1>3, <1>4, <1>5, <1>7, TermsLoans, GenerateLoans, DeductLoans
     DEF PayrollStep
<1> QED
  BY <1>1, <1>2, <1>5, <1>6, <1>7 DEF PayrollNext

-----------------------------------------------------------------------------
(* The runs, after every step *)

\* No loan is taken back, and none that was deleted comes again.
GivenOut == \A l \in Loans :
    /\ loans'[l].status = "absent" => loans[l].status = "absent"
    /\ loans[l].status = "deleted" => loans'[l].status = "deleted"

LEMMA WholeBefore == ASSUME Remembers, NEW r, Whole(r)' PROVE Whole(r)
BY DEF Remembers, Whole

\* Nothing happens at a run.
LEMMA QuietRuns ==
    ASSUME PayrollIInv, RunsOK, Remembers, GivenOut,
           UNCHANGED <<payroll, slips, runs, history>>
    PROVE  RunsOK'
<1>1. \A r : SlipsOf(r)' = SlipsOf(r)
  BY DEF SlipsOf
<1>2. ASSUME NEW h \in Handlers PROVE DueOK(h)'
  <2>1. DueOK(h) /\ PayrollJobOK(h)
    BY DEF RunsOK, PayrollIInv, Ordered
  <2>2. \A d \in payroll[h].due : d.loan \in Loans
    BY PayrollJobFacts DEF PayrollIInv, Deduction
  <2>3. SlipsOf(payroll[h].run)' = SlipsOf(payroll[h].run)
    BY DEF SlipsOf
  <2> QED
    BY <2>1, <2>2, <2>3, WholeBefore DEF DueOK, PayrollJobOK, Taking, GivenOut
<1>3. ASSUME NEW r \in Runs, Whole(r)'
      PROVE  OneSlipEach(r)' /\ \A l \in Loans : Drawn(r, l)'
  <2>1. OneSlipEach(r) /\ \A l \in Loans : Drawn(r, l)
    BY <1>3, WholeBefore DEF RunsOK
  <2>2. OneSlipEach(r)'
    BY <1>1, <2>1 DEF OneSlipEach
  <2>3. ASSUME NEW l \in Loans PROVE Drawn(r, l)'
    <3>1. WithheldBy(r, l)' = WithheldBy(r, l)
      BY <1>1, SameWithheld
    <3>2. \A h \in Handlers : /\ Takes(h, r)' <=> Takes(h, r)
                              /\ PendingLine(h, l)' <=> PendingLine(h, l)
      BY DEF Takes, PendingLine
    <3> QED
      BY <2>1, <3>1, <3>2 DEF Drawn, TakenBy, Taken, GivenOut
  <2> QED
    BY <2>2, <2>3
<1> QED
  BY <1>2, <1>3 DEF RunsOK

\* Request h changes the payslips of its own run only.
OwnSlips(h) == \A r \in Runs : payroll[h].run # r => SlipsOf(r)' = SlipsOf(r)

\* What is due, told of the job that request g has next.
LEMMA DueAfter ==
    ASSUME NEW g, NEW job, NEW r, payroll'[g] = job, job.run = r,
           job.at = "decide" => loans'[job.loan].status # "absent",
           job.at \in Taking =>
               /\ \A d \in job.due :
                      d.amount > 0 /\ loans'[d.loan].status # "absent"
               /\ Whole(r)' =>
                      /\ \A d \in job.due :
                             \E s \in SlipsOf(r)' : s.lines[d.loan] = d.amount
                      /\ \A c, d \in job.due : c.loan = d.loan => c = d,
           job.at = "deduct" =>
               /\ job.amount > 0
               /\ loans'[job.loan].status # "absent"
               /\ Whole(r)' =>
                      /\ \E s \in SlipsOf(r)' : s.lines[job.loan] = job.amount
                      /\ \A d \in job.due : d.loan # job.loan
    PROVE  DueOK(g)'
<1>1. Whole(payroll[g].run)' <=> Whole(r)'
  BY DEF Whole
<1>2. SlipsOf(payroll[g].run)' = SlipsOf(r)'
  BY DEF SlipsOf
<1> QED
  BY <1>1, <1>2 DEF DueOK

LEMMA OthersDue ==
    ASSUME PayrollIInv, RunsOK, Remembers, GivenOut, NEW h \in Handlers, NEW t,
           PayrollMoves(h, t), OwnSlips(h), NEW g \in Handlers \ {h}
    PROVE  DueOK(g)'
<1>1. DueOK(g) /\ PayrollJobOK(g) /\ payroll'[g] = payroll[g]
  BY PayrollMovesFacts DEF RunsOK, PayrollIInv, Ordered
<1>2. \A d \in payroll[g].due : d.loan \in Loans
  BY PayrollJobFacts DEF PayrollIInv, Deduction
<1>3. PICK r : r = payroll[g].run
  OBVIOUS
<1>4. ASSUME Whole(r)', payroll[g].at \in Taking
      PROVE  Whole(r) /\ SlipsOf(r)' = SlipsOf(r)
  <2>1. r \in Runs /\ r \notin contested
    BY <1>1, <1>3, <1>4 DEF PayrollJobOK, OnRun, Taking, Whole, Remembers
  <2>2. payroll[h].run # r
    BY <1>3, <2>1 DEF PayrollIInv, Ordered, RunOK
  <2> QED
    BY <1>4, <2>1, <2>2, WholeBefore DEF OwnSlips
<1>5. payroll[g].at = "decide" => loans'[payroll[g].loan].status # "absent"
  BY <1>1 DEF DueOK, PayrollJobOK, GivenOut
<1>6. ASSUME payroll[g].at \in Taking
      PROVE  /\ \A d \in payroll[g].due :
                  d.amount > 0 /\ loans'[d.loan].status # "absent"
             /\ Whole(r)' =>
                  /\ \A d \in payroll[g].due :
                         \E s \in SlipsOf(r)' : s.lines[d.loan] = d.amount
                  /\ \A c, d \in payroll[g].due : c.loan = d.loan => c = d
  BY <1>1, <1>2, <1>3, <1>4, <1>6 DEF DueOK, GivenOut
<1>7. ASSUME payroll[g].at = "deduct"
      PROVE  /\ payroll[g].amount > 0
             /\ loans'[payroll[g].loan].status # "absent"
             /\ Whole(r)' =>
                  /\ \E s \in SlipsOf(r)' :
                         s.lines[payroll[g].loan] = payroll[g].amount
                  /\ \A d \in payroll[g].due : d.loan # payroll[g].loan
  <2>1. payroll[g].loan \in Loans /\ payroll[g].at \in Taking
    BY <1>1, <1>7 DEF PayrollJobOK, Taking
  <2> QED
    BY <1>1, <1>3, <1>4, <1>7, <2>1 DEF DueOK, GivenOut
<1>8. PICK job : job = payroll[g] /\ payroll'[g] = job
  BY <1>1
<1> QED
  BY <1>3, <1>5, <1>6, <1>7, <1>8, DueAfter

\* A run that request h is not at, neither before nor after.
LEMMA AsideDrawn ==
    ASSUME PayrollIInv, RunsOK, Remembers, GivenOut, NEW h \in Handlers, NEW t,
           PayrollMoves(h, t), OwnSlips(h), NEW r \in Runs, Whole(r)',
           payroll[h].run # r, t.run # r, runs'[r].status = runs[r].status,
           \A l \in Loans : history'[l][r] = history[l][r]
    PROVE  OneSlipEach(r)' /\ \A l \in Loans : Drawn(r, l)'
<1>1. SlipsOf(r)' = SlipsOf(r) /\ OneSlipEach(r) /\ \A l \in Loans : Drawn(r, l)
  BY WholeBefore DEF OwnSlips, RunsOK
<1>2. payroll'[h] = t /\ \A g \in Handlers \ {h} : payroll'[g] = payroll[g]
  BY PayrollMovesFacts DEF PayrollIInv
<1>3. OneSlipEach(r)'
  BY <1>1, <1>2 DEF OneSlipEach
<1>4. ASSUME NEW l \in Loans PROVE Drawn(r, l)'
  <2>1. WithheldBy(r, l)' = WithheldBy(r, l)
    BY <1>1, SameWithheld
  <2>2. ~Takes(h, r) /\ ~Takes(h, r)'
    BY <1>2 DEF Takes
  <2>3. \A g \in Handlers \ {h} : /\ Takes(g, r)' <=> Takes(g, r)
                                  /\ PendingLine(g, l)' <=> PendingLine(g, l)
    BY <1>2 DEF Takes, PendingLine
  <2> QED
    BY <1>1, <2>1, <2>2, <2>3 DEF Drawn, TakenBy, Taken, GivenOut
<1> QED
  BY <1>3, <1>4

LEMMA RunsFrame ==
    ASSUME PayrollIInv, RunsOK, Remembers, GivenOut, NEW h \in Handlers, NEW t,
           PayrollMoves(h, t), OwnSlips(h), DueOK(h)',
           \A r \in Runs : payroll[h].run # r /\ t.run # r =>
               /\ runs'[r].status = runs[r].status
               /\ \A l \in Loans : history'[l][r] = history[l][r],
           \A r \in Runs : Whole(r)' /\ (payroll[h].run = r \/ t.run = r) =>
               OneSlipEach(r)' /\ \A l \in Loans : Drawn(r, l)'
    PROVE  RunsOK'
<1>1. \A g \in Handlers : DueOK(g)'
  BY OthersDue
<1>2. ASSUME NEW r \in Runs, Whole(r)'
      PROVE  OneSlipEach(r)' /\ \A l \in Loans : Drawn(r, l)'
  BY <1>2, AsideDrawn
<1> QED
  BY <1>1, <1>2 DEF RunsOK

\* At a whole run, request h is alone.
LEMMA AloneAfter ==
    ASSUME PayrollIInv, Remembers, NEW h \in Handlers, NEW t,
           PayrollMoves(h, t),
           NEW r \in Runs, Whole(r)',
           \/ payroll[h].run = r
           \/ Contest(h, r)
           \/ runs[r].status = "absent"
    PROVE  \A g \in Handlers \ {h} : payroll[g].run # r /\ payroll'[g].run # r
<1>1. \A g \in Handlers \ {h} : payroll'[g] = payroll[g]
  BY PayrollMovesFacts DEF PayrollIInv
<1>2. r \notin contested' /\ r \notin contested
  BY DEF Whole, Remembers
<1>3. CASE payroll[h].run = r
  BY <1>1, <1>2, <1>3 DEF PayrollIInv, Ordered, RunOK
<1>4. CASE Contest(h, r)
  BY <1>1, <1>2, <1>4 DEF Contest
<1>5. CASE runs[r].status = "absent"
  BY <1>1, <1>5, PayrollAssumption DEF PayrollIInv, Ordered, PayrollJobOK, OnRun
<1> QED
  BY <1>3, <1>4, <1>5

LEMMA DrawnAlone ==
    ASSUME PayrollIInv, NEW h \in Handlers, NEW t, PayrollMoves(h, t),
           NEW r \in Runs,
           \A g \in Handlers \ {h} : payroll'[g].run # r,
           NEW l \in Loans,
           t.run = r /\ t.at \in Taking \union {"save processed"} =>
               TakenBy(h, r, l)',
           ~(t.run = r /\ t.at \in Taking \union {"save processed"}) =>
               Taken(r, l)'
    PROVE  Drawn(r, l)'
<1>1. payroll'[h] = t
  BY PayrollMovesFacts DEF PayrollIInv
<1>2. \A g \in Handlers \ {h} : ~Takes(g, r)'
  BY DEF Takes
<1>3. Takes(h, r)' <=> t.run = r /\ t.at \in Taking \union {"save processed"}
  BY <1>1 DEF Takes
<1> QED
  BY <1>2, <1>3 DEF Drawn

\* What was known before of the run that request h is alone at.
LEMMA TakenBefore ==
    ASSUME PayrollIInv, RunsOK, NEW h \in Handlers, NEW r \in Runs, Whole(r),
           \A g \in Handlers \ {h} : payroll[g].run # r, NEW l \in Loans
    PROVE  IF Takes(h, r) THEN TakenBy(h, r, l) ELSE Taken(r, l)
<1>1. Drawn(r, l) /\ \A g \in Handlers \ {h} : ~Takes(g, r)
  BY DEF RunsOK, Takes
<1> QED
  BY <1>1 DEF Drawn

LEMMA SlipsAlone ==
    ASSUME PayrollIInv, NEW h \in Handlers, NEW t, PayrollMoves(h, t),
           NEW r \in Runs,
           \A g \in Handlers \ {h} : payroll'[g].run # r,
           \A x, y \in SlipsOf(r)' : x.employee = y.employee => x = y,
           t.run = r /\ t.at = "generate" =>
               \A s \in SlipsOf(r)' : s.employee \notin t.todo
    PROVE  OneSlipEach(r)'
<1>1. payroll'[h] = t
  BY PayrollMovesFacts DEF PayrollIInv
<1> QED
  BY <1>1 DEF OneSlipEach

\* How request h comes to be at run r, if it is.
Reaches(h, r) == \/ payroll[h].run = r
                 \/ payroll[h].run = NoRun
                        /\ (Contest(h, r) \/ runs[r].status = "absent")

LEMMA KnownOf ==
    ASSUME PayrollIInv, RunsOK, Remembers, NEW h \in Handlers, NEW t,
           PayrollMoves(h, t),
           NEW r \in Runs, Whole(r)', Reaches(h, r)
    PROVE  /\ Whole(r) /\ OneSlipEach(r)
           /\ \A g \in Handlers \ {h} : payroll[g].run # r
                                        /\ payroll'[g].run # r
           /\ \A l \in Loans : IF Takes(h, r)
                                  THEN TakenBy(h, r, l)
                                  ELSE Taken(r, l)
           /\ payroll[h].run = r /\ payroll[h].at \in OnDraft =>
                  runs[r].status = "draft"
           /\ payroll[h].run = r /\ payroll[h].at = "save paid" =>
                  runs[r].status = "processed"
<1>1. Whole(r) /\ OneSlipEach(r)
  BY WholeBefore DEF RunsOK
<1>2. \A g \in Handlers \ {h} : payroll[g].run # r /\ payroll'[g].run # r
  BY AloneAfter DEF Reaches
<1>3. \A l \in Loans : IF Takes(h, r) THEN TakenBy(h, r, l) ELSE Taken(r, l)
  BY <1>1, <1>2, TakenBefore
<1>4. RunOK(r) /\ r \notin contested
  BY <1>1 DEF PayrollIInv, Ordered, Whole
<1> QED
  BY <1>1, <1>2, <1>3, <1>4 DEF RunOK

\* One step of request h, which concerns run r.
LEMMA AtRun ==
    ASSUME PayrollIInv, RunsOK, Remembers, GivenOut, NEW h \in Handlers, NEW t,
           PayrollMoves(h, t), NEW r \in Runs, Reaches(h, r),
           t.run \in {r, NoRun},
           OwnSlips(h), DueOK(h)',
           \A q \in Runs \ {r} :
               /\ runs'[q].status = runs[q].status
               /\ \A l \in Loans : history'[l][q] = history[l][q],
           Whole(r)' =>
               /\ \A x, y \in SlipsOf(r)' : x.employee = y.employee => x = y
               /\ t.run = r /\ t.at = "generate" =>
                      \A s \in SlipsOf(r)' : s.employee \notin t.todo
               /\ \A l \in Loans :
                      IF t.run = r /\ t.at \in Taking \union {"save processed"}
                      THEN TakenBy(h, r, l)' ELSE Taken(r, l)'
    PROVE  RunsOK'
<1>1. ASSUME Whole(r)'
      PROVE  OneSlipEach(r)' /\ \A l \in Loans : Drawn(r, l)'
  <2>1. \A g \in Handlers \ {h} : payroll'[g].run # r
    BY <1>1, AloneAfter DEF Reaches
  <2>2. OneSlipEach(r)'
    BY <1>1, <2>1, SlipsAlone
  <2>3. ASSUME NEW l \in Loans PROVE Drawn(r, l)'
    BY <1>1, <2>1, DrawnAlone
  <2> QED
    BY <2>2, <2>3
<1>2. \A q \in Runs : payroll[h].run = q \/ t.run = q => q = r
  BY PayrollAssumption DEF Reaches
<1>4. ASSUME NEW q \in Runs, Whole(q)'
      PROVE  OneSlipEach(q)' /\ \A l \in Loans : Drawn(q, l)'
  <2>1. CASE q = r
    BY <1>1, <1>4, <2>1
  <2>2. CASE q # r
    <3>1. /\ payroll[h].run # q /\ t.run # q
          /\ runs'[q].status = runs[q].status
          /\ \A l \in Loans : history'[l][q] = history[l][q]
      BY <1>2, <2>2
    <3> QED
      BY <1>4, <3>1, AsideDrawn
  <2> QED
    BY <2>1, <2>2
<1>5. \A g \in Handlers : DueOK(g)'
  BY OthersDue
<1> QED
  BY <1>4, <1>5 DEF RunsOK

\* Nothing is due of a request that is at no such step.
LEMMA NothingDue ==
    ASSUME PayrollIInv, NEW h \in Handlers, NEW t, PayrollMoves(h, t),
           t.at \notin Taking, t.at # "decide"
    PROVE  DueOK(h)'
<1>1. payroll'[h] = t
  BY PayrollMovesFacts DEF PayrollIInv
<1> QED
  BY <1>1 DEF DueOK, Taking

\* A request that is at no run before and after.
LEMMA OffRuns ==
    ASSUME PayrollIInv, RunsOK, Remembers, GivenOut, NEW h \in Handlers, NEW t,
           PayrollMoves(h, t), payroll[h].run = NoRun, t.run = NoRun, DueOK(h)',
           UNCHANGED <<slips, runs, history>>
    PROVE  RunsOK'
<1>1. OwnSlips(h)
  BY DEF OwnSlips, SlipsOf
<1>2. \A r \in Runs : payroll[h].run # r /\ t.run # r
  BY PayrollAssumption
<1> QED
  BY <1>1, <1>2, RunsFrame

\* A step that takes nothing off a loan.
LEMMA NotTaking ==
    ASSUME PayrollIInv, RunsOK, Remembers, NEW h \in Handlers, NEW t,
           PayrollMoves(h, t), NEW r \in Runs, Reaches(h, r),
           t.run \in {r, NoRun},
           payroll[h].at \notin Taking \union {"save processed"},
           t.at \notin Taking \union {"save processed", "decide"},
           OwnSlips(h), UNCHANGED <<loans, history>>,
           \A q \in Runs \ {r} : runs'[q].status = runs[q].status,
           Whole(r)' =>
               /\ \A x, y \in SlipsOf(r)' : x.employee = y.employee => x = y
               /\ t.run = r /\ t.at = "generate" =>
                      \A s \in SlipsOf(r)' : s.employee \notin t.todo
               /\ \/ {runs[r].status, runs'[r].status}
                         \intersect {"processed", "paid"} = {}
                  \/ /\ SlipsOf(r)' = SlipsOf(r)
                     /\ {runs[r].status, runs'[r].status}
                            \subseteq {"processed", "paid"}
                  \/ /\ SlipsOf(r)' = SlipsOf(r)
                     /\ runs[r].status = runs'[r].status
    PROVE  RunsOK'
<1>1. DueOK(h)' /\ GivenOut /\ ~Takes(h, r)
  BY NothingDue DEF GivenOut, Takes
<1>2. ASSUME Whole(r)', NEW l \in Loans PROVE Taken(r, l)'
  <2>1. Taken(r, l)
    BY <1>1, <1>2, KnownOf
  <2>2. SlipsOf(r)' = SlipsOf(r) => WithheldBy(r, l)' = WithheldBy(r, l)
    BY SameWithheld
  <2>3. CASE {runs[r].status, runs'[r].status}
                 \intersect {"processed", "paid"} = {}
    BY <2>1, <2>3 DEF Taken
  <2>4. CASE /\ SlipsOf(r)' = SlipsOf(r)
             /\ {runs[r].status, runs'[r].status} \subseteq {"processed",
                                                             "paid"}
    BY <2>1, <2>2, <2>4 DEF Taken
  <2>5. CASE /\ SlipsOf(r)' = SlipsOf(r)
             /\ runs[r].status = runs'[r].status
    BY <2>1, <2>2, <2>5 DEF Taken
  <2> QED
    BY <1>2, <2>3, <2>4, <2>5
<1> QED
  BY <1>1, <1>2, AtRun

-----------------------------------------------------------------------------
(* The runs, after each action *)

\* What a request for a loan does not do.
LEMMA LoanRequestsRuns ==
    ASSUME PayrollIInv, RunsOK, NEW h \in Handlers, LoanRequested(h)
    PROVE  RunsOK'
<1>1. ASSUME NEW l \in Loans,
             \/ \E e \in Employees, p \in Principals : RequestLoan(e, l, p)
             \/ \E p, i \in Principals, t \in SUBSET Periods :
                    LogOwnerLoan(l, p, i, t)
             \/ DeleteLoan(l)
      PROVE  RunsOK'
  <2>1. /\ UNCHANGED <<payroll, slips, runs, history>> /\ Remembers
    BY <1>1 DEF RequestLoan, LogOwnerLoan, DeleteLoan, LoanUntouched, Remembers
  <2>2. /\ loans'[l].status # "absent" /\ loans[l].status # "deleted"
        /\ \A k \in Loans \ {l} : loans'[k] = loans[k]
    BY <1>1, PayrollTypeFacts
       DEF PayrollIInv, RequestLoan, LogOwnerLoan, DeleteLoan, Loan
  <2>3. GivenOut
    BY <2>2 DEF GivenOut
  <2> QED
    BY <2>1, <2>3, QuietRuns
<1>2. ASSUME NEW l \in Loans, NEW approve \in BOOLEAN, NEW i, NEW term,
             DecideLoan(h, l, approve, i, term), i \in Principals,
             term \subseteq Periods
      PROVE  RunsOK'
  <2> DEFINE t == [FreeDesk EXCEPT !.at = "decide", !.loan = l,
                      !.approve = approve, !.amount = i, !.term = term]
  <2>1. /\ t \in PayrollJob /\ t.at = "decide" /\ t.run = NoRun /\ t.loan = l
    BY <1>2, FreeFacts, PayrollAssumption DEF PayrollJob
  <2>2. PayrollMoves(h, t) /\ payroll[h].run = NoRun
    BY <1>2, <2>1
       DEF DecideLoan, TakeUp, PayrollMoves, Busy, PayrollIInv, Ordered,
           PayrollJobOK, OnRun
  <2> HIDE DEF t
  <2>3. /\ UNCHANGED <<loans, slips, runs, history>> /\ Remembers /\ GivenOut
        /\ loans'[l].status # "absent"
    BY <1>2 DEF DecideLoan, LoanUntouched, Remembers, GivenOut
  <2>4. payroll'[h] = t
    BY <2>2, PayrollMovesFacts DEF PayrollIInv
  <2>5. DueOK(h)'
    BY <2>1, <2>3, <2>4 DEF DueOK, Taking
  <2> QED
    BY <2>1, <2>2, <2>3, <2>5, OffRuns
<1> QED
  BY <1>1, <1>2 DEF LoanRequested

LEMMA SaveDecisionRuns ==
    ASSUME PayrollIInv, RunsOK, NEW h \in Handlers, SaveDecision(h)
    PROVE  RunsOK'
<1>1. PayrollMoves(h, FreeDesk)
  BY AnswerMoves DEF PayrollIInv, SaveDecision
<1>2. payroll[h].at = "decide" /\ payroll[h].run = NoRun
  BY DEF SaveDecision, PayrollIInv, Ordered, PayrollJobOK, OnRun
<1>3. PICK l \in Loans : l = payroll[h].loan
  BY <1>2 DEF PayrollIInv, Ordered, PayrollJobOK
<1>4. UNCHANGED <<slips, runs, history>> /\ Remembers
  BY DEF SaveDecision, LoanUntouched, Remembers
<1>5. \/ loans' = loans
      \/ /\ loans[l].status # "deleted" /\ loans'[l].status # "absent"
         /\ \A k \in Loans \ {l} : loans'[k] = loans[k]
  <2>1. loans \in [Loans -> Loan]
    BY PayrollTypeFacts DEF PayrollIInv
  <2>2. CASE loans[l].status = "deleted"
    BY <1>3, <2>2 DEF SaveDecision
  <2>3. CASE loans[l].status # "deleted" /\ payroll[h].approve
    <3> DEFINE new == [loans[l] EXCEPT !.status = "active",
                           !.instalment = payroll[h].amount,
                           !.term = payroll[h].term]
    <3>1. loans' = [loans EXCEPT ![l] = new]
      BY <1>3, <2>1, <2>3 DEF SaveDecision, Loan
    <3>2. new.status = "active"
      BY <2>1 DEF Loan
    <3> HIDE DEF new
    <3> QED
      BY <2>1, <2>3, <3>1, <3>2
  <2>4. CASE loans[l].status # "deleted" /\ ~payroll[h].approve
    BY <1>3, <2>1, <2>4 DEF SaveDecision, Loan
  <2> QED
    BY <2>2, <2>3, <2>4
<1>6. GivenOut
  BY <1>5 DEF GivenOut
<1>7. DueOK(h)'
  BY <1>1, FreeFacts, NothingDue DEF Taking
<1> QED
  BY <1>1, <1>2, <1>4, <1>6, <1>7, FreeFacts, OffRuns

\* A request for a run takes it up and does nothing yet.
LEMMA TakesUpRun ==
    ASSUME PayrollIInv, RunsOK, NEW h \in Handlers, NEW r \in Runs,
           NEW t, PayrollMoves(h, t), t.run = r,
           t.at \in {"clear", "delete slips", "collect", "save paid"},
           payroll[h].at = "idle", Contest(h, r),
           UNCHANGED <<loans, history, runs, slips, crossed, failed>>
    PROVE  RunsOK'
<1>1. payroll[h].run = NoRun
  BY DEF PayrollIInv, Ordered, PayrollJobOK, OnRun
<1>2. Reaches(h, r) /\ Remembers
  BY <1>1 DEF Reaches, Remembers, Contest
<1>3. SlipsOf(r)' = SlipsOf(r) /\ OwnSlips(h)
  BY DEF SlipsOf, OwnSlips
<1>4. ASSUME Whole(r)'
      PROVE  \A x, y \in SlipsOf(r)' : x.employee = y.employee => x = y
  <2>1. OneSlipEach(r)
    BY <1>2, <1>4, WholeBefore DEF RunsOK
  <2> QED
    BY <1>3, <2>1 DEF OneSlipEach
<1> QED
  BY <1>2, <1>3, <1>4, NotTaking DEF Taking

LEMMA RunRequestsRuns ==
    ASSUME PayrollIInv, RunsOK, NEW h \in Handlers, RunRequested(h)
    PROVE  RunsOK'
<1>1. ASSUME NEW r \in Runs, Recalculate(h, r) PROVE RunsOK'
  <2> DEFINE t == [FreeDesk EXCEPT !.at = "clear", !.run = r,
                      !.period = runs[r].period, !.todo = Employees]
  <2>1. t \in PayrollJob /\ t.at = "clear" /\ t.run = r
    BY FreeFacts, PayrollTypeFacts DEF PayrollJob, PayrollIInv
  <2>2. PayrollMoves(h, t) /\ payroll[h].at = "idle"
    BY <1>1, <2>1 DEF Recalculate, TakeUp, PayrollMoves, Busy
  <2> HIDE DEF t
  <2> QED
    BY <1>1, <2>1, <2>2, TakesUpRun DEF Recalculate
<1>2. ASSUME NEW r \in Runs, NEW at \in {"delete slips", "collect",
                                         "save paid"},
             TakeUp(h, [FreeDesk EXCEPT !.at = at, !.run = r]),
             Contest(h, r),
             UNCHANGED <<loans, history, runs, slips, crossed, failed>>
      PROVE  RunsOK'
  <2> DEFINE t == [FreeDesk EXCEPT !.at = at, !.run = r]
  <2>1. t \in PayrollJob /\ t.at = at /\ t.run = r
    BY FreeFacts DEF PayrollJob
  <2>2. PayrollMoves(h, t) /\ payroll[h].at = "idle"
    BY <1>2, <2>1 DEF TakeUp, PayrollMoves, Busy
  <2> HIDE DEF t
  <2> QED
    BY <1>2, <2>1, <2>2, TakesUpRun
<1>3. ASSUME NEW r \in Runs, Discard(h, r) \/ ProcessRun(h, r) \/ MarkPaid(h, r)
      PROVE  RunsOK'
  BY <1>2, <1>3 DEF Discard, ProcessRun, MarkPaid
<1>4. ASSUME NEW p \in Periods, NEW scope \in SUBSET Employees,
             NEW one \in BOOLEAN, CreateRun(h, p, scope, one)
      PROVE  RunsOK'
  <2> DEFINE t == [FreeDesk EXCEPT !.at = "create", !.period = p,
                                   !.todo = scope, !.one = one]
  <2>1. /\ t \in PayrollJob /\ t.at = "create" /\ t.run = NoRun
    BY FreeFacts DEF PayrollJob
  <2>2. PayrollMoves(h, t) /\ payroll[h].run = NoRun
    BY <1>4, <2>1
       DEF CreateRun, TakeUp, PayrollMoves, Busy, PayrollIInv, Ordered,
           PayrollJobOK, OnRun
  <2> HIDE DEF t
  <2>3. /\ UNCHANGED <<slips, runs, history>> /\ Remembers /\ GivenOut
    BY <1>4 DEF CreateRun, Remembers, GivenOut
  <2>4. DueOK(h)'
    BY <2>1, <2>2, NothingDue DEF Taking
  <2> QED
    BY <2>1, <2>2, <2>3, <2>4, OffRuns
<1> QED
  BY <1>1, <1>3, <1>4 DEF RunRequested

LEMMA NewRunRuns ==
    ASSUME PayrollIInv, RunsOK, NEW h \in Handlers, NEW r \in Runs, NewRun(h, r)
    PROVE  RunsOK'
<1> DEFINE t == [payroll[h] EXCEPT !.at = "generate", !.run = r]
<1>1. t \in PayrollJob /\ t.at = "generate" /\ t.run = r
  BY PayrollJobFacts DEF PayrollIInv, PayrollJob
<1>2. PayrollMoves(h, t)
  BY <1>1, PayrollTypeFacts, PayrollJobFacts
     DEF NewRun, PayrollMoves, PayrollIInv, PayrollJob
<1> HIDE DEF t
<1>3. /\ payroll[h].at = "create" /\ payroll[h].run = NoRun
      /\ runs[r].status = "absent" /\ runs'[r].status = "draft"
      /\ \A q \in Runs \ {r} : runs'[q] = runs[q]
      /\ UNCHANGED <<loans, history, slips, contested, crossed, failed>>
  BY PayrollTypeFacts DEF NewRun, PayrollIInv, Ordered, PayrollJobOK, OnRun
<1>4. SlipsOf(r)' = {}
  BY <1>3 DEF SlipsOf, PayrollIInv, Ordered, SlipsOK
<1>5. OwnSlips(h) /\ Reaches(h, r) /\ Remembers
  BY <1>3 DEF OwnSlips, SlipsOf, Reaches, Remembers
<1> QED
  BY <1>1, <1>2, <1>3, <1>4, <1>5, NotTaking DEF Taking

\* Request h is at a run.
LEMMA OwnRun ==
    ASSUME PayrollIInv, NEW h \in Handlers, payroll[h].at \in OnRun
    PROVE  \E r \in Runs : payroll[h].run = r /\ Reaches(h, r)
BY DEF PayrollIInv, Ordered, PayrollJobOK, Reaches

LEMMA GenerateRuns ==
    ASSUME PayrollIInv, RunsOK, NEW h \in Handlers, NEW e \in Employees,
           Generate(h, e)
    PROVE  RunsOK'
<1>0. payroll[h].at = "generate" /\ e \in payroll[h].todo
  BY DEF Generate
<1>1. PICK r \in Runs : payroll[h].run = r /\ Reaches(h, r)
  BY <1>0, OwnRun DEF OnRun
<1> DEFINE t == [payroll[h] EXCEPT !.todo = payroll[h].todo \ {e}]
<1>2. /\ t \in PayrollJob /\ t.at = "generate" /\ t.run = r
      /\ t.todo = payroll[h].todo \ {e}
  BY <1>0, <1>1, PayrollJobFacts DEF PayrollIInv, PayrollJob
<1>3. PayrollMoves(h, t)
  BY <1>2, PayrollTypeFacts DEF Generate, PayrollMoves, PayrollIInv
<1> HIDE DEF t
<1>4. PICK new : /\ new.run = r /\ new.employee = e
                 /\ slips' = slips \union {new}
  BY <1>1 DEF Generate
<1>5. /\ UNCHANGED <<loans, history, runs>> /\ Remembers
  BY DEF Generate, Remembers
<1>6. OwnSlips(h) /\ SlipsOf(r)' = SlipsOf(r) \union {new}
  BY <1>1, <1>4 DEF OwnSlips, SlipsOf
<1>7. ASSUME Whole(r)'
      PROVE  /\ runs[r].status = "draft"
             /\ \A x, y \in SlipsOf(r)' : x.employee = y.employee => x = y
             /\ \A s \in SlipsOf(r)' : s.employee \notin t.todo
  <2>1. OneSlipEach(r) /\ runs[r].status = "draft"
    BY <1>0, <1>1, <1>3, <1>5, <1>7, KnownOf DEF OnDraft, OnRun
  <2>2. \A s \in SlipsOf(r) : s.employee \notin payroll[h].todo
    BY <1>0, <1>1, <2>1 DEF OneSlipEach
  <2> QED
    BY <1>0, <1>2, <1>4, <1>6, <2>1, <2>2 DEF OneSlipEach
<1> QED
  BY <1>0, <1>1, <1>2, <1>3, <1>5, <1>6, <1>7, NotTaking DEF Taking

\* A step of a request that only goes on, or ends, with payslips of its run
\* deleted perhaps.
LEMMA DraftSteps ==
    ASSUME PayrollIInv, RunsOK, Remembers, NEW h \in Handlers, NEW t,
           PayrollMoves(h, t),
           NEW r \in Runs, payroll[h].run = r, t.run \in {r, NoRun},
           payroll[h].at \in {"clear", "generate", "delete slips",
                              "delete run"},
           t.at \in {"generate", "idle", "delete run"},
           t.at = "generate" =>
               \/ SlipsOf(r)' = {}
               \/ payroll[h].at = "generate"
                  /\ t.todo \subseteq payroll[h].todo,
           OwnSlips(h), slips' \subseteq slips, UNCHANGED <<loans, history>>,
           \A q \in Runs \ {r} : runs'[q].status = runs[q].status,
           runs'[r].status \in {runs[r].status, "discarded"}
    PROVE  RunsOK'
<1>1. SlipsOf(r)' \subseteq SlipsOf(r) /\ Reaches(h, r)
  BY DEF SlipsOf, Reaches
<1>2. ASSUME Whole(r)'
      PROVE  /\ runs[r].status = "draft"
             /\ \A x, y \in SlipsOf(r)' : x.employee = y.employee => x = y
             /\ t.at = "generate" =>
                    \A s \in SlipsOf(r)' : s.employee \notin t.todo
  <2>1. OneSlipEach(r) /\ runs[r].status = "draft"
    BY <1>1, <1>2, KnownOf DEF OnDraft, OnRun
  <2> QED
    BY <1>1, <2>1 DEF OneSlipEach
<1> QED
  BY <1>1, <1>2, NotTaking DEF Taking

LEMMA DraftingRuns ==
    ASSUME PayrollIInv, RunsOK, NEW h \in Handlers
    PROVE  /\ \A e \in Employees : Skip(h, e) => RunsOK'
           /\ Generated(h) \/ Clear(h) \/ DeleteSlips(h) \/ DeleteRun(h) =>
                  RunsOK'
<1>1. ASSUME NEW e \in Employees, Skip(h, e) PROVE RunsOK'
  <2> DEFINE t == [payroll[h] EXCEPT !.todo = payroll[h].todo \ {e}]
  <2>1. PICK r \in Runs : payroll[h].run = r
    BY <1>1, OwnRun DEF OnRun, Skip
  <2>2. /\ t \in PayrollJob /\ t.at = "generate" /\ t.run = r
        /\ t.todo \subseteq payroll[h].todo
    BY <1>1, <2>1, PayrollJobFacts DEF PayrollIInv, PayrollJob, Skip
  <2>3. PayrollMoves(h, t)
    BY <1>1, <2>2, PayrollTypeFacts DEF Skip, PayrollMoves, PayrollIInv
  <2> HIDE DEF t
  <2>4. /\ payroll[h].at = "generate" /\ Remembers /\ OwnSlips(h)
        /\ UNCHANGED <<loans, history, slips, runs>>
    BY <1>1 DEF Skip, payrollHistory, Remembers, OwnSlips, SlipsOf
  <2> QED
    BY <2>1, <2>2, <2>3, <2>4, DraftSteps
<1>2. ASSUME Generated(h) PROVE RunsOK'
  <2>1. PICK r \in Runs : payroll[h].run = r
    BY <1>2, OwnRun DEF OnRun, Generated
  <2>2. /\ payroll[h].at = "generate" /\ Remembers /\ OwnSlips(h)
        /\ UNCHANGED <<loans, history, slips, runs>> /\ Answer(h)
    BY <1>2 DEF Generated, payrollHistory, Remembers, OwnSlips, SlipsOf
  <2>3. PayrollMoves(h, FreeDesk)
    BY <2>2, AnswerMoves DEF PayrollIInv
  <2> QED
    BY <2>1, <2>2, <2>3, FreeFacts, DraftSteps
<1>3. ASSUME Clear(h) PROVE RunsOK'
  <2>1. PICK r \in Runs : payroll[h].run = r
    BY <1>3, OwnRun DEF OnRun, Clear
  <2>2. /\ payroll[h].at = "clear" /\ Remembers
        /\ UNCHANGED <<loans, history, runs>> /\ slips' = slips \ SlipsOf(r)
        /\ Answer(h) \/ Then(h, "generate")
    BY <1>3, <2>1 DEF Clear, payrollHistory, Remembers
  <2>3. OwnSlips(h) /\ SlipsOf(r)' = {}
    BY <2>1, <2>2 DEF OwnSlips, SlipsOf
  <2>4. PICK t : /\ PayrollMoves(h, t)
                 /\ t.run \in {r, NoRun}
                 /\ t.at \in {"generate", "idle"}
    <3>1. CASE Answer(h)
      BY <3>1, AnswerMoves, FreeFacts DEF PayrollIInv
    <3>2. CASE Then(h, "generate")
      <4>1. PICK t : /\ PayrollMoves(h, t)
                     /\ t = [payroll[h] EXCEPT !.at = "generate"]
        BY <3>2, ThenMoves DEF PayrollIInv
      <4>2. t.at = "generate" /\ t.run = r
        BY <2>1, <4>1, PayrollJobFacts DEF PayrollIInv, PayrollJob
      <4> QED
        BY <4>1, <4>2
    <3> QED
      BY <2>2, <3>1, <3>2
  <2> QED
    BY <2>1, <2>2, <2>3, <2>4, DraftSteps
<1>4. ASSUME DeleteSlips(h) PROVE RunsOK'
  <2>1. PICK r \in Runs : payroll[h].run = r
    BY <1>4, OwnRun DEF OnRun, DeleteSlips
  <2>2. /\ payroll[h].at = "delete slips" /\ Remembers
        /\ UNCHANGED <<loans, history, runs>> /\ slips' = slips \ SlipsOf(r)
        /\ Then(h, "delete run")
    BY <1>4, <2>1 DEF DeleteSlips, payrollHistory, Remembers
  <2>3. OwnSlips(h)
    BY <2>1, <2>2 DEF OwnSlips, SlipsOf
  <2>4. PICK t : /\ PayrollMoves(h, t)
                 /\ t = [payroll[h] EXCEPT !.at = "delete run"]
    BY <2>2, ThenMoves DEF PayrollIInv
  <2>5. t.at = "delete run" /\ t.run = r
    BY <2>1, <2>4, PayrollJobFacts DEF PayrollIInv, PayrollJob
  <2> QED
    BY <2>1, <2>2, <2>3, <2>4, <2>5, DraftSteps
<1>5. ASSUME DeleteRun(h) PROVE RunsOK'
  <2>1. PICK r \in Runs : payroll[h].run = r
    BY <1>5, OwnRun DEF OnRun, DeleteRun
  <2>2. /\ payroll[h].at = "delete run" /\ Remembers /\ OwnSlips(h)
        /\ UNCHANGED <<loans, history, slips>> /\ Answer(h)
    BY <1>5 DEF DeleteRun, payrollHistory, Remembers, OwnSlips, SlipsOf
  <2>3. /\ runs'[r].status = "discarded"
        /\ \A q \in Runs \ {r} : runs'[q] = runs[q]
    BY <1>5, <2>1, PayrollTypeFacts DEF DeleteRun, PayrollIInv
  <2>4. PayrollMoves(h, FreeDesk)
    BY <2>2, AnswerMoves DEF PayrollIInv
  <2> QED
    BY <2>1, <2>2, <2>3, <2>4, FreeFacts, DraftSteps
<1> QED
  BY <1>1, <1>2, <1>3, <1>4, <1>5

LEMMA SavePaidRuns ==
    ASSUME PayrollIInv, RunsOK, NEW h \in Handlers, SavePaid(h)
    PROVE  RunsOK'
<1>1. PICK r \in Runs : payroll[h].run = r /\ Reaches(h, r)
  BY OwnRun DEF OnRun, SavePaid
<1>2. /\ payroll[h].at = "save paid" /\ Remembers
      /\ UNCHANGED <<loans, history, slips>> /\ Answer(h)
  BY DEF SavePaid, payrollHistory, Remembers
<1>3. /\ runs[r].status # "discarded" => runs'[r].status = "paid"
      /\ \A q \in Runs \ {r} : runs'[q] = runs[q]
  BY <1>1, PayrollTypeFacts DEF SavePaid, PayrollIInv
<1>4. PayrollMoves(h, FreeDesk)
  BY <1>2, AnswerMoves DEF PayrollIInv
<1>5. OwnSlips(h) /\ SlipsOf(r)' = SlipsOf(r)
  BY <1>2 DEF OwnSlips, SlipsOf
<1>6. ASSUME Whole(r)'
      PROVE  /\ runs[r].status = "processed"
             /\ runs'[r].status = "paid"
             /\ \A x, y \in SlipsOf(r)' : x.employee = y.employee => x = y
  <2>1. OneSlipEach(r) /\ runs[r].status = "processed"
    BY <1>1, <1>2, <1>4, <1>6, KnownOf
  <2> QED
    BY <1>3, <1>5, <2>1 DEF OneSlipEach
<1>7. FreeDesk.run \in {r, NoRun} /\ FreeDesk.at = "idle"
  BY FreeFacts
<1> QED
  BY <1>1, <1>2, <1>3, <1>4, <1>5, <1>6, <1>7, NotTaking DEF Taking

\* A run that a fault cut short, or that a request left unfinished.
LEMMA CutShort ==
    ASSUME PayrollIInv, RunsOK, NEW h \in Handlers, Answer(h), Remembers, 
           payroll[h].run \in Runs => payroll[h].run \in failed',
           UNCHANGED <<loans, history, runs, slips>>
    PROVE  RunsOK'
<1>1. PayrollMoves(h, FreeDesk) /\ GivenOut /\ OwnSlips(h)
  BY AnswerMoves DEF PayrollIInv, GivenOut, OwnSlips, SlipsOf
<1>2. DueOK(h)'
  BY <1>1, FreeFacts, NothingDue DEF Taking
<1>3. CASE payroll[h].run = NoRun
  BY <1>1, <1>2, <1>3, FreeFacts, OffRuns
<1>4. ASSUME NEW r \in Runs, payroll[h].run = r PROVE RunsOK'
  <2>1. ~Whole(r)' /\ Reaches(h, r)
    BY <1>4 DEF Whole, Reaches
  <2> QED
    BY <1>1, <1>2, <1>4, <2>1, FreeFacts, AtRun
<1> QED
  BY <1>3, <1>4, PayrollJobFacts DEF PayrollIInv

LEMMA PayrollFaultRuns ==
    ASSUME PayrollIInv, RunsOK, NEW h \in Handlers, PayrollFault(h)
    PROVE  RunsOK'
BY CutShort, PayrollAssumption DEF PayrollFault, Remembers

\* The lines of a run's payslips are found, each once.
LEMMA LinesFacts ==
    ASSUME PayrollIInv, LoansOK, NEW r \in Runs
    PROVE  /\ \A d \in DeductionsOf(r) :
                  /\ d.loan \in Loans /\ d.amount > 0
                  /\ loans[d.loan].status # "absent"
                  /\ \E s \in SlipsOf(r) : s.lines[d.loan] = d.amount
           /\ \A l \in Loans, s \in SlipsOf(r) : s.lines[l] > 0 =>
                  \E d \in DeductionsOf(r) : d.loan = l
           /\ OneSlipEach(r) =>
                  \A c, d \in DeductionsOf(r) : c.loan = d.loan => c = d
<1>1. ASSUME NEW d
      PROVE  d \in DeductionsOf(r) <=>
                 \E s \in SlipsOf(r), l \in Loans :
                     /\ d = [id |-> s.id, loan |-> l, amount |-> s.lines[l]]
                     /\ s.lines[l] > 0
  BY DEF DeductionsOf
<1>2. ASSUME NEW d \in DeductionsOf(r)
      PROVE  \E s \in SlipsOf(r) :
                 /\ d = [id |-> s.id, loan |-> d.loan,
                         amount |-> s.lines[d.loan]]
                 /\ d.loan \in Loans /\ s.lines[d.loan] > 0
                 /\ s.lines[d.loan] = d.amount
                 /\ s.employee = loans[d.loan].of
                 /\ loans[d.loan].status # "absent"
  <2>1. PICK s \in SlipsOf(r), l \in Loans :
                     /\ d = [id |-> s.id, loan |-> l, amount |-> s.lines[l]]
                     /\ s.lines[l] > 0
    BY <1>1
  <2>2. d.loan = l /\ d.amount = s.lines[l]
    BY <2>1
  <2>3. s.employee = loans[l].of /\ loans[l].status # "absent"
    BY <2>1 DEF LoansOK, SlipOK, SlipsOf
  <2> QED
    BY <2>1, <2>2, <2>3
<1>3. ASSUME NEW l \in Loans, NEW s \in SlipsOf(r), s.lines[l] > 0
      PROVE  \E d \in DeductionsOf(r) : d.loan = l
  <2>1. PICK d : d = [id |-> s.id, loan |-> l, amount |-> s.lines[l]]
    OBVIOUS
  <2> QED
    BY <1>1, <1>3, <2>1
<1>4. ASSUME OneSlipEach(r), NEW c \in DeductionsOf(r),
             NEW d \in DeductionsOf(r),
             c.loan = d.loan
      PROVE  c = d
  <2>1. PICK s \in SlipsOf(r) :
            /\ c = [id |-> s.id, loan |-> c.loan, amount |-> s.lines[c.loan]]
            /\ s.employee = loans[c.loan].of
    BY <1>2
  <2>2. PICK x \in SlipsOf(r) :
            /\ d = [id |-> x.id, loan |-> d.loan, amount |-> x.lines[d.loan]]
            /\ x.employee = loans[d.loan].of
    BY <1>2
  <2>3. s = x
    BY <1>4, <2>1, <2>2 DEF OneSlipEach
  <2> QED
    BY <1>4, <2>1, <2>2, <2>3
<1> QED
  BY <1>2, <1>3, <1>4

LEMMA CollectRuns ==
    ASSUME PayrollIInv, LoansOK, RunsOK, NEW h \in Handlers, Collect(h)
    PROVE  RunsOK'
<1>1. PICK r \in Runs : payroll[h].run = r /\ Reaches(h, r)
  BY OwnRun DEF OnRun, Collect
<1>0. PICK due : due = DeductionsOf(r)
  OBVIOUS
<1> DEFINE t == [payroll[h] EXCEPT !.at = "find", !.due = due]
<1>2. t \in PayrollJob /\ t.at = "find" /\ t.run = r /\ t.due = due
  BY <1>0, <1>1, DueTyped, PayrollJobFacts DEF PayrollIInv, PayrollJob
<1>3. PayrollMoves(h, t)
  BY <1>0, <1>1, <1>2, PayrollTypeFacts DEF Collect, PayrollMoves, PayrollIInv
<1> HIDE DEF t
<1>4. /\ payroll[h].at = "collect" /\ Remembers /\ GivenOut
      /\ UNCHANGED <<loans, history, slips, runs>>
  BY DEF Collect, payrollHistory, Remembers, GivenOut
<1>5. OwnSlips(h) /\ SlipsOf(r)' = SlipsOf(r) /\ payroll'[h] = t
  BY <1>3, <1>4, PayrollMovesFacts DEF OwnSlips, SlipsOf, PayrollIInv
<1>6. /\ \A d \in due : /\ d.loan \in Loans /\ d.amount > 0
                        /\ loans[d.loan].status # "absent"
                        /\ \E s \in SlipsOf(r) : s.lines[d.loan] = d.amount
      /\ \A l \in Loans, s \in SlipsOf(r) : s.lines[l] > 0 =>
             \E d \in due : d.loan = l
      /\ OneSlipEach(r) => \A c, d \in due : c.loan = d.loan => c = d
  BY <1>0, LinesFacts
<1>7. ASSUME Whole(r)'
      PROVE  /\ OneSlipEach(r)
             /\ \A l \in Loans : history[l][r] = 0
  <2>1. /\ OneSlipEach(r) /\ runs[r].status = "draft"
        /\ \A l \in Loans : IF Takes(h, r)
                               THEN TakenBy(h, r, l)
                               ELSE Taken(r, l)
    BY <1>1, <1>3, <1>4, <1>7, KnownOf DEF OnDraft, OnRun
  <2>2. ~Takes(h, r)
    BY <1>4 DEF Takes, Taking
  <2> QED
    BY <2>1, <2>2 DEF Taken
<1>8. DueOK(h)'
  BY <1>2, <1>4, <1>5, <1>6, <1>7, DueAfter DEF Taking
<1>9. ASSUME Whole(r)', NEW l \in Loans PROVE TakenBy(h, r, l)'
  <2>1. history'[l][r] = 0
    BY <1>4, <1>7, <1>9
  <2>2. PendingLine(h, l)' <=> \E d \in due : d.loan = l
    BY <1>2, <1>5 DEF PendingLine, Taking
  <2>3. ASSUME ~PendingLine(h, l)' PROVE WithheldBy(r, l)' = 0
    <3>1. \A s \in SlipsOf(r) : ~(s.lines[l] > 0)
      BY <1>6, <2>2, <2>3
    <3>2. WithheldBy(r, l) = 0
      BY <3>1, WithheldNone DEF LoansOK
    <3> QED
      BY <1>5, <3>2, SameWithheld
  <2> QED
    BY <2>1, <2>3 DEF TakenBy
<1>10. Whole(r)' => \A x, y \in SlipsOf(r)' : x.employee = y.employee => x = y
  BY <1>5, <1>7 DEF OneSlipEach
<1> QED
  BY <1>1, <1>2, <1>3, <1>4, <1>5, <1>8, <1>9, <1>10, AtRun DEF Taking

\* The steps of a request that takes the lines of its run off the loans.
LEMMA TakingStep ==
    ASSUME PayrollIInv, RunsOK, Remembers, GivenOut, NEW h \in Handlers,
           NEW t, PayrollMoves(h, t), NEW r \in Runs, payroll[h].run = r,
           t.run = r,
           payroll[h].at \in Taking, t.at \in Taking \union {"save processed"},
           DueOK(h)', UNCHANGED <<slips, runs>>,
           \A q \in Runs \ {r}, l \in Loans : history'[l][q] = history[l][q],
           ASSUME NEW l \in Loans, Whole(r)', TakenBy(h, r, l)
           PROVE  TakenBy(h, r, l)'
    PROVE  RunsOK'
<1>1. OwnSlips(h) /\ SlipsOf(r)' = SlipsOf(r) /\ Reaches(h, r) /\ Takes(h, r)
  BY DEF OwnSlips, SlipsOf, Reaches, Takes
<1>2. ASSUME Whole(r)'
      PROVE  /\ \A x, y \in SlipsOf(r)' : x.employee = y.employee => x = y
             /\ \A l \in Loans : TakenBy(h, r, l)'
  <2>1. OneSlipEach(r) /\ \A l \in Loans : TakenBy(h, r, l)
    BY <1>1, <1>2, KnownOf
  <2> QED
    BY <1>1, <1>2, <2>1 DEF OneSlipEach
<1> QED
  BY <1>1, <1>2, AtRun DEF Taking

LEMMA FindLoanRuns ==
    ASSUME PayrollIInv, RunsOK, NEW h \in Handlers, NEW d \in payroll[h].due,
           FindLoan(h, d)
    PROVE  RunsOK'
<1>0. payroll[h].at = "find"
  BY DEF FindLoan
<1>1. PICK r \in Runs : payroll[h].run = r
  BY <1>0, OwnRun DEF OnRun
<1>2. d.loan \in Loans /\ d.amount \in Nat
      /\ loans[d.loan].outstanding \in Nat
  BY PayrollJobFacts, PayrollTypeFacts DEF PayrollIInv, Deduction, Loan
<1>3. PICK old : old = payroll[h] /\ old.at = "find" /\ old.run = r
  BY <1>0, <1>1
<1>4. /\ Remembers /\ GivenOut /\ UNCHANGED <<loans, history, slips, runs>>
  BY DEF FindLoan, payrollHistory, Remembers, GivenOut
<1>5. /\ \A c \in old.due : c.amount > 0 /\ loans[c.loan].status # "absent"
      /\ Whole(r) =>
             /\ \A c \in old.due :
                    \E s \in SlipsOf(r) : s.lines[c.loan] = c.amount
             /\ \A b, c \in old.due : b.loan = c.loan => b = c
  BY <1>3 DEF RunsOK, DueOK, Taking
<1>6. Whole(r)' => Whole(r)
  BY <1>4, WholeBefore
<1>7. SlipsOf(r)' = SlipsOf(r)
  BY <1>4 DEF SlipsOf
<1>8. CASE loans[d.loan].status = "deleted"
  <2> DEFINE t == [old EXCEPT !.due = old.due \ {d}]
  <2>1. /\ t \in PayrollJob /\ t.at = "find" /\ t.run = r
        /\ t.due = old.due \ {d}
    BY <1>3, PayrollJobFacts DEF PayrollIInv, PayrollJob
  <2>2. PayrollMoves(h, t)
    BY <1>3, <1>8, <2>1, PayrollTypeFacts
       DEF FindLoan, PayrollMoves, PayrollIInv
  <2> HIDE DEF t
  <2>3. payroll'[h] = t
    BY <2>2, PayrollMovesFacts DEF PayrollIInv
  <2>4. DueOK(h)'
    BY <1>4, <1>5, <1>6, <1>7, <2>1, <2>3, DueAfter DEF Taking
  <2>5. ASSUME NEW l \in Loans, TakenBy(h, r, l) PROVE TakenBy(h, r, l)'
    <3>1. PendingLine(h, l)' => PendingLine(h, l)
      BY <1>3, <2>1, <2>3 DEF PendingLine, Taking
    <3>2. PendingLine(h, l) => PendingLine(h, l)' \/ l = d.loan
      BY <1>3, <2>1, <2>3 DEF PendingLine, Taking
    <3>3. WithheldBy(r, l)' = WithheldBy(r, l)
      BY <1>7, SameWithheld
    <3> QED
      BY <1>4, <1>8, <2>5, <3>1, <3>2, <3>3 DEF TakenBy
  <2> QED
    BY <1>1, <1>3, <1>4, <2>1, <2>2, <2>4, <2>5, TakingStep DEF Taking
<1>9. CASE loans[d.loan].status # "deleted"
  <2> DEFINE t == [old EXCEPT !.at = "deduct", !.due = old.due \ {d},
                      !.loan = d.loan, !.amount = d.amount,
                      !.outstanding = loans[d.loan].outstanding]
  <2>1. /\ t \in PayrollJob /\ t.at = "deduct" /\ t.run = r
        /\ t.due = old.due \ {d} /\ t.loan = d.loan /\ t.amount = d.amount
    BY <1>2, <1>3, PayrollJobFacts DEF PayrollIInv, PayrollJob
  <2>2. PayrollMoves(h, t)
    BY <1>3, <1>9, <2>1, PayrollTypeFacts
       DEF FindLoan, PayrollMoves, PayrollIInv
  <2> HIDE DEF t
  <2>3. payroll'[h] = t
    BY <2>2, PayrollMovesFacts DEF PayrollIInv
  <2>4. DueOK(h)'
    BY <1>3, <1>4, <1>5, <1>6, <1>7, <2>1, <2>3, DueAfter DEF Taking
  <2>5. ASSUME NEW l \in Loans, TakenBy(h, r, l) PROVE TakenBy(h, r, l)'
    <3>1. PendingLine(h, l)' <=> PendingLine(h, l)
      BY <1>3, <2>1, <2>3 DEF PendingLine, Taking
    <3>2. WithheldBy(r, l)' = WithheldBy(r, l)
      BY <1>7, SameWithheld
    <3> QED
      BY <1>4, <2>5, <3>1, <3>2 DEF TakenBy
  <2> QED
    BY <1>1, <1>3, <1>4, <2>1, <2>2, <2>4, <2>5, TakingStep DEF Taking
<1> QED
  BY <1>8, <1>9

LEMMA AllDeductedRuns ==
    ASSUME PayrollIInv, RunsOK, NEW h \in Handlers, AllDeducted(h)
    PROVE  RunsOK'
<1>0. payroll[h].at = "find" /\ payroll[h].due = {}
  BY DEF AllDeducted
<1>1. PICK r \in Runs : payroll[h].run = r
  BY <1>0, OwnRun DEF OnRun
<1>2. PICK t : /\ PayrollMoves(h, t)
               /\ t = [payroll[h] EXCEPT !.at = "save processed"]
  BY ThenMoves DEF AllDeducted, PayrollIInv
<1>3. t.at = "save processed" /\ t.run = r
  BY <1>1, <1>2, PayrollJobFacts DEF PayrollIInv, PayrollJob
<1>4. /\ Remembers /\ GivenOut /\ UNCHANGED <<loans, history, slips, runs>>
  BY DEF AllDeducted, payrollHistory, Remembers, GivenOut
<1>5. payroll'[h] = t /\ DueOK(h)'
  BY <1>2, <1>3, PayrollMovesFacts, NothingDue DEF PayrollIInv, Taking
<1>6. ASSUME NEW l \in Loans, TakenBy(h, r, l) PROVE TakenBy(h, r, l)'
  <2>1. ~PendingLine(h, l) /\ ~PendingLine(h, l)'
    BY <1>0, <1>3, <1>5 DEF PendingLine, Taking
  <2>2. WithheldBy(r, l)' = WithheldBy(r, l)
    BY <1>4, SameWithheld DEF SlipsOf
  <2> QED
    BY <1>4, <1>6, <2>1, <2>2 DEF TakenBy
<1> QED
  BY <1>0, <1>1, <1>2, <1>3, <1>4, <1>5, <1>6, TakingStep DEF Taking

LEMMA DeductRuns ==
    ASSUME PayrollIInv, LoansOK, RunsOK, NEW h \in Handlers, Deduct(h)
    PROVE  RunsOK'
<1>1. PICK l \in Loans, r \in Runs : payroll[h].loan = l /\ payroll[h].run = r
  BY DEF PayrollIInv, Ordered, PayrollJobOK, OnRun, Deduct
<1>2. PICK o \in Nat, a \in Nat :
          o = payroll[h].outstanding /\ a = payroll[h].amount
  BY PayrollJobFacts DEF PayrollIInv
<1>3. CASE loans[l].status = "deleted"
  <2>1. /\ Answer(h) /\ r \in failed' /\ Remembers
        /\ UNCHANGED <<loans, history, runs, slips>>
    BY <1>1, <1>3 DEF Deduct, Remembers
  <2> QED
    BY <1>1, <2>1, CutShort
<1>4. CASE loans[l].status # "deleted"
  <2>1. /\ Then(h, "find") /\ Remembers
        /\ \A k \in Loans \ {l} : loans'[k] = loans[k]
                                  /\ history'[k] = history[k]
        /\ loans'[l].status \in {loans[l].status, "paid_off"}
        /\ history'[l][r] = history[l][r] + a
        /\ \A q \in Runs \ {r} : history'[l][q] = history[l][q]
        /\ UNCHANGED <<runs, slips>>
    BY <1>1, <1>2, <1>4, DeductShape
  <2>2. PICK old : old = payroll[h] /\ old.at = "deduct" /\ old.run = r
                   /\ old.loan = l /\ old.amount = a
    BY <1>1, <1>2 DEF Deduct
  <2>3. /\ \A d \in old.due : d.amount > 0 /\ loans[d.loan].status # "absent"
                              /\ d.loan \in Loans
        /\ a > 0 /\ loans[l].status # "absent"
        /\ Whole(r) =>
               /\ \A d \in old.due :
                      \E s \in SlipsOf(r) : s.lines[d.loan] = d.amount
               /\ \A c, d \in old.due : c.loan = d.loan => c = d
               /\ \E s \in SlipsOf(r) : s.lines[l] = a
               /\ \A d \in old.due : d.loan # l
    BY <2>2, PayrollJobFacts DEF RunsOK, DueOK, Taking, PayrollIInv, Deduction
  <2>4. PICK t : PayrollMoves(h, t) /\ t = [old EXCEPT !.at = "find"]
    BY <2>1, <2>2, ThenMoves DEF PayrollIInv
  <2>5. t.at = "find" /\ t.run = r /\ t.due = old.due
    BY <2>2, <2>4, PayrollJobFacts DEF PayrollIInv, PayrollJob
  <2>6. payroll'[h] = t
    BY <2>4, PayrollMovesFacts DEF PayrollIInv
  <2>7. SlipsOf(r)' = SlipsOf(r) /\ (Whole(r)' => Whole(r))
    BY <2>1, WholeBefore DEF SlipsOf
  <2>8. GivenOut
    BY <1>4, <2>1, <2>3 DEF GivenOut
  <2>9. DueOK(h)'
    <3>1. \A d \in t.due : d.amount > 0 /\ loans'[d.loan].status # "absent"
      BY <2>3, <2>5, <2>8 DEF GivenOut
    <3> QED
      BY <2>3, <2>5, <2>6, <2>7, <3>1, DueAfter DEF Taking
  <2>10. ASSUME NEW k \in Loans, Whole(r)', TakenBy(h, r, k)
         PROVE  TakenBy(h, r, k)'
    <3>1. WithheldBy(r, k)' = WithheldBy(r, k)
      BY <2>7, SameWithheld
    <3>2. CASE k # l
      <4>1. PendingLine(h, k)' <=> PendingLine(h, k)
        BY <2>2, <2>5, <2>6, <3>2 DEF PendingLine, Taking
      <4> QED
        BY <2>1, <2>10, <3>1, <3>2, <4>1 DEF TakenBy
    <3>3. CASE k = l
      <4>1. ~PendingLine(h, l)' /\ PendingLine(h, l)
        BY <2>2, <2>3, <2>5, <2>6, <2>7, <2>10 DEF PendingLine, Taking
      <4>2. history[l][r] = 0
        BY <2>10, <3>3, <4>1 DEF TakenBy
      <4>3. PICK s \in SlipsOf(r) : s.lines[l] = a
        BY <2>3, <2>7, <2>10
      <4>4. WithheldBy(r, l) = a
        BY <2>3, <2>7, <2>10, <4>3, WithheldOne DEF RunsOK
      <4>5. 0 + a = a
        OBVIOUS
      <4> QED
        BY <2>1, <3>1, <3>3, <4>1, <4>2, <4>4, <4>5 DEF TakenBy
    <3> QED
      BY <3>2, <3>3
  <2>11. \A q \in Runs \ {r}, k \in Loans : history'[k][q] = history[k][q]
    BY <2>1
  <2> QED
    BY <1>1, <2>1, <2>2, <2>4, <2>5, <2>8, <2>9, <2>10, <2>11, TakingStep
       DEF Taking
<1> QED
  BY <1>3, <1>4

LEMMA SaveProcessedRuns ==
    ASSUME PayrollIInv, RunsOK, NEW h \in Handlers, SaveProcessed(h)
    PROVE  RunsOK'
<1>1. PICK r \in Runs : payroll[h].run = r /\ Reaches(h, r)
  BY OwnRun DEF OnRun, SaveProcessed
<1>2. /\ payroll[h].at = "save processed" /\ Remembers /\ GivenOut
      /\ UNCHANGED <<loans, history, slips>> /\ Answer(h)
  BY DEF SaveProcessed, payrollHistory, Remembers, GivenOut
<1>3. /\ runs[r].status # "discarded" => runs'[r].status = "processed"
      /\ \A q \in Runs \ {r} : runs'[q] = runs[q]
  BY <1>1, PayrollTypeFacts DEF SaveProcessed, PayrollIInv
<1>4. PayrollMoves(h, FreeDesk) /\ DueOK(h)'
  BY <1>2, AnswerMoves, FreeFacts, NothingDue DEF PayrollIInv, Taking
<1>5. OwnSlips(h) /\ SlipsOf(r)' = SlipsOf(r)
  BY <1>2 DEF OwnSlips, SlipsOf
<1>6. ASSUME Whole(r)'
      PROVE  /\ \A x, y \in SlipsOf(r)' : x.employee = y.employee => x = y
             /\ \A l \in Loans : Taken(r, l)'
  <2>1. /\ OneSlipEach(r) /\ runs[r].status = "draft"
        /\ \A l \in Loans : IF Takes(h, r)
                               THEN TakenBy(h, r, l)
                               ELSE Taken(r, l)
    BY <1>1, <1>2, <1>4, <1>6, KnownOf DEF OnDraft, OnRun
  <2>2. Takes(h, r) /\ \A l \in Loans : ~PendingLine(h, l)
    BY <1>1, <1>2 DEF Takes, PendingLine, Taking
  <2>3. ASSUME NEW l \in Loans PROVE Taken(r, l)'
    <3>1. WithheldBy(r, l)' = WithheldBy(r, l)
      BY <1>5, SameWithheld
    <3> QED
      BY <1>2, <1>3, <2>1, <2>2, <3>1 DEF Taken, TakenBy
  <2>4. \A x, y \in SlipsOf(r)' : x.employee = y.employee => x = y
    BY <1>5, <2>1 DEF OneSlipEach
  <2> QED
    BY <2>3, <2>4
<1>7. FreeDesk.run \in {r, NoRun} /\ FreeDesk.at = "idle"
  BY FreeFacts
<1> QED
  BY <1>1, <1>2, <1>3, <1>4, <1>5, <1>6, <1>7, AtRun DEF Taking

LEMMA RunsKept ==
    ASSUME PayrollIInv, LoansOK, RunsOK, [PayrollNext]_payrollVars
    PROVE  RunsOK'
<1>1. ASSUME NEW h \in Handlers, PayrollStep(h) PROVE RunsOK'
  BY <1>1, SaveDecisionRuns, NewRunRuns, GenerateRuns, DraftingRuns,
     CollectRuns, FindLoanRuns, AllDeductedRuns, DeductRuns,
     SaveProcessedRuns, SavePaidRuns DEF PayrollStep
<1>2. CASE UNCHANGED payrollVars
  <2>1. Remembers /\ GivenOut /\ UNCHANGED <<payroll, slips, runs, history>>
    BY <1>2 DEF payrollVars, payrollHistory, Remembers, GivenOut
  <2> QED
    BY <2>1, QuietRuns
<1> QED
  BY <1>1, <1>2, LoanRequestsRuns, RunRequestsRuns, PayrollFaultRuns
     DEF PayrollNext

LEMMA LoansInit == ASSUME PayrollInit PROVE LoansOK /\ RunsOK
<1>1. PayrollIInv
  BY PayrollInitSafe
<1>2. /\ slips = {} /\ crossed = {} /\ contested = {} /\ failed = {}
      /\ \A l \in Loans : /\ loans[l].principal = 0 /\ loans[l].outstanding = 0
                          /\ loans[l].status = "absent"
                          /\ \A r \in Runs : history[l][r] = 0
      /\ \A r \in Runs : runs[r].status = "absent"
      /\ \A h \in Handlers : payroll[h] = FreeDesk
  BY DEF PayrollInit
<1>3. ASSUME NEW l \in Loans PROVE LoanOK(l)
  <2>1. Deducted(l) = 0
    BY <1>1, <1>2, DeductedNone
  <2> QED
    BY <1>2, <2>1 DEF LoanOK
<1>4. \A r : SlipsOf(r) = {}
  BY <1>2 DEF SlipsOf
<1>5. \A h \in Handlers : DueOK(h) /\ \A r \in Runs : ~Takes(h, r)
  BY <1>2, FreeFacts DEF DueOK, Takes, Taking
<1>6. ASSUME NEW r \in Runs
      PROVE  OneSlipEach(r) /\ \A l \in Loans : Drawn(r, l)
  <2>1. \A l \in Loans : Taken(r, l)
    BY <1>2 DEF Taken
  <2> QED
    BY <1>4, <1>5, <2>1 DEF OneSlipEach, Drawn
<1> QED
  BY <1>2, <1>3, <1>5, <1>6, FS_EmptySet DEF LoansOK, RunsOK

LEMMA Drawings == PayrollSpec => [](PayrollIInv /\ LoansOK /\ RunsOK)
<1>1. PayrollInit => PayrollIInv /\ LoansOK /\ RunsOK
  BY PayrollInitSafe, LoansInit
<1>2. PayrollIInv /\ LoansOK /\ RunsOK /\ [PayrollNext]_payrollVars
          => (PayrollIInv /\ LoansOK /\ RunsOK)'
  BY PayrollNextSafe, LoansKept, RunsKept
<1> QED
  BY <1>1, <1>2, PTL DEF PayrollSpec

LEMMA PayslipsTakeOff ==
    ASSUME PayrollIInv, RunsOK PROVE PayslipsDeducted
<1> SUFFICES ASSUME NEW r \in Runs, NEW l \in Loans, Settled(r),
                    loans[l].status # "deleted"
             PROVE  history[l][r] =
                        IF runs[r].status \in {"processed", "paid"}
                        THEN WithheldBy(r, l) ELSE 0
  BY DEF PayslipsDeducted
<1>1. Whole(r) /\ \A h \in Handlers : ~Takes(h, r)
  BY DEF Settled, Whole, Takes
<1> QED
  BY <1>1 DEF RunsOK, Drawn, Taken

LEMMA BalanceFollows == ASSUME LoansOK PROVE LoanPaidDown
BY DEF LoansOK, LoanOK, Trusted, LoanPaidDown

\* What the payslips of a run withhold for a loan is taken off it exactly
\* once, when the run is processed, and nothing before
\* (payroll-run.service.ts:245-261), except where two requests were at the
\* run at once or a fault cut one short.
THEOREM WithheldOnce == PayrollSpec => []PayslipsDeducted
<1>1. PayrollIInv /\ LoansOK /\ RunsOK => PayslipsDeducted
  BY PayslipsTakeOff
<1> QED BY <1>1, Drawings, PTL

\* The balance of a loan is what was lent less what the runs have taken off
\* it (employee-loan.service.ts), unless payslips of two drafts withheld for
\* it at once, two requests were at it, or a run that took something off it
\* was contested or cut short.
THEOREM BalanceIsLeft == PayrollSpec => []LoanPaidDown
<1>1. PayrollIInv /\ LoansOK /\ RunsOK => LoanPaidDown
  BY BalanceFollows
<1> QED BY <1>1, Drawings, PTL
=============================================================================
