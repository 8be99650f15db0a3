------------------------------- MODULE Payroll -------------------------------
(***************************************************************************)
(* Payroll runs and the loans that employees pay back out of their salary: *)
(* payroll-run.service.ts and employee-loan.service.ts.  A payslip fixes   *)
(* what it withholds for a loan when it is drafted; the loan learns of it  *)
(* when the run is processed, perhaps much later and perhaps after other   *)
(* runs.  Salaries, currencies and allowances are left out: a payslip here *)
(* is what it withholds.  Employees are those that payroll includes.       *)
(***************************************************************************)
EXTENDS Requests, Functions

CONSTANTS
    Employees,
    Owner,        \* the employee that logs loans without asking
    Loans, Runs,  \* bound: the loans and runs that can ever be created
    Periods,      \* the months that there can be runs for
    Principals    \* amounts asked for, and of instalments

NoRun == "no run"
NoLoan == "no loan"

ASSUME PayrollAssumption ==
    /\ Owner \in Employees
    /\ Principals \subseteq Nat \ {0}
    /\ Periods # {}
    /\ IsFiniteSet(Runs)
    /\ NoRun \notin Runs /\ NoLoan \notin Loans

VARIABLES
    loans,     \* hr_employee_loans
    history,   \* deductionHistory: what each run has taken off a loan
    runs,      \* hr_payroll_runs
    slips,     \* hr_payslips
    issued,    \* payslips ever made, which numbers them
    payroll,   \* the requests in flight
    alone,     \* history: runs made for one employee and not redone since
    contested, \* history: runs and loans that two requests were at at once,
               \* and the periods that two runs were drafted for at once
    crossed,   \* history: loans on payslips of two drafts at once
    failed     \* history: runs that a fault left half done

payrollHistory == <<alone, contested, crossed, failed>>
payrollVars == <<requests, faults, loans, history, runs, slips, issued,
                 payroll, payrollHistory>>

\* Nothing sets the schema's paused and cancelled.
LoanStatus == {"absent", "pending", "active", "rejected", "paid_off",
               "deleted"}
RunStatus == {"absent", "draft", "processed", "paid", "discarded"}

Loan == [of : Employees, status : LoanStatus, principal : Nat,
         outstanding : Nat, instalment : Nat, term : SUBSET Periods]
Slip == [id : Nat, run : Runs, employee : Employees, period : Periods,
         lines : [Loans -> Nat]]
Deduction == [id : Nat, loan : Loans, amount : Nat]
PayrollJob == [at : {"idle", "decide", "create", "clear", "generate",
                     "collect", "find", "deduct", "save processed",
                     "save paid", "delete slips", "delete run"},
               run : Runs \union {NoRun}, loan : Loans \union {NoLoan},
               approve : BOOLEAN, one : BOOLEAN, amount : Nat,
               outstanding : Nat, period : Periods, term : SUBSET Periods,
               todo : SUBSET Employees, due : SUBSET Deduction]

FreeDesk == [at |-> "idle", run |-> NoRun, loan |-> NoLoan,
             approve |-> FALSE, one |-> FALSE, amount |-> 0,
             outstanding |-> 0, period |-> CHOOSE p \in Periods : TRUE,
             term |-> {},
             todo |-> {}, due |-> {}]

PayrollTypeOK ==
    /\ {requests, faults, issued} \subseteq Nat
    /\ loans \in [Loans -> Loan]
    /\ history \in [Loans -> [Runs -> Nat]]
    /\ runs \in [Runs -> [status : RunStatus, period : Periods]]
    /\ slips \subseteq Slip
    /\ payroll \in [Handlers -> PayrollJob]
    /\ alone \subseteq Runs
    /\ contested \subseteq Runs \union Loans \union Periods
    /\ crossed \subseteq Loans
    /\ failed \subseteq Runs

PayrollInit ==
    /\ requests = 0
    /\ faults = 0
    /\ loans = [l \in Loans |->
                   [of |-> Owner, status |-> "absent", principal |-> 0,
                    outstanding |-> 0, instalment |-> 0, term |-> {}]]
    /\ history = [l \in Loans |-> [r \in Runs |-> 0]]
    /\ runs = [r \in Runs |-> [status |-> "absent",
                               period |-> FreeDesk.period]]
    /\ slips = {}
    /\ issued = 0
    /\ payroll = [h \in Handlers |-> FreeDesk]
    /\ alone = {} /\ contested = {} /\ crossed = {} /\ failed = {}

-----------------------------------------------------------------------------
(* The life of a request *)

Busy(h) == payroll[h].at # "idle"
TakeUp(h, task) == ~Busy(h) /\ payroll' = [payroll EXCEPT ![h] = task]
Then(h, at) == payroll' = [payroll EXCEPT ![h].at = at]
Answer(h) == payroll' = [payroll EXCEPT ![h] = FreeDesk]

\* Another request is at run r when this one comes.
Contest(h, r) ==
    contested' = IF \E g \in Handlers \ {h} : payroll[g].run = r
                 THEN contested \union {r} ELSE contested

SlipsOf(r) == {s \in slips : s.run = r}

-----------------------------------------------------------------------------
(* Loans *)

LoanUntouched ==
    UNCHANGED <<history, runs, slips, issued, alone, crossed, failed>>

\* requestLoan
RequestLoan(e, l, principal) ==
    /\ Request
    /\ loans[l].status = "absent"
    /\ loans' = [loans EXCEPT ![l] =
           [of |-> e, status |-> "pending", principal |-> principal,
            outstanding |-> principal, instalment |-> 0, term |-> {}]]
    /\ LoanUntouched /\ UNCHANGED <<payroll, contested>>

\* logOwnerLoan: active at once
LogOwnerLoan(l, principal, instalment, term) ==
    /\ Request
    /\ loans[l].status = "absent"
    /\ instalment <= principal
    /\ loans' = [loans EXCEPT ![l] =
           [of |-> Owner, status |-> "active", principal |-> principal,
            outstanding |-> principal, instalment |-> instalment,
            term |-> term]]
    /\ LoanUntouched /\ UNCHANGED <<payroll, contested>>

\* decideLoanRequest finds the loan pending,
DecideLoan(h, l, approve, instalment, term) ==
    /\ Request
    /\ loans[l].status = "pending"
    /\ approve => instalment <= loans[l].principal
    /\ TakeUp(h, [FreeDesk EXCEPT !.at = "decide", !.loan = l,
                      !.approve = approve, !.amount = instalment,
                      !.term = term])
    /\ LoanUntouched /\ UNCHANGED <<loans, contested>>

\* and saves the decision; a loan deleted meanwhile makes the save throw.
SaveDecision(h) == LET l == payroll[h].loan IN
    /\ payroll[h].at = "decide"
    /\ Step
    /\ IF loans[l].status = "deleted" THEN UNCHANGED loans
       ELSE IF payroll[h].approve
       THEN loans' = [loans EXCEPT ![l].status = "active",
                          ![l].instalment = payroll[h].amount,
                          ![l].term = payroll[h].term]
       ELSE loans' = [loans EXCEPT ![l].status = "rejected"]
    /\ contested' = IF loans[l].status = "pending" THEN contested
                    ELSE contested \union {l}
    /\ Answer(h)
    /\ LoanUntouched

DeleteLoan(l) ==
    /\ Request
    /\ loans[l].status \notin {"absent", "deleted"}
    /\ loans' = [loans EXCEPT ![l].status = "deleted"]
    /\ LoanUntouched /\ UNCHANGED <<payroll, contested>>

\* getActiveLoanDeductionsForEmployee: what a payslip of e withholds for l.
Min2(a, b) == IF a <= b THEN a ELSE b
Withheld(e, l, period) ==
    IF /\ loans[l].of = e /\ loans[l].status = "active"
       /\ period \in loans[l].term
    THEN Min2(loans[l].instalment, loans[l].outstanding) ELSE 0

-----------------------------------------------------------------------------
(* Drafting a run *)

\* Mutant of Unpaid: a draft does not count yet.
UnpaidByProcessed(e, period) ==
    \A s \in slips : ~ /\ s.employee = e /\ s.period = period
                       /\ runs[s.run].status # "draft"
Unpaid(e, period) ==
    \A s \in slips : ~(s.employee = e /\ s.period = period)

\* createRun for one employee asks for payslips of the period; for all of
\* them it does not.  Two checks for one month see nothing of each other.
CreateRun(h, period, scope, one) ==
    /\ Request
    /\ one => \A e \in scope : Unpaid(e, period)
    /\ TakeUp(h, [FreeDesk EXCEPT !.at = "create", !.period = period,
                                  !.todo = scope, !.one = one])
    /\ contested' = IF \E g \in Handlers : /\ payroll[g].period = period
                                           /\ payroll[g].at \in
                                                  {"create", "generate"}
                    THEN contested \union {period} ELSE contested
    /\ UNCHANGED <<loans, history, runs, slips, issued, alone, crossed,
                   failed>>

\* The run is there, as a draft, before its payslips are.
NewRun(h, r) ==
    /\ payroll[h].at = "create"
    /\ Step
    /\ runs[r].status = "absent"
    /\ runs' = [runs EXCEPT ![r] = [status |-> "draft",
                                    period |-> payroll[h].period]]
    /\ alone' = IF payroll[h].one THEN alone \union {r} ELSE alone
    /\ payroll' = [payroll EXCEPT ![h].at = "generate", ![h].run = r]
    /\ UNCHANGED <<loans, history, slips, issued, contested, crossed, failed>>

\* generatePayslipForEmployee reads the loans and inserts the payslip,
\* whatever has become of the run.
Generate(h, e) ==
    LET r == payroll[h].run
        period == payroll[h].period
        lines == [l \in Loans |-> Withheld(e, l, period)]
    IN
    /\ payroll[h].at = "generate" /\ e \in payroll[h].todo
    /\ Step
    /\ slips' = slips \union {[id |-> issued, run |-> r, employee |-> e,
                               period |-> period, lines |-> lines]}
    /\ issued' = issued + 1
    /\ crossed' = crossed \union
           {l \in Loans : /\ lines[l] > 0
                          /\ \E s \in slips : /\ s.run # r
                                              /\ s.lines[l] > 0
                                              /\ runs[s.run].status = "draft"}
    /\ payroll' = [payroll EXCEPT ![h].todo = @ \ {e}]
    /\ UNCHANGED <<loans, history, runs, alone, contested, failed>>

\* An employee without salary or policy is skipped, and noted as such.
Skip(h, e) ==
    /\ payroll[h].at = "generate" /\ e \in payroll[h].todo
    /\ Step
    /\ payroll' = [payroll EXCEPT ![h].todo = @ \ {e}]
    /\ UNCHANGED <<loans, history, runs, slips, issued, payrollHistory>>

\* recalculateRunTotals
Generated(h) ==
    /\ payroll[h].at = "generate" /\ payroll[h].todo = {}
    /\ Step
    /\ Answer(h)
    /\ UNCHANGED <<loans, history, runs, slips, issued, payrollHistory>>

\* Mutant of Drafted: a processed run can be redone and discarded as well.
NotPaid(r) == runs[r].status \in {"draft", "processed"}
Drafted(r) == runs[r].status = "draft"

\* recalculateRun.  A run does not know that it was made for one employee:
\* it is redone for all.
Recalculate(h, r) ==
    /\ Request
    /\ Drafted(r)
    /\ TakeUp(h, [FreeDesk EXCEPT !.at = "clear", !.run = r,
                      !.period = runs[r].period, !.todo = Employees])
    /\ Contest(h, r)
    /\ alone' = alone \ {r}
    /\ UNCHANGED <<loans, history, runs, slips, issued, crossed, failed>>

\* The old payslips go; a run discarded meanwhile makes the save throw.
Clear(h) == LET r == payroll[h].run IN
    /\ payroll[h].at = "clear"
    /\ Step
    /\ slips' = slips \ SlipsOf(r)
    /\ IF runs[r].status = "discarded" THEN Answer(h) ELSE Then(h, "generate")
    /\ UNCHANGED <<loans, history, runs, issued, payrollHistory>>

\* discardDraftRun: first the payslips, then the run.
Discard(h, r) ==
    /\ Request
    /\ Drafted(r)
    /\ TakeUp(h, [FreeDesk EXCEPT !.at = "delete slips", !.run = r])
    /\ Contest(h, r)
    /\ UNCHANGED <<loans, history, runs, slips, issued, alone, crossed,
                   failed>>

DeleteSlips(h) ==
    /\ payroll[h].at = "delete slips"
    /\ Step
    /\ slips' = slips \ SlipsOf(payroll[h].run)
    /\ Then(h, "delete run")
    /\ UNCHANGED <<loans, history, runs, issued, payrollHistory>>

DeleteRun(h) ==
    /\ payroll[h].at = "delete run"
    /\ Step
    /\ runs' = [runs EXCEPT ![payroll[h].run].status = "discarded"]
    /\ Answer(h)
    /\ UNCHANGED <<loans, history, slips, issued, payrollHistory>>

-----------------------------------------------------------------------------
(* Processing and paying *)

ProcessRun(h, r) ==
    /\ Request
    /\ runs[r].status = "draft"
    /\ TakeUp(h, [FreeDesk EXCEPT !.at = "collect", !.run = r])
    /\ Contest(h, r)
    /\ UNCHANGED <<loans, history, runs, slips, issued, alone, crossed,
                   failed>>

\* Mutant of DeductionsOf: whatever the period withholds, of any run.
DeductionsOfMonth(r) ==
    {d \in [id : 0 .. issued, loan : Loans, amount : Principals] :
        \E s \in slips : /\ s.period = runs[r].period
                         /\ d.id = s.id /\ d.amount = s.lines[d.loan]}
\* The loan lines of all payslips.
DeductionsOf(r) ==
    {d \in UNION {{[id |-> s.id, loan |-> l, amount |-> s.lines[l]] :
                     l \in Loans} : s \in SlipsOf(r)} : d.amount > 0}

Collect(h) ==
    /\ payroll[h].at = "collect"
    /\ Step
    /\ payroll' = [payroll EXCEPT ![h].at = "find",
                       ![h].due = DeductionsOf(payroll[h].run)]
    /\ UNCHANGED <<loans, history, runs, slips, issued, payrollHistory>>

\* applyLoanDeductions, one line after the other: the loan is read, unless it
\* has been deleted,
FindLoan(h, d) ==
    /\ payroll[h].at = "find" /\ d \in payroll[h].due
    /\ Step
    /\ IF loans[d.loan].status = "deleted"
       THEN payroll' = [payroll EXCEPT ![h].due = @ \ {d}]
       ELSE payroll' = [payroll EXCEPT ![h].at = "deduct",
                ![h].due = @ \ {d}, ![h].loan = d.loan,
                ![h].amount = d.amount,
                ![h].outstanding = loans[d.loan].outstanding]
    /\ UNCHANGED <<loans, history, runs, slips, issued, payrollHistory>>

AllDeducted(h) ==
    /\ payroll[h].at = "find" /\ payroll[h].due = {}
    /\ Step
    /\ Then(h, "save processed")
    /\ UNCHANGED <<loans, history, runs, slips, issued, payrollHistory>>

\* What is left of a balance, which never goes below zero.
Left(outstanding, amount) ==
    IF amount <= outstanding THEN outstanding - amount ELSE 0

\* Mutant of Deduct: the balance is not reduced.
DeductNothing(h) ==
    LET l == payroll[h].loan
        r == payroll[h].run
    IN
    /\ payroll[h].at = "deduct"
    /\ Step
    /\ history' = [history EXCEPT ![l][r] = @ + payroll[h].amount]
    /\ Then(h, "find")
    /\ UNCHANGED <<loans, runs, slips, issued, payrollHistory>>

\* and saved: the balance as computed, the entry pushed.  A loan deleted
\* meanwhile makes the save throw, and the run stays a draft.
Deduct(h) ==
    LET l == payroll[h].loan
        r == payroll[h].run
        left == Left(payroll[h].outstanding, payroll[h].amount)
    IN
    /\ payroll[h].at = "deduct"
    /\ Step
    /\ IF loans[l].status = "deleted"
       THEN /\ Answer(h)
            /\ failed' = failed \union {r}
            /\ UNCHANGED <<loans, history, contested>>
       ELSE /\ loans' = [loans EXCEPT ![l].outstanding = left,
                    ![l].status = IF left = 0 THEN "paid_off" ELSE @]
            /\ history' = [history EXCEPT ![l][r] = @ + payroll[h].amount]
            /\ contested' =
                   IF loans[l].outstanding = payroll[h].outstanding
                   THEN contested ELSE contested \union {l}
            /\ Then(h, "find")
            /\ UNCHANGED failed
    /\ UNCHANGED <<runs, slips, issued, alone, crossed>>

\* A run discarded meanwhile makes the save throw.
SaveProcessed(h) == LET r == payroll[h].run IN
    /\ payroll[h].at = "save processed"
    /\ Step
    /\ runs' = IF runs[r].status = "discarded" THEN runs
               ELSE [runs EXCEPT ![r].status = "processed"]
    /\ Answer(h)
    /\ UNCHANGED <<loans, history, slips, issued, payrollHistory>>

MarkPaid(h, r) ==
    /\ Request
    /\ runs[r].status = "processed"
    /\ TakeUp(h, [FreeDesk EXCEPT !.at = "save paid", !.run = r])
    /\ Contest(h, r)
    /\ UNCHANGED <<loans, history, runs, slips, issued, alone, crossed,
                   failed>>

SavePaid(h) == LET r == payroll[h].run IN
    /\ payroll[h].at = "save paid"
    /\ Step
    /\ runs' = IF runs[r].status = "discarded" THEN runs
               ELSE [runs EXCEPT ![r].status = "paid"]
    /\ Answer(h)
    /\ UNCHANGED <<loans, history, slips, issued, payrollHistory>>

\* A database call fails, or the server goes down with the request.
PayrollFault(h) ==
    /\ Busy(h)
    /\ Fault
    /\ failed' = failed \union ({payroll[h].run} \ {NoRun})
    /\ Answer(h)
    /\ UNCHANGED <<loans, history, runs, slips, issued, alone, contested,
                   crossed>>

-----------------------------------------------------------------------------
LoanRequested(h) ==
    \E l \in Loans :
        \/ \E e \in Employees, p \in Principals : RequestLoan(e, l, p)
        \/ \E p, i \in Principals, t \in SUBSET Periods \ {{}} :
               \/ LogOwnerLoan(l, p, i, t)
               \/ \E approve \in BOOLEAN : DecideLoan(h, l, approve, i, t)
        \/ DeleteLoan(l)

RunRequested(h) ==
    \/ \E p \in Periods :
           \/ CreateRun(h, p, Employees, FALSE)
           \/ \E e \in Employees : CreateRun(h, p, {e}, TRUE)
    \/ \E r \in Runs : \/ Recalculate(h, r) \/ Discard(h, r)
                       \/ ProcessRun(h, r) \/ MarkPaid(h, r)

PayrollStep(h) ==
    \/ SaveDecision(h)
    \/ \E r \in Runs : NewRun(h, r)
    \/ \E e \in Employees : Generate(h, e) \/ Skip(h, e)
    \/ Generated(h) \/ Clear(h) \/ DeleteSlips(h) \/ DeleteRun(h)
    \/ Collect(h) \/ \E d \in payroll[h].due : FindLoan(h, d)
    \/ AllDeducted(h) \/ Deduct(h) \/ SaveProcessed(h) \/ SavePaid(h)

PayrollNext ==
    \E h \in Handlers :
        LoanRequested(h) \/ RunRequested(h) \/ PayrollStep(h) \/ PayrollFault(h)

PayrollSpec == PayrollInit /\ [][PayrollNext]_payrollVars

-----------------------------------------------------------------------------
(* Properties *)

\* Nobody is at run r, nobody ever was while another was, and no fault has
\* left it half done.
Settled(r) ==
    /\ r \notin contested \union failed
    /\ \A h \in Handlers : payroll[h].run # r

WithheldBy(r, l) ==
    SumFunctionOnSet([s \in SlipsOf(r) |-> s.lines[l]], SlipsOf(r))

\* What the payslips of a processed run withhold for a loan is what the run
\* has taken off it, no more and no less, and a run that is no more than a
\* draft has taken nothing; however often it was redone, and whichever runs
\* and loans changed beside it (payroll-run.service.ts:245-261).  Left out
\* are runs that two requests were at at once or that a fault cut short:
\* there the code deducts twice.
PayslipsDeducted ==
    \A r \in Runs, l \in Loans :
        Settled(r) /\ loans[l].status # "deleted" =>
            history[l][r] = IF runs[r].status \in {"processed", "paid"}
                            THEN WithheldBy(r, l) ELSE 0

Deducted(l) == SumFunctionOnSet(history[l], Runs)
Sullied(l) == \E r \in contested \union failed : r \in Runs /\ history[l][r] > 0

\* An employee never pays back more than was lent, and the balance is what is
\* left of it, as long as no two drafts withheld for the loan at once: each
\* of them would withhold the last instalment.
LoanPaidDown ==
    \A l \in Loans \ (crossed \union contested) :
        ~Sullied(l) => loans[l].principal - loans[l].outstanding = Deducted(l)

\* An employee that a run is made for alone has no second payslip for the
\* month (payroll-run.service.ts:93-112), except from a run for everyone,
\* from redoing a run, which forgets that it was for one, or from two
\* requests side by side.
OnePayslipEach ==
    \A s, t \in slips :
        /\ s # t /\ s.employee = t.employee /\ s.period = t.period
        /\ {s.run, t.run, s.period} \intersect contested = {}
        => ~({s.run, t.run} \subseteq alone)

\* What has been processed stands: the run stays processed or gets paid, and
\* its payslips stay as they are.
ProcessedStands ==
    [][\A r \in Runs :
          runs[r].status \in {"processed", "paid"} /\ r \notin contested' =>
              /\ runs'[r].status \in {runs[r].status, "paid"}
              /\ {s \in slips' : s.run = r} = SlipsOf(r)]_payrollVars
=============================================================================
