-------------------------------- MODULE Leave --------------------------------
(***************************************************************************)
(* Leave of employees: leave.service.ts.  A request is checked against     *)
(* other leave and against the balance when it is made, and its days are   *)
(* counted as used when it is approved.  The types whose balance is        *)
(* tracked, annual and sick, do not touch each other: one of them is       *)
(* modelled, and beside it a type that is not tracked.  Weekends, the      *)
(* policies of locations, custom types, documents and mails are left out.  *)
(***************************************************************************)
EXTENDS Requests, Functions

CONSTANTS
    Staff,
    Boss,      \* the owner of the business, who takes leave without asking
    Leaves,    \* bound: the requests for leave that can ever be made
    LastDay,   \* the days that leave is asked for
    Allowances, \* annual days that a policy may grant,
    Default     \* and those granted without a policy

NoLeave == "no leave"

ASSUME LeaveAssumption ==
    /\ Boss \in Staff
    /\ LastDay \in Nat
    /\ Allowances \subseteq Nat /\ Default \in Nat
    /\ IsFiniteSet(Leaves)
    /\ NoLeave \notin Leaves
    /\ Leaves \intersect Staff = {}

VARIABLES
    leaves,   \* hr_leave_requests
    allowed,  \* annual days by the policy
    used,     \* annualLeaveUsed of each employee
    balance,  \* annualLeaveBalance, which only the owner's leave moves
    absence,  \* the requests in flight
    disputed, \* history: leave that two requests changed at once, and staff
              \* that two requests asked leave for at once
    pooled,   \* history: staff that asked while other leave of theirs was open
    dropped   \* history: leave that a fault left half done

leaveHistory == <<disputed, pooled, dropped>>
leaveVars == <<requests, faults, leaves, allowed, used, balance, absence,
               leaveHistory>>

Days == 1 .. LastDay
LeaveStatus == {"absent", "pending", "approved", "rejected", "cancelled"}

LeaveRecord == [of : Staff, status : LeaveStatus, annual : BOOLEAN,
                from : Nat, to : Nat]
LeaveJob == [at : {"idle", "check", "insert", "insert approved", "charge",
                   "review", "deduct", "cancel"},
             of : Staff, leave : Leaves \union {NoLeave},
             annual : BOOLEAN, approve : BOOLEAN,
             from : Nat, to : Nat, used : Nat]

AtDesk == [at |-> "idle", of |-> Boss, leave |-> NoLeave,
           annual |-> FALSE, approve |-> FALSE, from |-> 0, to |-> 0,
           used |-> 0]

LeaveTypeOK ==
    /\ {requests, faults, allowed} \subseteq Nat
    /\ leaves \in [Leaves -> LeaveRecord]
    /\ used \in [Staff -> Nat]
    /\ balance \in [Staff -> Int]
    /\ absence \in [Handlers -> LeaveJob]
    /\ disputed \subseteq Leaves \union Staff
    /\ pooled \subseteq Staff
    /\ dropped \subseteq Leaves

LeaveInit ==
    /\ requests = 0
    /\ faults = 0
    /\ leaves = [q \in Leaves |->
                    [of |-> Boss, status |-> "absent", annual |-> FALSE,
                     from |-> 0, to |-> 0]]
    /\ allowed = Default
    /\ used = [e \in Staff |-> 0]
    /\ balance = [e \in Staff |-> 0]
    /\ absence = [h \in Handlers |-> AtDesk]
    /\ disputed = {} /\ pooled = {} /\ dropped = {}

-----------------------------------------------------------------------------
Working(h) == absence[h].at # "idle"
OpenDesk(h, task) == ~Working(h) /\ absence' = [absence EXCEPT ![h] = task]
CloseDesk(h) == absence' = [absence EXCEPT ![h] = AtDesk]
Proceed(h, at) == absence' = [absence EXCEPT ![h].at = at]

Length(x) == x.to - x.from + 1
Overlap(x, y) == x.from <= y.to /\ y.from <= x.to
Standing(q) == leaves[q].status \in {"pending", "approved"}
Asking(h, e) == absence[h].of = e /\ absence[h].at \in {"check", "insert"}

\* Leave of e whose days may still come to be used.
Open(q, e) ==
    /\ leaves[q].of = e /\ leaves[q].annual
    /\ \/ leaves[q].status = "pending"
       \/ \E h \in Handlers : absence[h].leave = q

-----------------------------------------------------------------------------
(* Asking for leave *)

\* createLeaveRequest reads the employee; the owner's leave is only logged.
AskLeave(h, e, annual, from, to) ==
    /\ Request
    /\ from <= to
    /\ OpenDesk(h, [AtDesk EXCEPT
           !.at = IF e = Boss THEN "insert approved" ELSE "check",
           !.of = e, !.annual = annual, !.from = from, !.to = to,
           !.used = used[e]])
    /\ disputed' = IF \E g \in Handlers : Asking(g, e)
                   THEN disputed \union {e} ELSE disputed
    /\ pooled' = IF \E q \in Leaves : Open(q, e) THEN pooled \union {e}
                 ELSE pooled
    /\ UNCHANGED <<leaves, allowed, used, balance, dropped>>

\* Mutant of FreeDays: leave that is only asked for does not count.
FreeOfApproved(e, x) ==
    \A q \in Leaves : leaves[q].of = e /\ leaves[q].status = "approved" =>
        ~Overlap(leaves[q], x)
FreeDays(e, x) ==
    \A q \in Leaves : leaves[q].of = e /\ Standing(q) =>
        ~Overlap(leaves[q], x)

\* Mutant of WithinBalance: what has been used is forgotten.
WithinPolicy(x) == x.annual => Length(x) <= allowed
WithinBalance(x) == x.annual => Length(x) <= allowed - x.used

\* The dates are checked against other leave, then the days against what was
\* left when the employee was read.
CheckLeave(h) ==
    /\ absence[h].at = "check"
    /\ Step
    /\ IF FreeDays(absence[h].of, absence[h]) /\ WithinBalance(absence[h])
       THEN Proceed(h, "insert") ELSE CloseDesk(h)
    /\ UNCHANGED <<leaves, allowed, used, balance, leaveHistory>>

Inserted(h, q, status) ==
    leaves' = [leaves EXCEPT ![q] =
        [of |-> absence[h].of, status |-> status,
         annual |-> absence[h].annual, from |-> absence[h].from,
         to |-> absence[h].to]]

InsertLeave(h, q) ==
    /\ absence[h].at = "insert"
    /\ Step
    /\ leaves[q].status = "absent"
    /\ Inserted(h, q, "pending")
    /\ CloseDesk(h)
    /\ UNCHANGED <<allowed, used, balance, leaveHistory>>

\* logOwnerLeave takes the days off a balance that nothing else reads.
InsertApproved(h, q) ==
    /\ absence[h].at = "insert approved"
    /\ Step
    /\ leaves[q].status = "absent"
    /\ Inserted(h, q, "approved")
    /\ IF absence[h].annual
       THEN absence' = [absence EXCEPT ![h].at = "charge", ![h].leave = q]
       ELSE CloseDesk(h)
    /\ UNCHANGED <<allowed, used, balance, leaveHistory>>

ChargeOwner(h) ==
    /\ absence[h].at = "charge"
    /\ Step
    /\ balance' = [balance EXCEPT ![absence[h].of] = @ - Length(absence[h])]
    /\ CloseDesk(h)
    /\ UNCHANGED <<leaves, allowed, used, leaveHistory>>

-----------------------------------------------------------------------------
(* Deciding on it *)

Pending(q) == leaves[q].status = "pending"

\* reviewLeaveRequest finds the request pending,
Review(h, q, approve) ==
    /\ Request
    /\ Pending(q)
    /\ OpenDesk(h, [AtDesk EXCEPT !.at = "review", !.of = leaves[q].of,
                        !.leave = q, !.approve = approve])
    /\ UNCHANGED <<leaves, allowed, used, balance, leaveHistory>>

\* Leave q is decided on though it is not pending any more.
NoteDispute(q) ==
    disputed' = IF leaves[q].status = "pending" THEN disputed
                ELSE disputed \union {q}

\* Mutant of Counts: leave that is rejected costs its days as well.
CountsAnyway(h) == leaves[absence[h].leave].annual
Counts(h) == absence[h].approve /\ leaves[absence[h].leave].annual

\* writes the decision by id,
SaveReview(h) == LET q == absence[h].leave IN
    /\ absence[h].at = "review"
    /\ Step
    /\ leaves' = [leaves EXCEPT ![q].status =
                     IF absence[h].approve THEN "approved" ELSE "rejected"]
    /\ IF Counts(h)
       THEN Proceed(h, "deduct") ELSE CloseDesk(h)
    /\ NoteDispute(q)
    /\ UNCHANGED <<allowed, used, balance, pooled, dropped>>

\* and counts the days.
DeductDays(h) == LET q == absence[h].leave IN
    /\ absence[h].at = "deduct"
    /\ Step
    /\ used' = [used EXCEPT ![leaves[q].of] = @ + Length(leaves[q])]
    /\ CloseDesk(h)
    /\ UNCHANGED <<leaves, allowed, balance, leaveHistory>>

CancelLeave(h, q) ==
    /\ Request
    /\ Pending(q)
    /\ OpenDesk(h, [AtDesk EXCEPT !.at = "cancel", !.of = leaves[q].of,
                        !.leave = q])
    /\ UNCHANGED <<leaves, allowed, used, balance, leaveHistory>>

SaveCancelled(h) == LET q == absence[h].leave IN
    /\ absence[h].at = "cancel"
    /\ Step
    /\ leaves' = [leaves EXCEPT ![q].status = "cancelled"]
    /\ CloseDesk(h)
    /\ NoteDispute(q)
    /\ UNCHANGED <<allowed, used, balance, pooled, dropped>>

\* upsertPolicy: nobody's leave is looked at again.
UpsertPolicy(days) ==
    /\ Request
    /\ allowed' = days
    /\ pooled' = IF days < allowed THEN Staff ELSE pooled
    /\ UNCHANGED <<leaves, used, balance, absence, disputed, dropped>>

\* A database call fails, or the server goes down with the request.
LeaveFault(h) ==
    /\ Working(h)
    /\ Fault
    /\ dropped' = dropped \union ({absence[h].leave} \ {NoLeave})
    /\ CloseDesk(h)
    /\ UNCHANGED <<leaves, allowed, used, balance, disputed, pooled>>

LeaveNext ==
    \/ \E days \in Allowances : UpsertPolicy(days)
    \/ \E h \in Handlers :
           \/ \E e \in Staff, annual \in BOOLEAN, from, to \in Days :
                  AskLeave(h, e, annual, from, to)
           \/ \E q \in Leaves :
                  \/ \E approve \in BOOLEAN : Review(h, q, approve)
                  \/ CancelLeave(h, q)
                  \/ InsertLeave(h, q) \/ InsertApproved(h, q)
           \/ CheckLeave(h) \/ ChargeOwner(h) \/ SaveReview(h)
           \/ DeductDays(h) \/ SaveCancelled(h) \/ LeaveFault(h)

LeaveSpec == LeaveInit /\ [][LeaveNext]_leaveVars

-----------------------------------------------------------------------------
(* Properties *)

AnnualLeave(e) ==
    {q \in Leaves : leaves[q].of = e /\ leaves[q].annual
                    /\ leaves[q].status = "approved"}
\* All leave of e has been decided on by one request at a time, completely.
Orderly(e) ==
    /\ \A q \in disputed \union dropped :
           q \in Leaves => leaves[q].of # e
    /\ \A h \in Handlers : absence[h].leave \in Leaves => absence[h].of # e

\* The days that count as used are the days of the leave that was approved:
\* a review deducts once, and what is rejected or cancelled costs nothing
\* (leave.service.ts:499-514).  The owner's own leave never comes to count.
UsedIsApproved ==
    \A e \in Staff \ {Boss} :
        Orderly(e) =>
            used[e] = SumFunctionOnSet([q \in Leaves |-> Length(leaves[q])],
                                       AnnualLeave(e))

\* Nobody has two leaves on one day, whatever was rejected or cancelled and
\* asked for again in between (leave.service.ts:372-382), unless two requests
\* of one employee, or two decisions on one leave, ran side by side.
NoDayTwice ==
    \A p, q \in Leaves \ disputed :
        /\ p # q /\ leaves[p].of = leaves[q].of
        /\ leaves[p].of \notin disputed \union {Boss}
        /\ Standing(p) /\ Standing(q)
        => ~Overlap(leaves[p], leaves[q])

\* Nobody uses more annual leave than the policy grants, unless several
\* requests of theirs were open together, each of which fitted, or the policy
\* was cut (leave.service.ts:384-396).
WithinAllowance ==
    \A e \in Staff \ (pooled \union disputed \union {Boss}) :
        Orderly(e) => used[e] <= allowed
=============================================================================
