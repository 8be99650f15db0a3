-------------------------- MODULE TrustAccounting --------------------------
(***************************************************************************)
(* Client money: trust.service.ts.  A ledger's balance is never stored, it *)
(* is summed from the movements each time.  A deposit counts at once; a    *)
(* drawdown is asked for by one person, and counts when another one has    *)
(* authorised it.  Either is then posted to the general ledger.            *)
(*                                                                         *)
(* A request is a chain of steps, cut where it acts on what an earlier     *)
(* await returned; other requests run in between.  Nothing ties the steps  *)
(* together: a request that fails leaves what it wrote.                    *)
(***************************************************************************)
EXTENDS Naturals, FiniteSets, Functions

CONSTANTS
    Ledgers,
    Movements,   \* bound: the documents that can ever be created
    Staff,       \* the names that preparers and authorisers give
    Handlers,    \* requests that may be in flight at once
    MaxAmount,   \* bound: the amount of one movement
    MaxRequests, \* bound: requests ever accepted
    MaxFaults    \* bound: failed database calls and restarts

NoOne == "no one"
NoMovement == "no movement"
NoLedger == "no ledger"

ASSUME TrustAssumption ==
    /\ {MaxAmount, MaxRequests, MaxFaults} \subseteq Nat
    /\ NoOne \notin Staff
    /\ NoMovement \notin Movements
    /\ NoLedger \notin Ledgers
    /\ IsFiniteSet(Movements)

VARIABLES
    opened,    \* crm_trust_ledgers
    movements, \* crm_trust_movements
    posted,    \* how often a movement was posted to the general ledger
    job,       \* the requests in flight
    requests,  \* requests accepted so far
    faults,    \* faults so far
    raced,     \* history: ledgers on which two decisions overlapped
    lost       \* history: movements whose posting fell to a fault

documents == <<opened, movements, posted>>
vars == <<opened, movements, posted, job, requests, faults, raced, lost>>

NewMovement == [ledger |-> NoLedger, type |-> "none", status |-> "absent",
                amount |-> 0, preparedBy |-> NoOne, authorisedBy |-> NoOne]
Idle == [pc |-> "idle", m |-> NoMovement, l |-> NoLedger, amount |-> 0,
         by |-> NoOne, unread |-> {}, in |-> {}, out |-> {}]

Movement == [ledger : Ledgers \union {NoLedger},
             type : {"none", "deposit", "drawdown"},
             status : {"absent", "recorded", "awaiting", "approved",
                       "rejected"},
             amount : Nat,
             preparedBy : Staff \union {NoOne},
             authorisedBy : Staff \union {NoOne}]
Request == [pc : {"idle", "ask", "decide", "reject", "post"},
            m : Movements \union {NoMovement}, l : Ledgers \union {NoLedger},
            amount : Nat, by : Staff \union {NoOne},
            unread : SUBSET {"in", "out"},
            in : SUBSET Movements, out : SUBSET Movements]

TypeOK ==
    /\ opened \subseteq Ledgers
    /\ movements \in [Movements -> Movement]
    /\ posted \in [Movements -> Nat]
    /\ job \in [Handlers -> Request]
    /\ requests \in Nat
    /\ faults \in Nat
    /\ raced \subseteq Ledgers
    /\ lost \subseteq Movements

Init ==
    /\ opened = {}
    /\ movements = [m \in Movements |-> NewMovement]
    /\ posted = [m \in Movements |-> 0]
    /\ job = [h \in Handlers |-> Idle]
    /\ requests = 0
    /\ faults = 0
    /\ raced = {}
    /\ lost = {}

-----------------------------------------------------------------------------
(* Balances *)

Sum(S) == SumFunctionOnSet([m \in Movements |-> movements[m].amount], S)

\* What the two aggregates of computeBalance match.
In(l) == {m \in Movements : /\ movements[m].ledger = l
                            /\ movements[m].type = "deposit"
                            /\ movements[m].status = "recorded"}
Out(l) == {m \in Movements : /\ movements[m].ledger = l
                             /\ movements[m].type = "drawdown"
                             /\ movements[m].status = "approved"}
Overdrawn(l) == Sum(Out(l)) > Sum(In(l))

-----------------------------------------------------------------------------
(* The life of a request *)

\* Handler h takes a request; its first step leaves it as locals.
Accept(h, locals) ==
    /\ job[h].pc = "idle"
    /\ requests < MaxRequests
    /\ requests' = requests + 1
    /\ job' = [job EXCEPT ![h] = locals]

Goto(h, pc) == job' = [job EXCEPT ![h].pc = pc]
Finish(h) == job' = [job EXCEPT ![h] = Idle]

\* A movement document is created.
Insert(m, l, type, status, amount, by) ==
    /\ movements[m].status = "absent"
    /\ movements' = [movements EXCEPT ![m] =
           [ledger |-> l, type |-> type, status |-> status, amount |-> amount,
            preparedBy |-> by, authorisedBy |-> NoOne]]

Deciding(h, l) == job[h].pc \in {"decide", "reject"} /\ job[h].l = l
\* A decision on l is taken up: note whether another one is in flight.
NoteRace(h, l) ==
    raced' = IF \E g \in Handlers \ {h} : Deciding(g, l)
             THEN raced \union {l} ELSE raced

\* computeBalance asks for both sums at once; the answers come in any order,
\* each over the movements there were at its own moment.  An amount never
\* changes, so a request may carry the movements in place of their sum.
ReadSum(h) ==
    /\ job[h].pc \in {"ask", "decide"}
    /\ \/ /\ "in" \in job[h].unread
          /\ job' = [job EXCEPT ![h].in = In(job[h].l),
                                ![h].unread = @ \ {"in"}]
       \/ /\ "out" \in job[h].unread
          /\ job' = [job EXCEPT ![h].out = Out(job[h].l),
                                ![h].unread = @ \ {"out"}]
    /\ UNCHANGED <<documents, requests, faults, raced, lost>>

BalanceRead(h) == job[h].unread = {}
\* The amount exceeds the balance that was read.
Exceeds(h) == job[h].amount + Sum(job[h].out) > Sum(job[h].in)

-----------------------------------------------------------------------------
(* Operations *)

\* TrustLedgerService.create, for a bank account of type Trust.
CreateLedger(l) ==
    /\ l \notin opened
    /\ opened' = opened \union {l}
    /\ UNCHANGED <<movements, posted, job, requests, faults, raced, lost>>

\* The deposit is written, and its posting comes next.
RecordDeposit(h, l, m, amount, by) ==
    /\ l \in opened
    /\ Insert(m, l, "deposit", "recorded", amount, by)
    /\ Accept(h, [Idle EXCEPT !.pc = "post", !.m = m, !.l = l,
                              !.amount = amount])
    /\ UNCHANGED <<opened, posted, faults, raced, lost>>

RequestDrawdown(h, l, amount, by) ==
    /\ l \in opened
    /\ Accept(h, [Idle EXCEPT !.pc = "ask", !.l = l, !.amount = amount,
                              !.by = by, !.unread = {"in", "out"}])
    /\ UNCHANGED <<documents, faults, raced, lost>>

CreateDrawdown(h, m) ==
    /\ job[h].pc = "ask"
    /\ BalanceRead(h)
    /\ ~Exceeds(h)
    /\ Insert(m, job[h].l, "drawdown", "awaiting", job[h].amount, job[h].by)
    /\ Finish(h)
    /\ UNCHANGED <<opened, posted, requests, faults, raced, lost>>

\* Mutant of Authorisable: anyone may authorise, the preparer too.
AuthorisableByAnyone(m, by) ==
    /\ movements[m].status = "awaiting"
    /\ by \in Staff

\* Mutant of Authorisable: the status is not checked.
AuthorisableAtAnyStatus(m, by) ==
    /\ movements[m].type = "drawdown"
    /\ movements[m].preparedBy # by

\* The guards that the authorise endpoint checks on the document it found.
Authorisable(m, by) ==
    /\ movements[m].status = "awaiting"
    /\ movements[m].preparedBy # by

AuthoriseDrawdown(h, m, by) ==
    /\ Authorisable(m, by)
    /\ Accept(h, [Idle EXCEPT !.pc = "decide", !.m = m,
                              !.l = movements[m].ledger,
                              !.amount = movements[m].amount, !.by = by,
                              !.unread = {"in", "out"}])
    /\ NoteRace(h, movements[m].ledger)
    /\ UNCHANGED <<documents, faults, lost>>

\* Mutant of ApproveDrawdown: the balance is not checked a second time.
ApproveUnchecked(h) ==
    /\ job[h].pc = "decide"
    /\ BalanceRead(h)
    /\ movements' = [movements EXCEPT ![job[h].m].status = "approved",
                                      ![job[h].m].authorisedBy = job[h].by]
    /\ Goto(h, "post")
    /\ UNCHANGED <<opened, posted, requests, faults, raced, lost>>

\* Mutant of ApproveDrawdown: the approval is never posted.
ApproveUnposted(h) ==
    /\ job[h].pc = "decide"
    /\ BalanceRead(h)
    /\ ~Exceeds(h)
    /\ movements' = [movements EXCEPT ![job[h].m].status = "approved",
                                      ![job[h].m].authorisedBy = job[h].by]
    /\ Finish(h)
    /\ UNCHANGED <<opened, posted, requests, faults, raced, lost>>

\* save() writes the paths that changed, whatever the status is by now.
ApproveDrawdown(h) ==
    /\ job[h].pc = "decide"
    /\ BalanceRead(h)
    /\ ~Exceeds(h)
    /\ movements' = [movements EXCEPT ![job[h].m].status = "approved",
                                      ![job[h].m].authorisedBy = job[h].by]
    /\ Goto(h, "post")
    /\ UNCHANGED <<opened, posted, requests, faults, raced, lost>>

\* Either check of the balance refuses the request.
RefuseOverdraw(h) ==
    /\ job[h].pc \in {"ask", "decide"}
    /\ BalanceRead(h)
    /\ Exceeds(h)
    /\ Finish(h)
    /\ UNCHANGED <<documents, requests, faults, raced, lost>>

\* Mutant of RejectDrawdown: the status is not checked.
RejectAnyStatus(h, m) ==
    /\ movements[m].type = "drawdown"
    /\ Accept(h, [Idle EXCEPT !.pc = "reject", !.m = m,
                              !.l = movements[m].ledger])
    /\ NoteRace(h, movements[m].ledger)
    /\ UNCHANGED <<documents, faults, lost>>

RejectDrawdown(h, m) ==
    /\ movements[m].status = "awaiting"
    /\ Accept(h, [Idle EXCEPT !.pc = "reject", !.m = m,
                              !.l = movements[m].ledger])
    /\ NoteRace(h, movements[m].ledger)
    /\ UNCHANGED <<documents, faults, lost>>

WriteRejection(h) ==
    /\ job[h].pc = "reject"
    /\ movements' = [movements EXCEPT ![job[h].m].status = "rejected"]
    /\ Finish(h)
    /\ UNCHANGED <<opened, posted, requests, faults, raced, lost>>

\* GlPostingService.post: the pair of lines is inserted in one call.
Post(h) ==
    /\ job[h].pc = "post"
    /\ posted' = [posted EXCEPT ![job[h].m] = @ + 1]
    /\ Finish(h)
    /\ UNCHANGED <<opened, movements, requests, faults, raced, lost>>

-----------------------------------------------------------------------------
(* Faults *)

\* Request h has yet to post movement m.
Owes(h, m) == job[h].pc = "post" /\ job[h].m = m
Owed(m) == \E h \in Handlers : Owes(h, m)

\* A database call, or the exchange rate's, fails: the request ends.
Abort(h) ==
    /\ job[h].pc # "idle"
    /\ faults < MaxFaults
    /\ faults' = faults + 1
    /\ lost' = lost \union {m \in Movements : Owes(h, m)}
    /\ Finish(h)
    /\ UNCHANGED <<documents, requests, raced>>

Restart ==
    /\ faults < MaxFaults
    /\ \E h \in Handlers : job[h].pc # "idle"
    /\ faults' = faults + 1
    /\ lost' = lost \union {m \in Movements : Owed(m)}
    /\ job' = [h \in Handlers |-> Idle]
    /\ UNCHANGED <<documents, requests, raced>>

-----------------------------------------------------------------------------
Amounts == 1..MaxAmount

Requested(h) ==
    \/ \E l \in Ledgers, m \in Movements, amount \in Amounts, by \in Staff :
           RecordDeposit(h, l, m, amount, by)
    \/ \E l \in Ledgers, amount \in Amounts, by \in Staff :
           RequestDrawdown(h, l, amount, by)
    \/ \E m \in Movements, by \in Staff : AuthoriseDrawdown(h, m, by)
    \/ \E m \in Movements : RejectDrawdown(h, m)

Step(h) ==
    \/ ReadSum(h)
    \/ \E m \in Movements : CreateDrawdown(h, m)
    \/ ApproveDrawdown(h)
    \/ RefuseOverdraw(h)
    \/ WriteRejection(h)
    \/ Post(h)

Next ==
    \/ \E l \in Ledgers : CreateLedger(l)
    \/ \E h \in Handlers : Requested(h) \/ Step(h) \/ Abort(h)
    \/ Restart

Spec == Init /\ [][Next]_vars

-----------------------------------------------------------------------------
(* Properties *)

Settled(m) == movements[m].status \in {"recorded", "approved"}

\* While no two decisions on a ledger overlap, the client's balance never
\* goes below zero: however requests, deposits and faults interleave, the
\* second check in authoriseDrawdown catches what the first one let through.
NoOverdraw == \A l \in Ledgers \ raced : ~Overdrawn(l)

\* The rule as trust.service.ts:173-177 states it, with no such proviso.
NeverOverdrawn == \A l \in Ledgers : ~Overdrawn(l)

\* Money leaves trust, in the movements or in the books, only once somebody
\* other than the preparer has authorised it, whatever races whatever.
DualControl ==
    \A m \in Movements :
        movements[m].status = "approved" \/ posted[m] > 0 \/ Owed(m)
            => \/ movements[m].type = "deposit"
               \/ /\ movements[m].authorisedBy # NoOne
                  /\ movements[m].authorisedBy # movements[m].preparedBy

\* A request about to write a decision still finds the drawdown awaiting one,
\* and is alone in that: what its guards read is not stale when it is used.
DecisionsFresh ==
    \A h \in Handlers, l \in Ledgers \ raced :
        Deciding(h, l) =>
            /\ movements[job[h].m].status = "awaiting"
            /\ \A g \in Handlers : Deciding(g, l) => g = h

Count(P) == IF P THEN 1 ELSE 0

\* Each settled movement is posted exactly once, and no other one is: the
\* posting has been made, or is owed by one request, or fell to a fault.
\* Overlapping decisions on a ledger are left out.
BooksFollow ==
    \A m \in Movements : movements[m].ledger \notin raced =>
        /\ \A g, h \in Handlers : Owes(g, m) /\ Owes(h, m) => g = h
        /\ posted[m] + Count(Owed(m)) + Count(m \in lost) = Count(Settled(m))

\* A decision once written stands, unless two overlapped on that ledger:
\* the status checks of authorise and reject read what a later save ignores.
DecisionsStand ==
    [][\A m \in Movements :
          /\ movements[m].status \in {"approved", "rejected"}
          /\ movements[m].ledger \notin raced
          => movements'[m] = movements[m]]_vars
=============================================================================
