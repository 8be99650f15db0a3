----------------------- MODULE TrustAccounting_proofs -----------------------
(* Proofs about TrustAccounting, for every value of its constants. *)
EXTENDS TrustAccounting, Sums, TLAPS

(***************************************************************************)
(* What the properties need to know of a request in flight and of a        *)
(* document to be inductive: a request names a document that exists, on    *)
(* the ledger it says, and what its guards established about the people.   *)
(***************************************************************************)
RequestOK(h) ==
    /\ job[h].pc = "ask" => job[h].l \in Ledgers /\ job[h].by \in Staff
    /\ job[h].pc \in {"decide", "reject", "post"} =>
           /\ job[h].m \in Movements
           /\ movements[job[h].m].status # "absent"
           /\ movements[job[h].m].ledger = job[h].l
    /\ job[h].pc \in {"decide", "reject"} =>
           movements[job[h].m].type = "drawdown"
    /\ job[h].pc = "decide" =>
           /\ job[h].by \in Staff
           /\ movements[job[h].m].preparedBy # job[h].by

MovementOK(m) ==
    /\ movements[m].status = "absent" =>
           movements[m].ledger = NoLedger /\ posted[m] = 0 /\ m \notin lost
    /\ movements[m].status # "absent" => movements[m].ledger \in Ledgers
    /\ movements[m].status = "awaiting" => movements[m].type = "drawdown"

Grounded == (\A h \in Handlers : RequestOK(h))
                /\ (\A m \in Movements : MovementOK(m))

IInv == TypeOK /\ Grounded /\ DecisionsFresh /\ DualControl /\ BooksFollow

-----------------------------------------------------------------------------
(* What the helpers do *)

LEMMA JobFacts ==
    ASSUME TypeOK, NEW h \in Handlers
    PROVE  /\ job[h] \in Request
           /\ job[h].pc \in {"idle", "ask", "decide", "reject", "post"}
           /\ job[h].m \in Movements \union {NoMovement}
           /\ job[h].l \in Ledgers \union {NoLedger}
           /\ job[h].amount \in Nat /\ job[h].by \in Staff \union {NoOne}
           /\ job[h].unread \in SUBSET {"in", "out"}
           /\ job[h].in \in SUBSET Movements /\ job[h].out \in SUBSET Movements
BY DEF TypeOK, Request

LEMMA IdleFacts == Idle \in Request /\ Idle.pc = "idle"
BY DEF Idle, Request

\* Only handler h moves.
OnlyJob(h) ==
    /\ job' \in [Handlers -> Request]
    /\ \A k \in Handlers \ {h} : job'[k] = job[k]

LEMMA AcceptFacts ==
    ASSUME TypeOK, NEW h \in Handlers, NEW locals \in Request,
           Accept(h, locals)
    PROVE  /\ OnlyJob(h) /\ job'[h] = locals /\ requests' \in Nat
           /\ job[h].pc = "idle"
BY DEF Accept, OnlyJob, TypeOK

LEMMA FinishFacts ==
    ASSUME TypeOK, NEW h \in Handlers, Finish(h)
    PROVE  OnlyJob(h) /\ job'[h].pc = "idle"
BY IdleFacts DEF Finish, OnlyJob, TypeOK

\* Handler h has moved on to pc, and carries what it carried.
Kept(h) ==
    /\ job'[h].m = job[h].m /\ job'[h].l = job[h].l
    /\ job'[h].amount = job[h].amount /\ job'[h].by = job[h].by

LEMMA GotoFacts ==
    ASSUME TypeOK, NEW h \in Handlers, Goto(h, "post")
    PROVE  OnlyJob(h) /\ job'[h].pc = "post" /\ Kept(h)
BY JobFacts DEF Goto, OnlyJob, TypeOK, Request, Kept

LEMMA ReadFacts ==
    ASSUME TypeOK, NEW h \in Handlers, ReadSum(h)
    PROVE  OnlyJob(h) /\ job'[h].pc = job[h].pc /\ Kept(h)
<1>1. In(job[h].l) \in SUBSET Movements /\ Out(job[h].l) \in SUBSET Movements
  BY DEF In, Out
<1>2. job[h].unread \ {"in"} \in SUBSET {"in", "out"}
      /\ job[h].unread \ {"out"} \in SUBSET {"in", "out"}
  BY JobFacts
<1>3. PICK ins \in SUBSET Movements, outs \in SUBSET Movements,
           un \in SUBSET {"in", "out"} :
               job' = [job EXCEPT ![h] = [job[h] EXCEPT !.in = ins,
                                              !.out = outs, !.unread = un]]
  <2>1. CASE job' = [job EXCEPT ![h].in = In(job[h].l),
                                ![h].unread = @ \ {"in"}]
    <3>1. job' = [job EXCEPT ![h] = [job[h] EXCEPT !.in = In(job[h].l),
                     !.out = job[h].out, !.unread = job[h].unread \ {"in"}]]
      BY <2>1, JobFacts DEF Request, TypeOK
    <3> QED BY <1>1, <1>2, <3>1, JobFacts
  <2>2. CASE job' = [job EXCEPT ![h].out = Out(job[h].l),
                                ![h].unread = @ \ {"out"}]
    <3>1. job' = [job EXCEPT ![h] = [job[h] EXCEPT !.in = job[h].in,
                     !.out = Out(job[h].l), !.unread = job[h].unread \ {"out"}]]
      BY <2>2, JobFacts DEF Request, TypeOK
    <3> QED BY <1>1, <1>2, <3>1, JobFacts
  <2> QED BY <2>1, <2>2 DEF ReadSum
<1>4. [job[h] EXCEPT !.in = ins, !.out = outs, !.unread = un] \in Request
  BY JobFacts DEF Request
<1> QED BY <1>3, <1>4, JobFacts DEF OnlyJob, Kept, TypeOK, Request

\* An inserted movement is typed, and no other one changes.
LEMMA InsertFacts ==
    ASSUME TypeOK, NEW m \in Movements, NEW l \in Ledgers,
           NEW type \in {"deposit", "drawdown"},
           NEW status \in {"recorded", "awaiting"}, NEW amount \in Nat,
           NEW by \in Staff, Insert(m, l, type, status, amount, by)
    PROVE  /\ movements[m].status = "absent"
           /\ movements' \in [Movements -> Movement]
           /\ \A k \in Movements \ {m} : movements'[k] = movements[k]
           /\ movements'[m].ledger = l /\ movements'[m].type = type
           /\ movements'[m].status = status
BY DEF Insert, TypeOK, Movement
-----------------------------------------------------------------------------
(* What a step leaves alone stays in order *)

Dual(m) ==
    movements[m].status = "approved" \/ posted[m] > 0 \/ Owed(m)
        => \/ movements[m].type = "deposit"
           \/ /\ movements[m].authorisedBy # NoOne
              /\ movements[m].authorisedBy # movements[m].preparedBy

Books(m) ==
    movements[m].ledger \notin raced =>
        /\ \A g, h \in Handlers : Owes(g, m) /\ Owes(h, m) => g = h
        /\ posted[m] + Count(Owed(m)) + Count(m \in lost) = Count(Settled(m))

LEMMA Unfold ==
    /\ DualControl <=> \A m \in Movements : Dual(m)
    /\ BooksFollow <=> \A m \in Movements : Books(m)
    /\ DualControl' <=> \A m \in Movements : Dual(m)'
    /\ BooksFollow' <=> \A m \in Movements : Books(m)'
BY DEF DualControl, Dual, BooksFollow, Books

\* No document is lost, and none changes ledger, type or preparer.
Stable ==
    \A m \in Movements : movements[m].status # "absent" =>
        /\ movements'[m].status # "absent"
        /\ movements'[m].ledger = movements[m].ledger
        /\ movements'[m].type = movements[m].type
        /\ movements'[m].preparedBy = movements[m].preparedBy

LEMMA OtherOK ==
    ASSUME Stable, NEW k \in Handlers, RequestOK(k), job'[k] = job[k]
    PROVE  RequestOK(k)'
BY DEF RequestOK, Stable

LEMMA GroundedFrame ==
    ASSUME IInv, NEW h \in Handlers, OnlyJob(h), Stable, RequestOK(h)',
           \A m \in Movements : MovementOK(m)'
    PROVE  Grounded'
<1>1. ASSUME NEW k \in Handlers PROVE RequestOK(k)'
  BY OtherOK DEF IInv, Grounded, OnlyJob
<1> QED BY <1>1 DEF Grounded

LEMMA IdleOK ==
    ASSUME NEW h \in Handlers, job'[h].pc = "idle"
    PROVE  RequestOK(h)' /\ \A m : ~Owes(h, m)' /\ \A l : ~Deciding(h, l)'
BY DEF RequestOK, Owes, Deciding

\* Documents untouched stay in order.
LEMMA SameMovementsOK ==
    ASSUME IInv, UNCHANGED <<movements, posted, lost>>
    PROVE  Stable /\ \A m \in Movements : MovementOK(m)'
BY DEF IInv, Grounded, MovementOK, Stable

\* A handler that is not deciding after its step disturbs no decision, if no
\* document that another one is deciding loses its status.
LEMMA FreshFrame ==
    ASSUME IInv, NEW h \in Handlers, OnlyJob(h), UNCHANGED raced,
           \A l : ~Deciding(h, l)',
           \A k \in Handlers \ {h}, l \in Ledgers \ raced :
               Deciding(k, l) /\ movements[job[k].m].status = "awaiting"
                   => movements'[job[k].m].status = "awaiting"
    PROVE  DecisionsFresh'
<1> SUFFICES ASSUME NEW k \in Handlers, NEW l \in Ledgers \ raced,
                    Deciding(k, l)'
             PROVE  /\ movements'[job'[k].m].status = "awaiting"
                    /\ \A g \in Handlers : Deciding(g, l)' => g = k
  BY DEF DecisionsFresh
<1>1. ASSUME NEW g \in Handlers, Deciding(g, l)'
      PROVE  g # h /\ job'[g] = job[g] /\ Deciding(g, l)
  BY <1>1 DEF OnlyJob, Deciding
<1> QED BY <1>1 DEF IInv, DecisionsFresh

\* Movement m is not one that handler h owes a posting, before or after.
Aside(h, m) == ~Owes(h, m) /\ ~Owes(h, m)'

LEMMA OwedFrame ==
    ASSUME NEW h \in Handlers, OnlyJob(h), NEW m, Aside(h, m)
    PROVE  (\A k \in Handlers : Owes(k, m)' <=> Owes(k, m))
               /\ (Owed(m)' <=> Owed(m))
<1>1. ASSUME NEW k \in Handlers PROVE Owes(k, m)' <=> Owes(k, m)
  BY DEF OnlyJob, Owes, Aside
<1> QED BY <1>1 DEF Owed

LEMMA BooksFrame ==
    ASSUME IInv, NEW h \in Handlers, OnlyJob(h), NEW m \in Movements,
           Aside(h, m), movements'[m].ledger = movements[m].ledger,
           Settled(m)' = Settled(m), posted'[m] = posted[m],
           (m \in lost') = (m \in lost), raced \subseteq raced'
    PROVE  Books(m)'
<1>1. Books(m)
  BY Unfold DEF IInv
<1> QED BY <1>1, OwedFrame DEF Books, Count

LEMMA DualFrame ==
    ASSUME IInv, NEW h \in Handlers, OnlyJob(h), NEW m \in Movements,
           Aside(h, m), movements'[m] = movements[m], posted'[m] = posted[m]
    PROVE  Dual(m)'
<1>1. Dual(m)
  BY Unfold DEF IInv
<1> QED BY <1>1, OwedFrame DEF Dual

\* A step that touches no document, and neither owes nor settles a posting.
LEMMA QuietFrame ==
    ASSUME IInv, NEW h \in Handlers, OnlyJob(h), raced \subseteq raced',
           UNCHANGED <<movements, posted, lost>>,
           \A m \in Movements : Aside(h, m)
    PROVE  DualControl' /\ BooksFollow'
<1>1. ASSUME NEW m \in Movements PROVE Dual(m)' /\ Books(m)'
  <2>1. Settled(m)' = Settled(m)
    BY DEF Settled
  <2> QED BY <2>1, DualFrame, BooksFrame
<1> QED BY <1>1, Unfold
-----------------------------------------------------------------------------
(* Every step keeps the invariant *)

\* Nothing refers to a document that does not exist.
LEMMA AbsentFacts ==
    ASSUME IInv, NEW m \in Movements, movements[m].status = "absent"
    PROVE  /\ movements[m].ledger = NoLedger /\ NoLedger \notin raced
           /\ posted[m] = 0 /\ m \notin lost
           /\ ~Owed(m)
           /\ \A k \in Handlers :
                  job[k].pc \in {"decide", "reject", "post"} => job[k].m # m
BY TrustAssumption DEF IInv, TypeOK, Grounded, MovementOK, RequestOK, Owed, Owes

LEMMA LedgerSafe ==
    ASSUME IInv, NEW l \in Ledgers, CreateLedger(l)
    PROVE  IInv'
<1>1. TypeOK'
  BY DEF IInv, TypeOK, CreateLedger
<1>2. Grounded'
  BY DEF IInv, Grounded, RequestOK, MovementOK, CreateLedger
<1>3. UNCHANGED <<movements, posted, job, raced, lost>>
  BY DEF CreateLedger
<1>4. DecisionsFresh'
  BY <1>3 DEF IInv, DecisionsFresh, Deciding
<1>5. ASSUME NEW m \in Movements PROVE Owed(m)' <=> Owed(m)
  BY <1>3 DEF Owed, Owes
<1>6. DualControl'
  BY <1>3, <1>5 DEF IInv, DualControl
<1>7. BooksFollow'
  BY <1>3, <1>5 DEF IInv, BooksFollow, Owes, Settled, Count
<1> QED BY <1>1, <1>2, <1>4, <1>6, <1>7 DEF IInv

LEMMA DepositSafe ==
    ASSUME IInv, NEW h \in Handlers, NEW l \in Ledgers, NEW m \in Movements,
           NEW amount \in Amounts, NEW by \in Staff,
           RecordDeposit(h, l, m, amount, by)
    PROVE  IInv'
<1> DEFINE new == [Idle EXCEPT !.pc = "post", !.m = m, !.l = l,
                               !.amount = amount]
<1>0. amount \in Nat
  BY TrustAssumption DEF Amounts
<1>1. new \in Request /\ new.pc = "post" /\ new.m = m /\ new.l = l
  BY <1>0 DEF Request, Idle
<1>2. OnlyJob(h) /\ job'[h] = new /\ requests' \in Nat /\ job[h].pc = "idle"
  BY <1>1, AcceptFacts DEF RecordDeposit, IInv
<1>3. /\ movements[m].status = "absent"
      /\ movements' \in [Movements -> Movement]
      /\ \A k \in Movements \ {m} : movements'[k] = movements[k]
      /\ movements'[m].ledger = l /\ movements'[m].type = "deposit"
      /\ movements'[m].status = "recorded"
  BY InsertFacts, TrustAssumption DEF RecordDeposit, IInv, Amounts
<1>4. /\ UNCHANGED <<opened, posted, faults, raced, lost>>
  BY DEF RecordDeposit
<1> HIDE DEF new
<1>5. TypeOK'
  BY <1>2, <1>3, <1>4 DEF IInv, TypeOK, OnlyJob
<1>6. Grounded'
  <2>1. Stable
    BY <1>3 DEF Stable
  <2>2. RequestOK(h)'
    BY <1>1, <1>2, <1>3 DEF RequestOK
  <2>3. ASSUME NEW k \in Movements PROVE MovementOK(k)'
    BY <1>3, <1>4 DEF IInv, Grounded, MovementOK
  <2> QED BY <1>2, <2>1, <2>2, <2>3, GroundedFrame
<1>7. DecisionsFresh'
  <2>1. \A k : ~Deciding(h, k)'
    BY <1>1, <1>2 DEF Deciding
  <2>2. \A k \in Handlers \ {h}, ll \in Ledgers \ raced :
            Deciding(k, ll) => movements'[job[k].m] = movements[job[k].m]
    BY <1>3, AbsentFacts DEF Deciding, IInv, Grounded, RequestOK
  <2> QED BY <1>2, <1>4, <2>1, <2>2, FreshFrame
<1>8. ASSUME NEW k \in Movements PROVE Dual(k)' /\ Books(k)'
  <2>1. CASE k = m
    <3>1. \A g \in Handlers : Owes(g, m)' <=> g = h
      BY <1>1, <1>2, <1>3, AbsentFacts DEF Owes, Owed, OnlyJob
    <3>2. Owed(m)' /\ Settled(m)' /\ posted'[m] = 0 /\ m \notin lost'
      BY <3>1, <1>3, <1>4, AbsentFacts DEF Owed, Settled
    <3> QED BY <2>1, <3>1, <3>2, <1>3 DEF Dual, Books, Count
  <2>2. CASE k # m
    <3>1. /\ Aside(h, k) /\ Settled(k)' = Settled(k)
          /\ movements'[k] = movements[k]
      BY <2>2, <1>1, <1>2, <1>3 DEF Aside, Owes, Settled
    <3> QED BY <3>1, <1>2, <1>4, DualFrame, BooksFrame
  <2> QED BY <2>1, <2>2
<1> QED BY <1>5, <1>6, <1>7, <1>8, Unfold DEF IInv

LEMMA CreateDrawdownSafe ==
    ASSUME IInv, NEW h \in Handlers, NEW m \in Movements, CreateDrawdown(h, m)
    PROVE  IInv'
<1>1. OnlyJob(h) /\ job'[h].pc = "idle" /\ job[h].pc = "ask"
  BY FinishFacts DEF CreateDrawdown, IInv
<1>2. job[h].l \in Ledgers /\ job[h].by \in Staff /\ job[h].amount \in Nat
  BY <1>1, JobFacts DEF IInv, Grounded, RequestOK
<1>3. /\ movements[m].status = "absent"
      /\ movements' \in [Movements -> Movement]
      /\ \A k \in Movements \ {m} : movements'[k] = movements[k]
      /\ movements'[m].ledger = job[h].l /\ movements'[m].type = "drawdown"
      /\ movements'[m].status = "awaiting"
  BY <1>2, InsertFacts DEF CreateDrawdown, IInv
<1>4. UNCHANGED <<opened, posted, requests, faults, raced, lost>>
  BY DEF CreateDrawdown
<1>5. TypeOK'
  BY <1>1, <1>3, <1>4 DEF IInv, TypeOK, OnlyJob
<1>6. Grounded'
  <2>1. Stable
    BY <1>3 DEF Stable
  <2>2. ASSUME NEW k \in Movements PROVE MovementOK(k)'
    BY <1>2, <1>3, <1>4 DEF IInv, Grounded, MovementOK
  <2> QED BY <1>1, <2>1, <2>2, IdleOK, GroundedFrame
<1>7. DecisionsFresh'
  <2>1. \A k \in Handlers \ {h}, ll \in Ledgers \ raced :
            Deciding(k, ll) => movements'[job[k].m] = movements[job[k].m]
    BY <1>3, AbsentFacts DEF Deciding, IInv, Grounded, RequestOK
  <2> QED BY <1>1, <1>4, <2>1, IdleOK, FreshFrame
<1>8. ASSUME NEW k \in Movements PROVE Dual(k)' /\ Books(k)'
  <2>1. Aside(h, k)
    BY <1>1 DEF Aside, Owes
  <2>2. CASE k = m
    <3>1. ~Owed(m)' /\ \A g \in Handlers : ~Owes(g, m)'
      BY <2>1, <2>2, <1>1, <1>3, AbsentFacts, OwedFrame DEF Owed
    <3>2. ~Settled(m)' /\ posted'[m] = 0 /\ m \notin lost'
      BY <1>3, <1>4, AbsentFacts DEF Settled
    <3> QED BY <2>2, <3>1, <3>2, <1>3 DEF Dual, Books, Count
  <2>3. CASE k # m
    <3>1. Settled(k)' = Settled(k) /\ movements'[k] = movements[k]
      BY <2>3, <1>3 DEF Settled
    <3> QED BY <2>1, <3>1, <1>1, <1>4, DualFrame, BooksFrame
  <2> QED BY <2>2, <2>3
<1> QED BY <1>5, <1>6, <1>7, <1>8, Unfold DEF IInv

\* A step of h that only reads, or ends h: no posting is owed or settled by it.
LEMMA QuietSafe ==
    ASSUME IInv, NEW h \in Handlers, OnlyJob(h), RequestOK(h)',
           UNCHANGED <<documents, faults, raced, lost>>, requests' \in Nat,
           \A m \in Movements : Aside(h, m), DecisionsFresh'
    PROVE  IInv'
<1>1. UNCHANGED <<opened, movements, posted>>
  BY DEF documents
<1>2. TypeOK'
  BY <1>1 DEF IInv, TypeOK, OnlyJob
<1>3. Grounded'
  BY <1>1, SameMovementsOK, GroundedFrame
<1> QED BY <1>1, <1>2, <1>3, QuietFrame DEF IInv

LEMMA RequestDrawdownSafe ==
    ASSUME IInv, NEW h \in Handlers, NEW l \in Ledgers,
           NEW amount \in Amounts, NEW by \in Staff,
           RequestDrawdown(h, l, amount, by)
    PROVE  IInv'
<1> DEFINE new == [Idle EXCEPT !.pc = "ask", !.l = l, !.amount = amount,
                               !.by = by, !.unread = {"in", "out"}]
<1>0. amount \in Nat
  BY TrustAssumption DEF Amounts
<1>1. new \in Request /\ new.pc = "ask" /\ new.l = l /\ new.by = by
  BY <1>0 DEF Request, Idle
<1>2. OnlyJob(h) /\ job'[h] = new /\ requests' \in Nat /\ job[h].pc = "idle"
  BY <1>1, AcceptFacts DEF RequestDrawdown, IInv
<1> HIDE DEF new
<1>3. RequestOK(h)' /\ \A m : Aside(h, m)
  BY <1>1, <1>2 DEF RequestOK, Aside, Owes
<1>4. \A k : ~Deciding(h, k)'
  BY <1>1, <1>2 DEF Deciding
<1>5. UNCHANGED <<documents, movements, faults, raced, lost>>
  BY DEF RequestDrawdown, documents
<1>6. DecisionsFresh'
  BY <1>2, <1>4, <1>5, FreshFrame
<1> QED BY <1>2, <1>3, <1>5, <1>6, QuietSafe

LEMMA RefuseSafe ==
    ASSUME IInv, NEW h \in Handlers, RefuseOverdraw(h)
    PROVE  IInv'
<1>1. OnlyJob(h) /\ job'[h].pc = "idle" /\ job[h].pc \in {"ask", "decide"}
  BY FinishFacts DEF RefuseOverdraw, IInv
<1>2. RequestOK(h)' /\ (\A l : ~Deciding(h, l)') /\ \A m : Aside(h, m)
  BY <1>1, IdleOK DEF Aside, Owes
<1>3. UNCHANGED <<documents, movements, requests, faults, raced, lost>>
  BY DEF RefuseOverdraw, documents
<1>4. DecisionsFresh'
  BY <1>1, <1>2, <1>3, FreshFrame
<1>5. requests' \in Nat
  BY <1>3 DEF IInv, TypeOK
<1> QED BY <1>1, <1>2, <1>3, <1>4, <1>5, QuietSafe

LEMMA ReadSafe ==
    ASSUME IInv, NEW h \in Handlers, ReadSum(h)
    PROVE  IInv'
<1>1. OnlyJob(h) /\ job'[h].pc = job[h].pc /\ Kept(h)
  BY ReadFacts DEF IInv
<1>2. UNCHANGED <<documents, movements, requests, faults, raced, lost>>
  BY DEF ReadSum, documents
<1>3. RequestOK(h)'
  BY <1>1, <1>2 DEF IInv, Grounded, RequestOK, Kept
<1>4. \A m : Aside(h, m)
  BY <1>1 DEF ReadSum, Aside, Owes
<1>5. ASSUME NEW k \in Handlers, NEW l PROVE Deciding(k, l)' <=> Deciding(k, l)
  BY <1>1 DEF Deciding, OnlyJob, Kept
<1>6. \A k \in Handlers : job'[k].m = job[k].m
  BY <1>1 DEF OnlyJob, Kept
<1>7. DecisionsFresh'
  BY <1>2, <1>5, <1>6 DEF IInv, DecisionsFresh
<1>8. requests' \in Nat
  BY <1>2 DEF IInv, TypeOK
<1> QED BY <1>1, <1>2, <1>3, <1>4, <1>7, <1>8, QuietSafe

\* Taking up a decision on an awaiting movement: alone, or a race is noted.
LEMMA DecisionSafe ==
    ASSUME IInv, NEW h \in Handlers, NEW m \in Movements,
           OnlyJob(h), requests' \in Nat, job[h].pc = "idle",
           job'[h].pc \in {"decide", "reject"}, job'[h].m = m,
           job'[h].l = movements[m].ledger,
           job'[h].pc = "decide" =>
               job'[h].by \in Staff /\ job'[h].by # movements[m].preparedBy,
           movements[m].status = "awaiting",
           NoteRace(h, movements[m].ledger),
           UNCHANGED <<documents, faults, lost>>
    PROVE  IInv'
<1>1. UNCHANGED <<opened, movements, posted>>
  BY DEF documents
<1>2. movements[m].ledger \in Ledgers /\ movements[m].type = "drawdown"
  BY DEF IInv, Grounded, MovementOK
<1>3. raced \subseteq raced' /\ raced' \subseteq Ledgers
  BY <1>2 DEF NoteRace, IInv, TypeOK
<1>4. TypeOK'
  BY <1>1, <1>3 DEF IInv, TypeOK, OnlyJob
<1>5. RequestOK(h)'
  BY <1>1, <1>2 DEF RequestOK
<1>6. Grounded'
  BY <1>1, <1>5, SameMovementsOK, GroundedFrame
<1>7. DecisionsFresh'
  <2> SUFFICES ASSUME NEW k \in Handlers, NEW l \in Ledgers \ raced',
                      Deciding(k, l)'
               PROVE  /\ movements'[job'[k].m].status = "awaiting"
                      /\ \A g \in Handlers : Deciding(g, l)' => g = k
    BY DEF DecisionsFresh
  <2>1. l \in Ledgers \ raced
    BY <1>3
  <2>2. ASSUME NEW g \in Handlers \ {h}
        PROVE  job'[g] = job[g] /\ (Deciding(g, l)' <=> Deciding(g, l))
    BY DEF OnlyJob, Deciding
  <2>3. Deciding(h, l)' => l = movements[m].ledger
    BY DEF Deciding
  <2>4. Deciding(h, l)' => \A g \in Handlers \ {h} : ~Deciding(g, l)
    BY <2>3 DEF NoteRace
  <2>5. CASE k = h
    BY <2>2, <2>4, <2>5, <1>1
  <2>6. CASE k # h
    BY <2>1, <2>2, <2>4, <2>6, <1>1 DEF IInv, DecisionsFresh
  <2> QED BY <2>5, <2>6
<1>8. \A k : Aside(h, k)
  BY DEF Aside, Owes
<1> QED BY <1>1, <1>3, <1>4, <1>6, <1>7, <1>8, QuietFrame DEF IInv

LEMMA AuthoriseSafe ==
    ASSUME IInv, NEW h \in Handlers, NEW m \in Movements, NEW by \in Staff,
           AuthoriseDrawdown(h, m, by)
    PROVE  IInv'
<1> DEFINE new == [Idle EXCEPT !.pc = "decide", !.m = m,
                               !.l = movements[m].ledger,
                               !.amount = movements[m].amount, !.by = by,
                               !.unread = {"in", "out"}]
<1>0. /\ movements[m].ledger \in Ledgers \union {NoLedger}
      /\ movements[m].amount \in Nat
  BY DEF IInv, TypeOK, Movement
<1>1. /\ new \in Request /\ new.pc = "decide" /\ new.m = m /\ new.by = by
      /\ new.l = movements[m].ledger
  BY <1>0 DEF Request, Idle
<1>2. OnlyJob(h) /\ job'[h] = new /\ requests' \in Nat /\ job[h].pc = "idle"
  BY <1>1, AcceptFacts DEF AuthoriseDrawdown, IInv
<1>3. /\ movements[m].status = "awaiting" /\ movements[m].preparedBy # by
      /\ NoteRace(h, movements[m].ledger)
      /\ UNCHANGED <<documents, faults, lost>>
  BY DEF AuthoriseDrawdown, Authorisable
<1> HIDE DEF new
<1> QED BY <1>1, <1>2, <1>3, DecisionSafe

LEMMA RejectSafe ==
    ASSUME IInv, NEW h \in Handlers, NEW m \in Movements, RejectDrawdown(h, m)
    PROVE  IInv'
<1> DEFINE new == [Idle EXCEPT !.pc = "reject", !.m = m,
                               !.l = movements[m].ledger]
<1>0. movements[m].ledger \in Ledgers \union {NoLedger}
  BY DEF IInv, TypeOK, Movement
<1>1. /\ new \in Request /\ new.pc = "reject" /\ new.m = m
      /\ new.l = movements[m].ledger
  BY <1>0 DEF Request, Idle
<1>2. OnlyJob(h) /\ job'[h] = new /\ requests' \in Nat /\ job[h].pc = "idle"
  BY <1>1, AcceptFacts DEF RejectDrawdown, IInv
<1>3. /\ movements[m].status = "awaiting"
      /\ NoteRace(h, movements[m].ledger)
      /\ UNCHANGED <<documents, faults, lost>>
  BY DEF RejectDrawdown
<1> HIDE DEF new
<1> QED BY <1>1, <1>2, <1>3, DecisionSafe

\* A request that writes a decision names a document, with its ledger; unless
\* the ledger was raced on, that is awaiting, and no one else decides it.
LEMMA DecidingFacts ==
    ASSUME IInv, NEW h \in Handlers, job[h].pc \in {"decide", "reject"}
    PROVE  LET m == job[h].m
           IN  /\ m \in Movements
               /\ movements[m].type = "drawdown"
               /\ movements[m].status # "absent"
               /\ movements[m].ledger \in Ledgers
               /\ movements[m].ledger \notin raced =>
                      /\ movements[m].status = "awaiting"
                      /\ \A k \in Handlers :
                             job[k].pc \in {"decide", "reject"} /\ job[k].m = m
                                 => k = h
<1> DEFINE m == job[h].m
<1>1. /\ m \in Movements /\ movements[m].type = "drawdown"
      /\ movements[m].status # "absent" /\ movements[m].ledger = job[h].l
      /\ movements[m].ledger \in Ledgers
  BY DEF IInv, Grounded, RequestOK, MovementOK
<1>2. ASSUME movements[m].ledger \notin raced
      PROVE  movements[m].status = "awaiting"
  BY <1>1, <1>2 DEF IInv, DecisionsFresh, Deciding
<1>3. ASSUME movements[m].ledger \notin raced, NEW k \in Handlers,
             job[k].pc \in {"decide", "reject"}, job[k].m = m
      PROVE  k = h
  <2>1. job[k].l = job[h].l
    BY <1>1, <1>3 DEF IInv, Grounded, RequestOK
  <2> QED BY <1>1, <1>3, <2>1 DEF IInv, DecisionsFresh, Deciding
<1> QED BY <1>1, <1>2, <1>3

\* Writing the decision leaves every other one in flight fresh.
LEMMA DecidedFresh ==
    ASSUME IInv, NEW h \in Handlers, job[h].pc \in {"decide", "reject"},
           OnlyJob(h), UNCHANGED raced, \A l : ~Deciding(h, l)',
           \A m \in Movements \ {job[h].m} : movements'[m] = movements[m]
    PROVE  DecisionsFresh'
<1>1. ASSUME NEW k \in Handlers \ {h}, NEW l \in Ledgers \ raced,
             Deciding(k, l)
      PROVE  movements'[job[k].m] = movements[job[k].m]
  <2>1. /\ job[k].pc \in {"decide", "reject"} /\ job[k].m \in Movements
        /\ movements[job[k].m].ledger = l
    BY <1>1 DEF IInv, Grounded, RequestOK, Deciding
  <2>2. job[k].m # job[h].m
    BY <2>1, DecidingFacts
  <2> QED BY <2>1, <2>2
<1> QED BY <1>1, FreshFrame

LEMMA ApproveSafe ==
    ASSUME IInv, NEW h \in Handlers, ApproveDrawdown(h)
    PROVE  IInv'
<1>1. /\ OnlyJob(h) /\ job'[h].pc = "post" /\ Kept(h) /\ job[h].pc = "decide"
  BY GotoFacts DEF ApproveDrawdown, IInv
<1>0. PICK m \in Movements : m = job[h].m
  BY <1>1, DecidingFacts
<1>2. /\ movements[m].ledger \in Ledgers
      /\ movements[m].ledger = job[h].l /\ movements[m].status # "absent"
      /\ job[h].by \in Staff /\ job[h].by # movements[m].preparedBy
  BY <1>0, <1>1, DecidingFacts DEF IInv, Grounded, RequestOK
<1>3. /\ movements' \in [Movements -> Movement]
      /\ \A k \in Movements \ {m} : movements'[k] = movements[k]
      /\ movements'[m].status = "approved"
      /\ movements'[m].authorisedBy = job[h].by
      /\ movements'[m].ledger = movements[m].ledger
      /\ movements'[m].type = movements[m].type
      /\ movements'[m].preparedBy = movements[m].preparedBy
  BY <1>0, <1>2 DEF ApproveDrawdown, IInv, TypeOK, Movement
<1>4. UNCHANGED <<opened, posted, requests, faults, raced, lost>>
  BY DEF ApproveDrawdown
<1>5. TypeOK'
  BY <1>1, <1>3, <1>4 DEF IInv, TypeOK, OnlyJob
<1>6. Grounded'
  <2>1. Stable
    BY <1>2, <1>3 DEF Stable
  <2>2. RequestOK(h)'
    BY <1>0, <1>1, <1>2, <1>3 DEF RequestOK, Kept
  <2>3. ASSUME NEW k \in Movements PROVE MovementOK(k)'
    BY <1>2, <1>3, <1>4 DEF IInv, Grounded, MovementOK
  <2> QED BY <1>1, <2>1, <2>2, <2>3, GroundedFrame
<1>7. DecisionsFresh'
  BY <1>0, <1>1, <1>3, <1>4, DecidedFresh DEF Deciding
<1>8. ASSUME NEW k \in Movements PROVE Dual(k)' /\ Books(k)'
  <2>1. CASE k = m
    <3>1. Dual(m)'
      BY <1>2, <1>3, TrustAssumption DEF Dual
    <3>2. Books(m)'
      <4> SUFFICES ASSUME movements[m].ledger \notin raced
                   PROVE  Books(m)'
        BY <1>3, <1>4 DEF Books
      <4>1. movements[m].status = "awaiting"
        BY <1>0, <1>1, DecidingFacts
      <4>2. posted[m] = 0 /\ ~Owed(m) /\ m \notin lost
        BY <4>1, <1>2, Unfold DEF IInv, TypeOK, Books, Count, Settled
      <4>3. \A g \in Handlers : Owes(g, m)' <=> g = h
        BY <1>0, <4>2, <1>1 DEF Owed, Owes, OnlyJob, Kept
      <4>4. Owed(m)' /\ Settled(m)' /\ posted'[m] = 0 /\ m \notin lost'
        BY <4>2, <4>3, <1>3, <1>4 DEF Owed, Settled
      <4> QED BY <4>3, <4>4 DEF Books, Count
    <3> QED BY <2>1, <3>1, <3>2
  <2>2. CASE k # m
    <3>1. /\ Aside(h, k) /\ Settled(k)' = Settled(k)
          /\ movements'[k] = movements[k]
      BY <1>0, <2>2, <1>1, <1>3 DEF Aside, Owes, Settled, Kept
    <3> QED BY <3>1, <1>1, <1>4, DualFrame, BooksFrame
  <2> QED BY <2>1, <2>2
<1> QED BY <1>5, <1>6, <1>7, <1>8, Unfold DEF IInv

LEMMA WriteRejectionSafe ==
    ASSUME IInv, NEW h \in Handlers, WriteRejection(h)
    PROVE  IInv'
<1>1. OnlyJob(h) /\ job'[h].pc = "idle" /\ job[h].pc = "reject"
  BY FinishFacts DEF WriteRejection, IInv
<1>0. PICK m \in Movements : m = job[h].m
  BY <1>1, DecidingFacts
<1>2. /\ movements[m].ledger \in Ledgers
      /\ movements[m].status # "absent" /\ movements[m].type = "drawdown"
  BY <1>0, <1>1, DecidingFacts
<1>3. /\ movements' \in [Movements -> Movement]
      /\ \A k \in Movements \ {m} : movements'[k] = movements[k]
      /\ movements'[m].status = "rejected"
      /\ movements'[m].authorisedBy = movements[m].authorisedBy
      /\ movements'[m].ledger = movements[m].ledger
      /\ movements'[m].type = movements[m].type
      /\ movements'[m].preparedBy = movements[m].preparedBy
  BY <1>0, <1>2 DEF WriteRejection, IInv, TypeOK, Movement
<1>4. UNCHANGED <<opened, posted, requests, faults, raced, lost>>
  BY DEF WriteRejection
<1>5. TypeOK'
  BY <1>1, <1>3, <1>4 DEF IInv, TypeOK, OnlyJob
<1>6. Grounded'
  <2>1. Stable
    BY <1>2, <1>3 DEF Stable
  <2>2. ASSUME NEW k \in Movements PROVE MovementOK(k)'
    BY <1>2, <1>3, <1>4 DEF IInv, Grounded, MovementOK
  <2> QED BY <1>1, <2>1, <2>2, IdleOK, GroundedFrame
<1>7. DecisionsFresh'
  BY <1>0, <1>1, <1>3, <1>4, IdleOK, DecidedFresh
<1>8. ASSUME NEW k \in Movements PROVE Dual(k)' /\ Books(k)'
  <2>1. Aside(h, k) /\ (Owed(k)' <=> Owed(k))
    BY <1>1, OwedFrame DEF Aside, Owes
  <2>2. CASE k = m
    <3>1. Dual(m)'
      BY <2>1, <2>2, <1>2, <1>3, <1>4, Unfold DEF IInv, Dual
    <3>2. Books(m)'
      <4> SUFFICES ASSUME movements[m].ledger \notin raced
                   PROVE  Books(m)'
        BY <1>3, <1>4 DEF Books
      <4>1. Settled(m)' = Settled(m)
        BY <1>0, <1>1, <1>3, DecidingFacts DEF Settled
      <4>2. raced \subseteq raced' /\ posted'[m] = posted[m]
            /\ (m \in lost') = (m \in lost)
        BY <1>4
      <4> QED BY <2>1, <2>2, <4>1, <4>2, <1>1, <1>3, BooksFrame
    <3> QED BY <2>2, <3>1, <3>2
  <2>3. CASE k # m
    <3>1. Settled(k)' = Settled(k) /\ movements'[k] = movements[k]
      BY <2>3, <1>3 DEF Settled
    <3> QED BY <2>1, <3>1, <1>1, <1>4, DualFrame, BooksFrame
  <2> QED BY <2>2, <2>3
<1> QED BY <1>5, <1>6, <1>7, <1>8, Unfold DEF IInv

LEMMA PostSafe ==
    ASSUME IInv, NEW h \in Handlers, Post(h)
    PROVE  IInv'
<1>1. OnlyJob(h) /\ job'[h].pc = "idle" /\ job[h].pc = "post"
  BY FinishFacts DEF Post, IInv
<1>0. PICK m \in Movements : m = job[h].m
  BY <1>1 DEF IInv, Grounded, RequestOK
<1>2. movements[m].status # "absent"
  BY <1>0, <1>1 DEF IInv, Grounded, RequestOK
<1>3. /\ posted' \in [Movements -> Nat] /\ posted'[m] = posted[m] + 1
      /\ \A k \in Movements \ {m} : posted'[k] = posted[k]
  BY <1>0, <1>2 DEF Post, IInv, TypeOK
<1>4. UNCHANGED <<opened, movements, requests, faults, raced, lost>>
  BY DEF Post
<1>5. TypeOK'
  BY <1>1, <1>3, <1>4 DEF IInv, TypeOK, OnlyJob
<1>6. Grounded'
  <2>1. Stable
    BY <1>4 DEF Stable
  <2>2. ASSUME NEW k \in Movements PROVE MovementOK(k)'
    BY <1>2, <1>3, <1>4 DEF IInv, Grounded, MovementOK
  <2> QED BY <1>1, <2>1, <2>2, IdleOK, GroundedFrame
<1>7. DecisionsFresh'
  BY <1>1, <1>4, IdleOK, FreshFrame
<1>8. ASSUME NEW k \in Movements PROVE Dual(k)' /\ Books(k)'
  <2>1. CASE k = m
    <3>1. Owes(h, m) /\ Owed(m) /\ Dual(m) /\ Books(m)
      BY <1>0, <1>1, <1>2, Unfold DEF Owes, Owed, IInv
    <3>2. Dual(m)'
      BY <3>1, <1>4 DEF Dual
    <3>3. Books(m)'
      <4> SUFFICES ASSUME movements[m].ledger \notin raced
                   PROVE  Books(m)'
        BY <1>4 DEF Books
      <4>1. \A g \in Handlers : ~Owes(g, m)'
        BY <3>1, <1>1 DEF Books, Owes, OnlyJob
      <4>2. ~Owed(m)'
        BY <4>1 DEF Owed
      <4>3. Settled(m)' = Settled(m)
        BY <1>4 DEF Settled
      <4>4. posted[m] \in Nat
        BY <1>2 DEF IInv, TypeOK
      <4> QED BY <3>1, <4>1, <4>2, <4>3, <4>4, <1>3, <1>4 DEF Books, Count
    <3> QED BY <2>1, <3>2, <3>3
  <2>2. CASE k # m
    <3>1. Aside(h, k) /\ Settled(k)' = Settled(k)
      BY <1>0, <2>2, <1>1, <1>4 DEF Aside, Owes, Settled
    <3> QED BY <2>2, <3>1, <1>1, <1>3, <1>4, DualFrame, BooksFrame
  <2> QED BY <2>1, <2>2
<1> QED BY <1>5, <1>6, <1>7, <1>8, Unfold DEF IInv

LEMMA AbortSafe ==
    ASSUME IInv, NEW h \in Handlers, Abort(h)
    PROVE  IInv'
<1>1. OnlyJob(h) /\ job'[h].pc = "idle"
  BY FinishFacts DEF Abort, IInv
<1>2. UNCHANGED <<opened, movements, posted, requests, raced>>
  BY DEF Abort, documents
<1>3. /\ lost' = lost \union {m \in Movements : Owes(h, m)}
      /\ faults' = faults + 1
  BY DEF Abort
<1>4. TypeOK'
  BY <1>1, <1>2, <1>3 DEF IInv, TypeOK, OnlyJob
<1>5. Grounded'
  <2>1. Stable
    BY <1>2 DEF Stable
  <2>2. ASSUME NEW m \in Movements PROVE MovementOK(m)'
    <3>1. Owes(h, m) => movements[m].status # "absent"
      BY DEF Owes, IInv, Grounded, RequestOK
    <3> QED BY <3>1, <1>2, <1>3 DEF IInv, Grounded, MovementOK
  <2> QED BY <1>1, <2>1, <2>2, IdleOK, GroundedFrame
<1>6. DecisionsFresh'
  BY <1>1, <1>2, IdleOK, FreshFrame
<1>7. ASSUME NEW m \in Movements PROVE Dual(m)' /\ Books(m)'
  <2>1. Settled(m)' = Settled(m)
    BY <1>2 DEF Settled
  <2>2. CASE ~Owes(h, m)
    <3>1. Aside(h, m)
      BY <2>2, <1>1, IdleOK DEF Aside
    <3>2. (m \in lost') = (m \in lost)
      BY <2>2, <1>3
    <3> QED BY <2>1, <3>1, <3>2, <1>1, <1>2, DualFrame, BooksFrame
  <2>3. CASE Owes(h, m)
    <3>1. Owed(m) /\ Dual(m) /\ Books(m) /\ m \in lost'
      BY <2>3, <1>3, Unfold DEF Owed, IInv
    <3>2. Dual(m)'
      BY <3>1, <1>2 DEF Dual
    <3>3. Books(m)'
      <4> SUFFICES ASSUME movements[m].ledger \notin raced
                   PROVE  Books(m)'
        BY <1>2 DEF Books
      <4>1. \A g \in Handlers : ~Owes(g, m)'
        BY <2>3, <3>1, <1>1 DEF Books, Owes, OnlyJob
      <4>2. ~Owed(m)' /\ posted[m] \in Nat
        BY <4>1 DEF Owed, IInv, TypeOK
      <4> QED BY <2>1, <3>1, <4>1, <4>2, <1>2 DEF Books, Count
    <3> QED BY <3>2, <3>3
  <2> QED BY <2>2, <2>3
<1> QED BY <1>4, <1>5, <1>6, <1>7, Unfold DEF IInv

LEMMA RestartSafe ==
    ASSUME IInv, Restart
    PROVE  IInv'
<1>1. /\ UNCHANGED <<opened, movements, posted, requests, raced>>
      /\ faults' = faults + 1
      /\ lost' = lost \union {m \in Movements : Owed(m)}
      /\ job' = [h \in Handlers |-> Idle]
  BY DEF Restart, documents
<1>2. \A h \in Handlers : job'[h].pc = "idle"
  BY <1>1, IdleFacts
<1>3. TypeOK'
  BY <1>1, IdleFacts DEF IInv, TypeOK
<1>4. Grounded'
  <2>1. ASSUME NEW m \in Movements PROVE MovementOK(m)'
    <3>1. Owed(m) => movements[m].status # "absent"
      BY DEF Owed, Owes, IInv, Grounded, RequestOK
    <3> QED BY <3>1, <1>1 DEF IInv, Grounded, MovementOK
  <2> QED BY <2>1, <1>2, IdleOK DEF Grounded
<1>5. DecisionsFresh'
  BY <1>2 DEF DecisionsFresh, Deciding
<1>6. ASSUME NEW m \in Movements PROVE Dual(m)' /\ Books(m)'
  <2>1. Dual(m) /\ Books(m) /\ posted[m] \in Nat
    BY Unfold DEF IInv, TypeOK
  <2>2. ~Owed(m)' /\ \A h \in Handlers : ~Owes(h, m)'
    BY <1>2 DEF Owed, Owes
  <2>3. Settled(m)' = Settled(m)
    BY <1>1 DEF Settled
  <2> QED BY <1>1, <2>1, <2>2, <2>3 DEF Dual, Books, Count, Settled
<1> QED BY <1>3, <1>4, <1>5, <1>6, Unfold DEF IInv

LEMMA InitIInv == Init => IInv
<1> SUFFICES ASSUME Init PROVE IInv
  OBVIOUS
<1>1. NewMovement \in Movement /\ NewMovement.status = "absent"
      /\ NewMovement.ledger = NoLedger
  BY DEF NewMovement, Movement
<1>2. /\ \A m \in Movements : movements[m] = NewMovement /\ posted[m] = 0
      /\ \A h \in Handlers : job[h].pc = "idle"
      /\ lost = {}
  BY IdleFacts DEF Init
<1>3. TypeOK
  BY <1>1, IdleFacts DEF Init, TypeOK
<1>4. Grounded
  BY <1>1, <1>2 DEF Grounded, RequestOK, MovementOK
<1>5. DecisionsFresh
  BY <1>2 DEF DecisionsFresh, Deciding
<1>6. ASSUME NEW m \in Movements PROVE Dual(m) /\ Books(m)
  <2>1. ~Owed(m) /\ \A h \in Handlers : ~Owes(h, m)
    BY <1>2 DEF Owed, Owes
  <2>2. ~Settled(m) /\ movements[m].status # "approved"
    BY <1>1, <1>2 DEF Settled
  <2> QED BY <1>2, <2>1, <2>2 DEF Dual, Books, Count
<1> QED BY <1>3, <1>4, <1>5, <1>6, Unfold DEF IInv

LEMMA NextIInv == IInv /\ [Next]_vars => IInv'
<1> SUFFICES ASSUME IInv, [Next]_vars PROVE IInv'
  OBVIOUS
<1>1. ASSUME NEW h \in Handlers, Requested(h) PROVE IInv'
  BY <1>1, DepositSafe, RequestDrawdownSafe, AuthoriseSafe, RejectSafe
     DEF Requested
<1>2. ASSUME NEW h \in Handlers, Step(h) PROVE IInv'
  BY <1>2, ReadSafe, CreateDrawdownSafe, ApproveSafe, RefuseSafe,
     WriteRejectionSafe, PostSafe DEF Step
<1>3. CASE UNCHANGED vars
  <2>1. UNCHANGED <<opened, movements, posted, job, requests, faults, raced,
                    lost>>
    BY <1>3 DEF vars
  <2>2. TypeOK' /\ Grounded'
    BY <2>1 DEF IInv, TypeOK, Grounded, RequestOK, MovementOK
  <2>3. DecisionsFresh'
    BY <2>1 DEF IInv, DecisionsFresh, Deciding
  <2>4. ASSUME NEW m \in Movements PROVE Owed(m)' <=> Owed(m)
    BY <2>1 DEF Owed, Owes
  <2>5. DualControl'
    BY <2>1, <2>4 DEF IInv, DualControl
  <2>6. BooksFollow'
    BY <2>1, <2>4 DEF IInv, BooksFollow, Owes, Settled, Count
  <2> QED BY <2>2, <2>3, <2>5, <2>6 DEF IInv
<1> QED BY <1>1, <1>2, <1>3, LedgerSafe, AbortSafe, RestartSafe DEF Next

-----------------------------------------------------------------------------
(* The theorems *)

\* Every variable keeps its type, whatever requests and faults do.
THEOREM TypeCorrect == Spec => []TypeOK
<1>1. IInv => TypeOK
  BY DEF IInv
<1> QED BY InitIInv, NextIInv, <1>1, PTL DEF Spec

\* No drawdown is approved, owed a posting or posted unless somebody other
\* than its preparer authorised it: authoriseDrawdown compares the two names
\* before it reads the balance, and nothing rewrites either name afterwards.
THEOREM DrawdownsDualControlled == Spec => []DualControl
<1>1. IInv => DualControl
  BY DEF IInv
<1> QED BY InitIInv, NextIInv, <1>1, PTL DEF Spec

\* While decisions on a ledger do not overlap, the status check of authorise
\* and reject still holds when their save comes.
THEOREM DecisionsAreFresh == Spec => []DecisionsFresh
<1>1. IInv => DecisionsFresh
  BY DEF IInv
<1> QED BY InitIInv, NextIInv, <1>1, PTL DEF Spec

\* Each movement that counts reaches the books once, but for the postings a
\* fault has cut off, on every ledger whose decisions did not overlap.
THEOREM BooksFollowMovements == Spec => []BooksFollow
<1>1. IInv => BooksFollow
  BY DEF IInv
<1> QED BY InitIInv, NextIInv, <1>1, PTL DEF Spec

\* A document, once there, is rewritten only by the request that decides it.
LEMMA Rewriters ==
    ASSUME IInv, [Next]_vars, NEW m \in Movements,
           movements[m].status # "absent"
    PROVE  \/ movements'[m] = movements[m]
           \/ \E h \in Handlers :
                  job[h].pc \in {"decide", "reject"} /\ job[h].m = m
<1>1. CASE UNCHANGED movements
  BY <1>1
<1>2. ASSUME NEW k \in Movements, NEW l, NEW type, NEW status, NEW amount,
             NEW by, Insert(k, l, type, status, amount, by)
      PROVE  movements'[m] = movements[m]
  BY <1>2 DEF Insert, IInv, TypeOK
<1>3. ASSUME NEW h \in Handlers, ApproveDrawdown(h) \/ WriteRejection(h),
             job[h].m # m
      PROVE  movements'[m] = movements[m]
  BY <1>3 DEF ApproveDrawdown, WriteRejection, IInv, TypeOK
<1>4. ASSUME NEW h \in Handlers, Requested(h)
      PROVE  UNCHANGED movements \/ \E k \in Movements, l \in Ledgers,
                 amount \in Amounts, by \in Staff :
                 Insert(k, l, "deposit", "recorded", amount, by)
  BY <1>4 DEF Requested, RecordDeposit, RequestDrawdown, AuthoriseDrawdown,
              RejectDrawdown, documents
<1>5. ASSUME NEW h \in Handlers, Step(h)
      PROVE  \/ UNCHANGED movements
             \/ \E k \in Movements : Insert(k, job[h].l, "drawdown",
                                       "awaiting", job[h].amount, job[h].by)
             \/ ApproveDrawdown(h) \/ WriteRejection(h)
  BY <1>5 DEF Step, ReadSum, CreateDrawdown, RefuseOverdraw, Post, documents
<1>6. ASSUME NEW h \in Handlers, ApproveDrawdown(h) \/ WriteRejection(h)
      PROVE  job[h].pc \in {"decide", "reject"}
  BY <1>6 DEF ApproveDrawdown, WriteRejection
<1>7. CASE \E h \in Handlers : Requested(h)
  BY <1>1, <1>2, <1>4, <1>7
<1>8. CASE \E h \in Handlers : Step(h)
  BY <1>1, <1>2, <1>3, <1>5, <1>6, <1>8
<1>9. CASE \/ \E l \in Ledgers : CreateLedger(l)
           \/ \E h \in Handlers : Abort(h)
           \/ Restart
           \/ UNCHANGED vars
  BY <1>1, <1>9 DEF CreateLedger, Abort, Restart, documents, vars
<1> QED BY <1>7, <1>8, <1>9 DEF Next

\* What was approved stays approved, with its authoriser, and what was
\* rejected stays rejected, on every ledger whose decisions never overlapped.
THEOREM DecisionsAreFinal == Spec => DecisionsStand
<1>1. ASSUME IInv, [Next]_vars
      PROVE  \A m \in Movements :
                 /\ movements[m].status \in {"approved", "rejected"}
                 /\ movements[m].ledger \notin raced
                 => movements'[m] = movements[m]
  <2> SUFFICES ASSUME NEW m \in Movements,
                      movements[m].status \in {"approved", "rejected"},
                      movements[m].ledger \notin raced
               PROVE  movements'[m] = movements[m]
    OBVIOUS
  <2>1. ASSUME NEW h \in Handlers, job[h].pc \in {"decide", "reject"},
               job[h].m = m
        PROVE  FALSE
    BY <1>1, <2>1, DecidingFacts
  <2> QED BY <1>1, <2>1, Rewriters
<1> QED BY InitIInv, NextIInv, <1>1, PTL DEF Spec, DecisionsStand

-----------------------------------------------------------------------------
(* The balance *)

(***************************************************************************)
(* What a decision on a ledger relies on when nobody else decides on it:   *)
(* it carries the amount of its drawdown; the deposits it has added up are *)
(* still there, and the drawdowns it has added up are all that were        *)
(* approved.  Then the check at its end speaks of the balance of now.      *)
(***************************************************************************)
Backed(h) == LET r == job[h] IN
    r.pc = "decide" /\ r.l \notin raced =>
        /\ r.amount = movements[r.m].amount
        /\ "in" \notin r.unread => r.in \subseteq In(r.l)
        /\ "out" \notin r.unread => r.out = Out(r.l)

Funded ==
    /\ \A h \in Handlers : Backed(h)
    /\ \A l \in Ledgers \ raced : Sum(Out(l)) <= Sum(In(l))

LEMMA SumTyped == ASSUME IInv, NEW S \in SUBSET Movements PROVE Sum(S) \in Nat
<1> DEFINE f == [m \in Movements |-> movements[m].amount]
<1>1. IsFiniteSet(S)
  BY TrustAssumption, FS_Subset
<1>2. \A m \in S : f[m] \in Nat
  BY DEF IInv, TypeOK, Movement
<1> HIDE DEF f
<1>3. SumFunctionOnSet(f, S) \in Nat
  BY <1>1, <1>2, SumNat
<1> QED
  BY <1>3 DEF Sum, f

LEMMA SumGrows ==
    ASSUME IInv, NEW S \in SUBSET Movements, NEW T \in SUBSET S
    PROVE  Sum(T) <= Sum(S)
<1> DEFINE f == [m \in Movements |-> movements[m].amount]
<1>1. IsFiniteSet(S)
  BY TrustAssumption, FS_Subset
<1>2. \A m \in S : f[m] \in Nat
  BY DEF IInv, TypeOK, Movement
<1> HIDE DEF f
<1>3. SumFunctionOnSet(f, T) <= SumFunctionOnSet(f, S)
  BY <1>1, <1>2, SumMonotone
<1> QED
  BY <1>3 DEF Sum, f

LEMMA SumOneMore ==
    ASSUME IInv, NEW S \in SUBSET Movements, NEW m \in Movements, m \notin S
    PROVE  Sum(S \union {m}) = movements[m].amount + Sum(S)
<1> DEFINE f == [k \in Movements |-> movements[k].amount]
<1>1. IsFiniteSet(S)
  BY TrustAssumption, FS_Subset
<1>2. \A k \in S \union {m} : f[k] \in Int
  BY DEF IInv, TypeOK, Movement
<1>3. f[m] = movements[m].amount
  OBVIOUS
<1> HIDE DEF f
<1>4. SumFunctionOnSet(f, S \union {m}) = f[m] + SumFunctionOnSet(f, S)
  BY <1>1, <1>2, SumAdd
<1> QED
  BY <1>3, <1>4 DEF Sum, f

LEMMA SumStays ==
    ASSUME NEW S \in SUBSET Movements,
           \A m \in S : movements'[m].amount = movements[m].amount
    PROVE  Sum(S)' = Sum(S)
<1> DEFINE f == [k \in Movements |-> movements[k].amount]
           g == [k \in Movements |-> movements'[k].amount]
<1>1. IsFiniteSet(S)
  BY TrustAssumption, FS_Subset
<1>2. \A m \in S : f[m] = g[m]
  OBVIOUS
<1> HIDE DEF f, g
<1>3. SumFunctionOnSet(f, S) = SumFunctionOnSet(g, S)
  BY <1>1, <1>2, SumSame
<1> QED
  BY <1>3 DEF Sum, f, g

LEMMA SumGrowsNext ==
    (IInv => \A S \in SUBSET Movements : \A T \in SUBSET S : Sum(T) <= Sum(S))'
<1>1. IInv => \A S \in SUBSET Movements : \A T \in SUBSET S : Sum(T) <= Sum(S)
  BY SumGrows
<1> QED
  BY <1>1, PTL

LEMMA SumOneMoreNext ==
    (IInv => \A S \in SUBSET Movements, m \in Movements : m \notin S =>
                 Sum(S \union {m}) = movements[m].amount + Sum(S))'
<1>1. IInv => \A S \in SUBSET Movements, m \in Movements : m \notin S =>
                 Sum(S \union {m}) = movements[m].amount + Sum(S)
  BY SumOneMore
<1> QED
  BY <1>1, PTL

\* On ledger l, deposits may have come in, and nothing has gone out.
Holds(l) ==
    /\ In(l) \subseteq In(l)' /\ Out(l)' = Out(l)
    /\ Sum(In(l)) <= Sum(In(l))' /\ Sum(Out(l))' = Sum(Out(l))

LEMMA HoldsIf ==
    ASSUME IInv, IInv', NEW l, In(l) \subseteq In(l)', Out(l)' = Out(l),
           \A m \in In(l) \union Out(l) :
               movements'[m].amount = movements[m].amount
    PROVE  Holds(l)
<1>1. /\ In(l) \in SUBSET Movements /\ Out(l) \in SUBSET Movements
      /\ In(l)' \in SUBSET Movements
  BY DEF In, Out
<1>2. PICK ins, outs, insNow \in SUBSET Movements :
          ins = In(l) /\ outs = Out(l) /\ insNow = In(l)'
  BY <1>1
<1>3. Sum(ins)' = Sum(ins) /\ Sum(outs)' = Sum(outs)
  BY <1>2, SumStays
<1>4. Sum(ins)' <= Sum(insNow)'
  <2>1. ins \in SUBSET insNow
    BY <1>2
  <2> QED
    BY <2>1, SumGrowsNext
<1>5. Sum(In(l))' = Sum(insNow)' /\ Sum(Out(l))' = Sum(outs)'
  BY <1>2 DEF Sum
<1> QED
  BY <1>2, <1>3, <1>4, <1>5 DEF Holds

LEMMA SameHolds ==
    ASSUME IInv, IInv', movements' = movements, NEW l PROVE Holds(l)
<1>1. In(l)' = In(l) /\ Out(l)' = Out(l)
  BY DEF In, Out
<1> QED
  BY <1>1, HoldsIf

\* A document that did not exist is inserted: a deposit counts, and a drawdown
\* does not yet.
LEMMA InsertHolds ==
    ASSUME IInv, IInv', NEW m \in Movements, movements[m].status = "absent",
           \A k \in Movements \ {m} : movements'[k] = movements[k],
           movements'[m].status \in {"recorded", "awaiting"}, NEW l
    PROVE  Holds(l)
<1>1. In(l) \subseteq In(l)' /\ Out(l)' = Out(l)
  BY DEF In, Out
<1>2. m \notin In(l) \union Out(l)
  BY DEF In, Out
<1>3. In(l) \union Out(l) \subseteq Movements
  BY DEF In, Out
<1> QED
  BY <1>1, <1>2, <1>3, HoldsIf

\* A drawdown that awaits a decision is rejected, or one on another ledger
\* decided.
LEMMA DecidedHolds ==
    ASSUME IInv, IInv', NEW m \in Movements, NEW l,
           \A k \in Movements \ {m} : movements'[k] = movements[k],
           movements'[m].ledger = movements[m].ledger,
           movements'[m].amount = movements[m].amount,
           movements'[m].type = movements[m].type,
           movements[m].type = "drawdown",
           movements[m].ledger = l => /\ movements[m].status # "approved"
                                      /\ movements'[m].status # "approved"
    PROVE  Holds(l)
<1>1. In(l) \subseteq In(l)' /\ Out(l)' = Out(l)
  BY DEF In, Out
<1>2. In(l) \union Out(l) \subseteq Movements
  BY DEF In, Out
<1> QED
  BY <1>1, <1>2, HoldsIf

\* What handler k carries into its decision stays backed while k is idle.
LEMMA BackedStays ==
    ASSUME IInv, NEW k \in Handlers, Backed(k), job'[k] = job[k],
           raced \subseteq raced',
           job[k].pc = "decide" /\ job[k].l \notin raced' => Holds(job[k].l),
           job[k].pc = "decide" /\ job[k].l \notin raced' =>
               movements'[job[k].m].amount = movements[job[k].m].amount
    PROVE  Backed(k)'
<1> SUFFICES ASSUME job[k].pc = "decide", job[k].l \notin raced'
             PROVE  Backed(k)'
  BY DEF Backed
<1>1. PICK l : l = job[k].l
  OBVIOUS
<1>2. /\ l \notin raced /\ In(l) \subseteq In(l)' /\ Out(l)' = Out(l)
  BY <1>1 DEF Holds
<1>3. /\ job[k].amount = movements[job[k].m].amount
      /\ "in" \notin job[k].unread => job[k].in \subseteq In(l)
      /\ "out" \notin job[k].unread => job[k].out = Out(l)
  BY <1>1, <1>2 DEF Backed
<1>4. In(job[k].l)' = In(l)' /\ Out(job[k].l)' = Out(l)'
  BY <1>1 DEF In, Out
<1> QED
  BY <1>2, <1>3, <1>4 DEF Backed

LEMMA SumTypedNext ==
    (IInv => \A S \in SUBSET Movements : Sum(S) \in Nat)'
<1>1. IInv => \A S \in SUBSET Movements : Sum(S) \in Nat
  BY SumTyped
<1> QED
  BY <1>1, PTL

LEMMA NotDeciding ==
    ASSUME NEW h \in Handlers, job'[h].pc # "decide" PROVE Backed(h)'
BY DEF Backed

\* A document that a decision is about keeps its amount.
LEMMA BackedOthers ==
    ASSUME IInv, IInv', Funded, NEW h \in Handlers, OnlyJob(h), Backed(h)',
           raced \subseteq raced', \A l \in Ledgers \ raced' : Holds(l),
           \A m \in Movements : movements[m].status # "absent" =>
               movements'[m].amount = movements[m].amount
    PROVE  Funded'
<1>1. ASSUME NEW k \in Handlers PROVE Backed(k)'
  <2>1. CASE k = h
    BY <2>1
  <2>2. CASE k # h
    <3>1. job[k].pc = "decide" =>
              /\ job[k].m \in Movements
              /\ movements[job[k].m].status # "absent"
              /\ job[k].l \in Ledgers
      BY DEF IInv, Grounded, RequestOK, MovementOK
    <3>2. job'[k] = job[k] /\ Backed(k)
      BY <2>2 DEF OnlyJob, Funded
    <3> QED
      BY <3>1, <3>2, BackedStays
  <2> QED
    BY <2>1, <2>2
<1>2. ASSUME NEW l \in Ledgers \ raced' PROVE (Sum(Out(l)) <= Sum(In(l)))'
  <2>1. Sum(Out(l)) <= Sum(In(l))
    BY DEF Funded
  <2>2. /\ Sum(In(l)) <= Sum(In(l))' /\ Sum(Out(l))' = Sum(Out(l))
    BY DEF Holds
  <2>3. PICK out, in \in Nat : out = Sum(Out(l)) /\ in = Sum(In(l))
    <3>1. In(l) \in SUBSET Movements /\ Out(l) \in SUBSET Movements
      BY DEF In, Out
    <3> QED
      BY <3>1, SumTyped
  <2>4. PICK later \in Nat : later = Sum(In(l))'
    <3>1. In(l)' \in SUBSET Movements
      BY DEF In
    <3> QED
      BY <3>1, SumTypedNext DEF Sum
  <2> QED
    BY <2>1, <2>2, <2>3, <2>4
<1> QED
  BY <1>1, <1>2 DEF Funded

-----------------------------------------------------------------------------
(* Every step keeps the ledgers funded *)

LEMMA InsertFunds ==
    ASSUME IInv, IInv', Funded, NEW h \in Handlers, OnlyJob(h),
           job'[h].pc # "decide", raced' = raced,
           NEW m \in Movements, movements[m].status = "absent",
           \A k \in Movements \ {m} : movements'[k] = movements[k],
           movements'[m].status \in {"recorded", "awaiting"}
    PROVE  Funded'
<1>1. \A l \in Ledgers : Holds(l)
  BY InsertHolds
<1>2. Backed(h)'
  BY NotDeciding
<1> QED
  BY <1>1, <1>2, BackedOthers

LEMMA QuietFunds ==
    ASSUME IInv, IInv', Funded, NEW h \in Handlers, OnlyJob(h), Backed(h)',
           raced \subseteq raced', movements' = movements
    PROVE  Funded'
<1>1. \A l \in Ledgers : Holds(l)
  BY SameHolds
<1> QED
  BY <1>1, BackedOthers

LEMMA DepositFunds ==
    ASSUME IInv, IInv', Funded, NEW h \in Handlers, NEW l \in Ledgers,
           NEW m \in Movements, NEW amount \in Amounts, NEW by \in Staff,
           RecordDeposit(h, l, m, amount, by)
    PROVE  Funded'
<1> DEFINE new == [Idle EXCEPT !.pc = "post", !.m = m, !.l = l,
                               !.amount = amount]
<1>0. amount \in Nat
  BY TrustAssumption DEF Amounts
<1>1. new \in Request /\ new.pc = "post"
  BY <1>0 DEF Request, Idle
<1>2. OnlyJob(h) /\ job'[h] = new
  BY <1>1, AcceptFacts DEF RecordDeposit, IInv
<1>3. /\ movements[m].status = "absent"
      /\ \A k \in Movements \ {m} : movements'[k] = movements[k]
      /\ movements'[m].status = "recorded" /\ raced' = raced
  BY <1>0, InsertFacts DEF RecordDeposit, IInv
<1> HIDE DEF new
<1> QED
  BY <1>1, <1>2, <1>3, InsertFunds

LEMMA CreateDrawdownFunds ==
    ASSUME IInv, IInv', Funded, NEW h \in Handlers, NEW m \in Movements,
           CreateDrawdown(h, m)
    PROVE  Funded'
<1>1. OnlyJob(h) /\ job'[h].pc = "idle" /\ job[h].pc = "ask"
  BY FinishFacts DEF CreateDrawdown, IInv
<1>2. job[h].l \in Ledgers /\ job[h].by \in Staff /\ job[h].amount \in Nat
  BY <1>1, JobFacts DEF IInv, Grounded, RequestOK
<1>3. /\ movements[m].status = "absent"
      /\ \A k \in Movements \ {m} : movements'[k] = movements[k]
      /\ movements'[m].status = "awaiting" /\ raced' = raced
  BY <1>2, InsertFacts DEF CreateDrawdown, IInv
<1> QED
  BY <1>1, <1>3, InsertFunds

LEMMA RequestFunds ==
    ASSUME IInv, IInv', Funded, NEW h \in Handlers, Requested(h)
    PROVE  Funded'
<1>1. ASSUME NEW l \in Ledgers, NEW amount \in Amounts, NEW by \in Staff,
             RequestDrawdown(h, l, amount, by)
      PROVE  Funded'
  <2> DEFINE new == [Idle EXCEPT !.pc = "ask", !.l = l, !.amount = amount,
                                 !.by = by, !.unread = {"in", "out"}]
  <2>0. amount \in Nat
    BY TrustAssumption DEF Amounts
  <2>1. new \in Request /\ new.pc = "ask"
    BY <2>0 DEF Request, Idle
  <2>2. OnlyJob(h) /\ job'[h] = new /\ movements' = movements /\ raced' = raced
    BY <1>1, <2>1, AcceptFacts DEF RequestDrawdown, IInv, documents
  <2> HIDE DEF new
  <2>3. Backed(h)'
    BY <2>1, <2>2, NotDeciding
  <2> QED
    BY <2>2, <2>3, QuietFunds
<1>2. ASSUME NEW m \in Movements, NEW by \in Staff, AuthoriseDrawdown(h, m, by)
      PROVE  Funded'
  <2> DEFINE new == [Idle EXCEPT !.pc = "decide", !.m = m,
                                 !.l = movements[m].ledger,
                                 !.amount = movements[m].amount, !.by = by,
                                 !.unread = {"in", "out"}]
  <2>0. /\ movements[m].ledger \in Ledgers \union {NoLedger}
        /\ movements[m].amount \in Nat
    BY DEF IInv, TypeOK, Movement
  <2>1. /\ new \in Request /\ new.amount = movements[m].amount /\ new.m = m
        /\ new.unread = {"in", "out"}
    BY <2>0 DEF Request, Idle
  <2>2. /\ OnlyJob(h) /\ job'[h] = new /\ movements' = movements
        /\ raced \subseteq raced'
    BY <1>2, <2>1, AcceptFacts DEF AuthoriseDrawdown, IInv, documents, NoteRace
  <2> HIDE DEF new
  <2>3. Backed(h)'
    BY <2>1, <2>2 DEF Backed
  <2> QED
    BY <2>2, <2>3, QuietFunds
<1>3. ASSUME NEW m \in Movements, RejectDrawdown(h, m)
      PROVE  Funded'
  <2> DEFINE new == [Idle EXCEPT !.pc = "reject", !.m = m,
                                 !.l = movements[m].ledger]
  <2>0. movements[m].ledger \in Ledgers \union {NoLedger}
    BY DEF IInv, TypeOK, Movement
  <2>1. new \in Request /\ new.pc = "reject"
    BY <2>0 DEF Request, Idle
  <2>2. /\ OnlyJob(h) /\ job'[h] = new /\ movements' = movements
        /\ raced \subseteq raced'
    BY <1>3, <2>1, AcceptFacts DEF RejectDrawdown, IInv, documents, NoteRace
  <2> HIDE DEF new
  <2>3. Backed(h)'
    BY <2>1, <2>2, NotDeciding
  <2> QED
    BY <2>2, <2>3, QuietFunds
<1> QED
  BY <1>1, <1>2, <1>3, DepositFunds DEF Requested

LEMMA ReadFunds ==
    ASSUME IInv, IInv', Funded, NEW h \in Handlers, ReadSum(h)
    PROVE  Funded'
<1>1. OnlyJob(h) /\ job'[h].pc = job[h].pc /\ Kept(h)
  BY ReadFacts DEF IInv
<1>2. movements' = movements /\ raced' = raced
  BY DEF ReadSum, documents
<1>3. PICK r \in Request : r = job[h] /\ job'[h].m = r.m /\ job'[h].l = r.l
                           /\ job'[h].amount = r.amount
  BY <1>1, JobFacts DEF IInv, Kept
<1>4. \/ /\ job'[h].in = In(r.l) /\ job'[h].out = r.out
         /\ job'[h].unread = r.unread \ {"in"}
      \/ /\ job'[h].in = r.in /\ job'[h].out = Out(r.l)
         /\ job'[h].unread = r.unread \ {"out"}
  <2>1. CASE job' = [job EXCEPT ![h].in = In(job[h].l),
                                ![h].unread = @ \ {"in"}]
    <3>1. job'[h] = [job[h] EXCEPT !.in = In(r.l), !.unread = r.unread \ {"in"}]
      BY <2>1, <1>3 DEF IInv, TypeOK, Request
    <3> QED
      BY <3>1, <1>3 DEF Request
  <2>2. CASE job' = [job EXCEPT ![h].out = Out(job[h].l),
                                ![h].unread = @ \ {"out"}]
    <3>1. job'[h] = [job[h] EXCEPT !.out = Out(r.l),
                                   !.unread = r.unread \ {"out"}]
      BY <2>2, <1>3 DEF IInv, TypeOK, Request
    <3> QED
      BY <3>1, <1>3 DEF Request
  <2> QED
    BY <2>1, <2>2 DEF ReadSum
<1>5. Backed(h)'
  <2> SUFFICES ASSUME job'[h].pc = "decide", r.l \notin raced
               PROVE  /\ r.amount = movements'[r.m].amount
                      /\ "in" \notin job'[h].unread =>
                             job'[h].in \subseteq In(r.l)'
                      /\ "out" \notin job'[h].unread => job'[h].out = Out(r.l)'
    BY <1>2, <1>3 DEF Backed, In, Out
  <2>1. Backed(h)
    BY DEF Funded
  <2>2. In(r.l)' = In(r.l) /\ Out(r.l)' = Out(r.l)
    BY <1>2 DEF In, Out
  <2>3. /\ r.amount = movements[r.m].amount
        /\ "in" \notin r.unread => r.in \subseteq In(r.l)
        /\ "out" \notin r.unread => r.out = Out(r.l)
    BY <1>1, <1>3, <2>1 DEF Backed
  <2> QED
    BY <1>2, <1>4, <2>2, <2>3
<1> QED
  BY <1>1, <1>2, <1>5, QuietFunds

LEMMA EndFunds ==
    ASSUME IInv, IInv', Funded, NEW h \in Handlers,
           RefuseOverdraw(h) \/ Post(h) \/ Abort(h)
    PROVE  Funded'
<1>1. OnlyJob(h) /\ job'[h].pc = "idle"
  BY FinishFacts DEF RefuseOverdraw, Post, Abort, IInv
<1>2. movements' = movements /\ raced' = raced
  BY DEF RefuseOverdraw, Post, Abort, documents
<1>3. Backed(h)'
  BY <1>1, NotDeciding
<1> QED
  BY <1>1, <1>2, <1>3, QuietFunds

\* What a decision writes, and on which ledgers it cannot be seen.
LEMMA WrittenHolds ==
    ASSUME IInv, IInv', Funded, NEW h \in Handlers,
           job[h].pc \in {"decide", "reject"}, OnlyJob(h),
           NEW status \in {"approved", "rejected"}, NEW m \in Movements,
           m = job[h].m, raced' = raced,
           \A k \in Movements \ {m} : movements'[k] = movements[k],
           movements'[m].status = status,
           movements'[m].ledger = movements[m].ledger,
           movements'[m].amount = movements[m].amount,
           movements'[m].type = movements[m].type
    PROVE  \A l \in Ledgers \ raced :
               status = "rejected" \/ l # movements[m].ledger => Holds(l)
<1>1. /\ movements[m].type = "drawdown"
      /\ movements[m].ledger \notin raced => movements[m].status = "awaiting"
  BY DecidingFacts
<1> QED
  BY <1>1, DecidedHolds

LEMMA RejectionFunds ==
    ASSUME IInv, IInv', Funded, NEW h \in Handlers, WriteRejection(h)
    PROVE  Funded'
<1>1. OnlyJob(h) /\ job'[h].pc = "idle" /\ job[h].pc = "reject"
  BY FinishFacts DEF WriteRejection, IInv
<1>2. PICK m \in Movements : m = job[h].m
  BY <1>1, DecidingFacts
<1>3. /\ \A k \in Movements \ {m} : movements'[k] = movements[k]
      /\ movements'[m].status = "rejected"
      /\ movements'[m].ledger = movements[m].ledger
      /\ movements'[m].amount = movements[m].amount
      /\ movements'[m].type = movements[m].type
      /\ raced' = raced
  BY <1>2 DEF WriteRejection, IInv, TypeOK, Movement
<1>4. \A l \in Ledgers \ raced : Holds(l)
  BY <1>1, <1>2, <1>3, WrittenHolds
<1>5. Backed(h)'
  BY <1>1, NotDeciding
<1> QED
  BY <1>1, <1>3, <1>4, <1>5, BackedOthers

\* Nobody else decides on the ledger, so the balance that was read is the
\* balance of now, and the approval leaves it at zero or above.
LEMMA ApprovalFunds ==
    ASSUME IInv, IInv', Funded, NEW h \in Handlers, ApproveDrawdown(h)
    PROVE  Funded'
<1>1. /\ OnlyJob(h) /\ job'[h].pc = "post" /\ Kept(h) /\ job[h].pc = "decide"
  BY GotoFacts DEF ApproveDrawdown, IInv
<1>2. PICK m \in Movements : m = job[h].m
  BY <1>1, DecidingFacts
<1>3. /\ \A k \in Movements \ {m} : movements'[k] = movements[k]
      /\ movements'[m].status = "approved"
      /\ movements'[m].ledger = movements[m].ledger
      /\ movements'[m].amount = movements[m].amount
      /\ movements'[m].type = movements[m].type
      /\ raced' = raced
  BY <1>2 DEF ApproveDrawdown, IInv, TypeOK, Movement
<1>4. PICK ledger \in Ledgers :
          ledger = job[h].l /\ movements[m].ledger = ledger
  BY <1>1, <1>2, DecidingFacts DEF IInv, Grounded, RequestOK
<1>5. \A l \in Ledgers \ (raced \union {ledger}) : Holds(l)
  BY <1>1, <1>2, <1>3, <1>4, WrittenHolds
<1>6. ASSUME NEW k \in Handlers PROVE Backed(k)'
  <2>1. CASE k = h
    BY <1>1, <2>1, NotDeciding
  <2>2. CASE k # h
    <3>1. job'[k] = job[k] /\ Backed(k)
      BY <1>1, <2>2 DEF OnlyJob, Funded
    <3> SUFFICES ASSUME job[k].pc = "decide", job[k].l \notin raced
                 PROVE  Backed(k)'
      BY <1>3, <3>1 DEF Backed
    <3>2. /\ job[k].m \in Movements /\ job[k].l \in Ledgers
      BY DEF IInv, Grounded, RequestOK, MovementOK
    <3>3. job[k].l # ledger
      BY <1>1, <1>4, <2>2, <3>2 DEF IInv, DecisionsFresh, Deciding
    <3>4. Holds(job[k].l)
      BY <1>5, <3>2, <3>3
    <3>5. movements'[job[k].m].amount = movements[job[k].m].amount
      BY <1>3, <3>2
    <3> QED
      BY <1>3, <3>1, <3>4, <3>5, BackedStays
  <2> QED
    BY <2>1, <2>2
<1>7. ASSUME NEW l \in Ledgers \ raced', l # ledger
      PROVE  (Sum(Out(l)) <= Sum(In(l)))'
  <2>1. Sum(Out(l)) <= Sum(In(l)) /\ Holds(l)
    BY <1>3, <1>5, <1>7 DEF Funded
  <2>2. PICK out, in, later \in Nat :
            out = Sum(Out(l)) /\ in = Sum(In(l)) /\ later = Sum(In(l))'
    <3>1. In(l) \in SUBSET Movements /\ Out(l) \in SUBSET Movements
          /\ In(l)' \in SUBSET Movements
      BY DEF In, Out
    <3>2. Sum(In(l))' \in Nat
      BY <3>1, SumTypedNext DEF Sum
    <3> QED
      BY <3>1, <3>2, SumTyped
  <2> QED
    BY <2>1, <2>2 DEF Holds
<1>8. ASSUME ledger \notin raced
      PROVE  (Sum(Out(ledger)) <= Sum(In(ledger)))'
  <2>1. PICK ins, outs, read \in SUBSET Movements :
            /\ ins = In(ledger) /\ outs = Out(ledger) /\ read = job[h].in
    BY JobFacts DEF In, Out, IInv
  <2>2. /\ movements[m].status = "awaiting" /\ movements[m].type = "drawdown"
    BY <1>1, <1>2, <1>4, <1>8, DecidingFacts
  <2>3. m \notin outs /\ m \notin ins
    BY <2>1, <2>2 DEF In, Out
  <2>4. In(ledger)' = ins /\ Out(ledger)' = outs \union {m}
    BY <1>3, <1>4, <2>1, <2>2 DEF In, Out
  <2>5. /\ job[h].amount = movements[m].amount
        /\ read \subseteq ins /\ job[h].out = outs
        /\ ~(job[h].amount + Sum(job[h].out) > Sum(read))
    <3>1. Backed(h) /\ job[h].unread = {} /\ ~Exceeds(h)
      BY DEF Funded, ApproveDrawdown, BalanceRead
    <3> QED
      BY <1>1, <1>2, <1>4, <1>8, <2>1, <3>1 DEF Backed, Exceeds
  <2>6. PICK amount, out, in, seen \in Nat :
            /\ amount = movements[m].amount /\ out = Sum(outs)
            /\ in = Sum(ins) /\ seen = Sum(read)
    BY SumTyped DEF IInv, TypeOK, Movement
  <2>7. seen <= in
    BY <2>5, <2>6, SumGrows
  <2>8. amount + out <= in
    BY <2>5, <2>6, <2>7
  <2>9. Sum(ins)' = in /\ Sum(outs)' = out
    BY <1>3, <2>3, <2>6, SumStays
  <2>10. Sum(outs \union {m})' = movements'[m].amount + Sum(outs)'
    BY <2>3, SumOneMoreNext
  <2>11. Sum(outs \union {m})' = amount + out
    BY <1>3, <2>6, <2>9, <2>10
  <2>12. /\ Sum(In(ledger))' = Sum(ins)'
         /\ Sum(Out(ledger))' = Sum(outs \union {m})'
    BY <2>4 DEF Sum
  <2> QED
    BY <2>8, <2>9, <2>11, <2>12
<1> QED
  BY <1>3, <1>6, <1>7, <1>8 DEF Funded

LEMMA FundedNext == IInv /\ IInv' /\ Funded /\ [Next]_vars => Funded'
<1> SUFFICES ASSUME IInv, IInv', Funded, [Next]_vars PROVE Funded'
  OBVIOUS
<1>1. ASSUME NEW h \in Handlers, Step(h) PROVE Funded'
  BY <1>1, ReadFunds, CreateDrawdownFunds, ApprovalFunds, EndFunds,
     RejectionFunds DEF Step
<1>2. ASSUME movements' = movements, raced' = raced,
             \A k \in Handlers : job'[k] = job[k] \/ job'[k].pc # "decide"
      PROVE  Funded'
  <2>1. \A l \in Ledgers : Holds(l)
    BY <1>2, SameHolds
  <2>2. ASSUME NEW k \in Handlers PROVE Backed(k)'
    <3>1. In(job[k].l)' = In(job'[k].l) /\ Out(job[k].l)' = Out(job'[k].l)
      BY <1>2 DEF In, Out
    <3>2. CASE job'[k] = job[k]
      BY <1>2, <3>1, <3>2 DEF Funded, Backed
    <3>3. CASE job'[k].pc # "decide"
      BY <3>3, NotDeciding
    <3> QED
      BY <1>2, <3>2, <3>3
  <2>3. ASSUME NEW l \in Ledgers \ raced'
        PROVE  (Sum(Out(l)) <= Sum(In(l)))'
    <3>1. In(l)' = In(l) /\ Out(l)' = Out(l)
      BY <1>2 DEF In, Out
    <3>2. Sum(In(l))' = Sum(In(l)) /\ Sum(Out(l))' = Sum(Out(l))
      BY <1>2, <3>1 DEF Sum
    <3> QED
      BY <1>2, <3>2 DEF Funded
  <2> QED
    BY <2>2, <2>3 DEF Funded
<1>3. CASE (\E l \in Ledgers : CreateLedger(l)) \/ Restart \/ UNCHANGED vars
  <2>1. movements' = movements /\ raced' = raced
    BY <1>3 DEF CreateLedger, Restart, vars, documents
  <2>2. \A k \in Handlers : job'[k] = job[k] \/ job'[k].pc # "decide"
    BY <1>3, IdleFacts DEF CreateLedger, Restart, vars
  <2> QED
    BY <2>1, <2>2, <1>2
<1> QED
  BY <1>1, <1>3, RequestFunds, EndFunds DEF Next

LEMMA InitFunded == Init => Funded
<1> SUFFICES ASSUME Init PROVE Funded
  OBVIOUS
<1>1. \A h \in Handlers : Backed(h)
  BY IdleFacts DEF Init, Backed
<1>2. ASSUME NEW l \in Ledgers PROVE Sum(Out(l)) <= Sum(In(l))
  <2>1. In(l) = {} /\ Out(l) = {}
    BY DEF In, Out, Init, NewMovement
  <2>2. Sum({}) = 0
    BY SumEmpty DEF Sum
  <2> QED
    BY <2>1, <2>2
<1> QED
  BY <1>1, <1>2 DEF Funded

(***************************************************************************)
(* Theorem: on every ledger on which no two decisions overlapped, what     *)
(* went out never exceeds what came in, for any number of people, requests *)
(* and faults: authoriseDrawdown sums the ledger again before it approves, *)
(* which catches a second request that the first check let through.        *)
(***************************************************************************)
THEOREM NothingOverdrawn == Spec => []NoOverdraw
<1>1. IInv /\ Funded => NoOverdraw
  <2> SUFFICES ASSUME IInv, Funded, NEW l \in Ledgers \ raced
               PROVE  ~Overdrawn(l)
    BY DEF NoOverdraw
  <2>1. Sum(Out(l)) <= Sum(In(l))
    BY DEF Funded
  <2>2. PICK out, in \in Nat : out = Sum(Out(l)) /\ in = Sum(In(l))
    <3>1. In(l) \in SUBSET Movements /\ Out(l) \in SUBSET Movements
      BY DEF In, Out
    <3> QED
      BY <3>1, SumTyped
  <2> QED
    BY <2>1, <2>2 DEF Overdrawn
<1> QED
  BY InitIInv, NextIInv, InitFunded, FundedNext, <1>1, PTL DEF Spec
=============================================================================
