----------------------------- MODULE Leave_proofs -----------------------------
(* Proofs about Leave, for every value of its constants. *)
EXTENDS Leave, Sums, TLAPS

(***************************************************************************)
(* What the properties rest on.  A request for leave and the leave it made *)
(* are the only claim that its employee has on the allowance, as long as   *)
(* requests of one employee do not overlap; and a leave is deducted once,  *)
(* as long as decisions on one leave do not.                               *)
(***************************************************************************)
LeaveAt(h, q, at) == absence[h].leave = q /\ absence[h].at = at

DeskOK(h) ==
    /\ absence[h].from <= absence[h].to
    /\ absence[h].at \in {"review", "deduct", "cancel", "charge"} =>
           absence[h].leave \in Leaves
    /\ absence[h].leave \in Leaves =>
           leaves[absence[h].leave].status # "absent"
    /\ absence[h].at = "insert approved" => absence[h].of = Boss
    /\ absence[h].at = "deduct" => leaves[absence[h].leave].annual

LeaveOK(q) ==
    /\ leaves[q].from <= leaves[q].to
    /\ q \in disputed => leaves[q].status # "absent"
    /\ q \notin disputed =>
           /\ \A g, h \in Handlers : LeaveAt(g, q, "deduct")
                                     /\ LeaveAt(h, q, "deduct")
                  => g = h
           /\ \A h \in Handlers : LeaveAt(h, q, "deduct") =>
                  leaves[q].status # "pending"

AloneOK(e) == \A g, h \in Handlers : Asking(g, e) /\ Asking(h, e) => g = h

FreeOK(e) ==
    \A h \in Handlers : absence[h].of = e /\ absence[h].at = "insert" =>
        \A q \in Leaves \ disputed : leaves[q].of = e /\ Standing(q) =>
            ~Overlap(leaves[q], absence[h])

OneOpen(e) ==
    e \notin pooled =>
        /\ \A h \in Handlers : Asking(h, e) =>
               /\ absence[h].used = used[e]
               /\ \A q \in Leaves : ~Open(q, e)
        /\ \A p, q \in Leaves : Open(p, e) /\ Open(q, e) => p = q

\* The days of q have not been counted, and may still be.
Due(q) ==
    \/ leaves[q].status = "pending"
    \/ \E h \in Handlers : LeaveAt(h, q, "deduct")

Undisputed(e) == \A q \in Leaves \intersect disputed : leaves[q].of # e

Within(e) ==
    e \notin pooled /\ Undisputed(e) =>
        /\ used[e] <= allowed
        /\ \A h \in Handlers :
               /\ absence[h].of = e /\ absence[h].at = "insert"
               /\ absence[h].annual
               => used[e] + Length(absence[h]) <= allowed
        /\ \A q \in Leaves :
               leaves[q].of = e /\ leaves[q].annual /\ Due(q) =>
                   used[e] + Length(leaves[q]) <= allowed

StaffOK(e) ==
    e \notin disputed \union {Boss} =>
        AloneOK(e) /\ FreeOK(e) /\ OneOpen(e) /\ Within(e)

LeaveIInv ==
    /\ LeaveTypeOK
    /\ \A h \in Handlers : DeskOK(h)
    /\ \A q \in Leaves : LeaveOK(q)
    /\ \A e \in Staff : StaffOK(e)
    /\ NoDayTwice

-----------------------------------------------------------------------------
(* Types *)

LEMMA LeaveTypeFacts ==
    ASSUME LeaveTypeOK
    PROVE  /\ requests \in Nat /\ faults \in Nat /\ allowed \in Nat
           /\ leaves \in [Leaves -> LeaveRecord]
           /\ used \in [Staff -> Nat]
           /\ balance \in [Staff -> Int]
           /\ absence \in [Handlers -> LeaveJob]
BY DEF LeaveTypeOK

LEMMA LeaveCountersTyped ==
    ASSUME LeaveTypeOK, Request \/ Step \/ Fault
    PROVE  requests' \in Nat /\ faults' \in Nat
BY LeaveTypeFacts DEF Request, Step, Fault

LEMMA LeaveJobFacts ==
    ASSUME LeaveTypeOK, NEW h \in Handlers
    PROVE  /\ absence[h] \in LeaveJob
           /\ absence[h].of \in Staff
           /\ absence[h].leave \in Leaves \union {NoLeave}
           /\ absence[h].annual \in BOOLEAN /\ absence[h].approve \in BOOLEAN
           /\ absence[h].from \in Nat /\ absence[h].to \in Nat
           /\ absence[h].used \in Nat
BY LeaveTypeFacts DEF LeaveJob

LEMMA RecordFacts ==
    ASSUME LeaveTypeOK, NEW q \in Leaves
    PROVE  /\ leaves[q].of \in Staff /\ leaves[q].annual \in BOOLEAN
           /\ leaves[q].from \in Nat /\ leaves[q].to \in Nat
           /\ leaves[q].status \in LeaveStatus
BY LeaveTypeFacts DEF LeaveRecord

LEMMA DeskFacts ==
    /\ AtDesk \in LeaveJob /\ AtDesk.at = "idle" /\ AtDesk.leave = NoLeave
    /\ AtDesk.from <= AtDesk.to
BY LeaveAssumption DEF AtDesk, LeaveJob

\* Handler h goes on with job t, and no other handler moves.
LeaveMoves(h, t) ==
    /\ t \in LeaveJob
    /\ absence' = [absence EXCEPT ![h] = t]

LEMMA LeaveMovesFacts ==
    ASSUME LeaveTypeOK, NEW h \in Handlers, NEW t, LeaveMoves(h, t)
    PROVE  /\ absence' \in [Handlers -> LeaveJob] /\ absence'[h] = t
           /\ \A g \in Handlers \ {h} : absence'[g] = absence[g]
BY LeaveTypeFacts DEF LeaveMoves

LEMMA Closes ==
    ASSUME NEW h \in Handlers, CloseDesk(h)
    PROVE  LeaveMoves(h, AtDesk)
BY DeskFacts DEF CloseDesk, LeaveMoves

-----------------------------------------------------------------------------
(* Frames *)

\* Every handler but h is in order after a step of h that keeps what there
\* is of leave.
LEMMA LeaveOthersOK ==
    ASSUME LeaveIInv, NEW h \in Handlers, NEW t, LeaveMoves(h, t),
           \A q \in Leaves :
               leaves[q].status # "absent" =>
                   /\ leaves'[q].status # "absent"
                   /\ leaves'[q].annual = leaves[q].annual
    PROVE  \A g \in Handlers \ {h} : DeskOK(g)'
<1> SUFFICES ASSUME NEW g \in Handlers \ {h} PROVE DeskOK(g)'
  OBVIOUS
<1>1. absence'[g] = absence[g]
  BY LeaveMovesFacts DEF LeaveIInv
<1>2. DeskOK(g)
  BY DEF LeaveIInv
<1> QED BY <1>1, <1>2 DEF DeskOK

\* A request that asks for nothing any more and deducts nothing: it ends, or
\* it has found a leave pending.
LEMMA LeaveAside ==
    ASSUME LeaveIInv, NEW h \in Handlers, NEW t, LeaveMoves(h, t), LeaveTypeOK',
           t.at \in {"idle", "review", "cancel"}, t.from <= t.to,
           t.at = "idle" => t.leave = NoLeave,
           t.at # "idle" => /\ t.leave \in Leaves
                            /\ leaves[t.leave].status = "pending",
           UNCHANGED <<leaves, used, allowed, disputed, pooled>>
    PROVE  LeaveIInv'
<1>1. absence'[h] = t /\ \A g \in Handlers \ {h} : absence'[g] = absence[g]
  BY LeaveMovesFacts DEF LeaveIInv
<1>2. \A g \in Handlers \ {h} : DeskOK(g)'
  BY LeaveOthersOK
<1>3. DeskOK(h)'
  BY <1>1, LeaveAssumption DEF DeskOK
<1>4. \A g \in Handlers, q \in Leaves :
          LeaveAt(g, q, "deduct")' => LeaveAt(g, q, "deduct")
  BY <1>1 DEF LeaveAt
<1>5. ASSUME NEW q \in Leaves PROVE LeaveOK(q)'
  BY <1>4, <1>5 DEF LeaveIInv, LeaveOK
<1>6. ASSUME NEW e \in Staff PROVE StaffOK(e)'
  <2>1. StaffOK(e)
    BY DEF LeaveIInv
  <2>2. \A g \in Handlers : Asking(g, e)' =>
            Asking(g, e) /\ absence'[g] = absence[g]
    BY <1>1 DEF Asking
  <2>3. \A q \in Leaves : Open(q, e)' => Open(q, e)
    BY <1>1, LeaveAssumption DEF Open
  <2>4. AloneOK(e) => AloneOK(e)'
    BY <2>2 DEF AloneOK
  <2>5. FreeOK(e) => FreeOK(e)'
    BY <1>1 DEF FreeOK, Standing
  <2>6. OneOpen(e) => OneOpen(e)'
    BY <2>2, <2>3 DEF OneOpen
  <2>7. Within(e) => Within(e)'
    BY <1>1, <1>4 DEF Within, Due, Undisputed
  <2> QED BY <2>1, <2>4, <2>5, <2>6, <2>7 DEF StaffOK
<1>7. NoDayTwice'
  BY DEF LeaveIInv, NoDayTwice, Standing
<1> QED BY <1>2, <1>3, <1>5, <1>6, <1>7 DEF LeaveIInv

\* The leave of x that counts, and what x asks for, is what it was.
LEMMA WithinKept ==
    ASSUME NEW x \in Staff, Within(x), pooled \subseteq pooled',
           UNCHANGED <<used, allowed>>,
           Undisputed(x)' => Undisputed(x),
           \A g \in Handlers :
               absence'[g].of = x /\ absence'[g].at = "insert" =>
                   absence'[g] = absence[g],
           \A p \in Leaves :
               leaves'[p].of = x /\ leaves'[p].annual /\ Due(p)' =>
                   leaves'[p] = leaves[p] /\ Due(p)
    PROVE  Within(x)'
<1> SUFFICES ASSUME x \notin pooled', Undisputed(x)' PROVE Within(x)'
  BY DEF Within
<1>1. used'[x] <= allowed'
  BY DEF Within
<1>2. ASSUME NEW g \in Handlers, absence'[g].of = x,
             absence'[g].at = "insert", absence'[g].annual
      PROVE  used'[x] + Length(absence'[g]) <= allowed'
  BY <1>2 DEF Within
<1>3. ASSUME NEW p \in Leaves, leaves'[p].of = x, leaves'[p].annual, Due(p)'
      PROVE  used'[x] + Length(leaves'[p]) <= allowed'
  BY <1>3 DEF Within
<1> QED BY <1>1, <1>2, <1>3 DEF Within, Length

-----------------------------------------------------------------------------
(* Steps that only concern requests *)

LEMMA EndsSafe ==
    ASSUME LeaveIInv, NEW h \in Handlers, CloseDesk(h), LeaveTypeOK',
           UNCHANGED <<leaves, used, allowed, disputed, pooled>>
    PROVE  LeaveIInv'
BY Closes, DeskFacts, LeaveAside

LEMMA ChargeOwnerSafe ==
    ASSUME LeaveIInv, NEW h \in Handlers, ChargeOwner(h)
    PROVE  LeaveIInv'
<1>1. /\ Step /\ CloseDesk(h)
      /\ UNCHANGED <<leaves, allowed, used, disputed, pooled, dropped>>
  BY DEF ChargeOwner, leaveHistory
<1>2. balance' \in [Staff -> Int]
  <2>1. absence[h].of \in Staff /\ Length(absence[h]) \in Int
    BY LeaveJobFacts DEF LeaveIInv, Length
  <2>2. balance' = [balance EXCEPT ![absence[h].of] = @ - Length(absence[h])]
    BY DEF ChargeOwner
  <2> QED BY <2>1, <2>2, LeaveTypeFacts DEF LeaveIInv
<1>3. LeaveTypeOK'
  BY <1>1, <1>2, Closes, LeaveMovesFacts, LeaveCountersTyped, LeaveTypeFacts
     DEF LeaveIInv, LeaveTypeOK
<1> QED BY <1>1, <1>3, EndsSafe

LEMMA LeaveFaultSafe ==
    ASSUME LeaveIInv, NEW h \in Handlers, LeaveFault(h)
    PROVE  LeaveIInv'
<1>1. dropped' \subseteq dropped \union Leaves
  BY LeaveJobFacts DEF LeaveIInv, LeaveFault
<1>2. LeaveTypeOK'
  BY <1>1, Closes, LeaveMovesFacts, LeaveCountersTyped, LeaveTypeFacts
     DEF LeaveIInv, LeaveTypeOK, LeaveFault
<1> QED BY <1>2, EndsSafe DEF LeaveFault

LEMMA FoundPendingSafe ==
    ASSUME LeaveIInv, NEW h \in Handlers, NEW q \in Leaves,
           NEW approve \in BOOLEAN
    PROVE  Review(h, q, approve) \/ CancelLeave(h, q) => LeaveIInv'
<1>1. ASSUME NEW t \in LeaveJob, LeaveMoves(h, t),
             t.at \in {"review", "cancel"},
             t.leave = q, t.from <= t.to, Pending(q), Request,
             UNCHANGED <<leaves, allowed, used, balance, leaveHistory>>
      PROVE  LeaveIInv'
  <2>1. LeaveTypeOK'
    BY <1>1, LeaveMovesFacts, LeaveCountersTyped, LeaveTypeFacts
       DEF LeaveIInv, LeaveTypeOK, leaveHistory
  <2> QED BY <1>1, <2>1, LeaveAside DEF Pending, leaveHistory
<1>2. CASE Review(h, q, approve)
  <2> DEFINE t == [AtDesk EXCEPT !.at = "review", !.of = leaves[q].of,
                      !.leave = q, !.approve = approve]
  <2>1. /\ t \in LeaveJob /\ t.at = "review" /\ t.leave = q
        /\ t.from <= t.to
    BY DeskFacts, RecordFacts DEF LeaveIInv, LeaveJob, AtDesk
  <2>2. LeaveMoves(h, t)
    BY <1>2, <2>1 DEF Review, OpenDesk, LeaveMoves
  <2> HIDE DEF t
  <2> QED BY <1>1, <1>2, <2>1, <2>2 DEF Review
<1>3. CASE CancelLeave(h, q)
  <2> DEFINE t == [AtDesk EXCEPT !.at = "cancel", !.of = leaves[q].of,
                      !.leave = q]
  <2>1. /\ t \in LeaveJob /\ t.at = "cancel" /\ t.leave = q
        /\ t.from <= t.to
    BY DeskFacts, RecordFacts DEF LeaveIInv, LeaveJob, AtDesk
  <2>2. LeaveMoves(h, t)
    BY <1>3, <2>1 DEF CancelLeave, OpenDesk, LeaveMoves
  <2> HIDE DEF t
  <2> QED BY <1>1, <1>3, <2>1, <2>2 DEF CancelLeave
<1> QED BY <1>2, <1>3

-----------------------------------------------------------------------------
(* Asking for leave *)

\* Request h asks for leave of e, in its first or second step.
LEMMA AskLeaveSafe ==
    ASSUME LeaveIInv, NEW h \in Handlers, NEW e \in Staff,
           NEW annual \in BOOLEAN,
           NEW from \in Days, NEW to \in Days, AskLeave(h, e, annual, from, to)
    PROVE  LeaveIInv'
<1> DEFINE t == [AtDesk EXCEPT
           !.at = IF e = Boss THEN "insert approved" ELSE "check",
           !.of = e, !.annual = annual, !.from = from, !.to = to,
           !.used = used[e]]
<1>1. /\ t \in LeaveJob /\ t.leave = NoLeave /\ t.of = e
      /\ t.used = used[e] /\ t.from <= t.to
      /\ t.at = IF e = Boss THEN "insert approved" ELSE "check"
  <2>1. from \in Nat /\ to \in Nat /\ used[e] \in Nat /\ from <= to
    BY LeaveTypeFacts, LeaveAssumption DEF Days, LeaveIInv, AskLeave
  <2> QED BY <2>1, DeskFacts DEF LeaveJob, AtDesk
<1>2. LeaveMoves(h, t)
  BY <1>1 DEF AskLeave, OpenDesk, LeaveMoves
<1> HIDE DEF t
<1>3. /\ absence' \in [Handlers -> LeaveJob] /\ absence'[h] = t
      /\ \A g \in Handlers \ {h} : absence'[g] = absence[g]
  BY <1>2, LeaveMovesFacts DEF LeaveIInv
<1>4. /\ disputed \subseteq disputed' /\ disputed' \subseteq disputed \union {e}
      /\ pooled \subseteq pooled' /\ pooled' \subseteq pooled \union {e}
      /\ e \notin disputed' => \A g \in Handlers : ~Asking(g, e)
      /\ e \notin pooled' => \A q \in Leaves : ~Open(q, e)
      /\ UNCHANGED <<leaves, allowed, used, balance, dropped>>
  BY DEF AskLeave
<1>5. LeaveTypeOK'
  BY <1>3, <1>4, LeaveCountersTyped, LeaveTypeFacts
     DEF LeaveIInv, LeaveTypeOK, AskLeave
<1>6. \A g \in Handlers \ {h} : DeskOK(g)'
  BY <1>2, <1>4, LeaveOthersOK
<1>7. DeskOK(h)'
  BY <1>1, <1>3, LeaveAssumption DEF DeskOK
<1>8. \A g \in Handlers, q \in Leaves :
          LeaveAt(g, q, "deduct")' => LeaveAt(g, q, "deduct")
  BY <1>1, <1>3 DEF LeaveAt
<1>9. ASSUME NEW q \in Leaves PROVE LeaveOK(q)'
  <2>1. q # e
    BY LeaveAssumption
  <2> QED BY <1>4, <1>8, <2>1 DEF LeaveIInv, LeaveOK
<1>10. ASSUME NEW x \in Staff PROVE StaffOK(x)'
  <2>1. StaffOK(x)
    BY DEF LeaveIInv
  <2>2. \A g \in Handlers : Asking(g, x)' =>
            \/ g # h /\ Asking(g, x) /\ absence'[g] = absence[g]
            \/ g = h /\ x = e
    BY <1>1, <1>3 DEF Asking
  <2>3. \A q \in Leaves : Open(q, x)' => Open(q, x)
    BY <1>1, <1>3, <1>4, LeaveAssumption DEF Open
  <2>4. x \notin disputed' /\ AloneOK(x) => AloneOK(x)'
    BY <1>4, <2>2 DEF AloneOK
  <2>5. FreeOK(x) => FreeOK(x)'
    BY <1>1, <1>3, <1>4 DEF FreeOK, Standing
  <2>6. OneOpen(x) => OneOpen(x)'
    <3> SUFFICES ASSUME OneOpen(x), x \notin pooled' PROVE OneOpen(x)'
      BY DEF OneOpen
    <3>1. ASSUME NEW g \in Handlers, Asking(g, x)'
          PROVE  absence'[g].used = used'[x] /\ \A q \in Leaves : ~Open(q, x)'
      BY <1>1, <1>3, <1>4, <2>2, <2>3, <3>1 DEF OneOpen
    <3> QED BY <1>4, <2>3, <3>1 DEF OneOpen
  <2>7. Within(x) => Within(x)'
    <3>1. \A q \in Leaves : Due(q)' => Due(q)
      BY <1>4, <1>8 DEF Due
    <3>2. Undisputed(x)' => Undisputed(x)
      BY <1>4 DEF Undisputed
    <3> QED BY <1>1, <1>3, <1>4, <3>1, <3>2 DEF Within
  <2> QED BY <1>4, <2>1, <2>4, <2>5, <2>6, <2>7 DEF StaffOK
<1>11. NoDayTwice'
  BY <1>4 DEF LeaveIInv, NoDayTwice, Standing
<1> QED BY <1>5, <1>6, <1>7, <1>9, <1>10, <1>11 DEF LeaveIInv

LEMMA CheckLeaveSafe ==
    ASSUME LeaveIInv, NEW h \in Handlers, CheckLeave(h)
    PROVE  LeaveIInv'
<1>0. /\ absence[h].at = "check" /\ Step
      /\ UNCHANGED <<leaves, allowed, used, balance, disputed, pooled, dropped>>
  BY DEF CheckLeave, leaveHistory
<1>1. CASE CloseDesk(h)
  <2>1. LeaveTypeOK'
    BY <1>0, <1>1, Closes, LeaveMovesFacts, LeaveCountersTyped, LeaveTypeFacts
       DEF LeaveIInv, LeaveTypeOK
  <2> QED BY <1>0, <1>1, <2>1, EndsSafe
<1>2. CASE /\ FreeDays(absence[h].of, absence[h]) /\ WithinBalance(absence[h])
           /\ Proceed(h, "insert")
  <2> DEFINE t == [absence[h] EXCEPT !.at = "insert"]
  <2>1. /\ t \in LeaveJob /\ t.at = "insert" /\ t.of = absence[h].of
        /\ t.from = absence[h].from /\ t.to = absence[h].to
        /\ t.annual = absence[h].annual /\ t.used = absence[h].used
        /\ t.leave = absence[h].leave
    BY LeaveJobFacts DEF LeaveIInv, LeaveJob
  <2>2. LeaveMoves(h, t)
    BY <1>2, <2>1, LeaveTypeFacts DEF LeaveIInv, Proceed, LeaveMoves
  <2> HIDE DEF t
  <2>3. /\ absence' \in [Handlers -> LeaveJob] /\ absence'[h] = t
        /\ \A g \in Handlers \ {h} : absence'[g] = absence[g]
    BY <2>2, LeaveMovesFacts DEF LeaveIInv
  <2>4. LeaveTypeOK'
    BY <1>0, <2>3, LeaveCountersTyped, LeaveTypeFacts DEF LeaveIInv, LeaveTypeOK
  <2>5. \A g \in Handlers \ {h} : DeskOK(g)'
    BY <1>0, <2>2, LeaveOthersOK
  <2>6. DeskOK(h)'
    BY <1>0, <2>1, <2>3 DEF LeaveIInv, DeskOK
  <2>7. \A g \in Handlers, q \in Leaves :
            LeaveAt(g, q, "deduct")' => LeaveAt(g, q, "deduct")
    BY <2>1, <2>3 DEF LeaveAt
  <2>8. ASSUME NEW q \in Leaves PROVE LeaveOK(q)'
    BY <1>0, <2>7 DEF LeaveIInv, LeaveOK
  <2>9. ASSUME NEW x \in Staff PROVE StaffOK(x)'
    <3>1. StaffOK(x)
      BY DEF LeaveIInv
    <3>2. \A g \in Handlers :
              /\ Asking(g, x)' => Asking(g, x)
              /\ absence'[g].used = absence[g].used
      BY <1>0, <2>1, <2>3 DEF Asking
    <3>3. \A q \in Leaves : Open(q, x)' => Open(q, x)
      BY <1>0, <2>1, <2>3 DEF Open
    <3>4. AloneOK(x) => AloneOK(x)'
      BY <3>2 DEF AloneOK
    <3>5. \A q \in Leaves : leaves[q].of = t.of /\ Standing(q) =>
              ~Overlap(leaves[q], t)
      BY <1>2, <2>1 DEF FreeDays, Overlap
    <3>6. FreeOK(x) => FreeOK(x)'
      BY <1>0, <2>3, <3>5 DEF FreeOK, Standing
    <3>7. OneOpen(x) => OneOpen(x)'
      BY <1>0, <3>2, <3>3 DEF OneOpen
    <3>8. x = absence[h].of /\ x \notin pooled /\ OneOpen(x) /\ t.annual =>
              used[x] + Length(t) <= allowed
      <4>1. Asking(h, absence[h].of)
        BY <1>0 DEF Asking
      <4>2. t.annual => Length(t) <= allowed - absence[h].used
        BY <1>2, <2>1 DEF WithinBalance, Length
      <4>3. t.from \in Nat /\ t.to \in Nat /\ absence[h].used \in Nat
            /\ used[x] \in Nat /\ allowed \in Nat
        BY <2>1, LeaveJobFacts, LeaveTypeFacts DEF LeaveIInv
      <4> QED BY <4>1, <4>2, <4>3 DEF OneOpen, Length
    <3>9. OneOpen(x) /\ Within(x) => Within(x)'
      <4>1. \A q \in Leaves : Due(q)' => Due(q)
        BY <1>0, <2>7 DEF Due
      <4> QED BY <1>0, <2>1, <2>3, <3>8, <4>1 DEF Within, Undisputed
    <3> QED BY <1>0, <3>1, <3>4, <3>6, <3>7, <3>9 DEF StaffOK
  <2>10. NoDayTwice'
    BY <1>0 DEF LeaveIInv, NoDayTwice, Standing
  <2> QED BY <2>4, <2>5, <2>6, <2>8, <2>9, <2>10 DEF LeaveIInv
<1> QED BY <1>1, <1>2 DEF CheckLeave

\* What a new leave q of request h looks like, and that nobody was at it.
LEMMA InsertedFacts ==
    ASSUME LeaveIInv, NEW h \in Handlers, NEW q \in Leaves,
           NEW status \in {"pending", "approved"},
           leaves[q].status = "absent", Inserted(h, q, status)
    PROVE  /\ leaves' \in [Leaves -> LeaveRecord]
           /\ \A p \in Leaves \ {q} : leaves'[p] = leaves[p]
           /\ leaves'[q].of = absence[h].of /\ leaves'[q].status = status
           /\ leaves'[q].annual = absence[h].annual
           /\ leaves'[q].from = absence[h].from
           /\ leaves'[q].to = absence[h].to
           /\ \A g \in Handlers : absence[g].leave # q
<1>1. [of |-> absence[h].of, status |-> status, annual |-> absence[h].annual,
       from |-> absence[h].from, to |-> absence[h].to] \in LeaveRecord
  BY LeaveJobFacts DEF LeaveIInv, LeaveRecord, LeaveStatus
<1>2. \A g \in Handlers : absence[g].leave # q
  BY DEF LeaveIInv, DeskOK
<1> QED BY <1>1, <1>2, LeaveTypeFacts DEF LeaveIInv, Inserted

LEMMA InsertLeaveSafe ==
    ASSUME LeaveIInv, NEW h \in Handlers, NEW q \in Leaves, InsertLeave(h, q)
    PROVE  LeaveIInv'
<1> PICK e \in Staff : e = absence[h].of
  BY LeaveJobFacts DEF LeaveIInv
<1>0. /\ absence[h].at = "insert" /\ Step /\ leaves[q].status = "absent"
      /\ Inserted(h, q, "pending") /\ CloseDesk(h)
      /\ UNCHANGED <<allowed, used, balance, disputed, pooled, dropped>>
  BY DEF InsertLeave, leaveHistory
<1>1. /\ leaves' \in [Leaves -> LeaveRecord]
      /\ \A p \in Leaves \ {q} : leaves'[p] = leaves[p]
      /\ leaves'[q].of = e /\ leaves'[q].status = "pending"
      /\ leaves'[q].annual = absence[h].annual
      /\ leaves'[q].from = absence[h].from /\ leaves'[q].to = absence[h].to
      /\ \A g \in Handlers : absence[g].leave # q
  BY <1>0, InsertedFacts
<1>2. /\ LeaveMoves(h, AtDesk)
      /\ absence' \in [Handlers -> LeaveJob] /\ absence'[h] = AtDesk
      /\ \A g \in Handlers \ {h} : absence'[g] = absence[g]
  BY <1>0, Closes, LeaveMovesFacts DEF LeaveIInv
<1>3. LeaveTypeOK'
  BY <1>0, <1>1, <1>2, LeaveCountersTyped, LeaveTypeFacts
     DEF LeaveIInv, LeaveTypeOK
<1>4. \A g \in Handlers \ {h} : DeskOK(g)'
  BY <1>0, <1>1, <1>2, LeaveOthersOK
<1>5. DeskOK(h)'
  BY <1>2, DeskFacts, LeaveAssumption DEF DeskOK
<1>6. \A g \in Handlers, p \in Leaves :
          LeaveAt(g, p, "deduct")' => p # q /\ LeaveAt(g, p, "deduct")
  BY <1>1, <1>2, DeskFacts DEF LeaveAt
<1>7. ASSUME NEW p \in Leaves PROVE LeaveOK(p)'
  <2>1. CASE p # q
    BY <1>0, <1>1, <1>6, <2>1 DEF LeaveIInv, LeaveOK
  <2>2. CASE p = q
    BY <1>1, <1>6, <2>2 DEF LeaveIInv, LeaveOK, DeskOK
  <2> QED BY <2>1, <2>2
<1>8. \A g \in Handlers, x \in Staff :
          Asking(g, x)' => g # h /\ Asking(g, x) /\ absence'[g] = absence[g]
  BY <1>2, DeskFacts DEF Asking
<1>9. \A p \in Leaves, x \in Staff :
          Open(p, x)' => (p # q /\ Open(p, x)) \/ (p = q /\ x = e)
  BY <1>1, <1>2, DeskFacts, LeaveAssumption DEF Open
<1>10. Asking(h, e)
  BY <1>0 DEF Asking
<1>11. ASSUME NEW x \in Staff, x # e PROVE StaffOK(x)'
  <2>1. StaffOK(x)
    BY DEF LeaveIInv
  <2>2. AloneOK(x) => AloneOK(x)'
    BY <1>8 DEF AloneOK
  <2>3. FreeOK(x) => FreeOK(x)'
    BY <1>0, <1>1, <1>2, <1>11, DeskFacts DEF FreeOK, Standing
  <2>4. OneOpen(x) => OneOpen(x)'
    BY <1>0, <1>8, <1>9, <1>11 DEF OneOpen
  <2>5. Within(x) => Within(x)'
    <3>1. \A p \in Leaves \ {q} : Due(p)' => Due(p)
      BY <1>1, <1>6 DEF Due
    <3>2. q \notin disputed
      BY <1>0 DEF LeaveIInv, LeaveOK
    <3>3. Undisputed(x)' => Undisputed(x)
      BY <1>0, <1>1, <3>2 DEF Undisputed
    <3>4. \A g \in Handlers : absence'[g].at = "insert" =>
              absence'[g] = absence[g]
      BY <1>2, DeskFacts
    <3> QED BY <1>0, <1>1, <1>11, <3>1, <3>3, <3>4, WithinKept
  <2> QED BY <1>0, <2>1, <2>2, <2>3, <2>4, <2>5 DEF StaffOK
<1>12. StaffOK(e)'
  <2>1. StaffOK(e)
    BY DEF LeaveIInv
  <2>2. AloneOK(e) => \A g \in Handlers : ~Asking(g, e)'
    BY <1>8, <1>10 DEF AloneOK
  <2>3. AloneOK(e) => AloneOK(e)' /\ FreeOK(e)'
    BY <2>2 DEF AloneOK, FreeOK, Asking
  <2>4. AloneOK(e) /\ OneOpen(e) => OneOpen(e)'
    BY <1>0, <1>9, <1>10, <2>2 DEF OneOpen
  <2>5. AloneOK(e) /\ OneOpen(e) /\ Within(e) => Within(e)'
    <3> SUFFICES ASSUME AloneOK(e), OneOpen(e), Within(e),
                        e \notin pooled, Undisputed(e)'
                 PROVE  Within(e)'
      BY <1>0 DEF Within
    <3>1. Undisputed(e)
      BY <1>0, <1>1 DEF Undisputed, LeaveIInv
    <3>2. /\ used'[e] <= allowed'
          /\ absence[h].annual => used[e] + Length(absence[h]) <= allowed
      BY <1>0, <3>1 DEF Within
    <3>3. \A g \in Handlers :
              ~(absence'[g].of = e /\ absence'[g].at = "insert")
      BY <2>2 DEF Asking
    <3>4. \A p \in Leaves \ {q} :
              ~(leaves'[p].of = e /\ leaves'[p].annual /\ Due(p)')
      <4>1. \A p \in Leaves \ {q} :
                leaves'[p].of = e /\ leaves'[p].annual /\ Due(p)' => Open(p, e)
        BY <1>1, <1>6 DEF Due, Open, LeaveAt
      <4> QED BY <1>10, <4>1 DEF OneOpen
    <3>5. leaves'[q].annual => used'[e] + Length(leaves[q])' <= allowed'
      BY <1>0, <1>1, <3>2 DEF Length
    <3> QED BY <3>2, <3>3, <3>4, <3>5 DEF Within
  <2> QED BY <1>0, <2>1, <2>3, <2>4, <2>5 DEF StaffOK
<1>13. NoDayTwice'
  <2>1. ASSUME NEW p \in Leaves \ disputed', p # q, leaves'[p].of = e,
               e \notin disputed' \union {Boss}, Standing(p)'
        PROVE  /\ ~Overlap(leaves'[p], leaves'[q])
               /\ ~Overlap(leaves'[q], leaves'[p])
    <3>1. FreeOK(e) /\ Standing(p) /\ leaves[p].of = e
      BY <1>0, <1>1, <2>1 DEF LeaveIInv, StaffOK, Standing
    <3>2. ~Overlap(leaves[p], absence[h])
      BY <1>0, <2>1, <3>1 DEF FreeOK
    <3> QED BY <1>1, <2>1, <3>2 DEF Overlap
  <2> QED BY <1>0, <1>1, <2>1 DEF LeaveIInv, NoDayTwice, Standing
<1> QED BY <1>3, <1>4, <1>5, <1>7, <1>11, <1>12, <1>13 DEF LeaveIInv

\* The owner's leave is nobody else's.
LEMMA InsertApprovedSafe ==
    ASSUME LeaveIInv, NEW h \in Handlers, NEW q \in Leaves, InsertApproved(h, q)
    PROVE  LeaveIInv'
<1> DEFINE charge == [absence[h] EXCEPT !.at = "charge", !.leave = q]
<1>0. /\ absence[h].at = "insert approved" /\ Step
      /\ leaves[q].status = "absent"
      /\ Inserted(h, q, "approved") /\ absence[h].of = Boss
      /\ UNCHANGED <<allowed, used, balance, disputed, pooled, dropped>>
  BY DEF InsertApproved, leaveHistory, LeaveIInv, DeskOK
<1>1. /\ leaves' \in [Leaves -> LeaveRecord]
      /\ \A p \in Leaves \ {q} : leaves'[p] = leaves[p]
      /\ leaves'[q].of = Boss /\ leaves'[q].status = "approved"
      /\ leaves'[q].from = absence[h].from /\ leaves'[q].to = absence[h].to
      /\ \A g \in Handlers : absence[g].leave # q
  BY <1>0, InsertedFacts
<1>2. /\ charge \in LeaveJob /\ charge.at = "charge" /\ charge.leave = q
      /\ charge.from = absence[h].from /\ charge.to = absence[h].to
  BY LeaveJobFacts DEF LeaveIInv, LeaveJob
<1>3. LeaveMoves(h, charge) \/ LeaveMoves(h, AtDesk)
  BY <1>2, Closes, LeaveTypeFacts DEF LeaveIInv, InsertApproved, LeaveMoves
<1>4. PICK t : /\ LeaveMoves(h, t) /\ t.at \in {"charge", "idle"}
               /\ t.at = "charge" => t.leave = q
               /\ t.at = "idle" => t.leave = NoLeave
               /\ t.from <= t.to
  BY <1>2, <1>3, DeskFacts DEF LeaveIInv, DeskOK
<1> HIDE DEF charge
<1>5. /\ absence' \in [Handlers -> LeaveJob] /\ absence'[h] = t
      /\ \A g \in Handlers \ {h} : absence'[g] = absence[g]
  BY <1>4, LeaveMovesFacts DEF LeaveIInv
<1>6. LeaveTypeOK'
  BY <1>0, <1>1, <1>5, LeaveCountersTyped, LeaveTypeFacts
     DEF LeaveIInv, LeaveTypeOK
<1>7. \A g \in Handlers \ {h} : DeskOK(g)'
  BY <1>0, <1>1, <1>4, LeaveOthersOK
<1>8. DeskOK(h)'
  BY <1>1, <1>4, <1>5, LeaveAssumption DEF DeskOK
<1>9. \A g \in Handlers, p \in Leaves :
          LeaveAt(g, p, "deduct")' => p # q /\ LeaveAt(g, p, "deduct")
  BY <1>1, <1>4, <1>5 DEF LeaveAt
<1>10. ASSUME NEW p \in Leaves PROVE LeaveOK(p)'
  <2>1. CASE p # q
    BY <1>0, <1>1, <1>9, <2>1 DEF LeaveIInv, LeaveOK
  <2>2. CASE p = q
    BY <1>1, <1>9, <2>2 DEF LeaveIInv, LeaveOK, DeskOK
  <2> QED BY <2>1, <2>2
<1>11. ASSUME NEW x \in Staff, x # Boss PROVE StaffOK(x)'
  <2>1. StaffOK(x)
    BY DEF LeaveIInv
  <2>2. \A g \in Handlers :
            Asking(g, x)' => Asking(g, x) /\ absence'[g] = absence[g]
    BY <1>4, <1>5 DEF Asking
  <2>3. \A p \in Leaves : Open(p, x)' => Open(p, x)
    BY <1>1, <1>4, <1>5, <1>11, LeaveAssumption DEF Open
  <2>4. AloneOK(x) => AloneOK(x)'
    BY <2>2 DEF AloneOK
  <2>5. FreeOK(x) => FreeOK(x)'
    BY <1>0, <1>1, <1>4, <1>5, <1>11 DEF FreeOK, Standing
  <2>6. OneOpen(x) => OneOpen(x)'
    BY <1>0, <2>2, <2>3 DEF OneOpen
  <2>7. Within(x) => Within(x)'
    <3>1. \A p \in Leaves \ {q} : Due(p)' => Due(p)
      BY <1>1, <1>9 DEF Due
    <3>2. q \notin disputed
      BY <1>0 DEF LeaveIInv, LeaveOK
    <3>3. Undisputed(x)' => Undisputed(x)
      BY <1>0, <1>1, <3>2 DEF Undisputed
    <3>4. \A g \in Handlers : absence'[g].at = "insert" =>
              absence'[g] = absence[g]
      BY <1>4, <1>5
    <3> QED BY <1>0, <1>1, <1>11, <3>1, <3>3, <3>4, WithinKept
  <2> QED BY <1>0, <2>1, <2>4, <2>5, <2>6, <2>7 DEF StaffOK
<1>12. NoDayTwice'
  <2> SUFFICES ASSUME NEW x \in Leaves \ disputed',
                      NEW y \in Leaves \ disputed',
                      x # y, leaves'[x].of = leaves'[y].of,
                      leaves'[x].of \notin disputed' \union {Boss},
                      Standing(x)', Standing(y)'
               PROVE  ~Overlap(leaves'[x], leaves'[y])
    BY DEF NoDayTwice, Overlap
  <2>1. x # q /\ y # q
    BY <1>1
  <2>2. leaves'[x] = leaves[x] /\ leaves'[y] = leaves[y]
    BY <1>1, <2>1
  <2>3. Standing(x) /\ Standing(y)
    BY <2>2 DEF Standing
  <2> QED BY <1>0, <2>2, <2>3 DEF LeaveIInv, NoDayTwice
<1> QED BY <1>6, <1>7, <1>8, <1>10, <1>11, <1>12 DEF LeaveIInv, StaffOK

-----------------------------------------------------------------------------
(* Decisions *)

\* Leave q gets status s from request h, which found it pending.
LEMMA StatusFacts ==
    ASSUME LeaveTypeOK, NEW q \in Leaves, NEW s \in LeaveStatus,
           leaves' = [leaves EXCEPT ![q].status = s]
    PROVE  /\ leaves' \in [Leaves -> LeaveRecord]
           /\ \A p \in Leaves \ {q} : leaves'[p] = leaves[p]
           /\ leaves'[q].of = leaves[q].of /\ leaves'[q].status = s
           /\ leaves'[q].annual = leaves[q].annual
           /\ leaves'[q].from = leaves[q].from /\ leaves'[q].to = leaves[q].to
BY LeaveTypeFacts DEF LeaveRecord

LEMMA DecidedSafe ==
    ASSUME LeaveIInv, NEW h \in Handlers, NEW q \in Leaves, NEW t,
           LeaveMoves(h, t),
           NEW s \in {"approved", "rejected", "cancelled"}, Step,
           absence[h].leave = q, absence[h].at \in {"review", "cancel"},
           leaves' = [leaves EXCEPT ![q].status = s], NoteDispute(q),
           t.at \in {"idle", "deduct"}, t.from <= t.to,
           t.at = "idle" => t.leave = NoLeave,
           t.at = "deduct" => t.leave = q /\ leaves[q].annual,
           UNCHANGED <<allowed, used, balance, pooled, dropped>>
    PROVE  LeaveIInv'
<1>1. /\ absence' \in [Handlers -> LeaveJob] /\ absence'[h] = t
      /\ \A g \in Handlers \ {h} : absence'[g] = absence[g]
  BY LeaveMovesFacts DEF LeaveIInv
<1>2. /\ leaves' \in [Leaves -> LeaveRecord]
      /\ \A p \in Leaves \ {q} : leaves'[p] = leaves[p]
      /\ leaves'[q].of = leaves[q].of /\ leaves'[q].status = s
      /\ leaves'[q].annual = leaves[q].annual
      /\ leaves'[q].from = leaves[q].from /\ leaves'[q].to = leaves[q].to
  BY StatusFacts DEF LeaveIInv, LeaveStatus
<1>3. /\ disputed \subseteq disputed' /\ disputed' \subseteq disputed \union {q}
      /\ q \notin disputed' => leaves[q].status = "pending"
      /\ leaves[q].status # "absent"
  BY DEF NoteDispute, LeaveIInv, DeskOK
<1>4. LeaveTypeOK'
  BY <1>1, <1>2, <1>3, LeaveCountersTyped, LeaveTypeFacts
     DEF LeaveIInv, LeaveTypeOK
<1>5. \A g \in Handlers \ {h} : DeskOK(g)'
  BY <1>2, LeaveOthersOK
<1>6. DeskOK(h)'
  BY <1>1, <1>2, LeaveAssumption DEF DeskOK
<1>7. \A g \in Handlers, p \in Leaves :
          LeaveAt(g, p, "deduct")' =>
              LeaveAt(g, p, "deduct") \/ (g = h /\ p = q)
  BY <1>1, LeaveAssumption DEF LeaveAt
<1>8. ASSUME NEW p \in Leaves PROVE LeaveOK(p)'
  <2>1. LeaveOK(p)
    BY DEF LeaveIInv
  <2>2. CASE p # q
    BY <1>2, <1>3, <1>7, <2>1, <2>2 DEF LeaveOK
  <2>3. CASE p = q
    <3>1. q \notin disputed' =>
              \A g \in Handlers : LeaveAt(g, q, "deduct")' => g = h
      BY <1>3, <1>7, <2>1, <2>3 DEF LeaveOK
    <3> QED BY <1>2, <1>3, <2>1, <2>3, <3>1 DEF LeaveOK
  <2> QED BY <2>2, <2>3
<1>9. ASSUME NEW x \in Staff PROVE StaffOK(x)'
  <2>1. StaffOK(x)
    BY DEF LeaveIInv
  <2>2. \A g \in Handlers :
            Asking(g, x)' => Asking(g, x) /\ absence'[g] = absence[g]
    BY <1>1 DEF Asking
  <2>3. \A p \in Leaves : Open(p, x)' => Open(p, x)
    BY <1>1, <1>2, LeaveAssumption DEF Open
  <2>4. AloneOK(x) => AloneOK(x)'
    BY <2>2 DEF AloneOK
  <2>5. \A p \in Leaves \ disputed' : Standing(p)' => Standing(p)
    BY <1>2, <1>3 DEF Standing
  <2>6. FreeOK(x) => FreeOK(x)'
    BY <1>1, <1>2, <1>3, <2>5 DEF FreeOK, Overlap
  <2>7. OneOpen(x) => OneOpen(x)'
    BY <2>2, <2>3 DEF OneOpen
  <2>8. Within(x) => Within(x)'
    <3> SUFFICES ASSUME Within(x), x \notin pooled, Undisputed(x)'
                 PROVE  Within(x)'
      BY DEF Within
    <3>1. Undisputed(x)
      BY <1>2, <1>3 DEF Undisputed
    <3>2. used'[x] <= allowed'
      BY <3>1 DEF Within
    <3>3. ASSUME NEW g \in Handlers, absence'[g].of = x,
                 absence'[g].at = "insert", absence'[g].annual
          PROVE  used'[x] + Length(absence'[g]) <= allowed'
      BY <1>1, <3>1, <3>3 DEF Within
    <3>4. ASSUME NEW p \in Leaves, leaves'[p].of = x, leaves'[p].annual,
                 Due(p)'
          PROVE  used'[x] + Length(leaves'[p]) <= allowed'
      <4>1. p = q => leaves[q].status = "pending"
        BY <1>2, <1>3, <3>4 DEF Undisputed
      <4>2. Due(p) /\ leaves[p].of = x /\ leaves[p].annual
        BY <1>2, <1>7, <3>4, <4>1 DEF Due
      <4>3. used[x] + Length(leaves[p]) <= allowed
        BY <3>1, <4>2 DEF Within
      <4> QED BY <1>2, <4>3 DEF Length
    <3> QED BY <3>2, <3>3, <3>4 DEF Within, Length
  <2> QED BY <1>3, <2>1, <2>4, <2>6, <2>7, <2>8 DEF StaffOK
<1>10. NoDayTwice'
  <2>1. \A p \in Leaves \ disputed' : Standing(p)' => Standing(p)
    BY <1>2, <1>3 DEF Standing
  <2>2. \A p \in Leaves : /\ leaves'[p].of = leaves[p].of
                          /\ leaves'[p].from = leaves[p].from
                          /\ leaves'[p].to = leaves[p].to
    BY <1>2
  <2> QED BY <1>3, <2>1, <2>2 DEF LeaveIInv, NoDayTwice, Overlap
<1> QED BY <1>4, <1>5, <1>6, <1>8, <1>9, <1>10 DEF LeaveIInv

LEMMA SaveReviewSafe ==
    ASSUME LeaveIInv, NEW h \in Handlers, SaveReview(h)
    PROVE  LeaveIInv'
<1> PICK q \in Leaves : absence[h].leave = q
  BY DEF LeaveIInv, DeskOK, SaveReview
<1> DEFINE deduct == [absence[h] EXCEPT !.at = "deduct"]
<1>1. /\ deduct \in LeaveJob /\ deduct.at = "deduct" /\ deduct.leave = q
      /\ deduct.from = absence[h].from /\ deduct.to = absence[h].to
  BY LeaveJobFacts DEF LeaveIInv, LeaveJob
<1>2. \/ LeaveMoves(h, deduct) /\ leaves[q].annual
      \/ LeaveMoves(h, AtDesk)
  BY <1>1, Closes, LeaveTypeFacts DEF LeaveIInv, SaveReview, Counts, Proceed,
                                      LeaveMoves
<1> HIDE DEF deduct
<1>3. PICK s \in {"approved", "rejected"} :
          leaves' = [leaves EXCEPT ![q].status = s]
  BY DEF SaveReview
<1>4. /\ absence[h].at = "review" /\ Step /\ NoteDispute(q)
      /\ UNCHANGED <<allowed, used, balance, pooled, dropped>>
  BY DEF SaveReview
<1>5. CASE LeaveMoves(h, deduct) /\ leaves[q].annual
  BY <1>1, <1>3, <1>4, <1>5, DecidedSafe DEF LeaveIInv, DeskOK
<1>6. CASE LeaveMoves(h, AtDesk)
  BY <1>3, <1>4, <1>6, DeskFacts, DecidedSafe
<1> QED BY <1>2, <1>5, <1>6

LEMMA SaveCancelledSafe ==
    ASSUME LeaveIInv, NEW h \in Handlers, SaveCancelled(h)
    PROVE  LeaveIInv'
<1>1. absence[h].leave \in Leaves
  BY DEF LeaveIInv, DeskOK, SaveCancelled
<1> QED BY <1>1, Closes, DeskFacts, DecidedSafe DEF SaveCancelled

\* The days are counted: they fit, and they are not due any more.
LEMMA DeductDaysSafe ==
    ASSUME LeaveIInv, NEW h \in Handlers, DeductDays(h)
    PROVE  LeaveIInv'
<1> PICK q \in Leaves : absence[h].leave = q
  BY DEF LeaveIInv, DeskOK, DeductDays
<1> PICK e \in Staff : e = leaves[q].of
  BY RecordFacts DEF LeaveIInv
<1>0. /\ LeaveAt(h, q, "deduct") /\ leaves[q].annual
      /\ Step /\ CloseDesk(h)
      /\ UNCHANGED <<leaves, allowed, balance, disputed, pooled, dropped>>
  BY DEF DeductDays, LeaveAt, LeaveIInv, DeskOK, leaveHistory
<1>1. /\ LeaveMoves(h, AtDesk)
      /\ absence' \in [Handlers -> LeaveJob] /\ absence'[h] = AtDesk
      /\ \A g \in Handlers \ {h} : absence'[g] = absence[g]
  BY <1>0, Closes, LeaveMovesFacts DEF LeaveIInv
<1>2. Length(leaves[q]) \in Nat
  BY RecordFacts DEF LeaveIInv, LeaveOK, Length
<1>3. /\ used' \in [Staff -> Nat]
      /\ used'[e] = used[e] + Length(leaves[q])
      /\ \A x \in Staff \ {e} : used'[x] = used[x]
  BY <1>2, LeaveTypeFacts DEF LeaveIInv, DeductDays
<1>4. LeaveTypeOK'
  BY <1>0, <1>1, <1>3, LeaveCountersTyped, LeaveTypeFacts
     DEF LeaveIInv, LeaveTypeOK
<1>5. \A g \in Handlers \ {h} : DeskOK(g)'
  BY <1>0, <1>1, LeaveOthersOK
<1>6. DeskOK(h)'
  BY <1>1, DeskFacts, LeaveAssumption DEF DeskOK
<1>7. \A g \in Handlers, p \in Leaves :
          LeaveAt(g, p, "deduct")' => g # h /\ LeaveAt(g, p, "deduct")
  BY <1>1, DeskFacts DEF LeaveAt
<1>8. ASSUME NEW p \in Leaves PROVE LeaveOK(p)'
  BY <1>0, <1>7 DEF LeaveIInv, LeaveOK
<1>9. \A g \in Handlers, x \in Staff :
          Asking(g, x)' => Asking(g, x) /\ absence'[g] = absence[g]
  BY <1>1, DeskFacts DEF Asking
<1>10. \A p \in Leaves, x \in Staff : Open(p, x)' => Open(p, x)
  BY <1>0, <1>1, DeskFacts, LeaveAssumption DEF Open
<1>11. Open(q, e)
  BY <1>0 DEF Open, LeaveAt
<1>12. ASSUME NEW x \in Staff PROVE StaffOK(x)'
  <2>1. StaffOK(x)
    BY DEF LeaveIInv
  <2>2. AloneOK(x) => AloneOK(x)'
    BY <1>9 DEF AloneOK
  <2>3. FreeOK(x) => FreeOK(x)'
    BY <1>0, <1>1, DeskFacts DEF FreeOK, Standing
  <2>4. OneOpen(x) => OneOpen(x)'
    <3> SUFFICES ASSUME OneOpen(x), x \notin pooled' PROVE OneOpen(x)'
      BY DEF OneOpen
    <3>1. ASSUME NEW g \in Handlers, Asking(g, x)'
          PROVE  absence'[g].used = used'[x]
                 /\ \A p \in Leaves : ~Open(p, x)'
      <4>1. x # e
        BY <1>0, <1>9, <1>11, <3>1 DEF OneOpen
      <4> QED BY <1>0, <1>3, <1>9, <1>10, <3>1, <4>1 DEF OneOpen
    <3> QED BY <1>0, <1>10, <3>1 DEF OneOpen
  <2>5. OneOpen(x) /\ Within(x) => Within(x)'
    <3> SUFFICES ASSUME OneOpen(x), Within(x), x \notin pooled,
                        Undisputed(x)
                 PROVE  Within(x)'
      BY <1>0 DEF Within, Undisputed
    <3>1. \A p \in Leaves : Due(p)' => Due(p)
      BY <1>0, <1>7 DEF Due
    <3>2. CASE x # e
      <4>1. used'[x] = used[x]
        BY <1>3, <3>2
      <4>2. \A g \in Handlers : absence'[g].at = "insert" =>
                absence'[g] = absence[g]
        BY <1>1, DeskFacts
      <4> QED BY <1>0, <3>1, <4>1, <4>2 DEF Within, Length
    <3>3. CASE x = e
      <4>1. Due(q)
        BY <1>0 DEF Due
      <4>2. used'[e] <= allowed'
        BY <1>0, <1>3, <3>3, <4>1 DEF Within
      <4>3. \A g \in Handlers :
                ~(absence'[g].of = e /\ absence'[g].at = "insert")
        BY <1>0, <1>9, <1>11, <3>3 DEF OneOpen, Asking
      <4>4. ~Due(q)'
        <5>1. q \notin disputed
          BY <1>0, <3>3 DEF Undisputed
        <5> QED BY <1>0, <1>7, <5>1 DEF LeaveIInv, LeaveOK, Due
      <4>5. \A p \in Leaves :
                ~(leaves'[p].of = e /\ leaves'[p].annual /\ Due(p)')
        <5>1. \A p \in Leaves :
                  leaves[p].of = e /\ leaves[p].annual /\ Due(p) => Open(p, e)
          BY DEF Due, Open, LeaveAt
        <5> QED BY <1>0, <1>11, <3>1, <3>3, <4>4, <5>1 DEF OneOpen
      <4> QED BY <3>3, <4>2, <4>3, <4>5 DEF Within
    <3> QED BY <3>2, <3>3
  <2> QED BY <1>0, <2>1, <2>2, <2>3, <2>4, <2>5 DEF StaffOK
<1>13. NoDayTwice'
  BY <1>0 DEF LeaveIInv, NoDayTwice, Standing
<1> QED BY <1>4, <1>5, <1>6, <1>8, <1>12, <1>13 DEF LeaveIInv

LEMMA UpsertPolicySafe ==
    ASSUME LeaveIInv, NEW days \in Allowances, UpsertPolicy(days)
    PROVE  LeaveIInv'
<1>0. /\ UNCHANGED <<leaves, used, balance, absence, disputed, dropped>>
      /\ allowed' = days /\ days \in Nat /\ allowed \in Nat
      /\ pooled \subseteq pooled' /\ pooled' \subseteq pooled \union Staff
      /\ allowed' < allowed => Staff \subseteq pooled'
  BY LeaveAssumption, LeaveTypeFacts DEF UpsertPolicy, LeaveIInv, LeaveTypeOK
<1>1. LeaveTypeOK'
  BY <1>0, LeaveCountersTyped, LeaveTypeFacts
     DEF LeaveIInv, LeaveTypeOK, UpsertPolicy
<1>2. \A h \in Handlers : DeskOK(h)'
  BY <1>0 DEF LeaveIInv, DeskOK
<1>3. \A q \in Leaves : LeaveOK(q)'
  BY <1>0 DEF LeaveIInv, LeaveOK, LeaveAt
<1>4. ASSUME NEW x \in Staff PROVE StaffOK(x)'
  <2>1. StaffOK(x)
    BY DEF LeaveIInv
  <2>2. AloneOK(x) => AloneOK(x)'
    BY <1>0 DEF AloneOK, Asking
  <2>3. FreeOK(x) => FreeOK(x)'
    BY <1>0 DEF FreeOK, Standing
  <2>4. OneOpen(x) => OneOpen(x)'
    BY <1>0 DEF OneOpen, Asking, Open
  <2>5. Within(x) => Within(x)'
    <3> SUFFICES ASSUME Within(x), x \notin pooled', Undisputed(x)
                 PROVE  Within(x)'
      BY <1>0 DEF Within, Undisputed
    <3>1. allowed <= allowed'
      BY <1>0
    <3>2. used[x] \in Nat /\ used[x] <= allowed
      BY <1>0, LeaveTypeFacts DEF Within, LeaveIInv
    <3>3. ASSUME NEW g \in Handlers, absence[g].of = x,
                 absence[g].at = "insert", absence[g].annual
          PROVE  used[x] + Length(absence[g]) <= allowed'
      <4>1. used[x] + Length(absence[g]) <= allowed
        BY <1>0, <3>3 DEF Within
      <4>2. Length(absence[g]) \in Int
        BY LeaveJobFacts DEF LeaveIInv, Length
      <4> QED BY <1>0, <3>1, <3>2, <4>1, <4>2
    <3>4. ASSUME NEW p \in Leaves, leaves[p].of = x, leaves[p].annual, Due(p)
          PROVE  used[x] + Length(leaves[p]) <= allowed'
      <4>1. used[x] + Length(leaves[p]) <= allowed
        BY <1>0, <3>4 DEF Within
      <4>2. Length(leaves[p]) \in Int
        BY RecordFacts DEF LeaveIInv, Length
      <4> QED BY <1>0, <3>1, <3>2, <4>1, <4>2
    <3>5. \A p \in Leaves : Due(p)' <=> Due(p)
      BY <1>0 DEF Due, LeaveAt
    <3> QED BY <1>0, <3>1, <3>2, <3>3, <3>4, <3>5 DEF Within, Length
  <2> QED BY <1>0, <2>1, <2>2, <2>3, <2>4, <2>5 DEF StaffOK
<1>5. NoDayTwice'
  BY <1>0 DEF LeaveIInv, NoDayTwice, Standing
<1> QED BY <1>1, <1>2, <1>3, <1>4, <1>5 DEF LeaveIInv

-----------------------------------------------------------------------------
(* The theorems *)

LEMMA LeaveInitSafe == LeaveInit => LeaveIInv
<1> SUFFICES ASSUME LeaveInit PROVE LeaveIInv
  OBVIOUS
<1>1. LeaveTypeOK
  <2>1. [of |-> Boss, status |-> "absent", annual |-> FALSE, from |-> 0,
         to |-> 0] \in LeaveRecord
    BY LeaveAssumption DEF LeaveRecord, LeaveStatus
  <2> QED BY <2>1, DeskFacts, LeaveAssumption DEF LeaveInit, LeaveTypeOK
<1>2. /\ \A h \in Handlers : absence[h] = AtDesk
      /\ \A q \in Leaves : leaves[q].status = "absent" /\ leaves[q].from = 0
                           /\ leaves[q].to = 0
      /\ disputed = {} /\ allowed \in Nat /\ \A e \in Staff : used[e] = 0
  BY LeaveAssumption DEF LeaveInit
<1>3. \A h \in Handlers : DeskOK(h)
  BY <1>2, DeskFacts, LeaveAssumption DEF DeskOK
<1>4. \A q \in Leaves : LeaveOK(q)
  BY <1>2, DeskFacts DEF LeaveOK, LeaveAt
<1>5. ASSUME NEW e \in Staff PROVE StaffOK(e)
  <2>1. \A h \in Handlers : ~Asking(h, e)
    BY <1>2, DeskFacts DEF Asking
  <2>2. \A q \in Leaves : ~Open(q, e) /\ ~Due(q)
    BY <1>2, DeskFacts, LeaveAssumption DEF Open, Due, LeaveAt
  <2>3. AloneOK(e) /\ FreeOK(e) /\ OneOpen(e)
    BY <2>1, <2>2 DEF AloneOK, FreeOK, OneOpen, Asking
  <2>4. Within(e)
    BY <1>2, <2>2, DeskFacts DEF Within
  <2> QED BY <2>3, <2>4 DEF StaffOK
<1>6. NoDayTwice
  BY <1>2 DEF NoDayTwice, Standing
<1> QED BY <1>1, <1>3, <1>4, <1>5, <1>6 DEF LeaveIInv

\* Steps elsewhere, which only count requests and faults.
LEMMA LeaveRests ==
    ASSUME LeaveIInv, requests' \in Nat, faults' \in Nat,
           UNCHANGED <<leaves, allowed, used, balance, absence, disputed,
                       pooled, dropped>>
    PROVE  LeaveIInv'
<1>1. LeaveTypeOK'
  BY DEF LeaveIInv, LeaveTypeOK
<1>2. \A h \in Handlers : DeskOK(h)'
  BY DEF LeaveIInv, DeskOK
<1>3. \A q \in Leaves : LeaveOK(q)'
  BY DEF LeaveIInv, LeaveOK, LeaveAt
<1>4. ASSUME NEW x \in Staff PROVE StaffOK(x)'
  <2>1. AloneOK(x) => AloneOK(x)'
    BY DEF AloneOK, Asking
  <2>2. FreeOK(x) => FreeOK(x)'
    BY DEF FreeOK, Standing
  <2>3. OneOpen(x) => OneOpen(x)'
    BY DEF OneOpen, Asking, Open
  <2>4. Within(x) => Within(x)'
    BY DEF Within, Undisputed, Due, LeaveAt, Length
  <2> QED BY <2>1, <2>2, <2>3, <2>4 DEF LeaveIInv, StaffOK
<1>5. NoDayTwice'
  BY DEF LeaveIInv, NoDayTwice, Standing
<1> QED BY <1>1, <1>2, <1>3, <1>4, <1>5 DEF LeaveIInv

LEMMA LeaveStepSafe == LeaveIInv /\ [LeaveNext]_leaveVars => LeaveIInv'
<1> SUFFICES ASSUME LeaveIInv, [LeaveNext]_leaveVars PROVE LeaveIInv'
  OBVIOUS
<1>1. CASE \E days \in Allowances : UpsertPolicy(days)
  BY <1>1, UpsertPolicySafe
<1>2. ASSUME NEW h \in Handlers,
             \E e \in Staff, annual \in BOOLEAN, from, to \in Days :
                 AskLeave(h, e, annual, from, to)
      PROVE  LeaveIInv'
  BY <1>2, AskLeaveSafe
<1>3. ASSUME NEW h \in Handlers, NEW q \in Leaves,
             \/ \E approve \in BOOLEAN : Review(h, q, approve)
             \/ CancelLeave(h, q) \/ InsertLeave(h, q) \/ InsertApproved(h, q)
      PROVE  LeaveIInv'
  <2>1. CASE \E approve \in BOOLEAN : Review(h, q, approve)
    BY <2>1, FoundPendingSafe
  <2>2. CASE CancelLeave(h, q)
    BY <2>2, FoundPendingSafe
  <2>3. CASE InsertLeave(h, q) \/ InsertApproved(h, q)
    BY <2>3, InsertLeaveSafe, InsertApprovedSafe
  <2> QED BY <1>3, <2>1, <2>2, <2>3
<1>4. ASSUME NEW h \in Handlers,
             \/ CheckLeave(h) \/ ChargeOwner(h) \/ SaveReview(h)
             \/ DeductDays(h) \/ SaveCancelled(h) \/ LeaveFault(h)
      PROVE  LeaveIInv'
  BY <1>4, CheckLeaveSafe, ChargeOwnerSafe, SaveReviewSafe, DeductDaysSafe,
     SaveCancelledSafe, LeaveFaultSafe
<1>5. CASE UNCHANGED leaveVars
  <2>1. requests' \in Nat /\ faults' \in Nat
    BY <1>5 DEF leaveVars, LeaveIInv, LeaveTypeOK
  <2> QED BY <1>5, <2>1, LeaveRests DEF leaveVars, leaveHistory
<1>6. CASE LeaveNext
  BY <1>1, <1>2, <1>3, <1>4, <1>6 DEF LeaveNext
<1> QED BY <1>5, <1>6

LEMMA LeaveInvariance == LeaveSpec => []LeaveIInv
BY LeaveInitSafe, LeaveStepSafe, PTL DEF LeaveSpec

\* Every variable of leave keeps its type: the days used never go below zero.
THEOREM LeaveTypeCorrect == LeaveSpec => []LeaveTypeOK
<1>1. LeaveIInv => LeaveTypeOK
  BY DEF LeaveIInv
<1> QED BY <1>1, LeaveInvariance, PTL

\* However much leave there is and however long it is, nobody has two leaves
\* on one day, unless requests of one employee, or decisions on one leave,
\* ran side by side.
THEOREM NoDayIsTakenTwice == LeaveSpec => []NoDayTwice
<1>1. LeaveIInv => NoDayTwice
  BY DEF LeaveIInv
<1> QED BY <1>1, LeaveInvariance, PTL

LEMMA AllowanceFollows == ASSUME LeaveIInv PROVE WithinAllowance
BY DEF LeaveIInv, WithinAllowance, Orderly, StaffOK, Within, Undisputed

\* For every policy, the days used stay within it, unless the policy was cut,
\* requests were open together, or decisions on one leave ran side by side.
\* Leave that a fault left half done only makes the count smaller.
THEOREM AllowanceHolds == LeaveSpec => []WithinAllowance
<1>1. LeaveIInv => WithinAllowance
  BY AllowanceFollows
<1> QED BY <1>1, LeaveInvariance, PTL

-----------------------------------------------------------------------------
(* The days that count *)

(***************************************************************************)
(* What ties the days used to the leave approved: as long as all leave of  *)
(* an employee was decided on by one request at a time and no fault cut a  *)
(* decision short, what counts is the approved leave that no request still *)
(* has to deduct.                                                          *)
(***************************************************************************)
DeskOf(h) ==
    absence[h].leave \in Leaves =>
        absence[h].of = leaves[absence[h].leave].of
LeaveKept(q) ==
    /\ q \in dropped => leaves[q].status # "absent"
    /\ q \notin disputed =>
           \A h \in Handlers : LeaveAt(h, q, "deduct") =>
               leaves[q].status = "approved"

DaysOf(S) == SumFunctionOnSet([q \in Leaves |-> Length(leaves[q])], S)
Counting(q) ==
    /\ leaves[q].annual /\ leaves[q].status = "approved"
    /\ \A h \in Handlers : ~LeaveAt(h, q, "deduct")
Counted(e) == {q \in Leaves : leaves[q].of = e /\ Counting(q)}
Complete(e) ==
    \A q \in disputed \union dropped : q \in Leaves => leaves[q].of # e
CountOK(e) == Complete(e) => used[e] = DaysOf(Counted(e))

DaysOK ==
    /\ \A h \in Handlers : DeskOf(h)
    /\ \A q \in Leaves : LeaveKept(q)
    /\ \A e \in Staff \ {Boss} : CountOK(e)

LEMMA DaysTyped ==
    ASSUME LeaveIInv, NEW q \in Leaves PROVE Length(leaves[q]) \in Nat
<1>1. leaves[q].from \in Nat /\ leaves[q].to \in Nat
      /\ leaves[q].from <= leaves[q].to
  BY RecordFacts DEF LeaveIInv, LeaveOK
<1> QED
  BY <1>1 DEF Length

LEMMA CountedFinite ==
    ASSUME NEW e PROVE IsFiniteSet(Counted(e)) /\ Counted(e) \subseteq Leaves
<1>1. Counted(e) \subseteq Leaves
  BY DEF Counted
<1> QED
  BY <1>1, LeaveAssumption, FS_Subset

\* A step that deducts nothing, after which the same leave counts, leave
\* apart that came to be disputed, was cut short or is the owner's.
LEMMA SameCounts ==
    ASSUME LeaveIInv, DaysOK, UNCHANGED used, dropped \subseteq dropped',
           disputed \subseteq disputed',
           \A q \in Leaves : leaves[q].status # "absent" =>
               /\ leaves'[q].of = leaves[q].of
               /\ leaves'[q].from = leaves[q].from
               /\ leaves'[q].to = leaves[q].to,
           \A q \in Leaves :
               q \notin disputed' \union dropped' /\ leaves'[q].of # Boss =>
                   (Counting(q)' <=> Counting(q)),
           NEW e \in Staff \ {Boss}
    PROVE  CountOK(e)'
<1> SUFFICES ASSUME Complete(e)' PROVE used'[e] = DaysOf(Counted(e))'
  BY DEF CountOK
<1>1. \A q \in disputed \union dropped : q \in Leaves =>
          leaves[q].status # "absent"
  BY DEF LeaveIInv, LeaveOK, DaysOK, LeaveKept
<1>2. Complete(e)
  BY <1>1 DEF Complete
<1>3. \A q \in Leaves : Counting(q) => leaves[q].status # "absent"
  BY DEF Counting
<1>4. ASSUME NEW q \in Leaves PROVE q \in Counted(e)' <=> q \in Counted(e)
  <2>1. leaves'[q].of = e => (Counting(q)' <=> Counting(q))
    BY DEF Complete
  <2>2. leaves'[q].of = e /\ Counting(q) => leaves[q].of = e
    BY <1>3
  <2>3. leaves[q].of = e /\ Counting(q) => leaves'[q].of = e
    BY <1>3
  <2> QED
    BY <2>1, <2>2, <2>3 DEF Counted
<1>5. Counted(e)' = Counted(e)
  BY <1>4, CountedFinite DEF Counted
<1> DEFINE f == [q \in Leaves |-> Length(leaves[q])]
           g == [q \in Leaves |-> Length(leaves'[q])]
<1>6. \A q \in Counted(e) : f[q] = g[q]
  BY <1>3 DEF Counted, Length
<1> HIDE DEF f, g
<1>7. SumFunctionOnSet(f, Counted(e)) = SumFunctionOnSet(g, Counted(e))
  BY <1>6, CountedFinite, SumSame
<1>8. DaysOf(Counted(e)) = SumFunctionOnSet(f, Counted(e))
  BY DEF DaysOf, f
<1>9. DaysOf(Counted(e))' = SumFunctionOnSet(g, Counted(e))
  BY <1>5 DEF DaysOf, g, Length
<1> QED
  BY <1>2, <1>7, <1>8, <1>9 DEF DaysOK, CountOK

\* A request that neither decides nor deducts.
LEMMA DaysAside ==
    ASSUME LeaveIInv, DaysOK, NEW h \in Handlers, NEW t, LeaveMoves(h, t),
           absence[h].at = "deduct" => absence[h].leave \in dropped',
           t.at # "deduct",
           t.leave \in Leaves => t.of = leaves[t.leave].of,
           UNCHANGED <<leaves, used>>,
           disputed \subseteq disputed',
           \A q \in disputed' \ disputed : q \notin Leaves,
           dropped \subseteq dropped',
           \A q \in dropped' \ dropped : q = absence[h].leave
    PROVE  DaysOK'
<1>1. absence'[h] = t /\ \A g \in Handlers \ {h} : absence'[g] = absence[g]
  BY LeaveMovesFacts DEF LeaveIInv
<1>2. \A g \in Handlers : DeskOf(g)'
  BY <1>1 DEF DaysOK, DeskOf
<1>3. \A g \in Handlers, q \in Leaves :
          /\ LeaveAt(g, q, "deduct")' => LeaveAt(g, q, "deduct")
          /\ q \notin dropped' => (LeaveAt(g, q, "deduct") =>
                 LeaveAt(g, q, "deduct")')
  BY <1>1 DEF LeaveAt
<1>4. ASSUME NEW q \in Leaves PROVE LeaveKept(q)'
  <2>1. LeaveKept(q)
    BY DEF DaysOK
  <2>2. q \in dropped' => leaves'[q].status # "absent"
    BY <2>1 DEF LeaveKept, LeaveIInv, DeskOK
  <2> QED
    BY <1>3, <2>1, <2>2 DEF LeaveKept
<1>5. \A q \in Leaves : q \notin dropped' => (Counting(q)' <=> Counting(q))
  BY <1>3 DEF Counting
<1>6. \A e \in Staff \ {Boss} : CountOK(e)'
  BY <1>5, SameCounts
<1> QED
  BY <1>2, <1>4, <1>6 DEF DaysOK

\* A step that is none of a request.
LEMMA DaysQuiet ==
    ASSUME LeaveIInv, DaysOK, UNCHANGED <<leaves, used, absence, disputed,
                                          dropped>>
    PROVE  DaysOK'
<1>1. \A g \in Handlers : DeskOf(g)'
  BY DEF DaysOK, DeskOf
<1>2. \A g \in Handlers, q \in Leaves :
          LeaveAt(g, q, "deduct")' <=> LeaveAt(g, q, "deduct")
  BY DEF LeaveAt
<1>3. \A q \in Leaves : LeaveKept(q)'
  BY <1>2 DEF DaysOK, LeaveKept
<1>4. \A q \in Leaves : Counting(q)' <=> Counting(q)
  BY <1>2 DEF Counting
<1>5. \A e \in Staff \ {Boss} : CountOK(e)'
  BY <1>4, SameCounts
<1> QED
  BY <1>1, <1>3, <1>5 DEF DaysOK

\* Leave is entered: it does not count yet, or is the owner's.
LEMMA DaysInserted ==
    ASSUME LeaveIInv, DaysOK, NEW h \in Handlers, NEW q \in Leaves,
           NEW status \in {"pending", "approved"},
           leaves[q].status = "absent", Inserted(h, q, status),
           status = "approved" => absence[h].of = Boss,
           absence[h].at # "deduct", NEW t, LeaveMoves(h, t), t.at # "deduct",
           t.leave \in Leaves => t.leave = q /\ t.of = absence[h].of,
           UNCHANGED <<used, disputed, dropped>>
    PROVE  DaysOK'
<1>1. absence'[h] = t /\ \A g \in Handlers \ {h} : absence'[g] = absence[g]
  BY LeaveMovesFacts DEF LeaveIInv
<1>2. /\ \A p \in Leaves \ {q} : leaves'[p] = leaves[p]
      /\ leaves'[q].of = absence[h].of /\ leaves'[q].status = status
      /\ \A g \in Handlers : absence[g].leave # q
  BY InsertedFacts
<1>3. \A g \in Handlers : DeskOf(g)'
  BY <1>1, <1>2 DEF DaysOK, DeskOf
<1>4. \A g \in Handlers, p \in Leaves :
          LeaveAt(g, p, "deduct")' <=> LeaveAt(g, p, "deduct") /\ p # q
  BY <1>1, <1>2 DEF LeaveAt
<1>5. ASSUME NEW p \in Leaves PROVE LeaveKept(p)'
  <2>1. LeaveKept(p)
    BY DEF DaysOK
  <2>2. CASE p # q
    BY <1>2, <1>4, <2>1, <2>2 DEF LeaveKept
  <2>3. CASE p = q
    BY <1>2, <1>4, <2>3 DEF LeaveKept
  <2> QED
    BY <2>2, <2>3
<1>6. ASSUME NEW p \in Leaves, leaves'[p].of # Boss
      PROVE  Counting(p)' <=> Counting(p)
  <2>1. CASE p # q
    BY <1>2, <1>4, <2>1 DEF Counting
  <2>2. CASE p = q
    BY <1>2, <1>6, <2>2 DEF Counting
  <2> QED
    BY <2>1, <2>2
<1>7. \A e \in Staff \ {Boss} : CountOK(e)'
  BY <1>2, <1>6, SameCounts
<1> QED
  BY <1>3, <1>5, <1>7 DEF DaysOK

\* Leave is decided on: if it is approved and counts, it has yet to be
\* deducted.
LEMMA DaysDecided ==
    ASSUME LeaveIInv, DaysOK, NEW h \in Handlers, NEW q \in Leaves,
           absence[h].leave = q, absence[h].at \in {"review", "cancel"},
           NEW s \in {"approved", "rejected", "cancelled"},
           leaves' = [leaves EXCEPT ![q].status = s],
           NEW t, LeaveMoves(h, t), t.at = "deduct" => s = "approved",
           s = "approved" /\ leaves[q].annual => t.at = "deduct" /\ t.leave = q,
           t.leave \in Leaves => t.leave = q /\ t.of = absence[h].of,
           NoteDispute(q), UNCHANGED <<used, dropped>>
    PROVE  DaysOK'
<1>1. absence'[h] = t /\ \A g \in Handlers \ {h} : absence'[g] = absence[g]
  BY LeaveMovesFacts DEF LeaveIInv
<1>2. /\ \A p \in Leaves \ {q} : leaves'[p] = leaves[p]
      /\ leaves'[q].of = leaves[q].of /\ leaves'[q].status = s
      /\ leaves'[q].annual = leaves[q].annual
      /\ leaves'[q].from = leaves[q].from /\ leaves'[q].to = leaves[q].to
  BY StatusFacts DEF LeaveIInv, LeaveStatus
<1>3. /\ disputed \subseteq disputed' /\ disputed' \subseteq disputed \union {q}
      /\ q \notin disputed' => leaves[q].status = "pending"
  BY DEF NoteDispute
<1>4. ASSUME NEW g \in Handlers PROVE DeskOf(g)'
  <2>1. DeskOf(g) /\ DeskOf(h)
    BY DEF DaysOK
  <2>2. \A p \in Leaves : leaves'[p].of = leaves[p].of
    BY <1>2
  <2> QED
    BY <1>1, <2>1, <2>2 DEF DeskOf
<1>5. \A g \in Handlers, p \in Leaves \ {q} :
          LeaveAt(g, p, "deduct")' <=> LeaveAt(g, p, "deduct")
  BY <1>1 DEF LeaveAt
<1>6. ASSUME NEW g \in Handlers, LeaveAt(g, q, "deduct")', q \notin disputed'
      PROVE  s = "approved"
  <2>1. ~LeaveAt(g, q, "deduct")
    BY <1>3, <1>6 DEF LeaveIInv, LeaveOK
  <2> QED
    BY <1>1, <1>6, <2>1 DEF LeaveAt
<1>7. ASSUME NEW p \in Leaves PROVE LeaveKept(p)'
  <2>1. LeaveKept(p)
    BY DEF DaysOK
  <2>2. CASE p # q
    BY <1>2, <1>3, <1>5, <2>1, <2>2 DEF LeaveKept
  <2>3. CASE p = q
    BY <1>2, <1>6, <2>3 DEF LeaveKept
  <2> QED
    BY <2>2, <2>3
<1>8. ASSUME NEW p \in Leaves, p \notin disputed' \union dropped'
      PROVE  Counting(p)' <=> Counting(p)
  <2>1. CASE p # q
    BY <1>2, <1>5, <2>1 DEF Counting
  <2>2. CASE p = q
    <3>1. ~Counting(q)
      BY <1>3, <1>8, <2>2 DEF Counting
    <3>2. s = "approved" /\ leaves[q].annual => LeaveAt(h, q, "deduct")'
      BY <1>1 DEF LeaveAt
    <3> QED
      BY <1>2, <2>2, <3>1, <3>2 DEF Counting
  <2> QED
    BY <2>1, <2>2
<1>9. \A e \in Staff \ {Boss} : CountOK(e)'
  BY <1>2, <1>3, <1>8, SameCounts
<1> QED
  BY <1>4, <1>7, <1>9 DEF DaysOK

\* The days are deducted, and from now on they count.
LEMMA DaysDeducted ==
    ASSUME LeaveIInv, DaysOK, NEW h \in Handlers, DeductDays(h)
    PROVE  DaysOK'
<1>1. PICK q \in Leaves : absence[h].leave = q
  BY DEF LeaveIInv, DeskOK, DeductDays
<1>2. PICK e \in Staff : e = leaves[q].of
  BY RecordFacts DEF LeaveIInv
<1>3. /\ LeaveAt(h, q, "deduct") /\ leaves[q].annual /\ CloseDesk(h)
      /\ used' = [used EXCEPT ![e] = used[e] + Length(leaves[q])]
      /\ UNCHANGED <<leaves, disputed, dropped>>
  BY <1>1, <1>2 DEF DeductDays, LeaveAt, LeaveIInv, DeskOK, leaveHistory
<1>4. absence'[h] = AtDesk /\ \A g \in Handlers \ {h} : absence'[g] = absence[g]
  BY <1>3, Closes, LeaveMovesFacts DEF LeaveIInv
<1>5. \A g \in Handlers : DeskOf(g)'
  BY <1>3, <1>4, DeskFacts, LeaveAssumption DEF DaysOK, DeskOf
<1>6. \A g \in Handlers, p \in Leaves :
          LeaveAt(g, p, "deduct")' <=> LeaveAt(g, p, "deduct") /\ g # h
  BY <1>4, DeskFacts DEF LeaveAt
<1>7. \A p \in Leaves : LeaveKept(p)'
  BY <1>3, <1>6 DEF DaysOK, LeaveKept
<1>8. \A p \in Leaves \ {q} : Counting(p)' <=> Counting(p)
  BY <1>1, <1>3, <1>6 DEF Counting, LeaveAt
<1>9. ~Counting(q) /\ (q \notin disputed => Counting(q)')
  BY <1>3, <1>6 DEF Counting, DaysOK, LeaveKept, LeaveIInv, LeaveOK
<1>10. ASSUME NEW x \in Staff \ {Boss} PROVE CountOK(x)'
  <2> SUFFICES ASSUME Complete(x) PROVE used'[x] = DaysOf(Counted(x))'
    BY <1>3 DEF CountOK, Complete
  <2>1. /\ used[x] = DaysOf(Counted(x))
        /\ used[x] \in Nat
        /\ used \in [Staff -> Nat]
    BY LeaveTypeFacts DEF DaysOK, CountOK, LeaveIInv
  <2>2. DaysOf(Counted(x))' = DaysOf(Counted(x)')
    BY <1>3 DEF DaysOf, Length
  <2>3. CASE x # e
    <3>1. Counted(x)' = Counted(x)
      BY <1>2, <1>3, <1>8, <2>3 DEF Counted
    <3> QED
      BY <1>3, <2>1, <2>2, <2>3, <3>1
  <2>4. CASE x = e
    <3>1. q \notin disputed
      BY <1>2, <2>4 DEF Complete
    <3>2. Counted(e)' = Counted(e) \union {q} /\ q \notin Counted(e)
      BY <1>2, <1>3, <1>8, <1>9, <3>1 DEF Counted
    <3> DEFINE f == [p \in Leaves |-> Length(leaves[p])]
    <3>3. (\A p \in Leaves : f[p] \in Int) /\ f[q] = Length(leaves[q])
      BY DaysTyped
    <3> HIDE DEF f
    <3>4. SumFunctionOnSet(f, Counted(e) \union {q})
              = f[q] + SumFunctionOnSet(f, Counted(e))
      BY <3>2, <3>3, CountedFinite, SumAdd
    <3>5. PICK n \in Nat : n = Length(leaves[q])
      BY DaysTyped
    <3>6. PICK m \in Nat : m = used[e]
      BY <2>1
    <3>7. DaysOf(Counted(e)') = n + m
      BY <2>1, <2>4, <3>2, <3>3, <3>4, <3>5, <3>6 DEF DaysOf, f
    <3>8. used'[e] = m + n
      BY <1>3, <2>1, <3>5, <3>6
    <3>9. m + n = n + m
      OBVIOUS
    <3> QED
      BY <2>2, <2>4, <3>7, <3>8, <3>9
  <2> QED
    BY <2>3, <2>4
<1> QED
  BY <1>5, <1>7, <1>10 DEF DaysOK

LEMMA DaysAsked ==
    ASSUME LeaveIInv, DaysOK, NEW h \in Handlers, NEW e \in Staff,
           NEW annual \in BOOLEAN, NEW from \in Days, NEW to \in Days,
           AskLeave(h, e, annual, from, to)
    PROVE  DaysOK'
<1> DEFINE t == [AtDesk EXCEPT
           !.at = IF e = Boss THEN "insert approved" ELSE "check",
           !.of = e, !.annual = annual, !.from = from, !.to = to,
           !.used = used[e]]
<1>1. t \in LeaveJob /\ t.leave = NoLeave /\ t.at # "deduct"
  <2>1. from \in Nat /\ to \in Nat /\ used[e] \in Nat
    BY LeaveTypeFacts, LeaveAssumption DEF Days, LeaveIInv
  <2> QED
    BY <2>1, DeskFacts DEF LeaveJob, AtDesk
<1>2. LeaveMoves(h, t) /\ absence[h].at = "idle"
  BY <1>1 DEF AskLeave, OpenDesk, Working, LeaveMoves
<1> HIDE DEF t
<1>3. /\ disputed \subseteq disputed' /\ disputed' \subseteq disputed \union {e}
      /\ UNCHANGED <<leaves, used, dropped>>
  BY DEF AskLeave
<1> QED
  BY <1>1, <1>2, <1>3, DaysAside, LeaveAssumption

LEMMA DaysFound ==
    ASSUME LeaveIInv, DaysOK, NEW h \in Handlers, NEW q \in Leaves,
           NEW approve \in BOOLEAN
    PROVE  Review(h, q, approve) \/ CancelLeave(h, q) => DaysOK'
<1>1. CASE Review(h, q, approve)
  <2> DEFINE t == [AtDesk EXCEPT !.at = "review", !.of = leaves[q].of,
                      !.leave = q, !.approve = approve]
  <2>1. t \in LeaveJob /\ t.at = "review" /\ t.leave = q /\ t.of = leaves[q].of
    BY DeskFacts, RecordFacts DEF LeaveIInv, LeaveJob, AtDesk
  <2>2. LeaveMoves(h, t) /\ absence[h].at = "idle"
    BY <1>1, <2>1 DEF Review, OpenDesk, Working, LeaveMoves
  <2> HIDE DEF t
  <2> QED
    BY <1>1, <2>1, <2>2, DaysAside DEF Review, leaveHistory
<1>2. CASE CancelLeave(h, q)
  <2> DEFINE t == [AtDesk EXCEPT !.at = "cancel", !.of = leaves[q].of,
                      !.leave = q]
  <2>1. t \in LeaveJob /\ t.at = "cancel" /\ t.leave = q /\ t.of = leaves[q].of
    BY DeskFacts, RecordFacts DEF LeaveIInv, LeaveJob, AtDesk
  <2>2. LeaveMoves(h, t) /\ absence[h].at = "idle"
    BY <1>2, <2>1 DEF CancelLeave, OpenDesk, Working, LeaveMoves
  <2> HIDE DEF t
  <2> QED
    BY <1>2, <2>1, <2>2, DaysAside DEF CancelLeave, leaveHistory
<1> QED
  BY <1>1, <1>2

LEMMA DaysEntered ==
    ASSUME LeaveIInv, DaysOK, NEW h \in Handlers, NEW q \in Leaves
    PROVE  InsertLeave(h, q) \/ InsertApproved(h, q) => DaysOK'
<1>1. CASE InsertLeave(h, q)
  <2>1. /\ LeaveMoves(h, AtDesk)
        /\ AtDesk.leave \notin Leaves
        /\ AtDesk.at # "deduct"
    BY <1>1, Closes, DeskFacts, LeaveAssumption DEF InsertLeave
  <2> QED
    BY <1>1, <2>1, DaysInserted DEF InsertLeave, leaveHistory
<1>2. CASE InsertApproved(h, q)
  <2> DEFINE charge == [absence[h] EXCEPT !.at = "charge", !.leave = q]
  <2>1. /\ charge \in LeaveJob /\ charge.at = "charge" /\ charge.leave = q
        /\ charge.of = absence[h].of
    BY LeaveJobFacts DEF LeaveIInv, LeaveJob
  <2>2. LeaveMoves(h, charge) \/ LeaveMoves(h, AtDesk)
    BY <1>2, <2>1, Closes, LeaveTypeFacts
       DEF LeaveIInv, InsertApproved, LeaveMoves
  <2> HIDE DEF charge
  <2>3. PICK t : /\ LeaveMoves(h, t) /\ t.at # "deduct"
                 /\ t.leave \in Leaves => t.leave = q /\ t.of = absence[h].of
    BY <2>1, <2>2, DeskFacts, LeaveAssumption
  <2>4. absence[h].of = Boss /\ absence[h].at # "deduct"
    BY <1>2 DEF InsertApproved, LeaveIInv, DeskOK
  <2> QED
    BY <1>2, <2>3, <2>4, DaysInserted DEF InsertApproved, leaveHistory
<1> QED
  BY <1>1, <1>2

LEMMA DaysReviewed ==
    ASSUME LeaveIInv, DaysOK, NEW h \in Handlers
    PROVE  SaveReview(h) \/ SaveCancelled(h) => DaysOK'
<1>1. CASE SaveReview(h)
  <2>1. PICK q \in Leaves : absence[h].leave = q
    BY <1>1 DEF LeaveIInv, DeskOK, SaveReview
  <2> DEFINE deduct == [absence[h] EXCEPT !.at = "deduct"]
  <2>2. /\ deduct \in LeaveJob /\ deduct.at = "deduct" /\ deduct.leave = q
        /\ deduct.of = absence[h].of
    BY <2>1, LeaveJobFacts DEF LeaveIInv, LeaveJob
  <2>3. PICK s \in {"approved", "rejected"} :
            /\ leaves' = [leaves EXCEPT ![q].status = s]
            /\ s = "approved" <=> absence[h].approve
    BY <1>1, <2>1 DEF SaveReview
  <2>4. \/ LeaveMoves(h, deduct) /\ s = "approved"
        \/ LeaveMoves(h, AtDesk) /\ ~(s = "approved" /\ leaves[q].annual)
    BY <1>1, <2>1, <2>2, <2>3, Closes, LeaveTypeFacts
       DEF LeaveIInv, SaveReview, Counts, Proceed, LeaveMoves
  <2> HIDE DEF deduct
  <2>5. PICK t : /\ LeaveMoves(h, t)
                 /\ t.at = "deduct" => s = "approved"
                 /\ s = "approved" /\ leaves[q].annual =>
                        t.at = "deduct" /\ t.leave = q
                 /\ t.leave \in Leaves => t.leave = q /\ t.of = absence[h].of
    BY <2>2, <2>4, DeskFacts, LeaveAssumption
  <2>6. /\ absence[h].at = "review" /\ NoteDispute(q)
        /\ UNCHANGED <<used, dropped>>
    BY <1>1, <2>1 DEF SaveReview
  <2> QED
    BY <2>1, <2>3, <2>5, <2>6, DaysDecided
<1>2. CASE SaveCancelled(h)
  <2>1. PICK q \in Leaves : absence[h].leave = q
    BY <1>2 DEF LeaveIInv, DeskOK, SaveCancelled
  <2>2. /\ LeaveMoves(h, AtDesk)
        /\ AtDesk.leave \notin Leaves
        /\ AtDesk.at # "deduct"
    BY <1>2, Closes, DeskFacts, LeaveAssumption DEF SaveCancelled
  <2> QED
    BY <1>2, <2>1, <2>2, DaysDecided DEF SaveCancelled
<1> QED
  BY <1>1, <1>2

\* Requests that end, or fail, or go on to be entered.
LEMMA DaysEnd ==
    ASSUME LeaveIInv, DaysOK, NEW h \in Handlers
    PROVE  CheckLeave(h) \/ ChargeOwner(h) \/ LeaveFault(h) => DaysOK'
<1>1. ASSUME CloseDesk(h),
             absence[h].at = "deduct" => absence[h].leave \in dropped',
             UNCHANGED <<leaves, used, disputed>>, dropped \subseteq dropped',
             \A q \in dropped' \ dropped : q = absence[h].leave
      PROVE  DaysOK'
  <2>1. /\ LeaveMoves(h, AtDesk)
        /\ AtDesk.leave \notin Leaves
        /\ AtDesk.at # "deduct"
    BY <1>1, Closes, DeskFacts, LeaveAssumption
  <2> QED
    BY <1>1, <2>1, DaysAside
<1>2. CASE CheckLeave(h)
  <2>1. /\ absence[h].at = "check"
        /\ UNCHANGED <<leaves, used, disputed, dropped>>
    BY <1>2 DEF CheckLeave, leaveHistory
  <2>2. CASE CloseDesk(h)
    BY <1>1, <2>1, <2>2
  <2>3. CASE Proceed(h, "insert")
    <3> DEFINE t == [absence[h] EXCEPT !.at = "insert"]
    <3>1. /\ t \in LeaveJob /\ t.at = "insert" /\ t.leave = absence[h].leave
          /\ t.of = absence[h].of
      BY LeaveJobFacts DEF LeaveIInv, LeaveJob
    <3>2. LeaveMoves(h, t)
      BY <2>3, <3>1, LeaveTypeFacts DEF LeaveIInv, Proceed, LeaveMoves
    <3> HIDE DEF t
    <3>3. DeskOf(h)
      BY DEF DaysOK
    <3> QED
      BY <2>1, <3>1, <3>2, <3>3, DaysAside DEF DeskOf
  <2> QED
    BY <1>2, <2>2, <2>3 DEF CheckLeave
<1>3. ChargeOwner(h) => DaysOK'
  BY <1>1 DEF ChargeOwner, leaveHistory
<1>4. CASE LeaveFault(h)
  <2>1. absence[h].at = "deduct" => absence[h].leave \in dropped'
    BY <1>4, LeaveAssumption DEF LeaveFault, LeaveIInv, DeskOK
  <2> QED
    BY <1>1, <1>4, <2>1 DEF LeaveFault
<1> QED
  BY <1>2, <1>3, <1>4

LEMMA DaysInit == ASSUME LeaveInit PROVE DaysOK
<1>1. /\ \A h \in Handlers : absence[h] = AtDesk
      /\ \A q \in Leaves : leaves[q].status = "absent"
      /\ disputed = {} /\ dropped = {} /\ \A e \in Staff : used[e] = 0
  BY DEF LeaveInit
<1>2. \A h \in Handlers : DeskOf(h)
  BY <1>1, DeskFacts, LeaveAssumption DEF DeskOf
<1>3. \A q \in Leaves : LeaveKept(q)
  BY <1>1, DeskFacts DEF LeaveKept, LeaveAt
<1>4. ASSUME NEW e \in Staff \ {Boss} PROVE CountOK(e)
  <2>1. Counted(e) = {}
    BY <1>1 DEF Counted, Counting
  <2>2. DaysOf(Counted(e)) = 0
    BY <2>1, SumEmpty DEF DaysOf
  <2> QED
    BY <1>1, <2>2 DEF CountOK
<1> QED
  BY <1>2, <1>3, <1>4 DEF DaysOK

LEMMA DaysKept == LeaveIInv /\ DaysOK /\ [LeaveNext]_leaveVars => DaysOK'
<1> SUFFICES ASSUME LeaveIInv, DaysOK, [LeaveNext]_leaveVars PROVE DaysOK'
  OBVIOUS
<1>1. CASE \E days \in Allowances : UpsertPolicy(days)
  BY <1>1, DaysQuiet DEF UpsertPolicy
<1>2. ASSUME NEW h \in Handlers,
             \E e \in Staff, annual \in BOOLEAN, from, to \in Days :
                 AskLeave(h, e, annual, from, to)
      PROVE  DaysOK'
  BY <1>2, DaysAsked
<1>3. ASSUME NEW h \in Handlers, NEW q \in Leaves,
             \/ \E approve \in BOOLEAN : Review(h, q, approve)
             \/ CancelLeave(h, q) \/ InsertLeave(h, q) \/ InsertApproved(h, q)
      PROVE  DaysOK'
  BY <1>3, DaysFound, DaysEntered
<1>4. ASSUME NEW h \in Handlers,
             \/ CheckLeave(h) \/ ChargeOwner(h) \/ SaveReview(h)
             \/ DeductDays(h) \/ SaveCancelled(h) \/ LeaveFault(h)
      PROVE  DaysOK'
  BY <1>4, DaysEnd, DaysReviewed, DaysDeducted
<1>5. CASE UNCHANGED leaveVars
  BY <1>5, DaysQuiet DEF leaveVars, leaveHistory
<1> QED
  BY <1>1, <1>2, <1>3, <1>4, <1>5 DEF LeaveNext

LEMMA UsedFollows ==
    ASSUME LeaveIInv, DaysOK PROVE UsedIsApproved
<1> SUFFICES ASSUME NEW e \in Staff \ {Boss}, Orderly(e)
             PROVE  used[e] = DaysOf(AnnualLeave(e))
  BY DEF UsedIsApproved, DaysOf
<1>1. Complete(e)
  BY DEF Orderly, Complete
<1>2. ASSUME NEW q \in Leaves, leaves[q].of = e, NEW h \in Handlers
      PROVE  ~LeaveAt(h, q, "deduct")
  BY <1>2 DEF LeaveAt, Orderly, DaysOK, DeskOf
<1>3. Counted(e) = AnnualLeave(e)
  BY <1>2 DEF Counted, Counting, AnnualLeave
<1> QED
  BY <1>1, <1>3 DEF DaysOK, CountOK

\* However much leave there is, the days an employee has used are the days of
\* their approved leave: a review deducts once, and leave that was rejected or
\* cancelled costs nothing (leave.service.ts:499-514), as long as decisions on
\* one leave do not overlap and no fault cut one short.
THEOREM UsedDaysAreApproved == LeaveSpec => []UsedIsApproved
<1>1. LeaveIInv /\ DaysOK => UsedIsApproved
  BY UsedFollows
<1>2. LeaveInit => DaysOK
  BY DaysInit
<1> QED
  BY <1>1, <1>2, LeaveInvariance, DaysKept, PTL DEF LeaveSpec
=============================================================================
