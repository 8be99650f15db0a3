------------------------- MODULE Receivables_proofs -------------------------
(* Proofs about Receivables, for every value of its constants. *)
EXTENDS Receivables, Sums, SequenceTheorems, TLAPS

(***************************************************************************)
(* What a request in flight can rely on.  RequestOK: what its local        *)
(* variables hold at each step.  Billing: where an entry stands that one   *)
(* request at a time has billed and none has died at.                      *)
(***************************************************************************)
RequestOK(r) ==
    /\ r.at \notin {"idle", "create", "pick", "post feed"} => r.inv \in Invoices
    /\ r.at \in {"link", "post feed", "reclassify"} => r.tx \in Txs
    /\ r.at = "post feed" => r.inv = NoInvoice
    /\ r.at = "split" => r.parts # <<>>
    /\ r.at = "save" => r.move # "none"
    /\ r.at = "credit" => r.amount \in Nat
    /\ r.todo # {} => r.batch # "none"
    /\ r.entries # <<>> => r.at \in {"create", "mark"}

JobsOK ==
    /\ job \in [Workers -> Request]
    /\ \A w \in Workers : RequestOK(job[w])
    /\ job[Job].entries = <<>>

LinesOK == \A i \in Invoices : Fresh(i) => invoices[i].lines = <<>>

TwiceOK == /\ \A i \in Invoices : Twice(invoices[i].lines) \subseteq repeated
           /\ \A w \in Workers : Twice(job[w].entries) \subseteq repeated

BilledBy(e, h) == e \in Range(job[h].entries)

Billing(e) ==
    e \notin lost \union raced =>
        /\ \A g, h \in Handlers : BilledBy(e, g) /\ BilledBy(e, h) => g = h
        /\ \A h \in Handlers : BilledBy(e, h) =>
               /\ job[h].at = "create" =>
                      InvoicesOf(e) = {} /\ entries[e].invoice = NoInvoice
               /\ job[h].at = "mark" => InvoicesOf(e) = {job[h].inv}
        /\ (\A h \in Handlers : ~BilledBy(e, h)) =>
               InvoicesOf(e) = {entries[e].invoice} \ {NoInvoice}

IInv ==
    TypeOK /\ JobsOK /\ LinesOK /\ TwiceOK /\ \A e \in Entries : Billing(e)

-----------------------------------------------------------------------------
(* Requests *)

\* A step that is nobody's billing: who bills what stays as it is.
Kept ==
    \A w \in Workers :
        /\ job'[w].entries = job[w].entries
        /\ job[w].entries # <<>> =>
               job'[w].at = job[w].at /\ job'[w].inv = job[w].inv

Steps == {"reverse", "save cancel", "find", "post sale", "certify",
          "find payment", "save payment", "bank", "post receipt",
          "reclassify", "find cancel", "save plan", "expense",
          "save write-off"}

LEMMA RangeEmpty == Range(<<>>) = {} /\ Twice(<<>>) = {}
BY DEF Range, Twice

LEMMA Listed ==
    ASSUME NEW ids \in Seq(Entries)
    PROVE  Range(ids) \subseteq Entries /\ Twice(ids) \subseteq Entries
BY DEF Range, Twice

LEMMA IdleOK == Idle \in Request /\ RequestOK(Idle) /\ Idle.entries = <<>>
BY DEF Idle, Request, RequestOK, Stage

LEMMA Locals ==
    ASSUME JobsOK, NEW w \in Workers
    PROVE  /\ job[w] \in Request
           /\ RequestOK(job[w])
           /\ job[w].inv \in Invoices \union {NoInvoice}
           /\ job[w].tx \in Txs \union {NoTx}
           /\ job[w].stage \in Stage
           /\ job[w].paid \in Int
           /\ job[w].amount \in Int
           /\ job[w].entries \in Seq(Entries)
           /\ job[w].todo \in SUBSET Invoices
           /\ job[w].parts \in Seq(Nat)
           /\ job[w].made \in SUBSET Invoices
           /\ job[w].move \in {"none", "submit", "approve", "send"}
           /\ job[w].batch \in {"none", "submit", "send"}
BY DEF JobsOK, Request

LEMMA WriteOK ==
    ASSUME JobsOK, NEW w \in Workers, NEW r \in Request, RequestOK(r),
           r.entries = <<>>, job' = [job EXCEPT ![w] = r]
    PROVE  JobsOK' /\ (job[w].entries = <<>> => Kept)
BY DEF JobsOK, Kept

LEMMA GotoOK ==
    ASSUME JobsOK, NEW w \in Workers, NEW at \in Steps,
           job[w].at \notin {"idle", "create", "pick", "mark", "post feed"},
           at = "reclassify" => job[w].tx # NoTx, Goto(w, at)
    PROVE  JobsOK' /\ Kept
<1> DEFINE r == [job[w] EXCEPT !.at = at]
<1>1. job[w] \in Request /\ RequestOK(job[w])
  BY Locals
<1>2. r \in Request
  BY <1>1 DEF Request, Steps
<1>3. job[w].at # "create" => RequestOK(r) /\ job[w].entries = <<>>
  BY <1>1 DEF RequestOK, Request, Steps
<1>4. job' = [job EXCEPT ![w] = r]
  BY DEF Goto, JobsOK
<1> QED
  BY <1>1, <1>2, <1>3, <1>4, WriteOK DEF Request

LEMMA DoneOK ==
    ASSUME JobsOK, NEW w \in Workers, Done(w)
    PROVE  JobsOK' /\ (job[w].at \notin {"create", "mark"} => Kept)
<1> DEFINE r == IF job[w].todo = {} THEN Idle
                ELSE [Idle EXCEPT !.at = "pick", !.todo = job[w].todo,
                                  !.batch = job[w].batch]
<1>1. r \in Request /\ RequestOK(r) /\ r.entries = <<>>
  BY Locals, IdleOK DEF RequestOK, Request, Idle
<1>2. job' = [job EXCEPT ![w] = r]
  BY DEF Done
<1>3. job[w].at \notin {"create", "mark"} => job[w].entries = <<>>
  BY Locals DEF RequestOK
<1> QED
  BY <1>1, <1>2, <1>3, WriteOK

LEMMA AcceptOK ==
    ASSUME JobsOK, NEW w \in Workers, NEW r \in Request, RequestOK(r),
           r.entries = <<>>, Accept(w, r)
    PROVE  JobsOK' /\ Kept
BY WriteOK, IdleOK DEF Accept

LEMMA IdleAgain ==
    ASSUME JobsOK, NEW w \in Workers, job[w].at \notin {"create", "mark"},
           job' = [job EXCEPT ![w] = Idle]
    PROVE  JobsOK' /\ Kept
<1>1. job[w].entries = <<>>
  BY Locals DEF RequestOK
<1> QED
  BY <1>1, IdleOK, WriteOK

LEMMA MovingOK ==
    ASSUME TypeOK, JobsOK, NEW w \in Workers, NEW i \in Invoices,
           NEW move \in DOMAIN From, Moving(w, move, i),
           job[w].at \notin {"create", "mark"}
    PROVE  JobsOK' /\ Kept
<1> DEFINE r == [job[w] EXCEPT !.at = "save", !.move = move, !.inv = i,
                     !.stage = invoices[i].stage, !.paid = invoices[i].paid,
                     !.todo = @ \ {i}]
<1>1. move \in {"submit", "approve", "send"}
  BY DEF From
<1>2. invoices[i].stage \in Stage /\ invoices[i].paid \in Int
  BY DEF TypeOK, Invoice
<1>3. r \in Request
  <2>1. job[w] \in Request /\ (job[w].todo \ {i}) \in SUBSET Invoices
    BY Locals
  <2> QED
    BY <1>1, <1>2, <2>1 DEF Request
<1>4. RequestOK(r) /\ r.entries = <<>> /\ job[w].entries = <<>>
  BY <1>1, Locals DEF RequestOK, Request
<1>5. job' = [job EXCEPT ![w] = r]
  BY DEF Moving, JobsOK
<1> QED
  BY <1>3, <1>4, <1>5, WriteOK

-----------------------------------------------------------------------------
(* Steps that bill nobody *)

LinesKept ==
    /\ \A i \in Invoices : /\ invoices'[i].lines = invoices[i].lines
                           /\ Fresh(i)' => Fresh(i)
    /\ \A e \in Entries : entries'[e].invoice = entries[e].invoice
    /\ lost \subseteq lost' /\ raced \subseteq raced'
    /\ repeated \subseteq repeated'

LEMMA BillingKept ==
    ASSUME NEW e \in Entries, Billing(e),
           e \notin lost' \union raced' => e \notin lost \union raced,
           InvoicesOf(e)' = InvoicesOf(e),
           entries'[e].invoice = entries[e].invoice,
           \A h \in Handlers :
               /\ e \in Range(job'[h].entries) <=> e \in Range(job[h].entries)
               /\ e \in Range(job[h].entries) =>
                      job'[h].at = job[h].at /\ job'[h].inv = job[h].inv
    PROVE  Billing(e)'
BY DEF Billing, BilledBy

LEMMA AsideOK ==
    ASSUME IInv, Kept, LinesKept
    PROVE  LinesOK' /\ TwiceOK' /\ \A e \in Entries : Billing(e)'
<1>1. LinesOK' /\ TwiceOK'
  BY DEF IInv, LinesOK, TwiceOK, Twice, LinesKept, Kept, Fresh
<1>2. ASSUME NEW e \in Entries
      PROVE  Billing(e)'
  <2>1. InvoicesOf(e)' = InvoicesOf(e)
    <3>1. \A i \in Invoices : invoices'[i].lines = invoices[i].lines
      BY DEF LinesKept
    <3> QED
      BY <3>1 DEF InvoicesOf
  <2>2. \A h \in Handlers :
            /\ job'[h].entries = job[h].entries
            /\ e \in Range(job[h].entries) =>
                   job'[h].at = job[h].at /\ job'[h].inv = job[h].inv
    BY RangeEmpty DEF Kept, Workers
  <2>3. entries'[e].invoice = entries[e].invoice /\ Billing(e)
    BY DEF LinesKept, IInv
  <2>4. e \notin lost' \union raced' => e \notin lost \union raced
    BY DEF LinesKept
  <2> QED
    BY <2>1, <2>2, <2>3, <2>4, BillingKept
<1> QED
  BY <1>1, <1>2

LEMMA TypedInvoice ==
    ASSUME TypeOK, NEW i \in Invoices
    PROVE  /\ invoices[i] \in Invoice
           /\ invoices[i].stage \in Stage
           /\ invoices[i].net \in Nat /\ invoices[i].vat \in Nat
           /\ invoices[i].wht \in Nat /\ invoices[i].paid \in Int
           /\ invoices[i].lines \in Seq(Entries)
           /\ Payable(i) \in Int /\ Outstanding(i) \in Int
           /\ receivable[i] \in Int
BY DEF TypeOK, Invoice, Payable, Outstanding

LEMMA NoLines == <<>> \in Seq(Entries)
OBVIOUS

LEMMA CreatedOK ==
    ASSUME TypeOK, NEW i \in Invoices, NEW lines \in Seq(Entries),
           NEW terms \in [net : Nat, vat : Nat, wht : Nat],
           NEW original \in Invoices \union {NoInvoice},
           invoices' = Created(i, terms, lines, original)
    PROVE  /\ invoices' \in [Invoices -> Invoice]
           /\ \A j \in Invoices \ {i} : invoices'[j] = invoices[j]
           /\ invoices'[i].stage = "Draft"
           /\ invoices'[i].lines = lines
<1>1. PICK new : new = [stage |-> "Draft", net |-> terms.net,
                        vat |-> terms.vat, wht |-> terms.wht, paid |-> 0,
                        lines |-> lines, original |-> original]
  OBVIOUS
<1>2. new \in Invoice /\ new.stage = "Draft" /\ new.lines = lines
  BY <1>1 DEF Invoice, Stage
<1>3. invoices' = [invoices EXCEPT ![i] = new]
  BY <1>1 DEF Created
<1> QED
  BY <1>2, <1>3 DEF TypeOK

LEMMA BookedOK ==
    ASSUME TypeOK, NEW lines, \A a \in DOMAIN lines : lines[a] \in Int
    PROVE  Booked(lines) \in [Account -> Int]
BY DEF TypeOK, Booked

LEMMA SaveStageOK ==
    ASSUME TypeOK, JobsOK, NEW w \in Workers, NEW stage \in Stage \ {"absent"},
           SaveStage(w, stage)
    PROVE  /\ invoices' \in [Invoices -> Invoice]
           /\ \A i \in Invoices : /\ invoices'[i].lines = invoices[i].lines
                                  /\ Fresh(i)' => Fresh(i)
<1>1. ASSUME NEW i \in Invoices
      PROVE  /\ invoices'[i] = [invoices[i] EXCEPT !.stage = stage]
                    \/ invoices'[i] = invoices[i]
    BY DEF SaveStage, TypeOK, Invoice
<1>2. /\ DOMAIN invoices' = Invoices
      /\ invoices' = [i \in Invoices |-> invoices'[i]]
  BY DEF SaveStage, TypeOK
<1>3. \A i \in Invoices : invoices'[i] \in Invoice
  BY <1>1, TypedInvoice DEF Invoice
<1>4. \A i \in Invoices : /\ invoices'[i].lines = invoices[i].lines
                          /\ Fresh(i)' => Fresh(i)
  BY <1>1, TypedInvoice DEF Invoice, Fresh
<1> QED
  BY <1>2, <1>3, <1>4

LEMMA NoteRaceOK ==
    ASSUME TypeOK, NEW w \in Workers, job[w].inv \in Invoices, NoteRace(w)
    PROVE  /\ raced' \in SUBSET (Invoices \union Entries)
           /\ raced \subseteq raced'
BY DEF TypeOK, NoteRace

LEMMA UpdateOK ==
    ASSUME NEW S, NEW T, NEW f \in [S -> T], NEW i \in S, NEW v \in T
    PROVE  [f EXCEPT ![i] = v] \in [S -> T]
OBVIOUS

LEMMA ToOK ==
    ASSUME NEW move \in {"submit", "approve", "send"}
    PROVE  To[move] \in Stage \ {"absent"}
<1>1. CASE move = "submit"
  BY <1>1 DEF To, Stage
<1>2. CASE move = "approve"
  BY <1>2 DEF To, Stage
<1>3. CASE move = "send"
  BY <1>3 DEF To, Stage
<1> QED
  BY <1>1, <1>2, <1>3

-----------------------------------------------------------------------------
(* The steps, in the order of the model *)

LEMMA MoveStep ==
    ASSUME IInv, NEW h \in Handlers, NEW i \in Invoices,
           NEW move \in DOMAIN From, Move(h, move, i)
    PROVE  IInv'
<1>1. JobsOK' /\ Kept
  <2>1. job[h].at = "idle"
    BY DEF Move, Idle
  <2> QED
    BY <2>1, MovingOK DEF IInv, Move, Workers
<1>2. TypeOK'
  BY <1>1 DEF IInv, TypeOK, JobsOK, books, provisos, Counted, Move
<1>3. LinesKept
  BY DEF LinesKept, Fresh, provisos, Move
<1> QED
  BY <1>1, <1>2, <1>3, AsideOK DEF IInv

LEMMA SaveMoveStep ==
    ASSUME IInv, NEW w \in Workers, SaveMove(w)
    PROVE  IInv'
<1>1. JobsOK' /\ Kept
  <2>1. job[w].at = "save" /\ job[w].inv \in Invoices
    BY Locals DEF IInv, SaveMove, RequestOK
  <2>2. CASE Done(w)
    BY <2>1, <2>2, DoneOK DEF IInv
  <2>3. CASE Goto(w, "post sale") \/ Goto(w, "find")
    BY <2>1, <2>3, GotoOK DEF IInv, Steps
  <2> QED
    BY <2>2, <2>3 DEF SaveMove
<1>2. TypeOK'
  <2>1. /\ job[w].move \in {"submit", "approve", "send"}
        /\ job[w].inv \in Invoices
    BY Locals DEF IInv, SaveMove, RequestOK
  <2>2. To[job[w].move] \in Stage \ {"absent"}
    BY <2>1, ToOK
  <2>3. invoices' \in [Invoices -> Invoice]
    BY <2>2, SaveStageOK DEF IInv, SaveMove
  <2>4. raced' \in SUBSET (Invoices \union Entries)
    BY <2>1, NoteRaceOK DEF IInv, SaveMove
  <2> QED
    BY <1>1, <2>3, <2>4 DEF IInv, TypeOK, JobsOK, books, SaveMove
<1>3. LinesKept
  <2>1. /\ job[w].move \in {"submit", "approve", "send"}
        /\ job[w].inv \in Invoices
    BY Locals DEF IInv, SaveMove, RequestOK
  <2>2. To[job[w].move] \in Stage \ {"absent"}
    BY <2>1, ToOK
  <2> QED
    BY <2>1, <2>2, SaveStageOK, NoteRaceOK DEF IInv, SaveMove, LinesKept
<1> QED
  BY <1>1, <1>2, <1>3, AsideOK DEF IInv

LEMMA CreateInvoiceStep ==
    ASSUME IInv, NEW i \in Invoices, NEW terms \in Terms,
           CreateInvoice(i, terms)
    PROVE  IInv'
<1>1. JobsOK' /\ Kept
  BY DEF IInv, JobsOK, CreateInvoice, Kept
<1>2. TypeOK'
  <2>1. terms \in [net : Nat, vat : Nat, wht : Nat]
    BY ReceivablesAssumption
  <2>2. invoices' \in [Invoices -> Invoice]
    BY <2>1, NoLines, CreatedOK DEF IInv, CreateInvoice
  <2> QED
    BY <1>1, <2>2 DEF IInv, TypeOK, JobsOK, books, provisos, Counted,
                      CreateInvoice
<1>3. LinesKept
  <2>1. terms \in [net : Nat, vat : Nat, wht : Nat]
    BY ReceivablesAssumption
  <2>2. invoices[i].lines = <<>> /\ invoices[i].stage = "absent"
    BY DEF IInv, LinesOK, CreateInvoice, Fresh
  <2>3. \A j \in Invoices : /\ invoices'[j].lines = invoices[j].lines
                            /\ Fresh(j)' => Fresh(j)
    BY <2>1, <2>2, NoLines, CreatedOK DEF IInv, CreateInvoice, Fresh
  <2> QED
    BY <2>3 DEF LinesKept, CreateInvoice, provisos
<1> QED
  BY <1>1, <1>2, <1>3, AsideOK DEF IInv

LEMMA ReviewEntryStep ==
    ASSUME IInv, NEW e \in Entries, NEW review \in {"Unbilled", "Held"},
           ReviewEntry(e, review)
    PROVE  IInv'
<1>1. JobsOK' /\ Kept
  BY DEF IInv, JobsOK, ReviewEntry, Kept
<1>2. TypeOK'
  <2>1. entries' \in [Entries ->
            [review : Review, invoice : Invoices \union {NoInvoice}]]
    BY DEF IInv, TypeOK, ReviewEntry, Review
  <2> QED
    BY <1>1, <2>1 DEF IInv, TypeOK, JobsOK, books, provisos, Counted,
                      ReviewEntry
<1>3. LinesKept
  BY DEF IInv, TypeOK, LinesKept, Fresh, provisos, ReviewEntry
<1> QED
  BY <1>1, <1>2, <1>3, AsideOK DEF IInv

LEMMA PostSaleStep ==
    ASSUME IInv, NEW w \in Workers, PostSale(w)
    PROVE  IInv'
<1>1. JobsOK' /\ Kept
  <2>1. job[w].at = "post sale"
    BY DEF PostSale
  <2>2. CASE Done(w)
    BY <2>1, <2>2, DoneOK DEF IInv, Workers
  <2>3. CASE Goto(w, "certify")
    BY <2>1, <2>3, GotoOK DEF IInv, Steps
  <2> QED
    BY <2>2, <2>3 DEF PostSale
<1>2. TypeOK'
  <2>1. job[w].inv \in Invoices /\ job[w].amount \in Int /\ job[w].paid \in Int
    BY Locals DEF IInv, PostSale, RequestOK, Workers
  <2> DEFINE i == job[w].inv
             lines == [income |-> -invoices[i].net, vat |-> -invoices[i].vat]
  <2>2. /\ invoices[i].net \in Nat /\ invoices[i].vat \in Nat
        /\ invoices[i].paid \in Int
        /\ Payable(i) \in Int /\ receivable[i] \in Int
    BY <2>1, TypedInvoice DEF IInv
  <2>3. ledger' \in [Account -> Int]
    <3>1. \A a \in DOMAIN lines : lines[a] \in Int
      BY <2>1, <2>2
    <3> QED
      BY <3>1, BookedOK DEF IInv, PostSale
  <2>4. receivable' \in [Invoices -> Int]
    <3>1. /\ receivable \in [Invoices -> Int]
          /\ receivable[i] + Payable(i) \in Int
      BY <2>1, <2>2 DEF IInv, TypeOK
    <3>2. receivable' = [receivable EXCEPT ![i] = receivable[i] + Payable(i)]
      BY DEF PostSale
    <3> QED
      BY <2>1, <3>1, <3>2, UpdateOK
  <2> QED
    BY <1>1, <2>1, <2>3, <2>4
       DEF IInv, TypeOK, JobsOK, books, provisos, PostSale
<1>3. LinesKept
  BY DEF LinesKept, Fresh, provisos, PostSale
<1> QED
  BY <1>1, <1>2, <1>3, AsideOK DEF IInv

LEMMA CertifyStep ==
    ASSUME IInv, NEW w \in Workers, Certify(w)
    PROVE  IInv'
<1>1. JobsOK' /\ Kept
  <2>1. job[w].at = "certify"
    BY DEF Certify
  <2> QED
    BY <2>1, DoneOK DEF IInv, Certify, Workers
<1>2. TypeOK'
  <2>1. certificates' \in [Invoices -> Nat]
    <3>1. job[w].inv \in Invoices
      BY Locals DEF IInv, Certify, RequestOK
    <3>2. /\ certificates \in [Invoices -> Nat]
          /\ certificates[job[w].inv] + 1 \in Nat
      BY <3>1 DEF IInv, TypeOK
    <3>3. certificates' = [certificates EXCEPT
              ![job[w].inv] = certificates[job[w].inv] + 1]
      BY DEF Certify
    <3> QED
      BY <3>1, <3>2, <3>3, UpdateOK
  <2> QED
    BY <1>1, <2>1 DEF IInv, TypeOK, JobsOK, books, provisos, Certify
<1>3. LinesKept
  BY DEF LinesKept, Fresh, provisos, Certify
<1> QED
  BY <1>1, <1>2, <1>3, AsideOK DEF IInv

LEMMA RecordPaymentStep ==
    ASSUME IInv, NEW h \in Handlers, NEW i \in Invoices,
           NEW amount \in Amounts \union {Outstanding(i)},
           RecordPayment(h, i, amount)
    PROVE  IInv'
<1>1. JobsOK' /\ Kept
  <2> DEFINE r == [Idle EXCEPT !.at = "find payment", !.inv = i,
                               !.amount = amount]
  <2>0. amount \in Int
    <3>1. Outstanding(i) \in Int
      BY TypedInvoice DEF IInv
    <3> QED
      BY <3>1, ReceivablesAssumption
  <2>1. r \in Request /\ RequestOK(r) /\ r.entries = <<>>
    BY <2>0, IdleOK DEF Idle, Request, RequestOK, Stage
  <2> QED
    BY <2>1, AcceptOK DEF IInv, RecordPayment, Workers
<1>2. TypeOK'
  BY <1>1 DEF IInv, TypeOK, JobsOK, books, provisos, Counted, RecordPayment
<1>3. LinesKept
  BY DEF LinesKept, Fresh, provisos, RecordPayment
<1> QED
  BY <1>1, <1>2, <1>3, AsideOK DEF IInv

LEMMA FindPaymentStep ==
    ASSUME IInv, NEW h \in Workers, FindPayment(h)
    PROVE  IInv'
<1>1. JobsOK' /\ Kept
  <2> DEFINE i == job[h].inv
             r == [job[h] EXCEPT !.at = "save payment",
                       !.stage = invoices[i].stage, !.paid = invoices[i].paid]
  <2>1. job[h] \in Request /\ RequestOK(job[h]) /\ h \in Workers
    BY Locals DEF IInv, Workers
  <2>2. i \in Invoices /\ job[h].entries = <<>>
    BY <2>1 DEF RequestOK, FindPayment
  <2>3. invoices[i].stage \in Stage /\ invoices[i].paid \in Int
    BY <2>2, TypedInvoice DEF IInv
  <2>4. r \in Request /\ RequestOK(r) /\ r.entries = <<>>
    BY <2>1, <2>2, <2>3 DEF Request, RequestOK
  <2>5. job' = [job EXCEPT ![h] = r]
    BY <2>1 DEF IInv, JobsOK, FindPayment
  <2> QED
    BY <2>1, <2>2, <2>4, <2>5, WriteOK DEF IInv
<1>2. TypeOK'
  <2>1. job[h].inv \in Invoices
    BY Locals DEF IInv, FindPayment, RequestOK, Workers
  <2> QED
    BY <1>1, <2>1 DEF IInv, TypeOK, JobsOK, books, FindPayment
<1>3. LinesKept
  BY DEF LinesKept, Fresh, provisos, FindPayment
<1> QED
  BY <1>1, <1>2, <1>3, AsideOK DEF IInv

LEMMA SavePaymentStep ==
    ASSUME IInv, NEW h \in Workers, SavePayment(h)
    PROVE  IInv'
<1>0. job[h].inv \in Invoices =>
          \E new \in Invoice :
              /\ invoices' = [invoices EXCEPT ![job[h].inv] = new]
              /\ new.lines = invoices[job[h].inv].lines
              /\ new.stage = "absent" =>
                     invoices[job[h].inv].stage = "absent"
  <2> SUFFICES ASSUME job[h].inv \in Invoices
               PROVE  \E new \in Invoice :
              /\ invoices' = [invoices EXCEPT ![job[h].inv] = new]
              /\ new.lines = invoices[job[h].inv].lines
              /\ new.stage = "absent" =>
                     invoices[job[h].inv].stage = "absent"
    OBVIOUS
  <2> DEFINE i == job[h].inv
             paid == job[h].paid + job[h].amount
             stage == IF paid >= Payable(i) THEN "Paid" ELSE "Part Paid"
             final == IF stage = job[h].stage THEN invoices[i].stage ELSE stage
             new == [invoices[i] EXCEPT !.paid = paid, !.stage = final]
  <2>1. paid \in Int
    BY Locals DEF IInv, Workers
  <2>2. invoices[i] \in Invoice
    BY TypedInvoice DEF IInv
  <2>3. final \in Stage
    BY <2>2 DEF Invoice, Stage
  <2>4. new \in Invoice /\ new.lines = invoices[i].lines
            /\ new.stage = final
            /\ (final = "absent" => invoices[i].stage = "absent")
    BY <2>1, <2>2, <2>3 DEF Invoice
  <2>5. invoices' = [invoices EXCEPT ![i] = new]
    BY <2>2 DEF IInv, TypeOK, Invoice, SavePayment
  <2> HIDE DEF new, final
  <2> QED
    BY <2>4, <2>5
<1>1. JobsOK' /\ Kept
  <2>1. job[h].at = "save payment"
    BY DEF SavePayment
  <2> QED
    BY <2>1, GotoOK DEF IInv, SavePayment, Steps, Workers
<1>2. TypeOK'
  <2>1. /\ job[h].inv \in Invoices /\ job[h].paid \in Int
        /\ job[h].amount \in Int /\ h \in Workers
    BY Locals DEF IInv, SavePayment, RequestOK, Workers
  <2>2. invoices' \in [Invoices -> Invoice]
    BY <1>0, <2>1, UpdateOK DEF IInv, TypeOK
  <2>3. raced' \in SUBSET (Invoices \union Entries)
    BY <2>1, NoteRaceOK DEF IInv, SavePayment
  <2> QED
    BY <1>1, <2>2, <2>3 DEF IInv, TypeOK, JobsOK, books, SavePayment
<1>3. LinesKept
  <2>1. job[h].inv \in Invoices /\ h \in Workers
    BY Locals DEF IInv, SavePayment, RequestOK, Workers
  <2>2. raced \subseteq raced'
    BY <2>1, NoteRaceOK DEF IInv, SavePayment
  <2>3. \A i \in Invoices : /\ invoices'[i].lines = invoices[i].lines
                            /\ Fresh(i)' => Fresh(i)
    BY <1>0, <2>1 DEF IInv, TypeOK, Fresh
  <2> QED
    BY <2>2, <2>3 DEF LinesKept, SavePayment
<1> QED
  BY <1>1, <1>2, <1>3, AsideOK DEF IInv

LEMMA BankStep ==
    ASSUME IInv, NEW h \in Handlers, NEW x \in Txs, Bank(h, x)
    PROVE  IInv'
<1>1. JobsOK' /\ Kept
  <2>1. job[h].at = "bank"
    BY DEF Bank
  <2> QED
    BY <2>1, GotoOK DEF IInv, Bank, Steps, Workers
<1>2. TypeOK'
  <2>1. job[h].inv \in Invoices /\ job[h].amount \in Int
    BY Locals DEF IInv, Bank, RequestOK, Workers
  <2>2. txs' \in [Txs -> [amount : Int, link : Invoices \union {NoInvoice},
                         origin : {"absent", "unposted", "feed",
                                   "payment"}]]
    BY <2>1 DEF IInv, TypeOK, Bank
  <2> QED
    BY <1>1, <2>2 DEF IInv, TypeOK, JobsOK, books, provisos, Bank
<1>3. LinesKept
  BY DEF LinesKept, Fresh, provisos, Bank
<1> QED
  BY <1>1, <1>2, <1>3, AsideOK DEF IInv

LEMMA NoAccountStep ==
    ASSUME IInv, NEW h \in Workers, NoAccount(h)
    PROVE  IInv'
<1>1. JobsOK' /\ Kept
  <2>1. job[h].at = "bank"
    BY DEF NoAccount
  <2> QED
    BY <2>1, DoneOK DEF IInv, NoAccount, Workers
<1>2. TypeOK'
  <2>1. job[h].inv \in Invoices
    BY Locals DEF IInv, NoAccount, RequestOK, Workers
  <2> QED
    BY <1>1, <2>1 DEF IInv, TypeOK, JobsOK, books, NoAccount
<1>3. LinesKept
  BY DEF LinesKept, Fresh, provisos, NoAccount
<1> QED
  BY <1>1, <1>2, <1>3, AsideOK DEF IInv

LEMMA PostReceiptStep ==
    ASSUME IInv, NEW h \in Workers, PostReceipt(h)
    PROVE  IInv'
<1>1. JobsOK' /\ Kept
  <2>1. job[h].at = "post receipt"
    BY DEF PostReceipt
  <2> QED
    BY <2>1, DoneOK DEF IInv, PostReceipt, Workers
<1>2. TypeOK'
  <2>1. job[h].inv \in Invoices /\ job[h].amount \in Int /\ job[h].paid \in Int
    BY Locals DEF IInv, PostReceipt, RequestOK, Workers
  <2> DEFINE i == job[h].inv
             lines == [bank |-> job[h].amount]
  <2>2. /\ invoices[i].net \in Nat /\ invoices[i].vat \in Nat
        /\ invoices[i].paid \in Int
        /\ Payable(i) \in Int /\ receivable[i] \in Int
    BY <2>1, TypedInvoice DEF IInv
  <2>3. ledger' \in [Account -> Int]
    <3>1. \A a \in DOMAIN lines : lines[a] \in Int
      BY <2>1, <2>2
    <3> QED
      BY <3>1, BookedOK DEF IInv, PostReceipt
  <2>4. receivable' \in [Invoices -> Int]
    <3>1. /\ receivable \in [Invoices -> Int]
          /\ receivable[i] - job[h].amount \in Int
      BY <2>1, <2>2 DEF IInv, TypeOK
    <3>2. receivable' = [receivable EXCEPT ![i] = receivable[i] - job[h].amount]
      BY DEF PostReceipt
    <3> QED
      BY <2>1, <3>1, <3>2, UpdateOK
  <2> QED
    BY <1>1, <2>1, <2>3, <2>4
       DEF IInv, TypeOK, JobsOK, books, provisos, PostReceipt
<1>3. LinesKept
  BY DEF LinesKept, Fresh, provisos, PostReceipt
<1> QED
  BY <1>1, <1>2, <1>3, AsideOK DEF IInv

LEMMA ImportTxStep ==
    ASSUME IInv, NEW h \in Handlers, NEW x \in Txs,
           NEW amount \in FeedAmounts, ImportTx(h, x, amount)
    PROVE  IInv'
<1>0. amount \in Int
  BY ReceivablesAssumption
<1>1. JobsOK' /\ Kept
  <2> DEFINE r == [Idle EXCEPT !.at = "post feed", !.tx = x, !.amount = amount]
  <2>1. r \in Request /\ RequestOK(r) /\ r.entries = <<>>
    BY <1>0, IdleOK DEF Idle, Request, RequestOK, Stage
  <2> QED
    BY <2>1, AcceptOK DEF IInv, ImportTx, Workers
<1>2. TypeOK'
  <2>1. txs' \in [Txs -> [amount : Int, link : Invoices \union {NoInvoice},
                         origin : {"absent", "unposted", "feed",
                                   "payment"}]]
    BY <1>0 DEF IInv, TypeOK, ImportTx
  <2> QED
    BY <1>1, <2>1
       DEF IInv, TypeOK, JobsOK, books, provisos, Counted, ImportTx
<1>3. LinesKept
  BY DEF LinesKept, Fresh, provisos, ImportTx
<1> QED
  BY <1>1, <1>2, <1>3, AsideOK DEF IInv

LEMMA PostFeedStep ==
    ASSUME IInv, NEW h \in Workers, PostFeed(h)
    PROVE  IInv'
<1>1. JobsOK' /\ Kept
  <2>1. job[h].at = "post feed"
    BY DEF PostFeed
  <2> QED
    BY <2>1, DoneOK DEF IInv, PostFeed, Workers
<1>2. TypeOK'
  <2> DEFINE lines == [bank |-> job[h].amount, unexplained |-> -job[h].amount]
  <2>1. job[h].tx \in Txs /\ job[h].amount \in Int
    BY Locals DEF IInv, PostFeed, RequestOK, Workers
  <2>2. txs' \in [Txs -> [amount : Int, link : Invoices \union {NoInvoice},
                         origin : {"absent", "unposted", "feed",
                                   "payment"}]]
    BY <2>1 DEF IInv, TypeOK, PostFeed
  <2>3. \A a \in DOMAIN lines : lines[a] \in Int
    BY <2>1
  <2>4. ledger' \in [Account -> Int]
    BY <2>3, BookedOK DEF IInv, PostFeed
  <2> QED
    BY <1>1, <2>2, <2>4 DEF IInv, TypeOK, JobsOK, provisos, PostFeed
<1>3. LinesKept
  BY DEF LinesKept, Fresh, provisos, PostFeed
<1> QED
  BY <1>1, <1>2, <1>3, AsideOK DEF IInv

LEMMA MagnitudeInt ==
    ASSUME NEW amount \in Int PROVE Magnitude(amount) \in Nat
BY DEF Magnitude

LEMMA MatchTxStep ==
    ASSUME IInv, NEW h \in Handlers, NEW x \in Txs, NEW i \in Invoices,
           MatchTx(h, x, i)
    PROVE  IInv'
<1>1. JobsOK' /\ Kept
  <2> DEFINE r == [Idle EXCEPT !.at = "link", !.inv = i, !.tx = x,
                               !.amount = Magnitude(txs[x].amount)]
  <2>0. Magnitude(txs[x].amount) \in Int
    BY MagnitudeInt DEF IInv, TypeOK
  <2>1. r \in Request /\ RequestOK(r) /\ r.entries = <<>>
    BY <2>0, IdleOK DEF Idle, Request, RequestOK, Stage
  <2> QED
    BY <2>1, AcceptOK DEF IInv, MatchTx, Workers
<1>2. TypeOK'
  BY <1>1 DEF IInv, TypeOK, JobsOK, books, provisos, Counted, MatchTx
<1>3. LinesKept
  BY DEF LinesKept, Fresh, provisos, MatchTx
<1> QED
  BY <1>1, <1>2, <1>3, AsideOK DEF IInv

LEMMA SaveMatchStep ==
    ASSUME IInv, NEW h \in Workers, SaveMatch(h)
    PROVE  IInv'
<1>1. JobsOK' /\ Kept
  <2>1. job[h].at = "link"
    BY DEF SaveMatch
  <2> QED
    BY <2>1, GotoOK DEF IInv, SaveMatch, Steps, Workers
<1>2. TypeOK'
  <2>1. job[h].inv \in Invoices /\ job[h].tx \in Txs
    BY Locals DEF IInv, SaveMatch, RequestOK, Workers
  <2>2. txs' \in [Txs -> [amount : Int, link : Invoices \union {NoInvoice},
                         origin : {"absent", "unposted", "feed",
                                   "payment"}]]
    BY <2>1 DEF IInv, TypeOK, SaveMatch
  <2>3. rematched' \in SUBSET Invoices
    BY <2>1 DEF IInv, TypeOK, SaveMatch
  <2> QED
    BY <1>1, <2>2, <2>3 DEF IInv, TypeOK, JobsOK, books, SaveMatch
<1>3. LinesKept
  BY DEF LinesKept, Fresh, provisos, SaveMatch
<1> QED
  BY <1>1, <1>2, <1>3, AsideOK DEF IInv

LEMMA ReclassifyStep ==
    ASSUME IInv, NEW h \in Workers, Reclassify(h)
    PROVE  IInv'
<1>1. JobsOK' /\ Kept
  <2>1. job[h].at = "reclassify"
    BY DEF Reclassify
  <2> QED
    BY <2>1, DoneOK DEF IInv, Reclassify, Workers
<1>2. TypeOK'
  <2> DEFINE i == job[h].inv
             amount == txs[job[h].tx].amount
             lines == [unexplained |-> amount]
  <2>1. i \in Invoices /\ job[h].tx \in Txs
    BY Locals DEF IInv, Reclassify, RequestOK, Workers
  <2>2. /\ receivable \in [Invoices -> Int] /\ ledger \in [Account -> Int]
        /\ amount \in Int /\ receivable[i] - amount \in Int
    BY <2>1 DEF IInv, TypeOK
  <2>3. ledger' \in [Account -> Int]
    <3>1. \A a \in DOMAIN lines : lines[a] \in Int
      BY <2>2
    <3>2. ledger' = Booked(lines) \/ ledger' = ledger
      BY DEF Reclassify
    <3> QED
      BY <2>2, <3>1, <3>2, BookedOK DEF IInv
  <2>4. receivable' \in [Invoices -> Int]
    <3>1. \/ receivable' = receivable
          \/ receivable' = [receivable EXCEPT ![i] = receivable[i] - amount]
      BY DEF Reclassify
    <3> QED
      BY <2>1, <2>2, <3>1, UpdateOK
  <2>5. unmoved' \subseteq Invoices
    BY <2>1 DEF IInv, TypeOK, Reclassify
  <2> QED
    BY <1>1, <2>3, <2>4, <2>5 DEF IInv, TypeOK, JobsOK, Reclassify
<1>3. LinesKept
  BY DEF LinesKept, Fresh, Reclassify
<1> QED
  BY <1>1, <1>2, <1>3, AsideOK DEF IInv

LEMMA CancelStep ==
    ASSUME IInv, NEW h \in Handlers, NEW i \in Invoices, Cancel(h, i)
    PROVE  IInv'
<1>1. JobsOK' /\ Kept
  <2> DEFINE r == [Idle EXCEPT !.at = "find cancel", !.inv = i]
  <2>1. r \in Request /\ RequestOK(r) /\ r.entries = <<>>
    BY IdleOK DEF Idle, Request, RequestOK, Stage
  <2> QED
    BY <2>1, AcceptOK DEF IInv, Cancel, Workers
<1>2. TypeOK'
  BY <1>1 DEF IInv, TypeOK, JobsOK, books, provisos, Counted, Cancel
<1>3. LinesKept
  BY DEF LinesKept, Fresh, provisos, Cancel
<1> QED
  BY <1>1, <1>2, <1>3, AsideOK DEF IInv

LEMMA FindCancelStep ==
    ASSUME IInv, NEW h \in Workers, FindCancel(h)
    PROVE  IInv'
<1>1. JobsOK' /\ Kept
  <2> DEFINE i == job[h].inv
             at == IF invoices[i].stage \in Posted
                   THEN "reverse" ELSE "save cancel"
             r == [job[h] EXCEPT !.at = at,
                       !.stage = invoices[i].stage, !.paid = invoices[i].paid]
  <2>1. job[h] \in Request /\ RequestOK(job[h]) /\ h \in Workers
    BY Locals DEF IInv, Workers
  <2>2. /\ i \in Invoices /\ job[h].entries = <<>>
        /\ job[h].at \notin {"create", "mark"}
    BY <2>1 DEF RequestOK, FindCancel
  <2>3. invoices[i].stage \in Stage /\ invoices[i].paid \in Int
    BY <2>2, TypedInvoice DEF IInv
  <2>4. r \in Request /\ RequestOK(r) /\ r.entries = <<>>
    BY <2>1, <2>2, <2>3 DEF Request, RequestOK
  <2>5. CASE job' = [job EXCEPT ![h] = r]
    BY <2>1, <2>2, <2>4, <2>5, WriteOK DEF IInv
  <2>6. CASE job' = [job EXCEPT ![h] = Idle]
    BY <2>1, <2>2, <2>6, IdleAgain DEF IInv
  <2>7. job' = [job EXCEPT ![h] = r] \/ job' = [job EXCEPT ![h] = Idle]
    BY <2>1 DEF IInv, JobsOK, FindCancel
  <2> QED
    BY <2>5, <2>6, <2>7
<1>2. TypeOK'
  BY <1>1 DEF IInv, TypeOK, JobsOK, books, provisos, Counted, FindCancel
<1>3. LinesKept
  BY DEF LinesKept, Fresh, provisos, FindCancel
<1> QED
  BY <1>1, <1>2, <1>3, AsideOK DEF IInv

LEMMA ReverseStep ==
    ASSUME IInv, NEW h \in Workers, Reverse(h)
    PROVE  IInv'
<1>1. JobsOK' /\ Kept
  <2>1. job[h].at = "reverse"
    BY DEF Reverse
  <2> QED
    BY <2>1, GotoOK DEF IInv, Reverse, Steps, Workers
<1>2. TypeOK'
  <2>1. job[h].inv \in Invoices /\ job[h].amount \in Int /\ job[h].paid \in Int
    BY Locals DEF IInv, Reverse, RequestOK, Workers
  <2> DEFINE i == job[h].inv
             lines == [income |-> invoices[i].net, vat |-> invoices[i].vat]
  <2>2. /\ invoices[i].net \in Nat /\ invoices[i].vat \in Nat
        /\ invoices[i].paid \in Int
        /\ Payable(i) \in Int /\ receivable[i] \in Int
    BY <2>1, TypedInvoice DEF IInv
  <2>3. ledger' \in [Account -> Int]
    <3>1. \A a \in DOMAIN lines : lines[a] \in Int
      BY <2>1, <2>2
    <3> QED
      BY <3>1, BookedOK DEF IInv, Reverse
  <2>4. receivable' \in [Invoices -> Int]
    <3>1. /\ receivable \in [Invoices -> Int]
          /\ receivable[i] - Payable(i) \in Int
      BY <2>1, <2>2 DEF IInv, TypeOK
    <3>2. receivable' = [receivable EXCEPT ![i] = receivable[i] - Payable(i)]
      BY DEF Reverse
    <3> QED
      BY <2>1, <3>1, <3>2, UpdateOK
  <2> QED
    BY <1>1, <2>1, <2>3, <2>4
       DEF IInv, TypeOK, JobsOK, books, provisos, Reverse
<1>3. LinesKept
  BY DEF LinesKept, Fresh, provisos, Reverse
<1> QED
  BY <1>1, <1>2, <1>3, AsideOK DEF IInv

LEMMA SaveCancelStep ==
    ASSUME IInv, NEW h \in Workers, SaveCancel(h)
    PROVE  IInv'
<1>1. JobsOK' /\ Kept
  <2> DEFINE r == [job[h] EXCEPT !.at = "split"]
  <2>1. job[h] \in Request /\ RequestOK(job[h]) /\ h \in Workers
    BY Locals DEF IInv, Workers
  <2>2. /\ job[h].inv \in Invoices /\ job[h].entries = <<>>
        /\ job[h].at \notin {"create", "mark"}
    BY <2>1 DEF RequestOK, SaveCancel
  <2>3. CASE job[h].parts = <<>>
    BY <2>1, <2>2, <2>3, DoneOK DEF IInv, SaveCancel
  <2>4. CASE job[h].parts # <<>>
    <3>1. r \in Request /\ RequestOK(r) /\ r.entries = <<>>
      BY <2>1, <2>2, <2>4 DEF Request, RequestOK
    <3>2. job' = [job EXCEPT ![h] = r]
      BY <2>1, <2>4 DEF IInv, JobsOK, SaveCancel, Goto
    <3> QED
      BY <2>1, <2>2, <3>1, <3>2, WriteOK DEF IInv
  <2> QED
    BY <2>3, <2>4
<1>2. TypeOK'
  <2>1. job[h].inv \in Invoices /\ h \in Workers
    BY Locals DEF IInv, SaveCancel, RequestOK, Workers
  <2>2. invoices' \in [Invoices -> Invoice]
    BY <2>1, SaveStageOK DEF IInv, SaveCancel, Stage
  <2>3. raced' \in SUBSET (Invoices \union Entries)
    BY <2>1, NoteRaceOK DEF IInv, SaveCancel
  <2> QED
    BY <1>1, <2>2, <2>3 DEF IInv, TypeOK, JobsOK, books, SaveCancel
<1>3. LinesKept
  <2>1. job[h].inv \in Invoices /\ h \in Workers
    BY Locals DEF IInv, SaveCancel, RequestOK, Workers
  <2>2. raced \subseteq raced'
    BY <2>1, NoteRaceOK DEF IInv, SaveCancel
  <2>3. \A i \in Invoices : /\ invoices'[i].lines = invoices[i].lines
                            /\ Fresh(i)' => Fresh(i)
    BY <2>1, SaveStageOK DEF IInv, SaveCancel, Stage
  <2> QED
    BY <2>2, <2>3 DEF LinesKept, SaveCancel
<1> QED
  BY <1>1, <1>2, <1>3, AsideOK DEF IInv

LEMMA WriteOffStep ==
    ASSUME IInv, NEW h \in Handlers, NEW i \in Invoices, WriteOff(h, i)
    PROVE  IInv'
<1>1. JobsOK' /\ Kept
  <2> DEFINE r == [Idle EXCEPT
                   !.at = IF invoices[i].stage \in Posted /\ Outstanding(i) > 0
                          THEN "expense" ELSE "save write-off",
                   !.inv = i, !.stage = invoices[i].stage,
                   !.paid = invoices[i].paid]
  <2>0. invoices[i].stage \in Stage /\ invoices[i].paid \in Int
    BY TypedInvoice DEF IInv
  <2>1. r \in Request /\ RequestOK(r) /\ r.entries = <<>>
    BY <2>0, IdleOK DEF Idle, Request, RequestOK, Stage
  <2> QED
    BY <2>1, AcceptOK DEF IInv, WriteOff, Workers
<1>2. TypeOK'
  BY <1>1 DEF IInv, TypeOK, JobsOK, books, provisos, Counted, WriteOff
<1>3. LinesKept
  BY DEF LinesKept, Fresh, provisos, WriteOff
<1> QED
  BY <1>1, <1>2, <1>3, AsideOK DEF IInv

LEMMA ExpenseStep ==
    ASSUME IInv, NEW h \in Workers, Expense(h)
    PROVE  IInv'
<1>1. JobsOK' /\ Kept
  <2>1. job[h].at = "expense"
    BY DEF Expense
  <2> QED
    BY <2>1, GotoOK DEF IInv, Expense, Steps, Workers
<1>2. TypeOK'
  <2>1. job[h].inv \in Invoices /\ job[h].paid \in Int
    BY Locals DEF IInv, Expense, RequestOK, Workers
  <2> DEFINE i == job[h].inv
             amount == Payable(i) - job[h].paid
             lines == [a \in {"bad debt"} |-> amount]
  <2>2. /\ receivable \in [Invoices -> Int]
        /\ amount \in Int /\ receivable[i] - amount \in Int
    BY <2>1, TypedInvoice DEF IInv, TypeOK
  <2>3. ledger' \in [Account -> Int]
    BY <2>2, BookedOK DEF IInv, Expense
  <2>4. receivable' \in [Invoices -> Int]
    <3>1. receivable' = [receivable EXCEPT ![i] = receivable[i] - amount]
      BY DEF Expense
    <3> QED
      BY <2>1, <2>2, <3>1, UpdateOK
  <2> QED
    BY <1>1, <2>3, <2>4 DEF IInv, TypeOK, JobsOK, books, provisos, Expense
<1>3. LinesKept
  BY DEF LinesKept, Fresh, provisos, Expense
<1> QED
  BY <1>1, <1>2, <1>3, AsideOK DEF IInv

LEMMA SaveWriteOffStep ==
    ASSUME IInv, NEW h \in Workers, SaveWriteOff(h)
    PROVE  IInv'
<1>1. JobsOK' /\ Kept
  <2>1. job[h].at = "save write-off"
    BY DEF SaveWriteOff
  <2> QED
    BY <2>1, DoneOK DEF IInv, SaveWriteOff, Workers
<1>2. TypeOK'
  <2>1. job[h].inv \in Invoices /\ h \in Workers
    BY Locals DEF IInv, SaveWriteOff, RequestOK, Workers
  <2>2. invoices' \in [Invoices -> Invoice]
    BY <2>1, SaveStageOK DEF IInv, SaveWriteOff, Stage
  <2>3. raced' \in SUBSET (Invoices \union Entries)
    BY <2>1, NoteRaceOK DEF IInv, SaveWriteOff
  <2> QED
    BY <1>1, <2>2, <2>3 DEF IInv, TypeOK, JobsOK, books, SaveWriteOff
<1>3. LinesKept
  <2>1. job[h].inv \in Invoices /\ h \in Workers
    BY Locals DEF IInv, SaveWriteOff, RequestOK, Workers
  <2>2. raced \subseteq raced'
    BY <2>1, NoteRaceOK DEF IInv, SaveWriteOff
  <2>3. \A i \in Invoices : /\ invoices'[i].lines = invoices[i].lines
                            /\ Fresh(i)' => Fresh(i)
    BY <2>1, SaveStageOK DEF IInv, SaveWriteOff, Stage
  <2> QED
    BY <2>2, <2>3 DEF LinesKept, SaveWriteOff
<1> QED
  BY <1>1, <1>2, <1>3, AsideOK DEF IInv

LEMMA CreditNoteStep ==
    ASSUME IInv, NEW h \in Handlers, NEW i \in Invoices,
           NEW amount \in Amounts, CreditNote(h, i, amount)
    PROVE  IInv'
<1>1. JobsOK' /\ Kept
  <2> DEFINE r == [Idle EXCEPT !.at = "credit", !.inv = i, !.amount = amount]
  <2>0. amount \in Nat /\ amount \in Int
    BY ReceivablesAssumption
  <2>1. Idle \in Request /\ RequestOK(Idle) /\ Idle.entries = <<>>
    BY IdleOK
  <2>2. r \in Request /\ r.amount = amount
    BY <2>0, IdleOK DEF Idle, Request
  <2>3. RequestOK(r) /\ r.entries = <<>>
    BY <2>0, <2>1, <2>2 DEF RequestOK, Request, Idle
  <2> QED
    BY <2>2, <2>3, AcceptOK DEF IInv, CreditNote, Workers
<1>2. TypeOK'
  BY <1>1 DEF IInv, TypeOK, JobsOK, books, provisos, Counted, CreditNote
<1>3. LinesKept
  BY DEF LinesKept, Fresh, provisos, CreditNote
<1> QED
  BY <1>1, <1>2, <1>3, AsideOK DEF IInv

LEMMA PostCreditStep ==
    ASSUME IInv, NEW h \in Workers, PostCredit(h)
    PROVE  IInv'
<1>1. JobsOK' /\ Kept
  <2>1. job[h].at = "credit"
    BY DEF PostCredit
  <2> QED
    BY <2>1, DoneOK DEF IInv, PostCredit, Workers
<1>2. TypeOK'
  <2>1. job[h].inv \in Invoices /\ job[h].amount \in Nat /\ job[h].paid \in Int
    BY Locals DEF IInv, PostCredit, RequestOK, Workers
  <2> DEFINE i == job[h].inv
             lines == [income |-> job[h].amount]
  <2>2. /\ invoices[i].net \in Nat /\ invoices[i].vat \in Nat
        /\ invoices[i].paid \in Int
        /\ Payable(i) \in Int /\ receivable[i] \in Int
    BY <2>1, TypedInvoice DEF IInv
  <2>3. ledger' \in [Account -> Int]
    <3>1. \A a \in DOMAIN lines : lines[a] \in Int
      BY <2>1, <2>2
    <3> QED
      BY <3>1, BookedOK DEF IInv, PostCredit
  <2>4. receivable' \in [Invoices -> Int]
    <3>1. /\ receivable \in [Invoices -> Int]
          /\ receivable[i] - job[h].amount \in Int
      BY <2>1, <2>2 DEF IInv, TypeOK
    <3>2. receivable' = [receivable EXCEPT ![i] = receivable[i] - job[h].amount]
      BY DEF PostCredit
    <3> QED
      BY <2>1, <3>1, <3>2, UpdateOK
  <2>5. credited' \in [Invoices -> Nat]
    BY <2>1 DEF IInv, TypeOK, PostCredit
  <2> QED
    BY <1>1, <2>1, <2>3, <2>4, <2>5
       DEF IInv, TypeOK, JobsOK, books, provisos, PostCredit
<1>3. LinesKept
  BY DEF LinesKept, Fresh, provisos, PostCredit
<1> QED
  BY <1>1, <1>2, <1>3, AsideOK DEF IInv

LEMMA CreatePlanStep ==
    ASSUME IInv, NEW h \in Handlers, NEW i \in Invoices,
           NEW parts \in Instalments, CreatePlan(h, i, parts)
    PROVE  IInv'
<1>1. JobsOK' /\ Kept
  <2> DEFINE r == [Idle EXCEPT !.at = "find cancel", !.inv = i, !.parts = parts]
  <2>0. parts \in Seq(Nat)
    BY ReceivablesAssumption
  <2>1. Idle \in Request /\ RequestOK(Idle) /\ Idle.entries = <<>>
    BY IdleOK
  <2>2. r \in Request
    BY <2>0, <2>1 DEF Request
  <2>3. RequestOK(r) /\ r.entries = <<>>
    BY <2>1, <2>2 DEF RequestOK, Request, Idle
  <2> QED
    BY <2>2, <2>3, AcceptOK DEF IInv, CreatePlan, Workers
<1>2. TypeOK'
  BY <1>1 DEF IInv, TypeOK, JobsOK, books, provisos, Counted, CreatePlan
<1>3. LinesKept
  BY DEF LinesKept, Fresh, provisos, CreatePlan
<1> QED
  BY <1>1, <1>2, <1>3, AsideOK DEF IInv

LEMMA DraftInstalmentStep ==
    ASSUME IInv, NEW h \in Handlers, NEW i \in Invoices, DraftInstalment(h, i)
    PROVE  IInv'
<1>0. /\ [net |-> Head(job[h].parts), vat |-> 0, wht |-> 0]
             \in [net : Nat, vat : Nat, wht : Nat]
      /\ job[h].inv \in Invoices
      /\ invoices' = Created(i, [net |-> Head(job[h].parts), vat |-> 0,
                                 wht |-> 0], <<>>, job[h].inv)
  <2>1. /\ job[h].parts \in Seq(Nat)
        /\ job[h].parts # <<>>
        /\ job[h].inv \in Invoices
    BY Locals DEF IInv, Workers, RequestOK, DraftInstalment
  <2>2. Head(job[h].parts) \in Nat
    BY <2>1
  <2> QED
    BY <2>1, <2>2 DEF DraftInstalment
<1>1. JobsOK' /\ Kept
  <2> DEFINE parts == job[h].parts
             r == [job[h] EXCEPT !.parts = Tail(parts),
                      !.made = @ \union {i},
                      !.at = IF Len(parts) = 1 THEN "save plan" ELSE "split"]
  <2>1. job[h] \in Request /\ RequestOK(job[h]) /\ h \in Workers
    BY Locals DEF IInv, Workers
  <2>2. /\ job[h].inv \in Invoices /\ job[h].entries = <<>>
        /\ parts # <<>> /\ parts \in Seq(Nat)
        /\ job[h].made \in SUBSET Invoices
    BY <2>1 DEF RequestOK, Request, DraftInstalment
  <2>3. /\ Tail(parts) \in Seq(Nat)
        /\ Len(parts) # 1 => Tail(parts) # <<>>
    <3>1. Len(parts) \in Nat /\ Len(parts) # 0
      BY <2>2, EmptySeq
    <3>2. Tail(parts) \in Seq(Nat) /\ Len(Tail(parts)) = Len(parts) - 1
      BY <2>2, <3>1
    <3>3. \A s : s = <<>> => Len(s) = 0
      BY EmptySeq, Zenon
    <3>4. Len(parts) # 1 => Len(Tail(parts)) # 0
      BY <3>1, <3>2
    <3> QED
      BY <3>2, <3>3, <3>4, Zenon
  <2>4. r \in Request /\ RequestOK(r) /\ r.entries = <<>>
    BY <2>1, <2>2, <2>3 DEF Request, RequestOK, DraftInstalment
  <2>5. job' = [job EXCEPT ![h] = r]
    BY <2>1 DEF IInv, JobsOK, DraftInstalment
  <2> QED
    BY <2>1, <2>2, <2>4, <2>5, WriteOK DEF IInv
<1>2. TypeOK'
  <2>1. invoices' \in [Invoices -> Invoice]
    BY <1>0, NoLines, CreatedOK DEF IInv
  <2> QED
    BY <1>1, <2>1 DEF IInv, TypeOK, JobsOK, books, provisos,
                      DraftInstalment
<1>3. LinesKept
  <2>1. invoices[i].lines = <<>> /\ invoices[i].stage = "absent"
    BY DEF IInv, LinesOK, DraftInstalment, Fresh
  <2>2. \A j \in Invoices : /\ invoices'[j].lines = invoices[j].lines
                            /\ Fresh(j)' => Fresh(j)
    BY <1>0, <2>1, NoLines, CreatedOK DEF IInv, Fresh
  <2> QED
    BY <2>2 DEF LinesKept, DraftInstalment, provisos
<1> QED
  BY <1>1, <1>2, <1>3, AsideOK DEF IInv

LEMMA SavePlanStep ==
    ASSUME IInv, NEW h \in Workers, SavePlan(h)
    PROVE  IInv'
<1>1. JobsOK' /\ Kept
  <2>1. job[h].at = "save plan"
    BY DEF SavePlan
  <2> QED
    BY <2>1, DoneOK DEF IInv, SavePlan, Workers
<1>2. TypeOK'
  <2>1. job[h].inv \in Invoices /\ job[h].made \in SUBSET Invoices
    BY Locals DEF IInv, SavePlan, RequestOK, Workers
  <2> QED
    BY <1>1, <2>1 DEF IInv, TypeOK, JobsOK, books, provisos, SavePlan
<1>3. LinesKept
  BY DEF LinesKept, Fresh, provisos, SavePlan
<1> QED
  BY <1>1, <1>2, <1>3, AsideOK DEF IInv

LEMMA ApproveAllStep ==
    ASSUME IInv, NEW h \in Handlers, NEW i \in Invoices, ApproveAll(h, i)
    PROVE  IInv'
<1>1. JobsOK' /\ Kept
  <2> DEFINE r == [Idle EXCEPT !.at = "pick", !.batch = "submit",
                              !.todo = plans[i]]
  <2>0. plans[i] \in SUBSET Invoices
    BY DEF IInv, TypeOK
  <2>1. r \in Request /\ RequestOK(r) /\ r.entries = <<>>
    BY <2>0, IdleOK DEF Idle, Request, RequestOK, Stage
  <2> QED
    BY <2>1, AcceptOK DEF IInv, ApproveAll, Workers
<1>2. TypeOK'
  BY <1>1 DEF IInv, TypeOK, JobsOK, books, provisos, Counted, ApproveAll
<1>3. LinesKept
  BY DEF LinesKept, Fresh, provisos, ApproveAll
<1> QED
  BY <1>1, <1>2, <1>3, AsideOK DEF IInv

LEMMA PickStep ==
    ASSUME IInv, NEW w \in Workers, NEW i \in Invoices, Pick(w, i)
    PROVE  IInv'
<1>1. JobsOK' /\ Kept
  <2>1. /\ job[w].at = "pick" /\ job[w].batch \in {"submit", "send"}
        /\ job[w].entries = <<>>
    BY Locals DEF IInv, Pick, RequestOK
  <2>2. CASE Moving(w, job[w].batch, i)
    BY <2>1, <2>2, MovingOK DEF IInv, From
  <2>3. CASE job' = [job EXCEPT ![w] = Idle]
    BY <2>1, <2>3, IdleAgain DEF IInv
  <2> DEFINE r == [job[w] EXCEPT !.todo = @ \ {i}]
  <2>4. CASE job' = [job EXCEPT ![w] = r]
    <3>1. job[w] \in Request /\ RequestOK(job[w])
      BY Locals DEF IInv
    <3>2. r \in Request /\ RequestOK(r) /\ r.entries = <<>>
      BY <2>1, <3>1 DEF Request, RequestOK
    <3> QED
      BY <2>1, <2>4, <3>2, WriteOK DEF IInv
  <2>5. \/ Moving(w, job[w].batch, i)
        \/ job' = [job EXCEPT ![w] = Idle]
        \/ job' = [job EXCEPT ![w] = r]
    <3>1. CASE invoices[i].stage = From[job[w].batch]
      BY <3>1 DEF Pick
    <3>2. CASE invoices[i].stage # From[job[w].batch] /\ job[w].todo = {i}
      BY <3>2 DEF Pick
    <3>3. CASE invoices[i].stage # From[job[w].batch] /\ job[w].todo # {i}
      BY <3>3 DEF Pick
    <3> QED
      BY <3>1, <3>2, <3>3
  <2> QED
    BY <2>2, <2>3, <2>4, <2>5
<1>2. TypeOK'
  BY <1>1 DEF IInv, TypeOK, JobsOK, books, provisos, Counted, Pick
<1>3. LinesKept
  BY DEF LinesKept, Fresh, provisos, Pick
<1> QED
  BY <1>1, <1>2, <1>3, AsideOK DEF IInv

LEMMA FindSubmittedStep ==
    ASSUME IInv, NEW w \in Workers, FindSubmitted(w)
    PROVE  IInv'
<1>1. JobsOK' /\ Kept
  <2>1. job[w].at = "find"
    BY DEF FindSubmitted
  <2>2. job[w].inv \in Invoices
    BY <2>1, Locals DEF IInv, RequestOK
  <2>3. CASE Moving(w, "approve", job[w].inv)
    BY <2>1, <2>2, <2>3, MovingOK DEF IInv, From
  <2>4. CASE job' = [job EXCEPT ![w] = Idle]
    BY <2>1, <2>4, IdleAgain DEF IInv
  <2> QED
    BY <2>3, <2>4 DEF FindSubmitted
<1>2. TypeOK'
  BY <1>1 DEF IInv, TypeOK, JobsOK, books, provisos, Counted, FindSubmitted
<1>3. LinesKept
  BY DEF LinesKept, Fresh, provisos, FindSubmitted
<1> QED
  BY <1>1, <1>2, <1>3, AsideOK DEF IInv

LEMMA AutoSendStep ==
    ASSUME IInv, AutoSend
    PROVE  IInv'
<1>1. JobsOK' /\ Kept
  <2> DEFINE r == [Idle EXCEPT !.at = "pick", !.batch = "send",
                               !.todo = DueInstalments]
  <2>1. DueInstalments \in SUBSET Invoices
    BY DEF IInv, TypeOK, DueInstalments
  <2>2. r \in Request /\ RequestOK(r) /\ r.entries = <<>>
    BY <2>1, IdleOK DEF Idle, Request, RequestOK
  <2> QED
    BY <2>2, AcceptOK DEF IInv, AutoSend, Workers
<1>2. TypeOK'
  BY <1>1 DEF IInv, TypeOK, JobsOK, books, provisos, AutoSend
<1>3. LinesKept
  BY DEF LinesKept, Fresh, provisos, AutoSend
<1> QED
  BY <1>1, <1>2, <1>3, AsideOK DEF IInv

LEMMA ComesDueStep ==
    ASSUME IInv, NEW i \in Invoices, ComesDue(i)
    PROVE  IInv'
<1>1. JobsOK' /\ Kept
  BY DEF IInv, JobsOK, ComesDue, Kept
<1>2. TypeOK'
  BY <1>1 DEF IInv, TypeOK, JobsOK, books, provisos, Counted, ComesDue
<1>3. LinesKept
  BY DEF LinesKept, Fresh, provisos, ComesDue
<1> QED
  BY <1>1, <1>2, <1>3, AsideOK DEF IInv

-----------------------------------------------------------------------------
(* The steps that bill, and the faults *)

LEMMA BillEntriesStep ==
    ASSUME IInv, NEW h \in Handlers, NEW ids \in Selections,
           BillEntries(h, ids)
    PROVE  IInv'
<1> DEFINE r == [Idle EXCEPT !.at = "create", !.entries = ids]
<1>0. ids \in Seq(Entries)
  BY ReceivablesAssumption
<1>1. /\ r \in Request /\ RequestOK(r)
      /\ r.at = "create" /\ r.entries = ids
  BY <1>0, IdleOK DEF Idle, Request, RequestOK, Stage
<1>2. h \in Workers /\ job[h] = Idle /\ job' = [job EXCEPT ![h] = r]
  BY DEF BillEntries, Accept, Workers
<1>3. JobsOK'
  BY <1>1, <1>2, ReceivablesAssumption DEF IInv, JobsOK
<1>4. TypeOK'
  <2>1. Range(ids) \subseteq Entries /\ Twice(ids) \subseteq Entries
    BY <1>0, Listed
  <2> QED
    BY <1>3, <2>1 DEF IInv, TypeOK, JobsOK, books, Counted, BillEntries
<1>5. LinesOK' /\ TwiceOK'
  <2>1. LinesOK'
    BY DEF IInv, LinesOK, Fresh, BillEntries
  <2>2. \A w \in Workers : job'[w].entries \in {job[w].entries, ids}
    BY <1>1, <1>2 DEF IInv, JobsOK
  <2>3. /\ repeated' = repeated \union Twice(ids) /\ invoices' = invoices
        /\ \A i \in Invoices : Twice(invoices[i].lines) \subseteq repeated
        /\ \A w \in Workers : Twice(job[w].entries) \subseteq repeated
    BY DEF IInv, TwiceOK, BillEntries
  <2>4. \A w \in Workers : Twice(job'[w].entries) \subseteq repeated'
    BY <2>2, <2>3
  <2> QED
    BY <2>1, <2>3, <2>4 DEF TwiceOK, Twice
<1>6. ASSUME NEW e \in Entries
      PROVE  Billing(e)'
  <2>1. InvoicesOf(e)' = InvoicesOf(e) /\ entries' = entries
    BY DEF InvoicesOf, BillEntries
  <2>2. /\ job'[h].entries = ids /\ job'[h].at = "create"
        /\ \A g \in Handlers \ {h} : job'[g] = job[g]
        /\ job[h].entries = <<>>
    BY <1>1, <1>2, IdleOK DEF IInv, JobsOK, Workers
  <2>3. e \notin lost' \union raced' => e \notin lost \union raced
    BY DEF BillEntries
  <2>4. CASE e \in Range(ids)
    <3>1. entries[e].invoice = NoInvoice
      BY <2>4 DEF BillEntries, Invoiceable
    <3>2. e \notin lost' \union raced' =>
              /\ \A g \in Handlers : e \notin Range(job[g].entries)
              /\ InvoicesOf(e) = {}
      <4>1. e \notin raced' =>
                \A g \in Handlers : e \notin Range(job[g].entries)
        BY <2>4 DEF BillEntries
      <4> QED
        BY <2>3, <3>1, <4>1 DEF IInv, Billing, BilledBy
    <3>3. e \notin lost' \union raced' =>
              \A g \in Handlers : e \in Range(job'[g].entries) => g = h
      BY <2>2, <3>2
    <3> QED
      BY <2>1, <2>2, <2>4, <3>1, <3>2, <3>3 DEF Billing, BilledBy
  <2>5. CASE e \notin Range(ids)
    <3>1. \A g \in Handlers :
              /\ e \in Range(job'[g].entries) <=> e \in Range(job[g].entries)
              /\ e \in Range(job[g].entries) =>
                     job'[g].at = job[g].at /\ job'[g].inv = job[g].inv
      BY <2>2, <2>5, RangeEmpty
    <3> QED
      BY <2>1, <2>3, <3>1, BillingKept DEF IInv
  <2> QED
    BY <2>4, <2>5
<1> QED
  BY <1>3, <1>4, <1>5, <1>6 DEF IInv

LEMMA CreateFromWipStep ==
    ASSUME IInv, NEW h \in Handlers, NEW i \in Invoices, NEW terms \in Terms,
           CreateFromWip(h, i, terms)
    PROVE  IInv'
<1> DEFINE r == [job[h] EXCEPT !.at = "mark", !.inv = i]
<1>1. /\ h \in Workers /\ job[h] \in Request /\ RequestOK(job[h])
      /\ job[h].at = "create"
  BY Locals DEF IInv, Workers, CreateFromWip
<1>2. /\ r \in Request /\ RequestOK(r)
      /\ r.at = "mark" /\ r.inv = i /\ r.entries = job[h].entries
  BY <1>1 DEF Request, RequestOK
<1>3. job' = [job EXCEPT ![h] = r]
  BY <1>1 DEF IInv, JobsOK, CreateFromWip
<1>4. JobsOK'
  BY <1>1, <1>2, <1>3, ReceivablesAssumption DEF IInv, JobsOK
<1>5. /\ invoices' \in [Invoices -> Invoice]
      /\ \A j \in Invoices \ {i} : invoices'[j] = invoices[j]
      /\ invoices'[i].stage = "Draft"
      /\ invoices'[i].lines = job[h].entries
  <2>1. /\ terms \in [net : Nat, vat : Nat, wht : Nat]
        /\ job[h].entries \in Seq(Entries)
    BY <1>1, ReceivablesAssumption DEF Request
  <2> QED
    BY <2>1, CreatedOK DEF IInv, CreateFromWip
<1>6. TypeOK'
  BY <1>4, <1>5 DEF IInv, TypeOK, JobsOK, books, provisos, CreateFromWip
<1>7. LinesOK' /\ TwiceOK'
  <2>1. LinesOK'
    BY <1>5 DEF IInv, LinesOK, Fresh
  <2>2. /\ \A j \in Invoices : invoices'[j].lines
                \in {invoices[j].lines, job[h].entries}
        /\ \A w \in Workers : job'[w].entries = job[w].entries
        /\ repeated' = repeated
    BY <1>1, <1>2, <1>3, <1>5 DEF IInv, JobsOK, CreateFromWip, provisos
  <2> QED
    BY <1>1, <2>1, <2>2 DEF IInv, TwiceOK, Twice
<1>8. ASSUME NEW e \in Entries
      PROVE  Billing(e)'
  <2>1. invoices[i].lines = <<>>
    BY DEF IInv, LinesOK, CreateFromWip
  <2>2. /\ job'[h].entries = job[h].entries
        /\ job'[h].at = "mark" /\ job'[h].inv = i
        /\ \A g \in Handlers \ {h} : job'[g] = job[g]
    BY <1>1, <1>2, <1>3 DEF IInv, JobsOK, Workers
  <2>3. entries' = entries /\ lost' = lost /\ raced' = raced
    BY DEF CreateFromWip, provisos
  <2>4. CASE e \in Range(job[h].entries)
    <3>1. e \notin lost \union raced =>
              /\ InvoicesOf(e) = {}
              /\ \A g \in Handlers : e \in Range(job[g].entries) => g = h
      BY <1>1, <2>4 DEF IInv, Billing, BilledBy
    <3>2. InvoicesOf(e) = {} => InvoicesOf(e)' = {i}
      BY <1>5, <2>4 DEF InvoicesOf
    <3> QED
      BY <2>2, <2>3, <2>4, <3>1, <3>2 DEF Billing, BilledBy
  <2>5. CASE e \notin Range(job[h].entries)
    <3>1. \A j \in Invoices :
              e \in Range(invoices'[j].lines) <=> e \in Range(invoices[j].lines)
      BY <1>5, <2>1, <2>5, RangeEmpty
    <3>2. InvoicesOf(e)' = InvoicesOf(e)
      BY <3>1 DEF InvoicesOf
    <3>3. \A g \in Handlers :
              /\ e \in Range(job'[g].entries) <=> e \in Range(job[g].entries)
              /\ e \in Range(job[g].entries) =>
                     job'[g].at = job[g].at /\ job'[g].inv = job[g].inv
      BY <2>2, <2>5
    <3> QED
      BY <2>3, <3>2, <3>3, BillingKept DEF IInv
  <2> QED
    BY <2>4, <2>5
<1> QED
  BY <1>4, <1>6, <1>7, <1>8 DEF IInv

LEMMA MarkInvoicedStep ==
    ASSUME IInv, NEW h \in Workers, MarkInvoiced(h)
    PROVE  IInv'
<1>1. /\ job[h] \in Request /\ RequestOK(job[h]) /\ job[h].at = "mark"
      /\ job[h].entries \in Seq(Entries)
  BY Locals DEF IInv, MarkInvoiced
<1>2. job[h].inv \in Invoices /\ job[h].inv # NoInvoice
  BY <1>1, ReceivablesAssumption DEF RequestOK
<1>3. /\ JobsOK'
      /\ job'[h].entries = <<>>
      /\ \A w \in Workers \ {h} : job'[w] = job[w]
  BY <1>1, DoneOK DEF IInv, JobsOK, MarkInvoiced, Done, Idle
<1>4. TypeOK'
  <2>1. entries' \in [Entries ->
            [review : Review, invoice : Invoices \union {NoInvoice}]]
    BY <1>2 DEF IInv, TypeOK, MarkInvoiced, Review
  <2> QED
    BY <1>3, <2>1 DEF IInv, TypeOK, JobsOK, books, provisos, MarkInvoiced
<1>5. LinesOK' /\ TwiceOK'
  <2>1. LinesOK'
    BY DEF IInv, LinesOK, Fresh, MarkInvoiced
  <2>2. \A w \in Workers : job'[w].entries \in {job[w].entries, <<>>}
    BY <1>3
  <2> QED
    BY <2>1, <2>2, RangeEmpty DEF IInv, TwiceOK, Twice, MarkInvoiced, provisos
<1>6. ASSUME NEW e \in Entries
      PROVE  Billing(e)'
  <2>1. InvoicesOf(e)' = InvoicesOf(e)
    BY DEF InvoicesOf, MarkInvoiced
  <2>2. lost' = lost /\ raced' = raced
    BY DEF MarkInvoiced, provisos
  <2>3. CASE e \in Range(job[h].entries)
    <3>1. h \in Handlers
      BY <2>3, RangeEmpty DEF IInv, JobsOK, Workers
    <3>2. e \notin lost \union raced =>
              /\ InvoicesOf(e) = {job[h].inv}
              /\ \A g \in Handlers : e \in Range(job[g].entries) => g = h
      BY <1>1, <2>3, <3>1 DEF IInv, Billing, BilledBy
    <3>3. entries'[e].invoice = job[h].inv
      BY <2>3 DEF MarkInvoiced
    <3>4. e \notin lost \union raced =>
              \A g \in Handlers : e \notin Range(job'[g].entries)
      BY <1>3, <3>2, RangeEmpty DEF Workers
    <3> QED
      BY <1>2, <2>1, <2>2, <3>2, <3>3, <3>4 DEF Billing, BilledBy
  <2>4. CASE e \notin Range(job[h].entries)
    <3>1. entries'[e].invoice = entries[e].invoice
      BY <2>4 DEF MarkInvoiced
    <3>2. \A g \in Handlers :
              /\ e \in Range(job'[g].entries) <=> e \in Range(job[g].entries)
              /\ e \in Range(job[g].entries) =>
                     job'[g].at = job[g].at /\ job'[g].inv = job[g].inv
      BY <1>3, <2>4, RangeEmpty DEF Workers
    <3> QED
      BY <2>1, <2>2, <3>1, <3>2, BillingKept DEF IInv
  <2> QED
    BY <2>3, <2>4
<1> QED
  BY <1>3, <1>4, <1>5, <1>6 DEF IInv

LEMMA AbortStep ==
    ASSUME IInv, NEW w \in Workers, Abort(w)
    PROVE  IInv'
<1> DEFINE r == IF w = Job /\ job[w].todo # {}
                THEN [Idle EXCEPT !.at = "pick", !.batch = "send",
                                  !.todo = job[w].todo]
                ELSE Idle
<1>1. job[w] \in Request /\ RequestOK(job[w])
  BY Locals DEF IInv
<1>2. /\ r \in Request /\ RequestOK(r) /\ r.entries = <<>>
  <2>1. PICK q : q = [Idle EXCEPT !.at = "pick", !.batch = "send",
                                  !.todo = job[w].todo]
    OBVIOUS
  <2>2. q \in Request /\ q.at = "pick" /\ q.batch = "send"
        /\ q.entries = <<>>
    <3>1. job[w].todo \in SUBSET Invoices
      BY <1>1 DEF Request
    <3> QED
      BY <2>1, <3>1, IdleOK DEF Idle, Request
  <2>3. RequestOK(q)
    BY <2>2 DEF RequestOK
  <2>4. r = q \/ r = Idle
    BY <2>1
  <2> HIDE DEF r
  <2> QED
    BY <2>2, <2>3, <2>4, IdleOK
<1>3. job' = [job EXCEPT ![w] = r]
  BY DEF Abort
<1>4. /\ JobsOK'
      /\ job'[w].entries = <<>>
      /\ \A v \in Workers \ {w} : job'[v] = job[v]
  BY <1>2, <1>3 DEF IInv, JobsOK
<1>5. /\ LeftBy(w) \in SUBSET (Invoices \union Entries)
      /\ Range(job[w].entries) \subseteq LeftBy(w)
  <2>1. Range(job[w].entries) \subseteq Entries
    BY Locals, Listed DEF IInv
  <2>2. job[w].inv \in Invoices \union {NoInvoice}
    BY <1>1 DEF Request
  <2> QED
    BY <2>1, <2>2 DEF LeftBy
<1>6. TypeOK'
  BY <1>4, <1>5 DEF IInv, TypeOK, JobsOK, books, Abort
<1>7. LinesOK' /\ TwiceOK'
  <2>1. LinesOK'
    BY DEF IInv, LinesOK, Fresh, Abort
  <2>2. \A v \in Workers : job'[v].entries \in {job[v].entries, <<>>}
    BY <1>4
  <2> QED
    BY <2>1, <2>2, RangeEmpty DEF IInv, TwiceOK, Twice, Abort
<1>8. ASSUME NEW e \in Entries
      PROVE  Billing(e)'
  <2>1. InvoicesOf(e)' = InvoicesOf(e) /\ entries' = entries
    BY DEF InvoicesOf, Abort
  <2>2. CASE e \in Range(job[w].entries)
    BY <1>5, <2>2 DEF Abort, Billing
  <2>3. CASE e \notin Range(job[w].entries)
    <3>1. \A g \in Handlers :
              /\ e \in Range(job'[g].entries) <=> e \in Range(job[g].entries)
              /\ e \in Range(job[g].entries) =>
                     job'[g].at = job[g].at /\ job'[g].inv = job[g].inv
      BY <1>4, <2>3, RangeEmpty DEF Workers
    <3>2. e \notin lost' \union raced' => e \notin lost \union raced
      BY DEF Abort
    <3> QED
      BY <2>1, <3>1, <3>2, BillingKept DEF IInv
  <2> QED
    BY <2>2, <2>3
<1> QED
  BY <1>4, <1>6, <1>7, <1>8 DEF IInv

LEMMA RestartStep ==
    ASSUME IInv, Restart
    PROVE  IInv'
<1>1. job' = [w \in Workers |-> Idle] /\ JobsOK'
  BY IdleOK DEF JobsOK, Restart, Workers
<1>2. \A w \in Workers : /\ LeftBy(w) \in SUBSET (Invoices \union Entries)
                         /\ Range(job[w].entries) \subseteq LeftBy(w)
  <2>1. \A w \in Workers : Range(job[w].entries) \subseteq Entries
    BY Locals, Listed DEF IInv
  <2> QED
    BY <2>1, Locals DEF IInv, LeftBy
<1>3. TypeOK'
  <2>1. UNION {LeftBy(w) : w \in Workers} \in SUBSET (Invoices \union Entries)
    BY <1>2
  <2> QED
    BY <1>1, <2>1 DEF IInv, TypeOK, JobsOK, books, Restart
<1>4. LinesOK' /\ TwiceOK'
  <2>1. LinesOK'
    BY DEF IInv, LinesOK, Fresh, Restart
  <2>2. \A w \in Workers : job'[w].entries = <<>>
    BY <1>1, IdleOK
  <2> QED
    BY <2>1, <2>2, RangeEmpty DEF IInv, TwiceOK, Twice, Restart
<1>5. ASSUME NEW e \in Entries
      PROVE  Billing(e)'
  <2>1. InvoicesOf(e)' = InvoicesOf(e) /\ entries' = entries
    BY DEF InvoicesOf, Restart
  <2>2. \A h \in Handlers : job'[h].entries = <<>>
    BY <1>1, IdleOK DEF Workers
  <2>3. e \notin lost' => \A h \in Handlers : e \notin Range(job[h].entries)
    BY <1>2 DEF Restart, Workers
  <2>4. e \notin lost' \union raced' => e \notin lost \union raced
    BY DEF Restart
  <2> QED
    BY <2>1, <2>2, <2>3, <2>4, RangeEmpty DEF IInv, Billing, BilledBy
<1> QED
  BY <1>1, <1>3, <1>4, <1>5 DEF IInv

-----------------------------------------------------------------------------
(* The invariant *)

LEMMA InitOK == Init => IInv
<1> SUFFICES ASSUME Init
             PROVE  IInv
  OBVIOUS
<1>1. JobsOK
  BY IdleOK DEF Init, JobsOK, Workers
<1>2. TypeOK
  <2>1. Blank \in Invoice
    BY NoLines DEF Blank, Invoice, Stage
  <2>2. /\ invoices \in [Invoices -> Invoice]
        /\ plans \in [Invoices -> SUBSET Invoices]
    BY <2>1 DEF Init
  <2>3. /\ entries \in [Entries ->
             [review : Review, invoice : Invoices \union {NoInvoice}]]
        /\ txs \in [Txs -> [amount : Int, link : Invoices \union {NoInvoice},
                           origin : {"absent", "unposted", "feed",
                                     "payment"}]]
    BY DEF Init, Review
  <2>4. /\ receivable \in [Invoices -> Int] /\ ledger \in [Account -> Int]
        /\ certificates \in [Invoices -> Nat] /\ credited \in [Invoices -> Nat]
    BY DEF Init
  <2> QED
    BY <1>1, <2>2, <2>3, <2>4 DEF Init, TypeOK, JobsOK
<1>3. LinesOK /\ TwiceOK
  BY IdleOK, RangeEmpty DEF Init, LinesOK, TwiceOK, Blank
<1>4. ASSUME NEW e \in Entries
      PROVE  Billing(e)
  <2>1. InvoicesOf(e) = {}
    BY RangeEmpty DEF Init, InvoicesOf, Blank
  <2>2. \A h \in Handlers : job[h].entries = <<>>
    BY IdleOK DEF Init, Workers
  <2> QED
    BY <2>1, <2>2, RangeEmpty DEF Init, Billing, BilledBy
<1> QED
  BY <1>1, <1>2, <1>3, <1>4 DEF IInv

LEMMA NextOK == IInv /\ [Next]_vars => IInv'
<1> SUFFICES ASSUME IInv, [Next]_vars
             PROVE  IInv'
  OBVIOUS
<1>1. CASE Office
  BY <1>1, CreateInvoiceStep, ReviewEntryStep, ComesDueStep DEF Office
<1>2. ASSUME NEW h \in Handlers, Requested(h)
      PROVE  IInv'
  BY <1>2, BillEntriesStep, ImportTxStep, MoveStep, RecordPaymentStep,
     MatchTxStep,
     CancelStep, WriteOffStep, CreditNoteStep, CreatePlanStep, ApproveAllStep
     DEF Requested
<1>3. ASSUME NEW h \in Handlers, Insert(h)
      PROVE  IInv'
  BY <1>3, CreateFromWipStep, DraftInstalmentStep, BankStep DEF Insert
<1>4. ASSUME NEW w \in Workers, Advance(w)
      PROVE  IInv'
  BY <1>4, MarkInvoicedStep, PickStep, SaveMoveStep, PostSaleStep,
     CertifyStep, FindPaymentStep, SavePaymentStep, NoAccountStep,
     PostReceiptStep, PostFeedStep, SaveMatchStep, ReclassifyStep,
     FindCancelStep,
     ReverseStep, SaveCancelStep, ExpenseStep, SaveWriteOffStep,
     PostCreditStep, FindSubmittedStep, SavePlanStep DEF Advance
<1>5. ASSUME NEW w \in Workers, Abort(w)
      PROVE  IInv'
  BY <1>5, AbortStep
<1>6. CASE AutoSend
  BY <1>6, AutoSendStep
<1>7. CASE Restart
  BY <1>7, RestartStep
<1>8. CASE UNCHANGED vars
  <2>1. UNCHANGED <<invoices, due, plans, entries, txs, receivable, ledger,
                    certificates, job, requests, faults, credited, raced,
                    lost, astray, rematched, unmoved, repeated>>
    BY <1>8 DEF vars, books, provisos
  <2>2. JobsOK' /\ Kept
    BY <2>1 DEF IInv, JobsOK, Kept
  <2>3. TypeOK' /\ LinesKept
    BY <2>1 DEF IInv, TypeOK, LinesKept, Fresh
  <2> QED
    BY <2>2, <2>3, AsideOK DEF IInv
<1> QED
  BY <1>1, <1>2, <1>3, <1>4, <1>5, <1>6, <1>7, <1>8 DEF Next

LEMMA Invariance == Spec => []IInv
BY InitOK, NextOK, PTL DEF Spec

-----------------------------------------------------------------------------

\* The records of invoice.service.ts and its neighbours keep their types
\* through every interleaving and fault, with any number of requests.
THEOREM TypeCorrect == Spec => []TypeOK
<1>1. IInv => TypeOK
  BY DEF IInv
<1> QED
  BY <1>1, Invariance, PTL

\* createFromWip bills an hour once: whatever else goes on, an entry that one
\* request at a time has billed, that no request has listed twice, and none
\* has died at, is on the one invoice that its record names, on one line of
\* it, or on none.
THEOREM HoursBilledOnce == Spec => []BilledOnce
<1>1. IInv => BilledOnce
  BY DEF IInv, TwiceOK, Billing, BilledBy, BilledOnce
<1> QED
  BY <1>1, Invariance, PTL

(***************************************************************************)
(* What the books rest on.  LocalsOK: what a request has found out about   *)
(* its invoice and its bank transaction; what is read here never changes   *)
(* again, or the invoice is in one of the histories.                       *)
(***************************************************************************)
LocalsOK(w) == LET r == job[w] i == r.inv IN
    /\ i \in Invoices => ~Fresh(i)
    /\ r.at = "save" => r.move \in DOMAIN From /\ r.stage = From[r.move]
    /\ r.at = "reverse" => r.stage \in Posted
    /\ r.at \in {"reverse", "save cancel"} =>
           /\ r.stage \notin {"Cancelled", "Written Off", "Paid"}
           /\ i \in raced \/ r.paid = 0
    /\ r.at = "expense" => r.stage \in Posted /\ Payable(i) > r.paid
    /\ r.at = "save payment" =>
           /\ i \in astray \/ r.stage \in Posted \union {"Paid"}
           /\ i \in raced \/ r.amount >= 0 \/ r.paid + r.amount = Payable(i)
    /\ r.at = "save write-off" => i \in astray \/ r.stage # "Cancelled"
    /\ r.at = "link" => /\ txs[r.tx].origin # "absent"
                        /\ r.amount = Magnitude(txs[r.tx].amount)
    /\ r.at \in {"find payment", "save payment", "reclassify"}
           /\ r.tx # NoTx =>
           i \in rematched \/ /\ txs[r.tx].origin \in {"unposted", "feed"}
                              /\ txs[r.tx].link = i
                              /\ r.amount = Magnitude(txs[r.tx].amount)
    /\ r.parts \in Seq(Nat \ {0})

InvoiceOK(i) ==
    /\ ~Fresh(i) => Payable(i) > 0
    /\ i \notin raced => invoices[i].paid >= 0
    /\ i \notin raced \union astray =>
           /\ invoices[i].stage \in {"Draft", "In Review", "Approved"} =>
                  invoices[i].paid = 0
           /\ invoices[i].stage = "Paid" => invoices[i].paid >= Payable(i)

TxOK(x) ==
    /\ txs[x].origin = "absent" => txs[x].link = NoInvoice
    /\ txs[x].origin = "payment" => txs[x].link # NoInvoice

Grounded == /\ \A w \in Workers : LocalsOK(w)
            /\ \A i \in Invoices : InvoiceOK(i)
            /\ \A x \in Txs : TxOK(x)

\* What no step takes away.
Lasting ==
    /\ \A i \in Invoices : ~Fresh(i) =>
           /\ ~Fresh(i)'
           /\ Payable(i)' = Payable(i)
           /\ invoices'[i].wht = invoices[i].wht
    /\ \A x \in Txs : txs[x].origin # "absent" =>
           /\ txs'[x].origin \in {txs[x].origin, "feed"}
           /\ txs'[x].amount = txs[x].amount
           /\ txs'[x].link = txs[x].link \/ txs[x].link = NoInvoice
                  \/ txs[x].link \in rematched'
    /\ raced \subseteq raced' /\ lost \subseteq lost'
    /\ astray \subseteq astray' /\ rematched \subseteq rematched'
    /\ unmoved \subseteq unmoved'

Alone(w) == \A v \in Workers \ {w} : job'[v] = job[v]

-----------------------------------------------------------------------------
(* What the ways to go on do to a request *)

LEMMA GotoLocals ==
    ASSUME JobsOK, NEW w \in Workers, NEW at, Goto(w, at)
    PROVE  /\ Alone(w)
           /\ job'[w].at = at
           /\ job'[w].inv = job[w].inv /\ job'[w].tx = job[w].tx
           /\ job'[w].stage = job[w].stage /\ job'[w].paid = job[w].paid
           /\ job'[w].amount = job[w].amount /\ job'[w].parts = job[w].parts
           /\ job'[w].made = job[w].made /\ job'[w].move = job[w].move
BY Locals DEF Goto, Alone, JobsOK, Request

Blanked(w) ==
    /\ job'[w].at \in {"idle", "pick"}
    /\ job'[w].inv = NoInvoice /\ job'[w].tx = NoTx
    /\ job'[w].parts = <<>> /\ job'[w].made = {}

LEMMA DoneLocals ==
    ASSUME JobsOK, NEW w \in Workers, Done(w)
    PROVE  Alone(w) /\ Blanked(w)
BY DEF Done, Alone, JobsOK, Idle, Blanked

LEMMA IdleLocals ==
    ASSUME JobsOK, NEW w \in Workers, job' = [job EXCEPT ![w] = Idle]
    PROVE  Alone(w) /\ Blanked(w)
BY DEF Alone, JobsOK, Idle, Blanked

LEMMA AcceptLocals ==
    ASSUME JobsOK, NEW w \in Workers, NEW r, Accept(w, r)
    PROVE  /\ Alone(w) /\ job'[w] = r
           /\ job[w].at = "idle" /\ job[w].inv = NoInvoice /\ job[w].tx = NoTx
           /\ job[w].parts = <<>> /\ job[w].made = {}
BY DEF Accept, Alone, JobsOK, Idle

LEMMA MovingLocals ==
    ASSUME JobsOK, NEW w \in Workers, NEW i \in Invoices, NEW move,
           Moving(w, move, i)
    PROVE  /\ Alone(w)
           /\ job'[w].at = "save" /\ job'[w].move = move /\ job'[w].inv = i
           /\ job'[w].stage = invoices[i].stage
           /\ job'[w].paid = invoices[i].paid
           /\ job'[w].parts = job[w].parts /\ job'[w].made = job[w].made
           /\ job'[w].tx = job[w].tx
<1> DEFINE r == [job[w] EXCEPT !.at = "save", !.move = move, !.inv = i,
                     !.stage = invoices[i].stage, !.paid = invoices[i].paid,
                     !.todo = @ \ {i}]
<1>1. job' = [job EXCEPT ![w] = r]
  BY DEF Moving, JobsOK
<1>2. job[w] \in Request
  BY Locals
<1>3. /\ r.at = "save" /\ r.move = move /\ r.inv = i /\ r.tx = job[w].tx
      /\ r.stage = invoices[i].stage /\ r.paid = invoices[i].paid
      /\ r.parts = job[w].parts /\ r.made = job[w].made
  BY <1>2 DEF Request
<1>4. job'[w] = r /\ Alone(w)
  BY <1>1 DEF Alone, JobsOK
<1> QED
  BY <1>3, <1>4

LEMMA BlankedOK ==
    ASSUME NEW w \in Workers, Blanked(w)
    PROVE  LocalsOK(w)'
<1>1. <<>> \in Seq(Nat \ {0})
  BY EmptySeq
<1>2. NoInvoice \notin Invoices
  BY ReceivablesAssumption
<1> QED
  BY <1>1, <1>2 DEF Blanked, LocalsOK

LEMMA OthersOK ==
    ASSUME IInv, NEW v \in Workers, LocalsOK(v), Lasting, job'[v] = job[v]
    PROVE  LocalsOK(v)'
<1>1. /\ job[v].inv \in Invoices \union {NoInvoice}
      /\ job[v].tx \in Txs \union {NoTx}
      /\ job[v].at \notin {"idle", "create", "pick", "post feed"} =>
             job[v].inv \in Invoices
      /\ job[v].at = "link" => job[v].tx \in Txs
  BY Locals DEF IInv, RequestOK
<1>2. NoInvoice \notin Invoices
  BY ReceivablesAssumption
<1> DEFINE r == job[v]
           i == job[v].inv
<1>3. /\ i \in Invoices => ~Fresh(i)'
      /\ r.at = "expense" => r.stage \in Posted /\ Payable(i)' > r.paid
  BY <1>1 DEF Lasting, LocalsOK
<1>4. /\ r.at = "save payment" =>
             /\ i \in astray' \/ r.stage \in Posted \union {"Paid"}
             /\ i \in raced' \/ r.amount >= 0
                    \/ r.paid + r.amount = Payable(i)'
      /\ r.at = "save write-off" => i \in astray' \/ r.stage # "Cancelled"
      /\ r.at = "link" => /\ txs'[r.tx].origin # "absent"
                          /\ r.amount = Magnitude(txs'[r.tx].amount)
  BY <1>1 DEF Lasting, LocalsOK
<1>5. r.at \in {"find payment", "save payment", "reclassify"} /\ r.tx # NoTx =>
          i \in rematched' \/ /\ txs'[r.tx].origin \in {"unposted", "feed"}
                              /\ txs'[r.tx].link = i
                              /\ r.amount = Magnitude(txs'[r.tx].amount)
  <2>1. CASE i \in rematched
    BY <2>1 DEF Lasting
  <2>2. CASE i \notin rematched
    BY <1>1, <1>2, <2>2 DEF Lasting, LocalsOK
  <2> QED
    BY <2>1, <2>2
<1>6. r.at \in {"reverse", "save cancel"} => i \in raced' \/ r.paid = 0
  BY DEF Lasting, LocalsOK
<1> QED
  BY <1>3, <1>4, <1>5, <1>6 DEF LocalsOK

-----------------------------------------------------------------------------
(* What no step takes away *)

LEMMA CreatedLasts ==
    ASSUME IInv, NEW i \in Invoices, NEW terms, NEW lines, NEW original,
           Fresh(i), invoices' = Created(i, terms, lines, original),
           NEW j \in Invoices, ~Fresh(j)
    PROVE  invoices'[j] = invoices[j]
BY DEF IInv, TypeOK, Created, Fresh

LEMMA StageLasts ==
    ASSUME IInv, NEW w \in Workers, NEW stage \in Stage \ {"absent"},
           job[w].inv \in Invoices, SaveStage(w, stage)
    PROVE  /\ \A i \in Invoices :
                  /\ invoices'[i].net = invoices[i].net
                  /\ invoices'[i].vat = invoices[i].vat
                  /\ invoices'[i].wht = invoices[i].wht
                  /\ invoices'[i].paid = invoices[i].paid
                  /\ ~Fresh(i) => ~Fresh(i)'
                  /\ i # job[w].inv => invoices'[i] = invoices[i]
           /\ invoices'[job[w].inv].stage =
                  IF stage = job[w].stage THEN invoices[job[w].inv].stage
                  ELSE stage
<1>1. \A i \in Invoices : invoices[i] \in Invoice
  BY DEF IInv, TypeOK
<1> QED
  BY <1>1 DEF IInv, TypeOK, SaveStage, Fresh, Invoice

LEMMA PaymentLasts ==
    ASSUME IInv, NEW w \in Workers, SavePayment(w)
    PROVE  /\ job[w].inv \in Invoices
           /\ \A i \in Invoices :
                  /\ invoices'[i].net = invoices[i].net
                  /\ invoices'[i].vat = invoices[i].vat
                  /\ invoices'[i].wht = invoices[i].wht
                  /\ ~Fresh(i) => ~Fresh(i)'
                  /\ i # job[w].inv => invoices'[i] = invoices[i]
           /\ invoices'[job[w].inv].paid = job[w].paid + job[w].amount
           /\ invoices'[job[w].inv].stage \in
                  {"Paid", "Part Paid", invoices[job[w].inv].stage}
           /\ LET stage == IF job[w].paid + job[w].amount
                                  >= Payable(job[w].inv)
                           THEN "Paid" ELSE "Part Paid"
              IN  invoices'[job[w].inv].stage =
                      IF stage = job[w].stage
                      THEN invoices[job[w].inv].stage ELSE stage
<1>1. \A i \in Invoices : invoices[i] \in Invoice
  BY DEF IInv, TypeOK
<1>2. job[w].inv \in Invoices
  BY Locals DEF IInv, SavePayment, RequestOK
<1> QED
  BY <1>1, <1>2 DEF IInv, TypeOK, SavePayment, Fresh, Invoice

SameInvoices == \A i \in Invoices : ~Fresh(i) =>
    ~Fresh(i)' /\ Payable(i)' = Payable(i) /\ invoices'[i].wht = invoices[i].wht

LEMMA LastingIf ==
    ASSUME SameInvoices, txs' = txs, raced \subseteq raced',
           lost \subseteq lost', astray \subseteq astray',
           rematched \subseteq rematched', unmoved \subseteq unmoved'
    PROVE  Lasting
BY DEF Lasting, SameInvoices

LEMMA SameIf == ASSUME invoices' = invoices PROVE SameInvoices
BY DEF SameInvoices, Fresh, Payable

LEMMA OfficeLasts == ASSUME IInv, Office PROVE Lasting
<1>1. ASSUME NEW i \in Invoices, NEW terms \in Terms, CreateInvoice(i, terms)
      PROVE  Lasting
  <2>1. SameInvoices
    BY <1>1, CreatedLasts DEF SameInvoices, CreateInvoice, Fresh, Payable
  <2> QED
    BY <1>1, <2>1, LastingIf DEF CreateInvoice, provisos
<1>2. ASSUME NEW e \in Entries, NEW review, ReviewEntry(e, review)
      PROVE  Lasting
  BY <1>2, SameIf, LastingIf DEF ReviewEntry, provisos
<1>3. ASSUME NEW i \in Invoices, ComesDue(i)
      PROVE  Lasting
  BY <1>3, SameIf, LastingIf DEF ComesDue, provisos
<1> QED
  BY <1>1, <1>2, <1>3 DEF Office

LEMMA RequestedLasts ==
    ASSUME IInv, NEW h \in Handlers, Requested(h)
    PROVE  Lasting
<1>0. ASSUME NEW x \in Txs, NEW amount, ImportTx(h, x, amount)
      PROVE  Lasting
  BY <1>0, SameIf DEF ImportTx, IInv, TypeOK, Lasting, SameInvoices, provisos
<1> SUFFICES ASSUME \A x \in Txs, amount \in FeedAmounts :
                        ~ImportTx(h, x, amount)
             PROVE  Lasting
  BY <1>0
<1>1. invoices' = invoices /\ txs' = txs
  BY DEF Requested, BillEntries, Move, RecordPayment, MatchTx, Cancel,
         WriteOff, CreditNote, CreatePlan, ApproveAll
<1>2. /\ raced \subseteq raced' /\ lost \subseteq lost'
      /\ astray \subseteq astray' /\ rematched \subseteq rematched'
      /\ unmoved \subseteq unmoved'
  BY DEF Requested, BillEntries, Move, RecordPayment, MatchTx, Cancel,
         WriteOff, CreditNote, CreatePlan, ApproveAll, provisos
<1> QED
  BY <1>1, <1>2, SameIf, LastingIf

LEMMA InsertLasts ==
    ASSUME IInv, NEW h \in Handlers, Insert(h)
    PROVE  Lasting
<1>1. ASSUME NEW i \in Invoices, NEW terms \in Terms,
             CreateFromWip(h, i, terms)
      PROVE  Lasting
  <2>1. SameInvoices
    BY <1>1, CreatedLasts DEF SameInvoices, CreateFromWip, Fresh, Payable
  <2> QED
    BY <1>1, <2>1, LastingIf DEF CreateFromWip, provisos
<1>2. ASSUME NEW i \in Invoices, DraftInstalment(h, i)
      PROVE  Lasting
  <2>1. SameInvoices
    BY <1>2, CreatedLasts DEF SameInvoices, DraftInstalment, Fresh, Payable
  <2> QED
    BY <1>2, <2>1, LastingIf DEF DraftInstalment, provisos
<1>3. ASSUME NEW x \in Txs, Bank(h, x)
      PROVE  Lasting
  BY <1>3, SameIf DEF Bank, IInv, TypeOK, Lasting, SameInvoices, provisos
<1> QED
  BY <1>1, <1>2, <1>3 DEF Insert

LEMMA SavesLast ==
    ASSUME IInv, NEW w \in Workers,
           SaveMove(w) \/ SaveCancel(w) \/ SaveWriteOff(w) \/ SavePayment(w)
    PROVE  Lasting
<1>1. CASE SavePayment(w)
  <2>1. SameInvoices
    BY <1>1, PaymentLasts DEF SameInvoices, Payable
  <2> QED
    BY <1>1, <2>1, LastingIf DEF SavePayment, NoteRace
<1>2. ASSUME NEW stage \in Stage \ {"absent"}, SaveStage(w, stage),
             job[w].inv \in Invoices
      PROVE  SameInvoices
  BY <1>2, StageLasts DEF SameInvoices, Payable
<1>3. CASE SaveMove(w)
  <2>1. /\ job[w].move \in {"submit", "approve", "send"}
        /\ job[w].inv \in Invoices
    BY <1>3, Locals DEF IInv, SaveMove, RequestOK
  <2>2. To[job[w].move] \in Stage \ {"absent"}
    BY <2>1, ToOK
  <2> QED
    BY <1>3, <1>2, <2>1, <2>2, LastingIf DEF SaveMove, NoteRace
<1>4. CASE SaveCancel(w)
  <2>1. job[w].inv \in Invoices /\ "Cancelled" \in Stage \ {"absent"}
    BY <1>4, Locals DEF IInv, SaveCancel, RequestOK, Stage
  <2> QED
    BY <1>4, <1>2, <2>1, LastingIf DEF SaveCancel, NoteRace
<1>5. CASE SaveWriteOff(w)
  <2>1. job[w].inv \in Invoices /\ "Written Off" \in Stage \ {"absent"}
    BY <1>5, Locals DEF IInv, SaveWriteOff, RequestOK, Stage
  <2> QED
    BY <1>5, <1>2, <2>1, LastingIf DEF SaveWriteOff, NoteRace
<1> QED
  BY <1>1, <1>3, <1>4, <1>5

LEMMA AdvanceLasts ==
    ASSUME IInv, NEW w \in Workers, Advance(w)
    PROVE  Lasting
<1>1. CASE SaveMove(w) \/ SaveCancel(w) \/ SaveWriteOff(w) \/ SavePayment(w)
  BY <1>1, SavesLast
<1>2. CASE SaveMatch(w)
  <2>1. job[w].tx \in Txs
    BY <1>2, Locals DEF IInv, RequestOK, SaveMatch
  <2> QED
    BY <1>2, <2>1, SameIf
       DEF SaveMatch, IInv, TypeOK, Lasting, SameInvoices
<1>4. CASE PostFeed(w)
  <2>1. job[w].tx \in Txs
    BY <1>4, Locals DEF IInv, RequestOK, PostFeed
  <2> QED
    BY <1>4, <2>1, SameIf
       DEF PostFeed, IInv, TypeOK, Lasting, SameInvoices, provisos
<1>3. CASE \/ MarkInvoiced(w) \/ \E i \in Invoices : Pick(w, i)
           \/ PostSale(w) \/ Certify(w) \/ FindPayment(w) \/ NoAccount(w)
           \/ PostReceipt(w) \/ Reclassify(w) \/ FindCancel(w) \/ Reverse(w)
           \/ Expense(w) \/ PostCredit(w) \/ FindSubmitted(w) \/ SavePlan(w)
  <2>1. invoices' = invoices /\ txs' = txs
    BY <1>3 DEF MarkInvoiced, Pick, PostSale, Certify, FindPayment,
       NoAccount, PostReceipt, Reclassify, FindCancel, Reverse, Expense,
       PostCredit, FindSubmitted, SavePlan
  <2>2. /\ raced \subseteq raced' /\ lost \subseteq lost'
        /\ astray \subseteq astray' /\ rematched \subseteq rematched'
        /\ unmoved \subseteq unmoved'
    BY <1>3 DEF MarkInvoiced, Pick, PostSale, Certify, FindPayment,
       NoAccount, PostReceipt, Reclassify, FindCancel, Reverse, Expense,
       PostCredit, FindSubmitted, SavePlan, provisos
  <2> QED
    BY <2>1, <2>2, SameIf, LastingIf
<1> QED
  BY <1>1, <1>2, <1>3, <1>4 DEF Advance

LEMMA StepLasts == ASSUME IInv, [Next]_vars PROVE Lasting
<1>1. ASSUME NEW w \in Workers, Abort(w)
      PROVE  Lasting
  BY <1>1, SameIf, LastingIf DEF Abort
<1>2. CASE AutoSend
  BY <1>2, SameIf, LastingIf DEF AutoSend, provisos
<1>3. CASE Restart
  BY <1>3, SameIf, LastingIf DEF Restart
<1>4. CASE UNCHANGED vars
  BY <1>4, SameIf, LastingIf DEF vars, provisos
<1> QED
  BY <1>1, <1>2, <1>3, <1>4, OfficeLasts, RequestedLasts, InsertLasts,
     AdvanceLasts DEF Next

-----------------------------------------------------------------------------
(* The books' ground, step by step *)

LEMMA GroundedIf ==
    ASSUME IInv, Grounded, Lasting, NEW w \in Workers, Alone(w),
           LocalsOK(w)', \A i \in Invoices : InvoiceOK(i)',
           \A x \in Txs : TxOK(x)'
    PROVE  Grounded'
BY OthersOK DEF Grounded, Alone

LEMMA InvoicesStay ==
    ASSUME Grounded, Lasting, NEW i \in Invoices, invoices'[i] = invoices[i]
    PROVE  InvoiceOK(i)'
BY DEF Grounded, Lasting, InvoiceOK, Fresh, Payable

LEMMA TxsStay == ASSUME Grounded, txs' = txs PROVE \A x \in Txs : TxOK(x)'
BY DEF Grounded, TxOK

\* A step that changes nothing but what one request knows, or the accounts.
LEMMA KnowledgeOK ==
    ASSUME IInv, Grounded, Lasting, NEW w \in Workers, Alone(w),
           LocalsOK(w)', UNCHANGED <<invoices, txs>>
    PROVE  Grounded'
BY GroundedIf, InvoicesStay, TxsStay

\* A request ends, or turns to the next of a batch.
LEMMA EndsOK ==
    ASSUME IInv, Grounded, Lasting, NEW w \in Workers, Alone(w), Blanked(w),
           UNCHANGED <<invoices, txs>>
    PROVE  Grounded'
BY KnowledgeOK, BlankedOK

LEMMA PartsOK == ASSUME IInv, Grounded, NEW w \in Workers
                 PROVE  job[w].parts \in Seq(Nat \ {0})
BY DEF Grounded, LocalsOK

LEMMA FromOK ==
    ASSUME NEW move \in {"submit", "approve", "send"}
    PROVE  /\ move \in DOMAIN From
           /\ From[move] \in {"Draft", "In Review", "Approved"}
           /\ From[move] = IF move = "submit" THEN "Draft"
                           ELSE IF move = "approve" THEN "In Review"
                           ELSE "Approved"
           /\ To[move] = IF move = "submit" THEN "In Review"
                         ELSE IF move = "approve" THEN "Approved"
                         ELSE "Sent"
<1>1. CASE move = "submit"
  BY <1>1 DEF From, To
<1>2. CASE move = "approve"
  BY <1>2 DEF From, To
<1>3. CASE move = "send"
  BY <1>3 DEF From, To
<1> QED
  BY <1>1, <1>2, <1>3

LEMMA MovesOK == DOMAIN From = {"submit", "approve", "send"}
BY DEF From

LEMMA MovingGround ==
    ASSUME IInv, Lasting, NEW w \in Workers, NEW i \in Invoices,
           NEW move \in DOMAIN From, Moving(w, move, i), Grounded,
           invoices' = invoices
    PROVE  LocalsOK(w)' /\ Alone(w)
<1>1. JobsOK
  BY DEF IInv
<1>2. invoices[i].stage = From[move]
  BY DEF Moving
<1>3. /\ Alone(w)
      /\ job'[w].at = "save" /\ job'[w].move = move /\ job'[w].inv = i
      /\ job'[w].stage = From[move]
      /\ job'[w].parts = job[w].parts
  BY <1>1, <1>2, MovingLocals
<1>4. job[w].parts \in Seq(Nat \ {0})
  BY PartsOK
<1>5. ~Fresh(i)'
  BY <1>2, MovesOK, FromOK DEF Fresh
<1> QED
  BY <1>3, <1>4, <1>5 DEF LocalsOK

LEMMA RequestedGround ==
    ASSUME IInv, IInv', Grounded, NEW h \in Handlers, Requested(h)
    PROVE  Grounded'
<1> h \in Workers /\ JobsOK
  BY DEF Workers, IInv
<1> NoInvoice \notin Invoices /\ NoTx \notin Txs /\ <<>> \in Seq(Nat \ {0})
  BY ReceivablesAssumption, EmptySeq
<1>12. ASSUME NEW x \in Txs, NEW amount \in FeedAmounts,
              ImportTx(h, x, amount)
       PROVE  Grounded'
  <2>1. Lasting
    BY RequestedLasts
  <2>2. \A i \in Invoices : InvoiceOK(i)'
    BY <1>12, <2>1, InvoicesStay DEF ImportTx
  <2>3. \A y \in Txs : TxOK(y)'
    BY <1>12 DEF ImportTx, Grounded, TxOK, IInv, TypeOK
  <2> DEFINE r == [Idle EXCEPT !.at = "post feed", !.tx = x,
                              !.amount = amount]
  <2>4. Accept(h, r)
    BY <1>12 DEF ImportTx
  <2>5. r.at = "post feed" /\ r.inv = NoInvoice /\ r.parts = <<>>
    BY DEF Idle
  <2> HIDE DEF r
  <2>6. Alone(h) /\ job'[h] = r
    BY <2>4, AcceptLocals
  <2>7. LocalsOK(h)'
    BY <2>5, <2>6 DEF LocalsOK
  <2> QED
    BY <2>1, <2>2, <2>3, <2>6, <2>7, GroundedIf
<1> SUFFICES ASSUME \A x \in Txs, amount \in FeedAmounts :
                        ~ImportTx(h, x, amount)
             PROVE  Grounded'
  BY <1>12
<1>0. /\ Lasting /\ UNCHANGED <<invoices, txs>>
  <2>1. UNCHANGED <<invoices, txs>>
    BY DEF Requested, BillEntries, Move, RecordPayment, MatchTx, Cancel,
           WriteOff, CreditNote, CreatePlan, ApproveAll
  <2> QED
    BY <2>1, RequestedLasts
<1>1. ASSUME NEW r, Accept(h, r), r.inv = NoInvoice, r.tx = NoTx,
             r.parts = <<>>, r.at \in {"create", "pick"}
      PROVE  Grounded'
  <2>1. Alone(h) /\ job'[h] = r
    BY <1>1, AcceptLocals
  <2>2. LocalsOK(h)'
    BY <1>1, <2>1 DEF LocalsOK
  <2> QED
    BY <1>0, <2>1, <2>2, KnowledgeOK
<1>2. ASSUME NEW r, Accept(h, r), r.inv \in Invoices, ~Fresh(r.inv),
             r.tx = NoTx, r.parts \in Seq(Nat \ {0}),
             \/ r.at \in {"find payment", "find cancel", "credit"}
             \/ r.at = "save write-off"
                    /\ (r.inv \in astray' \/ r.stage # "Cancelled")
             \/ r.at = "expense" /\ r.stage \in Posted
                    /\ Payable(r.inv) > r.paid
      PROVE  Grounded'
  <2>1. Alone(h) /\ job'[h] = r
    BY <1>2, AcceptLocals
  <2>2. LocalsOK(h)'
    BY <1>0, <1>2, <2>1 DEF LocalsOK, Fresh, Payable
  <2> QED
    BY <1>0, <2>1, <2>2, KnowledgeOK
<1>3. ASSUME NEW ids \in Selections, BillEntries(h, ids)
      PROVE  Grounded'
  BY <1>1, <1>3 DEF BillEntries, Idle
<1>4. ASSUME NEW i \in Invoices, ApproveAll(h, i)
      PROVE  Grounded'
  BY <1>1, <1>4 DEF ApproveAll, Idle
<1>5. ASSUME NEW i \in Invoices, NEW amount, RecordPayment(h, i, amount)
      PROVE  Grounded'
  BY <1>2, <1>5 DEF RecordPayment, Idle
<1>6. ASSUME NEW i \in Invoices, Cancel(h, i)
      PROVE  Grounded'
  BY <1>2, <1>6 DEF Cancel, Idle
<1>7. ASSUME NEW i \in Invoices, NEW amount, CreditNote(h, i, amount)
      PROVE  Grounded'
  <2>1. ~Fresh(i)
    BY <1>7 DEF CreditNote, Posted, Fresh
  <2> QED
    BY <1>2, <1>7, <2>1 DEF CreditNote, Idle
<1>8. ASSUME NEW i \in Invoices, NEW parts \in Instalments,
             CreatePlan(h, i, parts)
      PROVE  Grounded'
  <2>1. parts \in Seq(Nat \ {0})
    BY ReceivablesAssumption
  <2> QED
    BY <1>2, <1>8, <2>1 DEF CreatePlan, Idle
<1>9. ASSUME NEW i \in Invoices, WriteOff(h, i)
      PROVE  Grounded'
  <2> DEFINE r == [Idle EXCEPT
           !.at = IF invoices[i].stage \in Posted /\ Outstanding(i) > 0
                  THEN "expense" ELSE "save write-off",
           !.inv = i, !.stage = invoices[i].stage,
           !.paid = invoices[i].paid]
  <2>1. Accept(h, r) /\ ~Fresh(i)
    BY <1>9 DEF WriteOff
  <2>2. /\ r.inv = i /\ r.tx = NoTx /\ r.parts = <<>>
        /\ r.stage = invoices[i].stage /\ r.paid = invoices[i].paid
        /\ r.at = IF invoices[i].stage \in Posted /\ Outstanding(i) > 0
                  THEN "expense" ELSE "save write-off"
    BY DEF Idle
  <2>3. r.at = "expense" => r.stage \in Posted /\ Payable(i) > r.paid
    BY <2>2, TypedInvoice DEF Outstanding, IInv
  <2>4. r.stage = "Cancelled" => i \in astray'
    BY <1>9, <2>2 DEF WriteOff
  <2> HIDE DEF r
  <2> QED
    BY <1>2, <2>1, <2>2, <2>3, <2>4
<1>10. ASSUME NEW i \in Invoices, NEW x \in Txs, MatchTx(h, x, i)
      PROVE  Grounded'
  <2> DEFINE r == [Idle EXCEPT !.at = "link", !.inv = i, !.tx = x,
                              !.amount = Magnitude(txs[x].amount)]
  <2>1. Accept(h, r) /\ ~Fresh(i) /\ txs[x].origin # "absent"
    BY <1>10 DEF MatchTx
  <2>2. /\ r.inv = i /\ r.tx = x /\ r.parts = <<>> /\ r.at = "link"
        /\ r.amount = Magnitude(txs[x].amount)
    BY DEF Idle
  <2> HIDE DEF r
  <2>3. Alone(h) /\ job'[h] = r
    BY <2>1, AcceptLocals
  <2>4. LocalsOK(h)'
    BY <1>0, <2>1, <2>2, <2>3 DEF LocalsOK, Fresh, Payable
  <2> QED
    BY <1>0, <2>3, <2>4, KnowledgeOK
<1>11. ASSUME NEW i \in Invoices, NEW move \in DOMAIN From, Move(h, move, i)
      PROVE  Grounded'
  <2>1. Moving(h, move, i)
    BY <1>11 DEF Move
  <2>2. LocalsOK(h)' /\ Alone(h)
    BY <1>0, <2>1, MovingGround
  <2> QED
    BY <1>0, <2>2, KnowledgeOK
<1> QED
  BY <1>3, <1>4, <1>5, <1>6, <1>7, <1>8, <1>9, <1>10, <1>11 DEF Requested

LEMMA CreatedGround ==
    ASSUME IInv, Grounded, Lasting, NEW i \in Invoices, Fresh(i),
           NEW terms \in [net : Nat, vat : Nat, wht : Nat],
           terms.net + terms.vat > terms.wht,
           NEW lines, NEW original,
           invoices' = Created(i, terms, lines, original)
    PROVE  /\ \A j \in Invoices : InvoiceOK(j)'
           /\ ~Fresh(i)' /\ Payable(i)' = terms.net + terms.vat - terms.wht
<1>1. ASSUME NEW j \in Invoices \ {i}
      PROVE  InvoiceOK(j)'
  <2>1. invoices'[j] = invoices[j]
    BY DEF Created, IInv, TypeOK
  <2> QED
    BY <2>1, InvoicesStay
<1>2. /\ invoices'[i].stage = "Draft" /\ invoices'[i].paid = 0
      /\ invoices'[i].net = terms.net /\ invoices'[i].vat = terms.vat
      /\ invoices'[i].wht = terms.wht
  BY DEF Created, IInv, TypeOK
<1>3. Payable(i)' = terms.net + terms.vat - terms.wht /\ ~Fresh(i)'
  BY <1>2 DEF Payable, Fresh
<1>4. InvoiceOK(i)'
  BY <1>2, <1>3 DEF InvoiceOK
<1> QED
  BY <1>1, <1>3, <1>4

LEMMA TermsOK ==
    ASSUME NEW terms \in Terms
    PROVE  /\ terms \in [net : Nat, vat : Nat, wht : Nat]
           /\ terms.net + terms.vat > terms.wht
BY ReceivablesAssumption

LEMMA OfficeGround ==
    ASSUME IInv, IInv', Grounded, Office
    PROVE  Grounded'
<1>0. Lasting
  BY OfficeLasts
<1>1. SUFFICES /\ job' = job
               /\ \A i \in Invoices : InvoiceOK(i)'
               /\ \A x \in Txs : TxOK(x)'
  <2>1. ASSUME job' = job, NEW v \in Workers
        PROVE  LocalsOK(v)'
    BY <1>0, <2>1, OthersOK DEF Grounded
  <2> QED
    BY <2>1 DEF Grounded
<1>2. ASSUME NEW i \in Invoices, NEW terms \in Terms, CreateInvoice(i, terms)
      PROVE  /\ job' = job
             /\ \A j \in Invoices : InvoiceOK(j)'
             /\ \A x \in Txs : TxOK(x)'
  BY <1>0, <1>2, CreatedGround, TermsOK, TxsStay DEF CreateInvoice
<1>4. CASE \/ \E e \in Entries, review \in {"Unbilled", "Held"} :
                  ReviewEntry(e, review)
           \/ \E i \in Invoices : ComesDue(i)
  <2>1. job' = job /\ UNCHANGED <<invoices, txs>>
    BY <1>4 DEF ReviewEntry, ComesDue
  <2> QED
    BY <1>0, <2>1, InvoicesStay, TxsStay
<1> QED
  BY <1>2, <1>4 DEF Office

LEMMA InsertGround ==
    ASSUME IInv, IInv', Grounded, NEW h \in Handlers, Insert(h)
    PROVE  Grounded'
<1>0. Lasting /\ h \in Workers /\ JobsOK /\ NoInvoice \notin Invoices
  BY InsertLasts, ReceivablesAssumption DEF Workers, IInv
<1>1. ASSUME NEW i \in Invoices, NEW terms \in Terms,
             CreateFromWip(h, i, terms)
      PROVE  Grounded'
  <2>1. (\A j \in Invoices : InvoiceOK(j)') /\ ~Fresh(i)'
    BY <1>0, <1>1, TermsOK, CreatedGround DEF CreateFromWip
  <2>2. /\ Alone(h) /\ job'[h].at = "mark" /\ job'[h].inv = i
        /\ job'[h].parts = job[h].parts
    BY <1>0, <1>1, Locals DEF CreateFromWip, Alone, JobsOK, Request
  <2>3. LocalsOK(h)'
    BY <1>0, <2>1, <2>2, PartsOK DEF LocalsOK
  <2> QED
    BY <1>0, <1>1, <2>1, <2>2, <2>3, GroundedIf, TxsStay DEF CreateFromWip
<1>2. ASSUME NEW i \in Invoices, DraftInstalment(h, i)
      PROVE  Grounded'
  <2> DEFINE parts == job[h].parts
  <2>1. parts \in Seq(Nat \ {0}) /\ parts # <<>> /\ job[h].inv \in Invoices
    BY <1>0, <1>2, PartsOK, Locals DEF DraftInstalment, RequestOK
  <2>2. Head(parts) \in Nat \ {0} /\ Tail(parts) \in Seq(Nat \ {0})
    BY <2>1, HeadTailProperties
  <2> DEFINE terms == [net |-> Head(parts), vat |-> 0, wht |-> 0]
  <2>3. \A j \in Invoices : InvoiceOK(j)'
    <3>1. terms \in [net : Nat, vat : Nat, wht : Nat]
      BY <2>2
    <3>2. terms.net + terms.vat > terms.wht
      BY <2>2
    <3>3. Fresh(i) /\ invoices' = Created(i, terms, <<>>, job[h].inv)
      BY <1>2 DEF DraftInstalment
    <3> HIDE DEF terms
    <3> QED
      BY <1>0, <3>1, <3>2, <3>3, CreatedGround
  <2>4. /\ Alone(h) /\ job'[h].at \in {"split", "save plan"}
        /\ job'[h].inv = job[h].inv /\ job'[h].parts = Tail(parts)
    BY <1>0, <1>2, Locals DEF DraftInstalment, Alone, JobsOK, Request
  <2>5. LocalsOK(h)'
    BY <1>0, <2>1, <2>2, <2>4 DEF LocalsOK, Grounded, Lasting
  <2> QED
    BY <1>0, <1>2, <2>3, <2>4, <2>5, GroundedIf, TxsStay DEF DraftInstalment
<1>3. ASSUME NEW x \in Txs, Bank(h, x)
      PROVE  Grounded'
  <2>1. \A i \in Invoices : InvoiceOK(i)'
    BY <1>0, <1>3, InvoicesStay DEF Bank
  <2>2. job[h].inv \in Invoices
    BY <1>0, <1>3, Locals DEF Bank, RequestOK
  <2>3. \A y \in Txs : TxOK(y)'
    BY <1>0, <1>3, <2>2 DEF Bank, Grounded, TxOK, IInv, TypeOK
  <2>4. /\ Alone(h) /\ job'[h].at = "post receipt"
        /\ job'[h].inv = job[h].inv /\ job'[h].parts = job[h].parts
    BY <1>0, <1>3, GotoLocals DEF Bank
  <2>5. LocalsOK(h)'
    BY <1>0, <2>2, <2>4, PartsOK DEF LocalsOK, Grounded, Lasting
  <2> QED
    BY <1>0, <2>1, <2>3, <2>4, <2>5, GroundedIf
<1> QED
  BY <1>1, <1>2, <1>3 DEF Insert

LEMMA RaceNoted ==
    ASSUME NEW w \in Workers, NoteRace(w)
    PROVE  /\ raced \subseteq raced'
           /\ job[w].inv \notin raced' =>
                  /\ invoices[job[w].inv].stage = job[w].stage
                  /\ invoices[job[w].inv].paid = job[w].paid
BY DEF NoteRace, Stale

LEMMA SaveMoveGround ==
    ASSUME IInv, Grounded, NEW w \in Workers, SaveMove(w)
    PROVE  Grounded'
<1> DEFINE move == job[w].move
<1>1. /\ JobsOK /\ Lasting
      /\ move \in {"submit", "approve", "send"} /\ job[w].inv \in Invoices
      /\ job[w].at = "save" /\ job[w].stage = From[move]
  <2>1. JobsOK /\ job[w].at = "save" /\ Lasting
    BY SavesLast DEF IInv, SaveMove
  <2> QED
    BY <2>1, Locals, MovesOK DEF RequestOK, Grounded, LocalsOK
<1> PICK i \in Invoices : i = job[w].inv
  BY <1>1
<1>2. /\ To[move] \in Stage \ {"absent"} /\ To[move] # "Paid"
      /\ From[move] # To[move]
      /\ From[move] \in {"Draft", "In Review", "Approved"}
      /\ SaveStage(w, To[move])
  BY <1>1, FromOK, ToOK DEF SaveMove
<1>3. /\ \A j \in Invoices \ {i} : invoices'[j] = invoices[j]
      /\ invoices'[i].stage = To[move]
      /\ invoices'[i].paid = invoices[i].paid
  BY <1>1, <1>2, StageLasts
<1>4. InvoiceOK(i)'
  <2>1. Payable(i)' = Payable(i) /\ (~Fresh(i) => Payable(i) > 0) /\ ~Fresh(i)
    BY <1>1 DEF Lasting, Grounded, InvoiceOK, LocalsOK
  <2>2. i \notin raced' \union astray' =>
            /\ i \notin raced \union astray
            /\ invoices[i].stage = From[move]
    BY <1>1, RaceNoted DEF SaveMove
  <2>3. i \notin raced' \union astray' => invoices'[i].paid = 0
    BY <1>1, <1>2, <1>3, <2>2 DEF Grounded, InvoiceOK
  <2>4. i \notin raced' => invoices'[i].paid >= 0
    BY <1>1, <1>3 DEF Lasting, Grounded, InvoiceOK
  <2> QED
    BY <1>2, <1>3, <2>1, <2>3, <2>4 DEF InvoiceOK
<1>5. \A j \in Invoices : InvoiceOK(j)'
  BY <1>1, <1>3, <1>4, InvoicesStay
<1>6. \A x \in Txs : TxOK(x)'
  BY TxsStay DEF SaveMove
<1>7. LocalsOK(w)' /\ Alone(w)
  <2>1. CASE Done(w)
    BY <1>1, <2>1, DoneLocals, BlankedOK
  <2>2. ASSUME NEW at \in {"post sale", "find"}, Goto(w, at)
        PROVE  LocalsOK(w)' /\ Alone(w)
    <3>1. /\ Alone(w) /\ job'[w].at = at /\ job'[w].inv = i
          /\ job'[w].parts = job[w].parts
      BY <1>1, <2>2, GotoLocals
    <3> QED
      BY <1>1, <3>1, PartsOK DEF LocalsOK, Grounded, Lasting
  <2> QED
    BY <2>1, <2>2 DEF SaveMove
<1> QED
  BY <1>1, <1>5, <1>6, <1>7, GroundedIf

LEMMA SaveCancelGround ==
    ASSUME IInv, Grounded, NEW w \in Workers, SaveCancel(w)
    PROVE  Grounded'
<1>1. /\ JobsOK /\ Lasting /\ job[w].inv \in Invoices
      /\ job[w].at = "save cancel" /\ job[w].stage # "Cancelled"
  <2>1. JobsOK /\ job[w].at = "save cancel" /\ Lasting
    BY SavesLast DEF IInv, SaveCancel
  <2> QED
    BY <2>1, Locals DEF RequestOK, Grounded, LocalsOK
<1> PICK i \in Invoices : i = job[w].inv
  BY <1>1
<1>2. "Cancelled" \in Stage \ {"absent"} /\ SaveStage(w, "Cancelled")
  BY DEF Stage, SaveCancel
<1>3. /\ \A j \in Invoices \ {i} : invoices'[j] = invoices[j]
      /\ invoices'[i].stage = "Cancelled"
      /\ invoices'[i].paid = invoices[i].paid
  BY <1>1, <1>2, StageLasts
<1>4. InvoiceOK(i)'
  BY <1>1, <1>3 DEF Lasting, Grounded, InvoiceOK, LocalsOK
<1>5. \A j \in Invoices : InvoiceOK(j)'
  BY <1>1, <1>3, <1>4, InvoicesStay
<1>6. \A x \in Txs : TxOK(x)'
  BY TxsStay DEF SaveCancel
<1>7. LocalsOK(w)' /\ Alone(w)
  <2>1. CASE Done(w)
    BY <1>1, <2>1, DoneLocals, BlankedOK
  <2>2. CASE Goto(w, "split")
    <3>1. /\ Alone(w) /\ job'[w].at = "split" /\ job'[w].inv = i
          /\ job'[w].parts = job[w].parts
      BY <1>1, <2>2, GotoLocals
    <3> QED
      BY <1>1, <3>1, PartsOK DEF LocalsOK, Grounded, Lasting
  <2> QED
    BY <2>1, <2>2 DEF SaveCancel
<1> QED
  BY <1>1, <1>5, <1>6, <1>7, GroundedIf

LEMMA SaveWriteOffGround ==
    ASSUME IInv, Grounded, NEW w \in Workers, SaveWriteOff(w)
    PROVE  Grounded'
<1>1. /\ JobsOK /\ Lasting /\ job[w].inv \in Invoices
      /\ job[w].at = "save write-off"
  <2>1. JobsOK /\ job[w].at = "save write-off" /\ Lasting
    BY SavesLast DEF IInv, SaveWriteOff
  <2> QED
    BY <2>1, Locals DEF RequestOK
<1> PICK i \in Invoices : i = job[w].inv
  BY <1>1
<1>2. "Written Off" \in Stage \ {"absent"} /\ SaveStage(w, "Written Off")
  BY DEF Stage, SaveWriteOff
<1>3. /\ \A j \in Invoices \ {i} : invoices'[j] = invoices[j]
      /\ invoices'[i].stage \in {"Written Off", invoices[i].stage}
      /\ invoices'[i].paid = invoices[i].paid
  BY <1>1, <1>2, StageLasts
<1>4. InvoiceOK(i)'
  BY <1>1, <1>3 DEF Lasting, Grounded, InvoiceOK, LocalsOK
<1>5. \A j \in Invoices : InvoiceOK(j)'
  BY <1>1, <1>3, <1>4, InvoicesStay
<1>6. \A x \in Txs : TxOK(x)'
  BY TxsStay DEF SaveWriteOff
<1>7. LocalsOK(w)' /\ Alone(w)
  BY <1>1, DoneLocals, BlankedOK DEF SaveWriteOff
<1> QED
  BY <1>1, <1>5, <1>6, <1>7, GroundedIf

LEMMA SavePaymentGround ==
    ASSUME IInv, Grounded, NEW w \in Workers, SavePayment(w)
    PROVE  Grounded'
<1>1. /\ JobsOK /\ Lasting /\ job[w].inv \in Invoices
      /\ job[w].at = "save payment"
      /\ LocalsOK(w)
  BY SavesLast, PaymentLasts DEF IInv, SavePayment, Grounded
<1> PICK i \in Invoices : i = job[w].inv
  BY <1>1
<1>2. /\ \A j \in Invoices \ {i} : invoices'[j] = invoices[j]
      /\ invoices'[i].paid = job[w].paid + job[w].amount
      /\ i \notin raced' => invoices'[i].stage =
             IF job[w].paid + job[w].amount >= Payable(i)
             THEN "Paid" ELSE "Part Paid"
  <2>1. i \notin raced' => invoices[i].stage = job[w].stage
    BY RaceNoted DEF SavePayment
  <2> QED
    BY <2>1, PaymentLasts
<1>3. InvoiceOK(i)'
  <2>1. /\ ~Fresh(i) /\ ~Fresh(i)' /\ Payable(i)' = Payable(i)
        /\ Payable(i) > 0 /\ Payable(i) \in Int
    BY <1>1, TypedInvoice DEF Lasting, Grounded, InvoiceOK, LocalsOK, IInv
  <2>2. job[w].paid \in Int /\ job[w].amount \in Int
    BY <1>1, Locals
  <2>3. i \notin raced' =>
            /\ job[w].paid >= 0
            /\ job[w].amount >= 0 \/ job[w].paid + job[w].amount = Payable(i)
    <3>1. i \notin raced' => invoices[i].paid = job[w].paid /\ i \notin raced
      BY RaceNoted DEF SavePayment
    <3> QED
      BY <1>1, <3>1 DEF Grounded, InvoiceOK, LocalsOK
  <2>4. i \notin raced' => invoices'[i].paid >= 0
    <3>1. PICK paid \in Int, amount \in Int, payable \in Int :
              paid = job[w].paid /\ amount = job[w].amount
                  /\ payable = Payable(i)
      BY <2>1, <2>2
    <3>2. invoices'[i].paid = paid + amount /\ payable > 0
      BY <1>2, <2>1, <3>1
    <3>3. i \notin raced' =>
              paid >= 0 /\ (amount >= 0 \/ paid + amount = payable)
      BY <2>3, <3>1
    <3> QED
      BY <3>2, <3>3
  <2>5. i \notin raced' =>
            /\ invoices'[i].stage \in {"Paid", "Part Paid"}
            /\ invoices'[i].stage = "Paid" => invoices'[i].paid >= Payable(i)
    BY <1>2
  <2>6. i \notin raced' =>
            /\ invoices'[i].stage \notin {"Draft", "In Review", "Approved"}
            /\ invoices'[i].stage = "Paid" => invoices'[i].paid >= Payable(i)
    <3> SUFFICES ASSUME i \notin raced'
                 PROVE  /\ invoices'[i].stage
                               \notin {"Draft", "In Review", "Approved"}
                        /\ invoices'[i].stage = "Paid" =>
                               invoices'[i].paid >= Payable(i)
      OBVIOUS
    <3>1. invoices'[i].stage = "Paid" \/ invoices'[i].stage = "Part Paid"
      BY <2>5
    <3>2. invoices'[i].stage = "Paid" => invoices'[i].paid >= Payable(i)
      BY <2>5
    <3> QED
      BY <3>1, <3>2
  <2> QED
    BY <2>1, <2>4, <2>6 DEF InvoiceOK
<1>4. \A j \in Invoices : InvoiceOK(j)'
  BY <1>1, <1>2, <1>3, InvoicesStay
<1>5. \A x \in Txs : TxOK(x)'
  BY TxsStay DEF SavePayment
<1>6. PICK at \in {"bank", "reclassify"} :
          Goto(w, at) /\ (at = "reclassify" => job[w].tx # NoTx)
  BY DEF SavePayment
<1>7. LocalsOK(w)' /\ Alone(w)
  <2>1. /\ Alone(w) /\ job'[w].at = at /\ job'[w].inv = i
        /\ job'[w].tx = job[w].tx /\ job'[w].amount = job[w].amount
        /\ job'[w].parts = job[w].parts
    BY <1>1, <1>6, GotoLocals
  <2>2. job[w].tx # NoTx => job[w].tx \in Txs
    BY <1>1, Locals
  <2>3. txs' = txs /\ rematched \subseteq rematched' /\ ~Fresh(i)'
    BY <1>1 DEF SavePayment, Lasting, LocalsOK
  <2> QED
    BY <1>1, <1>6, <2>1, <2>2, <2>3 DEF LocalsOK
<1> QED
  BY <1>1, <1>4, <1>5, <1>7, GroundedIf

LEMMA SaveMatchGround ==
    ASSUME IInv, Grounded, NEW w \in Workers, SaveMatch(w)
    PROVE  Grounded'
<1>1. /\ JobsOK /\ Lasting /\ job[w].inv \in Invoices /\ job[w].tx \in Txs
      /\ job[w].at = "link" /\ LocalsOK(w) /\ invoices' = invoices
  <2>1. JobsOK /\ job[w].at = "link" /\ Advance(w)
    BY DEF IInv, SaveMatch, Advance
  <2> QED
    BY <2>1, AdvanceLasts, Locals DEF SaveMatch, RequestOK, Grounded
<1> NoInvoice \notin Invoices
  BY ReceivablesAssumption
<1> PICK i \in Invoices : i = job[w].inv
  BY <1>1
<1> PICK x \in Txs : x = job[w].tx
  BY <1>1
<1>2. /\ \A y \in Txs \ {x} : txs'[y] = txs[y]
      /\ txs'[x].link = i /\ txs'[x].origin = txs[x].origin
      /\ txs'[x].amount = txs[x].amount
  <2>1. txs' = [txs EXCEPT ![x].link = i]
    BY DEF SaveMatch
  <2>2. txs \in [Txs -> [amount : Int, link : Invoices \union {NoInvoice},
                        origin : {"absent", "unposted", "feed",
                                  "payment"}]]
    BY DEF IInv, TypeOK
  <2> QED
    BY <2>1, <2>2
<1>3. \A j \in Invoices : InvoiceOK(j)'
  BY <1>1, InvoicesStay
<1>4. \A y \in Txs : TxOK(y)'
  <2>1. i # NoInvoice /\ txs[x].origin # "absent"
    BY <1>1 DEF LocalsOK
  <2>2. \A y \in Txs \ {x} : TxOK(y)'
    BY <1>2 DEF TxOK, Grounded
  <2>3. TxOK(x)'
    BY <1>2, <2>1 DEF TxOK
  <2> QED
    BY <2>2, <2>3
<1>5. i \in rematched' \/ txs[x].origin \in {"unposted", "feed"}
  BY <1>1 DEF SaveMatch, Grounded, TxOK, LocalsOK, IInv, TypeOK
<1>6. LocalsOK(w)' /\ Alone(w)
  <2>1. /\ Alone(w) /\ job'[w].at = "find payment" /\ job'[w].inv = i
        /\ job'[w].tx = x /\ job'[w].amount = job[w].amount
        /\ job'[w].parts = job[w].parts
    BY <1>1, GotoLocals DEF SaveMatch
  <2> QED
    BY <1>1, <1>2, <1>5, <2>1 DEF LocalsOK, Lasting
<1> QED
  BY <1>1, <1>3, <1>4, <1>6, GroundedIf

LEMMA FindsGround ==
    ASSUME IInv, Grounded, NEW w \in Workers,
           FindPayment(w) \/ FindCancel(w) \/ FindSubmitted(w)
               \/ \E i \in Invoices : Pick(w, i)
    PROVE  Grounded'
<1>1. /\ JobsOK /\ Lasting /\ LocalsOK(w) /\ UNCHANGED <<invoices, txs>>
  <2>1. Advance(w) /\ UNCHANGED <<invoices, txs>>
    BY DEF Advance, FindPayment, FindCancel, FindSubmitted, Pick
  <2> QED
    BY <2>1, AdvanceLasts DEF IInv, Grounded
<1>2. CASE job' = [job EXCEPT ![w] = Idle]
  BY <1>1, <1>2, IdleLocals, EndsOK
<1>3. ASSUME NEW i \in Invoices, NEW move \in DOMAIN From, Moving(w, move, i)
      PROVE  Grounded'
  BY <1>1, <1>3, MovingGround, KnowledgeOK
<1>4. CASE FindPayment(w)
  <2>1. job[w].at = "find payment" /\ job[w].inv \in Invoices
    BY <1>1, <1>4, Locals DEF FindPayment, RequestOK
  <2> PICK i \in Invoices : i = job[w].inv
    BY <2>1
  <2>2. /\ Alone(w) /\ job'[w].at = "save payment" /\ job'[w].inv = i
        /\ job'[w].stage = invoices[i].stage
        /\ job'[w].paid = invoices[i].paid
        /\ job'[w].tx = job[w].tx /\ job'[w].amount = job[w].amount
        /\ job'[w].parts = job[w].parts
    BY <1>1, <1>4, Locals DEF FindPayment, Alone, JobsOK, Request
  <2>3. /\ i \in astray' \/ invoices[i].stage \in Posted \union {"Paid"}
        /\ i \in raced' \/ job[w].amount >= 0
               \/ invoices[i].paid + job[w].amount = Payable(i)
        /\ rematched' = rematched
    <3>1. /\ job[w].amount \in Int /\ Payable(i) \in Int
          /\ invoices[i].paid \in Int
      BY <1>1, Locals, TypedInvoice DEF IInv
    <3>2. job[w].amount < 0 /\ job[w].amount # Outstanding(i) => i \in raced'
      BY <1>4 DEF FindPayment
    <3>3. Outstanding(i) = Payable(i) - invoices[i].paid
      BY DEF Outstanding
    <3>4. /\ i \in astray' \/ invoices[i].stage \in Posted \union {"Paid"}
          /\ rematched' = rematched
      BY <1>4 DEF FindPayment
    <3> QED
      BY <3>1, <3>2, <3>3, <3>4
  <2>4. LocalsOK(w)'
    BY <1>1, <2>1, <2>2, <2>3 DEF LocalsOK, Fresh, Payable
  <2> QED
    BY <1>1, <2>2, <2>4, KnowledgeOK
<1>5. CASE FindCancel(w) /\ Cancellable(job[w].inv)
  <2>1. job[w].at = "find cancel" /\ job[w].inv \in Invoices
    BY <1>1, <1>5, Locals DEF FindCancel, RequestOK
  <2> PICK i \in Invoices : i = job[w].inv
    BY <2>1
  <2>2. /\ Alone(w) /\ job'[w].inv = i
        /\ job'[w].at = IF invoices[i].stage \in Posted
                        THEN "reverse" ELSE "save cancel"
        /\ job'[w].stage = invoices[i].stage /\ job'[w].paid = invoices[i].paid
        /\ job'[w].parts = job[w].parts
    <3> DEFINE r == [job[w] EXCEPT
                        !.at = IF invoices[i].stage \in Posted
                               THEN "reverse" ELSE "save cancel",
                        !.stage = invoices[i].stage,
                        !.paid = invoices[i].paid]
    <3>1. job' = [job EXCEPT ![w] = r]
      BY <1>1, <1>5 DEF FindCancel, JobsOK
    <3>2. /\ r.inv = i /\ r.parts = job[w].parts
          /\ r.stage = invoices[i].stage /\ r.paid = invoices[i].paid
          /\ r.at = IF invoices[i].stage \in Posted
                    THEN "reverse" ELSE "save cancel"
      BY <1>1, Locals DEF Request
    <3> HIDE DEF r
    <3> QED
      BY <1>1, <3>1, <3>2 DEF Alone, JobsOK
  <2>3. i \in raced' \/ invoices[i].paid = 0
    <3>1. invoices[i].paid \in Int /\ invoices[i].paid <= 0
      BY <1>5, TypedInvoice DEF Cancellable, IInv
    <3>2. i \notin raced => invoices[i].paid >= 0
      BY DEF Grounded, InvoiceOK
    <3>3. raced \subseteq raced'
      BY <1>1 DEF Lasting
    <3> QED
      BY <3>1, <3>2, <3>3
  <2>4. LocalsOK(w)'
    BY <1>1, <1>5, <2>1, <2>2, <2>3 DEF LocalsOK, Fresh, Cancellable
  <2> QED
    BY <1>1, <2>2, <2>4, KnowledgeOK
<1>6. ASSUME FindSubmitted(w), job' # [job EXCEPT ![w] = Idle]
      PROVE  Grounded'
  <2>1. job[w].inv \in Invoices /\ "approve" \in DOMAIN From
    BY <1>1, <1>6, Locals, MovesOK DEF FindSubmitted, RequestOK
  <2> QED
    BY <1>3, <1>6, <2>1 DEF FindSubmitted
<1>7. ASSUME NEW i \in Invoices, Pick(w, i)
      PROVE  Grounded'
  <2>1. job[w].batch \in DOMAIN From
    BY <1>1, <1>7, Locals, MovesOK DEF Pick, RequestOK
  <2>2. CASE job' = [job EXCEPT ![w] = [job[w] EXCEPT !.todo = @ \ {i}]]
    <3>1. /\ Alone(w) /\ job'[w].at = "pick" /\ job'[w].inv = job[w].inv
          /\ job'[w].parts = job[w].parts
      BY <1>1, <1>7, <2>2, Locals DEF Pick, Alone, JobsOK, Request
    <3>2. LocalsOK(w)'
      BY <1>1, <3>1 DEF LocalsOK, Fresh
    <3> QED
      BY <1>1, <3>1, <3>2, KnowledgeOK
  <2> QED
    BY <1>2, <1>3, <1>7, <2>1, <2>2 DEF Pick
<1> QED
  BY <1>2, <1>4, <1>5, <1>6, <1>7 DEF FindCancel

LEMMA AdvanceGround ==
    ASSUME IInv, Grounded, NEW w \in Workers, Advance(w)
    PROVE  Grounded'
<1>1. JobsOK /\ Lasting /\ LocalsOK(w)
  BY AdvanceLasts DEF IInv, Grounded
<1>2. CASE /\ UNCHANGED <<invoices, txs>>
           /\ Done(w)
  BY <1>1, <1>2, DoneLocals, EndsOK
<1>3. CASE MarkInvoiced(w) \/ Certify(w) \/ NoAccount(w) \/ PostReceipt(w)
               \/ Reclassify(w) \/ PostCredit(w) \/ SavePlan(w)
  BY <1>2, <1>3 DEF MarkInvoiced, Certify, NoAccount, PostReceipt,
     Reclassify, PostCredit, SavePlan
<1>5. CASE PostFeed(w)
  <2>1. Alone(w) /\ Blanked(w) /\ job[w].tx \in Txs
    BY <1>1, <1>5, DoneLocals, Locals DEF PostFeed, RequestOK
  <2>2. \A i \in Invoices : InvoiceOK(i)'
    BY <1>1, <1>5, InvoicesStay DEF PostFeed
  <2>3. \A x \in Txs : TxOK(x)'
    BY <1>5, <2>1 DEF PostFeed, Grounded, TxOK, IInv, TypeOK
  <2> QED
    BY <1>1, <2>1, <2>2, <2>3, BlankedOK, GroundedIf
<1>4. CASE PostSale(w) \/ Reverse(w) \/ Expense(w)
  <2>1. UNCHANGED <<invoices, txs, astray, raced>> /\ job[w].inv \in Invoices
    BY <1>1, <1>4, Locals
       DEF PostSale, Reverse, Expense, provisos, RequestOK
  <2>2. ASSUME NEW at \in {"certify", "save cancel", "save write-off"},
               Goto(w, at),
               at = "save cancel" => job[w].at = "reverse",
               at = "save write-off" => job[w].at = "expense"
        PROVE  Grounded'
    <3>1. /\ Alone(w) /\ job'[w].at = at /\ job'[w].inv = job[w].inv
          /\ job'[w].stage = job[w].stage /\ job'[w].paid = job[w].paid
          /\ job'[w].parts = job[w].parts
      BY <1>1, <2>2, GotoLocals
    <3>2. LocalsOK(w)'
      BY <1>1, <2>1, <2>2, <3>1 DEF LocalsOK, Fresh, Posted
    <3> QED
      BY <1>1, <2>1, <3>1, <3>2, KnowledgeOK
  <2> QED
    BY <1>2, <1>4, <2>1, <2>2 DEF PostSale, Reverse, Expense
<1> QED
  BY <1>3, <1>4, <1>5, SaveMoveGround, SaveCancelGround, SaveWriteOffGround,
     SavePaymentGround, SaveMatchGround, FindsGround DEF Advance

LEMMA GroundOK ==
    ASSUME IInv, IInv', Grounded, [Next]_vars
    PROVE  Grounded'
<1>1. Lasting /\ JobsOK
  BY StepLasts DEF IInv
<1>2. ASSUME NEW w \in Workers, Abort(w)
      PROVE  Grounded'
  <2> DEFINE r == IF w = Job /\ job[w].todo # {}
                  THEN [Idle EXCEPT !.at = "pick", !.batch = "send",
                                    !.todo = job[w].todo]
                  ELSE Idle
  <2>1. job' = [job EXCEPT ![w] = r] /\ UNCHANGED <<invoices, txs>>
    BY <1>2 DEF Abort
  <2>2. /\ r.at \in {"idle", "pick"} /\ r.inv = NoInvoice /\ r.tx = NoTx
        /\ r.parts = <<>> /\ r.made = {}
    BY DEF Idle
  <2> HIDE DEF r
  <2>3. Alone(w) /\ Blanked(w)
    BY <1>1, <2>1, <2>2 DEF Alone, Blanked, JobsOK
  <2> QED
    BY <1>1, <2>1, <2>3, EndsOK
<1>3. CASE AutoSend
  <2> DEFINE r == [Idle EXCEPT !.at = "pick", !.batch = "send",
                              !.todo = DueInstalments]
  <2>1. Accept(Job, r) /\ UNCHANGED <<invoices, txs>> /\ Job \in Workers
    BY <1>3 DEF AutoSend, Workers
  <2>2. /\ r.at \in {"idle", "pick"} /\ r.inv = NoInvoice /\ r.tx = NoTx
        /\ r.parts = <<>> /\ r.made = {}
    BY DEF Idle
  <2> HIDE DEF r
  <2>3. Alone(Job) /\ Blanked(Job)
    BY <1>1, <2>1, <2>2, AcceptLocals DEF Blanked
  <2> QED
    BY <1>1, <2>1, <2>3, EndsOK
<1>4. CASE Restart
  <2>1. UNCHANGED <<invoices, txs>> /\ \A w \in Workers : Blanked(w)
    BY <1>4 DEF Restart, Blanked, Idle
  <2> QED
    BY <1>1, <2>1, BlankedOK, InvoicesStay, TxsStay DEF Grounded
<1>5. CASE UNCHANGED vars
  <2>1. UNCHANGED <<invoices, txs, job>>
    BY <1>5 DEF vars
  <2> QED
    BY <1>1, <2>1, OthersOK, InvoicesStay, TxsStay DEF Grounded
<1> QED
  BY <1>2, <1>3, <1>4, <1>5, OfficeGround, RequestedGround, InsertGround,
     AdvanceGround DEF Next, Workers

LEMMA InitGround == Init => Grounded
<1> SUFFICES ASSUME Init PROVE Grounded
  OBVIOUS
<1>1. \A w \in Workers : LocalsOK(w)
  BY ReceivablesAssumption, EmptySeq DEF Init, LocalsOK, Idle
<1>2. \A i \in Invoices : InvoiceOK(i)
  <2> SUFFICES ASSUME NEW i \in Invoices PROVE InvoiceOK(i)
    OBVIOUS
  <2>1. invoices[i].stage = "absent" /\ invoices[i].paid = 0
    BY DEF Init, Blank
  <2>2. invoices[i].paid >= 0
    BY <2>1
  <2> QED
    BY <2>1, <2>2 DEF InvoiceOK, Fresh
<1>3. \A x \in Txs : TxOK(x)
  BY DEF Init, TxOK
<1> QED
  BY <1>1, <1>2, <1>3 DEF Grounded

(***************************************************************************)
(* The receivable and the claim: a request on its way has moved one of     *)
(* them ahead of the other, and what all requests are ahead accounts for   *)
(* the whole difference.                                                   *)
(***************************************************************************)
Ahead(r, i) ==
    IF r.inv # i THEN 0
    ELSE CASE r.at = "post sale" -> -Payable(i)
           [] r.at \in {"bank", "post receipt", "reclassify"} -> r.amount
           [] r.at = "save cancel" /\ r.stage \in Posted -> -Payable(i)
           [] r.at = "save write-off" /\ r.stage \in Posted
                  /\ Payable(i) > r.paid -> r.paid - Payable(i)
           [] OTHER -> 0

Clean(i) ==
    /\ i \notin raced \union lost \union astray \union rematched \union unmoved
    /\ MoneyIn(i)
Debt(i) == receivable[i] + credited[i] - Claim(i)
Balanced(i) == Clean(i) =>
    Debt(i) = SumFunctionOnSet([w \in Workers |-> Ahead(job[w], i)], Workers)

\* Only a match gives an invoice a transaction that it can be unclean by.
LEMMA MoneyLasts ==
    ASSUME IInv, Grounded, Lasting, NEW i \in Invoices, i \notin rematched',
           MoneyIn(i)'
    PROVE  MoneyIn(i)
<1> SUFFICES ASSUME NEW x \in Txs, txs[x].link = i, txs[x].origin # "payment"
             PROVE  txs[x].amount >= 0
  BY DEF MoneyIn
<1>1. txs[x].origin # "absent"
  BY ReceivablesAssumption DEF Grounded, TxOK
<1>2. txs'[x].link = i /\ txs'[x].origin # "payment"
          /\ txs'[x].amount = txs[x].amount
  BY <1>1, ReceivablesAssumption DEF Lasting
<1> QED
  BY <1>2 DEF MoneyIn

LEMMA CleanLasts ==
    ASSUME IInv, Grounded, Lasting, NEW i \in Invoices, Clean(i)'
    PROVE  Clean(i)
BY MoneyLasts DEF Clean, Lasting

LEMMA WorkersFinite == IsFiniteSet(Workers)
BY ReceivablesAssumption, FS_AddElement DEF Workers

LEMMA ClaimInt ==
    ASSUME IInv, NEW i \in Invoices
    PROVE  Claim(i) \in Int /\ Debt(i) \in Int
<1>1. TypeOK
  BY DEF IInv
<1>2. Claim(i) \in Int
  <2>1. Outstanding(i) \in Int
    BY <1>1, TypedInvoice
  <2>2. Claim(i) \in {0, Outstanding(i)}
    BY DEF Claim
  <2> QED
    BY <2>1, <2>2
<1>3. receivable[i] \in Int /\ credited[i] \in Int
  BY <1>1 DEF TypeOK
<1> QED
  BY <1>2, <1>3 DEF Debt

LEMMA ClaimIntNext ==
    ASSUME NEW i \in Invoices
    PROVE  (IInv => Claim(i) \in Int /\ Debt(i) \in Int)'
<1>1. IInv => Claim(i) \in Int /\ Debt(i) \in Int
  BY ClaimInt
<1> QED
  BY <1>1, PTL

LEMMA AheadInt ==
    ASSUME IInv, NEW w \in Workers, NEW i \in Invoices
    PROVE  Ahead(job[w], i) \in Int
<1>1. Payable(i) \in Int /\ job[w].amount \in Int /\ job[w].paid \in Int
  BY TypedInvoice, Locals DEF IInv
<1>2. /\ -Payable(i) \in Int /\ job[w].amount \in Int
      /\ job[w].paid - Payable(i) \in Int
  BY <1>1
<1>3. Ahead(job[w], i) \in {0, -Payable(i), job[w].amount,
                            job[w].paid - Payable(i)}
  BY DEF Ahead
<1> QED
  BY <1>2, <1>3

LEMMA AheadIntNext ==
    ASSUME NEW w \in Workers, NEW i \in Invoices
    PROVE  (IInv => Ahead(job[w], i) \in Int)'
<1>1. IInv => Ahead(job[w], i) \in Int
  BY AheadInt
<1> QED
  BY <1>1, PTL

AheadAt == {"post sale", "bank", "post receipt", "reclassify",
            "save cancel", "save write-off"}

LEMMA NotAhead ==
    ASSUME NEW r, NEW i, r.inv # i \/ r.at \notin AheadAt
    PROVE  Ahead(r, i) = 0
BY DEF Ahead, AheadAt

\* A request that does not change stays as far ahead.
LEMMA AheadStays ==
    ASSUME IInv, Grounded, Lasting, NEW w \in Workers, NEW i \in Invoices,
           job'[w] = job[w]
    PROVE  Ahead(job[w], i)' = Ahead(job[w], i)
<1>1. CASE job[w].inv # i
  BY <1>1 DEF Ahead
<1>2. CASE job[w].inv = i
  <2>1. Payable(i)' = Payable(i)
    BY <1>2 DEF Grounded, LocalsOK, Lasting
  <2> QED
    BY <2>1 DEF Ahead
<1> QED
  BY <1>1, <1>2

\* A step of w moves both sides of an invoice's balance by as much.
Settles(w, i) ==
    Debt(i)' - Ahead(job[w], i)' = Debt(i) - Ahead(job[w], i)

LEMMA SettlesBalance ==
    ASSUME IInv, IInv', Grounded, Lasting, NEW w \in Workers, Alone(w),
           NEW i \in Invoices, Clean(i)' => Settles(w, i), Balanced(i)
    PROVE  Balanced(i)'
<1> SUFFICES ASSUME Clean(i)'
             PROVE  Debt(i)' = SumFunctionOnSet(
                                   [v \in Workers |-> Ahead(job[v], i)'],
                                   Workers)
  BY DEF Balanced
<1> DEFINE f == [v \in Workers |-> Ahead(job[v], i)]
           g == [v \in Workers |-> Ahead(job[v], i)']
<1>1. Debt(i) = SumFunctionOnSet(f, Workers)
  BY CleanLasts DEF Balanced
<1>2. \A v \in Workers : f[v] \in Int /\ g[v] \in Int
  BY AheadInt, AheadIntNext
<1>3. \A v \in Workers \ {w} : g[v] = f[v]
  BY AheadStays DEF Alone
<1>4. SumFunctionOnSet(g, Workers)
          = SumFunctionOnSet(f, Workers) + g[w] - f[w]
  <2> HIDE DEF f, g
  <2> QED
    BY <1>2, <1>3, WorkersFinite, SumChange
<1>5. Debt(i) \in Int /\ Debt(i)' \in Int
  BY ClaimInt, ClaimIntNext
<1>6. SumFunctionOnSet(g, Workers) = Debt(i)'
  BY <1>1, <1>2, <1>4, <1>5 DEF Settles
<1> QED
  BY <1>6

Untouched(i) ==
    /\ invoices'[i] = invoices[i] /\ receivable'[i] = receivable[i]
    /\ credited'[i] = credited[i]

LEMMA UntouchedDebt ==
    ASSUME NEW i \in Invoices, Untouched(i)
    PROVE  Debt(i)' = Debt(i)
BY DEF Untouched, Debt, Claim, Outstanding, Payable

LEMMA UntouchedSettles ==
    ASSUME IInv, Grounded, Lasting, NEW i \in Invoices, Untouched(i),
           NEW w \in Workers, Ahead(job[w], i)' = Ahead(job[w], i)
    PROVE  Settles(w, i)
BY UntouchedDebt DEF Settles

\* A new invoice is claimed by nobody yet.
LEMMA CreatedDebt ==
    ASSUME IInv, NEW i \in Invoices, NEW terms, NEW lines, NEW original,
           Fresh(i), invoices' = Created(i, terms, lines, original),
           receivable' = receivable, credited' = credited, NEW j \in Invoices
    PROVE  Debt(j)' = Debt(j)
<1>1. CASE j # i
  <2>1. invoices'[j] = invoices[j]
    BY <1>1 DEF IInv, TypeOK, Created
  <2> QED
    BY <2>1, UntouchedDebt DEF Untouched
<1>2. CASE j = i
  <2>1. invoices'[i].stage = "Draft" /\ invoices[i].stage = "absent"
    BY DEF IInv, TypeOK, Created, Fresh
  <2>2. Claim(i) = 0 /\ Claim(i)' = 0
    BY <2>1 DEF Claim, Posted
  <2> QED
    BY <1>2, <2>2 DEF Debt
<1> QED
  BY <1>1, <1>2

\* What a step does to an invoice that w is not at.
LEMMA ElsewhereSettles ==
    ASSUME IInv, Grounded, Lasting, NEW w \in Workers, NEW i \in Invoices,
           Untouched(i), job[w].inv # i \/ job[w].at \notin AheadAt,
           job'[w].inv # i \/ job'[w].at \notin AheadAt
    PROVE  Settles(w, i)
<1>1. Ahead(job[w], i) = 0 /\ Ahead(job[w], i)' = 0
  BY DEF Ahead, AheadAt
<1> QED
  BY <1>1, UntouchedSettles

LEMMA OfficeBalance ==
    ASSUME IInv, IInv', Grounded, Office, NEW j \in Invoices, Balanced(j)
    PROVE  Balanced(j)'
<1>1. job' = job /\ Lasting /\ Job \in Workers /\ Alone(Job)
  BY OfficeLasts
     DEF Office, CreateInvoice, ReviewEntry, ComesDue, Workers, Alone
<1>2. Debt(j)' = Debt(j)
  <2>1. ASSUME NEW i \in Invoices, NEW terms \in Terms,
               CreateInvoice(i, terms)
        PROVE  Debt(j)' = Debt(j)
    BY <2>1, CreatedDebt DEF CreateInvoice, books
  <2>2. CASE UNCHANGED <<invoices, receivable, credited>>
    BY <2>2, UntouchedDebt DEF Untouched
  <2>3. CASE \/ \E e \in Entries, review \in {"Unbilled", "Held"} :
                    ReviewEntry(e, review)
             \/ \E i \in Invoices : ComesDue(i)
    BY <2>2, <2>3 DEF ReviewEntry, ComesDue, books
  <2> QED
    BY <2>1, <2>3 DEF Office
<1>3. Settles(Job, j)
  BY <1>1, <1>2, AheadStays DEF Settles
<1> QED
  BY <1>1, <1>3, SettlesBalance

LEMMA RequestedBalance ==
    ASSUME IInv, IInv', Grounded, NEW h \in Handlers, Requested(h),
           NEW j \in Invoices, Balanced(j)
    PROVE  Balanced(j)'
<1>1. /\ h \in Workers /\ JobsOK /\ Lasting
      /\ Untouched(j)
  <2>1. UNCHANGED <<invoices, receivable, credited>>
    BY DEF Requested, BillEntries, ImportTx, Move, RecordPayment, MatchTx,
           Cancel, WriteOff, CreditNote, CreatePlan, ApproveAll, books
  <2> QED
    BY <2>1, RequestedLasts DEF Workers, IInv, Untouched
<1>2. SUFFICES Settles(h, j) /\ Alone(h)
  BY <1>1, SettlesBalance
<1>3. ASSUME NEW r, Accept(h, r), r.at \notin AheadAt
      PROVE  Settles(h, j) /\ Alone(h)
  <2>1. Alone(h) /\ job'[h] = r /\ job[h].at = "idle"
    BY <1>1, <1>3, AcceptLocals
  <2> QED
    BY <1>1, <1>3, <2>1, ElsewhereSettles DEF AheadAt
<1>4. CASE \/ \E ids \in Selections : BillEntries(h, ids)
           \/ \E x \in Txs, amount \in FeedAmounts : ImportTx(h, x, amount)
           \/ \E i \in Invoices :
                  \/ \E amount \in Amounts \union {Outstanding(i)} :
                         RecordPayment(h, i, amount)
                  \/ \E x \in Txs : MatchTx(h, x, i)
                  \/ Cancel(h, i)
                  \/ \E amount \in Amounts : CreditNote(h, i, amount)
                  \/ \E parts \in Instalments : CreatePlan(h, i, parts)
                  \/ ApproveAll(h, i)
  BY <1>3, <1>4 DEF BillEntries, ImportTx, RecordPayment, MatchTx, Cancel,
     CreditNote, CreatePlan, ApproveAll, Idle, AheadAt
<1>5. ASSUME NEW i \in Invoices, WriteOff(h, i)
      PROVE  Settles(h, j) /\ Alone(h)
  <2> DEFINE r == [Idle EXCEPT
           !.at = IF invoices[i].stage \in Posted /\ Outstanding(i) > 0
                  THEN "expense" ELSE "save write-off",
           !.inv = i, !.stage = invoices[i].stage,
           !.paid = invoices[i].paid]
  <2>1. Accept(h, r)
    BY <1>5 DEF WriteOff
  <2>2. /\ r.inv = i /\ r.stage = invoices[i].stage
        /\ r.paid = invoices[i].paid
        /\ r.at = IF invoices[i].stage \in Posted /\ Outstanding(i) > 0
                  THEN "expense" ELSE "save write-off"
    BY DEF Idle
  <2> HIDE DEF r
  <2>3. Alone(h) /\ job'[h] = r /\ job[h].at = "idle"
    BY <1>1, <2>1, AcceptLocals
  <2>4. Ahead(job[h], j) = 0
    BY <2>3, NotAhead DEF AheadAt
  <2>5. Payable(j)' = Payable(j)
    BY <1>1 DEF Untouched, Payable
  <2>6. Payable(i) \in Int /\ invoices[i].paid \in Int
    BY TypedInvoice DEF IInv
  <2>7. Ahead(job[h], j)' = 0
    <3>1. /\ job'[h].inv = i /\ job'[h].stage = invoices[i].stage
          /\ job'[h].paid = invoices[i].paid
          /\ job'[h].at \in {"expense", "save write-off"}
          /\ job'[h].at = "save write-off" =>
                 ~(invoices[i].stage \in Posted
                       /\ Payable(i) > invoices[i].paid)
      <4>1. Outstanding(i) > 0 <=> Payable(i) > invoices[i].paid
        BY <2>6 DEF Outstanding
      <4> QED
        BY <2>2, <2>3, <4>1
    <3> QED
      BY <2>5, <3>1 DEF Ahead
  <2> QED
    BY <1>1, <2>3, <2>4, <2>7, UntouchedSettles
<1>6. ASSUME NEW i \in Invoices, NEW move \in DOMAIN From, Move(h, move, i)
      PROVE  Settles(h, j) /\ Alone(h)
  <2>1. Moving(h, move, i) /\ job[h].at = "idle"
    BY <1>6 DEF Move, Idle
  <2>2. Alone(h) /\ job'[h].at = "save"
    BY <1>1, <2>1, MovingLocals
  <2> QED
    BY <1>1, <2>1, <2>2, ElsewhereSettles DEF AheadAt
<1> QED
  BY <1>4, <1>5, <1>6 DEF Requested

LEMMA InsertBalance ==
    ASSUME IInv, IInv', Grounded, NEW h \in Handlers, Insert(h),
           NEW j \in Invoices, Balanced(j)
    PROVE  Balanced(j)'
<1>1. h \in Workers /\ JobsOK /\ Lasting
  BY InsertLasts DEF Workers, IInv
<1>2. SUFFICES Settles(h, j) /\ Alone(h)
  BY <1>1, SettlesBalance
<1>3. ASSUME Debt(j)' = Debt(j), job[h].at \notin AheadAt,
             job'[h].at \notin AheadAt
      PROVE  Settles(h, j)
  <2>1. Ahead(job[h], j) = 0 /\ Ahead(job[h], j)' = 0
    BY <1>3 DEF Ahead, AheadAt
  <2> QED
    BY <1>3, <2>1 DEF Settles
<1>4. ASSUME NEW i \in Invoices, NEW terms \in Terms,
             CreateFromWip(h, i, terms)
      PROVE  Settles(h, j) /\ Alone(h)
  <2>1. Debt(j)' = Debt(j)
    BY <1>4, CreatedDebt DEF CreateFromWip, books
  <2>2. Alone(h) /\ job'[h].at = "mark" /\ job[h].at = "create"
    BY <1>1, <1>4, Locals DEF CreateFromWip, Alone, JobsOK, Request
  <2> QED
    BY <1>3, <2>1, <2>2 DEF AheadAt
<1>5. ASSUME NEW i \in Invoices, DraftInstalment(h, i)
      PROVE  Settles(h, j) /\ Alone(h)
  <2>1. Debt(j)' = Debt(j)
    BY <1>5, CreatedDebt DEF DraftInstalment, books
  <2>2. /\ Alone(h) /\ job'[h].at \in {"split", "save plan"}
        /\ job[h].at = "split"
    BY <1>1, <1>5, Locals DEF DraftInstalment, Alone, JobsOK, Request
  <2> QED
    BY <1>3, <2>1, <2>2 DEF AheadAt
<1>6. ASSUME NEW x \in Txs, Bank(h, x)
      PROVE  Settles(h, j) /\ Alone(h)
  <2>1. Untouched(j)
    BY <1>6 DEF Bank, Untouched, books
  <2>2. /\ Alone(h) /\ job[h].at = "bank" /\ job'[h].at = "post receipt"
        /\ job'[h].inv = job[h].inv /\ job'[h].amount = job[h].amount
    BY <1>1, <1>6, GotoLocals DEF Bank
  <2>3. Ahead(job[h], j)' = Ahead(job[h], j)
    BY <2>2 DEF Ahead
  <2> QED
    BY <1>1, <2>1, <2>2, <2>3, UntouchedSettles
<1> QED
  BY <1>4, <1>5, <1>6 DEF Insert

LEMMA AccountsTyped ==
    ASSUME IInv, NEW i \in Invoices
    PROVE  /\ receivable[i] \in Int /\ credited[i] \in Int
           /\ Payable(i) \in Int /\ Outstanding(i) \in Int
           /\ invoices[i].paid \in Int
           /\ Outstanding(i) = Payable(i) - invoices[i].paid
BY TypedInvoice DEF IInv, TypeOK, Outstanding

LEMMA SaveMoveSettles ==
    ASSUME IInv, Grounded, NEW w \in Workers, SaveMove(w),
           NEW j \in Invoices, Clean(j)'
    PROVE  Settles(w, j) /\ Alone(w)
<1> DEFINE move == job[w].move
<1>1. /\ JobsOK /\ Lasting
      /\ move \in {"submit", "approve", "send"} /\ job[w].inv \in Invoices
      /\ job[w].at = "save" /\ job[w].stage = From[move]
  <2>1. JobsOK /\ job[w].at = "save" /\ Lasting
    BY SavesLast DEF IInv, SaveMove
  <2> QED
    BY <2>1, Locals, MovesOK DEF RequestOK, Grounded, LocalsOK
<1> PICK i \in Invoices : i = job[w].inv
  BY <1>1
<1>2. /\ To[move] \in Stage \ {"absent"} /\ From[move] # To[move]
      /\ SaveStage(w, To[move])
  BY <1>1, FromOK, ToOK DEF SaveMove
<1>3. /\ \A k \in Invoices \ {i} : invoices'[k] = invoices[k]
      /\ invoices'[i].stage = To[move]
      /\ invoices'[i].paid = invoices[i].paid
      /\ receivable' = receivable /\ credited' = credited
  BY <1>1, <1>2, StageLasts DEF SaveMove, books
<1>4. /\ Alone(w)
      /\ move # "send" => job'[w].at \notin AheadAt
      /\ move = "send" => job'[w].at = "post sale" /\ job'[w].inv = i
  <2>1. CASE move = "send"
    BY <1>1, <2>1, GotoLocals DEF SaveMove
  <2>2. CASE move # "send"
    <3>1. Goto(w, "find") \/ Done(w)
      BY <2>2 DEF SaveMove
    <3>2. CASE Done(w)
      BY <1>1, <2>2, <3>2, DoneLocals DEF Blanked, AheadAt
    <3>3. CASE Goto(w, "find")
      <4>1. Alone(w) /\ job'[w].at = "find"
        BY <1>1, <3>3, GotoLocals
      <4> QED
        BY <2>2, <4>1 DEF AheadAt
    <3> QED
      BY <3>1, <3>2, <3>3
  <2> QED
    BY <2>1, <2>2
<1>5. CASE j # i
  <2>1. Untouched(j)
    BY <1>3, <1>5 DEF Untouched
  <2> QED
    BY <1>1, <1>4, <1>5, <2>1, ElsewhereSettles DEF AheadAt
<1>6. CASE j = i
  <2>1. invoices[i].stage = From[move]
    BY <1>1, <1>6, RaceNoted DEF SaveMove, Clean
  <2>2. invoices[i].paid = 0 /\ Payable(i)' = Payable(i) /\ Claim(i) = 0
    <3>1. From[move] \in {"Draft", "In Review", "Approved"}
      BY <1>1, FromOK
    <3>2. Clean(i)
      BY <1>1, <1>6, CleanLasts
    <3>3. invoices[i].paid = 0 /\ Payable(i)' = Payable(i)
      BY <1>1, <2>1, <3>1, <3>2
         DEF Grounded, InvoiceOK, Lasting, LocalsOK, Clean
    <3> QED
      BY <2>1, <3>1, <3>3 DEF Claim, Posted
  <2>3. Ahead(job[w], i) = 0
    BY <1>1 DEF Ahead
  <2>4. CASE move = "send"
    <3>1. Claim(i)' = Payable(i)
      <4>1. invoices'[i].stage = "Sent"
        BY <1>1, <1>3, <2>4, FromOK
      <4>2. Outstanding(i)' = Payable(i) - 0
        BY <1>3, <2>2 DEF Outstanding
      <4> QED
        BY <4>1, <4>2, AccountsTyped DEF Claim, Posted
    <3>2. Ahead(job[w], i)' = -Payable(i)
      BY <1>4, <2>2, <2>4 DEF Ahead
    <3>3. Settles(w, i)
      BY <1>3, <2>2, <2>3, <3>1, <3>2, AccountsTyped DEF Settles, Debt
    <3> QED
      BY <1>4, <1>6, <3>3
  <2>5. CASE move # "send"
    <3>1. Claim(i)' = 0
      <4>1. invoices'[i].stage \in {"In Review", "Approved"}
        BY <1>1, <1>3, <2>5, FromOK
      <4> QED
        BY <4>1 DEF Claim, Posted
    <3>2. Ahead(job[w], i)' = 0
      BY <1>4, <2>5 DEF Ahead, AheadAt
    <3> QED
      BY <1>3, <1>4, <1>6, <2>2, <2>3, <3>1, <3>2 DEF Settles, Debt
  <2> QED
    BY <2>4, <2>5
<1> QED
  BY <1>5, <1>6

LEMMA SavePaymentSettles ==
    ASSUME IInv, Grounded, NEW w \in Workers, SavePayment(w),
           NEW j \in Invoices, Clean(j)'
    PROVE  Settles(w, j) /\ Alone(w)
<1>1. /\ JobsOK /\ Lasting /\ job[w].inv \in Invoices
      /\ job[w].at = "save payment" /\ LocalsOK(w)
  BY SavesLast, PaymentLasts DEF IInv, SavePayment, Grounded
<1> PICK i \in Invoices : i = job[w].inv
  BY <1>1
<1>2. /\ \A k \in Invoices \ {i} : invoices'[k] = invoices[k]
      /\ receivable' = receivable /\ credited' = credited
  BY PaymentLasts DEF SavePayment, books
<1>3. /\ Alone(w) /\ job'[w].at \in {"bank", "reclassify"}
      /\ job'[w].inv = i /\ job'[w].amount = job[w].amount
  <2>1. PICK at \in {"bank", "reclassify"} : Goto(w, at)
    BY DEF SavePayment
  <2> QED
    BY <1>1, <2>1, GotoLocals
<1>4. CASE j # i
  <2>1. Untouched(j)
    BY <1>2, <1>4 DEF Untouched
  <2> QED
    BY <1>1, <1>3, <1>4, <2>1, ElsewhereSettles
<1>5. CASE j = i
  <2>1. /\ invoices[i].stage = job[w].stage
        /\ invoices[i].paid = job[w].paid
    BY <1>1, <1>5, RaceNoted DEF SavePayment, Clean
  <2>2. job[w].stage \in Posted \union {"Paid"}
    BY <1>1, <1>5 DEF LocalsOK, Lasting, Clean
  <2>3. /\ Payable(i)' = Payable(i)
        /\ invoices'[i].paid = job[w].paid + job[w].amount
        /\ invoices'[i].stage \in {"Paid", "Part Paid"}
    BY <1>1, <2>1, PaymentLasts DEF Lasting, LocalsOK
  <2>4. Claim(i) = Outstanding(i) /\ Claim(i)' = Outstanding(i)'
    BY <2>1, <2>2, <2>3 DEF Claim, Posted
  <2>5. Ahead(job[w], i) = 0 /\ Ahead(job[w], i)' = job[w].amount
    BY <1>1, <1>3 DEF Ahead
  <2>6. Outstanding(i)' = Payable(i) - (job[w].paid + job[w].amount)
    BY <2>3 DEF Outstanding
  <2>7. job[w].paid \in Int /\ job[w].amount \in Int
    BY <1>1, Locals
  <2> QED
    BY <1>2, <1>3, <1>5, <2>1, <2>4, <2>5, <2>6, <2>7, AccountsTyped
       DEF Settles, Debt
<1> QED
  BY <1>4, <1>5

LEMMA SaveCancelSettles ==
    ASSUME IInv, Grounded, NEW w \in Workers, SaveCancel(w),
           NEW j \in Invoices, Clean(j)'
    PROVE  Settles(w, j) /\ Alone(w)
<1>1. /\ JobsOK /\ Lasting /\ job[w].inv \in Invoices
      /\ job[w].at = "save cancel" /\ LocalsOK(w)
  <2>1. JobsOK /\ job[w].at = "save cancel" /\ Lasting
    BY SavesLast DEF IInv, SaveCancel
  <2> QED
    BY <2>1, Locals DEF RequestOK, Grounded
<1> PICK i \in Invoices : i = job[w].inv
  BY <1>1
<1>2. "Cancelled" \in Stage \ {"absent"} /\ SaveStage(w, "Cancelled")
  BY DEF Stage, SaveCancel
<1>3. /\ \A k \in Invoices \ {i} : invoices'[k] = invoices[k]
      /\ invoices'[i].stage = "Cancelled"
      /\ receivable' = receivable /\ credited' = credited
  BY <1>1, <1>2, StageLasts DEF SaveCancel, books, LocalsOK
<1>4. Alone(w) /\ job'[w].at \notin AheadAt
  <2>1. CASE Done(w)
    BY <1>1, <2>1, DoneLocals DEF Blanked, AheadAt
  <2>2. CASE Goto(w, "split")
    <3>1. Alone(w) /\ job'[w].at = "split"
      BY <1>1, <2>2, GotoLocals
    <3> QED
      BY <3>1 DEF AheadAt
  <2> QED
    BY <2>1, <2>2 DEF SaveCancel
<1>5. CASE j # i
  <2>1. Untouched(j)
    BY <1>3, <1>5 DEF Untouched
  <2> QED
    BY <1>1, <1>4, <1>5, <2>1, ElsewhereSettles
<1>6. CASE j = i
  <2>1. /\ invoices[i].stage = job[w].stage
        /\ invoices[i].paid = 0
        /\ invoices[i].stage \notin {"Cancelled", "Written Off", "Paid"}
    <3>1. i \notin raced' /\ i \notin raced
      BY <1>1, <1>6 DEF Clean, Lasting
    <3> QED
      BY <1>1, <3>1, RaceNoted DEF SaveCancel, LocalsOK
  <2>2. Claim(i)' = 0
    BY <1>3 DEF Claim, Posted
  <2>3. Ahead(job[w], i)' = 0
    BY <1>4 DEF Ahead, AheadAt
  <2>4. CASE job[w].stage \in Posted
    <3>1. Claim(i) = Payable(i) - 0
      BY <2>1, <2>4 DEF Claim, Outstanding
    <3>2. Ahead(job[w], i) = -Payable(i)
      BY <1>1, <2>4 DEF Ahead
    <3> QED
      BY <1>3, <1>4, <1>6, <2>2, <2>3, <3>1, <3>2, AccountsTyped
         DEF Settles, Debt
  <2>5. CASE job[w].stage \notin Posted
    <3>1. Claim(i) = 0
      BY <2>1, <2>5 DEF Claim
    <3>2. Ahead(job[w], i) = 0
      BY <1>1, <2>5 DEF Ahead
    <3> QED
      BY <1>3, <1>4, <1>6, <2>2, <2>3, <3>1, <3>2, AccountsTyped
         DEF Settles, Debt
  <2> QED
    BY <2>4, <2>5
<1> QED
  BY <1>5, <1>6

LEMMA SaveWriteOffSettles ==
    ASSUME IInv, Grounded, NEW w \in Workers, SaveWriteOff(w),
           NEW j \in Invoices, Clean(j)'
    PROVE  Settles(w, j) /\ Alone(w)
<1>1. /\ JobsOK /\ Lasting /\ job[w].inv \in Invoices
      /\ job[w].at = "save write-off" /\ LocalsOK(w)
  <2>1. JobsOK /\ job[w].at = "save write-off" /\ Lasting
    BY SavesLast DEF IInv, SaveWriteOff
  <2> QED
    BY <2>1, Locals DEF RequestOK, Grounded
<1> PICK i \in Invoices : i = job[w].inv
  BY <1>1
<1>2. "Written Off" \in Stage \ {"absent"} /\ SaveStage(w, "Written Off")
  BY DEF Stage, SaveWriteOff
<1>3. /\ \A k \in Invoices \ {i} : invoices'[k] = invoices[k]
      /\ invoices'[i].paid = invoices[i].paid
      /\ receivable' = receivable /\ credited' = credited
  BY <1>1, <1>2, StageLasts DEF SaveWriteOff, books
<1>4. Alone(w) /\ job'[w].at \notin AheadAt
  BY <1>1, DoneLocals DEF SaveWriteOff, Blanked, AheadAt
<1>5. CASE j # i
  <2>1. Untouched(j)
    BY <1>3, <1>5 DEF Untouched
  <2> QED
    BY <1>1, <1>4, <1>5, <2>1, ElsewhereSettles
<1>6. CASE j = i
  <2>1. /\ invoices[i].stage = job[w].stage
        /\ invoices[i].paid = job[w].paid
        /\ Clean(i)
    <3>1. i \notin raced' /\ Clean(i)
      BY <1>1, <1>6, CleanLasts DEF Clean
    <3> QED
      BY <1>1, <3>1, RaceNoted DEF SaveWriteOff
  <2>2. invoices'[i].stage = "Written Off"
    BY <1>1, <1>2, <2>1, StageLasts
  <2>3. Payable(i)' = Payable(i) /\ Outstanding(i)' = Outstanding(i)
    BY <1>1, <1>3 DEF Lasting, LocalsOK, Outstanding
  <2>4. Claim(i)' = IF Outstanding(i) < 0 THEN Outstanding(i) ELSE 0
    BY <2>2, <2>3 DEF Claim, Posted
  <2>5. Ahead(job[w], i)' = 0
    BY <1>4 DEF Ahead, AheadAt
  <2>6. invoices[i].stage \in Stage \ {"absent", "Cancelled"}
    BY <1>1, <2>1, Locals DEF LocalsOK, Fresh, Clean
  <2>7. CASE job[w].stage \in Posted
    <3>1. Claim(i) = Outstanding(i)
      BY <2>1, <2>7 DEF Claim, Posted
    <3>2. Ahead(job[w], i) = IF Payable(i) > job[w].paid
                             THEN job[w].paid - Payable(i) ELSE 0
      BY <1>1, <2>7 DEF Ahead
    <3>3. Claim(i)' - Claim(i) = Ahead(job[w], i)
      BY <2>1, <2>4, <3>1, <3>2, AccountsTyped
    <3>4. Claim(i) \in Int /\ Claim(i)' \in Int
      BY <2>4, <3>1, AccountsTyped
    <3>5. Settles(w, i)
      BY <1>3, <2>5, <3>3, <3>4, AccountsTyped DEF Settles, Debt
    <3> QED
      BY <1>4, <1>6, <3>5
  <2>8. CASE job[w].stage \notin Posted
    <3>1. Ahead(job[w], i) = 0
      BY <1>1, <2>8 DEF Ahead
    <3>2. Claim(i) = Claim(i)'
      <4>1. CASE job[w].stage = "Written Off"
        BY <2>1, <2>4, <4>1 DEF Claim, Posted
      <4>2. CASE job[w].stage = "Paid"
        <5>1. Outstanding(i) <= 0
          <6>1. invoices[i].paid >= Payable(i)
            BY <2>1, <4>2 DEF Grounded, InvoiceOK, Clean
          <6> QED
            BY <6>1, AccountsTyped
        <5>2. Claim(i) = Outstanding(i)
          BY <2>1, <4>2 DEF Claim, Posted
        <5> QED
          BY <2>4, <5>1, <5>2, AccountsTyped
      <4>3. CASE job[w].stage \in {"Draft", "In Review", "Approved"}
        <5>1. invoices[i].paid = 0 /\ Payable(i) > 0
          BY <1>1, <2>1, <4>3 DEF Grounded, InvoiceOK, Clean, LocalsOK
        <5>2. Outstanding(i) > 0
          BY <5>1, AccountsTyped
        <5>3. Claim(i) = 0
          BY <2>1, <4>3 DEF Claim, Posted
        <5> QED
          BY <2>4, <5>2, <5>3, AccountsTyped
      <4> QED
        BY <2>1, <2>6, <2>8, <4>1, <4>2, <4>3 DEF Stage, Posted
    <3> QED
      BY <1>3, <1>4, <1>6, <2>5, <3>1, <3>2 DEF Settles, Debt
  <2> QED
    BY <2>7, <2>8
<1> QED
  BY <1>5, <1>6

\* A step after which w is not ahead in any invoice, if it was not before.
LEMMA LevelSettles ==
    ASSUME IInv, Grounded, Lasting, NEW w \in Workers, NEW j \in Invoices,
           UNCHANGED <<invoices, receivable, credited>>,
           job[w].at \notin AheadAt, job'[w].at \notin AheadAt
    PROVE  Settles(w, j)
BY ElsewhereSettles DEF Untouched

LEMMA FindsSettle ==
    ASSUME IInv, Grounded, NEW w \in Workers, Advance(w),
           \/ FindPayment(w) \/ FindCancel(w) \/ FindSubmitted(w)
           \/ \E i \in Invoices : Pick(w, i)
           \/ MarkInvoiced(w) \/ Certify(w) \/ SaveMatch(w) \/ SavePlan(w)
           \/ PostFeed(w),
           NEW j \in Invoices
    PROVE  Settles(w, j) /\ Alone(w)
<1>1. /\ JobsOK /\ Lasting /\ UNCHANGED <<invoices, receivable, credited>>
  BY AdvanceLasts DEF IInv, FindPayment, FindCancel, FindSubmitted, Pick,
     MarkInvoiced, Certify, SaveMatch, SavePlan, PostFeed, books
<1>2. job[w].at \notin AheadAt
  BY DEF AheadAt, FindPayment, FindCancel, FindSubmitted, Pick,
     MarkInvoiced, Certify, SaveMatch, SavePlan, PostFeed
<1>3. CASE job' = [job EXCEPT ![w] = Idle] \/ Done(w)
  <2>1. Alone(w) /\ job'[w].at \notin AheadAt
    BY <1>1, <1>3, IdleLocals, DoneLocals DEF Blanked, AheadAt
  <2> QED
    BY <1>1, <1>2, <2>1, LevelSettles
<1>4. ASSUME NEW i \in Invoices, NEW move, Moving(w, move, i)
      PROVE  Settles(w, j) /\ Alone(w)
  <2>1. Alone(w) /\ job'[w].at = "save"
    BY <1>1, <1>4, MovingLocals
  <2> QED
    BY <1>1, <1>2, <2>1, LevelSettles DEF AheadAt
<1>5. CASE FindPayment(w) \/ SaveMatch(w)
  <2>1. CASE FindPayment(w)
    <3>1. Alone(w) /\ job'[w].at = "save payment"
      BY <1>1, <2>1, Locals DEF FindPayment, Alone, JobsOK, Request
    <3> QED
      BY <1>1, <1>2, <3>1, LevelSettles DEF AheadAt
  <2>2. CASE SaveMatch(w)
    <3>1. Alone(w) /\ job'[w].at = "find payment"
      BY <1>1, <2>2, GotoLocals DEF SaveMatch
    <3> QED
      BY <1>1, <1>2, <3>1, LevelSettles DEF AheadAt
  <2> QED
    BY <1>5, <2>1, <2>2
<1>6. CASE FindCancel(w) /\ Cancellable(job[w].inv)
  <2>1. job[w].inv \in Invoices
    BY <1>1, <1>6, Locals DEF FindCancel, RequestOK
  <2> PICK i \in Invoices : i = job[w].inv
    BY <2>1
  <2>2. /\ Alone(w) /\ job'[w].inv = i
        /\ job'[w].at = IF invoices[i].stage \in Posted
                        THEN "reverse" ELSE "save cancel"
        /\ job'[w].stage = invoices[i].stage
    <3> DEFINE r == [job[w] EXCEPT
                        !.at = IF invoices[i].stage \in Posted
                               THEN "reverse" ELSE "save cancel",
                        !.stage = invoices[i].stage,
                        !.paid = invoices[i].paid]
    <3>1. job' = [job EXCEPT ![w] = r]
      BY <1>1, <1>6 DEF FindCancel, JobsOK
    <3>2. /\ r.inv = i /\ r.stage = invoices[i].stage
          /\ r.at = IF invoices[i].stage \in Posted
                    THEN "reverse" ELSE "save cancel"
      BY <1>1, Locals DEF Request
    <3> HIDE DEF r
    <3> QED
      BY <1>1, <3>1, <3>2 DEF Alone, JobsOK
  <2>3. Ahead(job[w], j) = 0
    BY <1>2, NotAhead
  <2>4. Ahead(job[w], j)' = 0
    BY <2>2 DEF Ahead
  <2>5. Debt(j)' = Debt(j)
    BY <1>1, UntouchedDebt DEF Untouched
  <2> QED
    BY <2>2, <2>3, <2>4, <2>5 DEF Settles
<1>7. ASSUME FindSubmitted(w), job' # [job EXCEPT ![w] = Idle]
      PROVE  Settles(w, j) /\ Alone(w)
  <2>1. job[w].inv \in Invoices
    BY <1>1, <1>7, Locals DEF FindSubmitted, RequestOK
  <2> QED
    BY <1>4, <1>7, <2>1 DEF FindSubmitted
<1>8. ASSUME NEW i \in Invoices, Pick(w, i)
      PROVE  Settles(w, j) /\ Alone(w)
  <2>1. CASE job' = [job EXCEPT ![w] = [job[w] EXCEPT !.todo = @ \ {i}]]
    <3>1. Alone(w) /\ job'[w].at = "pick"
      BY <1>1, <1>8, <2>1, Locals DEF Pick, Alone, JobsOK, Request
    <3> QED
      BY <1>1, <1>2, <3>1, LevelSettles DEF AheadAt
  <2> QED
    BY <1>3, <1>4, <1>8, <2>1 DEF Pick
<1> QED
  BY <1>3, <1>5, <1>6, <1>7, <1>8
     DEF FindCancel, MarkInvoiced, Certify, SavePlan, PostFeed

\* Postings: what an account is moved by, the request that posts is ahead.
Posts(i, amount, credit) ==
    /\ invoices' = invoices
    /\ receivable'[i] = receivable[i] - amount
    /\ credited'[i] = credited[i] + credit
    /\ \A k \in Invoices \ {i} : /\ receivable'[k] = receivable[k]
                                 /\ credited'[k] = credited[k]

LEMMA PostingSettles ==
    ASSUME IInv, IInv', Grounded, Lasting, NEW w \in Workers,
           NEW i \in Invoices, NEW amount \in Int, NEW credit \in Int,
           Posts(i, amount, credit),
           i = job[w].inv, job'[w].inv \in {i, NoInvoice},
           Ahead(job[w], i) = Ahead(job[w], i)' + (amount - credit),
           NEW j \in Invoices
    PROVE  Settles(w, j)
<1>1. CASE j # i
  <2>1. Untouched(j)
    BY <1>1 DEF Untouched, Posts
  <2>2. job[w].inv # j /\ job'[w].inv # j
    BY <1>1, ReceivablesAssumption
  <2> QED
    BY <2>1, <2>2, ElsewhereSettles
<1>2. CASE j = i
  <2>1. /\ receivable'[i] = receivable[i] - amount
        /\ credited'[i] = credited[i] + credit
    BY DEF Posts
  <2>2. Claim(i)' = Claim(i) /\ Claim(i) \in Int
    BY ClaimInt DEF Claim, Outstanding, Payable, Posts
  <2>3. Ahead(job[w], i)' \in Int
    BY AheadIntNext
  <2>4. receivable[i] \in Int /\ credited[i] \in Int
    BY AccountsTyped
  <2>5. Settles(w, i)
    BY <2>1, <2>2, <2>3, <2>4 DEF Settles, Debt
  <2> QED
    BY <1>2, <2>5
<1> QED
  BY <1>1, <1>2

LEMMA PostsSettle ==
    ASSUME IInv, IInv', Grounded, NEW w \in Workers, Advance(w),
           \/ PostSale(w) \/ PostReceipt(w) \/ Reclassify(w)
           \/ Reverse(w) \/ Expense(w) \/ PostCredit(w) \/ NoAccount(w),
           NEW j \in Invoices, Clean(j)'
    PROVE  Settles(w, j) /\ Alone(w)
<1>1. /\ JobsOK /\ Lasting /\ LocalsOK(w) /\ job[w].inv \in Invoices
      /\ invoices' = invoices
  <2>1. JobsOK /\ Lasting /\ LocalsOK(w) /\ invoices' = invoices
    BY AdvanceLasts DEF IInv, Grounded, PostSale, PostReceipt, Reclassify,
       Reverse, Expense, PostCredit, NoAccount
  <2> QED
    BY <2>1, Locals DEF RequestOK, PostSale, PostReceipt, Reclassify,
       Reverse, Expense, PostCredit, NoAccount
<1> PICK i \in Invoices : i = job[w].inv
  BY <1>1
<1>2. /\ Payable(i) \in Int /\ Payable(i)' = Payable(i)
      /\ job[w].amount \in Int /\ job[w].paid \in Int
      /\ NoInvoice \notin Invoices
  BY <1>1, Locals, AccountsTyped, ReceivablesAssumption DEF Payable
<1>3. /\ receivable \in [Invoices -> Int] /\ credited \in [Invoices -> Nat]
  BY DEF IInv, TypeOK
<1>4. ASSUME NEW amount \in Int,
             receivable' = [receivable EXCEPT ![i] = @ + amount],
             credited' = credited,
             Alone(w), job'[w].inv \in {i, NoInvoice},
             Ahead(job[w], i)' = Ahead(job[w], i) + amount
      PROVE  Settles(w, j) /\ Alone(w)
  <2>1. -amount \in Int /\ 0 \in Int
    BY <1>4
  <2>2. Posts(i, -amount, 0)
    BY <1>1, <1>3, <1>4 DEF Posts
  <2>3. Ahead(job[w], i) = Ahead(job[w], i)' + ((-amount) - 0)
    BY <1>4, AheadInt
  <2> QED
    BY <1>1, <1>4, <2>1, <2>2, <2>3, PostingSettles
<1>5. ASSUME Done(w)
      PROVE  /\ Alone(w) /\ job'[w].inv = NoInvoice
             /\ Ahead(job[w], i)' = 0
  BY <1>1, <1>2, <1>5, DoneLocals DEF Blanked, Ahead
<1>6. ASSUME NEW x \in Int
      PROVE  /\ -x \in Int /\ x = x - 0
             /\ (-x) + x = 0 /\ x + (-x) = 0 /\ 0 + (-x) = -x
             /\ receivable[i] - x = receivable[i] + (-x)
             /\ [receivable EXCEPT ![i] = @ - x]
                    = [receivable EXCEPT ![i] = @ + (-x)]
  <2>1. receivable[i] \in Int
    BY <1>3
  <2>2. receivable[i] - x = receivable[i] + (-x)
    BY <2>1
  <2>3. /\ -x \in Int /\ x = x - 0
        /\ (-x) + x = 0 /\ x + (-x) = 0 /\ 0 + (-x) = -x
    OBVIOUS
  <2>4. [receivable EXCEPT ![i] = @ - x]
            = [receivable EXCEPT ![i] = receivable[i] - x]
    BY <1>3
  <2>5. [receivable EXCEPT ![i] = @ + (-x)]
            = [receivable EXCEPT ![i] = receivable[i] + (-x)]
    BY <1>3
  <2> QED
    BY <2>2, <2>3, <2>4, <2>5
<1>7. CASE PostSale(w)
  <2>1. /\ Ahead(job[w], i) = -Payable(i) /\ job[w].at = "post sale"
        /\ receivable' = [receivable EXCEPT ![i] = @ + Payable(i)]
        /\ credited' = credited
    BY <1>7 DEF PostSale, Ahead
  <2>2. /\ Alone(w) /\ job'[w].inv \in {i, NoInvoice}
        /\ Ahead(job[w], i)' = 0
    <3>1. CASE Goto(w, "certify")
      <4>1. Alone(w) /\ job'[w].inv = i /\ job'[w].at = "certify"
        BY <1>1, <3>1, GotoLocals
      <4> QED
        BY <4>1 DEF Ahead
    <3> QED
      BY <1>5, <1>7, <3>1 DEF PostSale
  <2>3. -Payable(i) \in Int /\ Ahead(job[w], i)' = Ahead(job[w], i) + Payable(i)
    BY <1>2, <1>6, <2>1, <2>2
  <2> QED
    BY <1>2, <1>4, <2>1, <2>2, <2>3
<1>8. CASE PostReceipt(w) \/ Reclassify(w)
  <2>1. /\ Ahead(job[w], i) = job[w].amount /\ Done(w)
        /\ credited' = credited
    BY <1>8 DEF PostReceipt, Reclassify, Ahead
  <2>2. CASE receivable' = [receivable EXCEPT ![i] = @ - job[w].amount]
    <3>1. receivable' = [receivable EXCEPT ![i] = @ + (-job[w].amount)]
      BY <1>2, <1>6, <2>2
    <3>2. /\ Ahead(job[w], i)' = Ahead(job[w], i) + (-job[w].amount)
          /\ -job[w].amount \in Int
      BY <1>2, <1>5, <1>6, <2>1
    <3> QED
      BY <1>2, <1>4, <1>5, <2>1, <3>1, <3>2
  <2>3. ASSUME Reclassify(w), j # i
        PROVE  Settles(w, j) /\ Alone(w)
    <3>1. receivable'[j] = receivable[j]
      BY <1>3, <2>3 DEF Reclassify
    <3>2. Untouched(j)
      BY <1>1, <2>1, <3>1 DEF Untouched
    <3>3. job[w].inv # j /\ job'[w].inv # j
      BY <1>2, <1>5, <2>1, <2>3
    <3> QED
      BY <1>1, <1>5, <2>1, <3>2, <3>3, ElsewhereSettles
  <2>4. ASSUME Reclassify(w), j = i
        PROVE  receivable' = [receivable EXCEPT ![i] = @ - job[w].amount]
    <3>1. /\ job[w].tx \in Txs \/ job[w].tx = NoTx
          /\ job[w].at = "reclassify" /\ job[w].tx # NoTx
      BY <1>1, <2>4, Locals, ReceivablesAssumption DEF Reclassify, RequestOK
    <3> PICK x \in Txs : x = job[w].tx
      BY <3>1
    <3>7. i \in rematched \/ /\ txs[x].link = i
                             /\ txs[x].origin \in {"unposted", "feed"}
                             /\ job[w].amount = Magnitude(txs[x].amount)
      BY <1>1, <3>1 DEF LocalsOK
    <3>8. i \notin rematched /\ Clean(i) /\ i \notin unmoved'
      BY <1>1, <2>4, CleanLasts DEF Clean
    <3>2. MoneyIn(i) /\ txs[x].origin # "unposted"
      BY <2>4, <3>8 DEF Clean, Reclassify
    <3>3. /\ txs[x].link = i /\ txs[x].origin = "feed"
          /\ job[w].amount = Magnitude(txs[x].amount)
      BY <3>2, <3>7, <3>8
    <3>4. txs[x].amount >= 0
      BY <3>2, <3>3 DEF MoneyIn
    <3>5. txs[x].amount \in Int
      BY DEF IInv, TypeOK
    <3>6. job[w].amount = txs[x].amount
      BY <3>3, <3>4, <3>5 DEF Magnitude
    <3> QED
      BY <2>4, <3>3, <3>6 DEF Reclassify
  <2> QED
    BY <1>8, <2>2, <2>3, <2>4 DEF PostReceipt
<1>9. CASE Reverse(w)
  <2>1. /\ Ahead(job[w], i) = 0 /\ Goto(w, "save cancel")
        /\ credited' = credited
        /\ receivable' = [receivable EXCEPT ![i] = @ - Payable(i)]
        /\ job[w].stage \in Posted
    BY <1>1, <1>9 DEF Reverse, Ahead, LocalsOK
  <2>2. /\ Alone(w) /\ job'[w].inv = i /\ job'[w].at = "save cancel"
        /\ job'[w].stage = job[w].stage
    BY <1>1, <2>1, GotoLocals
  <2>3. Ahead(job[w], i)' = -Payable(i)
    BY <1>2, <2>1, <2>2 DEF Ahead
  <2>4. /\ receivable' = [receivable EXCEPT ![i] = @ + (-Payable(i))]
        /\ Ahead(job[w], i)' = Ahead(job[w], i) + (-Payable(i))
        /\ -Payable(i) \in Int
    BY <1>2, <1>6, <2>1, <2>3
  <2> QED
    BY <1>4, <2>1, <2>2, <2>4
<1>10. CASE Expense(w)
  <2>1. /\ Ahead(job[w], i) = 0 /\ Goto(w, "save write-off")
        /\ credited' = credited
        /\ receivable' =
               [receivable EXCEPT ![i] = @ - (Payable(i) - job[w].paid)]
        /\ job[w].stage \in Posted /\ Payable(i) > job[w].paid
    BY <1>1, <1>10 DEF Expense, Ahead, LocalsOK
  <2>2. /\ Alone(w) /\ job'[w].inv = i /\ job'[w].at = "save write-off"
        /\ job'[w].stage = job[w].stage /\ job'[w].paid = job[w].paid
    BY <1>1, <2>1, GotoLocals
  <2>3. Ahead(job[w], i)' = job[w].paid - Payable(i)
    BY <1>2, <2>1, <2>2 DEF Ahead
  <2> DEFINE amount == Payable(i) - job[w].paid
  <2>4. amount \in Int /\ job[w].paid - Payable(i) = -amount
    BY <1>2
  <2>5. receivable' = [receivable EXCEPT ![i] = @ - amount]
    BY <2>1
  <2> HIDE DEF amount
  <2>6. /\ receivable' = [receivable EXCEPT ![i] = @ + (-amount)]
        /\ Ahead(job[w], i)' = Ahead(job[w], i) + (-amount) /\ -amount \in Int
    BY <1>6, <2>1, <2>3, <2>4, <2>5
  <2> QED
    BY <1>4, <2>1, <2>2, <2>6
<1>11. CASE PostCredit(w)
  <2>1. /\ Ahead(job[w], i) = 0 /\ Done(w)
        /\ Posts(i, job[w].amount, job[w].amount)
    BY <1>1, <1>3, <1>11 DEF PostCredit, Ahead, Posts
  <2>2. Ahead(job[w], i) = Ahead(job[w], i)' + (job[w].amount - job[w].amount)
    BY <1>2, <1>5, <2>1
  <2> QED
    BY <1>1, <1>2, <1>5, <2>1, <2>2, PostingSettles
<1>12. CASE NoAccount(w)
  <2>1. j # i /\ Untouched(j) /\ Done(w)
    BY <1>12 DEF NoAccount, Clean, Untouched, books
  <2>2. job[w].inv # j /\ job'[w].inv # j
    BY <1>2, <1>5, <2>1
  <2> QED
    BY <1>1, <1>5, <2>1, <2>2, ElsewhereSettles
<1> QED
  BY <1>7, <1>8, <1>9, <1>10, <1>11, <1>12

LEMMA AdvanceBalance ==
    ASSUME IInv, IInv', Grounded, NEW w \in Workers, Advance(w),
           NEW j \in Invoices, Balanced(j)
    PROVE  Balanced(j)'
<1>1. Lasting
  BY AdvanceLasts
<1>2. Clean(j)' => Settles(w, j) /\ Alone(w)
  BY SaveMoveSettles, SavePaymentSettles, SaveCancelSettles,
     SaveWriteOffSettles, FindsSettle, PostsSettle DEF Advance
<1> QED
  BY <1>1, <1>2, SettlesBalance DEF Balanced

\* A request that dies takes its invoice out of the account.
LEMMA BalanceOK ==
    ASSUME IInv, IInv', Grounded, [Next]_vars,
           NEW j \in Invoices, Balanced(j)
    PROVE  Balanced(j)'
<1>1. Lasting /\ JobsOK /\ NoInvoice \notin Invoices
  BY StepLasts, ReceivablesAssumption DEF IInv
<1>2. ASSUME NEW w \in Workers, Abort(w)
      PROVE  Balanced(j)'
  <2> DEFINE r == IF w = Job /\ job[w].todo # {}
                  THEN [Idle EXCEPT !.at = "pick", !.batch = "send",
                                    !.todo = job[w].todo]
                  ELSE Idle
  <2>1. job' = [job EXCEPT ![w] = r] /\ Untouched(j)
    BY <1>2 DEF Abort, Untouched, books
  <2>2. r.at \in {"idle", "pick"}
    BY DEF Idle
  <2> HIDE DEF r
  <2>3. Alone(w) /\ job'[w].at \notin AheadAt
    BY <1>1, <2>1, <2>2 DEF Alone, JobsOK, AheadAt
  <2>4. Clean(j)' => job[w].inv # j
    BY <1>1, <1>2 DEF Abort, Clean, LeftBy
  <2>5. Clean(j)' => Settles(w, j)
    BY <1>1, <2>1, <2>3, <2>4, ElsewhereSettles
  <2> QED
    BY <1>1, <2>3, <2>5, SettlesBalance
<1>3. CASE AutoSend
  <2>1. /\ Accept(Job, [Idle EXCEPT !.at = "pick", !.batch = "send",
                                    !.todo = DueInstalments])
        /\ Untouched(j) /\ Job \in Workers
    BY <1>3 DEF AutoSend, Workers, Untouched, books
  <2> DEFINE r == [Idle EXCEPT !.at = "pick", !.batch = "send",
                              !.todo = DueInstalments]
  <2>2. r.at = "pick"
    BY DEF Idle
  <2>3. Accept(Job, r)
    BY <2>1
  <2> HIDE DEF r
  <2>4. Alone(Job) /\ job[Job].at = "idle" /\ job'[Job].at = "pick"
    BY <1>1, <2>1, <2>2, <2>3, AcceptLocals
  <2>5. Settles(Job, j)
    BY <1>1, <2>1, <2>4, ElsewhereSettles DEF AheadAt
  <2> QED
    BY <1>1, <2>1, <2>4, <2>5, SettlesBalance
<1>4. CASE Restart
  <2> SUFFICES ASSUME Clean(j)'
               PROVE  Debt(j)' = SumFunctionOnSet(
                                     [w \in Workers |-> Ahead(job[w], j)'],
                                     Workers)
    BY DEF Balanced
  <2> DEFINE f == [w \in Workers |-> Ahead(job[w], j)]
             g == [w \in Workers |-> Ahead(job[w], j)']
  <2>1. \A w \in Workers : job[w].inv # j /\ job'[w].at = "idle"
    BY <1>1, <1>4 DEF Restart, Clean, LeftBy, Idle
  <2>2. \A w \in Workers : f[w] = g[w]
    BY <2>1 DEF Ahead
  <2>3. SumFunctionOnSet(f, Workers) = SumFunctionOnSet(g, Workers)
    <3> HIDE DEF f, g
    <3> QED
      BY <2>2, WorkersFinite, SumSame
  <2>4. Debt(j)' = Debt(j)
    BY <1>4, UntouchedDebt DEF Untouched, Restart, books
  <2>5. Debt(j) = SumFunctionOnSet(f, Workers)
    BY <1>1, CleanLasts DEF Balanced
  <2> QED
    BY <2>3, <2>4, <2>5
<1>5. CASE UNCHANGED vars
  <2>1. /\ Alone(Job) /\ job' = job /\ Untouched(j) /\ Job \in Workers
    BY <1>5 DEF vars, Alone, Untouched, Workers, books
  <2>2. Settles(Job, j)
    BY <1>1, <2>1, AheadStays, UntouchedSettles
  <2> QED
    BY <1>1, <2>1, <2>2, SettlesBalance
<1> QED
  BY <1>2, <1>3, <1>4, <1>5, OfficeBalance, RequestedBalance, InsertBalance,
     AdvanceBalance DEF Next

LEMMA InitBalance == ASSUME Init, NEW j \in Invoices PROVE Balanced(j)
<1> DEFINE f == [w \in Workers |-> Ahead(job[w], j)]
<1>1. \A w \in Workers : f[w] = 0
  BY DEF Init, Idle, Ahead
<1>2. SumFunctionOnSet(f, Workers) = 0
  <2> HIDE DEF f
  <2> QED
    BY <1>1, WorkersFinite, SumZero
<1>3. Debt(j) = 0
  <2>1. /\ receivable[j] = 0 /\ credited[j] = 0
        /\ invoices[j].stage = "absent"
    BY DEF Init, Blank
  <2>2. Claim(j) = 0
    BY <2>1 DEF Claim, Posted
  <2> QED
    BY <2>1, <2>2 DEF Debt
<1> QED
  BY <1>2, <1>3 DEF Balanced

LEMMA BalanceFollows ==
    ASSUME IInv, \A i \in Invoices : Balanced(i)
    PROVE  ReceivableFollows
<1> SUFFICES ASSUME NEW i \in Invoices, Sound(i), MoneyIn(i),
                    i \notin astray \union rematched \union unmoved
             PROVE  receivable[i] = Claim(i) - credited[i]
  BY DEF ReceivableFollows
<1> DEFINE f == [w \in Workers |-> Ahead(job[w], i)]
<1>1. \A w \in Workers : f[w] = 0
  BY DEF Sound, Quiet, Ahead
<1>2. SumFunctionOnSet(f, Workers) = 0
  <2> HIDE DEF f
  <2> QED
    BY <1>1, WorkersFinite, SumZero
<1>3. Debt(i) = 0
  BY <1>2 DEF Balanced, Clean, Sound
<1> QED
  BY <1>3, AccountsTyped, ClaimInt DEF Debt

(***************************************************************************)
(* Money in Banking and money on the invoice: what a request has put on    *)
(* one side and not yet on the other.                                      *)
(***************************************************************************)
Unbanked(r, i) ==
    IF r.inv # i THEN 0
    ELSE CASE r.at = "bank" -> r.amount
           [] r.at \in {"find payment", "save payment"} /\ r.tx # NoTx ->
                  -r.amount
           [] OTHER -> 0

Shown(i) == invoices[i].paid - Banked(i)
BankedOK(i) ==
    /\ Fresh(i) => invoices[i].paid = 0
    /\ i \notin raced \union lost \union rematched /\ MoneyIn(i) =>
           Shown(i) = SumFunctionOnSet([w \in Workers |-> Unbanked(job[w], i)],
                                       Workers)

UnbankedAt == {"bank", "find payment", "save payment"}

LEMMA BankedInt ==
    ASSUME IInv, NEW i \in Invoices
    PROVE  Banked(i) \in Int /\ Shown(i) \in Int
<1> DEFINE f == [x \in Txs |-> txs[x].amount]
           S == {x \in Txs : txs[x].link = i}
<1>1. \A x \in S : f[x] \in Int
  BY DEF IInv, TypeOK
<1>2. IsFiniteSet(S)
  BY ReceivablesAssumption, FS_Subset
<1>3. SumFunctionOnSet(f, S) \in Int
  <2> HIDE DEF f, S
  <2> QED
    BY <1>1, <1>2, SumInt
<1>4. invoices[i].paid \in Int
  BY AccountsTyped
<1> QED
  BY <1>3, <1>4 DEF Banked, Shown

LEMMA BankedIntNext ==
    ASSUME NEW i \in Invoices
    PROVE  (IInv => Banked(i) \in Int /\ Shown(i) \in Int)'
<1>1. IInv => Banked(i) \in Int /\ Shown(i) \in Int
  BY BankedInt
<1> QED
  BY <1>1, PTL

LEMMA UnbankedInt ==
    ASSUME IInv, NEW w \in Workers, NEW i
    PROVE  Unbanked(job[w], i) \in Int
<1>1. job[w].amount \in Int
  BY Locals DEF IInv
<1>2. job[w].amount \in Int /\ -job[w].amount \in Int
  BY <1>1
<1>3. Unbanked(job[w], i) \in {0, job[w].amount, -job[w].amount}
  BY DEF Unbanked
<1> QED
  BY <1>2, <1>3

LEMMA UnbankedIntNext ==
    ASSUME NEW w \in Workers, NEW i \in Invoices
    PROVE  (IInv => Unbanked(job[w], i) \in Int)'
<1>1. IInv => Unbanked(job[w], i) \in Int
  BY UnbankedInt
<1> QED
  BY <1>1, PTL

LEMMA SameBanked ==
    ASSUME NEW i \in Invoices,
           \A x \in Txs : /\ txs'[x].link = i <=> txs[x].link = i
                          /\ txs[x].link = i => txs'[x].amount = txs[x].amount
    PROVE  Banked(i)' = Banked(i)
<1> DEFINE f == [x \in Txs |-> txs[x].amount]
           g == [x \in Txs |-> txs'[x].amount]
           S == {x \in Txs : txs[x].link = i}
<1>1. IsFiniteSet(S)
  BY ReceivablesAssumption, FS_Subset
<1>2. \A x \in S : f[x] = g[x]
  OBVIOUS
<1>3. SumFunctionOnSet(f, S) = SumFunctionOnSet(g, S)
  <2> HIDE DEF f, g, S
  <2> QED
    BY <1>1, <1>2, SumSame
<1>4. {x \in Txs : txs'[x].link = i} = S
  OBVIOUS
<1> QED
  BY <1>3, <1>4 DEF Banked

LEMMA MoreBanked ==
    ASSUME IInv, NEW i \in Invoices, NEW x \in Txs,
           txs[x].link # i, txs'[x].link = i, NEW amount \in Int,
           txs'[x].amount = amount,
           \A y \in Txs \ {x} : txs'[y] = txs[y]
    PROVE  Banked(i)' = Banked(i) + amount
<1> DEFINE f == [y \in Txs |-> txs[y].amount]
           g == [y \in Txs |-> txs'[y].amount]
           S == {y \in Txs : txs[y].link = i}
<1>1. IsFiniteSet(S) /\ x \notin S
  BY ReceivablesAssumption, FS_Subset
<1>2. \A y \in S : f[y] = g[y]
  BY <1>1
<1>3. \A y \in S \union {x} : g[y] \in Int
  BY DEF IInv, TypeOK
<1>4. SumFunctionOnSet(f, S) = SumFunctionOnSet(g, S)
  <2> HIDE DEF f, g, S
  <2> QED
    BY <1>1, <1>2, SumSame
<1>5. SumFunctionOnSet(g, S \union {x}) = g[x] + SumFunctionOnSet(g, S)
  <2> HIDE DEF f, g, S
  <2> QED
    BY <1>1, <1>3, SumAdd
<1>6. {y \in Txs : txs'[y].link = i} = S \union {x}
  OBVIOUS
<1>7. Banked(i) \in Int /\ Banked(i) = SumFunctionOnSet(f, S)
  BY BankedInt DEF Banked
<1>8. Banked(i)' = SumFunctionOnSet(g, S \union {x})
  BY <1>6 DEF Banked
<1> HIDE DEF f, S
<1> QED
  BY <1>4, <1>5, <1>7, <1>8

\* A step of w moves what the invoice shows as much as what w still owes it.
Banks(w, i) ==
    /\ Fresh(i)' => invoices'[i].paid = 0
    /\ i \notin raced' \union lost' \union rematched' /\ MoneyIn(i)' =>
           Shown(i)' - Unbanked(job[w], i)' = Shown(i) - Unbanked(job[w], i)

LEMMA BanksOK ==
    ASSUME IInv, IInv', Grounded, Lasting, NEW w \in Workers, Alone(w),
           NEW i \in Invoices, Banks(w, i), BankedOK(i)
    PROVE  BankedOK(i)'
<1> SUFFICES ASSUME i \notin raced' \union lost' \union rematched',
                    MoneyIn(i)'
             PROVE  Shown(i)' = SumFunctionOnSet(
                                   [v \in Workers |-> Unbanked(job[v], i)'],
                                   Workers)
  BY DEF BankedOK, Banks
<1> DEFINE f == [v \in Workers |-> Unbanked(job[v], i)]
           g == [v \in Workers |-> Unbanked(job[v], i)']
<1>1. Shown(i) = SumFunctionOnSet(f, Workers)
  BY MoneyLasts DEF BankedOK, Lasting
<1>2. \A v \in Workers : f[v] \in Int /\ g[v] \in Int
  BY UnbankedInt, UnbankedIntNext
<1>3. \A v \in Workers \ {w} : g[v] = f[v]
  BY DEF Alone, Unbanked
<1>4. SumFunctionOnSet(g, Workers)
          = SumFunctionOnSet(f, Workers) + g[w] - f[w]
  <2> HIDE DEF f, g
  <2> QED
    BY <1>2, <1>3, WorkersFinite, SumChange
<1>5. Shown(i) \in Int /\ Shown(i)' \in Int
  BY BankedInt, BankedIntNext
<1>6. SumFunctionOnSet(g, Workers) = Shown(i)'
  BY <1>1, <1>2, <1>4, <1>5 DEF Banks
<1> QED
  BY <1>6

\* Steps that move no money between the two.
PaidStays(i) ==
    /\ invoices'[i].paid = invoices[i].paid
    /\ Fresh(i)' => Fresh(i)

LEMMA StayBanks ==
    ASSUME NEW w \in Workers, NEW i \in Invoices, BankedOK(i),
           PaidStays(i), txs' = txs,
           Unbanked(job[w], i)' = Unbanked(job[w], i)
    PROVE  Banks(w, i)
<1>1. Banked(i)' = Banked(i)
  BY SameBanked
<1> QED
  BY <1>1 DEF Banks, PaidStays, Shown, BankedOK

LEMMA LevelBanks ==
    ASSUME NEW w \in Workers, NEW i \in Invoices, BankedOK(i),
           PaidStays(i), txs' = txs,
           job[w].at \notin UnbankedAt, job'[w].at \notin UnbankedAt
    PROVE  Banks(w, i)
<1>1. Unbanked(job[w], i)' = 0 /\ Unbanked(job[w], i) = 0
  BY DEF Unbanked, UnbankedAt
<1> QED
  BY <1>1, StayBanks

LEMMA CreatedBanks ==
    ASSUME IInv, NEW i \in Invoices, NEW terms, NEW lines, NEW original,
           Fresh(i), invoices' = Created(i, terms, lines, original),
           txs' = txs, NEW j \in Invoices, BankedOK(j), NEW w \in Workers,
           Unbanked(job[w], j)' = Unbanked(job[w], j)
    PROVE  Banks(w, j)
<1>1. CASE j # i
  <2>1. invoices'[j] = invoices[j]
    BY <1>1 DEF IInv, TypeOK, Created
  <2> QED
    BY <2>1, StayBanks DEF PaidStays, Fresh
<1>2. CASE j = i
  <2>1. invoices'[i].stage = "Draft" /\ invoices'[i].paid = 0
    BY DEF IInv, TypeOK, Created
  <2>2. invoices[i].paid = 0
    BY <1>2 DEF BankedOK
  <2>3. Banked(i)' = Banked(i)
    BY SameBanked
  <2> QED
    BY <1>2, <2>1, <2>2, <2>3 DEF Banks, Shown, Fresh
<1> QED
  BY <1>1, <1>2

LEMMA OfficeBanks ==
    ASSUME IInv, IInv', Grounded, Office, NEW j \in Invoices, BankedOK(j)
    PROVE  BankedOK(j)'
<1>1. job' = job /\ Lasting /\ Job \in Workers /\ Alone(Job)
  BY OfficeLasts
     DEF Office, CreateInvoice, ReviewEntry, ComesDue, Workers, Alone
<1>2. Unbanked(job[Job], j)' = Unbanked(job[Job], j)
  BY <1>1 DEF Unbanked
<1>3. ASSUME NEW i \in Invoices, NEW terms \in Terms, CreateInvoice(i, terms)
      PROVE  Banks(Job, j)
  BY <1>1, <1>2, <1>3, CreatedBanks DEF CreateInvoice
<1>4. CASE \/ \E e \in Entries, review \in {"Unbilled", "Held"} :
                  ReviewEntry(e, review)
           \/ \E i \in Invoices : ComesDue(i)
  <2>1. UNCHANGED <<invoices, txs>>
    BY <1>4 DEF ReviewEntry, ComesDue
  <2>2. PaidStays(j)
    BY <2>1 DEF PaidStays, Fresh
  <2>3. Banks(Job, j)
    BY <1>1, <1>2, <2>1, <2>2, StayBanks
  <2> QED
    BY <1>1, <2>3, BanksOK
<1> QED
  BY <1>1, <1>3, <1>4, BanksOK DEF Office

LEMMA RequestedBanks ==
    ASSUME IInv, IInv', Grounded, NEW h \in Handlers, Requested(h),
           NEW j \in Invoices, BankedOK(j)
    PROVE  BankedOK(j)'
<1>0. h \in Workers /\ JobsOK /\ Lasting
  BY RequestedLasts DEF Workers, IInv
<1>2. SUFFICES Banks(h, j) /\ Alone(h)
  BY <1>0, BanksOK
<1>6. ASSUME NEW x \in Txs, NEW amount \in FeedAmounts,
             ImportTx(h, x, amount)
      PROVE  Banks(h, j) /\ Alone(h)
  <2>1. /\ \A y \in Txs \ {x} : txs'[y] = txs[y]
        /\ txs'[x].link = NoInvoice /\ txs[x].link = NoInvoice
        /\ invoices' = invoices /\ NoInvoice \notin Invoices
    BY <1>6, ReceivablesAssumption DEF ImportTx, IInv, TypeOK, Grounded, TxOK
  <2>2. Banked(j)' = Banked(j)
    BY <2>1, SameBanked
  <2> DEFINE r == [Idle EXCEPT !.at = "post feed", !.tx = x,
                              !.amount = amount]
  <2>3. Accept(h, r)
    BY <1>6 DEF ImportTx
  <2>4. r.inv = NoInvoice
    BY DEF Idle
  <2> HIDE DEF r
  <2>5. Alone(h) /\ job'[h] = r /\ job[h].inv = NoInvoice
    BY <1>0, <2>3, AcceptLocals DEF Accept, Idle
  <2>6. Unbanked(job[h], j) = 0 /\ Unbanked(job[h], j)' = 0
    BY <2>1, <2>4, <2>5 DEF Unbanked
  <2> QED
    BY <2>1, <2>2, <2>5, <2>6 DEF Banks, Shown, BankedOK, Fresh
<1> SUFFICES ASSUME \A x \in Txs, amount \in FeedAmounts :
                        ~ImportTx(h, x, amount)
             PROVE  Banks(h, j) /\ Alone(h)
  BY <1>6
<1>1. /\ h \in Workers /\ JobsOK /\ Lasting
      /\ UNCHANGED <<invoices, txs>> /\ PaidStays(j)
  <2>1. UNCHANGED <<invoices, txs>>
    BY DEF Requested, BillEntries, Move, RecordPayment, MatchTx, Cancel,
           WriteOff, CreditNote, CreatePlan, ApproveAll
  <2> QED
    BY <1>0, <2>1 DEF PaidStays, Fresh
<1>3. ASSUME NEW r, Accept(h, r), r.at = "find payment" => r.tx = NoTx,
             r.at \notin {"bank", "save payment"}
      PROVE  Banks(h, j) /\ Alone(h)
  <2>1. Alone(h) /\ job'[h] = r /\ job[h].at = "idle"
    BY <1>1, <1>3, AcceptLocals
  <2>2. Unbanked(job[h], j) = 0 /\ Unbanked(job[h], j)' = 0
    BY <1>3, <2>1 DEF Unbanked
  <2> QED
    BY <1>1, <2>1, <2>2, StayBanks
<1>4. CASE \/ \E ids \in Selections : BillEntries(h, ids)
           \/ \E i \in Invoices :
                  \/ \E amount \in Amounts \union {Outstanding(i)} :
                         RecordPayment(h, i, amount)
                  \/ \E x \in Txs : MatchTx(h, x, i)
                  \/ Cancel(h, i)
                  \/ WriteOff(h, i)
                  \/ \E amount \in Amounts : CreditNote(h, i, amount)
                  \/ \E parts \in Instalments : CreatePlan(h, i, parts)
                  \/ ApproveAll(h, i)
  BY <1>3, <1>4 DEF BillEntries, RecordPayment, MatchTx, Cancel,
     CreditNote, CreatePlan, ApproveAll, WriteOff, Idle
<1>5. ASSUME NEW i \in Invoices, NEW move \in DOMAIN From, Move(h, move, i)
      PROVE  Banks(h, j) /\ Alone(h)
  <2>1. Moving(h, move, i) /\ job[h].at = "idle"
    BY <1>5 DEF Move, Idle
  <2>2. Alone(h) /\ job'[h].at = "save"
    BY <1>1, <2>1, MovingLocals
  <2> QED
    BY <1>1, <2>1, <2>2, LevelBanks DEF UnbankedAt
<1> QED
  BY <1>4, <1>5 DEF Requested

LEMMA InsertBanks ==
    ASSUME IInv, IInv', Grounded, NEW h \in Handlers, Insert(h),
           NEW j \in Invoices, BankedOK(j)
    PROVE  BankedOK(j)'
<1>1. h \in Workers /\ JobsOK /\ Lasting
  BY InsertLasts DEF Workers, IInv
<1>2. SUFFICES Banks(h, j) /\ Alone(h)
  BY <1>1, BanksOK
<1>3. ASSUME NEW i \in Invoices, NEW terms \in Terms,
             CreateFromWip(h, i, terms)
      PROVE  Banks(h, j) /\ Alone(h)
  <2>1. Alone(h) /\ job'[h].at = "mark" /\ job[h].at = "create"
    BY <1>1, <1>3, Locals DEF CreateFromWip, Alone, JobsOK, Request
  <2>2. Unbanked(job[h], j)' = Unbanked(job[h], j)
    BY <2>1 DEF Unbanked
  <2> QED
    BY <1>1, <1>3, <2>1, <2>2, CreatedBanks DEF CreateFromWip
<1>4. ASSUME NEW i \in Invoices, DraftInstalment(h, i)
      PROVE  Banks(h, j) /\ Alone(h)
  <2>1. /\ Alone(h) /\ job'[h].at \in {"split", "save plan"}
        /\ job[h].at = "split"
    BY <1>1, <1>4, Locals DEF DraftInstalment, Alone, JobsOK, Request
  <2>2. Unbanked(job[h], j)' = Unbanked(job[h], j)
    BY <2>1 DEF Unbanked
  <2> QED
    BY <1>1, <1>4, <2>1, <2>2, CreatedBanks DEF DraftInstalment
<1>5. ASSUME NEW x \in Txs, Bank(h, x)
      PROVE  Banks(h, j) /\ Alone(h)
  <2>1. /\ job[h].inv \in Invoices /\ job[h].amount \in Int
        /\ NoInvoice \notin Invoices
    BY <1>1, <1>5, Locals, ReceivablesAssumption DEF Bank, RequestOK
  <2>2. /\ \A y \in Txs \ {x} : txs'[y] = txs[y]
        /\ txs'[x].link = job[h].inv /\ txs'[x].amount = job[h].amount
        /\ txs[x].link = NoInvoice
        /\ invoices' = invoices
    BY <1>5 DEF Bank, IInv, TypeOK, Grounded, TxOK
  <2>3. /\ Alone(h) /\ job[h].at = "bank" /\ job'[h].at = "post receipt"
    BY <1>1, <1>5, GotoLocals DEF Bank
  <2>4. /\ Unbanked(job[h], j)' = 0
        /\ Unbanked(job[h], j) = IF job[h].inv = j THEN job[h].amount ELSE 0
    BY <2>3 DEF Unbanked
  <2>5. Banked(j) \in Int /\ invoices[j].paid \in Int
    BY BankedInt, AccountsTyped
  <2>6. CASE job[h].inv = j
    <3>1. Banked(j)' = Banked(j) + job[h].amount
      BY <2>1, <2>2, <2>6, MoreBanked
    <3>2. Shown(j)' = Shown(j) - job[h].amount /\ Shown(j) \in Int
      BY <2>1, <2>2, <2>5, <3>1 DEF Shown
    <3>3. Shown(j)' - Unbanked(job[h], j)' = Shown(j) - Unbanked(job[h], j)
      BY <2>1, <2>4, <2>6, <3>2
    <3>4. Fresh(j)' => invoices'[j].paid = 0
      BY <2>2 DEF Fresh, BankedOK
    <3> QED
      BY <2>3, <3>3, <3>4 DEF Banks
  <2>7. CASE job[h].inv # j
    <3>1. Banked(j)' = Banked(j)
      BY <2>1, <2>2, <2>7, SameBanked
    <3> QED
      BY <2>1, <2>2, <2>3, <2>4, <2>5, <2>7, <3>1
         DEF Banks, Shown, BankedOK, Fresh
  <2> QED
    BY <2>6, <2>7
<1> QED
  BY <1>3, <1>4, <1>5 DEF Insert

LEMMA LevelAdvance ==
    ASSUME IInv, Grounded, NEW w \in Workers, Advance(w), Lasting,
           \/ MarkInvoiced(w) \/ (\E i \in Invoices : Pick(w, i))
           \/ SaveMove(w) \/ PostSale(w) \/ Certify(w) \/ PostReceipt(w)
           \/ Reclassify(w) \/ FindCancel(w) \/ Reverse(w)
           \/ SaveCancel(w) \/ Expense(w) \/ SaveWriteOff(w)
           \/ PostCredit(w) \/ FindSubmitted(w) \/ SavePlan(w),
           NEW j \in Invoices, BankedOK(j)
    PROVE  Banks(w, j) /\ Alone(w)
<1>1. JobsOK /\ txs' = txs /\ job[w].at \notin UnbankedAt
  BY DEF IInv, MarkInvoiced, Pick, SaveMove, PostSale, Certify, PostReceipt,
     Reclassify, FindCancel, Reverse, SaveCancel, Expense, SaveWriteOff,
     PostCredit, FindSubmitted, SavePlan, UnbankedAt
<1>2. PaidStays(j)
  <2>1. ASSUME NEW stage \in Stage \ {"absent"}, SaveStage(w, stage),
               job[w].inv \in Invoices
        PROVE  invoices'[j].paid = invoices[j].paid
    BY <2>1, StageLasts
  <2>2. CASE SaveMove(w)
    <3>1. job[w].move \in {"submit", "approve", "send"}
          /\ job[w].inv \in Invoices
      BY <1>1, <2>2, Locals DEF SaveMove, RequestOK
    <3>2. To[job[w].move] \in Stage \ {"absent"}
      BY <3>1, ToOK
    <3>3. /\ invoices'[j].paid = invoices[j].paid
          /\ Fresh(j)' => Fresh(j)
      BY <1>1, <2>1, <2>2, <3>1, <3>2, SaveStageOK DEF SaveMove, IInv
    <3> QED
      BY <3>3 DEF PaidStays
  <2>3. CASE SaveCancel(w)
    <3>1. job[w].inv \in Invoices /\ "Cancelled" \in Stage \ {"absent"}
      BY <1>1, <2>3, Locals DEF SaveCancel, RequestOK, Stage
    <3>2. /\ invoices'[j].paid = invoices[j].paid
          /\ Fresh(j)' => Fresh(j)
      BY <1>1, <2>1, <2>3, <3>1, SaveStageOK DEF SaveCancel, IInv
    <3> QED
      BY <3>2 DEF PaidStays
  <2>4. CASE SaveWriteOff(w)
    <3>1. job[w].inv \in Invoices /\ "Written Off" \in Stage \ {"absent"}
      BY <1>1, <2>4, Locals DEF SaveWriteOff, RequestOK, Stage
    <3>2. /\ invoices'[j].paid = invoices[j].paid
          /\ Fresh(j)' => Fresh(j)
      BY <1>1, <2>1, <2>4, <3>1, SaveStageOK DEF SaveWriteOff, IInv
    <3> QED
      BY <3>2 DEF PaidStays
  <2>5. CASE invoices' = invoices
    BY <2>5 DEF PaidStays, Fresh
  <2> QED
    BY <2>2, <2>3, <2>4, <2>5
       DEF MarkInvoiced, Pick, PostSale, Certify, PostReceipt, Reclassify,
           FindCancel, Reverse, Expense, PostCredit, FindSubmitted, SavePlan
<1>3. SUFFICES Alone(w) /\ job'[w].at \notin UnbankedAt
  BY <1>1, <1>2, LevelBanks
<1>4. CASE Done(w) \/ job' = [job EXCEPT ![w] = Idle]
  BY <1>1, <1>4, DoneLocals, IdleLocals DEF Blanked, UnbankedAt
<1>5. ASSUME NEW at, Goto(w, at), at \notin UnbankedAt
      PROVE  Alone(w) /\ job'[w].at \notin UnbankedAt
  <2>1. Alone(w) /\ job'[w].at = at
    BY <1>1, <1>5, GotoLocals
  <2> QED
    BY <1>5, <2>1
<1>6. ASSUME NEW i \in Invoices, NEW move, Moving(w, move, i)
      PROVE  Alone(w) /\ job'[w].at \notin UnbankedAt
  <2>1. Alone(w) /\ job'[w].at = "save"
    BY <1>1, <1>6, MovingLocals
  <2> QED
    BY <2>1 DEF UnbankedAt
<1>7. CASE SaveMove(w) \/ PostSale(w) \/ Reverse(w) \/ Expense(w)
               \/ SaveCancel(w)
  <2>1. Done(w) \/ \E at \in {"post sale", "find", "certify", "save cancel",
                              "save write-off", "split"} : Goto(w, at)
    BY <1>7 DEF SaveMove, PostSale, Reverse, Expense, SaveCancel
  <2> QED
    BY <1>4, <1>5, <2>1 DEF UnbankedAt
<1>8. CASE FindCancel(w) /\ Cancellable(job[w].inv)
  <2>1. PICK at \in {"reverse", "save cancel"} :
            job' = [job EXCEPT ![w].at = at,
                               ![w].stage = invoices[job[w].inv].stage,
                               ![w].paid = invoices[job[w].inv].paid]
    BY <1>8 DEF FindCancel
  <2>2. Alone(w) /\ job'[w].at = at
    BY <1>1, <2>1, Locals DEF Alone, JobsOK, Request
  <2> QED
    BY <2>2 DEF UnbankedAt
<1>9. ASSUME FindSubmitted(w), job' # [job EXCEPT ![w] = Idle]
      PROVE  Alone(w) /\ job'[w].at \notin UnbankedAt
  <2>1. job[w].inv \in Invoices
    BY <1>1, <1>9, Locals DEF FindSubmitted, RequestOK
  <2> QED
    BY <1>6, <1>9, <2>1 DEF FindSubmitted
<1>10. ASSUME NEW i \in Invoices, Pick(w, i)
       PROVE  Alone(w) /\ job'[w].at \notin UnbankedAt
  <2>1. CASE job' = [job EXCEPT ![w] = [job[w] EXCEPT !.todo = @ \ {i}]]
    <3>1. Alone(w) /\ job'[w].at = "pick"
      BY <1>1, <1>10, <2>1, Locals DEF Pick, Alone, JobsOK, Request
    <3> QED
      BY <3>1 DEF UnbankedAt
  <2> QED
    BY <1>4, <1>6, <1>10, <2>1 DEF Pick
<1> QED
  BY <1>4, <1>7, <1>8, <1>9, <1>10
     DEF FindCancel, MarkInvoiced, Certify, SavePlan, SaveWriteOff,
         PostReceipt, Reclassify, PostCredit

LEMMA FeedBanks ==
    ASSUME IInv, Grounded, NEW w \in Workers, PostFeed(w), Lasting,
           NEW j \in Invoices, BankedOK(j)
    PROVE  Banks(w, j) /\ Alone(w)
<1>1. /\ Alone(w) /\ Blanked(w) /\ job[w].at = "post feed"
      /\ invoices' = invoices /\ job[w].tx \in Txs
  BY DoneLocals, Locals DEF IInv, PostFeed, RequestOK
<1>2. \A x \in Txs : /\ txs'[x].link = txs[x].link
                     /\ txs'[x].amount = txs[x].amount
  BY <1>1 DEF PostFeed, IInv, TypeOK
<1>3. Banked(j)' = Banked(j)
  BY <1>2, SameBanked
<1>4. Unbanked(job[w], j) = 0 /\ Unbanked(job[w], j)' = 0
  BY <1>1 DEF Unbanked, Blanked
<1> QED
  BY <1>1, <1>3, <1>4 DEF Banks, Shown, BankedOK, Fresh

LEMMA PaysBank ==
    ASSUME IInv, Grounded, NEW w \in Workers, Advance(w), Lasting,
           FindPayment(w) \/ SavePayment(w) \/ NoAccount(w) \/ SaveMatch(w),
           NEW j \in Invoices, BankedOK(j)
    PROVE  Banks(w, j) /\ Alone(w)
<1>1. /\ JobsOK /\ LocalsOK(w) /\ job[w].inv \in Invoices
      /\ job[w].amount \in Int /\ job[w].paid \in Int
      /\ job[w].amount \in Int /\ -job[w].amount \in Int
      /\ NoInvoice \notin Invoices
  <2>1. JobsOK /\ LocalsOK(w)
    BY DEF IInv, Grounded
  <2>2. /\ job[w].inv \in Invoices /\ job[w].amount \in Int
        /\ job[w].paid \in Int
    BY <2>1, Locals DEF RequestOK, FindPayment, SavePayment, NoAccount,
       SaveMatch
  <2> QED
    BY <2>1, <2>2, ReceivablesAssumption
<1> PICK i \in Invoices : i = job[w].inv
  BY <1>1
<1>2. CASE FindPayment(w)
  <2>1. /\ Alone(w) /\ job[w].at = "find payment"
        /\ job'[w].at = "save payment" /\ job'[w].inv = job[w].inv
        /\ job'[w].tx = job[w].tx /\ job'[w].amount = job[w].amount
    <3> DEFINE r == [job[w] EXCEPT !.at = "save payment",
                                   !.stage = invoices[i].stage,
                                   !.paid = invoices[i].paid]
    <3>1. job' = [job EXCEPT ![w] = r] /\ job[w].at = "find payment"
      BY <1>1, <1>2 DEF FindPayment, JobsOK
    <3>2. /\ r.at = "save payment" /\ r.inv = job[w].inv
          /\ r.tx = job[w].tx /\ r.amount = job[w].amount
      BY <1>1, Locals DEF Request
    <3> HIDE DEF r
    <3> QED
      BY <1>1, <3>1, <3>2 DEF Alone, JobsOK
  <2>2. Unbanked(job[w], j)' = Unbanked(job[w], j)
    BY <2>1 DEF Unbanked
  <2>3. PaidStays(j) /\ txs' = txs
    BY <1>2 DEF FindPayment, PaidStays, Fresh
  <2> QED
    BY <2>1, <2>2, <2>3, StayBanks
<1>3. CASE NoAccount(w)
  <2>1. /\ Alone(w) /\ Blanked(w) /\ job[w].at = "bank"
        /\ PaidStays(j) /\ txs' = txs /\ i \in lost'
    BY <1>1, <1>3, DoneLocals DEF NoAccount, PaidStays, Fresh
  <2>2. CASE j = i
    BY <2>1, <2>2 DEF Banks, PaidStays, BankedOK
  <2>3. CASE j # i
    <3>1. Unbanked(job[w], j)' = Unbanked(job[w], j)
      BY <1>1, <2>1, <2>3 DEF Unbanked, Blanked
    <3> QED
      BY <2>1, <3>1, StayBanks
  <2> QED
    BY <2>2, <2>3
<1>4. CASE SavePayment(w)
  <2>1. /\ \A k \in Invoices \ {i} : invoices'[k] = invoices[k]
        /\ invoices'[i].paid = job[w].paid + job[w].amount
        /\ ~Fresh(i)' /\ txs' = txs
    BY <1>1, <1>4, PaymentLasts DEF SavePayment, Lasting, LocalsOK
  <2>2. /\ Alone(w) /\ job[w].at = "save payment"
        /\ job'[w].inv = i /\ job'[w].amount = job[w].amount
        /\ job'[w].at = IF job[w].tx = NoTx THEN "bank" ELSE "reclassify"
    BY <1>1, <1>4, GotoLocals DEF SavePayment
  <2>3. CASE j # i
    <3>1. Unbanked(job[w], j)' = Unbanked(job[w], j)
      BY <2>2, <2>3 DEF Unbanked
    <3>2. PaidStays(j)
      BY <2>1, <2>3 DEF PaidStays, Fresh
    <3> QED
      BY <2>1, <2>2, <3>1, <3>2, StayBanks
  <2>4. CASE j = i
    <3>1. i \notin raced' => invoices[i].paid = job[w].paid
      BY <1>4, RaceNoted DEF SavePayment
    <3>2. Unbanked(job[w], i)' = Unbanked(job[w], i) + job[w].amount
      <4>1. CASE job[w].tx = NoTx
        <5>1. /\ Unbanked(job[w], i) = 0
              /\ Unbanked(job[w], i)' = job[w].amount
          BY <2>2, <4>1 DEF Unbanked
        <5> QED
          BY <1>1, <5>1
      <4>2. CASE job[w].tx # NoTx
        <5>1. /\ Unbanked(job[w], i) = -job[w].amount
              /\ Unbanked(job[w], i)' = 0
          BY <2>2, <4>2 DEF Unbanked
        <5> QED
          BY <1>1, <5>1
      <4> QED
        BY <4>1, <4>2
    <3>3. Unbanked(job[w], i) \in Int
      BY UnbankedInt
    <3>4. Banked(i)' = Banked(i) /\ Banked(i) \in Int
      BY <2>1, SameBanked, BankedInt
    <3>5. i \notin raced' =>
              Shown(i)' = Shown(i) + job[w].amount /\ Shown(i) \in Int
      BY <1>1, <2>1, <3>1, <3>4 DEF Shown
    <3>6. i \notin raced' => Shown(i)' - Unbanked(job[w], i)'
                                = Shown(i) - Unbanked(job[w], i)
      BY <1>1, <3>2, <3>3, <3>5
    <3> QED
      BY <2>1, <2>2, <2>4, <3>6 DEF Banks
  <2> QED
    BY <2>3, <2>4
<1>5. CASE SaveMatch(w)
  <2>1. job[w].tx \in Txs /\ job[w].tx # NoTx
    BY <1>1, <1>5, Locals, ReceivablesAssumption DEF SaveMatch, RequestOK
  <2> PICK x \in Txs : x = job[w].tx
    BY <2>1
  <2>2. /\ \A y \in Txs \ {x} : txs'[y] = txs[y]
        /\ txs'[x].link = i /\ txs'[x].amount = txs[x].amount
        /\ txs'[x].origin = txs[x].origin
        /\ txs[x].amount \in Int
        /\ invoices' = invoices
    <3>1. txs' = [txs EXCEPT ![x].link = i]
      BY <1>5 DEF SaveMatch
    <3>2. txs \in [Txs -> [amount : Int, link : Invoices \union {NoInvoice},
                          origin : {"absent", "unposted", "feed",
                                    "payment"}]]
      BY DEF IInv, TypeOK
    <3>3. invoices' = invoices
      BY <1>5 DEF SaveMatch
    <3> QED
      BY <3>1, <3>2, <3>3
  <2>3. /\ Alone(w) /\ job[w].at = "link" /\ job'[w].at = "find payment"
        /\ job'[w].inv = i /\ job'[w].tx = x
        /\ job'[w].amount = job[w].amount
        /\ job[w].amount = Magnitude(txs[x].amount)
    BY <1>1, <1>5, GotoLocals DEF SaveMatch, LocalsOK
  <2>4. /\ Unbanked(job[w], j) = 0
        /\ Unbanked(job[w], j)' = IF j = i THEN -job[w].amount ELSE 0
    BY <2>1, <2>3 DEF Unbanked
  <2>5. txs[x].link \in {NoInvoice} \union rematched' /\
            (txs[x].link # NoInvoice => i \in rematched')
    BY <1>5 DEF SaveMatch
  <2>6. Fresh(j)' => invoices'[j].paid = 0
    BY <2>2 DEF Fresh, BankedOK
  <2>7. Banked(j) \in Int /\ invoices[j].paid \in Int
    BY BankedInt, AccountsTyped
  <2>8. CASE j = i /\ txs[x].link = NoInvoice
    <3>1. Banked(j)' = Banked(j) + txs[x].amount
      BY <1>1, <2>2, <2>8, MoreBanked
    <3>2. Shown(j)' = Shown(j) - txs[x].amount /\ Shown(j) \in Int
      BY <2>2, <2>7, <3>1 DEF Shown
    <3>3. txs[x].origin # "payment"
      BY <1>1, <2>8 DEF Grounded, TxOK
    <3>4. MoneyIn(j)' => txs[x].amount >= 0
      BY <2>2, <2>8, <3>3 DEF MoneyIn
    <3>5. MoneyIn(j)' => job[w].amount = txs[x].amount
      <4>1. txs[x].amount >= 0 => Magnitude(txs[x].amount) = txs[x].amount
        BY <2>2 DEF Magnitude
      <4> QED
        BY <2>3, <3>4, <4>1
    <3>6. MoneyIn(j)' => Shown(j)' - Unbanked(job[w], j)'
                            = Shown(j) - Unbanked(job[w], j)
      BY <1>1, <2>2, <2>4, <2>8, <3>2, <3>5
    <3> QED
      BY <2>3, <2>6, <3>6 DEF Banks
  <2>9. CASE j \in rematched'
    BY <2>3, <2>6, <2>9 DEF Banks
  <2>10. CASE j # i /\ txs[x].link # j
    <3>1. Banked(j)' = Banked(j)
      BY <2>2, <2>10, SameBanked
    <3> QED
      BY <2>2, <2>3, <2>4, <2>6, <2>10, <3>1 DEF Banks, Shown
  <2> QED
    BY <1>1, <2>5, <2>8, <2>9, <2>10
<1> QED
  BY <1>2, <1>3, <1>4, <1>5

LEMMA BankOK ==
    ASSUME IInv, IInv', Grounded, [Next]_vars,
           NEW j \in Invoices, BankedOK(j)
    PROVE  BankedOK(j)'
<1>1. Lasting /\ JobsOK /\ NoInvoice \notin Invoices
  BY StepLasts, ReceivablesAssumption DEF IInv
<1>2. ASSUME NEW w \in Workers, Advance(w)
      PROVE  BankedOK(j)'
  <2>1. Banks(w, j) /\ Alone(w)
    BY <1>1, <1>2, LevelAdvance, PaysBank, FeedBanks DEF Advance
  <2> QED
    BY <1>1, <2>1, BanksOK
<1>3. ASSUME NEW w \in Workers, Abort(w)
      PROVE  BankedOK(j)'
  <2> DEFINE r == IF w = Job /\ job[w].todo # {}
                  THEN [Idle EXCEPT !.at = "pick", !.batch = "send",
                                    !.todo = job[w].todo]
                  ELSE Idle
  <2>1. job' = [job EXCEPT ![w] = r] /\ PaidStays(j) /\ txs' = txs
    BY <1>3 DEF Abort, PaidStays, Fresh
  <2>2. r.at \in {"idle", "pick"}
    BY DEF Idle
  <2> HIDE DEF r
  <2>3. Alone(w) /\ job'[w].at \in {"idle", "pick"}
    BY <1>1, <2>1, <2>2 DEF Alone, JobsOK
  <2>4. CASE job[w].inv # j
    <3>1. Unbanked(job[w], j)' = Unbanked(job[w], j)
      BY <2>3, <2>4 DEF Unbanked
    <3> QED
      BY <1>1, <2>1, <2>3, <3>1, StayBanks, BanksOK
  <2>5. CASE job[w].inv = j
    <3>1. j \in lost'
      BY <1>1, <1>3, <2>5 DEF Abort, LeftBy
    <3> QED
      BY <2>1, <3>1 DEF BankedOK, PaidStays
  <2> QED
    BY <2>4, <2>5
<1>4. CASE AutoSend
  <2> DEFINE r == [Idle EXCEPT !.at = "pick", !.batch = "send",
                              !.todo = DueInstalments]
  <2>1. /\ Accept(Job, r) /\ PaidStays(j) /\ txs' = txs /\ Job \in Workers
    BY <1>4 DEF AutoSend, Workers, PaidStays, Fresh
  <2>2. r.at = "pick"
    BY DEF Idle
  <2> HIDE DEF r
  <2>3. Alone(Job) /\ job[Job].at = "idle" /\ job'[Job].at = "pick"
    BY <1>1, <2>1, <2>2, AcceptLocals
  <2>4. Banks(Job, j)
    BY <2>1, <2>3, LevelBanks DEF UnbankedAt
  <2> QED
    BY <1>1, <2>1, <2>3, <2>4, BanksOK
<1>5. CASE Restart
  <2>1. /\ Fresh(j)' => invoices'[j].paid = 0
        /\ UNCHANGED <<invoices, txs>>
    BY <1>5 DEF Restart, Fresh, BankedOK
  <2> SUFFICES ASSUME j \notin raced' \union lost' \union rematched',
                      MoneyIn(j)'
               PROVE  Shown(j)' = SumFunctionOnSet(
                                     [w \in Workers |-> Unbanked(job[w], j)'],
                                     Workers)
    BY <2>1 DEF BankedOK
  <2> DEFINE f == [w \in Workers |-> Unbanked(job[w], j)]
             g == [w \in Workers |-> Unbanked(job[w], j)']
  <2>2. \A w \in Workers : job[w].inv # j /\ job'[w].at = "idle"
    BY <1>1, <1>5 DEF Restart, LeftBy, Idle
  <2>3. \A w \in Workers : f[w] = g[w]
    BY <2>2 DEF Unbanked
  <2>4. SumFunctionOnSet(f, Workers) = SumFunctionOnSet(g, Workers)
    <3> HIDE DEF f, g
    <3> QED
      BY <2>3, WorkersFinite, SumSame
  <2>5. Shown(j)' = Shown(j)
    BY <2>1, SameBanked DEF Shown
  <2>6. Shown(j) = SumFunctionOnSet(f, Workers)
    BY <1>1, MoneyLasts DEF BankedOK, Lasting
  <2> QED
    BY <2>4, <2>5, <2>6
<1>6. CASE UNCHANGED vars
  <2>1. /\ Alone(Job) /\ job' = job /\ PaidStays(j) /\ Job \in Workers
        /\ txs' = txs
    BY <1>6 DEF vars, Alone, PaidStays, Fresh, Workers
  <2>2. Unbanked(job[Job], j)' = Unbanked(job[Job], j)
    BY <2>1 DEF Unbanked
  <2> QED
    BY <1>1, <2>1, <2>2, StayBanks, BanksOK
<1> QED
  BY <1>2, <1>3, <1>4, <1>5, <1>6, OfficeBanks, RequestedBanks, InsertBanks
     DEF Next

LEMMA InitBanked == ASSUME Init, NEW j \in Invoices PROVE BankedOK(j)
<1> DEFINE f == [w \in Workers |-> Unbanked(job[w], j)]
<1>1. \A w \in Workers : f[w] = 0
  BY DEF Init, Idle, Unbanked
<1>2. SumFunctionOnSet(f, Workers) = 0
  <2> HIDE DEF f
  <2> QED
    BY <1>1, WorkersFinite, SumZero
<1>3. invoices[j].paid = 0
  BY DEF Init, Blank
<1>4. Banked(j) = 0
  <2>1. {x \in Txs : txs[x].link = j} = {}
    BY ReceivablesAssumption DEF Init
  <2> QED
    BY <2>1, SumEmpty DEF Banked
<1> QED
  BY <1>2, <1>3, <1>4 DEF BankedOK, Shown

LEMMA BankedFollows ==
    ASSUME IInv, NEW i \in Invoices, BankedOK(i),
           i \notin raced \union lost \union rematched, MoneyIn(i),
           \A w \in Workers : Unbanked(job[w], i) = 0
    PROVE  invoices[i].paid = Banked(i)
<1> DEFINE f == [w \in Workers |-> Unbanked(job[w], i)]
<1>1. SumFunctionOnSet(f, Workers) = 0
  <2>1. \A w \in Workers : f[w] = 0
    OBVIOUS
  <2> HIDE DEF f
  <2> QED
    BY <2>1, WorkersFinite, SumZero
<1>2. Shown(i) = 0
  BY <1>1 DEF BankedOK
<1> QED
  BY <1>2, AccountsTyped, BankedInt DEF Shown

LEMMA PaidFollows ==
    ASSUME IInv, \A i \in Invoices : BankedOK(i)
    PROVE  PaidIsBanked
BY BankedFollows DEF PaidIsBanked, Sound, Quiet, Unbanked

LEMMA OnlyCancelCancels ==
    ASSUME IInv, Grounded, [Next]_vars, NEW i \in Invoices,
           invoices[i].stage # "Cancelled", invoices'[i].stage = "Cancelled"
    PROVE  \E w \in Workers : SaveCancel(w) /\ job[w].inv = i
<1>1. invoices' # invoices
  OBVIOUS
<1>2. ASSUME NEW k \in Invoices, NEW terms, NEW lines, NEW original,
             invoices' = Created(k, terms, lines, original)
      PROVE  FALSE
  BY <1>2 DEF Created, IInv, TypeOK
<1>3. ASSUME NEW w \in Workers, Advance(w)
      PROVE  SaveCancel(w) /\ job[w].inv = i
  <2>1. JobsOK /\ LocalsOK(w)
    BY DEF IInv, Grounded
  <2>2. CASE SaveCancel(w)
    <3>1. job[w].inv \in Invoices /\ "Cancelled" \in Stage \ {"absent"}
      BY <2>1, <2>2, Locals DEF SaveCancel, RequestOK, Stage
    <3> QED
      BY <2>2, <3>1, StageLasts DEF SaveCancel
  <2>3. CASE SaveWriteOff(w)
    <3>1. job[w].inv \in Invoices /\ "Written Off" \in Stage \ {"absent"}
      BY <2>1, <2>3, Locals DEF SaveWriteOff, RequestOK, Stage
    <3>2. /\ \A k \in Invoices \ {job[w].inv} : invoices'[k] = invoices[k]
          /\ invoices'[job[w].inv].stage
                 \in {"Written Off", invoices[job[w].inv].stage}
      BY <2>3, <3>1, StageLasts DEF SaveWriteOff
    <3> QED
      BY <3>1, <3>2
  <2>4. CASE SaveMove(w)
    <3>1. /\ job[w].inv \in Invoices
          /\ job[w].move \in {"submit", "approve", "send"}
      BY <2>1, <2>4, Locals DEF SaveMove, RequestOK
    <3>2. To[job[w].move] \in Stage \ {"absent", "Cancelled"}
      BY <3>1, FromOK, ToOK
    <3>3. /\ \A k \in Invoices \ {job[w].inv} : invoices'[k] = invoices[k]
          /\ invoices'[job[w].inv].stage
                 \in {To[job[w].move], invoices[job[w].inv].stage}
      BY <2>4, <3>1, <3>2, StageLasts DEF SaveMove
    <3> QED
      BY <3>1, <3>2, <3>3
  <2>5. CASE SavePayment(w)
    BY <2>5, PaymentLasts
  <2> QED
    BY <1>1, <1>3, <2>2, <2>3, <2>4, <2>5
       DEF Advance, MarkInvoiced, Pick, PostSale, Certify, FindPayment,
           NoAccount, PostReceipt, SaveMatch, Reclassify, FindCancel, Reverse,
           Expense, PostCredit, FindSubmitted, SavePlan, PostFeed
<1>4. ASSUME Office PROVE FALSE
  BY <1>1, <1>2, <1>4
     DEF Office, CreateInvoice, ReviewEntry, ComesDue
<1>5. ASSUME NEW h \in Handlers, Requested(h) PROVE FALSE
  BY <1>1, <1>5 DEF Requested, BillEntries, ImportTx, Move, RecordPayment,
     MatchTx, Cancel, WriteOff, CreditNote, CreatePlan, ApproveAll
<1>6. ASSUME NEW h \in Handlers, Insert(h) PROVE FALSE
  <2>1. ASSUME NEW k \in Invoices, NEW terms, CreateFromWip(h, k, terms)
        PROVE  FALSE
    BY <1>2, <2>1 DEF CreateFromWip
  <2>2. ASSUME NEW k \in Invoices, DraftInstalment(h, k) PROVE FALSE
    BY <1>2, <2>2 DEF DraftInstalment
  <2>3. ASSUME NEW x \in Txs, Bank(h, x) PROVE FALSE
    BY <1>1, <2>3 DEF Bank
  <2> QED
    BY <1>6, <2>1, <2>2, <2>3 DEF Insert
<1> QED
  BY <1>1, <1>3, <1>4, <1>5, <1>6
     DEF Next, Abort, AutoSend, Restart, vars

\* The step of CancelledUnpaid.
LEMMA CancelsUnpaid ==
    ASSUME IInv, Grounded, [Next]_vars, NEW i \in Invoices, BankedOK(i),
           invoices[i].stage # "Cancelled", invoices'[i].stage = "Cancelled",
           i \notin raced' \union lost \union rematched, MoneyIn(i),
           \A v, w \in Workers : job[v].inv = i /\ job[w].inv = i => v = w
    PROVE  Banked(i) = 0
<1>1. PICK w \in Workers : SaveCancel(w) /\ job[w].inv = i
  BY OnlyCancelCancels
<1>2. /\ LocalsOK(w) /\ job[w].at = "save cancel"
      /\ raced \subseteq raced' /\ invoices[i].paid = job[w].paid
  BY <1>1, RaceNoted DEF Grounded, SaveCancel
<1>3. \A v \in Workers : Unbanked(job[v], i) = 0
  BY <1>1, <1>2 DEF Unbanked
<1>4. invoices[i].paid = Banked(i) /\ i \notin raced
  BY <1>2, <1>3, BankedFollows
<1>5. i \in raced \/ job[w].paid = 0
  BY <1>1, <1>2 DEF LocalsOK
<1> QED
  BY <1>2, <1>4, <1>5

-----------------------------------------------------------------------------
(* Where a request can be after a step, and which step took it there *)

LEMMA Onward ==
    ASSUME IInv, NEW w \in Workers, Advance(w)
    PROVE  /\ Alone(w)
           /\ \/ job'[w].at \in {"idle", "pick", "save"}
              \/ job'[w].at = "post sale" /\ SaveMove(w)
                     /\ job[w].move = "send"
              \/ job'[w].at = "find" /\ SaveMove(w)
              \/ job'[w].at = "certify" /\ PostSale(w)
              \/ job'[w].at = "save payment" /\ FindPayment(w)
              \/ job'[w].at \in {"bank", "reclassify"} /\ SavePayment(w)
              \/ job'[w].at = "find payment" /\ SaveMatch(w)
              \/ job'[w].at \in {"reverse", "save cancel"} /\ FindCancel(w)
              \/ job'[w].at = "save cancel" /\ Reverse(w)
              \/ job'[w].at = "split" /\ SaveCancel(w)
              \/ job'[w].at = "save write-off" /\ Expense(w)
<1> DEFINE Goal ==
        /\ Alone(w)
        /\ \/ job'[w].at \in {"idle", "pick", "save"}
           \/ job'[w].at = "post sale" /\ SaveMove(w) /\ job[w].move = "send"
           \/ job'[w].at = "find" /\ SaveMove(w)
           \/ job'[w].at = "certify" /\ PostSale(w)
           \/ job'[w].at = "save payment" /\ FindPayment(w)
           \/ job'[w].at \in {"bank", "reclassify"} /\ SavePayment(w)
           \/ job'[w].at = "find payment" /\ SaveMatch(w)
           \/ job'[w].at \in {"reverse", "save cancel"} /\ FindCancel(w)
           \/ job'[w].at = "save cancel" /\ Reverse(w)
           \/ job'[w].at = "split" /\ SaveCancel(w)
           \/ job'[w].at = "save write-off" /\ Expense(w)
<1>1. JobsOK
  BY DEF IInv
<1>2. CASE Done(w) \/ job' = [job EXCEPT ![w] = Idle]
  BY <1>1, <1>2, DoneLocals, IdleLocals DEF Blanked
<1>3. ASSUME NEW at, Goto(w, at)
      PROVE  Alone(w) /\ job'[w].at = at
  BY <1>1, <1>3, GotoLocals
<1>4. ASSUME NEW i \in Invoices, NEW move, Moving(w, move, i)
      PROVE  Goal
  BY <1>1, <1>4, MovingLocals
<1>5. CASE SaveMove(w)
  <2>1. CASE Goto(w, "post sale") /\ job[w].move = "send"
    BY <1>3, <1>5, <2>1
  <2>2. CASE Goto(w, "find")
    BY <1>3, <1>5, <2>2
  <2> QED
    BY <1>2, <1>5, <2>1, <2>2 DEF SaveMove
<1>6. CASE PostSale(w)
  <2>1. CASE Goto(w, "certify")
    BY <1>3, <1>6, <2>1
  <2> QED
    BY <1>2, <1>6, <2>1 DEF PostSale
<1>7. CASE SavePayment(w)
  <2>1. Goto(w, IF job[w].tx = NoTx THEN "bank" ELSE "reclassify")
    BY <1>7 DEF SavePayment
  <2> QED
    BY <1>3, <1>7, <2>1
<1>8. CASE SaveMatch(w)
  <2>1. Goto(w, "find payment")
    BY <1>8 DEF SaveMatch
  <2> QED
    BY <1>3, <1>8, <2>1
<1>9. CASE Reverse(w)
  <2>1. Goto(w, "save cancel")
    BY <1>9 DEF Reverse
  <2> QED
    BY <1>3, <1>9, <2>1
<1>10. CASE SaveCancel(w)
  <2>1. CASE Goto(w, "split")
    BY <1>3, <1>10, <2>1
  <2> QED
    BY <1>2, <1>10, <2>1 DEF SaveCancel
<1>11. CASE Expense(w)
  <2>1. Goto(w, "save write-off")
    BY <1>11 DEF Expense
  <2> QED
    BY <1>3, <1>11, <2>1
<1>12. ASSUME NEW r, job' = [job EXCEPT ![w] = r]
       PROVE  Alone(w) /\ job'[w] = r
  BY <1>1, <1>12 DEF Alone, JobsOK
<1>13. CASE FindPayment(w)
  <2> DEFINE r == [job[w] EXCEPT !.at = "save payment",
                                 !.stage = invoices[job[w].inv].stage,
                                 !.paid = invoices[job[w].inv].paid]
  <2>1. job' = [job EXCEPT ![w] = r]
    BY <1>1, <1>13 DEF FindPayment, JobsOK
  <2>2. r.at = "save payment"
    BY <1>1, Locals DEF Request
  <2> HIDE DEF r
  <2> QED
    BY <1>12, <1>13, <2>1, <2>2
<1>14. CASE FindCancel(w) /\ Cancellable(job[w].inv)
  <2>1. PICK at \in {"reverse", "save cancel"} :
            job' = [job EXCEPT ![w].at = at,
                               ![w].stage = invoices[job[w].inv].stage,
                               ![w].paid = invoices[job[w].inv].paid]
    BY <1>14 DEF FindCancel
  <2>2. Alone(w) /\ job'[w].at = at
    BY <1>1, <2>1, Locals DEF Alone, JobsOK, Request
  <2> QED
    BY <1>14, <2>2
<1>15. ASSUME FindSubmitted(w), job' # [job EXCEPT ![w] = Idle]
       PROVE  Goal
  <2>1. job[w].inv \in Invoices
    BY <1>1, <1>15, Locals DEF FindSubmitted, RequestOK
  <2> QED
    BY <1>4, <1>15, <2>1 DEF FindSubmitted
<1>16. ASSUME NEW i \in Invoices, Pick(w, i)
       PROVE  Goal
  <2>1. CASE job' = [job EXCEPT ![w] = [job[w] EXCEPT !.todo = @ \ {i}]]
    <3>1. Alone(w) /\ job'[w].at = "pick"
      BY <1>1, <1>16, <2>1, Locals DEF Pick, Alone, JobsOK, Request
    <3> QED
      BY <3>1
  <2> QED
    BY <1>2, <1>4, <1>16, <2>1 DEF Pick
<1>17. CASE MarkInvoiced(w) \/ Certify(w) \/ NoAccount(w) \/ PostReceipt(w)
                \/ PostFeed(w) \/ Reclassify(w) \/ SaveWriteOff(w)
                \/ PostCredit(w)
                \/ SavePlan(w)
  BY <1>2, <1>17 DEF MarkInvoiced, Certify, NoAccount, PostReceipt,
     PostFeed, Reclassify, SaveWriteOff, PostCredit, SavePlan
<1>18. CASE FindCancel(w) /\ ~Cancellable(job[w].inv)
  BY <1>2, <1>18 DEF FindCancel
<1>19. CASE FindSubmitted(w)
  BY <1>2, <1>15, <1>19
<1> QED
  BY <1>5, <1>6, <1>7, <1>8, <1>9, <1>10, <1>11, <1>13, <1>14, <1>16,
     <1>17, <1>18, <1>19 DEF Advance

(***************************************************************************)
(* Payment plans: what a request has drafted and has still to draft makes  *)
(* up the invoice that it has cancelled.                                   *)
(***************************************************************************)
Owed(S) == SumFunctionOnSet([j \in Invoices |-> Payable(j)], S)
BeforeSplit == {"find cancel", "reverse", "save cancel"}
SplitAt == BeforeSplit \union {"split", "save plan"}
SplitOK(w) == LET r == job[w] IN
    /\ \A j \in r.made : ~Fresh(j)
    /\ r.at = "save plan" => r.parts = <<>>
    /\ r.parts # <<>> \/ r.made # {} =>
           /\ r.at \in SplitAt
           /\ r.at \in BeforeSplit => r.made = {}
           /\ \/ r.inv \in raced
              \/ Owed(r.made) + Total(r.parts) = Payable(r.inv)
              \/ r.at = "find cancel" /\ invoices[r.inv].paid > 0
PlannedOK(i) == plans[i] # {} =>
    /\ ~Fresh(i) /\ \A j \in plans[i] : ~Fresh(j)
    /\ i \notin raced => Owed(plans[i]) = Payable(i)
Splits == \A w \in Workers : SplitOK(w)

\* What was paid of an invoice is not all given back, unless two writes race.
Growing == \A i \in Invoices :
    ~Fresh(i) /\ i \notin raced' /\ invoices[i].paid > 0 =>
        invoices'[i].paid > 0

LEMMA OwedInt ==
    ASSUME IInv, NEW S \in SUBSET Invoices
    PROVE  Owed(S) \in Int
<1> DEFINE f == [j \in Invoices |-> Payable(j)]
<1>1. \A j \in S : f[j] \in Int
  BY AccountsTyped
<1>2. IsFiniteSet(S)
  BY ReceivablesAssumption, FS_Subset
<1> HIDE DEF f
<1>3. SumFunctionOnSet(f, S) \in Int
  BY <1>1, <1>2, SumInt
<1> QED
  BY <1>3 DEF Owed, f

LEMMA OwedStays ==
    ASSUME Lasting, NEW S \in SUBSET Invoices, \A j \in S : ~Fresh(j)
    PROVE  Owed(S)' = Owed(S)
<1> DEFINE f == [j \in Invoices |-> Payable(j)]
           g == [j \in Invoices |-> Payable(j)']
<1>1. \A j \in S : f[j] = g[j]
  BY DEF Lasting
<1>2. IsFiniteSet(S)
  BY ReceivablesAssumption, FS_Subset
<1>3. SumFunctionOnSet(f, S) = SumFunctionOnSet(g, S)
  <2> HIDE DEF f, g
  <2> QED
    BY <1>1, <1>2, SumSame
<1> QED
  BY <1>3 DEF Owed

LEMMA TotalNat ==
    ASSUME NEW parts \in Seq(Nat)
    PROVE  Total(parts) \in Nat
<1>1. /\ IsFiniteSet(DOMAIN parts)
      /\ \A k \in DOMAIN parts : parts[k] \in Nat
  <2>1. DOMAIN parts = 1 .. Len(parts) /\ Len(parts) \in Int
    OBVIOUS
  <2> QED
    BY <2>1, FS_Interval
<1>2. SumFunctionOnSet(parts, DOMAIN parts) \in Nat
  BY <1>1, SumNat
<1> QED
  BY <1>2 DEF Total

LEMMA TotalEmpty == Total(<<>>) = 0
<1>1. DOMAIN <<>> = {}
  OBVIOUS
<1>2. SumFunctionOnSet(<<>>, {}) = 0
  BY SumEmpty
<1> QED
  BY <1>1, <1>2 DEF Total

LEMMA TotalTail ==
    ASSUME NEW parts \in Seq(Nat), parts # <<>>
    PROVE  Total(parts) = Head(parts) + Total(Tail(parts))
<1>1. parts \in Seq(Int)
  OBVIOUS
<1> QED
  BY <1>1, SumTail DEF Total

\* A request that is not at a plan carries none, ...
LEMMA NoSplit ==
    ASSUME NEW w \in Workers, SplitOK(w), job[w].at \notin SplitAt
    PROVE  job[w].parts = <<>> /\ job[w].made = {}
BY DEF SplitOK

LEMMA NoneOK ==
    ASSUME NEW w \in Workers, job'[w].parts = <<>>, job'[w].made = {}
    PROVE  SplitOK(w)'
BY DEF SplitOK

\* ... and one that is keeps it.  It checks that nothing is paid before it
\* cancels the invoice.
Ripens(w) ==
    /\ job'[w].made = job[w].made /\ job'[w].parts = job[w].parts
    /\ job'[w].inv = job[w].inv /\ job'[w].at \in SplitAt
    /\ job'[w].at = "save plan" => job[w].at = "save plan"
    /\ job'[w].at \in BeforeSplit => job[w].at \in BeforeSplit
    /\ job'[w].at = "find cancel" => job[w].at = "find cancel"
    /\ \/ job'[w].at = job[w].at
       \/ job[w].at # "find cancel"
       \/ invoices[job[w].inv].paid <= 0

LEMMA SplitStays ==
    ASSUME IInv, IInv', Grounded, Lasting, Growing, NEW w \in Workers,
           SplitOK(w), Ripens(w)
    PROVE  SplitOK(w)'
<1>1. CASE job[w].at \notin SplitAt
  BY <1>1, NoSplit, NoneOK DEF Ripens
<1>2. CASE job[w].at \in SplitAt
  <2>1. /\ job[w].made \in SUBSET Invoices /\ job[w].parts \in Seq(Nat)
        /\ job[w].inv \in Invoices
    BY <1>2, Locals DEF IInv, RequestOK, SplitAt, BeforeSplit
  <2>2. PICK S \in SUBSET Invoices : S = job[w].made
    BY <2>1
  <2>3. PICK i \in Invoices : i = job[w].inv
    BY <2>1
  <2>4. \A j \in S : ~Fresh(j) /\ ~Fresh(j)'
    BY <2>2 DEF SplitOK, Lasting
  <2>5. PICK owed \in Int : owed = Owed(S) /\ owed = Owed(S)'
    BY <2>4, OwedStays, OwedInt
  <2>6. PICK total \in Int : total = Total(job[w].parts)
    <3>1. Total(job[w].parts) \in Nat
      BY <2>1, TotalNat
    <3> QED
      BY <3>1
  <2>7. ~Fresh(i) /\ Payable(i)' = Payable(i)
    BY <2>3 DEF Grounded, LocalsOK, Lasting
  <2>8. PICK p \in Int : p = Payable(i) /\ p = Payable(i)'
    BY <2>7, AccountsTyped
  <2>9. PICK paid \in Int : paid = invoices[i].paid
    BY AccountsTyped
  <2>10. PICK later \in Int : later = invoices'[i].paid
    <3>1. invoices'[i].paid \in Int
      BY TypedInvoice DEF IInv, TypeOK, Invoice
    <3> QED
      BY <3>1
  <2>11. ASSUME job[w].parts # <<>> \/ job[w].made # {}, i \notin raced'
         PROVE  \/ owed + total = p
                \/ job'[w].at = "find cancel" /\ later > 0
    <3>1. i \notin raced /\ (paid > 0 => later > 0)
      BY <2>7, <2>9, <2>10, <2>11 DEF Lasting, Growing
    <3>2. owed + total = p \/ (job[w].at = "find cancel" /\ paid > 0)
      <4>1. \/ job[w].inv \in raced
            \/ Owed(job[w].made) + Total(job[w].parts) = Payable(job[w].inv)
            \/ job[w].at = "find cancel" /\ invoices[job[w].inv].paid > 0
        BY <2>11 DEF SplitOK
      <4> QED
        BY <2>2, <2>3, <2>5, <2>6, <2>8, <2>9, <3>1, <4>1
    <3>3. CASE job[w].at = "find cancel" /\ job'[w].at = "find cancel"
      BY <3>1, <3>2, <3>3
    <3>4. CASE job[w].at = "find cancel" /\ job'[w].at # "find cancel"
      <4>1. paid <= 0
        BY <2>3, <2>9, <3>4 DEF Ripens
      <4>2. ~(paid > 0)
        BY <4>1
      <4> QED
        BY <3>2, <4>2
    <3>5. CASE job[w].at # "find cancel"
      BY <3>2, <3>5
    <3> QED
      BY <3>3, <3>4, <3>5
  <2>12. \A j \in job'[w].made : ~Fresh(j)'
    BY <2>2, <2>4 DEF Ripens
  <2>13. job'[w].at = "save plan" => job'[w].parts = <<>>
    BY DEF SplitOK, Ripens
  <2>14. ASSUME job'[w].parts # <<>> \/ job'[w].made # {}
         PROVE  /\ job'[w].at \in BeforeSplit => job'[w].made = {}
                /\ \/ job'[w].inv \in raced'
                   \/ owed + total = p
                   \/ job'[w].at = "find cancel" /\ later > 0
    <3>1. job'[w].at \in BeforeSplit => job'[w].made = {}
      BY <2>14 DEF SplitOK, Ripens
    <3>2. job[w].parts # <<>> \/ job[w].made # {}
      BY <2>14 DEF Ripens
    <3> QED
      BY <2>3, <2>11, <3>1, <3>2 DEF Ripens
  <2>15. /\ owed = Owed(job[w].made)' /\ total = Total(job[w].parts)'
         /\ p = Payable(job[w].inv)' /\ later = invoices'[job'[w].inv].paid
    BY <2>2, <2>3, <2>5, <2>6, <2>8, <2>10
       DEF Owed, Total, Payable, Ripens
  <2> QED
    BY <2>12, <2>13, <2>14, <2>15 DEF SplitOK, Ripens
<1> QED
  BY <1>1, <1>2

LEMMA SaveGrows ==
    ASSUME IInv, NEW w \in Workers, NEW stage \in Stage \ {"absent"},
           job[w].inv \in Invoices, SaveStage(w, stage)
    PROVE  Growing
<1>1. \A i \in Invoices : invoices'[i].paid = invoices[i].paid
  BY StageLasts
<1> QED
  BY <1>1 DEF Growing

LEMMA CreateGrows ==
    ASSUME IInv, NEW k \in Invoices, NEW terms, NEW lines, NEW original,
           Fresh(k), invoices' = Created(k, terms, lines, original)
    PROVE  Growing
<1>1. ASSUME NEW i \in Invoices, ~Fresh(i)
      PROVE  invoices'[i] = invoices[i]
  BY <1>1, CreatedLasts DEF IInv
<1> QED
  BY <1>1 DEF Growing

LEMMA StepGrows == ASSUME IInv, Grounded, [Next]_vars PROVE Growing
<1>1. JobsOK
  BY DEF IInv
<1>3. CASE invoices' = invoices
  BY <1>3 DEF Growing
<1>4. ASSUME NEW w \in Workers, Advance(w)
      PROVE  Growing
  <2>1. CASE SaveMove(w)
    <3>1. /\ job[w].inv \in Invoices
          /\ job[w].move \in {"submit", "approve", "send"}
      BY <1>1, <2>1, Locals DEF SaveMove, RequestOK
    <3>2. To[job[w].move] \in Stage \ {"absent"}
      BY <3>1, FromOK DEF Stage
    <3> QED
      BY <2>1, <3>1, <3>2, SaveGrows DEF SaveMove
  <2>2. CASE SaveCancel(w) \/ SaveWriteOff(w)
    <3>1. /\ job[w].inv \in Invoices
          /\ {"Cancelled", "Written Off"} \subseteq Stage \ {"absent"}
      BY <1>1, <2>2, Locals DEF SaveCancel, SaveWriteOff, RequestOK, Stage
    <3> QED
      BY <2>2, <3>1, SaveGrows DEF SaveCancel, SaveWriteOff
  <2>3. CASE SavePayment(w)
    <3>1. ASSUME NEW i \in Invoices, i \notin raced', ~Fresh(i),
                 invoices[i].paid > 0
          PROVE  invoices'[i].paid > 0
      <4>1. CASE i = job[w].inv
        <5>1. /\ invoices[i].paid = job[w].paid
              /\ invoices'[i].paid = job[w].paid + job[w].amount
              /\ i \notin raced
          BY <2>3, <3>1, <4>1, PaymentLasts, RaceNoted DEF SavePayment
        <5>2. PICK paid \in Int, amount \in Int, payable \in Int :
                  paid = job[w].paid /\ amount = job[w].amount
                      /\ payable = Payable(i)
          BY <1>1, Locals, AccountsTyped
        <5>3. amount >= 0 \/ paid + amount = payable
          BY <2>3, <4>1, <5>1, <5>2 DEF Grounded, LocalsOK, SavePayment
        <5>4. payable > 0
          BY <3>1, <5>2 DEF Grounded, InvoiceOK
        <5>5. paid > 0 /\ invoices'[i].paid = paid + amount
          BY <3>1, <5>1, <5>2
        <5> QED
          BY <5>3, <5>4, <5>5
      <4>2. CASE i # job[w].inv
        BY <2>3, <3>1, <4>2, PaymentLasts
      <4> QED
        BY <4>1, <4>2
    <3> QED
      BY <3>1 DEF Growing
  <2> QED
    BY <1>3, <1>4, <2>1, <2>2, <2>3
       DEF Advance, MarkInvoiced, Pick, PostSale, Certify, FindPayment,
           NoAccount, PostReceipt, SaveMatch, Reclassify, FindCancel, Reverse,
           Expense, PostCredit, FindSubmitted, SavePlan, PostFeed
<1>5. CASE Office
  BY <1>3, <1>5, CreateGrows
     DEF Office, CreateInvoice, ReviewEntry, ComesDue
<1>6. ASSUME NEW h \in Handlers, Requested(h) PROVE Growing
  BY <1>3, <1>6 DEF Requested, BillEntries, ImportTx, Move, RecordPayment,
     MatchTx, Cancel, WriteOff, CreditNote, CreatePlan, ApproveAll
<1>7. ASSUME NEW h \in Handlers, Insert(h) PROVE Growing
  BY <1>3, <1>7, CreateGrows DEF Insert, CreateFromWip, DraftInstalment, Bank
<1> QED
  BY <1>3, <1>4, <1>5, <1>6, <1>7 DEF Next, Abort, AutoSend, Restart, vars

-----------------------------------------------------------------------------
LEMMA SplitsIf ==
    ASSUME IInv, IInv', Grounded, Lasting, Growing, Splits,
           NEW w \in Workers, Alone(w), SplitOK(w)'
    PROVE  Splits'
<1>1. ASSUME NEW v \in Workers \ {w} PROVE SplitOK(v)'
  <2>1. SplitOK(v) /\ job'[v] = job[v]
    BY DEF Splits, Alone
  <2>2. CASE job[v].at \in SplitAt
    BY <2>1, <2>2, SplitStays DEF Ripens
  <2>3. CASE job[v].at \notin SplitAt
    BY <2>1, <2>3, NoSplit, NoneOK
  <2> QED
    BY <2>2, <2>3
<1> QED
  BY <1>1 DEF Splits

LEMMA PlannedStays ==
    ASSUME IInv, Lasting, NEW i \in Invoices, plans'[i] = plans[i],
           PlannedOK(i)
    PROVE  PlannedOK(i)'
<1>1. CASE plans[i] = {}
  BY <1>1 DEF PlannedOK
<1>2. CASE plans[i] # {}
  <2>1. PICK S \in SUBSET Invoices : S = plans[i]
    BY DEF IInv, TypeOK
  <2>2. /\ ~Fresh(i) /\ ~Fresh(i)' /\ Payable(i)' = Payable(i)
        /\ \A j \in S : ~Fresh(j) /\ ~Fresh(j)'
    BY <1>2, <2>1 DEF PlannedOK, Lasting
  <2>3. Owed(S)' = Owed(S)
    BY <2>2, OwedStays
  <2>4. i \notin raced' => Owed(S)' = Payable(i)'
    BY <1>2, <2>1, <2>2, <2>3 DEF PlannedOK, Lasting
  <2>5. Owed(plans[i])' = Owed(S)'
    BY <2>1 DEF Owed
  <2> QED
    BY <2>1, <2>2, <2>4, <2>5 DEF PlannedOK
<1> QED
  BY <1>1, <1>2

LEMMA RequestedSplits ==
    ASSUME IInv, IInv', Grounded, Splits, NEW h \in Handlers, Requested(h)
    PROVE  Splits'
<1>1. /\ h \in Workers /\ JobsOK /\ Lasting /\ Growing
      /\ invoices' = invoices
  <2>1. invoices' = invoices
    BY DEF Requested, BillEntries, ImportTx, Move, RecordPayment, MatchTx,
           Cancel, WriteOff, CreditNote, CreatePlan, ApproveAll
  <2> QED
    BY <2>1, RequestedLasts, StepGrows DEF Workers, IInv, Next
<1>2. ASSUME NEW r, Accept(h, r), r.parts = <<>>, r.made = {}
      PROVE  Splits'
  <2>1. Alone(h) /\ job'[h] = r
    BY <1>1, <1>2, AcceptLocals
  <2>2. SplitOK(h)'
    BY <1>1, <1>2, <2>1, NoneOK
  <2> QED
    BY <1>1, <2>1, <2>2, SplitsIf
<1>3. CASE \/ \E ids \in Selections : BillEntries(h, ids)
           \/ \E x \in Txs, amount \in FeedAmounts : ImportTx(h, x, amount)
           \/ \E i \in Invoices :
                  \/ \E amount \in Amounts \union {Outstanding(i)} :
                         RecordPayment(h, i, amount)
                  \/ \E x \in Txs : MatchTx(h, x, i)
                  \/ Cancel(h, i)
                  \/ WriteOff(h, i)
                  \/ \E amount \in Amounts : CreditNote(h, i, amount)
                  \/ ApproveAll(h, i)
  BY <1>2, <1>3 DEF BillEntries, ImportTx, RecordPayment, MatchTx, Cancel,
     WriteOff,
     CreditNote, ApproveAll, Idle
<1>4. ASSUME NEW i \in Invoices, NEW move \in DOMAIN From, Move(h, move, i)
      PROVE  Splits'
  <2>1. /\ Moving(h, move, i) /\ job[h].parts = <<>> /\ job[h].made = {}
    BY <1>4 DEF Move, Idle
  <2>2. Alone(h) /\ SplitOK(h)'
    BY <1>1, <2>1, MovingLocals, NoneOK
  <2> QED
    BY <1>1, <2>2, SplitsIf
<1>5. ASSUME NEW i \in Invoices, NEW parts \in Instalments,
             CreatePlan(h, i, parts)
      PROVE  Splits'
  <2> DEFINE r == [Idle EXCEPT !.at = "find cancel", !.inv = i,
                               !.parts = parts]
  <2>1. Accept(h, r) /\ Total(parts) = Outstanding(i)
    BY <1>5 DEF CreatePlan, CoversDebt
  <2>2. /\ r.at = "find cancel" /\ r.inv = i /\ r.parts = parts
        /\ r.made = {}
    BY DEF Idle
  <2> HIDE DEF r
  <2>3. Alone(h) /\ job'[h] = r
    BY <1>1, <2>1, AcceptLocals
  <2>4. Owed({}) = 0
    BY SumEmpty DEF Owed
  <2>5. PICK p \in Int : p = Payable(i)
    BY AccountsTyped
  <2>6. PICK paid \in Int : paid = invoices[i].paid
    BY AccountsTyped
  <2>7. Total(parts) = p - paid
    BY <2>1, <2>5, <2>6 DEF Outstanding
  <2>8. PICK total \in Int : total = Total(parts) /\ total = p - paid
    BY <2>5, <2>6, <2>7
  <2>9. i \in raced \/ paid >= 0
    BY <2>6 DEF Grounded, InvoiceOK
  <2>10. \/ i \in raced'
         \/ Owed({}) + Total(parts) = Payable(i)
         \/ invoices[i].paid > 0
    <3>1. i \in raced \/ paid > 0 \/ 0 + total = p
      BY <2>8, <2>9
    <3> QED
      BY <1>1, <2>4, <2>5, <2>6, <2>8, <3>1 DEF Lasting
  <2>11. \/ i \in raced'
         \/ (Owed({}) + Total(parts) = Payable(i))'
         \/ invoices'[i].paid > 0
    BY <1>1, <2>10 DEF Owed, Payable
  <2>12. /\ job'[h].made = {} /\ job'[h].parts = parts /\ job'[h].inv = i
         /\ job'[h].at = "find cancel"
    BY <2>2, <2>3
  <2>13. SplitOK(h)'
    BY <2>11, <2>12 DEF SplitOK, SplitAt, BeforeSplit
  <2> QED
    BY <1>1, <2>3, <2>13, SplitsIf
<1> QED
  BY <1>3, <1>4, <1>5 DEF Requested

\* An instalment that is drafted leaves so much less to draft.
LEMMA DraftSplits ==
    ASSUME IInv, IInv', Grounded, Lasting, Growing, Splits,
           NEW h \in Workers, NEW i \in Invoices, DraftInstalment(h, i)
    PROVE  SplitOK(h)' /\ Alone(h)
<1>1. /\ JobsOK /\ job[h].at = "split" /\ job[h].parts # <<>> /\ SplitOK(h)
      /\ LocalsOK(h) /\ Fresh(i)
      /\ job[h].parts \in Seq(Nat) /\ job[h].made \in SUBSET Invoices
      /\ job[h].inv \in Invoices
      /\ invoices' = Created(i, [net |-> Head(job[h].parts), vat |-> 0,
                                 wht |-> 0], <<>>, job[h].inv)
      /\ raced' = raced
  BY Locals
     DEF IInv, Grounded, Splits, DraftInstalment, RequestOK, provisos
<1>2. PICK parts \in Seq(Nat) : parts = job[h].parts
  BY <1>1
<1>3. PICK made \in SUBSET Invoices : made = job[h].made
  BY <1>1
<1>4. PICK k \in Invoices : k = job[h].inv
  BY <1>1
<1>5. /\ Alone(h) /\ job'[h].parts = Tail(parts)
      /\ job'[h].made = made \union {i} /\ job'[h].inv = k
      /\ job'[h].at = IF Len(parts) = 1 THEN "save plan" ELSE "split"
  <2> DEFINE r == [job[h] EXCEPT !.parts = Tail(@), !.made = @ \union {i},
                       !.at = IF Len(job[h].parts) = 1
                              THEN "save plan" ELSE "split"]
  <2>1. job' = [job EXCEPT ![h] = r]
    BY <1>1 DEF DraftInstalment, JobsOK
  <2>2. job[h] \in Request
    BY <1>1, Locals
  <2>3. /\ r.parts = Tail(job[h].parts) /\ r.made = job[h].made \union {i}
        /\ r.inv = job[h].inv
        /\ r.at = IF Len(job[h].parts) = 1 THEN "save plan" ELSE "split"
    BY <2>2 DEF Request
  <2>4. job'[h] = r /\ Alone(h)
    BY <1>1, <2>1 DEF Alone, JobsOK
  <2> HIDE DEF r
  <2> QED
    BY <1>2, <1>3, <1>4, <2>3, <2>4
<1>6. /\ \A j \in made : ~Fresh(j) /\ ~Fresh(j)'
      /\ i \notin made /\ ~Fresh(k) /\ Payable(k)' = Payable(k)
      /\ ~Fresh(i)'
  <2>1. \A j \in made : ~Fresh(j)
    BY <1>1, <1>3 DEF SplitOK
  <2>2. ~Fresh(k)
    BY <1>1, <1>4 DEF LocalsOK
  <2>3. invoices'[i].stage = "Draft"
    BY <1>1 DEF Created, IInv, TypeOK
  <2> QED
    BY <1>1, <2>1, <2>2, <2>3 DEF Lasting, Fresh
<1>7. PICK head \in Nat : head = Head(parts) /\ Payable(i)' = head
  <2>1. Head(parts) \in Nat
    BY <1>1, <1>2
  <2>2. /\ invoices'[i].net = Head(parts) /\ invoices'[i].vat = 0
        /\ invoices'[i].wht = 0
    BY <1>1, <1>2 DEF Created, IInv, TypeOK
  <2>3. Payable(i)' = Head(parts) + 0 - 0
    BY <2>2 DEF Payable
  <2> QED
    BY <2>1, <2>3
<1>8. PICK owed \in Int : owed = Owed(made) /\ owed = Owed(made)'
  BY <1>6, OwedInt, OwedStays
<1>9. Owed(made \union {i})' = head + owed
  <2> DEFINE g == [j \in Invoices |-> Payable(j)']
  <2>1. \A j \in made \union {i} : g[j] \in Int
    <3>1. \A j \in made : Payable(j)' = Payable(j)
      BY <1>6 DEF Lasting
    <3>2. \A j \in made : Payable(j) \in Int
      BY AccountsTyped
    <3>3. Payable(i)' \in Int
      BY <1>7
    <3> QED
      BY <3>1, <3>2, <3>3
  <2>2. IsFiniteSet(made)
    BY ReceivablesAssumption, FS_Subset
  <2>3. SumFunctionOnSet(g, made \union {i})
            = g[i] + SumFunctionOnSet(g, made)
    <3> HIDE DEF g
    <3> QED
      BY <1>6, <2>1, <2>2, SumAdd
  <2>4. g[i] = head /\ SumFunctionOnSet(g, made) = owed
    BY <1>7, <1>8 DEF Owed
  <2> QED
    BY <2>3, <2>4 DEF Owed
<1>10. PICK total \in Nat : total = Total(Tail(parts))
  <2>1. Tail(parts) \in Seq(Nat)
    BY <1>1, <1>2
  <2> QED
    BY <2>1, TotalNat
<1>11. Total(parts) = head + total
  BY <1>1, <1>2, <1>7, <1>10, TotalTail
<1>12. PICK p \in Int : p = Payable(k) /\ p = Payable(k)'
  BY <1>6, AccountsTyped
<1>13. k \notin raced => head + owed + total = p
  <2>1. k \notin raced => owed + (head + total) = p
    BY <1>1, <1>2, <1>3, <1>4, <1>8, <1>11, <1>12 DEF SplitOK
  <2> QED
    BY <2>1
<1>14. /\ Owed(job[h].made)' = head + owed
       /\ Total(job[h].parts)' = total
       /\ Payable(job[h].inv)' = p
  BY <1>5, <1>9, <1>10, <1>12 DEF Owed, Total, Payable
<1>15. k \notin raced' =>
           (Owed(job[h].made) + Total(job[h].parts) = Payable(job[h].inv))'
  BY <1>1, <1>13, <1>14
<1>16. job'[h].at = "save plan" => job'[h].parts = <<>>
  <2>1. Tail(parts) \in Seq(Nat) /\ Len(Tail(parts)) = Len(parts) - 1
    BY <1>1, <1>2
  <2>2. \A t \in Seq(Nat) : Len(t) = 0 => t = <<>>
    OBVIOUS
  <2>3. Len(parts) = 1 => Tail(parts) = <<>>
    <3>1. \A n \in Int : n = 1 => n - 1 = 0
      OBVIOUS
    <3>2. Len(parts) \in Int
      BY <1>1, <1>2
    <3> QED
      BY <2>1, <2>2, <3>1, <3>2, Zenon
  <2> QED
    BY <1>5, <2>3
<1>17. /\ \A j \in job'[h].made : ~Fresh(j)'
       /\ job'[h].at \in {"split", "save plan"}
  BY <1>5, <1>6
<1> QED
  BY <1>5, <1>15, <1>16, <1>17 DEF SplitOK, SplitAt, BeforeSplit

LEMMA InsertSplits ==
    ASSUME IInv, IInv', Grounded, Splits, NEW h \in Handlers, Insert(h)
    PROVE  Splits'
<1>1. /\ h \in Workers /\ JobsOK /\ Lasting /\ Growing /\ SplitOK(h)
  <2>1. [Next]_vars
    BY DEF Next
  <2> QED
    BY <2>1, InsertLasts, StepGrows DEF Workers, IInv, Splits
<1>2. ASSUME NEW i \in Invoices, NEW terms \in Terms,
             CreateFromWip(h, i, terms)
      PROVE  SplitOK(h)' /\ Alone(h)
  <2>1. /\ Alone(h) /\ job[h].at = "create"
        /\ job'[h].parts = job[h].parts /\ job'[h].made = job[h].made
    BY <1>1, <1>2, Locals DEF CreateFromWip, Alone, JobsOK, Request
  <2> QED
    BY <1>1, <2>1, NoSplit, NoneOK DEF SplitAt, BeforeSplit
<1>3. ASSUME NEW x \in Txs, Bank(h, x)
      PROVE  SplitOK(h)' /\ Alone(h)
  <2>1. /\ Alone(h) /\ job[h].at = "bank"
        /\ job'[h].parts = job[h].parts /\ job'[h].made = job[h].made
    BY <1>1, <1>3, GotoLocals DEF Bank
  <2> QED
    BY <1>1, <2>1, NoSplit, NoneOK DEF SplitAt, BeforeSplit
<1>4. SplitOK(h)' /\ Alone(h)
  BY <1>1, <1>2, <1>3, DraftSplits DEF Insert
<1> QED
  BY <1>1, <1>4, SplitsIf

\* The steps of a worker: it keeps its plan, or it is through.
LEMMA AdvanceSplits ==
    ASSUME IInv, IInv', Grounded, Splits, NEW w \in Workers, Advance(w)
    PROVE  Splits'
<1>1. /\ JobsOK /\ Lasting /\ Growing /\ SplitOK(w) /\ Alone(w)
  <2>1. [Next]_vars
    BY DEF Next
  <2> QED
    BY <2>1, AdvanceLasts, StepGrows, Onward DEF IInv, Splits
<1>2. SUFFICES SplitOK(w)'
  BY <1>1, SplitsIf
<1>3. CASE Blanked(w)
  BY <1>3, NoneOK DEF Blanked
<1>4. CASE Done(w) \/ job' = [job EXCEPT ![w] = Idle]
  BY <1>1, <1>3, <1>4, DoneLocals, IdleLocals
<1>5. ASSUME job[w].at \notin SplitAt,
             job'[w].parts = job[w].parts /\ job'[w].made = job[w].made
      PROVE  SplitOK(w)'
  BY <1>1, <1>5, NoSplit, NoneOK
<1>6. ASSUME NEW i \in Invoices, NEW move, Moving(w, move, i)
      PROVE  job'[w].parts = job[w].parts /\ job'[w].made = job[w].made
  BY <1>1, <1>6, MovingLocals
<1>7. ASSUME NEW at, Goto(w, at)
      PROVE  /\ job'[w].parts = job[w].parts /\ job'[w].made = job[w].made
             /\ job'[w].inv = job[w].inv /\ job'[w].at = at
  BY <1>1, <1>7, GotoLocals
<1>8. CASE Reverse(w)
  <2>1. /\ Goto(w, "save cancel") /\ job[w].at = "reverse"
    BY <1>8 DEF Reverse
  <2>2. job'[w].at = "save cancel"
    BY <1>7, <2>1
  <2>3. Ripens(w)
    BY <1>7, <2>1, <2>2 DEF Ripens, SplitAt, BeforeSplit
  <2> QED
    BY <1>1, <2>3, SplitStays
<1>9. CASE SaveCancel(w)
  <2>1. CASE Goto(w, "split")
    <3>1. job'[w].at = "split" /\ job[w].at = "save cancel"
      BY <1>7, <1>9, <2>1 DEF SaveCancel
    <3>2. Ripens(w)
      BY <1>7, <2>1, <3>1 DEF Ripens, SplitAt, BeforeSplit
    <3> QED
      BY <1>1, <3>2, SplitStays
  <2> QED
    BY <1>4, <1>9, <2>1 DEF SaveCancel
<1>10. CASE FindCancel(w)
  <2>1. CASE Cancellable(job[w].inv)
    <3> DEFINE at == IF invoices[job[w].inv].stage \in Posted
                     THEN "reverse" ELSE "save cancel"
               r == [job[w] EXCEPT !.at = at,
                         !.stage = invoices[job[w].inv].stage,
                         !.paid = invoices[job[w].inv].paid]
    <3>1. job' = [job EXCEPT ![w] = r] /\ job[w].at = "find cancel"
      BY <1>1, <1>10, <2>1 DEF FindCancel, JobsOK
    <3>2. job'[w] = r
      BY <1>1, <3>1 DEF JobsOK
    <3>3. /\ r.at = at /\ r.inv = job[w].inv
          /\ r.parts = job[w].parts /\ r.made = job[w].made
      BY <1>1, Locals DEF Request
    <3>4. at \in {"reverse", "save cancel"}
      OBVIOUS
    <3> HIDE DEF r, at
    <3>5. Ripens(w)
      BY <2>1, <3>1, <3>2, <3>3, <3>4
         DEF Ripens, SplitAt, BeforeSplit, Cancellable
    <3> QED
      BY <1>1, <3>5, SplitStays
  <2> QED
    BY <1>4, <1>10, <2>1 DEF FindCancel
<1>11. CASE FindPayment(w)
  <2> DEFINE r == [job[w] EXCEPT !.at = "save payment",
                                 !.stage = invoices[job[w].inv].stage,
                                 !.paid = invoices[job[w].inv].paid]
  <2>1. job' = [job EXCEPT ![w] = r] /\ job[w].at = "find payment"
    BY <1>1, <1>11 DEF FindPayment, JobsOK
  <2>2. job'[w] = r
    BY <1>1, <2>1 DEF JobsOK
  <2>3. r.parts = job[w].parts /\ r.made = job[w].made
    BY <1>1, Locals DEF Request
  <2> HIDE DEF r
  <2> QED
    BY <1>5, <2>1, <2>2, <2>3 DEF SplitAt, BeforeSplit
<1>12. ASSUME NEW i \in Invoices, Pick(w, i)
       PROVE  SplitOK(w)'
  <2>1. CASE job' = [job EXCEPT ![w] = [job[w] EXCEPT !.todo = @ \ {i}]]
    <3>1. job'[w].parts = job[w].parts /\ job'[w].made = job[w].made
      BY <1>1, <2>1, Locals DEF JobsOK, Request
    <3> QED
      BY <1>5, <1>12, <3>1 DEF Pick, SplitAt, BeforeSplit
  <2>2. CASE Moving(w, job[w].batch, i)
    BY <1>5, <1>6, <1>12, <2>2 DEF Pick, SplitAt, BeforeSplit
  <2> QED
    BY <1>4, <1>12, <2>1, <2>2 DEF Pick
<1>13. CASE FindSubmitted(w)
  <2>1. job[w].inv \in Invoices
    BY <1>1, <1>13, Locals DEF FindSubmitted, RequestOK
  <2> QED
    BY <1>4, <1>5, <1>6, <1>13, <2>1 DEF FindSubmitted, SplitAt, BeforeSplit
<1>14. CASE MarkInvoiced(w) \/ Certify(w) \/ NoAccount(w) \/ PostReceipt(w)
                \/ PostFeed(w) \/ Reclassify(w) \/ SaveWriteOff(w)
                \/ PostCredit(w) \/ SavePlan(w)
  BY <1>4, <1>14 DEF MarkInvoiced, Certify, NoAccount, PostReceipt,
     PostFeed, Reclassify, SaveWriteOff, PostCredit, SavePlan
<1>15. CASE SaveMove(w)
  <2>1. Done(w) \/ Goto(w, "post sale") \/ Goto(w, "find")
    BY <1>15 DEF SaveMove
  <2>2. job[w].at \notin SplitAt
    BY <1>15 DEF SaveMove, SplitAt, BeforeSplit
  <2> QED
    BY <1>4, <1>5, <1>7, <2>1, <2>2
<1>16. CASE PostSale(w)
  <2>1. Done(w) \/ Goto(w, "certify")
    BY <1>16 DEF PostSale
  <2>2. job[w].at \notin SplitAt
    BY <1>16 DEF PostSale, SplitAt, BeforeSplit
  <2> QED
    BY <1>4, <1>5, <1>7, <2>1, <2>2
<1>17. CASE SavePayment(w) \/ SaveMatch(w) \/ Expense(w)
  <2>1. \E at : Goto(w, at)
    BY <1>17 DEF SavePayment, SaveMatch, Expense
  <2>2. job[w].at \notin SplitAt
    BY <1>17 DEF SavePayment, SaveMatch, Expense, SplitAt, BeforeSplit
  <2> QED
    BY <1>5, <1>7, <2>1, <2>2
<1> QED
  BY <1>8, <1>9, <1>10, <1>11, <1>12, <1>13, <1>14, <1>15, <1>16, <1>17
     DEF Advance

LEMMA SplitsKept ==
    ASSUME IInv, IInv', Grounded, [Next]_vars, Splits
    PROVE  Splits'
<1>1. Lasting /\ JobsOK /\ Growing
  BY StepLasts, StepGrows DEF IInv
<1>2. ASSUME NEW w \in Workers, NEW r, r.parts = <<>>, r.made = {},
             job' = [job EXCEPT ![w] = r]
      PROVE  Splits'
  <2>1. Alone(w) /\ job'[w] = r
    BY <1>1, <1>2 DEF Alone, JobsOK
  <2>2. SplitOK(w)'
    BY <1>2, <2>1, NoneOK
  <2> QED
    BY <1>1, <2>1, <2>2, SplitsIf
<1>3. ASSUME NEW w \in Workers, Abort(w)
      PROVE  Splits'
  <2> DEFINE r == IF w = Job /\ job[w].todo # {}
                  THEN [Idle EXCEPT !.at = "pick", !.batch = "send",
                                    !.todo = job[w].todo]
                  ELSE Idle
  <2>1. job' = [job EXCEPT ![w] = r]
    BY <1>3 DEF Abort
  <2>2. r.parts = <<>> /\ r.made = {}
    BY DEF Idle
  <2> HIDE DEF r
  <2> QED
    BY <1>2, <2>1, <2>2
<1>4. CASE AutoSend
  <2> DEFINE r == [Idle EXCEPT !.at = "pick", !.batch = "send",
                               !.todo = DueInstalments]
  <2>1. job' = [job EXCEPT ![Job] = r] /\ Job \in Workers
    BY <1>4 DEF AutoSend, Accept, Workers
  <2>2. r.parts = <<>> /\ r.made = {}
    BY DEF Idle
  <2> HIDE DEF r
  <2> QED
    BY <1>2, <2>1, <2>2
<1>5. CASE Restart
  <2>1. \A w \in Workers : job'[w].parts = <<>> /\ job'[w].made = {}
    BY <1>5 DEF Restart, Idle
  <2> QED
    BY <2>1, NoneOK DEF Splits
<1>6. ASSUME job' = job PROVE Splits'
  <2>1. Job \in Workers /\ Alone(Job) /\ SplitOK(Job)
    BY <1>6 DEF Workers, Alone, Splits
  <2>2. SplitOK(Job)'
    <3>1. CASE job[Job].at \in SplitAt
      BY <1>1, <1>6, <2>1, <3>1, SplitStays DEF Ripens
    <3>2. CASE job[Job].at \notin SplitAt
      BY <1>6, <2>1, <3>2, NoSplit, NoneOK
    <3> QED
      BY <3>1, <3>2
  <2> QED
    BY <1>1, <2>1, <2>2, SplitsIf
<1>7. CASE Office \/ UNCHANGED vars
  <2>1. job' = job
    BY <1>7
       DEF Office, CreateInvoice, ReviewEntry, ComesDue, vars
  <2> QED
    BY <1>6, <2>1
<1> QED
  BY <1>3, <1>4, <1>5, <1>7, RequestedSplits, InsertSplits, AdvanceSplits
     DEF Next

\* The plan learns of its instalments when all of them exist.
LEMMA PlannedKept ==
    ASSUME IInv, IInv', Grounded, [Next]_vars, Splits,
           NEW i \in Invoices, PlannedOK(i)
    PROVE  PlannedOK(i)'
<1>1. Lasting
  BY StepLasts
<1>2. CASE plans'[i] = plans[i]
  BY <1>1, <1>2, PlannedStays
<1>3. ASSUME NEW w \in Workers, SavePlan(w)
      PROVE  PlannedOK(i)'
  <2>1. /\ job[w].at = "save plan" /\ SplitOK(w) /\ LocalsOK(w)
        /\ job[w].inv \in Invoices /\ job[w].made \in SUBSET Invoices
        /\ plans' = [plans EXCEPT ![job[w].inv] = job[w].made]
        /\ plans \in [Invoices -> SUBSET Invoices]
    BY <1>3, Locals DEF IInv, TypeOK, Grounded, Splits, SavePlan, RequestOK
  <2>2. CASE i # job[w].inv
    BY <1>2, <2>1, <2>2
  <2>3. CASE i = job[w].inv
    <3>1. PICK S \in SUBSET Invoices : S = job[w].made
      BY <2>1
    <3>2. plans'[i] = S
      BY <2>1, <2>3, <3>1
    <3>3. ASSUME S # {}
          PROVE  /\ ~Fresh(i)' /\ \A j \in S : ~Fresh(j)'
                 /\ i \notin raced' => Owed(S)' = Payable(i)'
      <4>1. ~Fresh(i) /\ \A j \in S : ~Fresh(j)
        BY <2>1, <2>3, <3>1 DEF SplitOK, LocalsOK
      <4>2. Owed(S)' = Owed(S) /\ Payable(i)' = Payable(i)
        BY <1>1, <4>1, OwedStays DEF Lasting
      <4>3. i \notin raced => Owed(S) + Total(<<>>) = Payable(i)
        BY <2>1, <2>3, <3>1, <3>3 DEF SplitOK
      <4>4. PICK owed \in Int : owed = Owed(S)
        BY OwedInt
      <4>5. i \notin raced => owed + 0 = Payable(i)
        BY <4>3, <4>4, TotalEmpty
      <4>6. i \notin raced => owed = Payable(i)
        BY <4>5
      <4> QED
        BY <1>1, <4>1, <4>2, <4>4, <4>6 DEF Lasting
    <3>4. Owed(plans[i])' = Owed(S)'
      BY <3>2 DEF Owed
    <3> QED
      BY <3>2, <3>3, <3>4 DEF PlannedOK
  <2> QED
    BY <2>2, <2>3
<1>4. CASE plans' = plans
  BY <1>2, <1>4
<1>5. ASSUME NEW w \in Workers, Advance(w), ~SavePlan(w)
      PROVE  plans' = plans
  BY <1>5 DEF Advance, MarkInvoiced, Pick, SaveMove, PostSale, Certify,
     FindPayment, SavePayment, NoAccount, PostReceipt, SaveMatch, Reclassify,
     FindCancel, Reverse, SaveCancel, Expense, SaveWriteOff, PostCredit,
     FindSubmitted, PostFeed
<1>6. ASSUME NEW h \in Handlers, Requested(h)
      PROVE  plans' = plans
  BY <1>6 DEF Requested, BillEntries, ImportTx, Move, RecordPayment, MatchTx,
     Cancel, WriteOff, CreditNote, CreatePlan, ApproveAll
<1>7. ASSUME NEW h \in Handlers, Insert(h)
      PROVE  plans' = plans
  BY <1>7 DEF Insert, CreateFromWip, DraftInstalment, Bank
<1>8. CASE Office
  BY <1>4, <1>8 DEF Office, CreateInvoice, ReviewEntry, ComesDue
<1> QED
  BY <1>3, <1>4, <1>5, <1>6, <1>7, <1>8
     DEF Next, Abort, AutoSend, Restart, vars

LEMMA InitPlans == Init => Splits /\ \A i \in Invoices : PlannedOK(i)
<1> SUFFICES ASSUME Init PROVE Splits /\ \A i \in Invoices : PlannedOK(i)
  OBVIOUS
<1>1. \A w \in Workers : /\ job[w].at = "idle" /\ job[w].parts = <<>>
                         /\ job[w].made = {}
  BY DEF Init, Idle
<1>2. \A i \in Invoices : plans[i] = {}
  BY DEF Init
<1> QED
  BY <1>1, <1>2 DEF Splits, SplitOK, PlannedOK, BeforeSplit, SplitAt

LEMMA PlansFollow ==
    ASSUME \A i \in Invoices : PlannedOK(i) PROVE PlanCoversDebt
BY DEF PlannedOK, PlanCoversDebt, Owed

-----------------------------------------------------------------------------
(* The books, after every step *)
Books ==
    /\ Grounded /\ Splits
    /\ \A i \in Invoices : Balanced(i) /\ BankedOK(i) /\ PlannedOK(i)

LEMMA BooksInit == Init => Books
BY InitGround, InitPlans, InitBalance, InitBanked DEF Books

LEMMA BooksNext == IInv /\ IInv' /\ Books /\ [Next]_vars => Books'
<1> SUFFICES ASSUME IInv, IInv', Books, [Next]_vars PROVE Books'
  OBVIOUS
<1>1. Grounded /\ Splits
  BY DEF Books
<1>2. Grounded' /\ Splits'
  BY <1>1, GroundOK, SplitsKept
<1>3. ASSUME NEW i \in Invoices
      PROVE  Balanced(i)' /\ BankedOK(i)' /\ PlannedOK(i)'
  <2>1. Balanced(i) /\ BankedOK(i) /\ PlannedOK(i)
    BY DEF Books
  <2> QED
    BY <1>1, <2>1, BalanceOK, BankOK, PlannedKept
<1> QED
  BY <1>2, <1>3 DEF Books

LEMMA BooksKept == Spec => []Books
BY Invariance, BooksInit, BooksNext, PTL DEF Spec

(***************************************************************************)
(* Theorem: for any number of invoices, transactions and requests, what    *)
(* the postings leave on an invoice is what its document says is owed,     *)
(* however sales, payments, refunds, matches, credit notes, cancellation   *)
(* and write-off alternate; but for invoices that two requests wrote at    *)
(* once, that a fault left half done, that were paid while nothing stood   *)
(* against them, or by a match with a transaction matched before, not yet  *)
(* posted, or of money that went out.                                      *)
(***************************************************************************)
THEOREM ReceivablesFollow == Spec => []ReceivableFollows
<1>1. IInv /\ Books => ReceivableFollows
  BY BalanceFollows DEF Books
<1> QED
  BY <1>1, Invariance, BooksKept, PTL

(***************************************************************************)
(* Theorem: recordPayment and match, which save the invoice and the bank   *)
(* transaction one after the other, leave an invoice paid with what        *)
(* Banking shows for it, refunds included; but for invoices that two       *)
(* requests wrote at once or a fault left half done, and for matches with  *)
(* a transaction matched before or of money that went out.                 *)
(***************************************************************************)
THEOREM PaymentsBanked == Spec => []PaidIsBanked
<1>1. IInv /\ Books => PaidIsBanked
  BY PaidFollows DEF Books
<1> QED
  BY <1>1, Invariance, BooksKept, PTL

(***************************************************************************)
(* Theorem: the instalments of a payment plan exist and add up to the      *)
(* invoice that they replace, through any number of requests and faults.   *)
(***************************************************************************)
THEOREM PlansCoverDebt == Spec => []PlanCoversDebt
<1>1. IInv /\ Books => PlanCoversDebt
  BY PlansFollow DEF Books
<1> QED
  BY <1>1, Invariance, BooksKept, PTL

(***************************************************************************)
(* Theorem: no step cancels an invoice for which Banking holds money,      *)
(* where one request at a time works on it: cancel looks at what was paid, *)
(* which is what Banking holds (PaymentsBanked).                           *)
(***************************************************************************)
THEOREM NothingPaidCancelled == Spec => CancelledUnpaid
<1>1. IInv /\ Books /\ [Next]_vars =>
          [\A i \in Invoices :
              /\ invoices[i].stage # "Cancelled"
              /\ invoices'[i].stage = "Cancelled"
              /\ i \notin raced' \union lost \union rematched /\ MoneyIn(i)
              /\ \A v, w \in Workers : job[v].inv = i /\ job[w].inv = i => v = w
              => Banked(i) = 0]_vars
  BY CancelsUnpaid DEF Books
<1> QED
  BY <1>1, Invariance, BooksKept, PTL DEF Spec, CancelledUnpaid
=============================================================================
