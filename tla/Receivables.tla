---------------------------- MODULE Receivables ----------------------------
(***************************************************************************)
(* What clients owe: invoice.service.ts with the services around it (work  *)
(* in progress, payment plans and the job that sends their instalments,    *)
(* credit notes, bank matching).  An invoice moves through stages; sending *)
(* it posts a receivable to the general ledger, and payment, cancellation  *)
(* and write-off are meant to clear it.  Nothing ties the document to the  *)
(* postings but the order in which a request makes its calls.              *)
(*                                                                         *)
(* A request is cut where it acts on what an earlier await returned; the   *)
(* calls in between that nothing later depends on get no step of their     *)
(* own.  save() writes the paths that the request has changed, whatever    *)
(* the document says by then.                                              *)
(***************************************************************************)
EXTENDS Integers, Sequences, FiniteSetsExt, Functions

CONSTANTS
    Invoices,    \* bound: the invoices that can ever be created
    Entries,     \* approved, billable time entries
    Txs,         \* bound: bank transactions
    Handlers,    \* requests that may be in flight at once
    Terms,       \* the [net, vat, wht] that an invoice can have
    Selections,  \* the lists of entries that an invoice is asked for with
    Instalments, \* the instalments that a plan is asked for with
    Amounts,     \* amounts of credit notes and part payments
    FeedAmounts, \* amounts of feed lines: below zero, money goes out
    MaxRequests, \* bound: requests and feed lines accepted
    MaxFaults    \* bound: failed database calls and restarts

NoInvoice == "no invoice"
NoTx == "no transaction"
\* The daily run of InstalmentAutoSendService occupies a handler of its own.
Job == "auto-send"
Workers == Handlers \union {Job}

ASSUME ReceivablesAssumption ==
    /\ IsFiniteSet(Invoices) /\ IsFiniteSet(Txs) /\ IsFiniteSet(Handlers)
    /\ {MaxRequests, MaxFaults} \subseteq Nat
    /\ Amounts \subseteq Nat \ {0}
    /\ FeedAmounts \subseteq Int
    /\ Selections \subseteq Seq(Entries)
    /\ Terms \subseteq [net : Nat, vat : Nat, wht : Nat]
    /\ \A t \in Terms : t.net + t.vat > t.wht
    /\ Instalments \subseteq Seq(Nat \ {0})
    /\ NoInvoice \notin Invoices
    /\ NoTx \notin Txs
    /\ Job \notin Handlers

VARIABLES
    invoices,     \* crm_invoices
    due,          \* the invoices whose due date has come
    plans,        \* crm_payment_plans: the instalments of an invoice
    entries,      \* crm_time_entries and claims: review, invoice
    txs,          \* crm_bank_transactions
    receivable,   \* what account 1200 holds for an invoice
    ledger,       \* the other accounts: debits less credits
    certificates, \* the register of withholding tax: entries of an invoice
    job,          \* the requests in flight
    requests,     \* requests accepted so far
    faults,       \* faults so far
    credited,     \* history: credit notes posted for an invoice
    raced,        \* history: invoices written after they had changed again,
                  \* or given back more than was over by then; entries that
                  \* two requests billed at once
    lost,         \* history: invoices and entries a request died at
    astray,       \* history: invoices paid while nothing stood against
                  \* them, or written off once they were cancelled
    rematched,    \* history: invoices that shared a bank transaction
    unmoved,      \* history: invoices matched with a transaction that had
                  \* not been posted
    repeated      \* history: entries that one request listed twice

books == <<receivable, ledger, certificates>>
provisos == <<raced, lost, astray, rematched, unmoved, repeated>>
vars == <<invoices, due, plans, entries, txs, books, job, requests, faults,
          credited, provisos>>

\* Nothing sets the schema's Overdue; it would be one more of the Posted.
Stage == {"absent", "Draft", "In Review", "Approved", "Sent", "Part Paid",
          "Paid", "Written Off", "Cancelled"}
\* Unbilled stands for the other reviews that let an entry be billed, Held
\* for Written off, which like it does not.
Review == {"Unbilled", "Held", "Invoiced"}
Account == {"income", "vat", "bank", "bad debt", "unexplained"}

Invoice == [stage : Stage, net : Nat, vat : Nat, wht : Nat, paid : Int,
            lines : Seq(Entries), original : Invoices \union {NoInvoice}]
Request == [at : {"idle", "create", "mark", "pick", "find", "save",
                  "post sale", "certify", "find payment", "save payment",
                  "bank", "post receipt", "post feed", "link", "reclassify",
                  "find cancel", "reverse", "save cancel", "split",
                  "save plan", "expense", "save write-off", "credit"},
            move : {"none", "submit", "approve", "send"},
            batch : {"none", "submit", "send"},
            inv : Invoices \union {NoInvoice},
            tx : Txs \union {NoTx},
            stage : Stage, paid : Int, amount : Int,
            entries : Seq(Entries), todo : SUBSET Invoices,
            parts : Seq(Nat), made : SUBSET Invoices]

Blank == [stage |-> "absent", net |-> 0, vat |-> 0, wht |-> 0, paid |-> 0,
          lines |-> <<>>, original |-> NoInvoice]
Idle == [at |-> "idle", move |-> "none", batch |-> "none",
         inv |-> NoInvoice, tx |-> NoTx,
         stage |-> "absent", paid |-> 0, amount |-> 0, entries |-> <<>>,
         todo |-> {}, parts |-> <<>>, made |-> {}]

TypeOK ==
    /\ invoices \in [Invoices -> Invoice]
    /\ due \subseteq Invoices
    /\ plans \in [Invoices -> SUBSET Invoices]
    /\ entries \in [Entries ->
           [review : Review, invoice : Invoices \union {NoInvoice}]]
    /\ txs \in [Txs -> [amount : Int, link : Invoices \union {NoInvoice},
                        origin : {"absent", "unposted", "feed", "payment"}]]
    /\ receivable \in [Invoices -> Int]
    /\ ledger \in [Account -> Int]
    /\ certificates \in [Invoices -> Nat]
    /\ job \in [Workers -> Request]
    /\ {requests, faults} \subseteq Nat
    /\ credited \in [Invoices -> Nat]
    /\ {astray, rematched, unmoved} \subseteq SUBSET Invoices
    /\ repeated \subseteq Entries
    /\ {raced, lost} \subseteq SUBSET (Invoices \union Entries)

Init ==
    /\ invoices = [i \in Invoices |-> Blank]
    /\ due = {}
    /\ plans = [i \in Invoices |-> {}]
    /\ entries = [e \in Entries |->
                     [review |-> "Unbilled", invoice |-> NoInvoice]]
    /\ txs = [x \in Txs |->
                 [amount |-> 0, link |-> NoInvoice, origin |-> "absent"]]
    /\ receivable = [i \in Invoices |-> 0]
    /\ ledger = [a \in Account |-> 0]
    /\ certificates = [i \in Invoices |-> 0]
    /\ job = [w \in Workers |-> Idle]
    /\ requests = 0
    /\ faults = 0
    /\ credited = [i \in Invoices |-> 0]
    /\ raced = {} /\ lost = {} /\ astray = {} /\ rematched = {}
    /\ unmoved = {} /\ repeated = {}

-----------------------------------------------------------------------------
(* Invoices and the ledger *)

Payable(i) == invoices[i].net + invoices[i].vat - invoices[i].wht
Outstanding(i) == Payable(i) - invoices[i].paid
Posted == {"Sent", "Part Paid"}

\* An unused id: model.create.
Fresh(i) == invoices[i].stage = "absent"
Created(i, terms, lines, original) ==
    [invoices EXCEPT ![i] =
        [stage |-> "Draft", net |-> terms.net, vat |-> terms.vat,
         wht |-> terms.wht, paid |-> 0, lines |-> lines,
         original |-> original]]

\* Amounts added to the accounts that lines names; a credit is negative.
Booked(lines) == [a \in Account |->
                     ledger[a] + IF a \in DOMAIN lines THEN lines[a] ELSE 0]

-----------------------------------------------------------------------------
(* The life of a request *)

Accept(h, locals) ==
    /\ job[h] = Idle
    /\ job' = [job EXCEPT ![h] = locals]

\* What users and the bank's feed ask for is counted.
Counted == requests < MaxRequests /\ requests' = requests + 1

Goto(w, at) == job' = [job EXCEPT ![w].at = at]
\* The request is answered; a batch goes on with its next invoice.
Done(w) ==
    job' = [job EXCEPT ![w] =
               IF job[w].todo = {} THEN Idle
               ELSE [Idle EXCEPT !.at = "pick", !.todo = job[w].todo,
                                 !.batch = job[w].batch]]

\* Worker w is about to save an invoice that is no longer what it read.
Stale(w) == LET i == job[w].inv IN
    invoices[i].stage # job[w].stage \/ invoices[i].paid # job[w].paid
NoteRace(w) == raced' = IF Stale(w) THEN raced \union {job[w].inv} ELSE raced

\* save(): a path set to the value it was read with is not written.
SaveStage(w, stage) ==
    invoices' = [invoices EXCEPT ![job[w].inv].stage =
                    IF stage = job[w].stage THEN @ ELSE stage]

-----------------------------------------------------------------------------
(* Drafting *)

\* InvoiceService.create: lines entered by hand.
CreateInvoice(i, terms) ==
    /\ Counted
    /\ Fresh(i)
    /\ invoices' = Created(i, terms, <<>>, NoInvoice)
    /\ UNCHANGED <<due, plans, entries, txs, books, job, faults, credited,
                   provisos>>

\* Mutant: an entry that is on an invoice already is not refused.
ReviewedOnly(e) == entries[e].review # "Held"
Invoiceable(e) ==
    /\ entries[e].invoice = NoInvoice
    /\ entries[e].review # "Held"

\* What a list names more than once.
Twice(ids) == {e \in Range(ids) :
                  \E k, l \in DOMAIN ids : k # l /\ ids[k] = e /\ ids[l] = e}

\* InvoiceService.createFromWip: the entries are read and checked, each as
\* often as it is listed,
BillEntries(h, ids) ==
    /\ Counted
    /\ ids # <<>>
    /\ \A e \in Range(ids) : Invoiceable(e)
    /\ Accept(h, [Idle EXCEPT !.at = "create", !.entries = ids])
    /\ raced' = raced \union
           {e \in Range(ids) : \E g \in Handlers : e \in Range(job[g].entries)}
    /\ repeated' = repeated \union Twice(ids)
    /\ UNCHANGED <<invoices, due, plans, entries, txs, books, faults,
                   credited, lost, astray, rematched, unmoved>>

\* the invoice is created with a line for each,
CreateFromWip(h, i, terms) ==
    /\ job[h].at = "create"
    /\ Fresh(i)
    /\ invoices' = Created(i, terms, job[h].entries, NoInvoice)
    /\ job' = [job EXCEPT ![h].at = "mark", ![h].inv = i]
    /\ UNCHANGED <<due, plans, entries, txs, books, requests, faults,
                   credited, provisos>>

\* and they are marked, whatever has become of them meanwhile.
MarkInvoiced(h) ==
    /\ job[h].at = "mark"
    /\ entries' = [e \in Entries |->
           IF e \in Range(job[h].entries)
           THEN [review |-> "Invoiced", invoice |-> job[h].inv]
           ELSE entries[e]]
    /\ Done(h)
    /\ UNCHANGED <<invoices, due, plans, txs, books, requests, faults,
                   credited, provisos>>

\* WipService: the billing review of an entry asks for no earlier review.
ReviewEntry(e, review) ==
    /\ Counted
    /\ entries' = [entries EXCEPT ![e].review = review]
    /\ UNCHANGED <<invoices, due, plans, txs, books, job, faults, credited,
                   provisos>>

-----------------------------------------------------------------------------
(* From stage to stage *)

From == [submit |-> "Draft", approve |-> "In Review", send |-> "Approved"]
To == [submit |-> "In Review", approve |-> "Approved", send |-> "Sent"]

\* The invoice is read and found in the stage that the move starts from.
Moving(w, move, i) ==
    /\ invoices[i].stage = From[move]
    /\ job' = [job EXCEPT ![w].at = "save", ![w].move = move, ![w].inv = i,
                          ![w].stage = invoices[i].stage,
                          ![w].paid = invoices[i].paid,
                          ![w].todo = @ \ {i}]

\* submitForReview, approve, send
Move(h, move, i) ==
    /\ Counted
    /\ job[h] = Idle
    /\ Moving(h, move, i)
    /\ UNCHANGED <<invoices, due, plans, entries, txs, books, faults,
                   credited, provisos>>

\* A plan's approval goes on to approve what it has just submitted.
SaveMove(w) ==
    /\ job[w].at = "save"
    /\ SaveStage(w, To[job[w].move])
    /\ NoteRace(w)
    /\ CASE job[w].move = "send" -> Goto(w, "post sale")
         [] job[w].move = "submit" /\ job[w].batch = "submit" ->
                Goto(w, "find")
         [] OTHER -> Done(w)
    /\ UNCHANGED <<due, plans, entries, txs, books, requests, faults,
                   credited, lost, astray, rematched, unmoved, repeated>>

\* send: the receivable against income and VAT.  The amounts are those of the
\* document read; they never change.
PostSale(w) == LET i == job[w].inv IN
    /\ job[w].at = "post sale"
    /\ receivable' = [receivable EXCEPT ![i] = @ + Payable(i)]
    /\ ledger' = Booked([income |-> -invoices[i].net,
                         vat |-> -invoices[i].vat])
    /\ IF invoices[i].wht > 0 THEN Goto(w, "certify") ELSE Done(w)
    /\ UNCHANGED <<invoices, due, plans, entries, txs, certificates, requests,
                   faults, credited, provisos>>

\* WhtService.record
Certify(w) ==
    /\ job[w].at = "certify"
    /\ certificates' = [certificates EXCEPT ![job[w].inv] = @ + 1]
    /\ Done(w)
    /\ UNCHANGED <<invoices, due, plans, entries, txs, receivable, ledger,
                   requests, faults, credited, provisos>>

-----------------------------------------------------------------------------
(* Payments *)

\* PaymentService.record: an amount that is given, or all that remains, which
\* is nothing of what is paid and money back of what was paid too much.
RecordPayment(h, i, amount) ==
    /\ Counted
    /\ ~Fresh(i)
    /\ amount \in Amounts \union {Outstanding(i)}
    /\ Accept(h, [Idle EXCEPT !.at = "find payment", !.inv = i,
                              !.amount = amount])
    /\ UNCHANGED <<invoices, due, plans, entries, txs, books, faults,
                   credited, provisos>>

\* applyPayment and markPaidViaBankMatch read the invoice anew and ask for no
\* stage: a draft can be paid, and so can what was cancelled or written off.
FindPayment(h) == LET i == job[h].inv IN
    /\ job[h].at = "find payment"
    /\ astray' = IF invoices[i].stage \in Posted \union {"Paid"}
                 THEN astray ELSE astray \union {i}
    /\ raced' = IF job[h].amount < 0 /\ job[h].amount # Outstanding(i)
                THEN raced \union {i} ELSE raced
    /\ job' = [job EXCEPT ![h].at = "save payment",
                          ![h].stage = invoices[i].stage,
                          ![h].paid = invoices[i].paid]
    /\ UNCHANGED <<invoices, due, plans, entries, txs, books, requests,
                   faults, credited, lost, rematched, unmoved, repeated>>

\* Mutant of SavePayment: the amount replaces what was paid before.
SaveLastPayment(h) == LET i == job[h].inv IN
    /\ job[h].at = "save payment"
    /\ invoices' = [invoices EXCEPT ![i].paid = job[h].amount,
           ![i].stage = IF job[h].amount >= Payable(i)
                        THEN "Paid" ELSE "Part Paid"]
    /\ NoteRace(h)
    /\ Goto(h, IF job[h].tx = NoTx THEN "bank" ELSE "reclassify")
    /\ UNCHANGED <<due, plans, entries, txs, books, requests, faults,
                   credited, lost, astray, rematched, unmoved, repeated>>

SavePayment(h) ==
    LET i == job[h].inv
        paid == job[h].paid + job[h].amount
        stage == IF paid >= Payable(i) THEN "Paid" ELSE "Part Paid"
    IN
    /\ job[h].at = "save payment"
    /\ invoices' = [invoices EXCEPT ![i].paid = paid,
           ![i].stage = IF stage = job[h].stage THEN @ ELSE stage]
    /\ NoteRace(h)
    /\ Goto(h, IF job[h].tx = NoTx THEN "bank" ELSE "reclassify")
    /\ UNCHANGED <<due, plans, entries, txs, books, requests, faults,
                   credited, lost, astray, rematched, unmoved, repeated>>

\* pickBankAccount found one: the money shows up in Banking,
Bank(h, x) ==
    /\ job[h].at = "bank"
    /\ txs[x].origin = "absent"
    /\ txs' = [txs EXCEPT ![x] = [amount |-> job[h].amount,
                                  link |-> job[h].inv, origin |-> "payment"]]
    /\ Goto(h, "post receipt")
    /\ UNCHANGED <<invoices, due, plans, entries, books, requests, faults,
                   credited, provisos>>

\* or the tenant has none in that currency: it throws, after the save.
NoAccount(h) ==
    /\ job[h].at = "bank"
    /\ lost' = lost \union {job[h].inv}
    /\ Done(h)
    /\ UNCHANGED <<invoices, due, plans, entries, txs, books, requests,
                   faults, credited, raced, astray, rematched, unmoved,
                   repeated>>

\* and in the books.
PostReceipt(h) ==
    /\ job[h].at = "post receipt"
    /\ receivable' = [receivable EXCEPT ![job[h].inv] = @ - job[h].amount]
    /\ ledger' = Booked([bank |-> job[h].amount])
    /\ Done(h)
    /\ UNCHANGED <<invoices, due, plans, entries, txs, certificates, requests,
                   faults, credited, provisos>>

\* BankTransactionService.create: a line of the bank's feed, in or out,
ImportTx(h, x, amount) ==
    /\ Counted
    /\ txs[x].origin = "absent"
    /\ txs' = [txs EXCEPT ![x] = [amount |-> amount, link |-> NoInvoice,
                                  origin |-> "unposted"]]
    /\ Accept(h, [Idle EXCEPT !.at = "post feed", !.tx = x,
                              !.amount = amount])
    /\ UNCHANGED <<invoices, due, plans, entries, books, faults, credited,
                   provisos>>

\* is posted against a guess, as nobody has explained it yet.
PostFeed(h) ==
    /\ job[h].at = "post feed"
    /\ txs' = [txs EXCEPT ![job[h].tx].origin = "feed"]
    /\ ledger' = Booked([bank |-> job[h].amount,
                         unexplained |-> -job[h].amount])
    /\ Done(h)
    /\ UNCHANGED <<invoices, due, plans, entries, receivable, certificates,
                   requests, faults, credited, provisos>>

Magnitude(amount) == IF amount < 0 THEN -amount ELSE amount

\* BankTransactionService.match asks neither whether the transaction is
\* matched or posted already, nor which way its money went, nor in which
\* stage the invoice is.
MatchTx(h, x, i) ==
    /\ Counted
    /\ txs[x].origin # "absent" /\ ~Fresh(i)
    /\ Accept(h, [Idle EXCEPT !.at = "link", !.inv = i, !.tx = x,
                              !.amount = Magnitude(txs[x].amount)])
    /\ UNCHANGED <<invoices, due, plans, entries, txs, books, faults,
                   credited, provisos>>

SaveMatch(h) == LET before == txs[job[h].tx].link IN
    /\ job[h].at = "link"
    /\ txs' = [txs EXCEPT ![job[h].tx].link = job[h].inv]
    /\ rematched' = IF before = NoInvoice THEN rematched
                    ELSE rematched \union {before, job[h].inv}
    /\ Goto(h, "find payment")
    /\ UNCHANGED <<invoices, due, plans, entries, books, requests, faults,
                   credited, raced, lost, astray, unmoved, repeated>>

\* reclassifyContra: the leg that was a guess moves to the receivable, if
\* there is one yet.  What a recorded payment posted has no such leg under
\* the transaction's id.
Reclassify(h) ==
    LET i == job[h].inv
        tx == txs[job[h].tx]
    IN
    /\ job[h].at = "reclassify"
    /\ IF tx.origin = "feed"
       THEN /\ receivable' = [receivable EXCEPT ![i] = @ - tx.amount]
            /\ ledger' = Booked([unexplained |-> tx.amount])
       ELSE UNCHANGED <<receivable, ledger>>
    /\ unmoved' = IF tx.origin = "unposted" THEN unmoved \union {i} ELSE unmoved
    /\ Done(h)
    /\ UNCHANGED <<invoices, due, plans, entries, txs, certificates, requests,
                   faults, credited, raced, lost, astray, rematched, repeated>>

-----------------------------------------------------------------------------
(* Taking an invoice back *)

\* Mutant: money that was received does not keep an invoice from being
\* cancelled, as long as it is not paid in full.
Voidable(i) == invoices[i].stage \notin {"Cancelled", "Written Off", "Paid"}
Cancellable(i) ==
    /\ invoices[i].stage \notin {"Cancelled", "Written Off", "Paid"}
    /\ invoices[i].paid <= 0

Cancel(h, i) ==
    /\ Counted
    /\ ~Fresh(i)
    /\ Accept(h, [Idle EXCEPT !.at = "find cancel", !.inv = i])
    /\ UNCHANGED <<invoices, due, plans, entries, txs, books, faults,
                   credited, provisos>>

\* Nothing is to be reversed of what was never sent.
FindCancel(h) == LET i == job[h].inv IN
    /\ job[h].at = "find cancel"
    /\ IF Cancellable(i)
       THEN job' = [job EXCEPT
                ![h].at = IF invoices[i].stage \in Posted
                          THEN "reverse" ELSE "save cancel",
                ![h].stage = invoices[i].stage, ![h].paid = invoices[i].paid]
       ELSE job' = [job EXCEPT ![h] = Idle]
    /\ UNCHANGED <<invoices, due, plans, entries, txs, books, requests,
                   faults, credited, provisos>>

\* The mirror of PostSale.  The register of withholding tax keeps its entry.
Reverse(h) == LET i == job[h].inv IN
    /\ job[h].at = "reverse"
    /\ receivable' = [receivable EXCEPT ![i] = @ - Payable(i)]
    /\ ledger' = Booked([income |-> invoices[i].net,
                         vat |-> invoices[i].vat])
    /\ Goto(h, "save cancel")
    /\ UNCHANGED <<invoices, due, plans, entries, txs, certificates, requests,
                   faults, credited, provisos>>

SaveCancel(h) ==
    /\ job[h].at = "save cancel"
    /\ SaveStage(h, "Cancelled")
    /\ NoteRace(h)
    /\ IF job[h].parts = <<>> THEN Done(h) ELSE Goto(h, "split")
    /\ UNCHANGED <<due, plans, entries, txs, books, requests, faults,
                   credited, lost, astray, rematched, unmoved, repeated>>

\* writeOff asks for no stage: what is outstanding becomes a bad debt,
WriteOff(h, i) ==
    /\ Counted
    /\ ~Fresh(i)
    /\ Accept(h, [Idle EXCEPT
           !.at = IF invoices[i].stage \in Posted /\ Outstanding(i) > 0
                  THEN "expense" ELSE "save write-off",
           !.inv = i, !.stage = invoices[i].stage,
           !.paid = invoices[i].paid])
    /\ astray' = IF invoices[i].stage = "Cancelled" THEN astray \union {i}
                 ELSE astray
    /\ UNCHANGED <<invoices, due, plans, entries, txs, books, faults,
                   credited, raced, lost, rematched, unmoved, repeated>>

\* Mutant of Expense: the whole claim, whatever has been paid of it.
ExpenseAll(h) == LET i == job[h].inv IN
    /\ job[h].at = "expense"
    /\ receivable' = [receivable EXCEPT ![i] = @ - Payable(i)]
    /\ ledger' = Booked([a \in {"bad debt"} |-> Payable(i)])
    /\ Goto(h, "save write-off")
    /\ UNCHANGED <<invoices, due, plans, entries, txs, certificates, requests,
                   faults, credited, provisos>>

Expense(h) ==
    LET i == job[h].inv
        amount == Payable(i) - job[h].paid
    IN
    /\ job[h].at = "expense"
    /\ receivable' = [receivable EXCEPT ![i] = @ - amount]
    /\ ledger' = Booked([a \in {"bad debt"} |-> amount])
    /\ Goto(h, "save write-off")
    /\ UNCHANGED <<invoices, due, plans, entries, txs, certificates, requests,
                   faults, credited, provisos>>

\* and the stage follows.
SaveWriteOff(h) ==
    /\ job[h].at = "save write-off"
    /\ SaveStage(h, "Written Off")
    /\ NoteRace(h)
    /\ Done(h)
    /\ UNCHANGED <<due, plans, entries, txs, books, requests, faults,
                   credited, lost, astray, rematched, unmoved, repeated>>

\* CreditNoteService.create: a document of its own; the invoice stays as it
\* is.  Only the stage decides whether there is something to post.
CreditNote(h, i, amount) ==
    /\ Counted
    /\ invoices[i].stage \in Posted \union {"Paid"}
    /\ Accept(h, [Idle EXCEPT !.at = "credit", !.inv = i, !.amount = amount])
    /\ UNCHANGED <<invoices, due, plans, entries, txs, books, faults,
                   credited, provisos>>

PostCredit(h) == LET i == job[h].inv IN
    /\ job[h].at = "credit"
    /\ receivable' = [receivable EXCEPT ![i] = @ - job[h].amount]
    /\ ledger' = Booked([income |-> job[h].amount])
    /\ credited' = [credited EXCEPT ![i] = @ + job[h].amount]
    /\ Done(h)
    /\ UNCHANGED <<invoices, due, plans, entries, txs, certificates, requests,
                   faults, provisos>>

-----------------------------------------------------------------------------
(* Payment plans *)

Total(parts) == SumFunctionOnSet(parts, DOMAIN parts)

\* Mutant: a plan may ask for less than what is owed.
FitsWithin(parts, i) == Total(parts) <= Outstanding(i)
CoversDebt(parts, i) == Total(parts) = Outstanding(i)

\* PaymentPlanService.create: the instalments are checked against the invoice,
\* which is then cancelled like any other,
CreatePlan(h, i, parts) ==
    /\ Counted
    /\ ~Fresh(i)
    /\ parts # <<>>
    /\ CoversDebt(parts, i)
    /\ Accept(h, [Idle EXCEPT !.at = "find cancel", !.inv = i,
                              !.parts = parts])
    /\ UNCHANGED <<invoices, due, plans, entries, txs, books, faults,
                   credited, provisos>>

\* the instalments are drafted one by one, without tax,
DraftInstalment(h, i) ==
    /\ job[h].at = "split"
    /\ Fresh(i)
    /\ invoices' = Created(i, [net |-> Head(job[h].parts), vat |-> 0,
                               wht |-> 0], <<>>, job[h].inv)
    /\ job' = [job EXCEPT ![h].parts = Tail(@), ![h].made = @ \union {i},
           ![h].at = IF Len(job[h].parts) = 1 THEN "save plan" ELSE "split"]
    /\ UNCHANGED <<due, plans, entries, txs, books, requests, faults,
                   credited, provisos>>

\* and the plan learns of them at the end.
SavePlan(h) ==
    /\ job[h].at = "save plan"
    /\ plans' = [plans EXCEPT ![job[h].inv] = job[h].made]
    /\ Done(h)
    /\ UNCHANGED <<invoices, due, entries, txs, books, requests, faults,
                   credited, provisos>>

\* PaymentPlanService.approveAll: each draft is submitted and approved.
ApproveAll(h, i) ==
    /\ Counted
    /\ plans[i] # {}
    /\ Accept(h, [Idle EXCEPT !.at = "pick", !.batch = "submit",
                              !.todo = plans[i]])
    /\ UNCHANGED <<invoices, due, plans, entries, txs, books, faults,
                   credited, provisos>>

\* A batch takes up an invoice, or passes one that is in another stage by.
Pick(w, i) ==
    /\ job[w].at = "pick" /\ i \in job[w].todo
    /\ IF invoices[i].stage = From[job[w].batch]
       THEN Moving(w, job[w].batch, i)
       ELSE job' = [job EXCEPT ![w] = IF job[w].todo = {i} THEN Idle
                                      ELSE [job[w] EXCEPT !.todo = @ \ {i}]]
    /\ UNCHANGED <<invoices, due, plans, entries, txs, books, requests,
                   faults, credited, provisos>>

\* approve, in approveAll: it throws, and ends the request, if somebody else
\* has moved the invoice since it was submitted.
FindSubmitted(h) == LET i == job[h].inv IN
    /\ job[h].at = "find"
    /\ IF invoices[i].stage = From["approve"] THEN Moving(h, "approve", i)
       ELSE job' = [job EXCEPT ![h] = Idle]
    /\ UNCHANGED <<invoices, due, plans, entries, txs, books, requests,
                   faults, credited, provisos>>

\* Mutant: the job looks for instalments still in review.
InReviewInstalments == {i \in due : /\ invoices[i].original # NoInvoice
                                    /\ invoices[i].stage = "In Review"}
DueInstalments == {i \in due : /\ invoices[i].original # NoInvoice
                               /\ invoices[i].stage = "Approved"}

\* InstalmentAutoSendService.sendDueInstalments, each day
AutoSend ==
    /\ DueInstalments # {}
    /\ Accept(Job, [Idle EXCEPT !.at = "pick", !.batch = "send",
                                !.todo = DueInstalments])
    /\ UNCHANGED <<invoices, due, plans, entries, txs, books, requests,
                   faults, credited, provisos>>

\* Only of an instalment the due date matters here.
ComesDue(i) ==
    /\ invoices[i].original # NoInvoice /\ i \notin due
    /\ due' = due \union {i}
    /\ UNCHANGED <<invoices, plans, entries, txs, books, job, requests,
                   faults, credited, provisos>>

-----------------------------------------------------------------------------
(* Faults *)

\* What a request leaves half done.
LeftBy(w) == ({job[w].inv} \ {NoInvoice}) \union Range(job[w].entries)

\* A database call fails: the request ends, the job goes on to the next.
Abort(w) ==
    /\ job[w].at # "idle"
    /\ faults < MaxFaults
    /\ faults' = faults + 1
    /\ lost' = lost \union LeftBy(w)
    /\ job' = [job EXCEPT ![w] =
           IF w = Job /\ job[w].todo # {}
           THEN [Idle EXCEPT !.at = "pick", !.batch = "send",
                             !.todo = job[w].todo]
           ELSE Idle]
    /\ UNCHANGED <<invoices, due, plans, entries, txs, books, requests,
                   credited, raced, astray, rematched, unmoved, repeated>>

Restart ==
    /\ \E w \in Workers : job[w].at # "idle"
    /\ faults < MaxFaults
    /\ faults' = faults + 1
    /\ lost' = lost \union UNION {LeftBy(w) : w \in Workers}
    /\ job' = [w \in Workers |-> Idle]
    /\ UNCHANGED <<invoices, due, plans, entries, txs, books, requests,
                   credited, raced, astray, rematched, unmoved, repeated>>

-----------------------------------------------------------------------------
Requested(h) ==
    \/ \E ids \in Selections : BillEntries(h, ids)
    \/ \E x \in Txs, amount \in FeedAmounts : ImportTx(h, x, amount)
    \/ \E i \in Invoices :
           \/ \E move \in DOMAIN From : Move(h, move, i)
           \/ \E amount \in Amounts \union {Outstanding(i)} :
                  RecordPayment(h, i, amount)
           \/ \E x \in Txs : MatchTx(h, x, i)
           \/ Cancel(h, i)
           \/ WriteOff(h, i)
           \/ \E amount \in Amounts : CreditNote(h, i, amount)
           \/ \E parts \in Instalments : CreatePlan(h, i, parts)
           \/ ApproveAll(h, i)

\* A step of a worker that does not choose an id.
Advance(w) ==
    \/ MarkInvoiced(w)
    \/ \E i \in Invoices : Pick(w, i)
    \/ SaveMove(w) \/ PostSale(w) \/ Certify(w)
    \/ FindPayment(w) \/ SavePayment(w) \/ NoAccount(w) \/ PostReceipt(w)
    \/ PostFeed(w) \/ SaveMatch(w) \/ Reclassify(w)
    \/ FindCancel(w) \/ Reverse(w) \/ SaveCancel(w)
    \/ Expense(w) \/ SaveWriteOff(w) \/ PostCredit(w)
    \/ FindSubmitted(w) \/ SavePlan(w)

Insert(h) ==
    \/ \E i \in Invoices : \/ \E terms \in Terms : CreateFromWip(h, i, terms)
                           \/ DraftInstalment(h, i)
    \/ \E x \in Txs : Bank(h, x)

Office ==
    \/ \E i \in Invoices, terms \in Terms : CreateInvoice(i, terms)
    \/ \E e \in Entries, review \in {"Unbilled", "Held"} :
           ReviewEntry(e, review)
    \/ \E i \in Invoices : ComesDue(i)

Next ==
    \/ Office
    \/ \E h \in Handlers : Requested(h) \/ Insert(h)
    \/ \E w \in Workers : Advance(w) \/ Abort(w)
    \/ AutoSend
    \/ Restart

\* The scheduler starts the job day after day, and what is awaited returns.
Fairness == WF_vars(AutoSend) /\ WF_vars(Advance(Job))

Spec == Init /\ [][Next]_vars /\ Fairness

-----------------------------------------------------------------------------
(* Properties *)

Quiet(i) == \A w \in Workers : job[w].inv # i
Sound(i) == Quiet(i) /\ i \notin raced \union lost

\* What account 1200 should hold, going by the document; a payment beyond
\* the amount of the invoice stays as a credit.
Claim(i) ==
    CASE invoices[i].stage \in Posted \union {"Paid"} -> Outstanding(i)
      [] invoices[i].stage = "Written Off" ->
             IF Outstanding(i) < 0 THEN Outstanding(i) ELSE 0
      [] OTHER -> 0

\* What was matched with an invoice is money that came in.
MoneyIn(i) == \A x \in Txs :
    txs[x].link = i /\ txs[x].origin # "payment" => txs[x].amount >= 0

\* The receivable is what the invoice says is owed: however sales, payments,
\* refunds, matches, cancellations, write-offs and credit notes alternate,
\* every one of them clears what the earlier ones left.  Left out are invoices
\* that two requests wrote at once, that a fault left half done, that were
\* paid while nothing stood against them, or by a match that leaves the
\* receivable as it was, or worse: with a transaction matched before, not yet
\* posted, or of money that went out, none of which match refuses.
ReceivableFollows ==
    \A i \in Invoices :
        /\ Sound(i) /\ MoneyIn(i)
        /\ i \notin astray \union rematched \union unmoved
        => receivable[i] = Claim(i) - credited[i]

Banked(i) == SumFunctionOnSet([x \in Txs |-> txs[x].amount],
                              {x \in Txs : txs[x].link = i})

\* An invoice counts as paid exactly what Banking shows for it, by whichever
\* way the money came in (invoice.service.ts:733-741), and went back out by a
\* payment below zero; unless a transaction was matched twice, or one of money
\* that went out, for which match pays its absolute value.
PaidIsBanked ==
    \A i \in Invoices : Sound(i) /\ MoneyIn(i) /\ i \notin rematched =>
        invoices[i].paid = Banked(i)

InvoicesOf(e) == {i \in Invoices : e \in Range(invoices[i].lines)}

\* A client is billed for an hour once: once nobody is billing an entry, it
\* is on the one invoice that its record names, on one line of it, or on none;
\* unless a request died at it, two requests billed it at the same time, or
\* one request listed it twice, which nothing refuses.
BilledOnce ==
    \A e \in Entries \ (lost \union raced \union repeated) :
        (\A h \in Handlers : e \notin Range(job[h].entries)) =>
            /\ InvoicesOf(e) = {entries[e].invoice} \ {NoInvoice}
            /\ \A i \in Invoices : e \notin Twice(invoices[i].lines)

\* An invoice is cancelled only while no money of it is in Banking
\* (invoice.service.ts:914-917), whichever way the money came and however
\* long before; unless another request is at the invoice at that moment, or
\* what Banking shows for it is not what the invoice counts (PaidIsBanked).
CancelledUnpaid ==
    [][\A i \in Invoices :
          /\ invoices[i].stage # "Cancelled"
          /\ invoices'[i].stage = "Cancelled"
          /\ i \notin raced' \union lost \union rematched /\ MoneyIn(i)
          /\ \A v, w \in Workers : job[v].inv = i /\ job[w].inv = i => v = w
          => Banked(i) = 0]_vars

\* The instalments of a plan add up to the invoice that they replace, and
\* all of them exist (invoice.service.ts:1231-1234).
PlanCoversDebt ==
    \A i \in Invoices \ raced : plans[i] # {} =>
        SumFunctionOnSet([j \in Invoices |-> Payable(j)], plans[i]) = Payable(i)

\* Debits equal credits: every posting balances, as GlPostingService asks of
\* its callers (gl-posting.service.ts:31-32), and so do the books.
BooksBalance ==
    SumFunctionOnSet(ledger, Account) + SumFunctionOnSet(receivable, Invoices)
        = 0

\* An approved instalment that is due does not wait for ever: the daily job
\* sends it, whatever fails meanwhile.
InstalmentsGoOut ==
    \A i \in Invoices :
        i \in due /\ invoices[i].original # NoInvoice
            /\ invoices[i].stage = "Approved"
        ~> invoices[i].stage # "Approved"
=============================================================================
