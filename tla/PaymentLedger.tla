---------------------------- MODULE PaymentLedger ----------------------------
(***************************************************************************)
(* The money of one booking: the payment ledger and the totals kept on the *)
(* booking (Services/bookingPayment.service.ts), hall invoices and their   *)
(* payment webhook (Services/easyCount/index.ts, hallBalance.ts,           *)
(* syncPayment.ts), the receipt of the advance (advanceReceipt.ts) and the *)
(* operations of the booking that write the advance                        *)
(* (booking/bookingLifecycle.service.ts).                                  *)
(*                                                                         *)
(* The database runs at READ COMMITTED: a transaction sees its own rows and *)
(* what has been committed when a statement runs.  A caller is a request or *)
(* a webhook being served; its steps are the statements whose order against *)
(* other callers matters, and job[p].rows is what its open transaction has  *)
(* written.  A unique document id makes the second of two inserts wait for  *)
(* the first transaction and fail if that one commits.                      *)
(*                                                                         *)
(* Amounts are whole units of the rounded money, so the tolerance of 0.01  *)
(* disappears.  The hall amount does not change; the event is not archived; *)
(* paymentStatus and the payment deadline are functions of what is here.    *)
(***************************************************************************)
EXTENDS Naturals, FiniteSetsExt

CONSTANTS
    Callers,    \* requests and webhooks served at the same time
    Invoices,   \* external ids of the hall invoices EasyCount may give out
    Amounts,    \* amounts callers may name; a mix takes some of them
    Hall,       \* getHallBillableAmount of the booking
    Ledgers,    \* the traffic mixes: records of the fields read below
    NoDoc       \* no document id

ASSUME LedgerAssumption ==
    /\ Hall \in Nat
    /\ Amounts \subseteq Nat \ {0}
    /\ IsFiniteSet(Invoices)
    /\ \A m \in Ledgers :
          /\ m.amounts \subseteq Amounts /\ m.calls \in Nat /\ m.option \in BOOLEAN
          /\ m.advance \in Nat /\ m.total \in Nat
          /\ m.option => m.advance = 0 /\ m.total = 0  \* an option is created with neither
    /\ NoDoc \notin Invoices \cup Nat
    /\ \A i \in Invoices : i \notin Nat  \* Nat are the ids of EasyCount's receipts

VARIABLES
    mix,       \* the mix this behaviour runs under
    calls,     \* bound: operations that may still begin
    booking,   \* isOption, advancePaid, totalPaid and the receipt's fields
    ledger,    \* the committed BookingPayment rows
    serial,    \* the next row id, in the order of creation
    invoices,  \* status, amount and first status of each HallInvoice
    step,      \* where each caller is
    job,       \* what it was asked and what it has read and written
    astray,    \* history: the stored total was written beside the ledger
    crossed,   \* history: two transactions ran on the empty ledger
    mirrored,  \* history: a total was copied into advancePaid
    edited,    \* history: an event's advance was written again, or is to take the
               \* place of a larger total on an empty ledger
    agreed,    \* history: the advance the booking became an event with
    received,  \* history: the money received beside it
    overlaps,  \* history: an invoice was stored after another one's check
    revived,   \* history: a cancelled invoice came back
    receipts,  \* history: tax documents EasyCount issued for the advance
    excuses    \* history: forced, unanswered or simultaneous issues

moneyHistory == <<astray, crossed, mirrored, edited, agreed, received>>
receiptHistory == <<receipts, excuses>>
invoiceHistory == <<overlaps, revived>>
paymentVars == <<mix, calls, booking, ledger, serial, invoices, step, job,
                 moneyHistory, receiptHistory, invoiceHistory>>

Docs == Invoices \cup Nat \cup {NoDoc}
Sources == {"ADVANCE", "MANUAL", "EASYCOUNT_INVOICE"}
Rows == [n : Nat, source : Sources, amount : Nat, doc : Docs]
ReceiptStatus == {"none", "ISSUED", "SIMULATED", "FAILED"}
BookingRows == [option : BOOLEAN, advance : Nat, total : Nat, doc : Docs,
                receipt : ReceiptStatus]
InvoiceStatus == {"none", "pending", "paid", "cancelled", "failed"}
Steps == {"idle", "open", "hook", "hookInsert", "find", "write", "sum", "commit",
          "receipt", "createDoc", "store", "ensure", "balance", "post", "file"}
\* Steps inside a payment transaction.
InTransaction == {"hookInsert", "write", "sum", "commit"}

Nobody == [kind |-> "none", amount |-> 0, doc |-> NoDoc, status |-> "none",
           read |-> 0, legacyDoc |-> NoDoc, target |-> 0, rows |-> {}, total |-> 0,
           advance |-> 0, fresh |-> TRUE, known |-> {}, force |-> FALSE, chain |-> FALSE]

PaymentInit ==
    /\ mix \in Ledgers
    /\ calls = mix.calls
    /\ booking = [option |-> mix.option, advance |-> mix.advance, total |-> mix.total,
                  doc |-> NoDoc, receipt |-> "none"]
    /\ ledger = {}
    /\ serial = 1
    /\ invoices = [i \in Invoices |-> [status |-> "none", amount |-> 0, first |-> "none"]]
    /\ step = [p \in Callers |-> "idle"]
    /\ job = [p \in Callers |-> Nobody]
    /\ astray = FALSE /\ crossed = FALSE /\ mirrored = FALSE /\ edited = FALSE
    /\ agreed = IF mix.advance > mix.total THEN mix.advance ELSE mix.total
    /\ received = 0
    /\ overlaps = FALSE /\ revived = FALSE
    /\ receipts = 0 /\ excuses = 0

(***************************************************************************)
(* The ledger as a transaction sees it.                                    *)
(***************************************************************************)

Larger(a, b) == IF a > b THEN a ELSE b

AmountOf(rows) == MapThenSumSet(LAMBDA r : r.amount, rows)

\* The committed rows with the caller's own in place of those it rewrote.
View(p) == {r \in ledger : \A o \in job[p].rows : o.n # r.n} \cup job[p].rows

Advances(rows) == {r \in rows : r.source = "ADVANCE"}
First(rows) == CHOOSE r \in rows : \A o \in rows : r.n <= o.n

OnLedger(d) == d # NoDoc /\ \E r \in ledger : r.doc = d

\* An insert waits for a transaction that has the same document id in hand.
Waits(p, rows) ==
    \E q \in Callers \ {p} : \E o \in job[q].rows : \E r \in rows :
        o.n = r.n \/ (o.doc = r.doc /\ r.doc # NoDoc)

Refused(rows) ==
    \E e \in ledger : \E r \in rows : e.n # r.n /\ e.doc = r.doc /\ r.doc # NoDoc

\* Mutant: the seed is the advance alone, what else was paid is dropped.
SeedOfAdvance(advance, total, doc) ==
    IF ledger = {} /\ advance > 0
    THEN {[n |-> serial, source |-> "ADVANCE", amount |-> advance, doc |-> doc]}
    ELSE {}

\* ensureLegacyAdvanceSeeded: an empty ledger first receives what the booking
\* says was paid.
Seed(advance, total, doc) ==
    IF ledger = {} /\ Larger(advance, total) > 0
    THEN {[n |-> serial, source |-> "ADVANCE", amount |-> Larger(advance, total), doc |-> doc]}
    ELSE {}

Begin(p, next, j) ==
    /\ step[p] = "idle" /\ calls > 0
    /\ calls' = calls - 1
    /\ step' = [step EXCEPT ![p] = next]
    /\ job' = [job EXCEPT ![p] = j]
    /\ UNCHANGED mix

\* The caller goes on to ensureAdvanceOnLedger or is done.
Leave(p) ==
    /\ step' = [step EXCEPT ![p] = IF job[p].chain THEN "ensure" ELSE "idle"]
    /\ job' = [job EXCEPT ![p] = Nobody]

Goto(p, next) == step' = [step EXCEPT ![p] = next]

\* What a step inside a transaction leaves alone.
Uncommitted == UNCHANGED <<mix, calls, booking, ledger, invoices, moneyHistory,
                           receiptHistory, invoiceHistory>>

(***************************************************************************)
(* recordPayment, asked by createBookingPayment.                           *)
(***************************************************************************)

\* A document id already on the ledger answers the request without a change.
Pay(p, amount, d) ==
    /\ "pay" \in mix.kinds /\ ~booking.option /\ ~OnLedger(d)
    /\ Begin(p, "open", [Nobody EXCEPT !.kind = "manual", !.amount = amount, !.doc = d])
    /\ UNCHANGED <<booking, ledger, serial, invoices, moneyHistory, receiptHistory,
                   invoiceHistory>>

OpenPayment(p) ==
    /\ step[p] = "open"
    /\ LET seed == Seed(booking.advance, booking.total, booking.doc)
           rows == seed \cup {[n |-> serial + 1, source |-> "MANUAL",
                               amount |-> job[p].amount, doc |-> job[p].doc]}
       IN  /\ ~Waits(p, rows)
           /\ IF Refused(rows)
              THEN Leave(p) /\ UNCHANGED serial
              ELSE /\ job' = [job EXCEPT ![p].rows = rows]
                   /\ serial' = serial + 2
                   /\ Goto(p, "sum")
    /\ Uncommitted

(***************************************************************************)
(* The end of every payment transaction: sum the ledger, read the first    *)
(* advance, write the booking, commit.                                     *)
(***************************************************************************)

\* applyPaidAggregates keeps a stored advance when no row is one; the webhook's
\* own copy of it does not.
AdvanceOf(p, total) ==
    LET rows == Advances(View(p)) IN
    IF rows # {} THEN First(rows).amount
    ELSE IF job[p].kind # "hook" /\ booking.advance > 0 THEN booking.advance
    ELSE total

\* Mutant: the sum is taken over what was committed before the payment.
SumBefore(p) == AmountOf(ledger)

SumLedgerPayments(p) == AmountOf(View(p))

SumUp(p) ==
    /\ step[p] = "sum"
    /\ LET total == SumLedgerPayments(p) IN
       job' = [job EXCEPT ![p].total = total, ![p].advance = AdvanceOf(p, total),
                          ![p].fresh = TRUE]
    /\ Goto(p, "commit")
    /\ UNCHANGED serial /\ Uncommitted

Received(p) ==
    IF job[p].kind = "advance" \/ OnLedger(job[p].doc) THEN 0 ELSE job[p].amount

Commit(p) ==
    /\ step[p] = "commit"
    /\ ledger' = View(p)
    /\ booking' = [booking EXCEPT !.total = job[p].total, !.advance = job[p].advance]
    /\ invoices' = IF job[p].kind = "hook"
                   THEN [invoices EXCEPT ![job[p].doc].status = "paid"] ELSE invoices
    /\ revived' = (revived \/ (/\ job[p].kind = "hook"
                               /\ invoices[job[p].doc].status \in {"cancelled", "failed"}))
    /\ received' = received + Received(p)
    /\ astray' = ~job[p].fresh
    /\ crossed' = (crossed \/ (/\ ledger = {}
                               /\ \E q \in Callers \ {p} : step[q] \in InTransaction))
    /\ mirrored' = (mirrored \/ (Advances(View(p)) = {} /\ job[p].advance > 0))
    /\ step' = [step EXCEPT ![p] = IF job[p].chain THEN "ensure" ELSE "idle"]
    /\ job' = [q \in Callers |-> IF q = p THEN Nobody ELSE [job[q] EXCEPT !.fresh = FALSE]]
    /\ UNCHANGED <<mix, calls, serial, edited, agreed, overlaps, receiptHistory>>

(***************************************************************************)
(* applyHallInvoicePayment: the webhook of EasyCount.                      *)
(***************************************************************************)

\* The invoice is read with its booking before the transaction.  The notification may
\* say how much was paid; otherwise it is the invoice's amount.
Notify(p, i, status, amount) ==
    /\ "hook" \in mix.kinds /\ invoices[i].status # "none"
    /\ amount \in mix.amounts \cup {invoices[i].amount}
    /\ ~(invoices[i].status = "paid" /\ status = "paid")
    /\ Begin(p, "hook", [Nobody EXCEPT
                            !.kind = "hook", !.amount = amount, !.doc = i,
                            !.status = status, !.legacyDoc = booking.doc,
                            !.read = Larger(booking.advance, booking.total)])
    /\ UNCHANGED <<booking, ledger, serial, invoices, moneyHistory, receiptHistory,
                   invoiceHistory>>

\* The update of the invoice row makes a second notification of it wait.
InvoiceFree(p) ==
    \A q \in Callers \ {p} :
        job[q].kind = "hook" /\ job[q].doc = job[p].doc => step[q] \notin InTransaction

\* Any status but paid is written as it comes, after a payment too.
RecordStatus(p) ==
    /\ step[p] = "hook" /\ job[p].status # "paid" /\ InvoiceFree(p)
    /\ invoices' = [invoices EXCEPT ![job[p].doc].status = job[p].status]
    /\ revived' = (revived \/ (/\ invoices[job[p].doc].status \in {"cancelled", "failed"}
                               /\ job[p].status = "pending"))
    /\ Leave(p)
    /\ UNCHANGED <<mix, calls, booking, ledger, serial, moneyHistory, receiptHistory, overlaps>>

\* Mutant: a row is written for an invoice that was pending, and for no other.
NewOnLedgerIfPending(d) == invoices[d].status = "pending" /\ ~OnLedger(d)

\* The ledger has no row of this invoice yet.
NewOnLedger(d) == ~OnLedger(d)

\* The invoice is locked, an empty ledger is seeded from the booking as it was
\* read before, and the row of the invoice is looked for.
OpenHook(p) ==
    /\ step[p] = "hook" /\ job[p].status = "paid" /\ InvoiceFree(p)
    /\ LET seed == Seed(job[p].read, 0, job[p].legacyDoc) IN
       /\ ~Waits(p, seed)
       /\ IF Refused(seed)
          THEN Leave(p) /\ UNCHANGED serial
          ELSE /\ job' = [job EXCEPT ![p].rows = seed]
               /\ serial' = serial + 1
               /\ Goto(p, IF NewOnLedger(job[p].doc) THEN "hookInsert" ELSE "sum")
    /\ Uncommitted

InsertInvoicePayment(p) ==
    /\ step[p] = "hookInsert"
    /\ LET new == {[n |-> serial, source |-> "EASYCOUNT_INVOICE",
                    amount |-> job[p].amount, doc |-> job[p].doc]}
       IN  /\ ~Waits(p, new)
           /\ IF Refused(new)
              THEN Leave(p) /\ UNCHANGED serial
              ELSE /\ job' = [job EXCEPT ![p].rows = @ \cup new]
                   /\ serial' = serial + 1
                   /\ Goto(p, "sum")
    /\ Uncommitted

(***************************************************************************)
(* Operations of the booking that write the advance: updateBooking, on an  *)
(* option (which it converts) and on an event, and finalizeBooking.        *)
(***************************************************************************)

WriteAdvance(p, amount, total) ==
    /\ Begin(p, "receipt", [Nobody EXCEPT !.chain = TRUE])
    /\ booking' = [booking EXCEPT !.option = FALSE, !.advance = amount, !.total = total]
    /\ agreed' = IF booking.option THEN amount ELSE agreed
    /\ edited' = (edited \/ ~booking.option)
    /\ UNCHANGED <<ledger, serial, invoices, crossed, mirrored, received,
                   receiptHistory, invoiceHistory>>

\* The form sends the advance: the stored total becomes the advance.
UpdateBooking(p, amount) ==
    /\ "edit" \in mix.kinds
    /\ WriteAdvance(p, amount, amount)
    /\ astray' = TRUE

FinalizeBooking(p, amount) ==
    /\ "finalize" \in mix.kinds
    /\ WriteAdvance(p, amount, booking.total)
    /\ UNCHANGED astray

(***************************************************************************)
(* issueEasyCountReceiptForBooking and ensureAdvanceOnLedger.              *)
(***************************************************************************)

Reissue(p, force) ==
    /\ "reissue" \in mix.kinds /\ ~booking.option /\ booking.advance > 0
    /\ Begin(p, "receipt", [Nobody EXCEPT !.force = force])
    /\ edited' = (edited \/ (ledger = {} /\ booking.total > booking.advance))
    /\ UNCHANGED <<booking, ledger, serial, invoices, astray, crossed, mirrored, agreed,
                   received, receiptHistory, invoiceHistory>>

\* Mutant: a receipt that is there does not stop another.
MayIssueAgain(force) == booking.advance > 0

\* Nothing issued yet, a failure or a simulation without a document, or force.
MayIssue(force) ==
    /\ booking.advance > 0
    /\ \/ force
       \/ booking.receipt \in {"none", "FAILED"}
       \/ booking.receipt = "SIMULATED" /\ booking.doc = NoDoc

OthersIssue(p) == \E q \in Callers \ {p} : step[q] \in {"createDoc", "store"}

CheckReceipt(p) ==
    /\ step[p] = "receipt"
    /\ IF MayIssue(job[p].force)
       THEN /\ Goto(p, "createDoc")
            /\ job' = [job EXCEPT ![p].amount = booking.advance, ![p].kind = "advance",
                                  ![p].read = IF OthersIssue(p) THEN 0 ELSE receipts]
       ELSE Leave(p)
    /\ UNCHANGED serial /\ Uncommitted

\* The call to EasyCount is switched off: the advance goes to the ledger only.
SkipReceipt(p) ==
    /\ step[p] = "createDoc" /\ mix.mode = "off"
    /\ Goto(p, "find")
    /\ UNCHANGED <<job, serial>> /\ Uncommitted

One(condition) == IF condition THEN 1 ELSE 0

\* History: another receipt was on its way at this one's check, or came after it.
Simultaneous(p) == OthersIssue(p) \/ receipts > job[p].read

\* EasyCount answers with a document, with one it does not name, or not at all;
\* without an answer the document may have been issued.
CreateDoc(p, issued, answered, named) ==
    /\ step[p] = "createDoc" /\ mix.mode # "off"
    /\ (mix.mode = "simulation" => issued /\ answered /\ named)
    /\ (answered => issued)
    /\ job' = [job EXCEPT
                  ![p].status = IF ~answered THEN "FAILED"
                                ELSE IF mix.mode = "simulation" THEN "SIMULATED" ELSE "ISSUED",
                  ![p].doc = IF answered /\ named THEN serial ELSE NoDoc]
    /\ serial' = serial + 1
    /\ receipts' = IF issued /\ mix.mode = "live" THEN receipts + 1 ELSE receipts
    /\ excuses' = excuses + One(job[p].force) + One(~answered) + One(Simultaneous(p))
    /\ Goto(p, "store")
    /\ UNCHANGED <<mix, calls, booking, ledger, invoices, moneyHistory, invoiceHistory>>

StoreReceipt(p) ==
    /\ step[p] = "store"
    /\ booking' = [booking EXCEPT !.receipt = job[p].status, !.doc = job[p].doc]
    /\ IF job[p].status = "FAILED" THEN Leave(p) ELSE Goto(p, "find") /\ UNCHANGED job
    /\ UNCHANGED <<mix, calls, ledger, serial, invoices, moneyHistory, receiptHistory,
                   invoiceHistory>>

EnsureAdvance(p) ==
    /\ step[p] = "ensure"
    /\ IF booking.advance > 0
       THEN /\ Goto(p, "find")
            /\ job' = [job EXCEPT ![p] = [Nobody EXCEPT !.kind = "advance", !.doc = booking.doc,
                                                        !.amount = booking.advance]]
       ELSE Leave(p)
    /\ UNCHANGED serial /\ Uncommitted

\* recordAdvancePayment: nothing to do when the document is on the ledger;
\* otherwise the first advance is looked for.
FindAdvance(p) ==
    /\ step[p] = "find"
    /\ IF OnLedger(job[p].doc)
       THEN Leave(p)
       ELSE /\ Goto(p, "write")
            /\ job' = [job EXCEPT ![p].target =
                          IF Advances(ledger) = {} THEN 0 ELSE First(Advances(ledger)).n]
    /\ UNCHANGED serial /\ Uncommitted

\* Mutant: the advance row always takes the new document.
AdvanceRowRenamed(p) ==
    IF job[p].target = 0
    THEN [n |-> serial, source |-> "ADVANCE", amount |-> job[p].amount, doc |-> job[p].doc]
    ELSE [n |-> job[p].target, source |-> "ADVANCE", amount |-> job[p].amount, doc |-> job[p].doc]

\* The advance row takes the amount, and the document if it had none.
AdvanceRow(p) ==
    LET new == [n |-> serial, source |-> "ADVANCE", amount |-> job[p].amount, doc |-> job[p].doc]
        old == CHOOSE r \in ledger : r.n = job[p].target
    IN  IF job[p].target = 0 THEN new
        ELSE [old EXCEPT !.amount = job[p].amount,
                         !.doc = IF old.doc = NoDoc THEN job[p].doc ELSE old.doc]

WriteAdvanceRow(p) ==
    /\ step[p] = "write" /\ ~Waits(p, {AdvanceRow(p)})
    /\ IF Refused({AdvanceRow(p)})
       THEN Leave(p) /\ UNCHANGED serial
       ELSE /\ job' = [job EXCEPT ![p].rows = {AdvanceRow(p)}]
            /\ serial' = serial + 1
            /\ Goto(p, "sum")
    /\ Uncommitted

(***************************************************************************)
(* createHallInvoice: read the booking, read the invoices and check the    *)
(* amount, call EasyCount, store the invoice.                              *)
(***************************************************************************)

InvoiceTotal(statuses) ==
    MapThenSumSet(LAMBDA i : invoices[i].amount,
                  {i \in Invoices : invoices[i].status \in statuses})

Stored == {i \in Invoices : invoices[i].status # "none"}

AskInvoice(p, amount) ==
    /\ "invoice" \in mix.kinds /\ ~booking.option
    /\ Begin(p, "balance", [Nobody EXCEPT !.kind = "invoice", !.amount = amount,
                                          !.read = booking.total])
    /\ UNCHANGED <<booking, ledger, serial, invoices, moneyHistory, receiptHistory,
                   invoiceHistory>>

\* Mutant: only what is paid counts against the ceiling.
CommittedIfPaid(paid) == Larger(paid, InvoiceTotal({"paid"}))

\* committedTotal of computeHallBalanceBreakdown: the larger of the stored total
\* and the paid invoices, and the invoices that wait for payment.
Committed(paid) == Larger(paid, InvoiceTotal({"paid"})) + InvoiceTotal({"pending"})

CheckBalance(p) ==
    /\ step[p] = "balance"
    /\ IF Committed(job[p].read) + job[p].amount <= Hall
       THEN /\ Goto(p, "post")
            /\ job' = [job EXCEPT ![p].known = Stored]
       ELSE Leave(p)
    /\ UNCHANGED serial /\ Uncommitted

\* EasyCount refuses or does not answer: no row.
PostFails(p) ==
    /\ step[p] = "post"
    /\ Leave(p)
    /\ UNCHANGED serial /\ Uncommitted

\* EasyCount's first status is pending, or paid at once.
StoreInvoice(p, i, status) ==
    /\ step[p] = "post" /\ invoices[i].status = "none"
    /\ invoices' = [invoices EXCEPT ![i] = [status |-> status, amount |-> job[p].amount,
                                            first |-> status]]
    /\ overlaps' = (overlaps \/ Stored # job[p].known)
    /\ Leave(p)
    /\ UNCHANGED <<mix, calls, booking, ledger, serial, moneyHistory, receiptHistory, revived>>

(***************************************************************************)
(* The specification.                                                      *)
(***************************************************************************)

Transaction(p) ==
    \/ OpenPayment(p) \/ OpenHook(p) \/ InsertInvoicePayment(p)
    \/ FindAdvance(p) \/ WriteAdvanceRow(p) \/ SumUp(p) \/ Commit(p)

PaymentNext ==
    \E p \in Callers :
        \/ Transaction(p)
        \/ RecordStatus(p) \/ CheckReceipt(p) \/ SkipReceipt(p) \/ StoreReceipt(p)
        \/ EnsureAdvance(p) \/ CheckBalance(p) \/ PostFails(p)
        \/ \E amount \in mix.amounts :
              \/ UpdateBooking(p, amount) \/ FinalizeBooking(p, amount) \/ AskInvoice(p, amount)
              \/ \E d \in Invoices \cup {NoDoc} : Pay(p, amount, d)
        \/ \E force \in BOOLEAN : Reissue(p, force)
        \/ \E issued, answered, named \in BOOLEAN : CreateDoc(p, issued, answered, named)
        \/ \E i \in Invoices :
              \/ \E status \in InvoiceStatus \ {"none"},
                    amount \in mix.amounts \cup {invoices[i].amount} :
                    Notify(p, i, status, amount)
              \/ \E status \in {"pending", "paid"} : StoreInvoice(p, i, status)

PaymentSpec == PaymentInit /\ [][PaymentNext]_paymentVars

(***************************************************************************)
(* Properties.                                                             *)
(***************************************************************************)

Jobs == [kind : {"none", "manual", "hook", "advance", "invoice"}, amount : Nat, doc : Docs,
         status : InvoiceStatus \cup ReceiptStatus, read : Nat, legacyDoc : Docs,
         target : Nat, rows : SUBSET Rows, total : Nat, advance : Nat, fresh : BOOLEAN,
         known : SUBSET Invoices, force : BOOLEAN, chain : BOOLEAN]

\* Type invariant; a transaction that writes an invoice names one.
PaymentTypeOK ==
    /\ mix \in Ledgers
    /\ calls \in Nat
    /\ booking \in BookingRows
    /\ ledger \subseteq Rows
    /\ serial \in Nat
    /\ invoices \in [Invoices -> [status : InvoiceStatus, amount : Nat, first : InvoiceStatus]]
    /\ step \in [Callers -> Steps]
    /\ job \in [Callers -> Jobs]
    /\ \A p \in Callers : job[p].kind = "hook" => job[p].doc \in Invoices
    /\ {astray, crossed, mirrored, edited, overlaps, revived} \subseteq BOOLEAN
    /\ {agreed, received, receipts, excuses} \subseteq Nat

\* The stored total is the sum of the ledger (bookingPayment.service.ts:1-4),
\* unless the last payment was summed before another one committed, or the form
\* wrote the total; the next payment that is not disturbed repairs both.
TotalIsLedger == ledger # {} /\ ~astray => booking.total = AmountOf(ledger)

\* The ledger holds what was paid, each payment once: the money from before the
\* ledger (bookingPayment.service.ts:89-92), and every later payment, notified
\* any number of times and under the same document id by hand.  Excused: two
\* first payments at once, a total mirrored into the advance, an edited advance,
\* and a receipt asked for before the larger total of an old booking was seeded.
LedgerHoldsPayments ==
    ledger # {} /\ ~crossed /\ ~mirrored /\ ~edited => AmountOf(ledger) = agreed + received

\* An invoice that EasyCount reported paid has its row, whatever was reported
\* before and however often.
PaidInvoiceOnLedger ==
    \A i \in Invoices :
        invoices[i].status = "paid" /\ invoices[i].first = "pending" => OnLedger(i)

\* The invoices that EasyCount reported paid after it had them pending.
SettledInvoices == {i \in Invoices : invoices[i].status = "paid" /\ invoices[i].first = "pending"}

Book == INSTANCE PaymentBook WITH
            Documents <- Invoices \cup Nat, NoDocument <- NoDoc,
            entries <- ledger, settled <- SettledInvoices

\* The transactions write the ledger as a book of payments (bookingPayment.service.ts:1-4):
\* whichever overlap, no commit loses a row, counts a document twice or takes a document
\* away, only the advance is restated, and a paid invoice has its row.
IsBook == Book!Spec

\* Invoices that are paid or wait for payment stay within the hall amount
\* (hallBalance.ts:9-12), unless one was stored between another one's check and
\* its row, or a cancelled one came back.
NeverOverInvoiced == ~overlaps /\ ~revived => InvoiceTotal({"pending", "paid"}) <= Hall

\* EasyCount issues one tax document for the advance, and one more for each
\* issue that was forced, left unanswered or simultaneous with another.
OneReceipt == receipts <= 1 + excuses

\* The claim of bookingPayment.service.ts:2-3: with nobody at work, the total on
\* the booking is derived from the ledger.
PaidIsDerived ==
    ledger # {} /\ (\A p \in Callers : step[p] = "idle") => booking.total = AmountOf(ledger)
=============================================================================
