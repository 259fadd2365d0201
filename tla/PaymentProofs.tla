---------------------------- MODULE PaymentProofs ----------------------------
(***************************************************************************)
(* Theorems about PaymentLedger for every number of callers, set of        *)
(* invoices, hall amount and mix of traffic.                               *)
(*                                                                         *)
(* Four invariants, each resting on those before it.  LedgerInv: the       *)
(* stored total follows the ledger and paid invoices have rows; it says    *)
(* which fields a record has and leaves AmountOf unexpanded.  HoldsInv:    *)
(* what the ledger amounts to, which needs amounts and the sums of the     *)
(* section before it.  BalanceInv: what the invoices amount to.  BookInv:  *)
(* which documents and rows a caller has in hand, from which the ledger    *)
(* implements the book of PaymentBook.                                     *)
(***************************************************************************)
EXTENDS PaymentLedger, FiniteSetTheorems, WellFoundedInduction, TLAPS

JobLike(j) == DOMAIN j = DOMAIN Nobody
RowLike(r) == DOMAIN r = {"n", "source", "amount", "doc"}
InvoiceLike(i) == DOMAIN i = {"status", "amount", "first"}
BookingLike(b) == DOMAIN b = {"option", "advance", "total", "doc", "receipt"}

\* Rows have numbers that were given out, each its own.
Numbered(rows, next) ==
    /\ \A r \in rows : RowLike(r) /\ r.n \in Nat /\ r.n # 0 /\ r.n < next
    /\ \A r, o \in rows : r.n = o.n => r = o

Shape ==
    /\ DOMAIN step = Callers
    /\ DOMAIN job = Callers /\ \A p \in Callers : JobLike(job[p])
    /\ job = [p \in Callers |-> job[p]]
    /\ DOMAIN invoices = Invoices /\ \A i \in Invoices : InvoiceLike(invoices[i])
    /\ BookingLike(booking)
    /\ serial \in Nat /\ serial # 0
    /\ Numbered(ledger, serial)
    /\ \A p \in Callers : Numbered(job[p].rows, serial)

\* Two transactions never have the same row in hand.
OwnRows ==
    \A p, q \in Callers : p # q => \A o \in job[p].rows : \A r \in job[q].rows : o.n # r.n

\* A row that is rewritten keeps its document.
KeepsDoc(rows) == \A o \in rows : \A r \in ledger : o.n = r.n => r.doc \in {NoDoc, o.doc}
Faithful == \A p \in Callers : KeepsDoc(job[p].rows)

\* The advance to rewrite is on the ledger.
Aimed ==
    \A p \in Callers :
        step[p] = "write" /\ job[p].target # 0 => \E r \in ledger : r.n = job[p].target

\* A webhook that is about to commit has its row, committed or in hand.
HasRow(j) == OnLedger(j.doc) \/ \E o \in j.rows : o.doc = j.doc
HookAt(s, j) ==
    j.kind = "hook" =>
        /\ j.doc \in Invoices
        /\ s \in {"hook", "hookInsert", "sum", "commit"}
        /\ s \in {"sum", "commit"} => HasRow(j)
Hooked == \A p \in Callers : HookAt(step[p], job[p])

\* A sum no commit has disturbed is the sum of what will be the ledger.
Summed ==
    \A p \in Callers : step[p] = "commit" /\ job[p].fresh => job[p].total = AmountOf(View(p))

LedgerInv == /\ Shape /\ OwnRows /\ Faithful /\ Aimed /\ Hooked /\ Summed
             /\ TotalIsLedger /\ PaidInvoiceOnLedger

\* What the steps outside a commit do to the invoices and to the stored total.
InvoicesKept ==
    /\ DOMAIN invoices' = Invoices
    /\ \A i \in Invoices :
          /\ InvoiceLike(invoices'[i])
          /\ invoices'[i].status = "paid" /\ invoices'[i].first = "pending" =>
                invoices[i].status = "paid" /\ invoices[i].first = "pending"
TotalKept ==
    /\ BookingLike(booking')
    /\ ~astray' => ~astray /\ booking'.total = booking.total
Aside ==
    /\ UNCHANGED ledger
    /\ serial' \in Nat /\ serial' >= serial
    /\ InvoicesKept /\ TotalKept

LEMMA LeastNatural ==
    ASSUME NEW T \in SUBSET Nat, T # {}
    PROVE  \E x \in T : \A y \in T : x <= y
<1> DEFINE below(x) == 0 .. x
           B == {below(x) : x \in T}
<1>1. B # {} /\ B \subseteq FiniteSubsetsOf(Nat)
  <2>1. \A x \in T : below(x) \in SUBSET Nat /\ IsFiniteSet(below(x))
    BY FS_Interval
  <2> QED BY <2>1 DEF FiniteSubsetsOf
<1>2. PICK b \in B : \A c \in B : ~(<<c, b>> \in StrictSubsetOrdering(Nat))
  <2> HIDE DEF B
  <2> QED BY <1>1, WFMin, FS_StrictSubsetOrderingWellFounded
<1>3. PICK x \in T : b = below(x)
  BY <1>2
<1>4. ASSUME NEW y \in T, y < x
      PROVE  FALSE
  <2>1. below(y) \subseteq below(x) /\ below(y) # below(x)
    BY <1>4
  <2>2. below(y) \in SUBSET Nat /\ below(x) \in SUBSET Nat
    OBVIOUS
  <2>3. <<below(y), b>> \in StrictSubsetOrdering(Nat)
    BY <1>3, <2>1, <2>2 DEF StrictSubsetOrdering
  <2> QED BY <1>2, <2>3
<1> QED BY <1>4

\* The first of some rows is one of them.
LEMMA FirstIsOne ==
    ASSUME NEW rows, rows # {}, \A r \in rows : r.n \in Nat
    PROVE  First(rows) \in rows
<1>1. {r.n : r \in rows} \in SUBSET Nat /\ {r.n : r \in rows} # {}
  OBVIOUS
<1>2. \E x \in {r.n : r \in rows} : \A y \in {r.n : r \in rows} : x <= y
  BY <1>1, LeastNatural
<1>3. \E r \in rows : \A o \in rows : r.n <= o.n
  BY <1>2
<1> QED BY <1>3 DEF First

LEMMA LedgerInitial == PaymentInit => LedgerInv
<1> SUFFICES ASSUME PaymentInit PROVE LedgerInv
  OBVIOUS
<1>1. /\ ledger = {} /\ serial = 1 /\ step = [p \in Callers |-> "idle"]
      /\ job = [p \in Callers |-> Nobody]
      /\ invoices = [i \in Invoices |-> [status |-> "none", amount |-> 0, first |-> "none"]]
  BY DEF PaymentInit
<1>2. Nobody.rows = {} /\ Nobody.kind = "none" /\ JobLike(Nobody)
  BY DEF Nobody, JobLike
<1>3. Shape
  BY <1>1, <1>2 DEF Shape, PaymentInit, Numbered, InvoiceLike, BookingLike
<1>4. OwnRows /\ Faithful /\ Aimed /\ Hooked /\ Summed
  BY <1>1, <1>2 DEF OwnRows, Faithful, KeepsDoc, Aimed, Hooked, HookAt, Summed
<1>5. TotalIsLedger /\ PaidInvoiceOnLedger
  BY <1>1 DEF TotalIsLedger, PaidInvoiceOnLedger
<1> QED BY <1>3, <1>4, <1>5 DEF LedgerInv

\* A caller moves, with rows that are its own to write.
LEMMA MoveKeeps ==
    ASSUME LedgerInv, Aside, NEW p \in Callers, NEW s, NEW j, JobLike(j),
           step' = [step EXCEPT ![p] = s], job' = [job EXCEPT ![p] = j],
           Numbered(j.rows, serial'), KeepsDoc(j.rows),
           \A q \in Callers \ {p} : \A o \in j.rows : \A r \in job[q].rows : o.n # r.n,
           s = "write" /\ j.target # 0 => \E r \in ledger : r.n = j.target,
           HookAt(s, j),
           s = "commit" => j.rows = job[p].rows /\ j.total = AmountOf(View(p))
    PROVE  LedgerInv'
<1>1. /\ Shape /\ OwnRows /\ Faithful /\ Aimed /\ Hooked /\ Summed
      /\ TotalIsLedger /\ PaidInvoiceOnLedger
  BY DEF LedgerInv
<1>2. /\ DOMAIN step' = Callers /\ DOMAIN job' = Callers /\ step'[p] = s /\ job'[p] = j
      /\ \A q \in Callers \ {p} : step'[q] = step[q] /\ job'[q] = job[q]
  BY <1>1 DEF Shape
<1>3. /\ ledger' = ledger /\ serial' \in Nat /\ serial' >= serial
      /\ InvoicesKept /\ TotalKept
  BY DEF Aside
<1>4. Shape'
  <2>1. ASSUME NEW rows, Numbered(rows, serial)
        PROVE  Numbered(rows, serial')
    BY <1>1, <1>3, <2>1 DEF Shape, Numbered
  <2>2. Numbered(ledger', serial')
    BY <1>1, <1>3, <2>1 DEF Shape
  <2>3. \A q \in Callers : Numbered(job'[q].rows, serial') /\ JobLike(job'[q])
    BY <1>1, <1>2, <2>1 DEF Shape
  <2> QED BY <1>1, <1>2, <1>3, <2>2, <2>3 DEF Shape, InvoicesKept, TotalKept
<1>5. OwnRows'
  BY <1>1, <1>2 DEF OwnRows
<1>6. Faithful'
  BY <1>1, <1>2, <1>3 DEF Faithful, KeepsDoc
<1>7. Aimed'
  BY <1>1, <1>2, <1>3 DEF Aimed
<1>8. Hooked'
  BY <1>1, <1>2, <1>3 DEF Hooked, HookAt, HasRow, OnLedger
<1>9. Summed'
  <2>1. \A q \in Callers : job'[q].rows = job[q].rows => View(q)' = View(q)
    BY <1>3 DEF View
  <2> QED BY <1>1, <1>2, <2>1 DEF Summed
<1>10. TotalIsLedger'
  BY <1>1, <1>3 DEF TotalIsLedger, TotalKept
<1>11. PaidInvoiceOnLedger'
  BY <1>1, <1>3 DEF PaidInvoiceOnLedger, InvoicesKept, OnLedger
<1> QED BY <1>4, <1>5, <1>6, <1>7, <1>8, <1>9, <1>10, <1>11 DEF LedgerInv

\* A caller moves and writes no row.
LEMMA QuietMoveKeeps ==
    ASSUME LedgerInv, Aside, NEW p \in Callers, NEW s, NEW j, JobLike(j),
           step' = [step EXCEPT ![p] = s], job' = [job EXCEPT ![p] = j],
           j.rows = {} \/ j.rows = job[p].rows,
           s = "write" /\ j.target # 0 => \E r \in ledger : r.n = j.target,
           HookAt(s, j),
           s = "commit" => j.rows = job[p].rows /\ j.total = AmountOf(View(p))
    PROVE  LedgerInv'
<1>1. Shape /\ OwnRows /\ Faithful /\ serial' \in Nat /\ serial' >= serial
  BY DEF LedgerInv, Aside
<1>2. Numbered(j.rows, serial')
  BY <1>1 DEF Shape, Numbered
<1>3. KeepsDoc(j.rows)
  BY <1>1 DEF Faithful, KeepsDoc
<1>4. \A q \in Callers \ {p} : \A o \in j.rows : \A r \in job[q].rows : o.n # r.n
  BY <1>1 DEF OwnRows
<1> QED BY <1>2, <1>3, <1>4, MoveKeeps

LEMMA LeaveKeeps ==
    ASSUME LedgerInv, Aside, NEW p \in Callers, Leave(p)
    PROVE  LedgerInv'
<1>1. /\ JobLike(Nobody) /\ Nobody.rows = {} /\ Nobody.kind = "none"
      /\ HookAt(IF job[p].chain THEN "ensure" ELSE "idle", Nobody)
  BY DEF JobLike, Nobody, HookAt
<1>2. /\ step' = [step EXCEPT ![p] = IF job[p].chain THEN "ensure" ELSE "idle"]
      /\ job' = [job EXCEPT ![p] = Nobody]
  BY DEF Leave
<1>3. /\ (IF job[p].chain THEN "ensure" ELSE "idle") # "write"
      /\ (IF job[p].chain THEN "ensure" ELSE "idle") # "commit"
  OBVIOUS
<1> QED BY <1>1, <1>2, <1>3, QuietMoveKeeps

\* Rows with numbers not given out yet collide with nobody's.
LEMMA FreshRows ==
    ASSUME LedgerInv, NEW p \in Callers, NEW rows, \A r \in rows : r.n \in Nat /\ r.n >= serial
    PROVE  /\ KeepsDoc(rows)
           /\ \A q \in Callers \ {p} : \A o \in rows : \A r \in job[q].rows : o.n # r.n
<1>1. /\ serial \in Nat
      /\ \A r \in ledger : r.n \in Nat /\ r.n < serial
      /\ \A q \in Callers : \A r \in job[q].rows : r.n \in Nat /\ r.n < serial
  BY DEF LedgerInv, Shape, Numbered
<1> QED BY <1>1 DEF KeepsDoc

LEMMA SeedRows ==
    ASSUME NEW advance, NEW total, NEW doc
    PROVE  /\ \A r \in Seed(advance, total, doc) : RowLike(r) /\ r.n = serial
           /\ \A r, o \in Seed(advance, total, doc) : r = o
BY DEF Seed, RowLike

\* Fields of a job that changes.
LEMMA JobMoves ==
    ASSUME NEW j, JobLike(j), NEW rows
    PROVE  /\ JobLike([j EXCEPT !.rows = rows])
           /\ [j EXCEPT !.rows = rows].rows = rows
           /\ [j EXCEPT !.rows = rows].kind = j.kind /\ [j EXCEPT !.rows = rows].doc = j.doc
BY DEF JobLike, Nobody

LEMMA UncommittedAside ==
    ASSUME LedgerInv, Uncommitted, serial' \in Nat, serial' >= serial
    PROVE  Aside
<1>1. UNCHANGED <<booking, ledger, invoices, astray>>
  BY DEF Uncommitted, moneyHistory
<1>2. InvoicesKept /\ TotalKept
  BY <1>1 DEF LedgerInv, Shape, InvoicesKept, TotalKept
<1> QED BY <1>1, <1>2 DEF Aside

(***************************************************************************)
(* Beginning an operation.                                                 *)
(***************************************************************************)

\* What an operation begins with.
LEMMA BeginKeeps ==
    ASSUME LedgerInv, Aside, NEW p \in Callers, NEW s, NEW j, Begin(p, s, j),
           JobLike(j), j.rows = {}, s \notin {"write", "commit"}, HookAt(s, j)
    PROVE  LedgerInv'
<1>1. step' = [step EXCEPT ![p] = s] /\ job' = [job EXCEPT ![p] = j]
  BY DEF Begin
<1> QED BY <1>1, QuietMoveKeeps

LEMMA PayKeeps ==
    ASSUME LedgerInv, NEW p \in Callers, NEW amount, NEW d, Pay(p, amount, d)
    PROVE  LedgerInv'
<1> DEFINE j == [Nobody EXCEPT !.kind = "manual", !.amount = amount, !.doc = d]
<1>1. JobLike(j) /\ j.rows = {} /\ j.kind = "manual"
  BY DEF JobLike, Nobody
<1>2. Begin(p, "open", j) /\ UNCHANGED <<booking, ledger, serial, invoices, astray>>
  BY DEF Pay, moneyHistory
<1> HIDE DEF j
<1>3. Aside
  BY <1>2 DEF Aside, LedgerInv, Shape, InvoicesKept, TotalKept
<1> QED BY <1>1, <1>2, <1>3, BeginKeeps DEF HookAt

LEMMA NotifyKeeps ==
    ASSUME LedgerInv, NEW p \in Callers, NEW i \in Invoices, NEW status, NEW amount,
           Notify(p, i, status, amount)
    PROVE  LedgerInv'
<1> DEFINE j == [Nobody EXCEPT
                    !.kind = "hook", !.amount = amount, !.doc = i,
                    !.status = status, !.legacyDoc = booking.doc,
                    !.read = Larger(booking.advance, booking.total)]
<1>1. JobLike(j) /\ j.rows = {} /\ j.kind = "hook" /\ j.doc = i
  BY DEF JobLike, Nobody
<1>2. Begin(p, "hook", j) /\ UNCHANGED <<booking, ledger, serial, invoices, astray>>
  BY DEF Notify, moneyHistory
<1> HIDE DEF j
<1>3. Aside
  BY <1>2 DEF Aside, LedgerInv, Shape, InvoicesKept, TotalKept
<1> QED BY <1>1, <1>2, <1>3, BeginKeeps DEF HookAt

LEMMA ReissueKeeps ==
    ASSUME LedgerInv, NEW p \in Callers, NEW force, Reissue(p, force)
    PROVE  LedgerInv'
<1> DEFINE j == [Nobody EXCEPT !.force = force]
<1>1. JobLike(j) /\ j.rows = {} /\ j.kind = "none"
  BY DEF JobLike, Nobody
<1>2. Begin(p, "receipt", j) /\ UNCHANGED <<booking, ledger, serial, invoices, astray>>
  BY DEF Reissue, moneyHistory
<1> HIDE DEF j
<1>3. Aside
  BY <1>2 DEF Aside, LedgerInv, Shape, InvoicesKept, TotalKept
<1> QED BY <1>1, <1>2, <1>3, BeginKeeps DEF HookAt

LEMMA AskInvoiceKeeps ==
    ASSUME LedgerInv, NEW p \in Callers, NEW amount, AskInvoice(p, amount)
    PROVE  LedgerInv'
<1> DEFINE j == [Nobody EXCEPT !.kind = "invoice", !.amount = amount, !.read = booking.total]
<1>1. JobLike(j) /\ j.rows = {} /\ j.kind = "invoice"
  BY DEF JobLike, Nobody
<1>2. Begin(p, "balance", j) /\ UNCHANGED <<booking, ledger, serial, invoices, astray>>
  BY DEF AskInvoice, moneyHistory
<1> HIDE DEF j
<1>3. Aside
  BY <1>2 DEF Aside, LedgerInv, Shape, InvoicesKept, TotalKept
<1> QED BY <1>1, <1>2, <1>3, BeginKeeps DEF HookAt

\* A form that writes the stored total marks it; one that does not leaves it.
LEMMA WriteAdvanceKeeps ==
    ASSUME LedgerInv, NEW p \in Callers, NEW amount,
           UpdateBooking(p, amount) \/ FinalizeBooking(p, amount)
    PROVE  LedgerInv'
<1> DEFINE j == [Nobody EXCEPT !.chain = TRUE]
<1>1. JobLike(j) /\ j.rows = {} /\ j.kind = "none"
  BY DEF JobLike, Nobody
<1>2. Begin(p, "receipt", j) /\ UNCHANGED <<ledger, serial, invoices>>
  BY DEF UpdateBooking, FinalizeBooking, WriteAdvance
<1> HIDE DEF j
<1>3. TotalKept
  <2>1. BookingLike(booking)
    BY DEF LedgerInv, Shape
  <2>2. CASE UpdateBooking(p, amount)
    BY <2>1, <2>2 DEF UpdateBooking, WriteAdvance, TotalKept, BookingLike
  <2>3. CASE FinalizeBooking(p, amount)
    BY <2>1, <2>3 DEF FinalizeBooking, WriteAdvance, TotalKept, BookingLike
  <2> QED BY <2>2, <2>3
<1>4. Aside
  BY <1>2, <1>3 DEF Aside, LedgerInv, Shape, InvoicesKept
<1> QED BY <1>1, <1>2, <1>4, BeginKeeps DEF HookAt

(***************************************************************************)
(* Inside a payment transaction.                                           *)
(***************************************************************************)

LEMMA OpenPaymentKeeps ==
    ASSUME LedgerInv, NEW p \in Callers, OpenPayment(p)
    PROVE  LedgerInv'
<1> DEFINE seed == Seed(booking.advance, booking.total, booking.doc)
           new == [n |-> serial + 1, source |-> "MANUAL",
                   amount |-> job[p].amount, doc |-> job[p].doc]
           rows == seed \cup {new}
           j == [job[p] EXCEPT !.rows = rows]
<1>1. /\ Shape /\ Hooked /\ serial \in Nat /\ serial # 0 /\ JobLike(job[p])
      /\ step[p] = "open" /\ Uncommitted
  BY DEF LedgerInv, Shape, OpenPayment
<1>2. CASE Leave(p) /\ UNCHANGED serial
  BY <1>1, <1>2, UncommittedAside, LeaveKeeps
<1>3. CASE /\ job' = [job EXCEPT ![p].rows = rows]
           /\ serial' = serial + 2
           /\ Goto(p, "sum")
  <2>1. Aside
    BY <1>1, <1>3, UncommittedAside
  <2>2. RowLike(new) /\ new.n = serial + 1
    BY DEF RowLike
  <2> HIDE DEF new
  <2>3. /\ \A r \in rows : RowLike(r) /\ r.n \in {serial, serial + 1}
        /\ \A r, o \in rows : r.n = o.n => r = o
    BY <1>1, <2>2, SeedRows
  <2> HIDE DEF rows
  <2>4. Numbered(rows, serial')
    BY <1>1, <1>3, <2>3 DEF Numbered
  <2>5. /\ KeepsDoc(rows)
        /\ \A q \in Callers \ {p} : \A o \in rows : \A r \in job[q].rows : o.n # r.n
    BY <1>1, <2>3, FreshRows
  <2>6. JobLike(j) /\ j.rows = rows /\ j.kind = job[p].kind
    BY <1>1, JobMoves
  <2>7. HookAt("sum", j)
    BY <1>1, <2>6 DEF Hooked, HookAt
  <2>8. step' = [step EXCEPT ![p] = "sum"] /\ job' = [job EXCEPT ![p] = j]
    BY <1>3 DEF Goto
  <2> HIDE DEF j
  <2> QED BY <2>1, <2>4, <2>5, <2>6, <2>7, <2>8, MoveKeeps
<1> QED BY <1>2, <1>3 DEF OpenPayment

LEMMA OpenHookKeeps ==
    ASSUME LedgerInv, NEW p \in Callers, OpenHook(p)
    PROVE  LedgerInv'
<1> DEFINE rows == Seed(job[p].read, 0, job[p].legacyDoc)
           s == IF NewOnLedger(job[p].doc) THEN "hookInsert" ELSE "sum"
           j == [job[p] EXCEPT !.rows = rows]
<1>1. /\ Shape /\ Hooked /\ serial \in Nat /\ serial # 0 /\ JobLike(job[p])
      /\ step[p] = "hook" /\ Uncommitted
  BY DEF LedgerInv, Shape, OpenHook
<1>2. CASE Leave(p) /\ UNCHANGED serial
  BY <1>1, <1>2, UncommittedAside, LeaveKeeps
<1>3. CASE /\ job' = [job EXCEPT ![p].rows = rows]
           /\ serial' = serial + 1
           /\ Goto(p, s)
  <2>1. Aside
    BY <1>1, <1>3, UncommittedAside
  <2>2. /\ \A r \in rows : RowLike(r) /\ r.n = serial
        /\ \A r, o \in rows : r = o
    BY SeedRows
  <2> HIDE DEF rows
  <2>3. Numbered(rows, serial')
    BY <1>1, <1>3, <2>2 DEF Numbered
  <2>4. /\ KeepsDoc(rows)
        /\ \A q \in Callers \ {p} : \A o \in rows : \A r \in job[q].rows : o.n # r.n
    BY <1>1, <2>2, FreshRows
  <2>5. JobLike(j) /\ j.rows = rows /\ j.kind = job[p].kind /\ j.doc = job[p].doc
    BY <1>1, JobMoves
  <2>6. step' = [step EXCEPT ![p] = s] /\ job' = [job EXCEPT ![p] = j]
    BY <1>3 DEF Goto
  <2> HIDE DEF j
  <2>7. HookAt(s, j)
    BY <1>1, <2>5 DEF Hooked, HookAt, HasRow, NewOnLedger
  <2>8. s \in {"hookInsert", "sum"}
    OBVIOUS
  <2> HIDE DEF s
  <2> QED BY <2>1, <2>3, <2>4, <2>5, <2>6, <2>7, <2>8, MoveKeeps
<1> QED BY <1>2, <1>3 DEF OpenHook

LEMMA InsertKeeps ==
    ASSUME LedgerInv, NEW p \in Callers, InsertInvoicePayment(p)
    PROVE  LedgerInv'
<1> DEFINE new == [n |-> serial, source |-> "EASYCOUNT_INVOICE",
                   amount |-> job[p].amount, doc |-> job[p].doc]
           rows == job[p].rows \cup {new}
           j == [job[p] EXCEPT !.rows = rows]
<1>1. /\ Shape /\ Hooked /\ OwnRows /\ Faithful /\ serial \in Nat /\ serial # 0 /\ JobLike(job[p])
      /\ step[p] = "hookInsert" /\ Uncommitted
  BY DEF LedgerInv, Shape, InsertInvoicePayment
<1>2. CASE Leave(p) /\ UNCHANGED serial
  BY <1>1, <1>2, UncommittedAside, LeaveKeeps
<1>3. CASE /\ job' = [job EXCEPT ![p].rows = @ \cup {new}]
           /\ serial' = serial + 1
           /\ Goto(p, "sum")
  <2>1. Aside
    BY <1>1, <1>3, UncommittedAside
  <2>2. RowLike(new) /\ new.n = serial /\ new.doc = job[p].doc
    BY DEF RowLike
  <2> HIDE DEF new
  <2>3. Numbered(job[p].rows, serial)
    BY <1>1 DEF Shape
  <2>4. Numbered(rows, serial')
    BY <1>1, <1>3, <2>2, <2>3 DEF Numbered
  <2>5. /\ KeepsDoc({new})
        /\ \A q \in Callers \ {p} : \A o \in {new} : \A r \in job[q].rows : o.n # r.n
    <3>1. \A r \in {new} : r.n \in Nat /\ r.n >= serial
      BY <1>1, <2>2
    <3> QED BY <3>1, FreshRows
  <2>6. /\ KeepsDoc(rows)
        /\ \A q \in Callers \ {p} : \A o \in rows : \A r \in job[q].rows : o.n # r.n
    BY <1>1, <2>5 DEF KeepsDoc, Faithful, OwnRows
  <2>7. JobLike(j) /\ j.rows = rows /\ j.kind = job[p].kind /\ j.doc = job[p].doc
    BY <1>1, JobMoves
  <2>8. job' = [job EXCEPT ![p].rows = rows]
    BY <1>1, <1>3 DEF Shape, JobLike, Nobody
  <2>9. step' = [step EXCEPT ![p] = "sum"] /\ job' = [job EXCEPT ![p] = j]
    BY <1>3, <2>8 DEF Goto
  <2>10. new \in rows
    OBVIOUS
  <2> HIDE DEF j, rows
  <2>11. HookAt("sum", j)
    BY <1>1, <2>2, <2>7, <2>10 DEF Hooked, HookAt, HasRow
  <2> QED BY <2>1, <2>4, <2>6, <2>7, <2>9, <2>11, MoveKeeps
<1> QED BY <1>2, <1>3 DEF InsertInvoicePayment

LEMMA SumUpKeeps ==
    ASSUME LedgerInv, NEW p \in Callers, SumUp(p)
    PROVE  LedgerInv'
<1> DEFINE total == SumLedgerPayments(p)
           j == [job[p] EXCEPT !.total = total, !.advance = AdvanceOf(p, total), !.fresh = TRUE]
<1>1. /\ Shape /\ Hooked /\ JobLike(job[p]) /\ serial \in Nat /\ UNCHANGED serial
      /\ step[p] = "sum" /\ Uncommitted
  BY DEF LedgerInv, Shape, SumUp
<1>2. Aside
  BY <1>1, UncommittedAside
<1>3. step' = [step EXCEPT ![p] = "commit"] /\ job' = [job EXCEPT ![p] = j]
  BY DEF SumUp, Goto
<1>4. /\ JobLike(j) /\ j.rows = job[p].rows /\ j.kind = job[p].kind /\ j.doc = job[p].doc
      /\ j.total = total
  BY <1>1 DEF JobLike, Nobody
<1>5. total = AmountOf(View(p))
  BY DEF SumLedgerPayments
<1> HIDE DEF j, total
<1>6. HookAt("commit", j)
  BY <1>1, <1>4 DEF Hooked, HookAt, HasRow
<1> QED BY <1>2, <1>3, <1>4, <1>5, <1>6, QuietMoveKeeps

\* What is on the ledger before a commit is on it after.
LEMMA CommitKeepsDocs ==
    ASSUME LedgerInv, NEW p \in Callers, ledger' = View(p), NEW d
    PROVE  /\ OnLedger(d) => OnLedger(d)'
           /\ d # NoDoc /\ (\E o \in job[p].rows : o.doc = d) => OnLedger(d)'
           /\ \A r \in ledger : \E o \in ledger' : o.n = r.n
BY DEF LedgerInv, Faithful, KeepsDoc, OnLedger, View

LEMMA CommitKeeps ==
    ASSUME LedgerInv, NEW p \in Callers, Commit(p)
    PROVE  LedgerInv'
<1> DEFINE s == IF job[p].chain THEN "ensure" ELSE "idle"
<1>1. /\ Shape /\ OwnRows /\ Faithful /\ Aimed /\ Hooked /\ Summed
      /\ TotalIsLedger /\ PaidInvoiceOnLedger
      /\ step[p] = "commit" /\ ledger' = View(p) /\ UNCHANGED serial /\ astray' = ~job[p].fresh
  BY DEF LedgerInv, Commit
<1>2. /\ DOMAIN step' = Callers /\ step'[p] = s
      /\ \A q \in Callers \ {p} : step'[q] = step[q]
  BY <1>1 DEF Commit, Shape
<1>3. s \in {"ensure", "idle"}
  OBVIOUS
<1> HIDE DEF s
<1>4. /\ DOMAIN job' = Callers /\ job'[p] = Nobody
      /\ \A q \in Callers \ {p} : job'[q] = [job[q] EXCEPT !.fresh = FALSE]
  BY DEF Commit
<1>5. /\ JobLike(Nobody) /\ Nobody.rows = {} /\ Nobody.kind = "none"
      /\ \A q \in Callers \ {p} :
            /\ JobLike(job'[q]) /\ job'[q].fresh = FALSE /\ job'[q].rows = job[q].rows
            /\ job'[q].kind = job[q].kind /\ job'[q].doc = job[q].doc
            /\ job'[q].target = job[q].target
  BY <1>1, <1>4 DEF Shape, JobLike, Nobody
<1>6. \A q \in Callers : job'[q].rows = {} \/ (q # p /\ job'[q].rows = job[q].rows)
  BY <1>4, <1>5
<1>7. \A r \in ledger' : r \in job[p].rows \/ (r \in ledger /\ \A o \in job[p].rows : o.n # r.n)
  BY <1>1 DEF View
<1>8. Shape'
  <2>1. Numbered(ledger', serial')
    BY <1>1, <1>7 DEF Shape, Numbered
  <2>2. \A q \in Callers : Numbered(job'[q].rows, serial') /\ JobLike(job'[q])
    BY <1>1, <1>4, <1>5, <1>6 DEF Shape, Numbered
  <2>3. DOMAIN invoices' = Invoices /\ \A i \in Invoices : InvoiceLike(invoices'[i])
    BY <1>1 DEF Shape, Commit, InvoiceLike
  <2>4. BookingLike(booking')
    BY <1>1 DEF Shape, Commit, BookingLike
  <2>5. job' = [q \in Callers |-> job'[q]]
    BY DEF Commit
  <2> QED BY <1>1, <1>2, <1>4, <2>1, <2>2, <2>3, <2>4, <2>5 DEF Shape
<1>9. OwnRows'
  BY <1>1, <1>6 DEF OwnRows
<1>10. Faithful'
  <2>1. ASSUME NEW q \in Callers, NEW o \in job'[q].rows, NEW r \in ledger', o.n = r.n
        PROVE  r.doc \in {NoDoc, o.doc}
    <3>1. q # p /\ o \in job[q].rows
      BY <1>6, <2>1
    <3>2. r \in ledger
      BY <1>1, <1>7, <2>1, <3>1 DEF OwnRows
    <3> QED BY <1>1, <2>1, <3>1, <3>2 DEF Faithful, KeepsDoc
  <2> QED BY <2>1 DEF Faithful, KeepsDoc
<1>11. Aimed'
  BY <1>1, <1>2, <1>3, <1>5, CommitKeepsDocs DEF Aimed
<1>12. Hooked'
  <2>1. ASSUME NEW q \in Callers
        PROVE  HookAt(step[q], job[q])'
    <3>1. CASE q = p
      BY <1>4, <1>5, <3>1 DEF HookAt
    <3>2. CASE q # p
      <4>1. HookAt(step[q], job[q])
        BY <1>1 DEF Hooked
      <4>2. \A d : OnLedger(d) => \E r \in ledger' : d # NoDoc /\ r.doc = d
        BY <1>1, CommitKeepsDocs DEF OnLedger
      <4> QED BY <1>2, <1>5, <3>2, <4>1, <4>2 DEF HookAt, HasRow, OnLedger
    <3> QED BY <3>1, <3>2
  <2> QED BY <2>1 DEF Hooked
<1>13. Summed'
  BY <1>2, <1>3, <1>4, <1>5 DEF Summed
<1>14. TotalIsLedger'
  <2>1. booking'.total = job[p].total
    BY <1>1 DEF Commit, Shape, BookingLike
  <2>2. job[p].fresh => job[p].total = AmountOf(ledger')
    BY <1>1 DEF Summed
  <2> QED BY <1>1, <2>1, <2>2 DEF TotalIsLedger
<1>15. PaidInvoiceOnLedger'
  <2>1. ASSUME NEW i \in Invoices, invoices'[i].status = "paid", invoices'[i].first = "pending"
        PROVE  OnLedger(i)'
    <3>1. CASE job[p].kind = "hook" /\ i = job[p].doc
      <4>1. HasRow(job[p]) /\ i # NoDoc
        BY <1>1, <3>1, LedgerAssumption DEF Hooked, HookAt
      <4> QED BY <1>1, <3>1, <4>1, CommitKeepsDocs DEF HasRow
    <3>2. CASE ~(job[p].kind = "hook" /\ i = job[p].doc)
      <4>1. invoices'[i] = invoices[i]
        BY <1>1, <3>2 DEF Commit, Shape
      <4>2. OnLedger(i)
        BY <1>1, <2>1, <4>1 DEF PaidInvoiceOnLedger
      <4> QED BY <1>1, <4>2, CommitKeepsDocs
    <3> QED BY <3>1, <3>2
  <2> QED BY <2>1 DEF PaidInvoiceOnLedger, OnLedger
<1> QED BY <1>8, <1>9, <1>10, <1>11, <1>12, <1>13, <1>14, <1>15 DEF LedgerInv

(***************************************************************************)
(* The advance on the ledger.                                              *)
(***************************************************************************)

\* A step of a caller that is no webhook and writes nothing.
LEMMA StrideKeeps ==
    ASSUME LedgerInv, Aside, NEW p \in Callers, NEW s, NEW j,
           JobLike(j), j.kind # "hook", j.rows = {} \/ j.rows = job[p].rows,
           s \notin {"write", "commit"},
           step' = [step EXCEPT ![p] = s], job' = [job EXCEPT ![p] = j]
    PROVE  LedgerInv'
BY QuietMoveKeeps DEF HookAt

\* Outside a payment transaction of the webhook nobody is one.
LEMMA NotHook ==
    ASSUME LedgerInv, NEW p \in Callers,
           step[p] \notin {"hook", "hookInsert", "sum", "commit"}
    PROVE  job[p].kind # "hook" /\ JobLike(job[p]) /\ serial \in Nat /\ serial # 0
BY DEF LedgerInv, Hooked, HookAt, Shape

LEMMA FindAdvanceKeeps ==
    ASSUME LedgerInv, NEW p \in Callers, FindAdvance(p)
    PROVE  LedgerInv'
<1> DEFINE target == IF Advances(ledger) = {} THEN 0 ELSE First(Advances(ledger)).n
           j == [job[p] EXCEPT !.target = target]
<1>1. /\ step[p] = "find" /\ UNCHANGED serial /\ Uncommitted
      /\ job[p].kind # "hook" /\ JobLike(job[p]) /\ serial \in Nat
  BY NotHook DEF FindAdvance
<1>2. Aside
  BY <1>1, UncommittedAside
<1>3. CASE Leave(p)
  BY <1>2, <1>3, LeaveKeeps
<1>4. CASE Goto(p, "write") /\ job' = [job EXCEPT ![p].target = target]
  <2>1. /\ JobLike(j) /\ j.rows = job[p].rows /\ j.kind = job[p].kind /\ j.target = target
    BY <1>1 DEF JobLike, Nobody
  <2>2. target # 0 => \E r \in ledger : r.n = target
    <3>1. SUFFICES ASSUME Advances(ledger) # {} PROVE First(Advances(ledger)) \in ledger
      OBVIOUS
    <3>2. Advances(ledger) \subseteq ledger /\ \A r \in Advances(ledger) : r.n \in Nat
      BY DEF Advances, LedgerInv, Shape, Numbered
    <3>3. First(Advances(ledger)) \in Advances(ledger)
      BY <3>1, <3>2, FirstIsOne
    <3> QED BY <3>2, <3>3
  <2>3. step' = [step EXCEPT ![p] = "write"] /\ job' = [job EXCEPT ![p] = j]
    BY <1>4 DEF Goto
  <2> HIDE DEF j, target
  <2>4. HookAt("write", j)
    BY <1>1, <2>1 DEF HookAt
  <2> QED BY <1>2, <2>1, <2>2, <2>3, <2>4, QuietMoveKeeps
<1> QED BY <1>3, <1>4 DEF FindAdvance

\* A new advance has the next number; one that is rewritten keeps its number and
\* its document.
LEMMA AdvanceRowIs ==
    ASSUME LedgerInv, NEW p \in Callers, step[p] = "write"
    PROVE  LET row == AdvanceRow(p) IN
           /\ RowLike(row)
           /\ \/ row.n = serial
              \/ \E old \in ledger : row.n = old.n /\ old.doc \in {NoDoc, row.doc}
<1>1. CASE job[p].target = 0
  BY <1>1 DEF AdvanceRow, RowLike
<1>2. CASE job[p].target # 0
  <2> DEFINE old == CHOOSE r \in ledger : r.n = job[p].target
  <2>1. \E r \in ledger : r.n = job[p].target
    BY <1>2 DEF LedgerInv, Aimed
  <2>2. old \in ledger
    BY <2>1
  <2>3. AdvanceRow(p) = [old EXCEPT !.amount = job[p].amount,
                                    !.doc = IF old.doc = NoDoc THEN job[p].doc ELSE old.doc]
    BY <1>2 DEF AdvanceRow
  <2>4. RowLike(old)
    BY <2>2 DEF LedgerInv, Shape, Numbered
  <2> HIDE DEF old
  <2>5. /\ RowLike(AdvanceRow(p)) /\ AdvanceRow(p).n = old.n
        /\ old.doc \in {NoDoc, AdvanceRow(p).doc}
    BY <2>3, <2>4 DEF RowLike
  <2> QED BY <2>2, <2>5
<1> QED BY <1>1, <1>2

LEMMA WriteAdvanceRowKeeps ==
    ASSUME LedgerInv, NEW p \in Callers, WriteAdvanceRow(p)
    PROVE  LedgerInv'
<1> DEFINE row == AdvanceRow(p)
           rows == {row}
           j == [job[p] EXCEPT !.rows = rows]
<1>1. /\ step[p] = "write" /\ Uncommitted /\ ~Waits(p, rows)
      /\ job[p].kind # "hook" /\ JobLike(job[p]) /\ serial \in Nat /\ serial # 0
  BY NotHook DEF WriteAdvanceRow
<1>2. CASE Leave(p) /\ UNCHANGED serial
  BY <1>1, <1>2, UncommittedAside, LeaveKeeps
<1>3. CASE job' = [job EXCEPT ![p].rows = rows] /\ serial' = serial + 1 /\ Goto(p, "sum")
  <2>1. Aside
    BY <1>1, <1>3, UncommittedAside
  <2>2. /\ RowLike(row)
        /\ \/ row.n = serial
           \/ \E old \in ledger : row.n = old.n /\ old.doc \in {NoDoc, row.doc}
    BY <1>1, AdvanceRowIs
  <2> HIDE DEF row
  <2>3. Numbered(ledger, serial)
    BY DEF LedgerInv, Shape
  <2>4. Numbered(rows, serial')
    BY <1>1, <1>3, <2>2, <2>3 DEF Numbered
  <2>5. KeepsDoc(rows)
    BY <1>1, <2>2, <2>3 DEF KeepsDoc, Numbered
  <2>6. \A q \in Callers \ {p} : \A o \in rows : \A r \in job[q].rows : o.n # r.n
    BY <1>1 DEF Waits
  <2>7. JobLike(j) /\ j.rows = rows /\ j.kind = job[p].kind
    BY <1>1, JobMoves
  <2>8. step' = [step EXCEPT ![p] = "sum"] /\ job' = [job EXCEPT ![p] = j]
    BY <1>3 DEF Goto
  <2> HIDE DEF j
  <2>9. HookAt("sum", j)
    BY <1>1, <2>7 DEF HookAt
  <2> QED BY <2>1, <2>4, <2>5, <2>6, <2>7, <2>8, <2>9, MoveKeeps
<1> QED BY <1>2, <1>3 DEF WriteAdvanceRow

(***************************************************************************)
(* Receipts and invoices.                                                  *)
(***************************************************************************)

LEMMA CheckReceiptKeeps ==
    ASSUME LedgerInv, NEW p \in Callers, CheckReceipt(p)
    PROVE  LedgerInv'
<1> DEFINE j == [job[p] EXCEPT !.amount = booking.advance, !.kind = "advance",
                               !.read = IF OthersIssue(p) THEN 0 ELSE receipts]
<1>1. UNCHANGED serial /\ Uncommitted /\ JobLike(job[p]) /\ serial \in Nat
  BY NotHook DEF CheckReceipt
<1>2. Aside
  BY <1>1, UncommittedAside
<1>3. CASE Leave(p)
  BY <1>2, <1>3, LeaveKeeps
<1>4. CASE Goto(p, "createDoc") /\ job' = [job EXCEPT ![p] = j]
  <2>1. JobLike(j) /\ j.rows = job[p].rows /\ j.kind = "advance"
    BY <1>1 DEF JobLike, Nobody
  <2> HIDE DEF j
  <2> QED BY <1>2, <1>4, <2>1, StrideKeeps DEF Goto
<1> QED BY <1>3, <1>4 DEF CheckReceipt

LEMMA SkipReceiptKeeps ==
    ASSUME LedgerInv, NEW p \in Callers, SkipReceipt(p)
    PROVE  LedgerInv'
<1>1. /\ UNCHANGED serial /\ Uncommitted /\ serial \in Nat
      /\ job[p].kind # "hook" /\ JobLike(job[p])
  BY NotHook DEF SkipReceipt
<1>2. Aside
  BY <1>1, UncommittedAside
<1>3. step' = [step EXCEPT ![p] = "find"] /\ job' = [job EXCEPT ![p] = job[p]]
  BY DEF SkipReceipt, Goto, LedgerInv, Shape
<1> QED BY <1>1, <1>2, <1>3, StrideKeeps

LEMMA CreateDocKeeps ==
    ASSUME LedgerInv, NEW p \in Callers, NEW issued, NEW answered, NEW named,
           CreateDoc(p, issued, answered, named)
    PROVE  LedgerInv'
<1> DEFINE status == IF ~answered THEN "FAILED"
                     ELSE IF mix.mode = "simulation" THEN "SIMULATED" ELSE "ISSUED"
           doc == IF answered /\ named THEN serial ELSE NoDoc
           j == [job[p] EXCEPT !.status = status, !.doc = doc]
<1>1. /\ job[p].kind # "hook" /\ JobLike(job[p]) /\ serial \in Nat
      /\ UNCHANGED <<booking, ledger, invoices, astray>> /\ serial' = serial + 1
  BY NotHook DEF CreateDoc, moneyHistory
<1>2. Aside
  BY <1>1 DEF Aside, LedgerInv, Shape, InvoicesKept, TotalKept
<1>3. step' = [step EXCEPT ![p] = "store"] /\ job' = [job EXCEPT ![p] = j]
  BY DEF CreateDoc, Goto
<1> HIDE DEF status, doc
<1>4. JobLike(j) /\ j.rows = job[p].rows /\ j.kind = job[p].kind
  BY <1>1 DEF JobLike, Nobody
<1> HIDE DEF j
<1> QED BY <1>1, <1>2, <1>3, <1>4, StrideKeeps

LEMMA StoreReceiptKeeps ==
    ASSUME LedgerInv, NEW p \in Callers, StoreReceipt(p)
    PROVE  LedgerInv'
<1>1. /\ job[p].kind # "hook" /\ JobLike(job[p]) /\ serial \in Nat
      /\ UNCHANGED <<ledger, serial, invoices, astray>>
      /\ booking' = [booking EXCEPT !.receipt = job[p].status, !.doc = job[p].doc]
  BY NotHook DEF StoreReceipt, moneyHistory
<1>2. TotalKept
  BY <1>1 DEF LedgerInv, Shape, TotalKept, BookingLike
<1>3. Aside
  BY <1>1, <1>2 DEF Aside, LedgerInv, Shape, InvoicesKept
<1>4. CASE Leave(p)
  BY <1>3, <1>4, LeaveKeeps
<1>5. CASE Goto(p, "find") /\ UNCHANGED job
  <2>1. step' = [step EXCEPT ![p] = "find"] /\ job' = [job EXCEPT ![p] = job[p]]
    BY <1>5 DEF Goto, LedgerInv, Shape
  <2> QED BY <1>1, <1>3, <2>1, StrideKeeps
<1> QED BY <1>4, <1>5 DEF StoreReceipt

LEMMA EnsureAdvanceKeeps ==
    ASSUME LedgerInv, NEW p \in Callers, EnsureAdvance(p)
    PROVE  LedgerInv'
<1> DEFINE j == [Nobody EXCEPT !.kind = "advance", !.doc = booking.doc,
                               !.amount = booking.advance]
<1>1. UNCHANGED serial /\ Uncommitted /\ serial \in Nat
  BY NotHook DEF EnsureAdvance
<1>2. Aside
  BY <1>1, UncommittedAside
<1>3. CASE Leave(p)
  BY <1>2, <1>3, LeaveKeeps
<1>4. CASE Goto(p, "find") /\ job' = [job EXCEPT ![p] = j]
  <2>1. JobLike(j) /\ j.rows = {} /\ j.kind = "advance"
    BY DEF JobLike, Nobody
  <2> HIDE DEF j
  <2> QED BY <1>2, <1>4, <2>1, StrideKeeps DEF Goto
<1> QED BY <1>3, <1>4 DEF EnsureAdvance

LEMMA CheckBalanceKeeps ==
    ASSUME LedgerInv, NEW p \in Callers, CheckBalance(p)
    PROVE  LedgerInv'
<1> DEFINE j == [job[p] EXCEPT !.known = Stored]
<1>1. /\ UNCHANGED serial /\ Uncommitted /\ serial \in Nat
      /\ job[p].kind # "hook" /\ JobLike(job[p])
  BY NotHook DEF CheckBalance
<1>2. Aside
  BY <1>1, UncommittedAside
<1>3. CASE Leave(p)
  BY <1>2, <1>3, LeaveKeeps
<1>4. CASE Goto(p, "post") /\ job' = [job EXCEPT ![p].known = Stored]
  <2>1. JobLike(j) /\ j.rows = job[p].rows /\ j.kind = job[p].kind
    BY <1>1 DEF JobLike, Nobody
  <2>2. step' = [step EXCEPT ![p] = "post"] /\ job' = [job EXCEPT ![p] = j]
    BY <1>4 DEF Goto
  <2> HIDE DEF j
  <2> QED BY <1>1, <1>2, <2>1, <2>2, StrideKeeps
<1> QED BY <1>3, <1>4 DEF CheckBalance

LEMMA PostFailsKeeps ==
    ASSUME LedgerInv, NEW p \in Callers, PostFails(p)
    PROVE  LedgerInv'
<1>1. UNCHANGED serial /\ Uncommitted /\ serial \in Nat
  BY NotHook DEF PostFails
<1> QED BY <1>1, UncommittedAside, LeaveKeeps DEF PostFails

LEMMA StoreInvoiceKeeps ==
    ASSUME LedgerInv, NEW p \in Callers, NEW i \in Invoices, NEW status,
           StoreInvoice(p, i, status)
    PROVE  LedgerInv'
<1>1. /\ Shape /\ UNCHANGED <<booking, ledger, serial, astray>> /\ Leave(p)
      /\ invoices' = [invoices EXCEPT ![i] = [status |-> status, amount |-> job[p].amount,
                                              first |-> status]]
  BY DEF LedgerInv, StoreInvoice, moneyHistory
<1>2. InvoicesKept
  BY <1>1 DEF Shape, InvoicesKept, InvoiceLike
<1>3. Aside
  BY <1>1, <1>2 DEF Aside, Shape, TotalKept
<1> QED BY <1>1, <1>3, LeaveKeeps

LEMMA RecordStatusKeeps ==
    ASSUME LedgerInv, NEW p \in Callers, RecordStatus(p)
    PROVE  LedgerInv'
<1>1. /\ Shape /\ UNCHANGED <<booking, ledger, serial, astray>> /\ Leave(p)
      /\ job[p].status # "paid"
      /\ invoices' = [invoices EXCEPT ![job[p].doc].status = job[p].status]
  BY DEF LedgerInv, RecordStatus, moneyHistory
<1>2. InvoicesKept
  BY <1>1 DEF Shape, InvoicesKept, InvoiceLike
<1>3. Aside
  BY <1>1, <1>2 DEF Aside, Shape, TotalKept
<1> QED BY <1>1, <1>3, LeaveKeeps

LEMMA LedgerStep == LedgerInv /\ [PaymentNext]_paymentVars => LedgerInv'
<1> SUFFICES ASSUME LedgerInv, [PaymentNext]_paymentVars PROVE LedgerInv'
  OBVIOUS
<1>1. CASE UNCHANGED paymentVars
  BY <1>1 DEF paymentVars, moneyHistory, invoiceHistory, receiptHistory, LedgerInv, Shape,
     OwnRows, Faithful, KeepsDoc, Aimed, Hooked, HookAt, HasRow, OnLedger, Summed, View,
     TotalIsLedger, PaidInvoiceOnLedger
<1>2. ASSUME NEW p \in Callers, Transaction(p)
      PROVE  LedgerInv'
  BY <1>2, OpenPaymentKeeps, OpenHookKeeps, InsertKeeps, FindAdvanceKeeps, WriteAdvanceRowKeeps,
     SumUpKeeps, CommitKeeps DEF Transaction
<1>3. ASSUME NEW p \in Callers,
             \/ RecordStatus(p) \/ CheckReceipt(p) \/ SkipReceipt(p) \/ StoreReceipt(p)
             \/ EnsureAdvance(p) \/ CheckBalance(p) \/ PostFails(p)
      PROVE  LedgerInv'
  BY <1>3, RecordStatusKeeps, CheckReceiptKeeps, SkipReceiptKeeps, StoreReceiptKeeps,
     EnsureAdvanceKeeps, CheckBalanceKeeps, PostFailsKeeps
<1>4. ASSUME NEW p \in Callers, NEW amount \in mix.amounts,
             \/ UpdateBooking(p, amount) \/ FinalizeBooking(p, amount) \/ AskInvoice(p, amount)
             \/ \E d \in Invoices \cup {NoDoc} : Pay(p, amount, d)
      PROVE  LedgerInv'
  BY <1>4, WriteAdvanceKeeps, AskInvoiceKeeps, PayKeeps
<1>5. ASSUME NEW p \in Callers, NEW force \in BOOLEAN, Reissue(p, force)
      PROVE  LedgerInv'
  BY <1>5, ReissueKeeps
<1>6. ASSUME NEW p \in Callers, NEW issued \in BOOLEAN, NEW answered \in BOOLEAN,
             NEW named \in BOOLEAN, CreateDoc(p, issued, answered, named)
      PROVE  LedgerInv'
  BY <1>6, CreateDocKeeps
<1>7. ASSUME NEW p \in Callers, NEW i \in Invoices,
             \/ \E status \in InvoiceStatus \ {"none"}, amount \in mix.amounts \cup {invoices[i].amount} :
                    Notify(p, i, status, amount)
             \/ \E status \in {"pending", "paid"} : StoreInvoice(p, i, status)
      PROVE  LedgerInv'
  BY <1>7, NotifyKeeps, StoreInvoiceKeeps
<1> QED BY <1>1, <1>2, <1>3, <1>4, <1>5, <1>6, <1>7 DEF PaymentNext

LEMMA LedgerInvariant == PaymentSpec => []LedgerInv
BY LedgerInitial, LedgerStep, PTL DEF PaymentSpec

\* The total stored on the booking is the sum of the ledger
\* (sumLedgerPayments and applyPaidAggregates), unless the last payment was
\* summed before another one committed or the form wrote the total: for every
\* number of payments, webhooks and edits at once.
THEOREM TotalFollowsLedger == PaymentSpec => []TotalIsLedger
BY LedgerInvariant, PTL DEF LedgerInv

\* An invoice reported paid has its row on the ledger, whatever else was paid,
\* rewritten, notified twice or committed in between (applyHallInvoicePayment).
THEOREM PaidInvoiceHasRow == PaymentSpec => []PaidInvoiceOnLedger
BY LedgerInvariant, PTL DEF LedgerInv

(***************************************************************************)
(* Tax documents of the advance.                                           *)
(***************************************************************************)

\* A document beyond the excuses is recorded on the booking or about to be, and
\* nothing else is about to be recorded.
Standing ==
    receipts > excuses =>
        /\ \A p \in Callers : step[p] = "store" => job[p].status = "ISSUED"
        /\ booking.receipt = "ISSUED" \/ \E p \in Callers : step[p] = "store"

\* A caller that was let through alone, and since whose check no document was
\* issued, found none beyond the excuses.
CheckedAt(j) ==
    /\ j.read \in Nat /\ j.read <= receipts
    /\ ~j.force /\ receipts > 0 /\ j.read = receipts => receipts <= excuses
Checked == \A p \in Callers : step[p] = "createDoc" => CheckedAt(job[p])

ReceiptInv ==
    /\ receipts \in Nat /\ excuses \in Nat /\ OneReceipt
    /\ mix.mode = "simulation" => receipts = 0
    /\ Standing /\ Checked

LEMMA ReceiptInitial == PaymentInit => ReceiptInv
BY DEF PaymentInit, ReceiptInv, OneReceipt, Standing, Checked

\* A caller that is neither before nor after EasyCount.
LEMMA ElsewhereKeeps ==
    ASSUME ReceiptInv, NEW p \in Callers, UNCHANGED <<mix, receipts, excuses>>,
           booking'.receipt = booking.receipt,
           step[p] # "store", step'[p] \notin {"createDoc", "store"},
           \A q \in Callers \ {p} :
              /\ step'[q] = step[q] /\ job'[q].status = job[q].status
              /\ job'[q].read = job[q].read /\ job'[q].force = job[q].force
    PROVE  ReceiptInv'
<1>1. Standing'
  BY DEF ReceiptInv, Standing
<1>2. Checked'
  BY DEF ReceiptInv, Checked, CheckedAt
<1> QED BY <1>1, <1>2 DEF ReceiptInv, OneReceipt

LEMMA BeginElsewhere ==
    ASSUME ReceiptInv, LedgerInv, NEW p \in Callers,
           \/ \E amount, d : Pay(p, amount, d)
           \/ \E i, status, amount : Notify(p, i, status, amount)
           \/ \E force : Reissue(p, force)
           \/ \E amount : AskInvoice(p, amount) \/ UpdateBooking(p, amount)
                                              \/ FinalizeBooking(p, amount)
    PROVE  ReceiptInv'
<1>1. DOMAIN step = Callers /\ DOMAIN job = Callers /\ BookingLike(booking)
  BY DEF LedgerInv, Shape
<1>2. UNCHANGED <<mix, receipts, excuses>> /\ booking'.receipt = booking.receipt
  BY <1>1 DEF Pay, Notify, Reissue, AskInvoice, UpdateBooking, FinalizeBooking, WriteAdvance,
     Begin, receiptHistory, BookingLike
<1>3. PICK s \in {"open", "hook", "receipt", "balance"} :
         step[p] = "idle" /\ step' = [step EXCEPT ![p] = s]
  BY DEF Pay, Notify, Reissue, AskInvoice, UpdateBooking, FinalizeBooking, WriteAdvance, Begin
<1>4. \E j : job' = [job EXCEPT ![p] = j]
  BY DEF Pay, Notify, Reissue, AskInvoice, UpdateBooking, FinalizeBooking, WriteAdvance, Begin
<1>5. \A q \in Callers \ {p} : step'[q] = step[q] /\ job'[q] = job[q]
  BY <1>1, <1>3, <1>4
<1> QED BY <1>1, <1>2, <1>3, <1>5, ElsewhereKeeps

\* What steps outside the issue of a receipt have in common.
LEMMA WorkElsewhere ==
    ASSUME ReceiptInv, LedgerInv, NEW p \in Callers,
           \/ OpenPayment(p) \/ OpenHook(p) \/ InsertInvoicePayment(p)
           \/ FindAdvance(p) \/ WriteAdvanceRow(p) \/ SumUp(p)
           \/ EnsureAdvance(p) \/ CheckBalance(p) \/ PostFails(p) \/ SkipReceipt(p)
    PROVE  ReceiptInv'
<1>1. DOMAIN step = Callers /\ DOMAIN job = Callers
  BY DEF LedgerInv, Shape
<1>2. UNCHANGED <<mix, booking, receipts, excuses>>
  BY DEF OpenPayment, OpenHook, InsertInvoicePayment, FindAdvance, WriteAdvanceRow, SumUp,
     EnsureAdvance, CheckBalance, PostFails, SkipReceipt, Uncommitted, receiptHistory
<1>3. \E s \in {"hookInsert", "sum", "commit", "write", "find", "post", "ensure", "idle"} :
         step' = [step EXCEPT ![p] = s]
  BY DEF OpenPayment, OpenHook, InsertInvoicePayment, FindAdvance, WriteAdvanceRow, SumUp,
     EnsureAdvance, CheckBalance, PostFails, SkipReceipt, Leave, Goto
<1>4. step[p] # "store"
  BY DEF OpenPayment, OpenHook, InsertInvoicePayment, FindAdvance, WriteAdvanceRow, SumUp,
     EnsureAdvance, CheckBalance, PostFails, SkipReceipt
<1>5. UNCHANGED job \/ \E j : job' = [job EXCEPT ![p] = j]
  BY DEF OpenPayment, OpenHook, InsertInvoicePayment, FindAdvance, WriteAdvanceRow, SumUp,
     EnsureAdvance, CheckBalance, PostFails, SkipReceipt, Leave
<1>6. \A q \in Callers \ {p} : step'[q] = step[q] /\ job'[q] = job[q]
  BY <1>1, <1>3, <1>5
<1>7. step'[p] \notin {"createDoc", "store"}
  BY <1>1, <1>3
<1> QED BY <1>2, <1>4, <1>6, <1>7, ElsewhereKeeps

LEMMA WebhookElsewhere ==
    ASSUME ReceiptInv, LedgerInv, NEW p \in Callers,
           RecordStatus(p) \/ \E i, status : StoreInvoice(p, i, status)
    PROVE  ReceiptInv'
<1>1. DOMAIN step = Callers /\ DOMAIN job = Callers
  BY DEF LedgerInv, Shape
<1>2. /\ UNCHANGED <<mix, booking, receipts, excuses>>
      /\ Leave(p) /\ step[p] # "store"
  BY DEF RecordStatus, StoreInvoice, receiptHistory
<1>3. \A q \in Callers \ {p} : step'[q] = step[q] /\ job'[q] = job[q]
  BY <1>1, <1>2 DEF Leave
<1>4. step'[p] \notin {"createDoc", "store"}
  BY <1>1, <1>2 DEF Leave
<1> QED BY <1>2, <1>3, <1>4, ElsewhereKeeps

LEMMA CommitElsewhere ==
    ASSUME ReceiptInv, LedgerInv, NEW p \in Callers, Commit(p)
    PROVE  ReceiptInv'
<1>1. /\ DOMAIN step = Callers /\ DOMAIN job = Callers /\ BookingLike(booking)
      /\ \A q \in Callers : JobLike(job[q])
  BY DEF LedgerInv, Shape
<1>2. /\ UNCHANGED <<mix, receipts, excuses>> /\ step[p] # "store"
      /\ booking'.receipt = booking.receipt
  BY <1>1 DEF Commit, receiptHistory, BookingLike
<1>3. \A q \in Callers \ {p} : step'[q] = step[q] /\ job'[q] = [job[q] EXCEPT !.fresh = FALSE]
  BY <1>1 DEF Commit
<1>4. \A q \in Callers \ {p} : /\ job'[q].status = job[q].status
                                /\ job'[q].read = job[q].read /\ job'[q].force = job[q].force
  BY <1>1, <1>3 DEF JobLike, Nobody
<1>5. step'[p] \notin {"createDoc", "store"}
  BY <1>1 DEF Commit
<1> QED BY <1>2, <1>3, <1>4, <1>5, ElsewhereKeeps

\* Let through alone, a caller finds the last document on the booking.
LEMMA CheckReceiptChecks ==
    ASSUME ReceiptInv, LedgerInv, NEW p \in Callers, CheckReceipt(p)
    PROVE  ReceiptInv'
<1> DEFINE read == IF OthersIssue(p) THEN 0 ELSE receipts
           j == [job[p] EXCEPT !.amount = booking.advance, !.kind = "advance", !.read = read]
<1>1. /\ DOMAIN step = Callers /\ DOMAIN job = Callers /\ JobLike(job[p])
      /\ step[p] = "receipt" /\ UNCHANGED <<mix, booking, receipts, excuses>>
      /\ receipts \in Nat /\ excuses \in Nat /\ Standing /\ Checked
  BY DEF LedgerInv, Shape, CheckReceipt, Uncommitted, receiptHistory, ReceiptInv
<1>2. CASE Leave(p)
  <2>1. \A q \in Callers \ {p} : step'[q] = step[q] /\ job'[q] = job[q]
    BY <1>1, <1>2 DEF Leave
  <2>2. step'[p] \notin {"createDoc", "store"}
    BY <1>1, <1>2 DEF Leave
  <2> QED BY <1>1, <2>1, <2>2, ElsewhereKeeps
<1>3. CASE /\ MayIssue(job[p].force) /\ Goto(p, "createDoc")
           /\ job' = [job EXCEPT ![p] = j]
  <2>1. j.read = read /\ j.force = job[p].force
    BY <1>1 DEF JobLike, Nobody
  <2> HIDE DEF j
  <2>2. /\ step'[p] = "createDoc" /\ job'[p] = j
        /\ \A q \in Callers \ {p} : step'[q] = step[q] /\ job'[q] = job[q]
    BY <1>1, <1>3 DEF Goto
  <2>3. CheckedAt(j)
    <3>1. read \in Nat /\ read <= receipts
      BY <1>1
    <3>2. ASSUME ~job[p].force, receipts > 0, read = receipts
          PROVE  receipts <= excuses
      <4>1. ~OthersIssue(p)
        BY <1>1, <3>2
      <4>2. \A q \in Callers : step[q] # "store"
        BY <1>1, <4>1 DEF OthersIssue
      <4>3. booking.receipt # "ISSUED"
        BY <1>3, <3>2 DEF MayIssue
      <4> QED BY <1>1, <4>2, <4>3 DEF Standing
    <3> QED BY <2>1, <3>1, <3>2 DEF CheckedAt
  <2>4. Checked'
    BY <1>1, <2>2, <2>3 DEF Checked, CheckedAt
  <2>5. Standing'
    BY <1>1, <2>2 DEF Standing
  <2> QED BY <1>1, <2>4, <2>5 DEF ReceiptInv, OneReceipt
<1> QED BY <1>2, <1>3 DEF CheckReceipt

LEMMA CreateDocCounts ==
    ASSUME ReceiptInv, LedgerInv, NEW p \in Callers, NEW issued \in BOOLEAN,
           NEW answered \in BOOLEAN, NEW named \in BOOLEAN, CreateDoc(p, issued, answered, named)
    PROVE  ReceiptInv'
<1> DEFINE status == IF ~answered THEN "FAILED"
                     ELSE IF mix.mode = "simulation" THEN "SIMULATED" ELSE "ISSUED"
           doc == IF answered /\ named THEN serial ELSE NoDoc
           j == [job[p] EXCEPT !.status = status, !.doc = doc]
           new == One(job[p].force) + One(~answered) + One(Simultaneous(p))
<1>1. /\ DOMAIN step = Callers /\ DOMAIN job = Callers /\ JobLike(job[p])
      /\ step[p] = "createDoc" /\ UNCHANGED <<mix, booking>>
      /\ receipts \in Nat /\ excuses \in Nat /\ receipts <= 1 + excuses
      /\ Standing /\ Checked /\ CheckedAt(job[p])
      /\ mix.mode = "simulation" => receipts = 0
  BY DEF LedgerInv, Shape, CreateDoc, ReceiptInv, OneReceipt, Checked
<1>2. /\ step' = [step EXCEPT ![p] = "store"] /\ job' = [job EXCEPT ![p] = j]
  BY DEF CreateDoc, Goto
<1>3. j.status = status
  BY <1>1 DEF JobLike, Nobody
<1>4. new \in Nat
  BY DEF One
<1>5. /\ receipts' = IF issued /\ mix.mode = "live" THEN receipts + 1 ELSE receipts
      /\ excuses' = excuses + new
  <2>1. excuses' = excuses + One(job[p].force) + One(~answered) + One(Simultaneous(p))
    BY DEF CreateDoc
  <2>2. One(job[p].force) \in Nat /\ One(~answered) \in Nat /\ One(Simultaneous(p)) \in Nat
    BY DEF One
  <2> QED BY <1>1, <2>1, <2>2 DEF CreateDoc
<1>6. CASE new = 0
  <2>1. ~job[p].force /\ answered /\ ~Simultaneous(p)
    BY <1>6 DEF One
  <2>2. receipts <= excuses
    BY <1>1, <2>1 DEF Simultaneous, CheckedAt
  <2>3. \A q \in Callers \ {p} : step[q] \notin {"createDoc", "store"}
    BY <2>1 DEF Simultaneous, OthersIssue
  <2> HIDE DEF j, new
  <2>4. /\ step'[p] = "store" /\ job'[p] = j
        /\ \A q \in Callers \ {p} : step'[q] = step[q] /\ job'[q] = job[q]
    BY <1>1, <1>2
  <2>5. receipts' > excuses' => j.status = "ISSUED"
    BY <1>1, <1>3, <1>5, <1>6, <2>1, <2>2
  <2>6. Standing'
    BY <2>3, <2>4, <2>5 DEF Standing
  <2>7. Checked'
    BY <2>3, <2>4 DEF Checked
  <2> QED BY <1>1, <1>5, <1>6, <2>2, <2>6, <2>7 DEF ReceiptInv, OneReceipt
<1>7. CASE new >= 1
  <2>1. ~answered \/ status = "ISSUED" \/ mix.mode = "simulation"
    OBVIOUS
  <2>2. ~answered => new >= 2 \/ (~job[p].force /\ ~Simultaneous(p))
    BY DEF One
  <2> HIDE DEF j, new
  <2>3. /\ step'[p] = "store" /\ job'[p] = j
        /\ \A q \in Callers \ {p} : step'[q] = step[q] /\ job'[q] = job[q]
    BY <1>1, <1>2
  <2>4. receipts' > excuses' => receipts > excuses
    BY <1>1, <1>4, <1>5, <1>7
  <2>5. receipts' > excuses' => j.status = "ISSUED"
    <3>1. CASE answered
      BY <1>1, <1>3, <1>5, <1>7, <2>1, <3>1, <1>4
    <3>2. CASE ~answered /\ new >= 2
      BY <1>1, <1>4, <1>5, <3>2
    <3>3. CASE ~answered /\ ~job[p].force /\ ~Simultaneous(p)
      <4>1. receipts <= excuses
        BY <1>1, <3>3 DEF Simultaneous, CheckedAt
      <4> QED BY <2>4, <4>1, <1>1
    <3> QED BY <2>2, <3>1, <3>2, <3>3
  <2>6. Standing'
    BY <1>1, <2>3, <2>4, <2>5 DEF Standing
  <2>7. Checked'
    <3>1. ASSUME NEW q \in Callers, step'[q] = "createDoc"
          PROVE  CheckedAt(job[q])'
      <4>1. q # p /\ CheckedAt(job[q]) /\ job'[q] = job[q]
        BY <1>1, <2>3, <3>1 DEF Checked
      <4> QED BY <1>1, <1>4, <1>5, <4>1 DEF CheckedAt
    <3> QED BY <3>1 DEF Checked
  <2> QED BY <1>1, <1>4, <1>5, <1>7, <2>6, <2>7 DEF ReceiptInv, OneReceipt
<1> QED BY <1>4, <1>6, <1>7

LEMMA StoreReceiptRecords ==
    ASSUME ReceiptInv, LedgerInv, NEW p \in Callers, StoreReceipt(p)
    PROVE  ReceiptInv'
<1>1. /\ DOMAIN step = Callers /\ DOMAIN job = Callers /\ BookingLike(booking)
      /\ step[p] = "store" /\ UNCHANGED <<mix, receipts, excuses>>
      /\ Standing /\ Checked
  BY DEF LedgerInv, Shape, StoreReceipt, receiptHistory, ReceiptInv
<1>2. booking'.receipt = job[p].status
  BY <1>1 DEF StoreReceipt, BookingLike
<1>3. \A q \in Callers \ {p} : step'[q] = step[q] /\ job'[q] = job[q]
  BY <1>1 DEF StoreReceipt, Leave, Goto
<1>4. step'[p] \notin {"createDoc", "store"}
  BY <1>1 DEF StoreReceipt, Leave, Goto
<1>5. Standing'
  BY <1>1, <1>2, <1>3, <1>4 DEF Standing
<1>6. Checked'
  BY <1>1, <1>3, <1>4 DEF Checked, CheckedAt
<1> QED BY <1>1, <1>5, <1>6 DEF ReceiptInv, OneReceipt

LEMMA ReceiptStep == LedgerInv /\ ReceiptInv /\ [PaymentNext]_paymentVars => ReceiptInv'
<1> SUFFICES ASSUME LedgerInv, ReceiptInv, [PaymentNext]_paymentVars PROVE ReceiptInv'
  OBVIOUS
<1>1. CASE UNCHANGED paymentVars
  BY <1>1 DEF paymentVars, receiptHistory, ReceiptInv, OneReceipt, Standing, Checked, CheckedAt
<1>2. ASSUME NEW p \in Callers, Transaction(p)
      PROVE  ReceiptInv'
  BY <1>2, WorkElsewhere, CommitElsewhere DEF Transaction
<1>3. ASSUME NEW p \in Callers,
             \/ RecordStatus(p) \/ CheckReceipt(p) \/ SkipReceipt(p) \/ StoreReceipt(p)
             \/ EnsureAdvance(p) \/ CheckBalance(p) \/ PostFails(p)
      PROVE  ReceiptInv'
  BY <1>3, WebhookElsewhere, CheckReceiptChecks, StoreReceiptRecords, WorkElsewhere
<1>4. ASSUME NEW p \in Callers, NEW amount \in mix.amounts,
             \/ UpdateBooking(p, amount) \/ FinalizeBooking(p, amount) \/ AskInvoice(p, amount)
             \/ \E d \in Invoices \cup {NoDoc} : Pay(p, amount, d)
      PROVE  ReceiptInv'
  BY <1>4, BeginElsewhere
<1>5. ASSUME NEW p \in Callers, NEW force \in BOOLEAN, Reissue(p, force)
      PROVE  ReceiptInv'
  BY <1>5, BeginElsewhere
<1>6. ASSUME NEW p \in Callers, NEW issued \in BOOLEAN, NEW answered \in BOOLEAN,
             NEW named \in BOOLEAN, CreateDoc(p, issued, answered, named)
      PROVE  ReceiptInv'
  BY <1>6, CreateDocCounts
<1>7. ASSUME NEW p \in Callers, NEW i \in Invoices,
             \/ \E status \in InvoiceStatus \ {"none"}, amount \in mix.amounts \cup {invoices[i].amount} :
                    Notify(p, i, status, amount)
             \/ \E status \in {"pending", "paid"} : StoreInvoice(p, i, status)
      PROVE  ReceiptInv'
  BY <1>7, BeginElsewhere, WebhookElsewhere
<1> QED BY <1>1, <1>2, <1>3, <1>4, <1>5, <1>6, <1>7 DEF PaymentNext

\* EasyCount issues one tax document for the advance, and one more for each issue
\* that was forced, left unanswered or simultaneous with another
\* (issueEasyCountReceiptForBooking): for every number of operations at once.
THEOREM OneTaxDocument == PaymentSpec => []OneReceipt
<1>1. LedgerInv /\ ReceiptInv /\ [PaymentNext]_paymentVars => LedgerInv' /\ ReceiptInv'
  BY LedgerStep, ReceiptStep
<1>2. PaymentInit => LedgerInv /\ ReceiptInv
  BY LedgerInitial, ReceiptInitial
<1>3. ReceiptInv => OneReceipt
  BY DEF ReceiptInv
<1> QED BY <1>1, <1>2, <1>3, PTL DEF PaymentSpec

(***************************************************************************)
(* Sums.  MapThenSumSet is a recursive function on the subsets of a set; a  *)
(* set smaller than every other that is wrong, which finite sets have, does *)
(* the work of an induction.                                               *)
(***************************************************************************)

Taken(S) == CHOOSE x \in S : TRUE

\* g sums the weights of every subset of S, one element after another.
Adds(g, w, S) ==
    g = [T \in SUBSET S |-> IF T = {} THEN 0 ELSE w[Taken(T)] + g[T \ {Taken(T)}]]
Total(w, S) == (CHOOSE g : Adds(g, w, S))[S]

Weights(w, S) == \A x \in S : w[x] \in Nat

\* A finite set that is wrong has a subset that is wrong and none below it.
LEMMA SmallestWrong ==
    ASSUME NEW S, IsFiniteSet(S), NEW Wrong \in SUBSET SUBSET S, Wrong # {}
    PROVE  \E T \in Wrong : \A U \in Wrong : ~(U \subseteq T /\ U # T)
<1>1. \A T \in SUBSET S : IsFiniteSet(T)
  BY FS_Subset
<1>2. Wrong \subseteq FiniteSubsetsOf(S)
  BY <1>1 DEF FiniteSubsetsOf
<1>3. PICK T \in Wrong : \A U \in Wrong : ~(<<U, T>> \in StrictSubsetOrdering(S))
  BY <1>2, WFMin, FS_StrictSubsetOrderingWellFounded
<1>4. ASSUME NEW U \in Wrong, U \subseteq T, U # T
      PROVE  FALSE
  BY <1>3, <1>4 DEF StrictSubsetOrdering
<1> QED BY <1>4

\* An element taken from a set is one of its elements.
LEMMA TakenIsOne ==
    ASSUME NEW S, S # {}
    PROVE  /\ Taken(S) \in S /\ S \ {Taken(S)} \subseteq S /\ S \ {Taken(S)} # S
BY DEF Taken

\* What such a function says of a subset.
LEMMA AddsAt ==
    ASSUME NEW g, NEW w, NEW S, Adds(g, w, S), NEW T \in SUBSET S
    PROVE  g[T] = IF T = {} THEN 0 ELSE w[Taken(T)] + g[T \ {Taken(T)}]
BY DEF Adds

\* Two such functions agree, on the sets both know, if the weights do.
LEMMA AddsUnique ==
    ASSUME NEW S, IsFiniteSet(S), NEW g, NEW h, NEW w, NEW v, NEW A, NEW B,
           Adds(g, w, A), Adds(h, v, B), S \subseteq A, S \subseteq B,
           \A x \in S : w[x] = v[x]
    PROVE  g[S] = h[S]
<1> SUFFICES ASSUME g[S] # h[S] PROVE FALSE
  OBVIOUS
<1> DEFINE Wrong == {T \in SUBSET S : g[T] # h[T]}
<1>1. PICK T \in Wrong : \A U \in Wrong : ~(U \subseteq T /\ U # T)
  <2>1. Wrong \in SUBSET SUBSET S /\ Wrong # {}
    OBVIOUS
  <2> HIDE DEF Wrong
  <2> QED BY <2>1, SmallestWrong
<1>2. T \in SUBSET A /\ T \in SUBSET B /\ T \in SUBSET S /\ g[T] # h[T]
  OBVIOUS
<1> HIDE DEF Wrong
<1>3. /\ g[T] = IF T = {} THEN 0 ELSE w[Taken(T)] + g[T \ {Taken(T)}]
      /\ h[T] = IF T = {} THEN 0 ELSE v[Taken(T)] + h[T \ {Taken(T)}]
  <2>1. g[T] = IF T = {} THEN 0 ELSE w[Taken(T)] + g[T \ {Taken(T)}]
    <3>1. Adds(g, w, A) /\ T \in SUBSET A
      BY <1>2
    <3> QED BY ONLY <3>1, AddsAt
  <2>2. h[T] = IF T = {} THEN 0 ELSE v[Taken(T)] + h[T \ {Taken(T)}]
    <3>1. Adds(h, v, B) /\ T \in SUBSET B
      BY <1>2
    <3> QED BY ONLY <3>1, AddsAt
  <2> QED BY <2>1, <2>2
<1>4. CASE T = {}
  BY <1>2, <1>3, <1>4
<1>5. CASE T # {}
  <2> DEFINE U == T \ {Taken(T)}
  <2>1. Taken(T) \in T /\ U \subseteq T /\ U # T
    BY <1>5, TakenIsOne
  <2>2. g[U] = h[U]
    BY <1>1, <1>2, <2>1 DEF Wrong
  <2> HIDE DEF U
  <2>3. w[Taken(T)] = v[Taken(T)]
    BY <1>2, <2>1
  <2> QED BY <1>2, <1>3, <1>5, <2>2, <2>3 DEF U
<1> QED BY <1>4, <1>5

\* On a finite set such a function exists.
LEMMA AddsExists ==
    ASSUME NEW S, IsFiniteSet(S), NEW w
    PROVE  \E g : Adds(g, w, S)
<1> SUFFICES ASSUME ~\E g : Adds(g, w, S) PROVE FALSE
  OBVIOUS
<1> DEFINE Wrong == {T \in SUBSET S : ~\E g : Adds(g, w, T)}
<1>1. PICK T \in Wrong : \A U \in Wrong : ~(U \subseteq T /\ U # T)
  <2>1. Wrong \in SUBSET SUBSET S /\ Wrong # {}
    OBVIOUS
  <2> HIDE DEF Wrong
  <2> QED BY <2>1, SmallestWrong
<1>2. T \in SUBSET S /\ ~\E g : Adds(g, w, T)
  OBVIOUS
<1>3. ASSUME NEW U \in SUBSET T, U # T
      PROVE  Adds(CHOOSE g : Adds(g, w, U), w, U)
  <2>1. U \notin Wrong /\ U \in SUBSET S
    BY <1>1, <1>2, <1>3
  <2>2. \E g : Adds(g, w, U)
    BY <2>1
  <2> QED BY <2>2
<1> HIDE DEF Wrong
<1> DEFINE sum == [U \in SUBSET T |->
                     IF U = {} THEN 0 ELSE w[Taken(U)] + Total(w, U \ {Taken(U)})]
<1>4. ASSUME NEW U \in SUBSET T, U # T
      PROVE  sum[U] = Total(w, U)
  <2> DEFINE g == CHOOSE g : Adds(g, w, U)
  <2>1. Adds(g, w, U)
    BY <1>3, <1>4
  <2> HIDE DEF g
  <2>2. g[U] = IF U = {} THEN 0 ELSE w[Taken(U)] + g[U \ {Taken(U)}]
    BY <2>1, AddsAt
  <2>3. Total(w, U) = g[U]
    BY DEF Total, g
  <2>4. CASE U = {}
    BY <2>2, <2>3, <2>4
  <2>5. CASE U # {}
    <3> DEFINE V == U \ {Taken(U)}
               h == CHOOSE h : Adds(h, w, V)
    <3>1. V \in SUBSET U /\ V \in SUBSET T /\ V # T /\ V \in SUBSET S
      BY <1>2, <1>4, <2>5, TakenIsOne
    <3>2. Adds(h, w, V)
      BY <1>3, <3>1
    <3>3. Total(w, V) = h[V]
      BY DEF Total
    <3>4. IsFiniteSet(V)
      BY <3>1, FS_Subset
    <3> HIDE DEF V, h
    <3>5. g[V] = h[V]
      BY <2>1, <3>1, <3>2, <3>4, AddsUnique
    <3>6. sum[U] = w[Taken(U)] + Total(w, V)
      BY <2>5 DEF V
    <3> HIDE DEF sum
    <3> QED BY <2>2, <2>3, <2>5, <3>3, <3>5, <3>6 DEF V
  <2> QED BY <2>4, <2>5
<1>5. ASSUME NEW U \in SUBSET T, U # {}
      PROVE  sum[U \ {Taken(U)}] = Total(w, U \ {Taken(U)})
  <2>1. U \ {Taken(U)} \in SUBSET T /\ U \ {Taken(U)} # T
    BY <1>5, TakenIsOne
  <2> HIDE DEF sum
  <2> QED BY <1>4, <2>1
<1>6. Adds(sum, w, T)
  <2>1. \A U \in SUBSET T :
          sum[U] = IF U = {} THEN 0 ELSE w[Taken(U)] + sum[U \ {Taken(U)}]
    <3> TAKE U \in SUBSET T
    <3>1. sum[U] = IF U = {} THEN 0 ELSE w[Taken(U)] + Total(w, U \ {Taken(U)})
      OBVIOUS
    <3> HIDE DEF sum
    <3> QED BY <1>5, <3>1
  <2>2. sum = [U \in SUBSET T |-> sum[U]]
    OBVIOUS
  <2> HIDE DEF sum
  <2>3. [U \in SUBSET T |-> sum[U]] =
        [U \in SUBSET T |-> IF U = {} THEN 0 ELSE w[Taken(U)] + sum[U \ {Taken(U)}]]
    BY <2>1
  <2> QED BY <2>2, <2>3 DEF Adds
<1> QED BY <1>2, <1>6

\* The function that Total chooses is one.
LEMMA TotalAdds ==
    ASSUME NEW S, IsFiniteSet(S), NEW w
    PROVE  \E g : Adds(g, w, S) /\ Total(w, S) = g[S]
<1>1. Adds(CHOOSE g : Adds(g, w, S), w, S)
  BY AddsExists
<1> QED BY <1>1 DEF Total

\* Totals of equal weights are equal.
LEMMA TotalSame ==
    ASSUME NEW S, IsFiniteSet(S), NEW w, NEW v, \A x \in S : w[x] = v[x]
    PROVE  Total(w, S) = Total(v, S)
<1>1. PICK g : Adds(g, w, S) /\ Total(w, S) = g[S]
  BY TotalAdds
<1>2. PICK h : Adds(h, v, S) /\ Total(v, S) = h[S]
  BY TotalAdds
<1> QED BY <1>1, <1>2, AddsUnique

\* The total of the empty set, and of another by the element taken from it.
LEMMA TotalTaken ==
    ASSUME NEW S, IsFiniteSet(S), NEW w
    PROVE  Total(w, S) = IF S = {} THEN 0 ELSE w[Taken(S)] + Total(w, S \ {Taken(S)})
<1>1. PICK g : Adds(g, w, S) /\ Total(w, S) = g[S]
  BY TotalAdds
<1>2. g[S] = IF S = {} THEN 0 ELSE w[Taken(S)] + g[S \ {Taken(S)}]
  BY <1>1, AddsAt
<1> DEFINE T == S \ {Taken(S)}
<1>3. IsFiniteSet(T) /\ T \subseteq S /\ T \subseteq T
  BY FS_Subset
<1> HIDE DEF T
<1>4. PICK h : Adds(h, w, T) /\ Total(w, T) = h[T]
  BY <1>3, TotalAdds
<1>5. g[T] = h[T]
  BY <1>1, <1>3, <1>4, AddsUnique
<1> QED BY <1>1, <1>2, <1>4, <1>5 DEF T

\* A total of natural numbers is one.
LEMMA TotalNat ==
    ASSUME NEW S, IsFiniteSet(S), NEW w, Weights(w, S)
    PROVE  Total(w, S) \in Nat
<1> SUFFICES ASSUME Total(w, S) \notin Nat PROVE FALSE
  OBVIOUS
<1> DEFINE Wrong == {T \in SUBSET S : Total(w, T) \notin Nat}
<1>1. PICK T \in Wrong : \A U \in Wrong : ~(U \subseteq T /\ U # T)
  <2>1. Wrong \in SUBSET SUBSET S /\ Wrong # {}
    OBVIOUS
  <2> HIDE DEF Wrong
  <2> QED BY <2>1, SmallestWrong
<1>2. T \in SUBSET S /\ Total(w, T) \notin Nat /\ IsFiniteSet(T)
  BY FS_Subset
<1>3. Total(w, T) = IF T = {} THEN 0 ELSE w[Taken(T)] + Total(w, T \ {Taken(T)})
  BY <1>2, TotalTaken
<1>4. CASE T # {}
  <2>1. Taken(T) \in T /\ T \ {Taken(T)} \subseteq T /\ T \ {Taken(T)} # T
    BY <1>4, TakenIsOne
  <2>2. Total(w, T \ {Taken(T)}) \in Nat
    BY <1>1, <1>2, <2>1
  <2>3. w[Taken(T)] \in Nat
    BY <1>2, <2>1 DEF Weights
  <2> QED BY <1>2, <1>3, <1>4, <2>2, <2>3
<1> QED BY <1>2, <1>3, <1>4

\* A total by any of its elements.
LEMMA TotalWithout ==
    ASSUME NEW S, IsFiniteSet(S), NEW w, Weights(w, S), NEW y \in S
    PROVE  Total(w, S) = w[y] + Total(w, S \ {y})
<1> SUFFICES ASSUME Total(w, S) # w[y] + Total(w, S \ {y}) PROVE FALSE
  OBVIOUS
<1> DEFINE Wrong == {T \in SUBSET S : \E z \in T : Total(w, T) # w[z] + Total(w, T \ {z})}
<1>1. PICK T \in Wrong : \A U \in Wrong : ~(U \subseteq T /\ U # T)
  <2>1. Wrong \in SUBSET SUBSET S /\ Wrong # {}
    OBVIOUS
  <2> HIDE DEF Wrong
  <2> QED BY <2>1, SmallestWrong
<1>2. PICK z \in T : Total(w, T) # w[z] + Total(w, T \ {z})
  OBVIOUS
<1>3. T \in SUBSET S /\ T # {} /\ IsFiniteSet(T)
  BY <1>2, FS_Subset
<1> DEFINE x == Taken(T)
<1>4. x \in T /\ Total(w, T) = w[x] + Total(w, T \ {x})
  BY <1>3, TakenIsOne, TotalTaken
<1> HIDE DEF x
<1>5. x # z
  BY <1>2, <1>4
<1>6. ASSUME NEW U \in SUBSET T, U # T, NEW u \in U
      PROVE  Total(w, U) = w[u] + Total(w, U \ {u})
  <2>1. U \in SUBSET S /\ U \notin Wrong
    BY <1>1, <1>3, <1>6
  <2> QED BY <1>6, <2>1
<1> HIDE DEF Wrong
<1> DEFINE R == (T \ {x}) \ {z}
<1>7. R = (T \ {z}) \ {x}
  OBVIOUS
<1>8. T \ {x} \in SUBSET T /\ T \ {x} # T /\ T \ {z} \in SUBSET T /\ T \ {z} # T
  BY <1>2, <1>4
<1>9. Total(w, T \ {x}) = w[z] + Total(w, R)
  BY <1>2, <1>5, <1>6, <1>8
<1>10. Total(w, T \ {z}) = w[x] + Total(w, R)
  BY <1>4, <1>5, <1>6, <1>7, <1>8
<1>11. w[x] \in Nat /\ w[z] \in Nat
  BY <1>2, <1>3, <1>4 DEF Weights
<1>12. Total(w, R) \in Nat
  <2>1. R \in SUBSET S /\ IsFiniteSet(R) /\ Weights(w, R)
    BY <1>3, FS_Subset DEF Weights
  <2> QED BY <2>1, TotalNat
<1> HIDE DEF R
<1> QED BY <1>2, <1>4, <1>9, <1>10, <1>11, <1>12

\* The total of two disjoint sets.
LEMMA TotalUnion ==
    ASSUME NEW S, IsFiniteSet(S), NEW R, IsFiniteSet(R), NEW w, Weights(w, S), Weights(w, R),
           \A x \in S : x \notin R
    PROVE  Total(w, S \cup R) = Total(w, S) + Total(w, R)
<1> SUFFICES ASSUME Total(w, S \cup R) # Total(w, S) + Total(w, R) PROVE FALSE
  OBVIOUS
<1> DEFINE Wrong == {T \in SUBSET S : Total(w, T \cup R) # Total(w, T) + Total(w, R)}
<1>1. PICK T \in Wrong : \A U \in Wrong : ~(U \subseteq T /\ U # T)
  <2>1. Wrong \in SUBSET SUBSET S /\ Wrong # {}
    OBVIOUS
  <2> HIDE DEF Wrong
  <2> QED BY <2>1, SmallestWrong
<1>2. T \in SUBSET S /\ Total(w, T \cup R) # Total(w, T) + Total(w, R)
  OBVIOUS
<1>3. IsFiniteSet(T) /\ Weights(w, T) /\ Total(w, R) \in Nat
  BY <1>2, FS_Subset, TotalNat DEF Weights
<1>4. CASE T = {}
  <2>1. Total(w, T) = 0
    BY <1>3, <1>4, TotalTaken
  <2>2. Total(w, T \cup R) = Total(w, R)
    <3>1. T \cup R = R
      BY <1>4
    <3> QED BY <3>1
  <2> QED BY <1>2, <1>3, <2>1, <2>2
<1>5. CASE T # {}
  <2>1. PICK x \in T : TRUE
    BY <1>5
  <2> DEFINE U == T \ {x}
  <2>2. U \in SUBSET S /\ U \notin Wrong
    BY <1>1, <1>2
  <2>3. Total(w, U \cup R) = Total(w, U) + Total(w, R)
    BY <2>2
  <2>4. IsFiniteSet(T \cup R) /\ Weights(w, T \cup R) /\ (T \cup R) \ {x} = U \cup R
    BY <1>2, <1>3, FS_Union DEF Weights
  <2>5. Total(w, T \cup R) = w[x] + Total(w, U \cup R)
    BY <2>4, TotalWithout
  <2>6. Total(w, T) = w[x] + Total(w, U)
    BY <1>3, TotalWithout
  <2>7. w[x] \in Nat /\ Total(w, U) \in Nat
    <3>1. IsFiniteSet(U) /\ Weights(w, U)
      BY <1>3, FS_Subset DEF Weights
    <3> QED BY <1>3, <3>1, TotalNat DEF Weights
  <2> HIDE DEF U
  <2> QED BY <1>2, <1>3, <2>3, <2>5, <2>6, <2>7
<1> QED BY <1>4, <1>5

\* The amount of some rows is their total by amount.
LEMMA AmountIsTotal ==
    ASSUME NEW rows, IsFiniteSet(rows)
    PROVE  AmountOf(rows) = Total([r \in rows |-> r.amount], rows)
<1> DEFINE w == [r \in rows |-> r.amount]
           Solves(g) == g = [T \in SUBSET rows |->
                              IF T = {} THEN 0
                              ELSE (CHOOSE x \in T : TRUE).amount + g[T \ {CHOOSE x \in T : TRUE}]]
           h == CHOOSE h : Solves(h)
<1>1. AmountOf(rows) = h[rows]
  BY DEF AmountOf, MapThenSumSet, MapThenFoldSet
<1>2. ASSUME NEW g
      PROVE  Adds(g, w, rows) <=> Solves(g)
  <2>1. \A T \in SUBSET rows : T # {} => w[Taken(T)] = (CHOOSE x \in T : TRUE).amount
    BY TakenIsOne DEF Taken
  <2> DEFINE a == [T \in SUBSET rows |-> IF T = {} THEN 0 ELSE w[Taken(T)] + g[T \ {Taken(T)}]]
             b == [T \in SUBSET rows |->
                     IF T = {} THEN 0
                     ELSE (CHOOSE x \in T : TRUE).amount + g[T \ {CHOOSE x \in T : TRUE}]]
  <2> HIDE DEF w
  <2>2. a = b
    <3>1. \A T \in SUBSET rows :
             (IF T = {} THEN 0 ELSE w[Taken(T)] + g[T \ {Taken(T)}])
             = (IF T = {} THEN 0
                ELSE (CHOOSE x \in T : TRUE).amount + g[T \ {CHOOSE x \in T : TRUE}])
      BY <2>1 DEF Taken
    <3> QED BY ONLY <3>1
  <2> HIDE DEF a, b
  <2>3. Adds(g, w, rows) <=> g = a
    BY DEF Adds, a
  <2>4. Solves(g) <=> g = b
    BY DEF b
  <2> QED BY <2>2, <2>3, <2>4
<1> HIDE DEF w, Solves
<1>3. \E g : Solves(g)
  BY <1>2, AddsExists
<1>4. Solves(h)
  BY <1>3
<1> HIDE DEF h
<1>5. Adds(h, w, rows)
  BY <1>2, <1>4
<1>6. PICK g : Adds(g, w, rows) /\ Total(w, rows) = g[rows]
  BY TotalAdds
<1>7. g[rows] = h[rows]
  BY <1>5, <1>6, AddsUnique
<1> QED BY <1>1, <1>6, <1>7 DEF w

\* Rows with amounts.
WithAmounts(rows) == IsFiniteSet(rows) /\ \A r \in rows : r.amount \in Nat

\* The amount of no rows, and of one row more.
LEMMA AmountOfNone == AmountOf({}) = 0
<1>1. IsFiniteSet({})
  BY FS_EmptySet
<1>2. AmountOf({}) = Total([r \in {} |-> r.amount], {})
  BY <1>1, AmountIsTotal
<1> QED BY <1>1, <1>2, TotalTaken

LEMMA AmountIsNat ==
    ASSUME NEW rows, WithAmounts(rows)
    PROVE  AmountOf(rows) \in Nat
<1> DEFINE w == [r \in rows |-> r.amount]
<1>1. Weights(w, rows)
  BY DEF Weights, WithAmounts
<1>2. AmountOf(rows) = Total(w, rows)
  BY AmountIsTotal DEF WithAmounts
<1> HIDE DEF w
<1> QED BY <1>1, <1>2, TotalNat DEF WithAmounts

LEMMA AmountWithout ==
    ASSUME NEW rows, WithAmounts(rows), NEW r \in rows
    PROVE  AmountOf(rows) = r.amount + AmountOf(rows \ {r})
<1> DEFINE w == [o \in rows |-> o.amount]
           rest == rows \ {r}
           v == [o \in rest |-> o.amount]
<1>1. Weights(w, rows) /\ w[r] = r.amount /\ \A o \in rest : w[o] = v[o]
  BY DEF Weights, WithAmounts
<1>2. IsFiniteSet(rows) /\ IsFiniteSet(rest)
  BY FS_Subset DEF WithAmounts
<1>3. AmountOf(rows) = Total(w, rows) /\ AmountOf(rest) = Total(v, rest)
  BY <1>2, AmountIsTotal
<1> HIDE DEF w, v
<1>4. Total(w, rest) = Total(v, rest)
  BY <1>1, <1>2, TotalSame
<1>5. Total(w, rows) = w[r] + Total(w, rest)
  BY <1>1, <1>2, TotalWithout
<1> QED BY <1>1, <1>3, <1>4, <1>5

LEMMA AmountWith ==
    ASSUME NEW rows, WithAmounts(rows), NEW r, r \notin rows, r.amount \in Nat
    PROVE  /\ WithAmounts(rows \cup {r})
           /\ AmountOf(rows \cup {r}) = AmountOf(rows) + r.amount
<1>1. WithAmounts(rows \cup {r})
  BY FS_AddElement DEF WithAmounts
<1>2. (rows \cup {r}) \ {r} = rows /\ AmountOf(rows) \in Nat
  BY AmountIsNat
<1>3. AmountOf(rows \cup {r}) = r.amount + AmountOf(rows)
  BY <1>1, <1>2, AmountWithout
<1> QED BY <1>1, <1>2, <1>3

(***************************************************************************)
(* The ledger holds what was paid.                                         *)
(***************************************************************************)

\* None of the excuses.
Regular == ~crossed /\ ~mirrored /\ ~edited

SizedJob(j) ==
    /\ WithAmounts(j.rows)
    /\ j.amount \in Nat /\ j.total \in Nat /\ j.advance \in Nat
    /\ j.kind \in {"manual", "hook", "invoice"} => j.amount # 0
    /\ j.kind = "hook" => /\ j.read \in Nat /\ j.status # "none"
                          /\ j.doc \in Invoices /\ invoices[j.doc].status # "none"

\* Amounts are natural numbers, positive where somebody pays or is to pay.
Sized ==
    /\ mix \in Ledgers
    /\ WithAmounts(ledger)
    /\ agreed \in Nat /\ received \in Nat
    /\ booking.advance \in Nat /\ booking.total \in Nat
    /\ \A i \in Invoices :
          invoices[i].status # "none" => invoices[i].amount \in Nat /\ invoices[i].amount # 0
    /\ \A p \in Callers : SizedJob(job[p])

\* What a caller is at each of its steps, and where it has rows in hand.
KindAt(s, j) ==
    /\ s \in {"idle", "ensure", "receipt"} => j.kind = "none"
    /\ s = "open" => j.kind = "manual"
    /\ s \in {"hook", "hookInsert"} => j.kind = "hook"
    /\ s \in {"createDoc", "store", "find", "write"} => j.kind = "advance"
    /\ s \in {"balance", "post"} => j.kind = "invoice"
    /\ s \in {"sum", "commit"} => j.kind \in {"manual", "hook", "advance"}
    /\ s \notin {"hookInsert", "sum", "commit"} => j.rows = {}
Kinds == \A p \in Callers : KindAt(step[p], job[p])

\* Nobody works on an option, and it has no money.
OptionIdle ==
    booking.option =>
        /\ ledger = {} /\ received = 0 /\ booking.advance = 0 /\ booking.total = 0
        /\ \A p \in Callers : step[p] = "idle" /\ ~job[p].chain
        /\ \A i \in Invoices : invoices[i].status = "none"

\* No document stands on two rows, committed or in hand.
DocsFree(p, rows) ==
    \A o \in rows : o.doc # NoDoc =>
        /\ \A e \in ledger : e.n # o.n => e.doc # o.doc
        /\ \A q \in Callers \ {p} : \A r \in job[q].rows : r.doc # o.doc
DocsApart == \A p \in Callers : DocsFree(p, job[p].rows)

\* The advance agreed on is one row, or none if nothing was agreed on.
OneAdvance(rows) ==
    IF agreed = 0 THEN Advances(rows) = {}
    ELSE \E a \in rows : Advances(rows) = {a} /\ a.amount = agreed

NewNumber(n) == \A e \in ledger : e.n # n

\* The rows in hand are the first of the ledger and bring the agreed advance and
\* x; or one payment of x; or the agreed advance again.
BringsFirst(rows, x) == ledger = {} /\ AmountOf(rows) = agreed + x /\ OneAdvance(rows)
BringsOne(rows, x) ==
    \E r \in rows : rows = {r} /\ r.source # "ADVANCE" /\ r.amount = x /\ NewNumber(r.n)
Advance(n) == \E e \in ledger : e.n = n /\ e.source = "ADVANCE" /\ e.amount = agreed
BringsAdvance(rows, x) ==
    \E r \in rows : rows = {r} /\ r.source = "ADVANCE" /\ r.amount = agreed /\ Advance(r.n) /\ x = 0
Brings(rows, x) ==
    \/ BringsFirst(rows, x)
    \/ ledger # {} /\ ((rows = {} /\ x = 0) \/ BringsOne(rows, x) \/ BringsAdvance(rows, x))

Balanced ==
    Regular =>
        IF ledger = {}
        THEN received = 0 /\ (~booking.option => Larger(booking.advance, booking.total) = agreed)
        ELSE /\ AmountOf(ledger) = agreed + received /\ booking.advance = agreed
             /\ agreed # 0 /\ OneAdvance(ledger)

\* What a caller adds to the money received.
ReceivedBy(j) == IF j.kind = "advance" \/ OnLedger(j.doc) THEN 0 ELSE j.amount

\* The payment in hand is on a new row, unless its document was on the ledger.
OwnRow(j) == \E o \in j.rows : o.doc = j.doc /\ NewNumber(o.n)

WorkAt(s, j) ==
    /\ s = "hook" /\ ledger = {} => j.read = agreed
    /\ s \in {"receipt", "ensure"} \/ j.chain => ledger # {} \/ booking.total <= booking.advance
    /\ j.kind = "advance" => j.amount = agreed /\ agreed # 0
    /\ s = "write" => IF j.target = 0 THEN ledger = {} ELSE Advance(j.target)
    /\ s = "hookInsert" => IF ledger = {} THEN BringsFirst(j.rows, 0) ELSE j.rows = {}
    /\ s \in {"sum", "commit"} =>
          /\ Brings(j.rows, ReceivedBy(j))
          /\ IF j.kind = "advance" THEN Advances(j.rows) # {} ELSE OnLedger(j.doc) \/ OwnRow(j)
    /\ s = "commit" =>
          IF ledger = {} /\ Advances(j.rows) = {} THEN j.advance # 0 ELSE j.advance = agreed

WorksFit == Regular => \A p \in Callers : WorkAt(step[p], job[p])

HoldsInv == Sized /\ Kinds /\ OptionIdle /\ DocsApart /\ Balanced /\ WorksFit

\* What the invariant says of the ledger is the property.
LEMMA HoldsImplies == HoldsInv => LedgerHoldsPayments
BY DEF HoldsInv, Balanced, Regular, LedgerHoldsPayments

LEMMA HoldsInitial == PaymentInit => HoldsInv
<1> SUFFICES ASSUME PaymentInit PROVE HoldsInv
  OBVIOUS
<1>1. /\ mix \in Ledgers /\ ledger = {} /\ received = 0
      /\ step = [p \in Callers |-> "idle"] /\ job = [p \in Callers |-> Nobody]
      /\ invoices = [i \in Invoices |-> [status |-> "none", amount |-> 0, first |-> "none"]]
      /\ booking.option = mix.option /\ booking.advance = mix.advance /\ booking.total = mix.total
      /\ agreed = Larger(mix.advance, mix.total)
  BY DEF PaymentInit, Larger
<1>2. /\ mix.advance \in Nat /\ mix.total \in Nat
      /\ mix.option => mix.advance = 0 /\ mix.total = 0
  BY <1>1, LedgerAssumption
<1>3. WithAmounts({})
  BY FS_EmptySet DEF WithAmounts
<1>4. /\ SizedJob(Nobody) /\ KindAt("idle", Nobody) /\ Nobody.rows = {} /\ Nobody.chain = FALSE
      /\ Nobody.kind = "none"
  BY <1>3 DEF SizedJob, KindAt, Nobody
<1>5. Sized
  BY <1>1, <1>2, <1>3, <1>4 DEF Sized, Larger
<1>6. Kinds /\ DocsApart
  BY <1>1, <1>4 DEF Kinds, DocsApart, DocsFree
<1>7. OptionIdle
  BY <1>1, <1>2, <1>4 DEF OptionIdle
<1>8. Balanced
  BY <1>1 DEF Balanced
<1>9. WorksFit
  BY <1>1, <1>4 DEF WorksFit, WorkAt
<1> QED BY <1>5, <1>6, <1>7, <1>8, <1>9 DEF HoldsInv

(***************************************************************************)
(* Steps outside a commit.                                                 *)
(***************************************************************************)

\* What they leave alone.
Calm ==
    /\ UNCHANGED <<mix, ledger, agreed, received>>
    /\ Regular' => Regular
    /\ booking'.option = booking.option
    /\ booking'.advance = booking.advance /\ booking'.total = booking.total
    /\ \A i \in Invoices :
          /\ invoices'[i].status # "none" => invoices'[i].amount \in Nat /\ invoices'[i].amount # 0
          /\ invoices[i].status # "none" => invoices'[i].status # "none"

\* One caller goes on, and nothing of the money moves.
LEMMA HoldsMove ==
    ASSUME Shape, HoldsInv, Calm, ~booking.option, NEW p \in Callers, NEW s, NEW j,
           step' = [step EXCEPT ![p] = s], job' = [job EXCEPT ![p] = j],
           SizedJob(j), KindAt(s, j), DocsFree(p, j.rows), Regular' => WorkAt(s, j)
    PROVE  HoldsInv'
<1>1. Sized /\ Kinds /\ DocsApart /\ Balanced /\ WorksFit
  BY DEF HoldsInv
<1>2. /\ step'[p] = s /\ job'[p] = j
      /\ \A q \in Callers \ {p} : step'[q] = step[q] /\ job'[q] = job[q]
  BY DEF Shape
<1>3. /\ mix' = mix /\ ledger' = ledger /\ agreed' = agreed /\ received' = received
      /\ Regular' => Regular
      /\ booking'.option = booking.option
      /\ booking'.advance = booking.advance /\ booking'.total = booking.total
  BY DEF Calm
<1>4. Sized'
  <2>1. \A q \in Callers : SizedJob(job'[q])
    BY <1>1, <1>2 DEF Sized
  <2>2. \A q \in Callers : SizedJob(job[q])'
    BY <2>1 DEF SizedJob, WithAmounts, Calm
  <2> QED BY <1>1, <1>3, <2>2 DEF Sized, Calm, WithAmounts
<1>5. Kinds'
  BY <1>1, <1>2 DEF Kinds, KindAt
<1>6. OptionIdle'
  BY <1>3 DEF OptionIdle
<1>7. DocsApart'
  <2>1. ASSUME NEW q \in Callers
        PROVE  DocsFree(q, job[q].rows)'
    <3>1. CASE q = p
      BY <1>2, <1>3, <3>1 DEF DocsFree
    <3>2. CASE q # p
      BY <1>1, <1>2, <1>3, <3>2 DEF DocsFree, DocsApart
    <3> QED BY <3>1, <3>2
  <2> QED BY <2>1 DEF DocsApart
<1>8. Balanced'
  BY <1>1, <1>3 DEF Balanced, OneAdvance
<1>9. WorksFit'
  <2>1. ASSUME Regular', NEW q \in Callers
        PROVE  WorkAt(step[q], job[q])'
    <3>1. WorkAt(step'[q], job'[q])
      BY <1>1, <1>2, <1>3, <2>1 DEF WorksFit
    <3> QED BY <1>3, <3>1 DEF WorkAt, Advance, BringsFirst, OneAdvance, Brings, BringsOne,
            BringsAdvance, NewNumber, ReceivedBy, OnLedger, OwnRow
  <2> QED BY <2>1 DEF WorksFit
<1> QED BY <1>4, <1>5, <1>6, <1>7, <1>8, <1>9 DEF HoldsInv

\* A caller at work has a confirmed event.
LEMMA AtWorkOnEvent ==
    ASSUME HoldsInv, NEW p \in Callers, step[p] # "idle"
    PROVE  ~booking.option
BY DEF HoldsInv, OptionIdle

\* A caller at rest has nothing in hand.
LEMMA NobodyIs ==
    /\ SizedJob(Nobody) /\ Nobody.rows = {} /\ Nobody.kind = "none" /\ Nobody.chain = FALSE
    /\ KindAt("idle", Nobody) /\ KindAt("ensure", Nobody)
<1>1. WithAmounts({})
  BY FS_EmptySet DEF WithAmounts
<1> QED BY <1>1 DEF SizedJob, KindAt, Nobody

\* A caller that leaves, with nothing else done.
LEMMA HoldsLeave ==
    ASSUME Shape, HoldsInv, Calm, NEW p \in Callers, step[p] # "idle", Leave(p)
    PROVE  HoldsInv'
<1> DEFINE s == IF job[p].chain THEN "ensure" ELSE "idle"
<1>1. step' = [step EXCEPT ![p] = s] /\ job' = [job EXCEPT ![p] = Nobody]
  BY DEF Leave
<1>2. KindAt(s, Nobody)
  BY NobodyIs
<1>3. DocsFree(p, Nobody.rows)
  BY NobodyIs DEF DocsFree
<1>4. Regular' => WorkAt(s, Nobody)
  <2>1. SUFFICES ASSUME Regular' PROVE WorkAt(s, Nobody)
    OBVIOUS
  <2>2. WorkAt(step[p], job[p])
    BY <2>1 DEF Calm, HoldsInv, WorksFit
  <2> QED BY <2>2, NobodyIs DEF WorkAt
<1> HIDE DEF s
<1> QED BY <1>1, <1>2, <1>3, <1>4, AtWorkOnEvent, NobodyIs, HoldsMove

\* A step inside a transaction is calm.
LEMMA UncommittedCalm ==
    ASSUME HoldsInv, Uncommitted
    PROVE  Calm
BY DEF Uncommitted, moneyHistory, Calm, Regular, HoldsInv, Sized

\* Rows that do not wait and are not refused have documents of their own.
LEMMA AdmittedDocs ==
    ASSUME NEW p \in Callers, NEW rows, ~Waits(p, rows), ~Refused(rows)
    PROVE  DocsFree(p, rows)
BY DEF Waits, Refused, DocsFree

\* What is known of a caller at work.
LEMMA AtWork ==
    ASSUME Shape, HoldsInv, NEW p \in Callers
    PROVE  /\ JobLike(job[p]) /\ SizedJob(job[p]) /\ KindAt(step[p], job[p])
           /\ DocsFree(p, job[p].rows)
           /\ Regular => WorkAt(step[p], job[p])
           /\ serial \in Nat
           /\ booking.advance \in Nat /\ booking.total \in Nat /\ agreed \in Nat
           /\ received \in Nat /\ WithAmounts(ledger)
BY DEF Shape, HoldsInv, Sized, Kinds, DocsApart, WorksFit

(***************************************************************************)
(* Operations that begin.                                                  *)
(***************************************************************************)

\* An operation that begins without rows.
LEMMA HoldsBegin ==
    ASSUME Shape, HoldsInv, Calm, ~booking.option, NEW p \in Callers, NEW s, NEW j, Begin(p, s, j),
           SizedJob(j), KindAt(s, j), j.rows = {}, Regular' => WorkAt(s, j)
    PROVE  HoldsInv'
<1>1. step' = [step EXCEPT ![p] = s] /\ job' = [job EXCEPT ![p] = j]
  BY DEF Begin
<1>2. DocsFree(p, j.rows)
  BY DEF DocsFree
<1> QED BY <1>1, <1>2, HoldsMove

LEMMA PayHolds ==
    ASSUME Shape, HoldsInv, NEW p \in Callers, NEW amount \in mix.amounts, NEW d, Pay(p, amount, d)
    PROVE  HoldsInv'
<1> DEFINE j == [Nobody EXCEPT !.kind = "manual", !.amount = amount, !.doc = d]
<1>1. /\ Begin(p, "open", j) /\ ~booking.option
      /\ UNCHANGED <<booking, ledger, invoices, agreed, received, crossed, mirrored, edited, mix>>
  BY DEF Pay, moneyHistory, Begin
<1>2. amount \in Nat /\ amount # 0
  BY LedgerAssumption DEF HoldsInv, Sized
<1>3. /\ j.rows = {} /\ j.kind = "manual" /\ j.amount = amount /\ j.total = 0 /\ j.advance = 0
      /\ j.chain = FALSE
  BY DEF Nobody
<1> HIDE DEF j
<1>4. SizedJob(j) /\ KindAt("open", j) /\ WorkAt("open", j)
  BY <1>2, <1>3, FS_EmptySet DEF SizedJob, WithAmounts, KindAt, WorkAt
<1>5. Calm
  BY <1>1 DEF Calm, Regular, HoldsInv, Sized
<1> QED BY <1>1, <1>3, <1>4, <1>5, HoldsBegin

LEMMA NotifyHolds ==
    ASSUME Shape, HoldsInv, NEW p \in Callers, NEW i \in Invoices, NEW status, status # "none",
           NEW amount, Notify(p, i, status, amount)
    PROVE  HoldsInv'
<1> DEFINE read == Larger(booking.advance, booking.total)
           j == [Nobody EXCEPT
                    !.kind = "hook", !.amount = amount, !.doc = i,
                    !.status = status, !.legacyDoc = booking.doc, !.read = read]
<1>1. /\ Begin(p, "hook", j) /\ invoices[i].status # "none"
      /\ UNCHANGED <<booking, ledger, invoices, agreed, received, crossed, mirrored, edited, mix>>
  BY DEF Notify, moneyHistory, Begin
<1>2. ~booking.option
  BY <1>1 DEF HoldsInv, OptionIdle
<1>3. read \in Nat /\ amount \in Nat /\ amount # 0
  BY <1>1, LedgerAssumption DEF Notify, HoldsInv, Sized, Larger
<1>4. Regular /\ ledger = {} => read = agreed
  BY <1>2 DEF HoldsInv, Balanced
<1> HIDE DEF read
<1>5. /\ j.rows = {} /\ j.kind = "hook" /\ j.amount = amount /\ j.total = 0
      /\ j.advance = 0 /\ j.chain = FALSE /\ j.read = read /\ j.doc = i /\ j.status = status
  BY DEF Nobody
<1> HIDE DEF j
<1>6. SizedJob(j) /\ KindAt("hook", j)
  BY <1>1, <1>3, <1>5, FS_EmptySet DEF SizedJob, WithAmounts, KindAt
<1>7. Regular => WorkAt("hook", j)
  BY <1>4, <1>5 DEF WorkAt
<1>8. Calm
  BY <1>1 DEF Calm, Regular, HoldsInv, Sized
<1>9. Regular' => Regular
  BY <1>8 DEF Calm
<1> QED BY <1>1, <1>2, <1>5, <1>6, <1>7, <1>8, <1>9, HoldsBegin

LEMMA ReissueHolds ==
    ASSUME Shape, HoldsInv, NEW p \in Callers, NEW force, Reissue(p, force)
    PROVE  HoldsInv'
<1> DEFINE j == [Nobody EXCEPT !.force = force]
           short == ledger = {} /\ booking.total > booking.advance
<1>1. /\ Begin(p, "receipt", j) /\ ~booking.option
      /\ UNCHANGED <<booking, ledger, invoices, agreed, received, crossed, mirrored, mix>>
      /\ edited' = (edited \/ short)
  BY DEF Reissue, Begin
<1>2. Regular' => Regular /\ ~short
  BY <1>1 DEF Regular
<1>3. /\ j.rows = {} /\ j.kind = "none" /\ j.amount = 0 /\ j.total = 0 /\ j.advance = 0
      /\ j.chain = FALSE
  BY DEF Nobody
<1> HIDE DEF j
<1>4. SizedJob(j) /\ KindAt("receipt", j)
  BY <1>3, FS_EmptySet DEF SizedJob, WithAmounts, KindAt
<1>5. Regular' => WorkAt("receipt", j)
  BY <1>2, <1>3, AtWork DEF WorkAt
<1>6. Calm
  BY <1>1, <1>2 DEF Calm, HoldsInv, Sized
<1> QED BY <1>1, <1>3, <1>4, <1>5, <1>6, HoldsBegin

LEMMA AskInvoiceHolds ==
    ASSUME Shape, HoldsInv, NEW p \in Callers, NEW amount \in mix.amounts, AskInvoice(p, amount)
    PROVE  HoldsInv'
<1> DEFINE j == [Nobody EXCEPT !.kind = "invoice", !.amount = amount, !.read = booking.total]
<1>1. /\ Begin(p, "balance", j) /\ ~booking.option
      /\ UNCHANGED <<booking, ledger, invoices, agreed, received, crossed, mirrored, edited, mix>>
  BY DEF AskInvoice, moneyHistory, Begin
<1>2. amount \in Nat /\ amount # 0
  BY LedgerAssumption DEF HoldsInv, Sized
<1>3. /\ j.rows = {} /\ j.kind = "invoice" /\ j.amount = amount /\ j.total = 0 /\ j.advance = 0
      /\ j.chain = FALSE
  BY DEF Nobody
<1> HIDE DEF j
<1>4. SizedJob(j) /\ KindAt("balance", j) /\ WorkAt("balance", j)
  BY <1>2, <1>3, FS_EmptySet DEF SizedJob, WithAmounts, KindAt, WorkAt
<1>5. Calm
  BY <1>1 DEF Calm, Regular, HoldsInv, Sized
<1> QED BY <1>1, <1>3, <1>4, <1>5, HoldsBegin

\* An option becomes an event with the advance that is agreed on; the advance of
\* an event that is written again is an excuse.
LEMMA WriteAdvanceHolds ==
    ASSUME Shape, HoldsInv, NEW p \in Callers, NEW amount \in mix.amounts,
           UpdateBooking(p, amount) \/ FinalizeBooking(p, amount)
    PROVE  HoldsInv'
<1> DEFINE j == [Nobody EXCEPT !.chain = TRUE]
           total == IF UpdateBooking(p, amount) THEN amount ELSE booking.total
<1>1. /\ Begin(p, "receipt", j)
      /\ UNCHANGED <<ledger, invoices, received, crossed, mirrored, mix>>
      /\ edited' = (edited \/ ~booking.option)
      /\ agreed' = IF booking.option THEN amount ELSE agreed
  BY DEF UpdateBooking, FinalizeBooking, WriteAdvance, Begin
<1>2. booking' = [booking EXCEPT !.option = FALSE, !.advance = amount, !.total = total]
  BY DEF UpdateBooking, FinalizeBooking, WriteAdvance
<1>3. amount \in Nat /\ amount # 0 /\ total \in Nat /\ total \in {amount, booking.total}
  BY LedgerAssumption DEF HoldsInv, Sized
<1> HIDE DEF total
<1>4. booking'.option = FALSE /\ booking'.advance = amount /\ booking'.total = total
  BY <1>2 DEF Shape, BookingLike
<1>5. /\ step'[p] = "receipt" /\ job'[p] = j
      /\ \A q \in Callers \ {p} : step'[q] = step[q] /\ job'[q] = job[q]
  BY <1>1 DEF Begin, Shape
<1>6. /\ j.rows = {} /\ j.kind = "none" /\ j.amount = 0 /\ j.total = 0 /\ j.advance = 0
  BY DEF Nobody
<1> HIDE DEF j
<1>7. SizedJob(j) /\ KindAt("receipt", j)
  BY <1>6, FS_EmptySet DEF SizedJob, WithAmounts, KindAt
<1>8. Sized'
  <2>1. \A q \in Callers : SizedJob(job'[q])
    BY <1>5, <1>7 DEF HoldsInv, Sized
  <2>2. \A q \in Callers : SizedJob(job[q])'
    BY <1>1, <2>1 DEF SizedJob, WithAmounts
  <2> QED BY <1>1, <1>3, <1>4, <2>2 DEF HoldsInv, Sized, WithAmounts
<1>9. Kinds'
  BY <1>5, <1>7 DEF HoldsInv, Kinds, KindAt
<1>10. OptionIdle'
  BY <1>4 DEF OptionIdle
<1>11. DocsApart'
  BY <1>1, <1>5, <1>6 DEF HoldsInv, DocsApart, DocsFree
<1>12. Regular' => Regular /\ booking.option
  BY <1>1 DEF Regular
<1>13. ASSUME Regular'
       PROVE  Balanced' /\ WorksFit'
  <2>1. /\ booking.option /\ ledger = {} /\ received = 0 /\ booking.total = 0 /\ agreed' = amount
        /\ \A q \in Callers : step[q] = "idle" /\ ~job[q].chain
    BY <1>1, <1>12, <1>13 DEF HoldsInv, OptionIdle
  <2>2. Larger(amount, total) = amount /\ total <= amount
    BY <1>3, <2>1 DEF Larger
  <2>3. Balanced'
    BY <1>1, <1>4, <2>1, <2>2 DEF Balanced, Larger
  <2>4. ASSUME NEW q \in Callers
        PROVE  WorkAt(step[q], job[q])'
    <3>1. CASE q = p
      BY <1>4, <1>5, <1>6, <2>2, <3>1 DEF WorkAt
    <3>2. CASE q # p
      <4>1. job[q].kind = "none"
        BY <2>1 DEF HoldsInv, Kinds, KindAt
      <4> QED BY <1>5, <2>1, <3>2, <4>1 DEF WorkAt
    <3> QED BY <3>1, <3>2
  <2> QED BY <2>3, <2>4 DEF WorksFit
<1>14. Balanced' /\ WorksFit'
  BY <1>13 DEF Balanced, WorksFit
<1> QED BY <1>8, <1>9, <1>10, <1>11, <1>14 DEF HoldsInv

(***************************************************************************)
(* Inside a payment transaction.                                           *)
(***************************************************************************)

\* What an empty ledger is seeded with.
LEMMA SeedBrings ==
    ASSUME HoldsInv, NEW a, NEW t, NEW doc, Larger(a, t) \in Nat
    PROVE  /\ WithAmounts(Seed(a, t, doc))
           /\ \A r \in Seed(a, t, doc) : r.n = serial
           /\ ledger # {} => Seed(a, t, doc) = {}
           /\ ledger = {} /\ Larger(a, t) = agreed => BringsFirst(Seed(a, t, doc), 0)
<1> DEFINE m == Larger(a, t)
           row == [n |-> serial, source |-> "ADVANCE", amount |-> m, doc |-> doc]
           seed == Seed(a, t, doc)
<1>1. seed = IF ledger = {} /\ m > 0 THEN {row} ELSE {}
  BY DEF Seed
<1>2. row.n = serial /\ row.source = "ADVANCE" /\ row.amount = m
  OBVIOUS
<1>3. m \in Nat
  OBVIOUS
<1> HIDE DEF row, seed, m
<1>4. WithAmounts({}) /\ AmountOf({}) = 0
  BY FS_EmptySet, AmountOfNone DEF WithAmounts
<1>5. WithAmounts({} \cup {row}) /\ AmountOf({} \cup {row}) = m
  BY <1>2, <1>3, <1>4, AmountWith
<1>6. {} \cup {row} = {row}
  OBVIOUS
<1>7. WithAmounts({row}) /\ AmountOf({row}) = m
  BY <1>5, <1>6
<1>8. WithAmounts(seed) /\ (\A r \in seed : r.n = serial) /\ (ledger # {} => seed = {})
  BY <1>1, <1>2, <1>4, <1>7
<1>9. ASSUME ledger = {}, m = agreed
      PROVE  BringsFirst(seed, 0)
  <2>1. AmountOf(seed) = agreed + 0
    BY <1>1, <1>3, <1>4, <1>7, <1>9
  <2>2. OneAdvance(seed)
    BY <1>1, <1>2, <1>3, <1>9 DEF OneAdvance, Advances
  <2> QED BY <1>9, <2>1, <2>2 DEF BringsFirst
<1> QED BY <1>8, <1>9 DEF seed, m

\* A payment beside the seed.
LEMMA FirstWith ==
    ASSUME HoldsInv, NEW rows, WithAmounts(rows), BringsFirst(rows, 0),
           NEW new, new \notin rows, new.amount \in Nat, new.source # "ADVANCE"
    PROVE  BringsFirst(rows \cup {new}, new.amount)
<1>1. AmountOf(rows \cup {new}) = agreed + new.amount
  BY AmountWith DEF HoldsInv, Sized, BringsFirst
<1>2. Advances(rows \cup {new}) = Advances(rows)
  BY DEF Advances
<1>3. OneAdvance(rows \cup {new})
  BY <1>2 DEF OneAdvance, BringsFirst, Advances
<1> QED BY <1>1, <1>3 DEF BringsFirst

\* Rows in hand change nothing else of a job.
LEMMA RowsMove ==
    ASSUME NEW j, JobLike(j), NEW rows
    PROVE  LET k == [j EXCEPT !.rows = rows] IN
           /\ k.rows = rows /\ k.kind = j.kind /\ k.doc = j.doc /\ k.amount = j.amount
           /\ k.read = j.read /\ k.total = j.total /\ k.advance = j.advance /\ k.chain = j.chain
           /\ k.target = j.target /\ k.status = j.status
BY DEF JobLike, Nobody

\* A job with other rows is sized if they are.
LEMMA SizedRows ==
    ASSUME NEW j, JobLike(j), NEW rows, SizedJob(j), WithAmounts(rows)
    PROVE  SizedJob([j EXCEPT !.rows = rows])
BY RowsMove DEF SizedJob

\* A document that is not refused is not on the ledger.
LEMMA NotRefused ==
    ASSUME LedgerInv, NEW rows, ~Refused(rows), NEW new \in rows, NEW k \in Nat,
           new.n = serial + k
    PROVE  NewNumber(new.n) /\ ~OnLedger(new.doc)
BY DEF LedgerInv, Shape, Numbered, NewNumber, Refused, OnLedger

LEMMA OpenPaymentHolds ==
    ASSUME LedgerInv, HoldsInv, NEW p \in Callers, OpenPayment(p)
    PROVE  HoldsInv'
<1> DEFINE seed == Seed(booking.advance, booking.total, booking.doc)
           new == [n |-> serial + 1, source |-> "MANUAL",
                   amount |-> job[p].amount, doc |-> job[p].doc]
           rows == seed \cup {new}
           j == [job[p] EXCEPT !.rows = rows]
<1>1. Shape /\ Uncommitted /\ step[p] = "open" /\ ~Waits(p, rows)
  BY DEF LedgerInv, OpenPayment
<1>2. /\ JobLike(job[p]) /\ SizedJob(job[p]) /\ job[p].kind = "manual" /\ serial \in Nat
      /\ Regular => WorkAt(step[p], job[p])
      /\ booking.advance \in Nat /\ booking.total \in Nat /\ agreed \in Nat
  BY <1>1, AtWork DEF KindAt
<1>3. Calm /\ ~booking.option
  BY <1>1, UncommittedCalm, AtWorkOnEvent
<1>4. CASE Leave(p) /\ UNCHANGED serial
  BY <1>1, <1>3, <1>4, HoldsLeave
<1>5. CASE ~Refused(rows) /\ job' = [job EXCEPT ![p].rows = rows] /\ Goto(p, "sum")
  <2>1. /\ WithAmounts(seed) /\ (\A r \in seed : r.n = serial) /\ (ledger # {} => seed = {})
        /\ ledger = {} /\ Larger(booking.advance, booking.total) = agreed => BringsFirst(seed, 0)
    <3>1. Larger(booking.advance, booking.total) \in Nat
      BY <1>2 DEF Larger
    <3> QED BY <3>1, SeedBrings
  <2>2. /\ new.n = serial + 1 /\ new.source = "MANUAL" /\ new.amount = job[p].amount
        /\ new.doc = job[p].doc
    OBVIOUS
  <2> HIDE DEF seed, new
  <2>3. new \notin seed /\ new \in rows /\ new.amount \in Nat
    BY <1>2, <2>1, <2>2 DEF SizedJob
  <2>4. WithAmounts(rows)
    BY <2>1, <2>3, AmountWith
  <2>5. NewNumber(new.n) /\ ~OnLedger(job[p].doc)
    BY <1>2, <1>5, <2>2, <2>3, NotRefused
  <2>6. DocsFree(p, rows)
    BY <1>1, <1>5, AdmittedDocs
  <2>7. /\ j.rows = rows /\ j.kind = "manual" /\ j.doc = job[p].doc /\ j.amount = job[p].amount
        /\ j.chain = job[p].chain
    BY <1>2, RowsMove
  <2>8. SizedJob(j)
    BY <1>2, <2>4, SizedRows
  <2>9. step' = [step EXCEPT ![p] = "sum"] /\ job' = [job EXCEPT ![p] = j]
    BY <1>5 DEF Goto
  <2> HIDE DEF j
  <2>10. ASSUME Regular
         PROVE  Brings(rows, job[p].amount)
    <3>1. CASE ledger = {}
      <4>1. Larger(booking.advance, booking.total) = agreed
        BY <1>3, <2>10, <3>1 DEF HoldsInv, Balanced
      <4>2. BringsFirst(rows, new.amount)
        BY <2>1, <2>2, <2>3, <3>1, <4>1, FirstWith
      <4> QED BY <2>2, <4>2 DEF Brings
    <3>2. CASE ledger # {}
      <4>1. rows = {new}
        BY <2>1, <3>2
      <4>2. BringsOne(rows, job[p].amount)
        BY <2>2, <2>5, <4>1 DEF BringsOne
      <4> QED BY <3>2, <4>2 DEF Brings
    <3> QED BY <3>1, <3>2
  <2> HIDE DEF rows
  <2>11. Regular => WorkAt("sum", j)
    <3>1. ReceivedBy(j) = job[p].amount
      BY <2>5, <2>7 DEF ReceivedBy
    <3>2. OwnRow(j)
      BY <2>2, <2>3, <2>5, <2>7 DEF OwnRow
    <3> QED BY <1>2, <2>7, <2>10, <3>1, <3>2 DEF WorkAt
  <2>12. KindAt("sum", j)
    BY <2>7 DEF KindAt
  <2>13. Regular' => Regular
    BY <1>3 DEF Calm
  <2> QED BY <1>1, <1>3, <2>6, <2>7, <2>8, <2>9, <2>11, <2>12, <2>13, HoldsMove
<1> QED BY <1>4, <1>5 DEF OpenPayment

LEMMA OpenHookHolds ==
    ASSUME LedgerInv, HoldsInv, NEW p \in Callers, OpenHook(p)
    PROVE  HoldsInv'
<1> DEFINE rows == Seed(job[p].read, 0, job[p].legacyDoc)
           s == IF NewOnLedger(job[p].doc) THEN "hookInsert" ELSE "sum"
           j == [job[p] EXCEPT !.rows = rows]
<1>1. Shape /\ Uncommitted /\ step[p] = "hook" /\ ~Waits(p, rows)
  BY DEF LedgerInv, OpenHook
<1>2. /\ JobLike(job[p]) /\ SizedJob(job[p]) /\ job[p].kind = "hook"
      /\ Regular => WorkAt(step[p], job[p])
      /\ agreed \in Nat /\ job[p].read \in Nat
  BY <1>1, AtWork DEF KindAt, SizedJob
<1>3. Calm /\ ~booking.option
  BY <1>1, UncommittedCalm, AtWorkOnEvent
<1>4. CASE Leave(p) /\ UNCHANGED serial
  BY <1>1, <1>3, <1>4, HoldsLeave
<1>5. CASE ~Refused(rows) /\ job' = [job EXCEPT ![p].rows = rows] /\ Goto(p, s)
  <2>1. Larger(job[p].read, 0) = job[p].read
    BY <1>2 DEF Larger
  <2>2. /\ WithAmounts(rows) /\ (ledger # {} => rows = {})
        /\ ledger = {} /\ job[p].read = agreed => BringsFirst(rows, 0)
    BY <1>2, <2>1, SeedBrings
  <2>3. DocsFree(p, rows)
    BY <1>1, <1>5, AdmittedDocs
  <2> HIDE DEF rows
  <2>4. /\ j.rows = rows /\ j.kind = "hook" /\ j.doc = job[p].doc /\ j.amount = job[p].amount
        /\ j.chain = job[p].chain
    BY <1>2, RowsMove
  <2>5. SizedJob(j)
    BY <1>2, <2>2, SizedRows
  <2>6. step' = [step EXCEPT ![p] = s] /\ job' = [job EXCEPT ![p] = j]
    BY <1>5 DEF Goto
  <2> HIDE DEF j
  <2>7. KindAt(s, j)
    BY <2>4 DEF KindAt
  <2>8. ASSUME Regular
        PROVE  WorkAt(s, j)
    <3>1. WorkAt("hook", job[p])
      BY <1>1, <1>2, <2>8
    <3>2. CASE NewOnLedger(job[p].doc)
      BY <2>2, <2>4, <3>1, <3>2 DEF WorkAt
    <3>3. CASE ~NewOnLedger(job[p].doc)
      <4>1. OnLedger(j.doc) /\ ledger # {}
        BY <2>4, <3>3 DEF NewOnLedger, OnLedger
      <4>2. ReceivedBy(j) = 0 /\ j.rows = {}
        BY <2>2, <2>4, <4>1 DEF ReceivedBy
      <4>3. Brings(j.rows, ReceivedBy(j))
        BY <4>1, <4>2 DEF Brings
      <4> QED BY <2>4, <3>1, <3>3, <4>1, <4>3 DEF WorkAt
    <3> QED BY <3>2, <3>3
  <2> HIDE DEF s
  <2>9. Regular' => WorkAt(s, j)
    BY <1>3, <2>8 DEF Calm
  <2> QED BY <1>1, <1>3, <2>3, <2>4, <2>5, <2>6, <2>7, <2>9, HoldsMove
<1> QED BY <1>4, <1>5 DEF OpenHook

LEMMA InsertHolds ==
    ASSUME LedgerInv, HoldsInv, NEW p \in Callers, InsertInvoicePayment(p)
    PROVE  HoldsInv'
<1> DEFINE new == [n |-> serial, source |-> "EASYCOUNT_INVOICE",
                   amount |-> job[p].amount, doc |-> job[p].doc]
           rows == job[p].rows \cup {new}
           j == [job[p] EXCEPT !.rows = rows]
<1>1. Shape /\ Uncommitted /\ step[p] = "hookInsert" /\ ~Waits(p, {new})
  BY DEF LedgerInv, InsertInvoicePayment
<1>2. /\ JobLike(job[p]) /\ SizedJob(job[p]) /\ job[p].kind = "hook"
      /\ Regular => WorkAt(step[p], job[p])
      /\ serial \in Nat /\ agreed \in Nat /\ DocsFree(p, job[p].rows)
  BY <1>1, AtWork DEF KindAt, SizedJob
<1>3. Calm /\ ~booking.option
  BY <1>1, UncommittedCalm, AtWorkOnEvent
<1>4. CASE Leave(p) /\ UNCHANGED serial
  BY <1>1, <1>3, <1>4, HoldsLeave
<1>5. CASE ~Refused({new}) /\ job' = [job EXCEPT ![p].rows = @ \cup {new}] /\ Goto(p, "sum")
  <2>1. /\ new.n = serial + 0 /\ new.source = "EASYCOUNT_INVOICE" /\ new.amount = job[p].amount
        /\ new.doc = job[p].doc
    BY <1>2
  <2>2. job' = [job EXCEPT ![p].rows = rows]
    BY <1>1, <1>5 DEF Shape, JobLike, Nobody
  <2> HIDE DEF new
  <2>3. new \notin job[p].rows
    BY <1>1, <1>2, <2>1 DEF Shape, Numbered
  <2>4. new \in rows /\ new.amount \in Nat /\ WithAmounts(job[p].rows) /\ WithAmounts(rows)
    BY <1>2, <2>1, <2>3, AmountWith DEF SizedJob
  <2>5. NewNumber(new.n) /\ ~OnLedger(job[p].doc)
    BY <1>2, <1>5, <2>1, NotRefused
  <2>6. DocsFree(p, rows)
    <3>1. DocsFree(p, {new})
      BY <1>1, <1>5, AdmittedDocs
    <3> QED BY <1>2, <3>1 DEF DocsFree
  <2>7. /\ j.rows = rows /\ j.kind = "hook" /\ j.doc = job[p].doc /\ j.amount = job[p].amount
        /\ j.chain = job[p].chain
    BY <1>2, RowsMove
  <2>8. SizedJob(j)
    BY <1>2, <2>4, SizedRows
  <2>9. step' = [step EXCEPT ![p] = "sum"] /\ job' = [job EXCEPT ![p] = j]
    BY <1>5, <2>2 DEF Goto
  <2> HIDE DEF j
  <2>10. ASSUME Regular
         PROVE  Brings(rows, job[p].amount)
    <3>1. CASE ledger = {}
      <4>1. BringsFirst(job[p].rows, 0)
        BY <1>1, <1>2, <2>10, <3>1 DEF WorkAt
      <4>2. BringsFirst(rows, new.amount)
        BY <2>1, <2>3, <2>4, <4>1, FirstWith
      <4> QED BY <2>1, <4>2 DEF Brings
    <3>2. CASE ledger # {}
      <4>1. rows = {new}
        BY <1>1, <1>2, <2>10, <3>2 DEF WorkAt
      <4>2. BringsOne(rows, job[p].amount)
        BY <2>1, <2>5, <4>1 DEF BringsOne
      <4> QED BY <3>2, <4>2 DEF Brings
    <3> QED BY <3>1, <3>2
  <2> HIDE DEF rows
  <2>11. Regular => WorkAt("sum", j)
    <3>1. ReceivedBy(j) = job[p].amount
      BY <2>5, <2>7 DEF ReceivedBy
    <3>2. OwnRow(j)
      BY <2>1, <2>4, <2>5, <2>7 DEF OwnRow
    <3> QED BY <1>2, <2>7, <2>10, <3>1, <3>2 DEF WorkAt
  <2>12. KindAt("sum", j)
    BY <2>7 DEF KindAt
  <2>13. Regular' => Regular
    BY <1>3 DEF Calm
  <2> QED BY <1>1, <1>3, <2>6, <2>7, <2>8, <2>9, <2>11, <2>12, <2>13, HoldsMove
<1> QED BY <1>4, <1>5 DEF InsertInvoicePayment

LEMMA SumUpHolds ==
    ASSUME LedgerInv, HoldsInv, NEW p \in Callers, SumUp(p)
    PROVE  HoldsInv'
<1> DEFINE total == SumLedgerPayments(p)
           advance == AdvanceOf(p, total)
           j == [job[p] EXCEPT !.total = total, !.advance = advance, !.fresh = TRUE]
           x == ReceivedBy(job[p])
<1>1. Shape /\ Uncommitted /\ step[p] = "sum" /\ Numbered(ledger, serial)
  BY DEF LedgerInv, Shape, SumUp
<1>2. /\ JobLike(job[p]) /\ SizedJob(job[p]) /\ KindAt("sum", job[p])
      /\ Regular => WorkAt("sum", job[p])
      /\ agreed \in Nat /\ received \in Nat /\ DocsFree(p, job[p].rows) /\ booking.advance \in Nat
      /\ WithAmounts(ledger)
  BY <1>1, AtWork
<1>3. Calm /\ ~booking.option
  BY <1>1, UncommittedCalm, AtWorkOnEvent
<1>4. step' = [step EXCEPT ![p] = "commit"] /\ job' = [job EXCEPT ![p] = j]
  BY DEF SumUp, Goto
<1>5. total = AmountOf(View(p)) /\ WithAmounts(View(p))
  <2>1. View(p) \subseteq ledger \cup job[p].rows
    BY DEF View
  <2>2. IsFiniteSet(ledger \cup job[p].rows)
    BY <1>2, FS_Union DEF SizedJob, WithAmounts
  <2>3. IsFiniteSet(View(p))
    BY <2>1, <2>2, FS_Subset
  <2> QED BY <1>2, <2>1, <2>3 DEF SizedJob, WithAmounts, SumLedgerPayments
<1>6. total \in Nat
  BY <1>5, AmountIsNat
<1>7. advance \in Nat
  <2>1. CASE Advances(View(p)) = {}
    BY <1>2, <1>6, <2>1 DEF AdvanceOf
  <2>2. CASE Advances(View(p)) # {}
    <3>1. /\ \A r \in Advances(View(p)) : r.n \in Nat
          /\ Advances(View(p)) \subseteq View(p)
      BY <1>1 DEF Advances, View, Shape, Numbered
    <3>2. First(Advances(View(p))) \in View(p)
      BY <2>2, <3>1, FirstIsOne
    <3> QED BY <1>5, <2>2, <3>2 DEF AdvanceOf, WithAmounts
  <2> QED BY <2>1, <2>2
<1>8. /\ j.rows = job[p].rows /\ j.kind = job[p].kind /\ j.doc = job[p].doc
      /\ j.amount = job[p].amount /\ j.chain = job[p].chain /\ j.read = job[p].read
      /\ j.total = total /\ j.advance = advance /\ j.status = job[p].status
  BY <1>2 DEF JobLike, Nobody
<1>9. x \in Nat
  BY <1>2 DEF SizedJob, ReceivedBy
<1>10. ASSUME Regular
       PROVE  IF ledger = {} /\ Advances(job[p].rows) = {} THEN advance # 0 ELSE advance = agreed
  <2>1. /\ WorkAt("sum", job[p]) /\ Brings(job[p].rows, x)
        /\ job[p].kind = "advance" =>
              job[p].amount = agreed /\ agreed # 0 /\ Advances(job[p].rows) # {}
    BY <1>2, <1>10 DEF WorkAt
  <2>2. CASE ledger = {}
    <3>1. View(p) = job[p].rows
      BY <2>2 DEF View
    <3>2. AmountOf(job[p].rows) = agreed + x /\ OneAdvance(job[p].rows)
      BY <2>1, <2>2 DEF Brings, BringsFirst
    <3>3. CASE Advances(job[p].rows) = {}
      <4>1. x # 0
        BY <1>2, <2>1, <2>2, <3>3 DEF ReceivedBy, OnLedger, SizedJob, KindAt
      <4>2. total # 0
        BY <1>2, <1>5, <1>9, <3>1, <3>2, <4>1
      <4>3. advance = booking.advance \/ advance = total
        BY <3>1, <3>3 DEF AdvanceOf
      <4>4. advance = booking.advance => booking.advance # 0 \/ advance = total
        BY <1>2, <3>1, <3>3 DEF AdvanceOf
      <4> QED BY <2>2, <3>3, <4>2, <4>3, <4>4
    <3>4. CASE Advances(job[p].rows) # {}
      <4>1. PICK a \in job[p].rows : Advances(job[p].rows) = {a} /\ a.amount = agreed
        BY <3>2, <3>4 DEF OneAdvance
      <4>2. a.n \in Nat
        BY <1>1 DEF Shape, Numbered
      <4>3. First({a}) \in {a}
        BY <4>2, FirstIsOne
      <4> QED BY <3>1, <3>4, <4>1, <4>3 DEF AdvanceOf
    <3> QED BY <3>3, <3>4
  <2>3. CASE ledger # {}
    <3>1. PICK a \in ledger : Advances(ledger) = {a} /\ a.amount = agreed
      BY <1>10, <2>3 DEF HoldsInv, Balanced, OneAdvance
    <3>2. a.source = "ADVANCE" /\ \A e \in ledger : e.source = "ADVANCE" => e = a
      BY <3>1 DEF Advances
    <3>3. \A r \in Advances(View(p)) : r.amount = agreed
      BY <2>1, <2>3, <3>1, <3>2 DEF Advances, View, Brings, BringsFirst, BringsOne, BringsAdvance
    <3>4. Advances(View(p)) # {}
      <4>1. CASE \A o \in job[p].rows : o.n # a.n
        BY <3>1, <3>2, <4>1 DEF Advances, View
      <4>2. CASE \E o \in job[p].rows : o.n = a.n
        BY <2>1, <2>3, <3>1, <4>2
           DEF Advances, View, Brings, BringsFirst, BringsOne, BringsAdvance, NewNumber
      <4> QED BY <4>1, <4>2
    <3>5. \A r \in Advances(View(p)) : r.n \in Nat
      BY <1>1 DEF Advances, View, Shape, Numbered
    <3>6. First(Advances(View(p))) \in Advances(View(p))
      BY <3>4, <3>5, FirstIsOne
    <3> QED BY <2>3, <3>3, <3>4, <3>6 DEF AdvanceOf
  <2> QED BY <2>2, <2>3
<1> HIDE DEF j, total, advance, x
<1>11. SizedJob(j) /\ KindAt("commit", j) /\ DocsFree(p, j.rows)
  BY <1>2, <1>6, <1>7, <1>8 DEF SizedJob, KindAt
<1>12. Regular => WorkAt("commit", j)
  <2>1. ReceivedBy(j) = ReceivedBy(job[p]) /\ (OwnRow(job[p]) => OwnRow(j))
    BY <1>8 DEF ReceivedBy, OwnRow
  <2> QED BY <1>2, <1>8, <1>10, <2>1 DEF WorkAt
<1>13. Regular' => Regular
  BY <1>3 DEF Calm
<1> QED BY <1>1, <1>3, <1>4, <1>11, <1>12, <1>13, HoldsMove

LEMMA FindAdvanceHolds ==
    ASSUME LedgerInv, HoldsInv, NEW p \in Callers, FindAdvance(p)
    PROVE  HoldsInv'
<1> DEFINE target == IF Advances(ledger) = {} THEN 0 ELSE First(Advances(ledger)).n
           j == [job[p] EXCEPT !.target = target]
<1>1. Shape /\ Uncommitted /\ step[p] = "find" /\ Numbered(ledger, serial)
  BY DEF LedgerInv, Shape, FindAdvance
<1>2. /\ JobLike(job[p]) /\ SizedJob(job[p]) /\ KindAt("find", job[p])
      /\ Regular => WorkAt("find", job[p])
  BY <1>1, AtWork
<1>3. Calm /\ ~booking.option
  BY <1>1, UncommittedCalm, AtWorkOnEvent
<1>4. CASE Leave(p)
  BY <1>1, <1>3, <1>4, HoldsLeave
<1>5. CASE Goto(p, "write") /\ job' = [job EXCEPT ![p].target = target]
  <2>1. /\ j.rows = job[p].rows /\ j.kind = job[p].kind /\ j.amount = job[p].amount
        /\ j.chain = job[p].chain /\ j.read = job[p].read /\ j.total = job[p].total
        /\ j.advance = job[p].advance /\ j.target = target
    BY <1>2 DEF JobLike, Nobody
  <2>2. step' = [step EXCEPT ![p] = "write"] /\ job' = [job EXCEPT ![p] = j]
    BY <1>5 DEF Goto
  <2>3. ASSUME Regular
        PROVE  IF target = 0 THEN ledger = {} ELSE Advance(target)
    <3>1. CASE ledger = {}
      BY <3>1 DEF Advances
    <3>2. CASE ledger # {}
      <4>1. PICK a \in ledger : Advances(ledger) = {a} /\ a.amount = agreed
        BY <2>3, <3>2 DEF HoldsInv, Balanced, OneAdvance
      <4>2. a.n \in Nat /\ a.source = "ADVANCE"
        BY <1>1, <4>1 DEF Numbered, Advances
      <4>3. First({a}) \in {a}
        BY <4>2, FirstIsOne
      <4>4. target = a.n
        BY <4>1, <4>3
      <4>5. a.n # 0
        BY <1>1, <4>1 DEF Numbered
      <4> QED BY <4>1, <4>2, <4>4, <4>5 DEF Advance
    <3> QED BY <3>1, <3>2
  <2> HIDE DEF j, target
  <2>4. SizedJob(j) /\ KindAt("write", j) /\ DocsFree(p, j.rows)
    BY <1>2, <2>1 DEF SizedJob, KindAt, DocsFree
  <2>5. Regular => WorkAt("write", j)
    BY <1>2, <2>1, <2>3 DEF WorkAt
  <2>6. Regular' => Regular
    BY <1>3 DEF Calm
  <2> QED BY <1>1, <1>3, <2>2, <2>4, <2>5, <2>6, HoldsMove
<1> QED BY <1>4, <1>5 DEF FindAdvance

LEMMA WriteAdvanceRowHolds ==
    ASSUME LedgerInv, HoldsInv, NEW p \in Callers, WriteAdvanceRow(p)
    PROVE  HoldsInv'
<1> DEFINE row == AdvanceRow(p)
           rows == {row}
           j == [job[p] EXCEPT !.rows = rows]
<1>1. Shape /\ Uncommitted /\ step[p] = "write" /\ ~Waits(p, rows) /\ Numbered(ledger, serial)
  BY DEF LedgerInv, Shape, WriteAdvanceRow
<1>2. /\ JobLike(job[p]) /\ SizedJob(job[p]) /\ job[p].kind = "advance" /\ serial \in Nat
      /\ Regular => WorkAt("write", job[p])
      /\ agreed \in Nat
  BY <1>1, AtWork DEF KindAt
<1>3. Calm /\ ~booking.option
  BY <1>1, UncommittedCalm, AtWorkOnEvent
<1>4. CASE Leave(p) /\ UNCHANGED serial
  BY <1>1, <1>3, <1>4, HoldsLeave
<1>5. CASE ~Refused(rows) /\ job' = [job EXCEPT ![p].rows = rows] /\ Goto(p, "sum")
  <2>1. /\ row.amount = job[p].amount
        /\ job[p].target = 0 => row.n = serial /\ row.source = "ADVANCE"
        /\ \A e \in ledger : job[p].target # 0 /\ e.n = job[p].target =>
              row.n = e.n /\ row.source = e.source
    <3>1. CASE job[p].target = 0
      BY <3>1 DEF AdvanceRow
    <3>2. CASE job[p].target # 0
      <4> DEFINE old == CHOOSE r \in ledger : r.n = job[p].target
      <4>1. \E r \in ledger : r.n = job[p].target
        BY <1>1, <3>2 DEF LedgerInv, Aimed
      <4>2. old \in ledger /\ old.n = job[p].target
        BY <4>1
      <4>3. row = [old EXCEPT !.amount = job[p].amount,
                              !.doc = IF old.doc = NoDoc THEN job[p].doc ELSE old.doc]
        BY <3>2 DEF AdvanceRow
      <4>4. RowLike(old) /\ \A e \in ledger : e.n = job[p].target => e = old
        BY <1>1, <4>2 DEF Numbered
      <4> HIDE DEF old, row
      <4>5. row.amount = job[p].amount /\ row.n = old.n /\ row.source = old.source
        BY <4>3, <4>4 DEF RowLike
      <4> QED BY <3>2, <4>4, <4>5
    <3> QED BY <3>1, <3>2
  <2>2. DocsFree(p, rows)
    BY <1>1, <1>5, AdmittedDocs
  <2> HIDE DEF row
  <2>3. WithAmounts(rows) /\ AmountOf(rows) = job[p].amount
    <3>1. WithAmounts({}) /\ AmountOf({}) = 0
      BY FS_EmptySet, AmountOfNone DEF WithAmounts
    <3>2. WithAmounts({} \cup {row}) /\ AmountOf({} \cup {row}) = 0 + job[p].amount
      BY <1>2, <2>1, <3>1, AmountWith DEF SizedJob
    <3>3. {} \cup {row} = rows
      OBVIOUS
    <3> QED BY <1>2, <3>2, <3>3 DEF SizedJob
  <2>4. /\ j.rows = rows /\ j.kind = "advance" /\ j.doc = job[p].doc /\ j.amount = job[p].amount
        /\ j.chain = job[p].chain /\ j.target = job[p].target
    BY <1>2, RowsMove
  <2>5. SizedJob(j)
    BY <1>2, <2>3, SizedRows
  <2>6. step' = [step EXCEPT ![p] = "sum"] /\ job' = [job EXCEPT ![p] = j]
    BY <1>5 DEF Goto
  <2> HIDE DEF j
  <2>7. ASSUME Regular
        PROVE  Brings(rows, 0) /\ Advances(rows) # {}
    <3>1. /\ job[p].amount = agreed /\ agreed # 0
          /\ IF job[p].target = 0 THEN ledger = {} ELSE Advance(job[p].target)
      BY <1>2, <2>7 DEF WorkAt
    <3>2. CASE job[p].target = 0
      <4>1. ledger = {} /\ row.source = "ADVANCE" /\ row.amount = agreed
        BY <2>1, <3>1, <3>2
      <4>2. OneAdvance(rows) /\ Advances(rows) # {}
        BY <3>1, <4>1 DEF OneAdvance, Advances
      <4> QED BY <1>2, <2>3, <3>1, <4>1, <4>2 DEF Brings, BringsFirst
    <3>3. CASE job[p].target # 0
      <4>1. PICK e \in ledger : e.n = job[p].target /\ e.source = "ADVANCE" /\ e.amount = agreed
        BY <3>1, <3>3 DEF Advance
      <4>2. row.n = job[p].target /\ row.source = "ADVANCE" /\ row.amount = agreed
        BY <2>1, <3>1, <3>3, <4>1
      <4>3. Advance(row.n)
        BY <3>1, <3>3, <4>2
      <4> QED BY <4>1, <4>2, <4>3 DEF Brings, BringsAdvance, Advances
    <3> QED BY <3>2, <3>3
  <2> HIDE DEF rows
  <2>8. Regular => WorkAt("sum", j)
    <3>1. ReceivedBy(j) = 0
      BY <2>4 DEF ReceivedBy
    <3> QED BY <1>2, <2>4, <2>7, <3>1 DEF WorkAt
  <2>9. KindAt("sum", j)
    BY <2>4 DEF KindAt
  <2>10. Regular' => Regular
    BY <1>3 DEF Calm
  <2> QED BY <1>1, <1>3, <2>2, <2>4, <2>5, <2>6, <2>8, <2>9, <2>10, HoldsMove
<1> QED BY <1>4, <1>5 DEF WriteAdvanceRow

(***************************************************************************)
(* The commit.                                                             *)
(***************************************************************************)

\* What a transaction brings makes the ledger larger by that much.
LEMMA ViewAmount ==
    ASSUME Numbered(ledger, serial), HoldsInv, Balanced, Regular, ~booking.option,
           NEW p \in Callers,
           WithAmounts(job[p].rows), NEW x \in Nat, Brings(job[p].rows, x)
    PROVE  /\ AmountOf(View(p)) = agreed + received + x
           /\ OneAdvance(View(p))
<1>1. agreed \in Nat /\ received \in Nat /\ WithAmounts(ledger)
  BY DEF HoldsInv, Sized
<1>2. CASE ledger = {}
  <2>1. View(p) = job[p].rows
    BY <1>2 DEF View
  <2>2. AmountOf(job[p].rows) = agreed + x /\ OneAdvance(job[p].rows) /\ received = 0
    BY <1>2 DEF Brings, BringsFirst, Balanced
  <2> QED BY <1>1, <2>1, <2>2
<1>3. CASE ledger # {}
  <2>1. AmountOf(ledger) = agreed + received /\ agreed # 0 /\ OneAdvance(ledger)
    BY <1>3 DEF Balanced
  <2>2. CASE job[p].rows = {} /\ x = 0
    <3>1. View(p) = ledger
      BY <2>2 DEF View
    <3> QED BY <1>1, <2>1, <2>2, <3>1
  <2>3. CASE BringsOne(job[p].rows, x)
    <3>1. PICK r \in job[p].rows : /\ job[p].rows = {r} /\ r.source # "ADVANCE" /\ r.amount = x
                                   /\ NewNumber(r.n)
      BY <2>3 DEF BringsOne
    <3>2. View(p) = ledger \cup {r} /\ r \notin ledger
      BY <3>1 DEF View, NewNumber
    <3>3. AmountOf(ledger \cup {r}) = AmountOf(ledger) + x
      BY <1>1, <3>1, <3>2, AmountWith
    <3>4. Advances(View(p)) = Advances(ledger)
      BY <3>1, <3>2 DEF Advances
    <3>5. OneAdvance(View(p))
      BY <2>1, <3>2, <3>4 DEF OneAdvance
    <3> QED BY <1>1, <2>1, <3>2, <3>3, <3>5
  <2>4. CASE BringsAdvance(job[p].rows, x)
    <3>1. PICK r \in job[p].rows : /\ job[p].rows = {r} /\ r.source = "ADVANCE"
                                   /\ r.amount = agreed /\ Advance(r.n) /\ x = 0
      BY <2>4 DEF BringsAdvance
    <3>2. PICK e \in ledger : e.n = r.n /\ e.source = "ADVANCE" /\ e.amount = agreed
      BY <3>1 DEF Advance
    <3> DEFINE rest == ledger \ {e}
    <3>3. \A o \in ledger : o.n = e.n => o = e
      BY DEF Numbered
    <3>4. View(p) = rest \cup {r} /\ r \notin rest
      BY <3>1, <3>2, <3>3 DEF View
    <3>5. Advances(ledger) = {e}
      BY <2>1, <3>2 DEF OneAdvance, Advances
    <3>6. WithAmounts(rest)
      BY <1>1, FS_Subset DEF WithAmounts
    <3>7. AmountOf(ledger) = e.amount + AmountOf(rest)
      BY <1>1, AmountWithout
    <3>8. AmountOf(rest \cup {r}) = AmountOf(rest) + r.amount /\ AmountOf(rest) \in Nat
      BY <1>1, <3>1, <3>4, <3>6, AmountWith, AmountIsNat
    <3> HIDE DEF rest
    <3>9. AmountOf(View(p)) = agreed + received + x
      BY <1>1, <2>1, <3>1, <3>2, <3>4, <3>7, <3>8
    <3>10. Advances(View(p)) = {r}
      BY <3>1, <3>2, <3>3, <3>4, <3>5 DEF Advances, rest
    <3>11. OneAdvance(View(p))
      BY <2>1, <3>1, <3>4, <3>10 DEF OneAdvance
    <3> QED BY <3>9, <3>11
  <2> QED BY <1>3, <2>2, <2>3, <2>4 DEF Brings, BringsFirst
<1> QED BY <1>2, <1>3

\* What a transaction sees has amounts.
LEMMA PricedView ==
    ASSUME NEW p \in Callers, WithAmounts(ledger), WithAmounts(job[p].rows)
    PROVE  WithAmounts(View(p))
<1>1. View(p) \subseteq ledger \cup job[p].rows
  BY DEF View
<1>2. IsFiniteSet(ledger \cup job[p].rows)
  BY FS_Union DEF WithAmounts
<1>3. IsFiniteSet(View(p))
  BY <1>1, <1>2, FS_Subset
<1> QED BY <1>1, <1>3 DEF WithAmounts

\* The payment that commits is on the ledger afterwards, once; with an empty
\* ledger before it, nobody else was in a transaction or it is excused.
LEMMA CommitHolds ==
    ASSUME LedgerInv, HoldsInv, NEW p \in Callers, Commit(p)
    PROVE  HoldsInv'
<1> DEFINE s == IF job[p].chain THEN "ensure" ELSE "idle"
           x == ReceivedBy(job[p])
<1>1. /\ Shape /\ OwnRows /\ Hooked /\ Numbered(ledger, serial)
      /\ step[p] = "commit" /\ ledger' = View(p)
      /\ booking' = [booking EXCEPT !.total = job[p].total, !.advance = job[p].advance]
      /\ received' = received + x
      /\ UNCHANGED <<mix, serial, edited, agreed>>
  BY DEF LedgerInv, Shape, Commit, Received, ReceivedBy
<1>2. /\ JobLike(job[p]) /\ SizedJob(job[p]) /\ KindAt("commit", job[p])
      /\ Regular => WorkAt("commit", job[p])
      /\ agreed \in Nat /\ received \in Nat /\ DocsFree(p, job[p].rows)
      /\ WithAmounts(ledger)
  BY <1>1, AtWork
<1>3. ~booking.option
  BY <1>1, AtWorkOnEvent
<1>4. x \in Nat
  BY <1>2 DEF SizedJob, ReceivedBy
<1> HIDE DEF x
<1>5. /\ step'[p] = s /\ s \in {"ensure", "idle"}
      /\ \A q \in Callers \ {p} : step'[q] = step[q]
  BY <1>1 DEF Commit, Shape
<1> HIDE DEF s
<1>6. /\ job'[p] = Nobody
      /\ \A q \in Callers \ {p} : job'[q] = [job[q] EXCEPT !.fresh = FALSE]
  BY DEF Commit
<1>7. \A q \in Callers \ {p} :
         /\ job'[q].rows = job[q].rows /\ job'[q].kind = job[q].kind /\ job'[q].doc = job[q].doc
         /\ job'[q].amount = job[q].amount /\ job'[q].total = job[q].total
         /\ job'[q].advance = job[q].advance /\ job'[q].read = job[q].read
         /\ job'[q].chain = job[q].chain /\ job'[q].target = job[q].target
         /\ job'[q].status = job[q].status
  BY <1>1, <1>6 DEF Shape, JobLike, Nobody
<1>8. /\ booking'.option = booking.option /\ booking'.total = job[p].total
      /\ booking'.advance = job[p].advance
  BY <1>1 DEF Shape, BookingLike
<1>9. WithAmounts(View(p)) /\ \A r \in View(p) : r \in job[p].rows \/ r \in ledger
  BY <1>2, PricedView DEF SizedJob, View
<1>10. Sized'
  <2>1. \A q \in Callers : SizedJob(job'[q])
    <3>1. \A q \in Callers \ {p} : SizedJob(job[q]) => SizedJob(job'[q])
      BY <1>7 DEF SizedJob
    <3> QED BY <1>6, <3>1, NobodyIs DEF HoldsInv, Sized
  <2>2. \A q \in Callers : SizedJob(job[q])'
    <3>1. \A i \in Invoices : invoices[i].status # "none" => invoices'[i].status # "none"
      BY <1>1 DEF Commit, Shape, InvoiceLike
    <3> QED BY <2>1, <3>1 DEF SizedJob, WithAmounts
  <2>3. WithAmounts(ledger)'
    BY <1>1, <1>9 DEF WithAmounts
  <2>4. \A i \in Invoices : invoices'[i].status # "none" =>
           invoices'[i].amount \in Nat /\ invoices'[i].amount # 0
    BY <1>1, <1>2 DEF HoldsInv, Sized, SizedJob, Commit, Shape, InvoiceLike
  <2> QED BY <1>1, <1>2, <1>4, <1>8, <2>2, <2>3, <2>4 DEF HoldsInv, Sized, SizedJob
<1>11. Kinds'
  BY <1>5, <1>6, <1>7, NobodyIs DEF HoldsInv, Kinds, KindAt
<1>12. OptionIdle'
  BY <1>3, <1>8 DEF OptionIdle
<1>13. DocsApart'
  <2>1. ASSUME NEW q \in Callers, NEW o \in job'[q].rows, o.doc # NoDoc
        PROVE  /\ \A e \in ledger' : e.n # o.n => e.doc # o.doc
               /\ \A t \in Callers \ {q} : \A r \in job'[t].rows : r.doc # o.doc
    <3>1. q # p /\ o \in job[q].rows
      BY <1>6, <1>7, <2>1, NobodyIs
    <3>2. DocsFree(q, job[q].rows)
      BY DEF HoldsInv, DocsApart
    <3>3. ASSUME NEW e \in ledger', e.n # o.n
          PROVE  e.doc # o.doc
      BY <1>1, <1>9, <2>1, <3>1, <3>2, <3>3 DEF DocsFree
    <3>4. ASSUME NEW t \in Callers \ {q}, NEW r \in job'[t].rows
          PROVE  r.doc # o.doc
      <4>1. t # p /\ r \in job[t].rows
        BY <1>6, <1>7, <3>4, NobodyIs
      <4> QED BY <2>1, <3>1, <3>2, <4>1 DEF DocsFree
    <3> QED BY <3>3, <3>4
  <2> QED BY <2>1 DEF DocsApart, DocsFree
<1>14. ASSUME Regular'
       PROVE  Balanced' /\ WorksFit'
  <2>1. /\ Regular
        /\ ledger = {} => \A q \in Callers \ {p} : step[q] \notin InTransaction
        /\ ~(Advances(View(p)) = {} /\ job[p].advance > 0)
    <3> DEFINE crosses == ledger = {} /\ \E q \in Callers \ {p} : step[q] \in InTransaction
               mirrors == Advances(View(p)) = {} /\ job[p].advance > 0
    <3>1. /\ crossed' = (crossed \/ crosses) /\ mirrored' = (mirrored \/ mirrors)
          /\ edited' = edited /\ ~crossed' /\ ~mirrored' /\ ~edited'
      BY <1>1, <1>14 DEF Commit, Regular
    <3> HIDE DEF crosses, mirrors
    <3>2. Regular /\ ~crosses /\ ~mirrors
      BY <3>1 DEF Regular
    <3> QED BY <3>2 DEF crosses, mirrors
  <2>2. Balanced /\ \A q \in Callers : WorkAt(step[q], job[q])
    BY <2>1 DEF HoldsInv, WorksFit
  <2>3. WorkAt("commit", job[p]) /\ Brings(job[p].rows, x)
    BY <1>2, <2>1 DEF WorkAt, x
  <2>4. AmountOf(View(p)) = agreed + received + x /\ OneAdvance(View(p))
    BY <1>1, <1>2, <1>3, <1>4, <2>1, <2>2, <2>3, ViewAmount DEF SizedJob
  <2>5. job[p].advance = agreed /\ agreed # 0
    <3>1. CASE ledger = {} /\ Advances(job[p].rows) = {}
      <4>1. View(p) = job[p].rows /\ job[p].advance # 0 /\ job[p].advance \in Nat
        BY <1>2, <2>3, <3>1 DEF View, WorkAt, SizedJob
      <4> QED BY <2>1, <3>1, <4>1
    <3>2. CASE ledger = {} /\ Advances(job[p].rows) # {}
      BY <2>3, <3>2 DEF WorkAt, Brings, BringsFirst, OneAdvance
    <3>3. CASE ledger # {}
      BY <2>1, <2>2, <2>3, <3>3 DEF WorkAt, Balanced
    <3> QED BY <3>1, <3>2, <3>3
  <2>6. ledger' # {} /\ AmountOf(ledger') = agreed' + received' /\ OneAdvance(ledger')
    BY <1>1, <1>2, <1>4, <2>4, <2>5 DEF OneAdvance
  <2>7. Balanced'
    BY <1>1, <1>8, <2>5, <2>6 DEF Balanced, OneAdvance
  <2>8. \A n : Advance(n) => Advance(n)'
    <3>1. ASSUME NEW n, Advance(n)
          PROVE  \E e \in View(p) : e.n = n /\ e.source = "ADVANCE" /\ e.amount = agreed
      <4>1. PICK e \in ledger : e.n = n /\ e.source = "ADVANCE" /\ e.amount = agreed
        BY <3>1 DEF Advance
      <4>2. CASE \A o \in job[p].rows : o.n # n
        BY <4>1, <4>2 DEF View
      <4>3. CASE \E o \in job[p].rows : o.n = n
        BY <2>3, <4>1, <4>3 DEF View, Brings, BringsFirst, BringsOne, BringsAdvance, NewNumber
      <4> QED BY <4>2, <4>3
    <3> QED BY <1>1, <3>1 DEF Advance
  <2>9. ASSUME NEW q \in Callers \ {p}, NEW o \in job[q].rows, NewNumber(o.n)
        PROVE  NewNumber(o.n)'
    BY <1>1, <1>9, <2>9 DEF NewNumber, OwnRows
  <2>10. ASSUME NEW q \in Callers \ {p}, step[q] \in {"sum", "commit"}
         PROVE  /\ ledger # {}
                /\ job[q].kind # "advance" => (OnLedger(job[q].doc)' <=> OnLedger(job[q].doc))
                /\ OnLedger(job[q].doc) => OnLedger(job[q].doc)'
    <3>1. ledger # {}
      BY <2>1, <2>10 DEF InTransaction
    <3>2. \A d : OnLedger(d) => \E r \in ledger' : d # NoDoc /\ r.doc = d
      BY <1>1, CommitKeepsDocs DEF OnLedger
    <3>3. ASSUME job[q].kind # "advance", NEW e \in ledger', e.doc = job[q].doc,
                 job[q].doc # NoDoc, ~OnLedger(job[q].doc)
          PROVE  FALSE
      <4>1. e \in job[p].rows
        BY <1>1, <1>9, <3>3 DEF OnLedger
      <4>2. OwnRow(job[q])
        BY <2>2, <2>10, <3>3 DEF WorkAt
      <4>3. PICK o \in job[q].rows : o.doc = job[q].doc
        BY <4>2 DEF OwnRow
      <4> QED BY <1>2, <3>3, <4>1, <4>3 DEF DocsFree
    <3>4. job'[q].doc = job[q].doc
      BY <1>7
    <3> QED BY <3>1, <3>2, <3>3, <3>4 DEF OnLedger
  <2>11. ASSUME NEW q \in Callers \ {p}, step[q] \in {"sum", "commit"}
         PROVE  /\ Brings(job[q].rows, ReceivedBy(job[q]))'
                /\ IF job[q].kind = "advance" THEN Advances(job[q].rows) # {}
                   ELSE OnLedger(job[q].doc)' \/ OwnRow(job[q])'
    <3>1. WorkAt(step[q], job[q]) /\ ledger # {}
      BY <2>2, <2>10, <2>11
    <3>2. ReceivedBy(job[q])' = ReceivedBy(job[q])
      BY <1>7, <2>10, <2>11 DEF ReceivedBy, OnLedger
    <3>3. Brings(job[q].rows, ReceivedBy(job[q]))
      BY <2>11, <3>1 DEF WorkAt
    <3> DEFINE y == ReceivedBy(job[q])
    <3>4. BringsOne(job[q].rows, y) => BringsOne(job[q].rows, y)'
      BY <1>7, <2>9, <3>2 DEF BringsOne
    <3>5. BringsAdvance(job[q].rows, y) => BringsAdvance(job[q].rows, y)'
      BY <1>1, <1>7, <2>8, <3>2 DEF BringsAdvance
    <3>6. Brings(job[q].rows, y)'
      BY <1>7, <2>6, <3>1, <3>2, <3>3, <3>4, <3>5 DEF Brings, BringsFirst
    <3>7. OwnRow(job[q]) => OwnRow(job[q])'
      BY <1>7, <2>9 DEF OwnRow
    <3>8. IF job[q].kind = "advance" THEN Advances(job[q].rows) # {}
          ELSE OnLedger(job[q].doc) \/ OwnRow(job[q])
      BY <2>11, <3>1 DEF WorkAt
    <3> QED BY <2>10, <2>11, <3>6, <3>7, <3>8
  <2>12. ASSUME NEW q \in Callers
         PROVE  WorkAt(step[q], job[q])'
    <3>1. CASE q = p
      BY <1>5, <1>6, <2>6, <3>1, NobodyIs DEF WorkAt
    <3>2. CASE q # p
      <4>1. WorkAt(step[q], job[q])
        BY <2>2
      <4>2. step[q] \in InTransaction => ledger # {}
        BY <2>1, <3>2
      <4>3. step[q] = "write" => job[q].target # 0 /\ Advance(job[q].target)'
        <5>1. job'[q].target = job[q].target
          BY <1>7, <3>2
        <5>2. step[q] = "write" => job[q].target # 0 /\ Advance(job[q].target)
          BY <4>1, <4>2 DEF WorkAt, InTransaction
        <5> QED BY <1>1, <2>8, <5>1, <5>2 DEF Advance
      <4>4. step[q] = "hookInsert" => job[q].rows = {}
        BY <4>1, <4>2 DEF WorkAt, InTransaction
      <4>5. step[q] = "commit" => job[q].advance = agreed
        BY <4>1, <4>2 DEF WorkAt, InTransaction
      <4>6. step[q] \in {"sum", "commit"} =>
               /\ Brings(job[q].rows, ReceivedBy(job[q]))'
               /\ IF job[q].kind = "advance" THEN Advances(job[q].rows) # {}
                  ELSE OnLedger(job[q].doc)' \/ OwnRow(job[q])'
        BY <2>11, <3>2
      <4>7. job[q].kind = "advance" => job[q].amount = agreed /\ agreed # 0
        BY <4>1 DEF WorkAt
      <4> QED BY <1>1, <1>5, <1>7, <2>6, <3>2, <4>3, <4>4, <4>5, <4>6, <4>7 DEF WorkAt, OnLedger
    <3> QED BY <3>1, <3>2
  <2> QED BY <2>7, <2>12 DEF WorksFit
<1>15. Balanced' /\ WorksFit'
  BY <1>14 DEF Balanced, WorksFit
<1> QED BY <1>10, <1>11, <1>12, <1>13, <1>15 DEF HoldsInv

(***************************************************************************)
(* Receipts and invoices.                                                  *)
(***************************************************************************)

\* A step that gives no rows and starts no transaction.
LEMMA HoldsStride ==
    ASSUME LedgerInv, HoldsInv, Calm, NEW p \in Callers, step[p] # "idle", NEW s, NEW j,
           step' = [step EXCEPT ![p] = s], job' = [job EXCEPT ![p] = j],
           j.rows = {}, SizedJob(j), KindAt(s, j),
           s \notin {"hook", "hookInsert", "write", "sum", "commit"},
           s # "ensure", s # "receipt", j.chain => job[p].chain,
           Regular /\ j.kind = "advance" => j.amount = agreed /\ agreed # 0
    PROVE  HoldsInv'
<1>1. Shape /\ ~booking.option /\ DocsFree(p, j.rows)
  BY AtWorkOnEvent DEF LedgerInv, DocsFree
<1>2. Regular' => WorkAt(s, j)
  <2>1. SUFFICES ASSUME Regular' PROVE WorkAt(s, j)
    OBVIOUS
  <2>2. Regular /\ WorkAt(step[p], job[p])
    BY <2>1 DEF Calm, HoldsInv, WorksFit
  <2> QED BY <2>2 DEF WorkAt
<1> QED BY <1>1, <1>2, HoldsMove

\* The advance to be receipted is the one agreed on.
LEMMA AdvanceAgreed ==
    ASSUME HoldsInv, NEW p \in Callers, step[p] \in {"receipt", "ensure"}, Regular,
           booking.advance > 0
    PROVE  booking.advance = agreed /\ agreed # 0
<1>1. booking.advance \in Nat /\ booking.total \in Nat /\ ~booking.option /\ Balanced
  BY AtWorkOnEvent DEF HoldsInv, Sized
<1>2. ledger # {} \/ booking.total <= booking.advance
  BY DEF HoldsInv, WorksFit, WorkAt
<1> QED BY <1>1, <1>2 DEF Balanced, Larger

LEMMA CheckReceiptHolds ==
    ASSUME LedgerInv, HoldsInv, NEW p \in Callers, CheckReceipt(p)
    PROVE  HoldsInv'
<1> DEFINE read == IF OthersIssue(p) THEN 0 ELSE receipts
           j == [job[p] EXCEPT !.amount = booking.advance, !.kind = "advance", !.read = read]
<1>1. Shape /\ Uncommitted /\ step[p] = "receipt"
  BY DEF LedgerInv, CheckReceipt
<1>2. /\ JobLike(job[p]) /\ SizedJob(job[p]) /\ KindAt("receipt", job[p]) /\ booking.advance \in Nat
  BY <1>1, AtWork
<1>3. Calm
  BY UncommittedCalm, <1>1
<1>4. CASE Leave(p)
  BY <1>1, <1>3, <1>4, HoldsLeave
<1>5. CASE MayIssue(job[p].force) /\ Goto(p, "createDoc") /\ job' = [job EXCEPT ![p] = j]
  <2> HIDE DEF read
  <2>1. /\ j.rows = {} /\ j.kind = "advance" /\ j.amount = booking.advance
        /\ j.chain = job[p].chain /\ j.total = job[p].total /\ j.advance = job[p].advance
    BY <1>2 DEF JobLike, Nobody, KindAt
  <2>2. step' = [step EXCEPT ![p] = "createDoc"] /\ job' = [job EXCEPT ![p] = j]
    BY <1>5 DEF Goto
  <2> HIDE DEF j
  <2>3. SizedJob(j) /\ KindAt("createDoc", j)
    BY <1>2, <2>1, FS_EmptySet DEF SizedJob, KindAt, WithAmounts
  <2>4. Regular => j.amount = agreed /\ agreed # 0
    BY <1>1, <1>5, <2>1, AdvanceAgreed DEF MayIssue
  <2> QED BY <1>1, <1>3, <2>1, <2>2, <2>3, <2>4, HoldsStride
<1> QED BY <1>4, <1>5 DEF CheckReceipt

LEMMA EnsureAdvanceHolds ==
    ASSUME LedgerInv, HoldsInv, NEW p \in Callers, EnsureAdvance(p)
    PROVE  HoldsInv'
<1> DEFINE j == [Nobody EXCEPT !.kind = "advance", !.doc = booking.doc, !.amount = booking.advance]
<1>1. Shape /\ Uncommitted /\ step[p] = "ensure"
  BY DEF LedgerInv, EnsureAdvance
<1>2. booking.advance \in Nat
  BY <1>1, AtWork
<1>3. Calm
  BY UncommittedCalm, <1>1
<1>4. CASE Leave(p)
  BY <1>1, <1>3, <1>4, HoldsLeave
<1>5. CASE booking.advance > 0 /\ Goto(p, "find") /\ job' = [job EXCEPT ![p] = j]
  <2>1. /\ j.rows = {} /\ j.kind = "advance" /\ j.amount = booking.advance
        /\ j.chain = FALSE /\ j.total = 0 /\ j.advance = 0
    BY DEF Nobody
  <2>2. step' = [step EXCEPT ![p] = "find"] /\ job' = [job EXCEPT ![p] = j]
    BY <1>5 DEF Goto
  <2> HIDE DEF j
  <2>3. SizedJob(j) /\ KindAt("find", j)
    BY <1>2, <2>1, FS_EmptySet DEF SizedJob, KindAt, WithAmounts
  <2>4. Regular => j.amount = agreed /\ agreed # 0
    BY <1>1, <1>5, <2>1, AdvanceAgreed
  <2> QED BY <1>1, <1>3, <2>1, <2>2, <2>3, <2>4, HoldsStride
<1> QED BY <1>4, <1>5 DEF EnsureAdvance

\* Steps of a caller that keep what WorkAt looks at.
LEMMA HoldsOn ==
    ASSUME LedgerInv, HoldsInv, Calm, NEW p \in Callers, NEW s, NEW j,
           step[p] = "createDoc" \/ step[p] = "store" \/ step[p] = "balance",
           s = "store" \/ s = "find" \/ s = "post",
           SizedJob(j), KindAt(s, j),
           step' = [step EXCEPT ![p] = s], job' = [job EXCEPT ![p] = j],
           j.rows = job[p].rows, j.kind = job[p].kind, j.chain = job[p].chain,
           j.amount = job[p].amount
    PROVE  HoldsInv'
<1>1. KindAt(step[p], job[p]) /\ (Regular => WorkAt(step[p], job[p]))
  BY DEF HoldsInv, Kinds, WorksFit
<1>2. j.rows = {}
  BY <1>1 DEF KindAt
<1>3. Regular /\ j.kind = "advance" => j.amount = agreed /\ agreed # 0
  BY <1>1 DEF WorkAt
<1> QED BY <1>2, <1>3, HoldsStride

LEMMA SkipReceiptHolds ==
    ASSUME LedgerInv, HoldsInv, NEW p \in Callers, SkipReceipt(p)
    PROVE  HoldsInv'
<1>1. Shape /\ Uncommitted /\ step[p] = "createDoc" /\ SizedJob(job[p]) /\ Calm
  BY UncommittedCalm DEF LedgerInv, SkipReceipt, HoldsInv, Sized
<1>2. step' = [step EXCEPT ![p] = "find"] /\ job' = [job EXCEPT ![p] = job[p]]
  BY DEF SkipReceipt, Goto, LedgerInv, Shape
<1>3. KindAt("find", job[p])
  BY <1>1, AtWork DEF KindAt
<1> QED BY <1>1, <1>2, <1>3, HoldsOn

LEMMA CreateDocHolds ==
    ASSUME LedgerInv, HoldsInv, NEW p \in Callers, NEW issued, NEW answered, NEW named,
           CreateDoc(p, issued, answered, named)
    PROVE  HoldsInv'
<1> DEFINE status == IF ~answered THEN "FAILED"
                     ELSE IF mix.mode = "simulation" THEN "SIMULATED" ELSE "ISSUED"
           doc == IF answered /\ named THEN serial ELSE NoDoc
           j == [job[p] EXCEPT !.status = status, !.doc = doc]
<1>1. /\ Shape /\ step[p] = "createDoc"
      /\ UNCHANGED <<booking, ledger, invoices, agreed, received, crossed, mirrored, edited, mix>>
  BY DEF LedgerInv, CreateDoc, moneyHistory
<1>2. JobLike(job[p]) /\ SizedJob(job[p]) /\ KindAt("createDoc", job[p])
  BY <1>1, AtWork
<1>3. Calm
  BY <1>1 DEF Calm, Regular, HoldsInv, Sized
<1>4. step' = [step EXCEPT ![p] = "store"] /\ job' = [job EXCEPT ![p] = j]
  BY DEF CreateDoc, Goto
<1> HIDE DEF status, doc
<1>5. /\ j.rows = job[p].rows /\ j.kind = job[p].kind /\ j.amount = job[p].amount
      /\ j.chain = job[p].chain /\ j.total = job[p].total /\ j.advance = job[p].advance
  BY <1>2 DEF JobLike, Nobody
<1> HIDE DEF j
<1>6. SizedJob(j) /\ KindAt("store", j)
  BY <1>2, <1>5 DEF SizedJob, KindAt
<1> QED BY <1>1, <1>3, <1>4, <1>5, <1>6, HoldsOn

LEMMA StoreReceiptHolds ==
    ASSUME LedgerInv, HoldsInv, NEW p \in Callers, StoreReceipt(p)
    PROVE  HoldsInv'
<1>1. /\ Shape /\ step[p] = "store" /\ SizedJob(job[p])
      /\ UNCHANGED <<ledger, invoices, agreed, received, crossed, mirrored, edited, mix>>
      /\ booking' = [booking EXCEPT !.receipt = job[p].status, !.doc = job[p].doc]
  BY DEF LedgerInv, StoreReceipt, moneyHistory, HoldsInv, Sized
<1>2. /\ booking'.option = booking.option
      /\ booking'.advance = booking.advance /\ booking'.total = booking.total
  BY <1>1 DEF Shape, BookingLike
<1>3. Calm
  BY <1>1, <1>2 DEF Calm, Regular, HoldsInv, Sized
<1>4. CASE Leave(p)
  BY <1>1, <1>3, <1>4, HoldsLeave
<1>5. CASE Goto(p, "find") /\ UNCHANGED job
  <2>1. step' = [step EXCEPT ![p] = "find"] /\ job' = [job EXCEPT ![p] = job[p]]
    BY <1>5 DEF Goto, LedgerInv, Shape
  <2>2. KindAt("find", job[p])
    BY <1>1, AtWork DEF KindAt
  <2> QED BY <1>1, <1>3, <2>1, <2>2, HoldsOn
<1> QED BY <1>4, <1>5 DEF StoreReceipt

LEMMA CheckBalanceHolds ==
    ASSUME LedgerInv, HoldsInv, NEW p \in Callers, CheckBalance(p)
    PROVE  HoldsInv'
<1> DEFINE j == [job[p] EXCEPT !.known = Stored]
<1>1. Shape /\ Uncommitted /\ step[p] = "balance"
  BY DEF LedgerInv, CheckBalance
<1>2. JobLike(job[p]) /\ SizedJob(job[p]) /\ KindAt("balance", job[p])
  BY <1>1, AtWork
<1>3. Calm
  BY UncommittedCalm, <1>1
<1>4. CASE Leave(p)
  BY <1>1, <1>3, <1>4, HoldsLeave
<1>5. CASE Goto(p, "post") /\ job' = [job EXCEPT ![p].known = Stored]
  <2>1. /\ j.rows = job[p].rows /\ j.kind = job[p].kind /\ j.amount = job[p].amount
        /\ j.chain = job[p].chain /\ j.total = job[p].total /\ j.advance = job[p].advance
    BY <1>2 DEF JobLike, Nobody
  <2>2. step' = [step EXCEPT ![p] = "post"] /\ job' = [job EXCEPT ![p] = j]
    BY <1>5 DEF Goto
  <2> HIDE DEF j
  <2>3. SizedJob(j) /\ KindAt("post", j)
    BY <1>2, <2>1 DEF SizedJob, KindAt
  <2> QED BY <1>1, <1>3, <2>1, <2>2, <2>3, HoldsOn
<1> QED BY <1>4, <1>5 DEF CheckBalance

LEMMA PostFailsHolds ==
    ASSUME LedgerInv, HoldsInv, NEW p \in Callers, PostFails(p)
    PROVE  HoldsInv'
BY UncommittedCalm, HoldsLeave DEF PostFails, LedgerInv

LEMMA StoreInvoiceHolds ==
    ASSUME LedgerInv, HoldsInv, NEW p \in Callers, NEW i \in Invoices,
           NEW status \in {"pending", "paid"}, StoreInvoice(p, i, status)
    PROVE  HoldsInv'
<1>1. /\ Shape /\ step[p] = "post" /\ Leave(p)
      /\ UNCHANGED <<booking, ledger, agreed, received, crossed, mirrored, edited, mix>>
      /\ invoices' = [invoices EXCEPT ![i] = [status |-> status, amount |-> job[p].amount,
                                              first |-> status]]
  BY DEF LedgerInv, StoreInvoice, moneyHistory
<1>2. job[p].amount \in Nat /\ job[p].amount # 0
  BY <1>1, AtWork DEF SizedJob, KindAt
<1>3. Calm
  BY <1>1, <1>2 DEF Calm, Regular, HoldsInv, Sized, Shape
<1> QED BY <1>1, <1>3, HoldsLeave

LEMMA RecordStatusHolds ==
    ASSUME LedgerInv, HoldsInv, NEW p \in Callers, RecordStatus(p)
    PROVE  HoldsInv'
<1>1. /\ Shape /\ step[p] = "hook" /\ Leave(p)
      /\ UNCHANGED <<booking, ledger, agreed, received, crossed, mirrored, edited, mix>>
      /\ invoices' = [invoices EXCEPT ![job[p].doc].status = job[p].status]
  BY DEF LedgerInv, RecordStatus, moneyHistory
<1>2. job[p].kind = "hook" /\ SizedJob(job[p])
  BY <1>1, AtWork DEF KindAt
<1>3. job[p].status # "none" /\ invoices[job[p].doc].status # "none"
  BY <1>2 DEF SizedJob
<1>4. \A i \in Invoices : /\ invoices'[i].amount = invoices[i].amount
                          /\ invoices[i].status # "none" => invoices'[i].status # "none"
                          /\ invoices'[i].status # "none" => invoices[i].status # "none"
  BY <1>1, <1>3 DEF Shape, InvoiceLike
<1>5. Calm
  BY <1>1, <1>4 DEF Calm, Regular, HoldsInv, Sized
<1> QED BY <1>1, <1>5, HoldsLeave

LEMMA HoldsStep == LedgerInv /\ HoldsInv /\ [PaymentNext]_paymentVars => HoldsInv'
<1> SUFFICES ASSUME LedgerInv, HoldsInv, [PaymentNext]_paymentVars PROVE HoldsInv'
  OBVIOUS
<1>0. Shape
  BY DEF LedgerInv
<1>1. CASE UNCHANGED paymentVars
  <2>1. UNCHANGED <<mix, booking, ledger, invoices, step, job, agreed, received, crossed,
                    mirrored, edited>>
    BY <1>1 DEF paymentVars, moneyHistory
  <2>2. Sized' /\ Kinds' /\ OptionIdle' /\ DocsApart'
    BY <2>1 DEF HoldsInv, Sized, SizedJob, WithAmounts, Kinds, KindAt, OptionIdle, DocsApart, DocsFree
  <2>3. Balanced' /\ WorksFit'
    BY <2>1 DEF HoldsInv, Balanced, Regular, OneAdvance, WorksFit, WorkAt, Advance, BringsFirst,
       Brings, BringsOne, BringsAdvance, NewNumber, ReceivedBy, OnLedger, OwnRow
  <2> QED BY <2>2, <2>3 DEF HoldsInv
<1>2. ASSUME NEW p \in Callers, Transaction(p)
      PROVE  HoldsInv'
  BY <1>2, OpenPaymentHolds, OpenHookHolds, InsertHolds, FindAdvanceHolds, WriteAdvanceRowHolds,
     SumUpHolds, CommitHolds DEF Transaction
<1>3. ASSUME NEW p \in Callers,
             \/ RecordStatus(p) \/ CheckReceipt(p) \/ SkipReceipt(p) \/ StoreReceipt(p)
             \/ EnsureAdvance(p) \/ CheckBalance(p) \/ PostFails(p)
      PROVE  HoldsInv'
  BY <1>3, RecordStatusHolds, CheckReceiptHolds, SkipReceiptHolds, StoreReceiptHolds,
     EnsureAdvanceHolds, CheckBalanceHolds, PostFailsHolds
<1>4. ASSUME NEW p \in Callers, NEW amount \in mix.amounts,
             \/ UpdateBooking(p, amount) \/ FinalizeBooking(p, amount) \/ AskInvoice(p, amount)
             \/ \E d \in Invoices \cup {NoDoc} : Pay(p, amount, d)
      PROVE  HoldsInv'
  BY <1>0, <1>4, WriteAdvanceHolds, AskInvoiceHolds, PayHolds
<1>5. ASSUME NEW p \in Callers, NEW force \in BOOLEAN, Reissue(p, force)
      PROVE  HoldsInv'
  BY <1>0, <1>5, ReissueHolds
<1>6. ASSUME NEW p \in Callers, NEW issued \in BOOLEAN, NEW answered \in BOOLEAN,
             NEW named \in BOOLEAN, CreateDoc(p, issued, answered, named)
      PROVE  HoldsInv'
  BY <1>6, CreateDocHolds
<1>7. ASSUME NEW p \in Callers, NEW i \in Invoices,
             \/ \E status \in InvoiceStatus \ {"none"}, amount \in mix.amounts \cup {invoices[i].amount} :
                    Notify(p, i, status, amount)
             \/ \E status \in {"pending", "paid"} : StoreInvoice(p, i, status)
      PROVE  HoldsInv'
  BY <1>0, <1>7, NotifyHolds, StoreInvoiceHolds
<1> QED BY <1>1, <1>2, <1>3, <1>4, <1>5, <1>6, <1>7 DEF PaymentNext

LEMMA HoldsInvariant == PaymentSpec => []HoldsInv
BY LedgerInvariant, HoldsInitial, HoldsStep, PTL DEF PaymentSpec

\* The ledger holds the money from before it and every later payment, each once
\* (recordPayment, applyHallInvoicePayment, recordAdvancePayment,
\* ensureLegacyAdvanceSeeded): for every number of payments, webhooks, receipts
\* and edits at once, of every amount, with the excuses of the property.
THEOREM LedgerIsWhatWasPaid == PaymentSpec => []LedgerHoldsPayments
BY HoldsInvariant, HoldsImplies, PTL

(***************************************************************************)
(* The invoices stay within the hall amount.                               *)
(***************************************************************************)

Owed == {i \in Invoices : invoices[i].status \in {"pending", "paid"}}
InvoicePrices == [i \in Invoices |-> invoices[i].amount]
OwedTotal == Total(InvoicePrices, Owed)

\* What was read or notified is a number, or a status.
Reads(s, j) ==
    /\ s = "balance" => j.read \in Nat
    /\ s = "hook" => j.status \in InvoiceStatus

\* What a caller knows is stored; while the sum it checked is still what is
\* owed, its own invoice fits in; and what is owed is within the hall amount.
BalanceInv ==
    /\ \A p \in Callers : job[p].known \subseteq Stored
    /\ \A i \in Invoices : invoices[i].status \in InvoiceStatus
    /\ \A p \in Callers : Reads(step[p], job[p])
    /\ ~revived => \A p \in Callers :
          step[p] = "post" /\ job[p].known = Stored => OwedTotal + job[p].amount <= Hall
    /\ ~overlaps /\ ~revived => OwedTotal <= Hall

\* A part of a set totals no more than the set.
LEMMA TotalPart ==
    ASSUME NEW S, IsFiniteSet(S), NEW R \in SUBSET S, NEW w, Weights(w, S)
    PROVE  Total(w, R) \in Nat /\ Total(w, S) \in Nat /\ Total(w, R) <= Total(w, S)
<1> DEFINE T == S \ R
<1>1. IsFiniteSet(R) /\ IsFiniteSet(T) /\ Weights(w, R) /\ Weights(w, T)
  BY FS_Subset DEF Weights
<1>2. R \cup T = S /\ \A x \in R : x \notin T
  OBVIOUS
<1> HIDE DEF T
<1>3. Total(w, R \cup T) = Total(w, R) + Total(w, T)
  BY <1>1, <1>2, TotalUnion
<1>4. Total(w, R) \in Nat /\ Total(w, T) \in Nat
  BY <1>1, TotalNat
<1>5. Total(w, S) = Total(w, R) + Total(w, T)
  BY <1>2, <1>3
<1> QED BY <1>4, <1>5

\* The total of the invoices of some statuses is their total by price.
LEMMA InvoiceIsTotal ==
    ASSUME NEW statuses
    PROVE  InvoiceTotal(statuses)
           = Total(InvoicePrices, {i \in Invoices : invoices[i].status \in statuses})
<1> DEFINE S == {i \in Invoices : invoices[i].status \in statuses}
           w == InvoicePrices
           Solves(g) == g = [T \in SUBSET S |->
                              IF T = {} THEN 0
                              ELSE invoices[CHOOSE x \in T : TRUE].amount
                                   + g[T \ {CHOOSE x \in T : TRUE}]]
           h == CHOOSE h : Solves(h)
<1>1. InvoiceTotal(statuses) = h[S]
  BY DEF InvoiceTotal, MapThenSumSet, MapThenFoldSet
<1>0. S \subseteq Invoices /\ IsFiniteSet(S)
  BY LedgerAssumption, FS_Subset
<1> HIDE DEF S
<1>2. ASSUME NEW g
      PROVE  Adds(g, w, S) <=> Solves(g)
  <2>1. \A T \in SUBSET S : T # {} => w[Taken(T)] = invoices[CHOOSE x \in T : TRUE].amount
    BY <1>0, TakenIsOne DEF Taken, InvoicePrices
  <2> DEFINE a == [T \in SUBSET S |-> IF T = {} THEN 0 ELSE w[Taken(T)] + g[T \ {Taken(T)}]]
             b == [T \in SUBSET S |->
                     IF T = {} THEN 0
                     ELSE invoices[CHOOSE x \in T : TRUE].amount
                          + g[T \ {CHOOSE x \in T : TRUE}]]
  <2> HIDE DEF w
  <2>2. a = b
    <3>1. \A T \in SUBSET S :
             (IF T = {} THEN 0 ELSE w[Taken(T)] + g[T \ {Taken(T)}])
             = (IF T = {} THEN 0
                ELSE invoices[CHOOSE x \in T : TRUE].amount + g[T \ {CHOOSE x \in T : TRUE}])
      BY <2>1 DEF Taken
    <3> QED BY ONLY <3>1
  <2> HIDE DEF a, b
  <2>3. Adds(g, w, S) <=> g = a
    BY DEF Adds, a
  <2>4. Solves(g) <=> g = b
    BY DEF b
  <2> QED BY <2>2, <2>3, <2>4
<1> HIDE DEF w, Solves
<1>3. \E g : Solves(g)
  BY <1>0, <1>2, AddsExists
<1>4. Solves(h)
  BY <1>3
<1> HIDE DEF h
<1>5. Adds(h, w, S)
  BY <1>2, <1>4
<1>6. PICK g : Adds(g, w, S) /\ Total(w, S) = g[S]
  BY <1>0, TotalAdds
<1>7. g[S] = h[S]
  BY <1>0, <1>5, <1>6, AddsUnique
<1> QED BY <1>1, <1>6, <1>7 DEF w, S

\* Prices are natural numbers where something is owed.
LEMMA OwedSized ==
    ASSUME HoldsInv
    PROVE  /\ Owed \subseteq Invoices /\ IsFiniteSet(Owed) /\ Weights(InvoicePrices, Owed)
           /\ OwedTotal \in Nat
<1>1. Owed \subseteq Invoices /\ IsFiniteSet(Owed)
  BY LedgerAssumption, FS_Subset DEF Owed
<1>2. Weights(InvoicePrices, Owed)
  BY DEF Weights, InvoicePrices, Owed, HoldsInv, Sized
<1> QED BY <1>1, <1>2, TotalNat DEF OwedTotal

\* What the invariant says of the invoices is the property.
LEMMA BalanceImplies == HoldsInv /\ BalanceInv => NeverOverInvoiced
BY InvoiceIsTotal DEF BalanceInv, NeverOverInvoiced, OwedTotal, Owed

LEMMA BalanceInitial == PaymentInit => BalanceInv
<1> SUFFICES ASSUME PaymentInit PROVE BalanceInv
  OBVIOUS
<1>1. Owed = {} /\ Stored = {}
  BY DEF PaymentInit, Owed, Stored
<1>2. OwedTotal = 0
  BY <1>1, FS_EmptySet, TotalTaken DEF OwedTotal
<1>3. \A p \in Callers : step[p] = "idle" /\ job[p].known = {}
  BY DEF PaymentInit, Nobody
<1>4. \A i \in Invoices : invoices[i].status \in InvoiceStatus
  BY DEF PaymentInit, InvoiceStatus
<1> QED BY <1>1, <1>2, <1>3, <1>4, LedgerAssumption DEF BalanceInv, Reads

\* A step after which no more is owed, and the same invoices are stored.
LEMMA BalanceOn ==
    ASSUME BalanceInv, HoldsInv, NEW p \in Callers,
           Stored' = Stored, OwedTotal' \in Nat,
           \A i \in Invoices : invoices'[i].status \in InvoiceStatus,
           ~revived' => ~revived /\ OwedTotal' <= OwedTotal, ~overlaps' => ~overlaps,
           \A q \in Callers \ {p} :
              /\ step'[q] = step[q] /\ job'[q].known = job[q].known
              /\ job'[q].amount = job[q].amount /\ job'[q].read = job[q].read
              /\ job'[q].status = job[q].status,
           job'[p].known \subseteq Stored, Reads(step'[p], job'[p]),
           step'[p] = "post" => OwedTotal + job'[p].amount <= Hall /\ job'[p].amount \in Nat
    PROVE  BalanceInv'
<1>1. /\ OwedTotal \in Nat /\ Hall \in Nat
      /\ \A q \in Callers : job[q].amount \in Nat
  BY OwedSized, LedgerAssumption DEF HoldsInv, Sized, SizedJob
<1>2. \A q \in Callers : job'[q].known \subseteq Stored'
  BY DEF BalanceInv
<1>3. \A q \in Callers : Reads(step'[q], job'[q])
  BY DEF BalanceInv, Reads
<1>4. ASSUME ~revived', NEW q \in Callers, step'[q] = "post", job'[q].known = Stored'
      PROVE  OwedTotal' + job'[q].amount <= Hall
  <2>1. OwedTotal + job'[q].amount <= Hall /\ job'[q].amount \in Nat
    BY <1>1, <1>4 DEF BalanceInv
  <2> QED BY <1>1, <1>4, <2>1
<1>5. ~overlaps' /\ ~revived' => OwedTotal' <= Hall
  BY <1>1 DEF BalanceInv
<1> QED BY <1>2, <1>3, <1>4, <1>5 DEF BalanceInv, Reads

\* A step that leaves the invoices alone and sends its caller elsewhere.
Aloof(p) ==
    /\ invoices' = invoices /\ overlaps' = overlaps /\ revived' = revived
    /\ \A q \in Callers \ {p} : step'[q] = step[q] /\ job'[q] = job[q]
    /\ step'[p] # "post" /\ Reads(step'[p], job'[p])
    /\ job'[p].known = {} \/ job'[p].known = job[p].known

LEMMA AloofBalances ==
    ASSUME BalanceInv, HoldsInv, NEW p \in Callers, Aloof(p)
    PROVE  BalanceInv'
<1>1. Stored' = Stored /\ OwedTotal' = OwedTotal
  BY DEF Aloof, Stored, OwedTotal, Owed, InvoicePrices
<1>2. job'[p].known \subseteq Stored
  BY DEF Aloof, BalanceInv
<1>3. OwedTotal \in Nat
  BY OwedSized
<1>4. ~revived' => ~revived /\ OwedTotal' <= OwedTotal
  BY <1>1, <1>3 DEF Aloof
<1>5. \A i \in Invoices : invoices'[i].status \in InvoiceStatus
  BY DEF Aloof, BalanceInv
<1> QED BY <1>1, <1>2, <1>3, <1>4, <1>5, BalanceOn DEF Aloof

\* A caller that begins, or is done.
LEMMA AloofMove ==
    ASSUME Shape, NEW p \in Callers, invoices' = invoices, overlaps' = overlaps,
           revived' = revived, NEW s, NEW j, s # "post", Reads(s, j),
           step' = [step EXCEPT ![p] = s], job' = [job EXCEPT ![p] = j],
           j.known = {} \/ j.known = job[p].known
    PROVE  Aloof(p)
BY DEF Aloof, Shape

\* A caller that leaves is aloof.
LEMMA AloofLeave ==
    ASSUME Shape, NEW p \in Callers, invoices' = invoices, overlaps' = overlaps,
           revived' = revived, Leave(p)
    PROVE  Aloof(p)
<1> DEFINE s == IF job[p].chain THEN "ensure" ELSE "idle"
<1>1. step' = [step EXCEPT ![p] = s] /\ job' = [job EXCEPT ![p] = Nobody]
  BY DEF Leave
<1>2. s # "post" /\ Reads(s, Nobody) /\ Nobody.known = {}
  BY DEF Nobody, Reads
<1> HIDE DEF s
<1> QED BY <1>1, <1>2, AloofMove

(***************************************************************************)
(* One lemma per operation.                                                *)
(***************************************************************************)

\* The operations that leave the invoices alone.
LEMMA AloofOf ==
    ASSUME Shape, NEW p \in Callers,
           \/ OpenPayment(p) \/ OpenHook(p) \/ InsertInvoicePayment(p) \/ FindAdvance(p)
           \/ WriteAdvanceRow(p) \/ CheckReceipt(p) \/ SkipReceipt(p) \/ StoreReceipt(p)
           \/ SumUp(p) \/ EnsureAdvance(p) \/ PostFails(p)
    PROVE  Aloof(p)
<1>0. JobLike(job[p])
  BY DEF Shape
<1>1. invoices' = invoices /\ overlaps' = overlaps /\ revived' = revived
  BY DEF OpenPayment, OpenHook, InsertInvoicePayment, FindAdvance, WriteAdvanceRow, CheckReceipt,
     SkipReceipt, StoreReceipt, SumUp, EnsureAdvance, PostFails, Uncommitted, invoiceHistory
<1>2. \/ Leave(p)
      \/ Goto(p, "find") /\ UNCHANGED job
      \/ \E rows : job' = [job EXCEPT ![p].rows = rows] /\ (Goto(p, "sum") \/ Goto(p, "hookInsert"))
      \/ \E target : job' = [job EXCEPT ![p].target = target] /\ Goto(p, "write")
      \/ CheckReceipt(p) \/ SumUp(p) \/ EnsureAdvance(p)
  <2>1. CASE OpenPayment(p)
    BY <2>1 DEF OpenPayment
  <2>2. CASE OpenHook(p)
    BY <2>2 DEF OpenHook
  <2>3. CASE InsertInvoicePayment(p)
    BY <2>3 DEF InsertInvoicePayment
  <2>4. CASE FindAdvance(p) \/ WriteAdvanceRow(p)
    BY <2>4 DEF FindAdvance, WriteAdvanceRow
  <2>5. CASE SkipReceipt(p) \/ StoreReceipt(p) \/ PostFails(p)
    BY <2>5 DEF SkipReceipt, StoreReceipt, PostFails
  <2> QED BY <2>1, <2>2, <2>3, <2>4, <2>5
<1>3. CASE Leave(p)
  BY <1>1, <1>3, AloofLeave
<1>4. CASE Goto(p, "find") /\ UNCHANGED job
  BY <1>1, <1>4 DEF Goto, Aloof, Shape, Reads
<1>5. ASSUME NEW rows, job' = [job EXCEPT ![p].rows = rows],
             Goto(p, "sum") \/ Goto(p, "hookInsert")
      PROVE  Aloof(p)
  <2> DEFINE j == [job[p] EXCEPT !.rows = rows]
  <2>2. job' = [job EXCEPT ![p] = j]
    BY <1>5
  <2>3. j.known = job[p].known
    BY <1>0 DEF JobLike, Nobody
  <2> HIDE DEF j
  <2>4. CASE step' = [step EXCEPT ![p] = "sum"]
    BY <1>1, <2>2, <2>3, <2>4, AloofMove DEF Reads
  <2>5. CASE step' = [step EXCEPT ![p] = "hookInsert"]
    BY <1>1, <2>2, <2>3, <2>5, AloofMove DEF Reads
  <2> QED BY <1>5, <2>4, <2>5 DEF Goto
<1>6. ASSUME NEW target, job' = [job EXCEPT ![p].target = target], Goto(p, "write")
      PROVE  Aloof(p)
  <2> DEFINE j == [job[p] EXCEPT !.target = target]
  <2>2. step' = [step EXCEPT ![p] = "write"] /\ job' = [job EXCEPT ![p] = j]
    BY <1>6 DEF Goto
  <2>3. j.known = job[p].known
    BY <1>0 DEF JobLike, Nobody
  <2> HIDE DEF j
  <2> QED BY <1>1, <2>2, <2>3, AloofMove DEF Reads
<1>7. CASE CheckReceipt(p) /\ ~Leave(p)
  <2> DEFINE j == [job[p] EXCEPT !.amount = booking.advance, !.kind = "advance",
                                 !.read = IF OthersIssue(p) THEN 0 ELSE receipts]
  <2>1. step' = [step EXCEPT ![p] = "createDoc"] /\ job' = [job EXCEPT ![p] = j]
    BY <1>7 DEF CheckReceipt, Goto
  <2>2. j.known = job[p].known
    BY <1>0 DEF JobLike, Nobody
  <2> HIDE DEF j
  <2> QED BY <1>1, <2>1, <2>2, AloofMove DEF Reads
<1>8. CASE SumUp(p)
  <2> DEFINE total == SumLedgerPayments(p)
             advance == AdvanceOf(p, total)
             j == [job[p] EXCEPT !.total = total, !.advance = advance, !.fresh = TRUE]
  <2>1. step' = [step EXCEPT ![p] = "commit"] /\ job' = [job EXCEPT ![p] = j]
    BY <1>8 DEF SumUp, Goto
  <2> HIDE DEF total, advance
  <2>2. j.known = job[p].known
    BY <1>0 DEF JobLike, Nobody
  <2> HIDE DEF j
  <2> QED BY <1>1, <2>1, <2>2, AloofMove DEF Reads
<1>9. CASE EnsureAdvance(p) /\ ~Leave(p)
  <2> DEFINE j == [Nobody EXCEPT !.kind = "advance", !.doc = booking.doc,
                                 !.amount = booking.advance]
  <2>1. step' = [step EXCEPT ![p] = "find"] /\ job' = [job EXCEPT ![p] = j]
    BY <1>9 DEF EnsureAdvance, Goto
  <2>2. j.known = {}
    BY DEF Nobody
  <2> HIDE DEF j
  <2> QED BY <1>1, <2>1, <2>2, AloofMove DEF Reads
<1> QED BY <1>2, <1>3, <1>4, <1>5, <1>6, <1>7, <1>8, <1>9

LEMMA AloofCreateDoc ==
    ASSUME Shape, NEW p \in Callers, NEW issued, NEW answered, NEW named,
           CreateDoc(p, issued, answered, named)
    PROVE  Aloof(p)
<1> DEFINE status == IF ~answered THEN "FAILED"
                     ELSE IF mix.mode = "simulation" THEN "SIMULATED" ELSE "ISSUED"
           doc == IF answered /\ named THEN serial ELSE NoDoc
           j == [job[p] EXCEPT !.status = status, !.doc = doc]
<1>1. invoices' = invoices /\ overlaps' = overlaps /\ revived' = revived
  BY DEF CreateDoc, invoiceHistory
<1>2. step' = [step EXCEPT ![p] = "store"] /\ job' = [job EXCEPT ![p] = j]
  BY DEF CreateDoc, Goto
<1> HIDE DEF status, doc
<1>3. j.known = job[p].known
  BY DEF Shape, JobLike, Nobody
<1> HIDE DEF j
<1> QED BY <1>1, <1>2, <1>3, AloofMove DEF Reads

\* An operation that begins knows nothing yet.
LEMMA AloofBegin ==
    ASSUME Shape, NEW p \in Callers, NEW s, NEW j, Begin(p, s, j), s # "post", Reads(s, j),
           j.known = {}, invoices' = invoices, overlaps' = overlaps, revived' = revived
    PROVE  Aloof(p)
BY AloofMove DEF Begin

LEMMA AloofPay ==
    ASSUME Shape, NEW p \in Callers, NEW amount, NEW d, Pay(p, amount, d)
    PROVE  Aloof(p)
<1> DEFINE j == [Nobody EXCEPT !.kind = "manual", !.amount = amount, !.doc = d]
<1>1. /\ Begin(p, "open", j) /\ j.known = {}
      /\ invoices' = invoices /\ overlaps' = overlaps /\ revived' = revived
  BY DEF Pay, Nobody, invoiceHistory
<1> HIDE DEF j
<1> QED BY <1>1, AloofBegin DEF Reads

LEMMA AloofNotify ==
    ASSUME Shape, NEW p \in Callers, NEW i, NEW status \in InvoiceStatus, NEW amount,
           Notify(p, i, status, amount)
    PROVE  Aloof(p)
<1> DEFINE read == Larger(booking.advance, booking.total)
           j == [Nobody EXCEPT
                    !.kind = "hook", !.amount = amount, !.doc = i,
                    !.status = status, !.legacyDoc = booking.doc, !.read = read]
<1>1. /\ Begin(p, "hook", j)
      /\ invoices' = invoices /\ overlaps' = overlaps /\ revived' = revived
  BY DEF Notify, invoiceHistory
<1> HIDE DEF read
<1>2. j.known = {} /\ j.status = status
  BY DEF Nobody
<1> HIDE DEF j
<1> QED BY <1>1, <1>2, AloofBegin DEF Reads

LEMMA AloofReissue ==
    ASSUME Shape, NEW p \in Callers, NEW force, Reissue(p, force)
    PROVE  Aloof(p)
<1> DEFINE j == [Nobody EXCEPT !.force = force]
<1>1. /\ Begin(p, "receipt", j) /\ j.known = {}
      /\ invoices' = invoices /\ overlaps' = overlaps /\ revived' = revived
  BY DEF Reissue, Nobody, invoiceHistory
<1> HIDE DEF j
<1> QED BY <1>1, AloofBegin DEF Reads

LEMMA AloofWriteAdvance ==
    ASSUME Shape, NEW p \in Callers, NEW amount,
           UpdateBooking(p, amount) \/ FinalizeBooking(p, amount)
    PROVE  Aloof(p)
<1> DEFINE j == [Nobody EXCEPT !.chain = TRUE]
<1>1. /\ Begin(p, "receipt", j) /\ j.known = {}
      /\ invoices' = invoices /\ overlaps' = overlaps /\ revived' = revived
  BY DEF UpdateBooking, FinalizeBooking, WriteAdvance, Nobody, invoiceHistory
<1> HIDE DEF j
<1> QED BY <1>1, AloofBegin DEF Reads

LEMMA AskInvoiceBalances ==
    ASSUME LedgerInv, HoldsInv, BalanceInv, NEW p \in Callers, NEW amount, AskInvoice(p, amount)
    PROVE  BalanceInv'
<1> DEFINE j == [Nobody EXCEPT !.kind = "invoice", !.amount = amount, !.read = booking.total]
<1>1. /\ step' = [step EXCEPT ![p] = "balance"] /\ job' = [job EXCEPT ![p] = j]
      /\ invoices' = invoices /\ overlaps' = overlaps /\ revived' = revived
  BY DEF AskInvoice, Begin, invoiceHistory
<1>2. j.known = {} /\ j.read = booking.total
  BY DEF Nobody
<1> HIDE DEF j
<1>3. /\ step'[p] = "balance" /\ job'[p] = j
      /\ \A q \in Callers \ {p} : step'[q] = step[q] /\ job'[q] = job[q]
  BY <1>1 DEF LedgerInv, Shape
<1>4. Stored' = Stored /\ OwedTotal' = OwedTotal
  BY <1>1 DEF Stored, OwedTotal, Owed, InvoicePrices
<1>5. booking.total \in Nat /\ OwedTotal \in Nat
  BY OwedSized DEF HoldsInv, Sized
<1>6. ~revived' => ~revived /\ OwedTotal' <= OwedTotal
  BY <1>1, <1>4, <1>5
<1>7. ~overlaps' => ~overlaps
  BY <1>1
<1>8. job'[p].known \subseteq Stored /\ Reads(step'[p], job'[p]) /\ step'[p] # "post"
  BY <1>2, <1>3, <1>5 DEF Reads
<1>9. \A i \in Invoices : invoices'[i].status \in InvoiceStatus
  BY <1>1 DEF BalanceInv
<1> QED BY <1>3, <1>4, <1>5, <1>6, <1>7, <1>8, <1>9, BalanceOn

\* The check of createHallInvoice bounds what will be owed.
LEMMA CheckedFits ==
    ASSUME HoldsInv, NEW read \in Nat, NEW amount \in Nat, Committed(read) + amount <= Hall
    PROVE  OwedTotal + amount <= Hall
<1> DEFINE Of(s) == {i \in Invoices : invoices[i].status \in {s}}
<1>1. InvoiceTotal({"paid"}) = Total(InvoicePrices, Of("paid"))
  BY InvoiceIsTotal
<1>2. InvoiceTotal({"pending"}) = Total(InvoicePrices, Of("pending"))
  BY InvoiceIsTotal
<1>3. /\ Of("paid") \cup Of("pending") = Owed
      /\ \A i \in Of("paid") : i \notin Of("pending")
  BY DEF Owed
<1>4. /\ IsFiniteSet(Of("paid")) /\ IsFiniteSet(Of("pending"))
      /\ Weights(InvoicePrices, Of("paid")) /\ Weights(InvoicePrices, Of("pending"))
  BY <1>3, OwedSized, FS_Subset DEF Weights
<1> DEFINE paid == Total(InvoicePrices, Of("paid"))
           pending == Total(InvoicePrices, Of("pending"))
<1> HIDE DEF Of
<1>5. OwedTotal = paid + pending
  BY <1>3, <1>4, TotalUnion DEF OwedTotal
<1>6. paid \in Nat /\ pending \in Nat
  BY <1>4, TotalNat
<1>7. Committed(read) = Larger(read, paid) + pending
  BY <1>1, <1>2 DEF Committed
<1> HIDE DEF paid, pending
<1>8. Larger(read, paid) \in Nat /\ Larger(read, paid) >= paid
  BY <1>6 DEF Larger
<1> QED BY <1>5, <1>6, <1>7, <1>8, LedgerAssumption

LEMMA CheckBalanceBalances ==
    ASSUME LedgerInv, HoldsInv, BalanceInv, NEW p \in Callers, CheckBalance(p)
    PROVE  BalanceInv'
<1>1. /\ Shape /\ invoices' = invoices /\ overlaps' = overlaps /\ revived' = revived
  BY DEF LedgerInv, CheckBalance, Uncommitted, invoiceHistory
<1>2. CASE Leave(p)
  BY <1>1, <1>2, AloofLeave, AloofBalances
<1>3. CASE /\ Goto(p, "post") /\ job' = [job EXCEPT ![p].known = Stored]
           /\ Committed(job[p].read) + job[p].amount <= Hall
  <2>1. job[p].read \in Nat /\ job[p].amount \in Nat
    BY DEF CheckBalance, BalanceInv, Reads, HoldsInv, Sized, SizedJob
  <2>2. OwedTotal + job[p].amount <= Hall
    BY <1>3, <2>1, CheckedFits
  <2>3. /\ step'[p] = "post" /\ job'[p].known = Stored /\ job'[p].amount = job[p].amount
        /\ \A q \in Callers \ {p} : step'[q] = step[q] /\ job'[q] = job[q]
    BY <1>1, <1>3 DEF Goto, Shape, JobLike, Nobody
  <2>4. Stored' = Stored /\ OwedTotal' = OwedTotal /\ OwedTotal \in Nat
    BY <1>1, OwedSized DEF Stored, OwedTotal, Owed, InvoicePrices
  <2>5. ~revived' => ~revived /\ OwedTotal' <= OwedTotal
    BY <1>1, <2>4
  <2>6. ~overlaps' => ~overlaps
    BY <1>1
  <2>7. job'[p].known \subseteq Stored /\ Reads(step'[p], job'[p])
    BY <2>3 DEF Reads
  <2>8. step'[p] = "post" => OwedTotal + job'[p].amount <= Hall /\ job'[p].amount \in Nat
    BY <2>1, <2>2, <2>3
  <2>9. \A i \in Invoices : invoices'[i].status \in InvoiceStatus
    BY <1>1 DEF BalanceInv
  <2> QED BY <2>3, <2>4, <2>5, <2>6, <2>7, <2>8, <2>9, BalanceOn
<1> QED BY <1>2, <1>3 DEF CheckBalance

\* A status written over another: the same invoices are stored, and no more is
\* owed unless one is owed that was not.
LEMMA StatusShrinks ==
    ASSUME Shape, HoldsInv, NEW i \in Invoices, NEW status, status # "none",
           invoices[i].status # "none",
           invoices' = [invoices EXCEPT ![i].status = status]
    PROVE  /\ Stored' = Stored /\ OwedTotal' \in Nat
           /\ \/ status \notin {"pending", "paid"}
              \/ invoices[i].status \in {"pending", "paid"}
              => OwedTotal' <= OwedTotal
<1>1. /\ DOMAIN invoices' = Invoices
      /\ invoices'[i].status = status /\ invoices'[i].amount = invoices[i].amount
      /\ \A o \in Invoices \ {i} : invoices'[o] = invoices[o]
  BY DEF Shape, InvoiceLike
<1>2. Stored' = Stored
  BY <1>1 DEF Stored
<1> DEFINE before == Owed
           after == Owed'
<1>3. InvoicePrices' = InvoicePrices
  BY <1>1 DEF InvoicePrices
<1>4. /\ before \subseteq Invoices /\ IsFiniteSet(before) /\ Weights(InvoicePrices, before)
      /\ OwedTotal = Total(InvoicePrices, before) /\ OwedTotal' = Total(InvoicePrices, after)
  BY <1>3, OwedSized DEF OwedTotal
<1>5. IsFiniteSet(after) /\ Weights(InvoicePrices, after)
  <2>1. after \subseteq Invoices /\ \A o \in after : invoices[o].status # "none"
    BY <1>1 DEF Owed
  <2> QED BY <2>1, LedgerAssumption, FS_Subset DEF Weights, InvoicePrices, HoldsInv, Sized
<1>6. status \notin {"pending", "paid"} \/ invoices[i].status \in {"pending", "paid"}
         => after \subseteq before
  BY <1>1 DEF Owed
<1> HIDE DEF before, after
<1>7. OwedTotal' \in Nat
  BY <1>4, <1>5, TotalNat
<1>8. after \subseteq before => OwedTotal' <= OwedTotal
  BY <1>4, TotalPart
<1> QED BY <1>2, <1>6, <1>7, <1>8

\* Any other status that is written makes no more owed, or revives.
LEMMA RecordStatusBalances ==
    ASSUME LedgerInv, HoldsInv, BalanceInv, NEW p \in Callers, RecordStatus(p)
    PROVE  BalanceInv'
<1>1. Shape /\ KindAt(step[p], job[p]) /\ SizedJob(job[p])
  BY AtWork DEF LedgerInv
<1> DEFINE i == job[p].doc
           status == job[p].status
           comes == invoices[i].status \in {"cancelled", "failed"} /\ status = "pending"
<1>2. /\ step[p] = "hook" /\ status # "paid" /\ Leave(p)
      /\ invoices' = [invoices EXCEPT ![i].status = status]
      /\ overlaps' = overlaps /\ revived' = (revived \/ comes)
  BY DEF RecordStatus
<1>3. i \in Invoices /\ status # "none" /\ invoices[i].status # "none"
  BY <1>1, <1>2 DEF KindAt, SizedJob
<1>4. invoices[i].status \in InvoiceStatus /\ status \in InvoiceStatus
  BY <1>2, <1>3 DEF BalanceInv, Reads
<1> HIDE DEF i, status
<1>5. Stored' = Stored /\ OwedTotal' \in Nat
  BY <1>1, <1>2, <1>3, StatusShrinks
<1>6. ~revived' => ~revived /\ OwedTotal' <= OwedTotal
  <2>1. revived' = (revived \/ comes)
    BY <1>2
  <2>2. ~comes => \/ status \notin {"pending", "paid"}
                  \/ invoices[i].status \in {"pending", "paid"}
    BY <1>2, <1>3, <1>4 DEF InvoiceStatus
  <2>3. ~comes => OwedTotal' <= OwedTotal
    BY <1>1, <1>2, <1>3, <2>2, StatusShrinks
  <2> HIDE DEF comes
  <2> QED BY <2>1, <2>3
<1>7. ~overlaps' => ~overlaps
  BY <1>2
<1>8. \A o \in Invoices : invoices'[o].status \in InvoiceStatus
  BY <1>1, <1>2, <1>4 DEF BalanceInv, Shape, InvoiceLike
<1>9. /\ step'[p] \in {"ensure", "idle"} /\ job'[p] = Nobody
      /\ \A q \in Callers \ {p} : step'[q] = step[q] /\ job'[q] = job[q]
  BY <1>1, <1>2 DEF Leave, Shape
<1>10. job'[p].known \subseteq Stored /\ Reads(step'[p], job'[p]) /\ step'[p] # "post"
  BY <1>9 DEF Reads, Nobody
<1> QED BY <1>5, <1>6, <1>7, <1>8, <1>9, <1>10, BalanceOn

\* A webhook that commits turns an invoice paid; it was owed before, or it is
\* revived.
LEMMA CommitBalances ==
    ASSUME LedgerInv, HoldsInv, BalanceInv, NEW p \in Callers, Commit(p)
    PROVE  BalanceInv'
<1>1. Shape /\ KindAt(step[p], job[p]) /\ SizedJob(job[p]) /\ step[p] = "commit"
  BY AtWork DEF LedgerInv, Commit
<1>2. /\ step'[p] \in {"ensure", "idle"} /\ job'[p] = Nobody
      /\ \A q \in Callers \ {p} :
            step'[q] = step[q] /\ job'[q] = [job[q] EXCEPT !.fresh = FALSE]
  BY <1>1 DEF Commit, Shape
<1>3. \A q \in Callers \ {p} :
         /\ step'[q] = step[q] /\ job'[q].known = job[q].known
         /\ job'[q].amount = job[q].amount /\ job'[q].read = job[q].read
         /\ job'[q].status = job[q].status
  BY <1>1, <1>2 DEF Shape, JobLike, Nobody
<1>4. job'[p].known \subseteq Stored /\ Reads(step'[p], job'[p]) /\ step'[p] # "post"
  BY <1>2 DEF Reads, Nobody
<1> DEFINE comes == job[p].kind = "hook" /\ invoices[job[p].doc].status \in {"cancelled", "failed"}
<1>5. overlaps' = overlaps /\ revived' = (revived \/ comes)
  BY DEF Commit
<1>6. CASE job[p].kind # "hook"
  <2>1. invoices' = invoices
    BY <1>6 DEF Commit
  <2>2. Stored' = Stored /\ OwedTotal' = OwedTotal /\ OwedTotal \in Nat
    BY <2>1, OwedSized DEF Stored, OwedTotal, Owed, InvoicePrices
  <2>3. \A i \in Invoices : invoices'[i].status \in InvoiceStatus
    BY <2>1 DEF BalanceInv
  <2>4. ~revived' => ~revived /\ OwedTotal' <= OwedTotal
    <3>1. ~revived' => ~revived
      BY <1>5
    <3>2. OwedTotal' <= OwedTotal
      BY <2>2
    <3> QED BY <3>1, <3>2
  <2>5. ~overlaps' => ~overlaps
    BY <1>5
  <2> QED BY <1>3, <1>4, <2>2, <2>3, <2>4, <2>5, BalanceOn
<1>7. CASE job[p].kind = "hook"
  <2> DEFINE i == job[p].doc
  <2>1. /\ i \in Invoices /\ invoices[i].status # "none"
        /\ invoices' = [invoices EXCEPT ![i].status = "paid"]
    BY <1>1, <1>7 DEF Commit, SizedJob
  <2>2. invoices[i].status \in InvoiceStatus
    BY <2>1 DEF BalanceInv
  <2>3. ~comes => invoices[i].status \in {"pending", "paid"}
    BY <1>7, <2>1, <2>2 DEF InvoiceStatus
  <2> HIDE DEF comes, i
  <2>4. Stored' = Stored /\ OwedTotal' \in Nat
    BY <1>1, <2>1, StatusShrinks
  <2>5. ~comes => OwedTotal' <= OwedTotal
    BY <1>1, <2>1, <2>3, StatusShrinks
  <2>6. ~revived' => ~revived /\ OwedTotal' <= OwedTotal
    BY <1>5, <2>5
  <2>7. ~overlaps' => ~overlaps
    BY <1>5
  <2>8. \A o \in Invoices : invoices'[o].status \in InvoiceStatus
    BY <1>1, <2>1 DEF BalanceInv, Shape, InvoiceLike, InvoiceStatus
  <2> QED BY <1>3, <1>4, <2>4, <2>6, <2>7, <2>8, BalanceOn
<1> QED BY <1>6, <1>7

\* The new invoice fits in if nothing was stored since the check, and no other
\* caller's check is current any more.
LEMMA StoreInvoiceBalances ==
    ASSUME LedgerInv, HoldsInv, BalanceInv, NEW p \in Callers, NEW i \in Invoices,
           NEW status \in {"pending", "paid"}, StoreInvoice(p, i, status)
    PROVE  BalanceInv'
<1> DEFINE price == job[p].amount
           overlap == Stored # job[p].known
<1>1. /\ Shape /\ step[p] = "post" /\ invoices[i].status = "none" /\ Leave(p)
      /\ invoices' = [invoices EXCEPT ![i] = [status |-> status, amount |-> price,
                                              first |-> status]]
      /\ overlaps' = (overlaps \/ overlap) /\ revived' = revived
  BY DEF LedgerInv, StoreInvoice
<1>2. price \in Nat /\ OwedTotal \in Nat /\ Hall \in Nat
  BY OwedSized, LedgerAssumption DEF HoldsInv, Sized, SizedJob
<1>3. /\ invoices'[i].status = status /\ invoices'[i].amount = price
      /\ \A o \in Invoices \ {i} : invoices'[o] = invoices[o]
  BY <1>1 DEF Shape
<1>4. Stored' = Stored \cup {i} /\ i \notin Stored
  BY <1>1, <1>3 DEF Stored
<1>5. /\ step'[p] \in {"ensure", "idle"} /\ job'[p] = Nobody
      /\ \A q \in Callers \ {p} : step'[q] = step[q] /\ job'[q] = job[q]
  BY <1>1 DEF Leave, Shape
<1>6. \A q \in Callers : job'[q].known \subseteq Stored /\ job'[q].known # Stored'
  <2>1. \A q \in Callers : job'[q].known \subseteq Stored
    BY <1>5 DEF BalanceInv, Nobody
  <2> QED BY <1>4, <2>1
<1>7. \A q \in Callers : Reads(step'[q], job'[q])
  BY <1>5 DEF BalanceInv, Reads
<1>8. \A o \in Invoices : invoices'[o].status \in InvoiceStatus
  BY <1>3 DEF BalanceInv, InvoiceStatus
<1>9. OwedTotal' = OwedTotal + price
  <2> DEFINE before == Owed
             after == Owed'
             old == InvoicePrices
             new == InvoicePrices'
  <2>1. after = before \cup {i} /\ i \notin before
    BY <1>1, <1>3 DEF Owed
  <2>2. new[i] = price /\ \A o \in before : new[o] = old[o]
    BY <1>3, <2>1 DEF InvoicePrices, Owed
  <2>3. IsFiniteSet(before) /\ Weights(old, before) /\ OwedTotal = Total(old, before)
    BY OwedSized DEF OwedTotal
  <2>4. OwedTotal' = Total(new, after)
    BY DEF OwedTotal
  <2> HIDE DEF before, after, old, new, price
  <2>5. IsFiniteSet(after) /\ Weights(new, after) /\ after \ {i} = before /\ i \in after
    BY <1>2, <2>1, <2>2, <2>3, FS_AddElement DEF Weights
  <2>6. Total(new, after) = new[i] + Total(new, before)
    BY <2>5, TotalWithout
  <2>7. Total(new, before) = Total(old, before)
    BY <2>2, <2>3, TotalSame
  <2> QED BY <1>2, <2>2, <2>3, <2>4, <2>6, <2>7
<1>10. ASSUME ~overlaps', ~revived'
       PROVE  OwedTotal' <= Hall
  <2>1. ~revived /\ ~overlap
    <3> HIDE DEF overlap
    <3> QED BY <1>1, <1>10
  <2>2. OwedTotal + price <= Hall
    BY <1>1, <2>1 DEF BalanceInv
  <2> QED BY <1>9, <2>2
<1> HIDE DEF price, overlap
<1>11. \A q \in Callers : job'[q].known \subseteq Stored'
  BY <1>4, <1>6
<1> QED BY <1>6, <1>7, <1>8, <1>10, <1>11 DEF BalanceInv, Reads

LEMMA BalanceStep ==
    LedgerInv /\ HoldsInv /\ BalanceInv /\ [PaymentNext]_paymentVars => BalanceInv'
<1> SUFFICES ASSUME LedgerInv, HoldsInv, BalanceInv, [PaymentNext]_paymentVars PROVE BalanceInv'
  OBVIOUS
<1>0. Shape
  BY DEF LedgerInv
<1>1. CASE UNCHANGED paymentVars
  <2>1. UNCHANGED <<invoices, step, job, overlaps, revived>>
    BY <1>1 DEF paymentVars, invoiceHistory
  <2> QED BY <2>1 DEF BalanceInv, Reads, Stored, OwedTotal, Owed, InvoicePrices
<1>2. ASSUME NEW p \in Callers, Transaction(p)
      PROVE  BalanceInv'
  BY <1>0, <1>2, AloofOf, AloofBalances, CommitBalances DEF Transaction
<1>3. ASSUME NEW p \in Callers,
             \/ RecordStatus(p) \/ CheckReceipt(p) \/ SkipReceipt(p) \/ StoreReceipt(p)
             \/ EnsureAdvance(p) \/ CheckBalance(p) \/ PostFails(p)
      PROVE  BalanceInv'
  BY <1>0, <1>3, AloofOf, AloofBalances, RecordStatusBalances, CheckBalanceBalances
<1>4. ASSUME NEW p \in Callers, NEW amount \in mix.amounts,
             \/ UpdateBooking(p, amount) \/ FinalizeBooking(p, amount) \/ AskInvoice(p, amount)
             \/ \E d \in Invoices \cup {NoDoc} : Pay(p, amount, d)
      PROVE  BalanceInv'
  BY <1>0, <1>4, AloofWriteAdvance, AloofPay, AloofBalances, AskInvoiceBalances
<1>5. ASSUME NEW p \in Callers, NEW force \in BOOLEAN, Reissue(p, force)
      PROVE  BalanceInv'
  BY <1>0, <1>5, AloofReissue, AloofBalances
<1>6. ASSUME NEW p \in Callers, NEW issued \in BOOLEAN, NEW answered \in BOOLEAN,
             NEW named \in BOOLEAN, CreateDoc(p, issued, answered, named)
      PROVE  BalanceInv'
  BY <1>0, <1>6, AloofCreateDoc, AloofBalances
<1>7. ASSUME NEW p \in Callers, NEW i \in Invoices,
             \/ \E status \in InvoiceStatus \ {"none"}, amount \in mix.amounts \cup {invoices[i].amount} :
                    Notify(p, i, status, amount)
             \/ \E status \in {"pending", "paid"} : StoreInvoice(p, i, status)
      PROVE  BalanceInv'
  BY <1>0, <1>7, AloofNotify, AloofBalances, StoreInvoiceBalances
<1> QED BY <1>1, <1>2, <1>3, <1>4, <1>5, <1>6, <1>7 DEF PaymentNext

\* Invoices that are paid or wait for payment stay within the hall amount
\* (createHallInvoice with assertInvoiceAmountWithinBalance): for every number of
\* requests, webhooks and invoices, every hall amount and every order, unless two
\* requests overlapped or a cancelled invoice came back.
THEOREM InvoicesStayWithinHall == PaymentSpec => []NeverOverInvoiced
<1>1. PaymentSpec => []BalanceInv
  BY LedgerInvariant, HoldsInvariant, BalanceInitial, BalanceStep, PTL DEF PaymentSpec
<1> QED BY <1>1, HoldsInvariant, BalanceImplies, PTL

(***************************************************************************)
(* The ledger is a book of payments.                                       *)
(***************************************************************************)

\* What the receipt of an advance may name: a document of EasyCount's, or none.
ReceiptPapers == Nat \cup {NoDoc}

Unrepeated(rows) == \A r, o \in rows : r.doc = o.doc /\ r.doc # NoDoc => r = o

\* Only the advance is written a second time.
Restates(rows) ==
    \A o \in rows : \A r \in ledger : o.n = r.n => r.source = "ADVANCE" /\ o.source = "ADVANCE"

AdvanceAt(n) == \E r \in ledger : r.n = n /\ r.source = "ADVANCE"

BookAt(s, j) ==
    /\ j.rows \subseteq Rows /\ Unrepeated(j.rows) /\ Restates(j.rows)
    /\ j.legacyDoc \in ReceiptPapers
    /\ j.kind \in {"none", "advance"} => j.doc \in ReceiptPapers
    /\ j.kind \in {"manual", "hook"} => j.doc \in Invoices \cup {NoDoc}
    /\ s = "hookInsert" => \A o \in j.rows : o.doc \in ReceiptPapers
    /\ s = "write" /\ j.target # 0 => AdvanceAt(j.target)

BookInv ==
    /\ ledger \subseteq Rows /\ Unrepeated(ledger)
    /\ booking.doc \in ReceiptPapers
    /\ \A p \in Callers : BookAt(step[p], job[p])

LEMMA NobodysBook ==
    ASSUME NEW s, s # "write"
    PROVE  /\ BookAt(s, Nobody) /\ Nobody.rows = {} /\ Nobody.doc = NoDoc
           /\ Nobody.legacyDoc = NoDoc /\ Nobody.kind = "none" /\ Nobody.target = 0
BY DEF BookAt, Nobody, Unrepeated, Restates, ReceiptPapers

LEMMA BookInitial == PaymentInit => BookInv
<1> SUFFICES ASSUME PaymentInit PROVE BookInv
  OBVIOUS
<1>1. /\ ledger = {} /\ booking.doc = NoDoc /\ step = [p \in Callers |-> "idle"]
      /\ job = [p \in Callers |-> Nobody]
  BY DEF PaymentInit
<1> QED BY <1>1, NobodysBook DEF BookInv, Unrepeated, ReceiptPapers

\* A caller moves; the ledger stays.
LEMMA BookMove ==
    ASSUME LedgerInv, BookInv, UNCHANGED ledger, booking'.doc \in ReceiptPapers, NEW p \in Callers,
           NEW s, NEW j, BookAt(s, j),
           step' = [step EXCEPT ![p] = s], job' = [job EXCEPT ![p] = j]
    PROVE  BookInv'
<1>1. /\ step'[p] = s /\ job'[p] = j
      /\ \A q \in Callers \ {p} : step'[q] = step[q] /\ job'[q] = job[q]
  BY DEF LedgerInv, Shape
<1>2. \A q \in Callers : BookAt(step'[q], job'[q])
  BY <1>1 DEF BookInv
<1>3. \A q \in Callers : BookAt(step[q], job[q])'
  BY <1>2 DEF BookAt, Restates, AdvanceAt, Unrepeated
<1>4. ledger' \subseteq Rows /\ Unrepeated(ledger')
  BY DEF BookInv
<1> QED BY <1>3, <1>4 DEF BookInv, Unrepeated

\* A caller leaves; the ledger stays.
LEMMA BookLeave ==
    ASSUME LedgerInv, BookInv, UNCHANGED ledger, booking'.doc \in ReceiptPapers, NEW p \in Callers,
           Leave(p)
    PROVE  BookInv'
<1> DEFINE s == IF job[p].chain THEN "ensure" ELSE "idle"
<1>1. step' = [step EXCEPT ![p] = s] /\ job' = [job EXCEPT ![p] = Nobody] /\ s # "write"
  BY DEF Leave
<1> HIDE DEF s
<1> QED BY <1>1, NobodysBook, BookMove

\* What a step inside a transaction, or one that begins, leaves alone.
LEMMA BookRest ==
    ASSUME BookInv, Uncommitted
    PROVE  UNCHANGED ledger /\ booking'.doc \in ReceiptPapers
BY DEF BookInv, Uncommitted

\* A caller begins.
LEMMA BookBegin ==
    ASSUME LedgerInv, BookInv, UNCHANGED ledger, booking'.doc \in ReceiptPapers, NEW p \in Callers,
           NEW s, NEW j, BookAt(s, j), Begin(p, s, j)
    PROVE  BookInv'
BY BookMove DEF Begin

LEMMA PayBooks ==
    ASSUME LedgerInv, BookInv, NEW p \in Callers, NEW amount,
           NEW d \in Invoices \cup {NoDoc}, Pay(p, amount, d)
    PROVE  BookInv'
<1> DEFINE j == [Nobody EXCEPT !.kind = "manual", !.amount = amount, !.doc = d]
<1>1. Begin(p, "open", j) /\ UNCHANGED <<booking, ledger>>
  BY DEF Pay
<1>2. j.rows = {} /\ j.kind = "manual" /\ j.doc = d /\ j.legacyDoc = NoDoc
  BY DEF Nobody
<1> HIDE DEF j
<1>3. BookAt("open", j)
  BY <1>2 DEF BookAt, Unrepeated, Restates, ReceiptPapers
<1> QED BY <1>1, <1>3, BookBegin DEF BookInv

LEMMA NotifyBooks ==
    ASSUME LedgerInv, BookInv, NEW p \in Callers, NEW i \in Invoices, NEW status,
           NEW amount, Notify(p, i, status, amount)
    PROVE  BookInv'
<1> DEFINE j == [Nobody EXCEPT
                    !.kind = "hook", !.amount = amount, !.doc = i,
                    !.status = status, !.legacyDoc = booking.doc,
                    !.read = Larger(booking.advance, booking.total)]
<1>1. Begin(p, "hook", j) /\ UNCHANGED <<booking, ledger>>
  BY DEF Notify
<1>2. j.rows = {} /\ j.kind = "hook" /\ j.doc = i /\ j.legacyDoc = booking.doc
  BY DEF Nobody
<1> HIDE DEF j
<1>3. BookAt("hook", j)
  BY <1>2 DEF BookAt, Unrepeated, Restates, BookInv
<1> QED BY <1>1, <1>3, BookBegin DEF BookInv

LEMMA ReissueBooks ==
    ASSUME LedgerInv, BookInv, NEW p \in Callers, NEW force, Reissue(p, force)
    PROVE  BookInv'
<1> DEFINE j == [Nobody EXCEPT !.force = force]
<1>1. Begin(p, "receipt", j) /\ UNCHANGED <<booking, ledger>>
  BY DEF Reissue
<1>2. j.rows = {} /\ j.kind = "none" /\ j.doc = NoDoc /\ j.legacyDoc = NoDoc
  BY DEF Nobody
<1> HIDE DEF j
<1>3. BookAt("receipt", j)
  BY <1>2 DEF BookAt, Unrepeated, Restates, ReceiptPapers
<1> QED BY <1>1, <1>3, BookBegin DEF BookInv

LEMMA AskInvoiceBooks ==
    ASSUME LedgerInv, BookInv, NEW p \in Callers, NEW amount, AskInvoice(p, amount)
    PROVE  BookInv'
<1> DEFINE j == [Nobody EXCEPT !.kind = "invoice", !.amount = amount, !.read = booking.total]
<1>1. Begin(p, "balance", j) /\ UNCHANGED <<booking, ledger>>
  BY DEF AskInvoice
<1>2. j.rows = {} /\ j.kind = "invoice" /\ j.doc = NoDoc /\ j.legacyDoc = NoDoc
  BY DEF Nobody
<1> HIDE DEF j
<1>3. BookAt("balance", j)
  BY <1>2 DEF BookAt, Unrepeated, Restates, ReceiptPapers
<1> QED BY <1>1, <1>3, BookBegin DEF BookInv

LEMMA WriteAdvanceBooks ==
    ASSUME LedgerInv, BookInv, NEW p \in Callers, NEW amount,
           UpdateBooking(p, amount) \/ FinalizeBooking(p, amount)
    PROVE  BookInv'
<1> DEFINE j == [Nobody EXCEPT !.chain = TRUE]
<1>1. Begin(p, "receipt", j) /\ UNCHANGED ledger
  BY DEF UpdateBooking, FinalizeBooking, WriteAdvance
<1>2. booking'.doc = booking.doc
  BY DEF LedgerInv, Shape, BookingLike, UpdateBooking, FinalizeBooking, WriteAdvance
<1>3. j.rows = {} /\ j.kind = "none" /\ j.doc = NoDoc /\ j.legacyDoc = NoDoc
  BY DEF Nobody
<1> HIDE DEF j
<1>4. BookAt("receipt", j)
  BY <1>3 DEF BookAt, Unrepeated, Restates, ReceiptPapers
<1> QED BY <1>1, <1>2, <1>4, BookBegin DEF BookInv

\* Rows with numbers not given out yet restate nothing.
LEMMA FreshRestates ==
    ASSUME LedgerInv, NEW rows, \A r \in rows : r.n \in Nat /\ r.n >= serial
    PROVE  Restates(rows)
BY DEF LedgerInv, Shape, Numbered, Restates

LEMMA SeedBooks ==
    ASSUME LedgerInv, NEW advance \in Nat, NEW total \in Nat, NEW doc \in ReceiptPapers
    PROVE  /\ Seed(advance, total, doc) \subseteq Rows
           /\ \A r \in Seed(advance, total, doc) : r.n = serial /\ r.doc = doc
           /\ \A r, o \in Seed(advance, total, doc) : r = o
<1>1. serial \in Nat /\ Larger(advance, total) \in Nat
  BY DEF LedgerInv, Shape, Larger
<1> DEFINE row == [n |-> serial, source |-> "ADVANCE", amount |-> Larger(advance, total), doc |-> doc]
<1>2. row \in Rows /\ row.n = serial /\ row.doc = doc
  BY <1>1 DEF Rows, Sources, Docs, ReceiptPapers
<1>3. Seed(advance, total, doc) \subseteq {row}
  BY DEF Seed
<1> HIDE DEF row
<1> QED BY <1>2, <1>3

LEMMA PapersAside == \A d \in Invoices : d \notin ReceiptPapers
BY LedgerAssumption DEF ReceiptPapers

\* A job that takes rows.
LEMMA RowsBook ==
    ASSUME NEW k, JobLike(k), NEW rows
    PROVE  LET j == [k EXCEPT !.rows = rows] IN
           /\ j.rows = rows /\ j.legacyDoc = k.legacyDoc /\ j.doc = k.doc /\ j.kind = k.kind
           /\ j.target = k.target
BY DEF JobLike, Nobody

LEMMA OpenPaymentBooks ==
    ASSUME LedgerInv, HoldsInv, BookInv, NEW p \in Callers, OpenPayment(p)
    PROVE  BookInv'
<1> DEFINE seed == Seed(booking.advance, booking.total, booking.doc)
           new == [n |-> serial + 1, source |-> "MANUAL",
                   amount |-> job[p].amount, doc |-> job[p].doc]
           rows == seed \cup {new}
           j == [job[p] EXCEPT !.rows = rows]
<1>1. step[p] = "open" /\ Uncommitted
  BY DEF OpenPayment
<1>2. UNCHANGED ledger /\ booking'.doc \in ReceiptPapers
  BY <1>1, BookRest
<1>3. /\ Shape /\ JobLike(job[p]) /\ SizedJob(job[p]) /\ KindAt(step[p], job[p])
      /\ serial \in Nat /\ booking.advance \in Nat /\ booking.total \in Nat
      /\ BookAt(step[p], job[p]) /\ booking.doc \in ReceiptPapers
  BY AtWork DEF LedgerInv, BookInv
<1>4. CASE Leave(p) /\ UNCHANGED serial
  BY <1>2, <1>4, BookLeave
<1>5. CASE job' = [job EXCEPT ![p].rows = rows] /\ Goto(p, "sum")
  <2>1. /\ job[p].kind = "manual" /\ job[p].doc \in Invoices \cup {NoDoc} /\ job[p].amount \in Nat
        /\ job[p].legacyDoc \in ReceiptPapers
    BY <1>1, <1>3 DEF KindAt, BookAt, SizedJob
  <2>2. new \in Rows /\ new.n = serial + 1 /\ new.doc = job[p].doc
    BY <1>3, <2>1 DEF Rows, Sources, Docs
  <2> HIDE DEF new
  <2>3. /\ seed \subseteq Rows /\ \A r \in seed : r.n = serial /\ r.doc = booking.doc
        /\ \A r, o \in seed : r = o
    BY <1>3, SeedBooks
  <2> HIDE DEF seed
  <2>4. rows \subseteq Rows /\ \A r \in rows : r.n \in Nat /\ r.n >= serial
    BY <1>3, <2>2, <2>3
  <2>5. Restates(rows)
    BY <2>4, FreshRestates
  <2>6. Unrepeated(rows)
    BY <1>3, <2>1, <2>2, <2>3, PapersAside DEF Unrepeated
  <2> HIDE DEF rows
  <2>7. /\ j.rows = rows /\ j.legacyDoc = job[p].legacyDoc /\ j.doc = job[p].doc
        /\ j.kind = job[p].kind
    BY <1>3, RowsBook
  <2>8. step' = [step EXCEPT ![p] = "sum"] /\ job' = [job EXCEPT ![p] = j]
    BY <1>5 DEF Goto
  <2> HIDE DEF j
  <2>9. BookAt("sum", j)
    BY <2>1, <2>4, <2>5, <2>6, <2>7 DEF BookAt
  <2> QED BY <1>2, <2>8, <2>9, BookMove
<1> QED BY <1>4, <1>5 DEF OpenPayment

LEMMA OpenHookBooks ==
    ASSUME LedgerInv, HoldsInv, BookInv, NEW p \in Callers, OpenHook(p)
    PROVE  BookInv'
<1> DEFINE rows == Seed(job[p].read, 0, job[p].legacyDoc)
           s == IF NewOnLedger(job[p].doc) THEN "hookInsert" ELSE "sum"
           j == [job[p] EXCEPT !.rows = rows]
<1>1. step[p] = "hook" /\ Uncommitted
  BY DEF OpenHook
<1>2. UNCHANGED ledger /\ booking'.doc \in ReceiptPapers
  BY <1>1, BookRest
<1>3. /\ Shape /\ JobLike(job[p]) /\ SizedJob(job[p]) /\ KindAt(step[p], job[p])
      /\ serial \in Nat /\ BookAt(step[p], job[p])
  BY AtWork DEF LedgerInv, BookInv
<1>4. CASE Leave(p) /\ UNCHANGED serial
  BY <1>2, <1>4, BookLeave
<1>5. CASE job' = [job EXCEPT ![p].rows = rows] /\ Goto(p, s)
  <2>1. /\ job[p].kind = "hook" /\ job[p].doc \in Invoices \cup {NoDoc} /\ job[p].read \in Nat
        /\ job[p].legacyDoc \in ReceiptPapers
    BY <1>1, <1>3 DEF KindAt, BookAt, SizedJob
  <2>2. /\ rows \subseteq Rows /\ \A r \in rows : r.n = serial /\ r.doc = job[p].legacyDoc
        /\ \A r, o \in rows : r = o
    BY <2>1, SeedBooks
  <2> HIDE DEF rows
  <2>3. Unrepeated(rows) /\ Restates(rows)
    BY <1>3, <2>2, FreshRestates DEF Unrepeated
  <2>4. /\ j.rows = rows /\ j.legacyDoc = job[p].legacyDoc /\ j.doc = job[p].doc
        /\ j.kind = job[p].kind
    BY <1>3, RowsBook
  <2>5. step' = [step EXCEPT ![p] = s] /\ job' = [job EXCEPT ![p] = j]
    BY <1>5 DEF Goto
  <2>6. s # "write"
    OBVIOUS
  <2> HIDE DEF j, s
  <2>7. BookAt(s, j)
    BY <2>1, <2>2, <2>3, <2>4, <2>6 DEF BookAt
  <2> QED BY <1>2, <2>5, <2>7, BookMove
<1> QED BY <1>4, <1>5 DEF OpenHook

LEMMA InsertBooks ==
    ASSUME LedgerInv, HoldsInv, BookInv, NEW p \in Callers, InsertInvoicePayment(p)
    PROVE  BookInv'
<1> DEFINE new == [n |-> serial, source |-> "EASYCOUNT_INVOICE",
                   amount |-> job[p].amount, doc |-> job[p].doc]
           rows == job[p].rows \cup {new}
           j == [job[p] EXCEPT !.rows = rows]
<1>1. step[p] = "hookInsert" /\ Uncommitted
  BY DEF InsertInvoicePayment
<1>2. UNCHANGED ledger /\ booking'.doc \in ReceiptPapers
  BY <1>1, BookRest
<1>3. /\ Shape /\ JobLike(job[p]) /\ SizedJob(job[p]) /\ KindAt(step[p], job[p])
      /\ serial \in Nat /\ BookAt(step[p], job[p])
  BY AtWork DEF LedgerInv, BookInv
<1>4. CASE Leave(p) /\ UNCHANGED serial
  BY <1>2, <1>4, BookLeave
<1>5. CASE job' = [job EXCEPT ![p].rows = @ \cup {new}] /\ Goto(p, "sum")
  <2>1. /\ job[p].kind = "hook" /\ job[p].doc \in Invoices /\ job[p].amount \in Nat
        /\ job[p].legacyDoc \in ReceiptPapers
        /\ job[p].rows \subseteq Rows /\ Unrepeated(job[p].rows) /\ Restates(job[p].rows)
        /\ \A o \in job[p].rows : o.doc \in ReceiptPapers
    BY <1>1, <1>3 DEF KindAt, BookAt, SizedJob
  <2>2. new \in Rows /\ new.n = serial /\ new.doc = job[p].doc
    BY <1>3, <2>1 DEF Rows, Sources, Docs
  <2> HIDE DEF new
  <2>3. Restates({new})
    <3>1. \A r \in {new} : r.n \in Nat /\ r.n >= serial
      BY <1>3, <2>2
    <3> QED BY <3>1, FreshRestates
  <2>4. rows \subseteq Rows /\ Restates(rows)
    BY <2>1, <2>2, <2>3 DEF Restates
  <2>5. Unrepeated(rows)
    BY <2>1, <2>2, PapersAside DEF Unrepeated
  <2>6. job' = [job EXCEPT ![p].rows = rows]
    BY <1>3, <1>5 DEF Shape, JobLike, Nobody
  <2> HIDE DEF rows
  <2>7. /\ j.rows = rows /\ j.legacyDoc = job[p].legacyDoc /\ j.doc = job[p].doc
        /\ j.kind = job[p].kind
    BY <1>3, RowsBook
  <2>8. step' = [step EXCEPT ![p] = "sum"] /\ job' = [job EXCEPT ![p] = j]
    BY <1>5, <2>6 DEF Goto
  <2> HIDE DEF j
  <2>9. BookAt("sum", j)
    BY <2>1, <2>4, <2>5, <2>7 DEF BookAt
  <2> QED BY <1>2, <2>8, <2>9, BookMove
<1> QED BY <1>4, <1>5 DEF InsertInvoicePayment

LEMMA SumUpBooks ==
    ASSUME LedgerInv, HoldsInv, BookInv, NEW p \in Callers, SumUp(p)
    PROVE  BookInv'
<1> DEFINE total == SumLedgerPayments(p)
           advance == AdvanceOf(p, total)
           j == [job[p] EXCEPT !.total = total, !.advance = advance, !.fresh = TRUE]
<1>1. UNCHANGED ledger /\ booking'.doc \in ReceiptPapers
  BY BookRest DEF SumUp
<1>2. step' = [step EXCEPT ![p] = "commit"] /\ job' = [job EXCEPT ![p] = j]
  BY DEF SumUp, Goto
<1>3. JobLike(job[p]) /\ BookAt("sum", job[p])
  BY DEF LedgerInv, Shape, BookInv, SumUp
<1> HIDE DEF total, advance
<1>4. /\ j.rows = job[p].rows /\ j.legacyDoc = job[p].legacyDoc /\ j.doc = job[p].doc
      /\ j.kind = job[p].kind
  BY <1>3 DEF JobLike, Nobody
<1> HIDE DEF j
<1>5. BookAt("commit", j)
  BY <1>3, <1>4 DEF BookAt
<1> QED BY <1>1, <1>2, <1>5, BookMove

\* The advance that is looked for is one on the ledger.
LEMMA FindAdvanceBooks ==
    ASSUME LedgerInv, HoldsInv, BookInv, NEW p \in Callers, FindAdvance(p)
    PROVE  BookInv'
<1> DEFINE target == IF Advances(ledger) = {} THEN 0 ELSE First(Advances(ledger)).n
           j == [job[p] EXCEPT !.target = target]
<1>1. UNCHANGED ledger /\ booking'.doc \in ReceiptPapers
  BY BookRest DEF FindAdvance
<1>2. JobLike(job[p]) /\ BookAt("find", job[p])
  BY DEF LedgerInv, Shape, BookInv, FindAdvance
<1>3. CASE Leave(p)
  BY <1>1, <1>3, BookLeave
<1>4. CASE Goto(p, "write") /\ job' = [job EXCEPT ![p].target = target]
  <2>1. target # 0 => AdvanceAt(target)
    <3>1. SUFFICES ASSUME Advances(ledger) # {} PROVE AdvanceAt(First(Advances(ledger)).n)
      BY DEF AdvanceAt
    <3>2. \A r \in Advances(ledger) : r.n \in Nat
      BY DEF Advances, LedgerInv, Shape, Numbered
    <3>3. First(Advances(ledger)) \in Advances(ledger)
      BY <3>1, <3>2, FirstIsOne
    <3> QED BY <3>3 DEF Advances, AdvanceAt
  <2>2. step' = [step EXCEPT ![p] = "write"] /\ job' = [job EXCEPT ![p] = j]
    BY <1>4 DEF Goto
  <2> HIDE DEF target
  <2>3. /\ j.rows = job[p].rows /\ j.legacyDoc = job[p].legacyDoc /\ j.doc = job[p].doc
        /\ j.kind = job[p].kind /\ j.target = target
    BY <1>2 DEF JobLike, Nobody
  <2> HIDE DEF j
  <2>4. BookAt("write", j)
    BY <1>2, <2>1, <2>3 DEF BookAt
  <2> QED BY <1>1, <2>2, <2>4, BookMove
<1> QED BY <1>3, <1>4 DEF FindAdvance

\* The row to write is a new advance or restates one.
LEMMA AdvanceRowBooks ==
    ASSUME LedgerInv, HoldsInv, BookInv, NEW p \in Callers, step[p] = "write"
    PROVE  AdvanceRow(p) \in Rows /\ Restates({AdvanceRow(p)})
<1>1. /\ Shape /\ SizedJob(job[p]) /\ KindAt(step[p], job[p]) /\ serial \in Nat
      /\ BookAt(step[p], job[p]) /\ ledger \subseteq Rows /\ Numbered(ledger, serial)
  BY AtWork DEF LedgerInv, Shape, BookInv
<1>2. job[p].amount \in Nat /\ job[p].doc \in ReceiptPapers
  BY <1>1 DEF SizedJob, KindAt, BookAt
<1>3. CASE job[p].target = 0
  <2> DEFINE row == [n |-> serial, source |-> "ADVANCE", amount |-> job[p].amount,
                     doc |-> job[p].doc]
  <2>1. AdvanceRow(p) = row
    BY <1>3 DEF AdvanceRow
  <2>2. row \in Rows /\ row.n = serial
    BY <1>1, <1>2 DEF Rows, Sources, Docs, ReceiptPapers
  <2> HIDE DEF row
  <2>3. \A r \in {row} : r.n \in Nat /\ r.n >= serial
    BY <1>1, <2>2
  <2> QED BY <2>1, <2>2, <2>3, FreshRestates
<1>4. CASE job[p].target # 0
  <2> DEFINE old == CHOOSE r \in ledger : r.n = job[p].target
             doc == IF old.doc = NoDoc THEN job[p].doc ELSE old.doc
             row == [old EXCEPT !.amount = job[p].amount, !.doc = doc]
  <2>1. PICK advance \in ledger : advance.n = job[p].target /\ advance.source = "ADVANCE"
    BY <1>1, <1>4 DEF BookAt, AdvanceAt
  <2>2. old \in ledger /\ old.n = job[p].target
    BY <2>1
  <2>3. AdvanceRow(p) = row
    BY <1>4 DEF AdvanceRow
  <2> HIDE DEF old
  <2>4. old.source = "ADVANCE" /\ old \in Rows
    BY <1>1, <2>1, <2>2 DEF Numbered
  <2>5. doc \in Docs
    BY <1>2, <2>4 DEF Docs, ReceiptPapers, Rows
  <2> HIDE DEF doc
  <2>6. row \in Rows /\ row.n = old.n /\ row.source = "ADVANCE"
    BY <1>2, <2>4, <2>5 DEF Rows
  <2> HIDE DEF row
  <2>7. Restates({row})
    BY <1>1, <2>2, <2>4, <2>6 DEF Restates, Numbered
  <2> QED BY <2>3, <2>6, <2>7
<1> QED BY <1>3, <1>4

LEMMA WriteAdvanceRowBooks ==
    ASSUME LedgerInv, HoldsInv, BookInv, NEW p \in Callers, WriteAdvanceRow(p)
    PROVE  BookInv'
<1> DEFINE row == AdvanceRow(p)
           j == [job[p] EXCEPT !.rows = {row}]
<1>1. step[p] = "write" /\ Uncommitted
  BY DEF WriteAdvanceRow
<1>2. UNCHANGED ledger /\ booking'.doc \in ReceiptPapers
  BY <1>1, BookRest
<1>3. JobLike(job[p]) /\ BookAt("write", job[p])
  BY <1>1 DEF LedgerInv, Shape, BookInv
<1>4. row \in Rows /\ Restates({row})
  BY <1>1, AdvanceRowBooks
<1>5. CASE Leave(p)
  BY <1>2, <1>5, BookLeave
<1>6. CASE job' = [job EXCEPT ![p].rows = {row}] /\ Goto(p, "sum")
  <2>1. step' = [step EXCEPT ![p] = "sum"] /\ job' = [job EXCEPT ![p] = j]
    BY <1>6 DEF Goto
  <2> HIDE DEF row
  <2>2. /\ j.rows = {row} /\ j.legacyDoc = job[p].legacyDoc /\ j.doc = job[p].doc
        /\ j.kind = job[p].kind
    BY <1>3, RowsBook
  <2> HIDE DEF j
  <2>3. BookAt("sum", j)
    BY <1>3, <1>4, <2>2 DEF BookAt, Unrepeated
  <2> QED BY <1>2, <2>1, <2>3, BookMove
<1> QED BY <1>5, <1>6 DEF WriteAdvanceRow

\* A step that keeps what a caller has in hand, or leaves.
LEMMA StrideBooks ==
    ASSUME LedgerInv, BookInv, UNCHANGED ledger, booking'.doc \in ReceiptPapers, NEW p \in Callers,
           NEW s, s \notin {"hookInsert", "write"}, NEW j,
           j.rows = job[p].rows, j.legacyDoc = job[p].legacyDoc,
           j.kind \in {"none", "advance"} => j.doc \in ReceiptPapers, j.kind \notin {"manual", "hook"},
           step' = [step EXCEPT ![p] = s], job' = [job EXCEPT ![p] = j]
    PROVE  BookInv'
<1>1. BookAt(step[p], job[p])
  BY DEF BookInv
<1>2. BookAt(s, j)
  BY <1>1 DEF BookAt
<1> QED BY <1>2, BookMove

LEMMA CheckReceiptBooks ==
    ASSUME LedgerInv, HoldsInv, BookInv, NEW p \in Callers, CheckReceipt(p)
    PROVE  BookInv'
<1> DEFINE j == [job[p] EXCEPT !.amount = booking.advance, !.kind = "advance",
                               !.read = IF OthersIssue(p) THEN 0 ELSE receipts]
<1>1. UNCHANGED ledger /\ booking'.doc \in ReceiptPapers
  BY BookRest DEF CheckReceipt
<1>2. JobLike(job[p]) /\ BookAt("receipt", job[p]) /\ KindAt("receipt", job[p])
  BY DEF LedgerInv, Shape, BookInv, HoldsInv, Kinds, CheckReceipt
<1>3. CASE Leave(p)
  BY <1>1, <1>3, BookLeave
<1>4. CASE Goto(p, "createDoc") /\ job' = [job EXCEPT ![p] = j]
  <2>1. /\ j.rows = job[p].rows /\ j.legacyDoc = job[p].legacyDoc /\ j.kind = "advance"
        /\ j.doc = job[p].doc
    BY <1>2 DEF JobLike, Nobody
  <2>2. step' = [step EXCEPT ![p] = "createDoc"] /\ job' = [job EXCEPT ![p] = j]
    BY <1>4 DEF Goto
  <2> HIDE DEF j
  <2>3. j.doc \in ReceiptPapers
    BY <1>2, <2>1 DEF BookAt, KindAt
  <2> QED BY <1>1, <2>1, <2>2, <2>3, StrideBooks
<1> QED BY <1>3, <1>4 DEF CheckReceipt

LEMMA SkipReceiptBooks ==
    ASSUME LedgerInv, HoldsInv, BookInv, NEW p \in Callers, SkipReceipt(p)
    PROVE  BookInv'
<1>1. UNCHANGED ledger /\ booking'.doc \in ReceiptPapers
  BY BookRest DEF SkipReceipt
<1>2. BookAt("createDoc", job[p]) /\ KindAt("createDoc", job[p])
  BY DEF BookInv, HoldsInv, Kinds, SkipReceipt
<1>3. step' = [step EXCEPT ![p] = "find"] /\ job' = [job EXCEPT ![p] = job[p]]
  BY DEF SkipReceipt, Goto, LedgerInv, Shape
<1> QED BY <1>1, <1>2, <1>3, StrideBooks DEF BookAt, KindAt

\* EasyCount's document has a number of its own.
LEMMA CreateDocBooks ==
    ASSUME LedgerInv, HoldsInv, BookInv, NEW p \in Callers, NEW issued, NEW answered, NEW named,
           CreateDoc(p, issued, answered, named)
    PROVE  BookInv'
<1> DEFINE status == IF ~answered THEN "FAILED"
                     ELSE IF mix.mode = "simulation" THEN "SIMULATED" ELSE "ISSUED"
           doc == IF answered /\ named THEN serial ELSE NoDoc
           j == [job[p] EXCEPT !.status = status, !.doc = doc]
<1>1. UNCHANGED <<booking, ledger>> /\ step[p] = "createDoc" /\ booking'.doc \in ReceiptPapers
  BY DEF CreateDoc, BookInv
<1>2. JobLike(job[p]) /\ KindAt("createDoc", job[p]) /\ serial \in Nat
  BY <1>1 DEF LedgerInv, Shape, HoldsInv, Kinds
<1>3. step' = [step EXCEPT ![p] = "store"] /\ job' = [job EXCEPT ![p] = j]
  BY DEF CreateDoc, Goto
<1>4. doc \in ReceiptPapers
  BY <1>2 DEF ReceiptPapers
<1> HIDE DEF status, doc
<1>5. /\ j.rows = job[p].rows /\ j.legacyDoc = job[p].legacyDoc /\ j.kind = job[p].kind
      /\ j.doc = doc
  BY <1>2 DEF JobLike, Nobody
<1>6. j.kind = "advance"
  BY <1>2, <1>5 DEF KindAt
<1> HIDE DEF j
<1> QED BY <1>1, <1>3, <1>4, <1>5, <1>6, StrideBooks

LEMMA StoreReceiptBooks ==
    ASSUME LedgerInv, HoldsInv, BookInv, NEW p \in Callers, StoreReceipt(p)
    PROVE  BookInv'
<1>1. /\ UNCHANGED ledger /\ BookAt("store", job[p]) /\ KindAt("store", job[p])
      /\ booking' = [booking EXCEPT !.receipt = job[p].status, !.doc = job[p].doc]
  BY DEF BookInv, HoldsInv, Kinds, StoreReceipt
<1>2. booking'.doc \in ReceiptPapers
  BY <1>1 DEF LedgerInv, Shape, BookingLike, BookAt, KindAt
<1>3. CASE Leave(p)
  BY <1>1, <1>2, <1>3, BookLeave
<1>4. CASE Goto(p, "find") /\ UNCHANGED job
  <2>1. step' = [step EXCEPT ![p] = "find"] /\ job' = [job EXCEPT ![p] = job[p]]
    BY <1>4 DEF Goto, LedgerInv, Shape
  <2> QED BY <1>1, <1>2, <2>1, StrideBooks DEF BookAt, KindAt
<1> QED BY <1>3, <1>4 DEF StoreReceipt

LEMMA EnsureAdvanceBooks ==
    ASSUME LedgerInv, HoldsInv, BookInv, NEW p \in Callers, EnsureAdvance(p)
    PROVE  BookInv'
<1> DEFINE j == [Nobody EXCEPT !.kind = "advance", !.doc = booking.doc,
                               !.amount = booking.advance]
<1>1. UNCHANGED ledger /\ booking'.doc \in ReceiptPapers /\ booking.doc \in ReceiptPapers
  BY BookRest DEF EnsureAdvance, BookInv
<1>2. CASE Leave(p)
  BY <1>1, <1>2, BookLeave
<1>3. CASE Goto(p, "find") /\ job' = [job EXCEPT ![p] = j]
  <2>1. j.rows = {} /\ j.legacyDoc = NoDoc /\ j.kind = "advance" /\ j.doc = booking.doc
    BY DEF Nobody
  <2>2. step' = [step EXCEPT ![p] = "find"] /\ job' = [job EXCEPT ![p] = j]
    BY <1>3 DEF Goto
  <2> HIDE DEF j
  <2>3. BookAt("find", j)
    BY <1>1, <2>1 DEF BookAt, Unrepeated, Restates, ReceiptPapers
  <2> QED BY <1>1, <2>2, <2>3, BookMove
<1> QED BY <1>2, <1>3 DEF EnsureAdvance

LEMMA CheckBalanceBooks ==
    ASSUME LedgerInv, HoldsInv, BookInv, NEW p \in Callers, CheckBalance(p)
    PROVE  BookInv'
<1> DEFINE j == [job[p] EXCEPT !.known = Stored]
<1>1. UNCHANGED ledger /\ booking'.doc \in ReceiptPapers
  BY BookRest DEF CheckBalance
<1>2. JobLike(job[p]) /\ KindAt("balance", job[p])
  BY DEF LedgerInv, Shape, HoldsInv, Kinds, CheckBalance
<1>3. CASE Leave(p)
  BY <1>1, <1>3, BookLeave
<1>4. CASE Goto(p, "post") /\ job' = [job EXCEPT ![p].known = Stored]
  <2>1. j.rows = job[p].rows /\ j.legacyDoc = job[p].legacyDoc /\ j.kind = job[p].kind
    BY <1>2 DEF JobLike, Nobody
  <2>2. step' = [step EXCEPT ![p] = "post"] /\ job' = [job EXCEPT ![p] = j]
    BY <1>4 DEF Goto
  <2>3. j.kind = "invoice"
    BY <1>2, <2>1 DEF KindAt
  <2> HIDE DEF j
  <2> QED BY <1>1, <2>1, <2>2, <2>3, StrideBooks
<1> QED BY <1>3, <1>4 DEF CheckBalance

\* Steps that leave without touching the ledger or the booking.
LEMMA LeavingBooks ==
    ASSUME LedgerInv, BookInv, NEW p \in Callers,
           \/ PostFails(p) \/ RecordStatus(p)
           \/ \E i \in Invoices, status \in {"pending", "paid"} : StoreInvoice(p, i, status)
    PROVE  BookInv'
<1>1. UNCHANGED <<booking, ledger>> /\ Leave(p)
  BY DEF PostFails, RecordStatus, StoreInvoice, Uncommitted
<1> QED BY <1>1, BookLeave DEF BookInv

\* The ledger after a commit: the rows in hand, and those they do not restate.
LEMMA CommitWrites ==
    ASSUME LedgerInv, HoldsInv, BookInv, NEW p \in Callers, Commit(p)
    PROVE  /\ ledger' \subseteq Rows /\ Unrepeated(ledger')
           /\ \A r \in ledger : \E o \in ledger' :
                 o.n = r.n /\ (o = r \/ (o \in job[p].rows /\ r.source = "ADVANCE"
                                                          /\ o.source = "ADVANCE"
                                                          /\ r.doc \in {NoDoc, o.doc}))
<1>1. /\ ledger' = View(p) /\ BookAt(step[p], job[p]) /\ ledger \subseteq Rows
      /\ Unrepeated(ledger) /\ DocsFree(p, job[p].rows) /\ KeepsDoc(job[p].rows)
  BY DEF Commit, BookInv, HoldsInv, DocsApart, LedgerInv, Faithful
<1>2. /\ job[p].rows \subseteq Rows /\ Unrepeated(job[p].rows) /\ Restates(job[p].rows)
  BY <1>1 DEF BookAt
<1>3. \A r \in ledger' : r \in job[p].rows \/ (r \in ledger /\ \A o \in job[p].rows : o.n # r.n)
  BY <1>1 DEF View
<1>4. Unrepeated(ledger')
  BY <1>1, <1>2, <1>3 DEF Unrepeated, DocsFree
<1>5. \A r \in ledger : \E o \in ledger' :
         o.n = r.n /\ (o = r \/ (o \in job[p].rows /\ r.source = "ADVANCE"
                                                  /\ o.source = "ADVANCE"
                                                  /\ r.doc \in {NoDoc, o.doc}))
  <2>1. SUFFICES ASSUME NEW r \in ledger
                 PROVE  \E o \in ledger' :
                          o.n = r.n /\ (o = r \/ (o \in job[p].rows /\ r.source = "ADVANCE"
                                                  /\ o.source = "ADVANCE"
                                                  /\ r.doc \in {NoDoc, o.doc}))
    OBVIOUS
  <2>2. CASE \A o \in job[p].rows : o.n # r.n
    BY <1>1, <2>2 DEF View
  <2>3. ASSUME NEW o \in job[p].rows, o.n = r.n
        PROVE  /\ o \in ledger' /\ r.source = "ADVANCE" /\ o.source = "ADVANCE"
               /\ r.doc \in {NoDoc, o.doc}
    BY <1>1, <1>2, <2>3 DEF View, Restates, KeepsDoc
  <2> QED BY <2>2, <2>3
<1> QED BY <1>1, <1>2, <1>3, <1>4, <1>5

LEMMA CommitBooks ==
    ASSUME LedgerInv, HoldsInv, BookInv, NEW p \in Callers, Commit(p)
    PROVE  BookInv'
<1>1. /\ ledger' \subseteq Rows /\ Unrepeated(ledger')
      /\ \A r \in ledger : \E o \in ledger' :
            o.n = r.n /\ (o = r \/ (o.source = "ADVANCE" /\ r.source = "ADVANCE"))
  BY CommitWrites
<1>2. booking'.doc \in ReceiptPapers
  BY DEF Commit, BookInv, LedgerInv, Shape, BookingLike
<1>3. /\ step' = [step EXCEPT ![p] = IF job[p].chain THEN "ensure" ELSE "idle"]
      /\ job' = [q \in Callers |-> IF q = p THEN Nobody ELSE [job[q] EXCEPT !.fresh = FALSE]]
      /\ ledger' = View(p)
  BY DEF Commit
<1>4. /\ DOMAIN step = Callers /\ OwnRows /\ \A q \in Callers : JobLike(job[q])
      /\ \A q \in Callers : BookAt(step[q], job[q])
  BY DEF LedgerInv, Shape, BookInv
<1>5. ASSUME NEW q \in Callers
      PROVE  BookAt(step[q], job[q])'
  <2>1. CASE q = p
    <3>1. job'[q] = Nobody /\ step'[q] # "write"
      BY <1>3, <1>4, <2>1
    <3> QED BY <3>1, NobodysBook DEF BookAt, Restates, Unrepeated
  <2>2. CASE q # p
    <3>1. step'[q] = step[q] /\ job'[q] = [job[q] EXCEPT !.fresh = FALSE]
      BY <1>3, <1>4, <2>2
    <3>2. /\ job'[q].rows = job[q].rows /\ job'[q].legacyDoc = job[q].legacyDoc
          /\ job'[q].doc = job[q].doc /\ job'[q].kind = job[q].kind
          /\ job'[q].target = job[q].target
      BY <1>4, <3>1 DEF JobLike, Nobody
    <3>3. BookAt(step[q], job[q])
      BY <1>4
    <3>4. Restates(job[q].rows)'
      <4>1. SUFFICES ASSUME NEW o \in job[q].rows, NEW r \in ledger', o.n = r.n
                     PROVE  r.source = "ADVANCE" /\ o.source = "ADVANCE"
        BY <3>2 DEF Restates
      <4>2. r \notin job[p].rows
        BY <1>4, <2>2, <4>1 DEF OwnRows
      <4>3. r \in ledger
        BY <1>3, <4>2 DEF View
      <4> QED BY <3>3, <4>1, <4>3 DEF BookAt, Restates
    <3>5. AdvanceAt(job[q].target) => AdvanceAt(job[q].target)'
      BY <1>1, <3>2 DEF AdvanceAt
    <3> QED BY <3>1, <3>2, <3>3, <3>4, <3>5 DEF BookAt, Unrepeated, AdvanceAt
  <2> QED BY <2>1, <2>2
<1> QED BY <1>1, <1>2, <1>5 DEF BookInv, Unrepeated

LEMMA BookStep == LedgerInv /\ HoldsInv /\ BookInv /\ [PaymentNext]_paymentVars => BookInv'
<1> SUFFICES ASSUME LedgerInv, HoldsInv, BookInv, [PaymentNext]_paymentVars PROVE BookInv'
  OBVIOUS
<1>1. CASE UNCHANGED paymentVars
  BY <1>1 DEF paymentVars, BookInv, BookAt, Unrepeated, Restates, AdvanceAt
<1>2. ASSUME NEW p \in Callers, Transaction(p)
      PROVE  BookInv'
  BY <1>2, OpenPaymentBooks, OpenHookBooks, InsertBooks, FindAdvanceBooks, WriteAdvanceRowBooks,
     SumUpBooks, CommitBooks DEF Transaction
<1>3. ASSUME NEW p \in Callers,
             \/ RecordStatus(p) \/ CheckReceipt(p) \/ SkipReceipt(p) \/ StoreReceipt(p)
             \/ EnsureAdvance(p) \/ CheckBalance(p) \/ PostFails(p)
      PROVE  BookInv'
  BY <1>3, LeavingBooks, CheckReceiptBooks, SkipReceiptBooks, StoreReceiptBooks,
     EnsureAdvanceBooks, CheckBalanceBooks
<1>4. ASSUME NEW p \in Callers, NEW amount \in mix.amounts,
             \/ UpdateBooking(p, amount) \/ FinalizeBooking(p, amount) \/ AskInvoice(p, amount)
             \/ \E d \in Invoices \cup {NoDoc} : Pay(p, amount, d)
      PROVE  BookInv'
  BY <1>4, WriteAdvanceBooks, AskInvoiceBooks, PayBooks
<1>5. ASSUME NEW p \in Callers, NEW force \in BOOLEAN, Reissue(p, force)
      PROVE  BookInv'
  BY <1>5, ReissueBooks
<1>6. ASSUME NEW p \in Callers, NEW issued \in BOOLEAN, NEW answered \in BOOLEAN,
             NEW named \in BOOLEAN, CreateDoc(p, issued, answered, named)
      PROVE  BookInv'
  BY <1>6, CreateDocBooks
<1>7. ASSUME NEW p \in Callers, NEW i \in Invoices,
             \/ \E status \in InvoiceStatus \ {"none"}, amount \in mix.amounts \cup {invoices[i].amount} :
                    Notify(p, i, status, amount)
             \/ \E status \in {"pending", "paid"} : StoreInvoice(p, i, status)
      PROVE  BookInv'
  BY <1>7, NotifyBooks, LeavingBooks
<1> QED BY <1>1, <1>2, <1>3, <1>4, <1>5, <1>6, <1>7 DEF PaymentNext

\* Every step but a commit leaves the ledger alone.
LEMMA LedgerMoves ==
    ASSUME [PaymentNext]_paymentVars
    PROVE  ledger' = ledger \/ \E p \in Callers : Commit(p)
<1>1. CASE UNCHANGED paymentVars
  BY <1>1 DEF paymentVars
<1>2. ASSUME NEW p \in Callers, Transaction(p), ~Commit(p)
      PROVE  ledger' = ledger
  <2>1. Uncommitted
    BY <1>2 DEF Transaction, OpenPayment, OpenHook, InsertInvoicePayment, FindAdvance,
       WriteAdvanceRow, SumUp
  <2> QED BY <2>1 DEF Uncommitted
<1>3. ASSUME NEW p \in Callers,
             \/ RecordStatus(p) \/ CheckReceipt(p) \/ SkipReceipt(p) \/ StoreReceipt(p)
             \/ EnsureAdvance(p) \/ CheckBalance(p) \/ PostFails(p)
      PROVE  ledger' = ledger
  BY <1>3 DEF RecordStatus, CheckReceipt, SkipReceipt, StoreReceipt, EnsureAdvance, CheckBalance,
     PostFails, Uncommitted
<1>4. ASSUME NEW p \in Callers, NEW amount \in mix.amounts,
             \/ UpdateBooking(p, amount) \/ FinalizeBooking(p, amount) \/ AskInvoice(p, amount)
             \/ \E d \in Invoices \cup {NoDoc} : Pay(p, amount, d)
      PROVE  ledger' = ledger
  BY <1>4 DEF UpdateBooking, FinalizeBooking, WriteAdvance, AskInvoice, Pay
<1>5. ASSUME NEW p \in Callers, NEW force \in BOOLEAN, Reissue(p, force)
      PROVE  ledger' = ledger
  BY <1>5 DEF Reissue
<1>6. ASSUME NEW p \in Callers, NEW issued \in BOOLEAN, NEW answered \in BOOLEAN,
             NEW named \in BOOLEAN, CreateDoc(p, issued, answered, named)
      PROVE  ledger' = ledger
  BY <1>6 DEF CreateDoc
<1>7. ASSUME NEW p \in Callers, NEW i \in Invoices,
             \/ \E status \in InvoiceStatus \ {"none"}, amount \in mix.amounts \cup {invoices[i].amount} :
                    Notify(p, i, status, amount)
             \/ \E status \in {"pending", "paid"} : StoreInvoice(p, i, status)
      PROVE  ledger' = ledger
  BY <1>7 DEF Notify, StoreInvoice
<1> QED BY <1>1, <1>2, <1>3, <1>4, <1>5, <1>6, <1>7 DEF PaymentNext

\* Every step of the payments is one of the book.
LEMMA BookMoves ==
    ASSUME LedgerInv, HoldsInv, BookInv, LedgerInv', BookInv', [PaymentNext]_paymentVars
    PROVE  [Book!Next]_(Book!vars)
<1>1. /\ ledger' \subseteq Book!Entry /\ Book!Sound(ledger')
      /\ SettledInvoices' \subseteq {e.doc : e \in ledger'}
  <2>1. ledger' \subseteq Rows /\ Unrepeated(ledger)' /\ Numbered(ledger', serial')
        /\ PaidInvoiceOnLedger'
    BY DEF LedgerInv, Shape, BookInv
  <2>2. ledger' \subseteq Book!Entry
    BY <2>1 DEF Rows, Sources, Docs, Book!Entry
  <2>3. Book!Sound(ledger')
    BY <2>1 DEF Unrepeated, Numbered, Book!Sound
  <2>4. SettledInvoices' \subseteq {e.doc : e \in ledger'}
    BY <2>1 DEF SettledInvoices, PaidInvoiceOnLedger, OnLedger
  <2> QED BY <2>2, <2>3, <2>4
<1>2. \A old \in ledger : \E new \in ledger' : Book!Continues(old, new)
  <2>1. CASE ledger' = ledger
    BY <2>1 DEF Book!Continues
  <2>2. ASSUME NEW p \in Callers, Commit(p)
        PROVE  \A old \in ledger : \E new \in ledger' : Book!Continues(old, new)
    <3>1. \A r \in ledger : \E o \in ledger' :
             o.n = r.n /\ (o = r \/ (/\ r.source = "ADVANCE" /\ o.source = "ADVANCE"
                                     /\ r.doc \in {NoDoc, o.doc}))
      BY <2>2, CommitWrites
    <3> QED BY <3>1 DEF Book!Continues
  <2> QED BY <2>1, <2>2, LedgerMoves
<1> QED BY <1>1, <1>2 DEF Book!Next

LEMMA BookBegins == PaymentInit => Book!Init
BY DEF PaymentInit, Book!Init, SettledInvoices

\* The payment transactions implement the book of PaymentBook, for every number
\* of payments, webhooks and rewritten advances at once: no commit loses a row
\* another one wrote, no document stands on two rows or is taken away from its
\* own, only the advance is restated, and an invoice reported paid has its row
\* (bookingPayment.service.ts, easyCount/syncPayment.ts).
THEOREM ImplementsBook == PaymentSpec => IsBook
<1>1. PaymentSpec => []BookInv
  BY LedgerInvariant, HoldsInvariant, BookInitial, BookStep, PTL DEF PaymentSpec
<1>2. LedgerInv /\ HoldsInv /\ BookInv /\ LedgerInv' /\ BookInv' /\ [PaymentNext]_paymentVars
        => [Book!Next]_(Book!vars)
  BY BookMoves
<1> QED BY <1>1, <1>2, LedgerInvariant, HoldsInvariant, BookBegins, PTL
        DEF PaymentSpec, IsBook, Book!Spec

(***************************************************************************)
(* Types.                                                                  *)
(***************************************************************************)

InvoiceRows == [status : InvoiceStatus, amount : Nat, first : InvoiceStatus]

\* Where callers are and what they have in hand; a receipt that is about to be
\* recorded has a status of receipts.
CallersTyped ==
    /\ step \in [Callers -> Steps]
    /\ job \in [Callers -> Jobs]
    /\ \A p \in Callers : step[p] = "store" => job[p].status \in ReceiptStatus

\* The booking, its invoices and the history of both.
RecordsTyped ==
    /\ calls \in Nat
    /\ booking \in BookingRows
    /\ invoices \in [Invoices -> InvoiceRows]
    /\ {astray, crossed, mirrored, edited, overlaps, revived} \subseteq BOOLEAN

\* What the types of a step rest on.
PaymentFacts == LedgerInv /\ HoldsInv /\ BookInv /\ BalanceInv /\ ReceiptInv

\* A caller moves, with a job of its type.
LEMMA CallerMoves ==
    ASSUME CallersTyped, NEW p \in Callers, NEW s \in Steps, NEW j \in Jobs,
           s = "store" => j.status \in ReceiptStatus,
           step' = [step EXCEPT ![p] = s], job' = [job EXCEPT ![p] = j]
    PROVE  CallersTyped'
<1>1. step' \in [Callers -> Steps] /\ job' \in [Callers -> Jobs]
  BY DEF CallersTyped
<1>2. \A q \in Callers : step'[q] = "store" => job'[q].status \in ReceiptStatus
  <2> SUFFICES ASSUME NEW q \in Callers, step'[q] = "store"
               PROVE  job'[q].status \in ReceiptStatus
    OBVIOUS
  <2>1. CASE q = p
    BY <2>1 DEF CallersTyped
  <2>2. CASE q # p
    <3>1. step'[q] = step[q] /\ job'[q] = job[q]
      BY <2>2 DEF CallersTyped
    <3> QED BY <3>1 DEF CallersTyped
  <2> QED BY <2>1, <2>2
<1> QED BY <1>1, <1>2 DEF CallersTyped

\* A caller at rest is of its type.
LEMMA NobodyTyped == Nobody \in Jobs /\ Nobody.chain = FALSE
BY DEF Nobody, Jobs, Docs, Rows, InvoiceStatus, ReceiptStatus

\* A caller that leaves.
LEMMA CallerLeaves ==
    ASSUME CallersTyped, NEW p \in Callers, Leave(p)
    PROVE  CallersTyped'
<1> DEFINE s == IF job[p].chain THEN "ensure" ELSE "idle"
<1>1. step' = [step EXCEPT ![p] = s] /\ job' = [job EXCEPT ![p] = Nobody]
  BY DEF Leave
<1>2. s \in Steps /\ s # "store"
  BY DEF Steps
<1> HIDE DEF s
<1> QED BY <1>1, <1>2, NobodyTyped, CallerMoves

\* A caller that goes on with the job it has.
LEMMA CallerGoes ==
    ASSUME CallersTyped, NEW p \in Callers, NEW s \in Steps, s # "store", Goto(p, s),
           UNCHANGED job
    PROVE  CallersTyped'
<1>1. job' = [job EXCEPT ![p] = job[p]] /\ job[p] \in Jobs
  BY DEF CallersTyped
<1> QED BY <1>1, CallerMoves DEF Goto

\* A caller that begins.
LEMMA CallerBegins ==
    ASSUME CallersTyped, NEW p \in Callers, NEW s \in Steps, s # "store", NEW j \in Jobs,
           Begin(p, s, j)
    PROVE  CallersTyped'
BY CallerMoves DEF Begin

\* What a caller is known to be from its type.
LEMMA JobFields ==
    ASSUME NEW j \in Jobs
    PROVE  /\ j.amount \in Nat /\ j.doc \in Docs /\ j.read \in Nat /\ j.legacyDoc \in Docs
           /\ j.target \in Nat /\ j.rows \subseteq Rows /\ j.total \in Nat /\ j.advance \in Nat
           /\ j.status \in InvoiceStatus \cup ReceiptStatus /\ j.chain \in BOOLEAN
           /\ j.force \in BOOLEAN /\ j.fresh \in BOOLEAN /\ j.known \subseteq Invoices
BY DEF Jobs

\* The requests and webhooks that begin.
LEMMA BeginningsTyped ==
    ASSUME PaymentFacts, CallersTyped, RecordsTyped, NEW p \in Callers,
           \/ \E amount \in mix.amounts :
                 \/ UpdateBooking(p, amount) \/ FinalizeBooking(p, amount)
                 \/ AskInvoice(p, amount) \/ \E d \in Invoices \cup {NoDoc} : Pay(p, amount, d)
           \/ \E force \in BOOLEAN : Reissue(p, force)
           \/ \E i \in Invoices :
                 \E status \in InvoiceStatus \ {"none"}, amount \in mix.amounts \cup {invoices[i].amount} :
                    Notify(p, i, status, amount)
    PROVE  CallersTyped' /\ RecordsTyped'
<1>1. /\ mix.amounts \subseteq Nat /\ calls \in Nat /\ booking \in BookingRows
      /\ invoices \in [Invoices -> InvoiceRows]
  BY LedgerAssumption DEF PaymentFacts, HoldsInv, Sized, RecordsTyped
<1>2. ASSUME NEW s, NEW j, Begin(p, s, j)
      PROVE  calls' \in Nat
  BY <1>1, <1>2 DEF Begin
<1>3. ASSUME NEW amount \in mix.amounts, UpdateBooking(p, amount) \/ FinalizeBooking(p, amount)
      PROVE  CallersTyped' /\ RecordsTyped'
  <2> DEFINE j == [Nobody EXCEPT !.chain = TRUE]
  <2>1. Begin(p, "receipt", j) /\ UNCHANGED <<invoices, crossed, mirrored, overlaps, revived>>
    BY <1>3 DEF UpdateBooking, FinalizeBooking, WriteAdvance, invoiceHistory
  <2>2. \E total \in Nat :
           booking' = [booking EXCEPT !.option = FALSE, !.advance = amount, !.total = total]
    BY <1>1, <1>3 DEF UpdateBooking, FinalizeBooking, WriteAdvance, BookingRows
  <2>3. booking' \in BookingRows
    BY <1>1, <2>2 DEF BookingRows
  <2>4. astray' \in BOOLEAN /\ edited' \in BOOLEAN
    <3>1. edited' = (edited \/ ~booking.option) /\ (astray' = TRUE \/ astray' = astray)
      BY <1>3 DEF UpdateBooking, FinalizeBooking, WriteAdvance
    <3> QED BY <3>1 DEF RecordsTyped
  <2>5. j \in Jobs
    BY NobodyTyped DEF Jobs
  <2> HIDE DEF j
  <2>6. CallersTyped'
    BY <2>1, <2>5, CallerBegins DEF Steps
  <2>7. calls' \in Nat
    BY <1>2, <2>1
  <2> QED BY <2>1, <2>3, <2>4, <2>6, <2>7 DEF RecordsTyped
<1>4. ASSUME NEW amount \in mix.amounts, AskInvoice(p, amount)
      PROVE  CallersTyped' /\ RecordsTyped'
  <2> DEFINE j == [Nobody EXCEPT !.kind = "invoice", !.amount = amount, !.read = booking.total]
  <2>1. /\ Begin(p, "balance", j)
        /\ UNCHANGED <<booking, invoices, astray, crossed, mirrored, edited, overlaps, revived>>
    BY <1>4 DEF AskInvoice, invoiceHistory, moneyHistory
  <2>2. j \in Jobs
    BY <1>1, NobodyTyped DEF Jobs, BookingRows
  <2> HIDE DEF j
  <2>3. CallersTyped' /\ calls' \in Nat
    BY <1>2, <2>1, <2>2, CallerBegins DEF Steps
  <2> QED BY <2>1, <2>3 DEF RecordsTyped
<1>5. ASSUME NEW amount \in mix.amounts, NEW d \in Invoices \cup {NoDoc}, Pay(p, amount, d)
      PROVE  CallersTyped' /\ RecordsTyped'
  <2> DEFINE j == [Nobody EXCEPT !.kind = "manual", !.amount = amount, !.doc = d]
  <2>1. /\ Begin(p, "open", j)
        /\ UNCHANGED <<booking, invoices, astray, crossed, mirrored, edited, overlaps, revived>>
    BY <1>5 DEF Pay, invoiceHistory, moneyHistory
  <2>2. j \in Jobs
    BY <1>1, NobodyTyped DEF Jobs, Docs
  <2> HIDE DEF j
  <2>3. CallersTyped' /\ calls' \in Nat
    BY <1>2, <2>1, <2>2, CallerBegins DEF Steps
  <2> QED BY <2>1, <2>3 DEF RecordsTyped
<1>6. ASSUME NEW force \in BOOLEAN, Reissue(p, force)
      PROVE  CallersTyped' /\ RecordsTyped'
  <2> DEFINE j == [Nobody EXCEPT !.force = force]
  <2>1. /\ Begin(p, "receipt", j)
        /\ UNCHANGED <<booking, invoices, astray, crossed, mirrored, overlaps, revived>>
        /\ edited' = (edited \/ (ledger = {} /\ booking.total > booking.advance))
    BY <1>6 DEF Reissue, invoiceHistory
  <2>2. j \in Jobs
    BY NobodyTyped DEF Jobs
  <2> HIDE DEF j
  <2>3. CallersTyped' /\ calls' \in Nat
    BY <1>2, <2>1, <2>2, CallerBegins DEF Steps
  <2>4. edited' \in BOOLEAN
    BY <2>1 DEF RecordsTyped
  <2> QED BY <2>1, <2>3, <2>4 DEF RecordsTyped
<1>7. ASSUME NEW i \in Invoices, NEW status \in InvoiceStatus \ {"none"},
             NEW amount \in mix.amounts \cup {invoices[i].amount}, Notify(p, i, status, amount)
      PROVE  CallersTyped' /\ RecordsTyped'
  <2> DEFINE j == [Nobody EXCEPT !.kind = "hook", !.amount = amount, !.doc = i,
                                 !.status = status, !.legacyDoc = booking.doc,
                                 !.read = Larger(booking.advance, booking.total)]
  <2>1. /\ Begin(p, "hook", j)
        /\ UNCHANGED <<booking, invoices, astray, crossed, mirrored, edited, overlaps, revived>>
    BY <1>7 DEF Notify, invoiceHistory, moneyHistory
  <2>2. /\ amount \in Nat /\ booking.doc \in Docs
        /\ Larger(booking.advance, booking.total) \in Nat
    BY <1>1 DEF InvoiceRows, BookingRows, Larger
  <2>3. j \in Jobs
    BY <2>2, NobodyTyped DEF Jobs, Docs
  <2> HIDE DEF j
  <2>4. CallersTyped' /\ calls' \in Nat
    BY <1>2, <2>1, <2>3, CallerBegins DEF Steps
  <2> QED BY <2>1, <2>4 DEF RecordsTyped
<1> QED BY <1>3, <1>4, <1>5, <1>6, <1>7

\* Steps that leave the booking and its invoices alone.
LEMMA RecordsStay ==
    ASSUME RecordsTyped, Uncommitted
    PROVE  RecordsTyped'
BY DEF RecordsTyped, Uncommitted, moneyHistory, invoiceHistory

\* The statements of a transaction before its commit.
LEMMA StatementsTyped ==
    ASSUME PaymentFacts, CallersTyped, NEW p \in Callers,
           \/ OpenPayment(p) \/ OpenHook(p) \/ InsertInvoicePayment(p)
           \/ FindAdvance(p) \/ WriteAdvanceRow(p) \/ SumUp(p)
    PROVE  CallersTyped'
<1>1. /\ LedgerInv /\ HoldsInv /\ BookInv /\ job[p] \in Jobs /\ serial \in Nat
      /\ booking.advance \in Nat /\ booking.total \in Nat /\ booking.doc \in ReceiptPapers
      /\ ledger \subseteq Rows /\ BookAt(step[p], job[p])
  BY DEF PaymentFacts, CallersTyped, LedgerInv, Shape, HoldsInv, Sized, BookInv
<1>2. ASSUME NEW rows \in SUBSET Rows, job' = [job EXCEPT ![p].rows = rows],
             NEW s \in {"sum", "hookInsert"}, Goto(p, s)
      PROVE  CallersTyped'
  <2> DEFINE j == [job[p] EXCEPT !.rows = rows]
  <2>1. j \in Jobs
    BY <1>1 DEF Jobs
  <2>2. job' = [job EXCEPT ![p] = j]
    BY <1>2 DEF CallersTyped
  <2> HIDE DEF j
  <2>3. s \in Steps /\ s # "store"
    BY DEF Steps
  <2> QED BY <1>2, <2>1, <2>2, <2>3, CallerMoves DEF Goto
<1>3. CASE OpenPayment(p)
  <2> DEFINE new == [n |-> serial + 1, source |-> "MANUAL",
                     amount |-> job[p].amount, doc |-> job[p].doc]
             seed == Seed(booking.advance, booking.total, booking.doc)
  <2>1. new \in Rows
    BY <1>1, JobFields DEF Rows, Sources
  <2>2. seed \subseteq Rows
    BY <1>1, SeedBooks
  <2>3. Leave(p) \/ (job' = [job EXCEPT ![p].rows = seed \cup {new}] /\ Goto(p, "sum"))
    BY <1>3 DEF OpenPayment
  <2> HIDE DEF new, seed
  <2> QED BY <1>2, <2>1, <2>2, <2>3, CallerLeaves
<1>4. CASE OpenHook(p)
  <2> DEFINE seed == Seed(job[p].read, 0, job[p].legacyDoc)
             s == IF NewOnLedger(job[p].doc) THEN "hookInsert" ELSE "sum"
  <2>1. job[p].read \in Nat /\ job[p].legacyDoc \in ReceiptPapers
    BY <1>1, JobFields DEF BookAt
  <2>2. seed \subseteq Rows
    BY <1>1, <2>1, SeedBooks
  <2>3. Leave(p) \/ (job' = [job EXCEPT ![p].rows = seed] /\ Goto(p, s))
    BY <1>4 DEF OpenHook
  <2> HIDE DEF seed
  <2>4. s \in {"sum", "hookInsert"}
    OBVIOUS
  <2> HIDE DEF s
  <2> QED BY <1>2, <2>2, <2>3, <2>4, CallerLeaves
<1>5. CASE InsertInvoicePayment(p)
  <2> DEFINE new == [n |-> serial, source |-> "EASYCOUNT_INVOICE",
                     amount |-> job[p].amount, doc |-> job[p].doc]
             rows == job[p].rows \cup {new}
  <2>1. new \in Rows
    BY <1>1, JobFields DEF Rows, Sources
  <2>2. Leave(p) \/ (job' = [job EXCEPT ![p].rows = rows] /\ Goto(p, "sum"))
    BY <1>5 DEF InsertInvoicePayment, CallersTyped
  <2> HIDE DEF new
  <2>3. rows \subseteq Rows
    BY <1>1, <2>1, JobFields
  <2> HIDE DEF rows
  <2> QED BY <1>2, <2>2, <2>3, CallerLeaves
<1>6. CASE FindAdvance(p)
  <2> DEFINE target == IF Advances(ledger) = {} THEN 0 ELSE First(Advances(ledger)).n
             j == [job[p] EXCEPT !.target = target]
  <2>1. target \in Nat
    <3>1. Advances(ledger) \subseteq Rows /\ \A r \in Advances(ledger) : r.n \in Nat
      BY <1>1 DEF Advances, Rows
    <3> QED BY <3>1, FirstIsOne
  <2>2. Leave(p) \/ (Goto(p, "write") /\ job' = [job EXCEPT ![p].target = target])
    BY <1>6 DEF FindAdvance
  <2> HIDE DEF target
  <2>3. j \in Jobs
    BY <1>1, <2>1 DEF Jobs
  <2>4. job' = [job EXCEPT ![p].target = target] => job' = [job EXCEPT ![p] = j]
    BY DEF CallersTyped
  <2> HIDE DEF j
  <2> QED BY <2>2, <2>3, <2>4, CallerLeaves, CallerMoves DEF Goto, Steps
<1>7. CASE WriteAdvanceRow(p)
  <2> DEFINE row == AdvanceRow(p)
  <2>1. Leave(p) \/ (job' = [job EXCEPT ![p].rows = {row}] /\ Goto(p, "sum"))
    BY <1>7 DEF WriteAdvanceRow
  <2>2. row \in Rows
    BY <1>1, <1>7, AdvanceRowBooks DEF WriteAdvanceRow
  <2> HIDE DEF row
  <2> QED BY <1>2, <2>1, <2>2, CallerLeaves
<1>8. CASE SumUp(p)
  <2> DEFINE total == SumLedgerPayments(p)
             advance == AdvanceOf(p, total)
             j == [job[p] EXCEPT !.total = total, !.advance = advance, !.fresh = TRUE]
  <2>1. total \in Nat
    <3>1. WithAmounts(ledger) /\ WithAmounts(job[p].rows)
      BY <1>1 DEF HoldsInv, Sized, SizedJob
    <3> QED BY <3>1, PricedView, AmountIsNat DEF SumLedgerPayments, WithAmounts
  <2>2. job' = [job EXCEPT ![p].total = total, ![p].advance = advance, ![p].fresh = TRUE]
        /\ Goto(p, "commit")
    BY <1>8 DEF SumUp
  <2> HIDE DEF total
  <2>3. advance \in Nat
    <3> DEFINE paid == Advances(View(p))
    <3>1. paid \subseteq Rows /\ \A r \in paid : r.n \in Nat /\ r.amount \in Nat
      BY <1>1, JobFields DEF Advances, View, Rows
    <3>2. paid # {} => First(paid) \in paid
      BY <3>1, FirstIsOne
    <3>3. \/ paid # {} /\ advance = First(paid).amount
          \/ advance \in {booking.advance, total}
      BY DEF AdvanceOf
    <3> HIDE DEF paid, advance
    <3> QED BY <1>1, <2>1, <3>1, <3>2, <3>3
  <2> HIDE DEF advance
  <2>4. j \in Jobs
    BY <1>1, <2>1, <2>3 DEF Jobs
  <2>5. job' = [job EXCEPT ![p] = j]
    BY <2>2 DEF CallersTyped
  <2> HIDE DEF j
  <2> QED BY <2>2, <2>4, <2>5, CallerMoves DEF Goto, Steps
<1> QED BY <1>3, <1>4, <1>5, <1>6, <1>7, <1>8

\* The steps around EasyCount's documents.
LEMMA DocumentsTyped ==
    ASSUME PaymentFacts, CallersTyped, RecordsTyped, NEW p \in Callers,
           \/ CheckReceipt(p) \/ SkipReceipt(p) \/ EnsureAdvance(p) \/ CheckBalance(p)
           \/ PostFails(p) \/ StoreReceipt(p)
           \/ \E issued, answered, named \in BOOLEAN : CreateDoc(p, issued, answered, named)
    PROVE  CallersTyped' /\ RecordsTyped'
<1>1. /\ LedgerInv /\ HoldsInv /\ BookInv /\ job[p] \in Jobs /\ serial \in Nat
      /\ booking \in BookingRows /\ receipts \in Nat
      /\ booking.advance \in Nat /\ booking.doc \in Docs
  BY DEF PaymentFacts, CallersTyped, RecordsTyped, LedgerInv, Shape, ReceiptInv, BookingRows
<1>2. ASSUME NEW s \in Steps \ {"store"}, NEW j \in Jobs, Goto(p, s),
             job' = [job EXCEPT ![p] = j]
      PROVE  CallersTyped'
  BY <1>2, CallerMoves DEF Goto
<1>3. CASE CheckReceipt(p)
  <2> DEFINE seen == IF OthersIssue(p) THEN 0 ELSE receipts
             j == [job[p] EXCEPT !.amount = booking.advance, !.kind = "advance", !.read = seen]
  <2>1. seen \in Nat
    BY <1>1
  <2>2. Leave(p) \/ (/\ Goto(p, "createDoc")
                     /\ job' = [job EXCEPT ![p].amount = booking.advance,
                                           ![p].kind = "advance", ![p].read = seen])
    BY <1>3 DEF CheckReceipt
  <2> HIDE DEF seen
  <2>3. j \in Jobs
    BY <1>1, <2>1 DEF Jobs
  <2>4. Leave(p) \/ (Goto(p, "createDoc") /\ job' = [job EXCEPT ![p] = j])
    BY <2>2 DEF CallersTyped
  <2> HIDE DEF j
  <2>5. CallersTyped'
    BY <1>2, <2>3, <2>4, CallerLeaves DEF Steps
  <2> QED BY <1>3, <2>5, RecordsStay DEF CheckReceipt
<1>4. CASE SkipReceipt(p)
  <2>1. Goto(p, "find") /\ UNCHANGED job /\ Uncommitted
    BY <1>4 DEF SkipReceipt
  <2> QED BY <2>1, CallerGoes, RecordsStay DEF Steps
<1>5. CASE EnsureAdvance(p)
  <2> DEFINE j == [Nobody EXCEPT !.kind = "advance", !.doc = booking.doc,
                                 !.amount = booking.advance]
  <2>1. j \in Jobs
    BY <1>1, NobodyTyped DEF Jobs
  <2>2. Leave(p) \/ (Goto(p, "find") /\ job' = [job EXCEPT ![p] = j])
    BY <1>5 DEF EnsureAdvance
  <2> HIDE DEF j
  <2>3. CallersTyped'
    BY <1>2, <2>1, <2>2, CallerLeaves DEF Steps
  <2> QED BY <1>5, <2>3, RecordsStay DEF EnsureAdvance
<1>6. CASE CheckBalance(p)
  <2> DEFINE j == [job[p] EXCEPT !.known = Stored]
  <2>1. j \in Jobs
    BY <1>1 DEF Jobs, Stored
  <2>2. Leave(p) \/ (Goto(p, "post") /\ job' = [job EXCEPT ![p] = j])
    BY <1>6 DEF CheckBalance, CallersTyped
  <2> HIDE DEF j
  <2>3. CallersTyped'
    BY <1>2, <2>1, <2>2, CallerLeaves DEF Steps
  <2> QED BY <1>6, <2>3, RecordsStay DEF CheckBalance
<1>7. CASE PostFails(p)
  BY <1>7, CallerLeaves, RecordsStay DEF PostFails
<1>8. CASE StoreReceipt(p)
  <2>1. /\ step[p] = "store" /\ UNCHANGED <<calls, invoices, moneyHistory, invoiceHistory>>
        /\ booking' = [booking EXCEPT !.receipt = job[p].status, !.doc = job[p].doc]
        /\ Leave(p) \/ (Goto(p, "find") /\ UNCHANGED job)
    BY <1>8 DEF StoreReceipt
  <2>2. job[p].status \in ReceiptStatus /\ job[p].doc \in Docs
    BY <1>1, <2>1, JobFields DEF CallersTyped
  <2>3. booking' \in BookingRows
    BY <1>1, <2>1, <2>2 DEF BookingRows
  <2>4. CallersTyped'
    BY <2>1, CallerLeaves, CallerGoes DEF Steps
  <2> QED BY <2>1, <2>3, <2>4 DEF RecordsTyped, moneyHistory, invoiceHistory
<1>9. ASSUME NEW issued \in BOOLEAN, NEW answered \in BOOLEAN, NEW named \in BOOLEAN,
             CreateDoc(p, issued, answered, named)
      PROVE  CallersTyped' /\ RecordsTyped'
  <2> DEFINE status == IF ~answered THEN "FAILED"
                       ELSE IF mix.mode = "simulation" THEN "SIMULATED" ELSE "ISSUED"
             doc == IF answered /\ named THEN serial ELSE NoDoc
             j == [job[p] EXCEPT !.status = status, !.doc = doc]
  <2>1. /\ Goto(p, "store")
        /\ job' = [job EXCEPT ![p].status = status, ![p].doc = doc]
        /\ UNCHANGED <<calls, booking, invoices, moneyHistory, invoiceHistory>>
    BY <1>9 DEF CreateDoc
  <2>2. status \in ReceiptStatus
    BY DEF ReceiptStatus
  <2>3. doc \in Docs
    BY <1>1 DEF Docs
  <2> HIDE DEF status, doc
  <2>4. j \in Jobs /\ j.status = status
    BY <1>1, <2>2, <2>3 DEF Jobs
  <2>5. job' = [job EXCEPT ![p] = j]
    BY <2>1 DEF CallersTyped
  <2> HIDE DEF j
  <2>6. CallersTyped'
    BY <2>1, <2>2, <2>4, <2>5, CallerMoves DEF Goto, Steps
  <2> QED BY <2>1, <2>6 DEF RecordsTyped, moneyHistory, invoiceHistory
<1> QED BY <1>3, <1>4, <1>5, <1>6, <1>7, <1>8, <1>9

\* A commit.
LEMMA CommitTyped ==
    ASSUME PaymentFacts, CallersTyped, RecordsTyped, NEW p \in Callers, Commit(p)
    PROVE  CallersTyped' /\ RecordsTyped'
<1> DEFINE s == IF job[p].chain THEN "ensure" ELSE "idle"
<1>1. /\ UNCHANGED <<calls, edited, overlaps>>
      /\ step' = [step EXCEPT ![p] = s]
      /\ job' = [q \in Callers |-> IF q = p THEN Nobody ELSE [job[q] EXCEPT !.fresh = FALSE]]
      /\ booking' = [booking EXCEPT !.total = job[p].total, !.advance = job[p].advance]
      /\ invoices' = IF job[p].kind = "hook"
                     THEN [invoices EXCEPT ![job[p].doc].status = "paid"] ELSE invoices
  BY DEF Commit
<1>2. s \in Steps /\ s # "store"
  BY DEF Steps
<1> HIDE DEF s
<1>3. /\ step \in [Callers -> Steps] /\ job[p] \in Jobs /\ \A q \in Callers : job[q] \in Jobs
      /\ booking \in BookingRows /\ invoices \in [Invoices -> InvoiceRows]
      /\ job[p].kind = "hook" => job[p].doc \in Invoices
  BY DEF CallersTyped, RecordsTyped, PaymentFacts, LedgerInv, Hooked, HookAt
<1>4. step' \in [Callers -> Steps]
  BY <1>1, <1>2, <1>3
<1>5. ASSUME NEW q \in Callers
      PROVE  /\ [job[q] EXCEPT !.fresh = FALSE] \in Jobs
             /\ [job[q] EXCEPT !.fresh = FALSE].status = job[q].status
  BY <1>3 DEF Jobs
<1>6. job' \in [Callers -> Jobs]
  BY <1>1, <1>5, NobodyTyped
<1>7. ASSUME NEW q \in Callers, step'[q] = "store"
      PROVE  job'[q].status \in ReceiptStatus
  <2>1. q # p /\ step[q] = "store"
    BY <1>1, <1>2, <1>3, <1>7
  <2>2. job'[q].status = job[q].status
    BY <1>1, <1>5, <2>1
  <2> QED BY <2>1, <2>2 DEF CallersTyped
<1>8. booking' \in BookingRows
  BY <1>1, <1>3, JobFields DEF BookingRows
<1>9. invoices' \in [Invoices -> InvoiceRows]
  BY <1>1, <1>3 DEF InvoiceRows, InvoiceStatus
<1>10. {astray', crossed', mirrored', revived'} \subseteq BOOLEAN
  <2>1. astray' \in BOOLEAN
    BY DEF Commit
  <2>2. /\ crossed' = (crossed \/ (/\ ledger = {}
                                   /\ \E q \in Callers \ {p} : step[q] \in InTransaction))
        /\ mirrored' = (mirrored \/ (Advances(View(p)) = {} /\ job[p].advance > 0))
        /\ revived' = (revived \/ (/\ job[p].kind = "hook"
                                   /\ invoices[job[p].doc].status \in {"cancelled", "failed"}))
    BY DEF Commit
  <2>3. crossed' \in BOOLEAN /\ mirrored' \in BOOLEAN /\ revived' \in BOOLEAN
    BY <2>2
  <2> QED BY <2>1, <2>3
<1>11. CallersTyped'
  BY <1>4, <1>6, <1>7 DEF CallersTyped
<1> QED BY <1>1, <1>8, <1>9, <1>10, <1>11 DEF RecordsTyped

\* What EasyCount reports of an invoice, and its first row.
LEMMA ReportsTyped ==
    ASSUME PaymentFacts, CallersTyped, RecordsTyped, NEW p \in Callers,
           \/ RecordStatus(p)
           \/ \E i \in Invoices : \E status \in {"pending", "paid"} : StoreInvoice(p, i, status)
    PROVE  CallersTyped' /\ RecordsTyped'
<1>1. job[p] \in Jobs /\ invoices \in [Invoices -> InvoiceRows] /\ job[p].amount \in Nat
  BY JobFields DEF CallersTyped, RecordsTyped
<1>2. CASE RecordStatus(p)
  <2>1. /\ invoices' = [invoices EXCEPT ![job[p].doc].status = job[p].status]
        /\ step[p] = "hook" /\ Leave(p) /\ UNCHANGED <<calls, booking, moneyHistory, overlaps>>
        /\ revived' = (revived \/ (/\ invoices[job[p].doc].status \in {"cancelled", "failed"}
                                   /\ job[p].status = "pending"))
    BY <1>2 DEF RecordStatus
  <2>2. job[p].status \in InvoiceStatus
    BY <2>1 DEF PaymentFacts, BalanceInv, Reads
  <2>3. invoices' \in [Invoices -> InvoiceRows]
    BY <1>1, <2>1, <2>2 DEF InvoiceRows
  <2>4. revived' \in BOOLEAN
    BY <2>1
  <2>5. CallersTyped'
    BY <2>1, CallerLeaves
  <2> QED BY <2>1, <2>3, <2>4, <2>5 DEF RecordsTyped, moneyHistory
<1>3. ASSUME NEW i \in Invoices, NEW status \in {"pending", "paid"}, StoreInvoice(p, i, status)
      PROVE  CallersTyped' /\ RecordsTyped'
  <2> DEFINE row == [status |-> status, amount |-> job[p].amount, first |-> status]
  <2>1. /\ invoices' = [invoices EXCEPT ![i] = row]
        /\ Leave(p) /\ UNCHANGED <<calls, booking, moneyHistory, revived>>
        /\ overlaps' = (overlaps \/ Stored # job[p].known)
    BY <1>3 DEF StoreInvoice
  <2>2. row \in InvoiceRows
    BY <1>1 DEF InvoiceRows, InvoiceStatus
  <2> HIDE DEF row
  <2>3. invoices' \in [Invoices -> InvoiceRows] /\ overlaps' \in BOOLEAN
    BY <1>1, <2>1, <2>2
  <2>4. CallersTyped'
    BY <2>1, CallerLeaves
  <2> QED BY <2>1, <2>3, <2>4 DEF RecordsTyped, moneyHistory
<1> QED BY <1>2, <1>3

\* Whichever step is taken, the types stay.
LEMMA PaymentTypesStep ==
    ASSUME PaymentFacts, CallersTyped, RecordsTyped, [PaymentNext]_paymentVars
    PROVE  CallersTyped' /\ RecordsTyped'
<1>1. CASE UNCHANGED paymentVars
  BY <1>1 DEF paymentVars, CallersTyped, RecordsTyped, moneyHistory, invoiceHistory
<1>2. ASSUME NEW p \in Callers, Transaction(p)
      PROVE  CallersTyped' /\ RecordsTyped'
  <2>1. CASE Commit(p)
    BY <2>1, CommitTyped
  <2>2. CASE ~Commit(p)
    <3>1. \/ OpenPayment(p) \/ OpenHook(p) \/ InsertInvoicePayment(p)
          \/ FindAdvance(p) \/ WriteAdvanceRow(p) \/ SumUp(p)
      BY <1>2, <2>2 DEF Transaction
    <3>2. Uncommitted
      BY <3>1 DEF OpenPayment, OpenHook, InsertInvoicePayment, FindAdvance, WriteAdvanceRow, SumUp
    <3> QED BY <3>1, <3>2, StatementsTyped, RecordsStay
  <2> QED BY <2>1, <2>2
<1>3. ASSUME NEW p \in Callers,
             \/ RecordStatus(p) \/ CheckReceipt(p) \/ SkipReceipt(p) \/ StoreReceipt(p)
             \/ EnsureAdvance(p) \/ CheckBalance(p) \/ PostFails(p)
      PROVE  CallersTyped' /\ RecordsTyped'
  BY <1>3, DocumentsTyped, ReportsTyped
<1>4. ASSUME NEW p \in Callers, NEW amount \in mix.amounts,
             \/ UpdateBooking(p, amount) \/ FinalizeBooking(p, amount) \/ AskInvoice(p, amount)
             \/ \E d \in Invoices \cup {NoDoc} : Pay(p, amount, d)
      PROVE  CallersTyped' /\ RecordsTyped'
  BY <1>4, BeginningsTyped
<1>5. ASSUME NEW p \in Callers, NEW force \in BOOLEAN, Reissue(p, force)
      PROVE  CallersTyped' /\ RecordsTyped'
  BY <1>5, BeginningsTyped
<1>6. ASSUME NEW p \in Callers, NEW issued \in BOOLEAN, NEW answered \in BOOLEAN,
             NEW named \in BOOLEAN, CreateDoc(p, issued, answered, named)
      PROVE  CallersTyped' /\ RecordsTyped'
  BY <1>6, DocumentsTyped
<1>7. ASSUME NEW p \in Callers, NEW i \in Invoices,
             \/ \E status \in InvoiceStatus \ {"none"}, amount \in mix.amounts \cup {invoices[i].amount} :
                    Notify(p, i, status, amount)
             \/ \E status \in {"pending", "paid"} : StoreInvoice(p, i, status)
      PROVE  CallersTyped' /\ RecordsTyped'
  BY <1>7, BeginningsTyped, ReportsTyped
<1> QED BY <1>1, <1>2, <1>3, <1>4, <1>5, <1>6, <1>7 DEF PaymentNext

\* The types hold at the start.
LEMMA PaymentTypesInitial == PaymentInit => CallersTyped /\ RecordsTyped
<1> SUFFICES ASSUME PaymentInit PROVE CallersTyped /\ RecordsTyped
  OBVIOUS
<1>1. CallersTyped
  BY NobodyTyped DEF PaymentInit, CallersTyped, Steps
<1>2. calls \in Nat /\ booking \in BookingRows
  BY LedgerAssumption DEF PaymentInit, BookingRows, Docs, ReceiptStatus
<1>3. invoices \in [Invoices -> InvoiceRows]
  BY DEF PaymentInit, InvoiceRows, InvoiceStatus
<1>4. {astray, crossed, mirrored, edited, overlaps, revived} \subseteq BOOLEAN
  BY DEF PaymentInit
<1> QED BY <1>1, <1>2, <1>3, <1>4 DEF RecordsTyped

\* The booking, its ledger and its invoices, and what each caller has in hand, are
\* of their types; a webhook in a transaction names an invoice.
THEOREM PaymentTypes == PaymentSpec => []PaymentTypeOK
<1> DEFINE I == LedgerInv /\ HoldsInv /\ BookInv /\ BalanceInv /\ ReceiptInv
                /\ CallersTyped /\ RecordsTyped
<1>1. PaymentInit => I
  BY LedgerInitial, HoldsInitial, BookInitial, BalanceInitial, ReceiptInitial, PaymentTypesInitial
<1>2. I /\ [PaymentNext]_paymentVars => I'
  BY LedgerStep, HoldsStep, BookStep, BalanceStep, ReceiptStep, PaymentTypesStep DEF PaymentFacts
<1>3. I => PaymentTypeOK
  BY DEF LedgerInv, Shape, Hooked, HookAt, HoldsInv, Sized, BookInv, ReceiptInv, CallersTyped,
     RecordsTyped, InvoiceRows, PaymentTypeOK
<1> QED BY <1>1, <1>2, <1>3, PTL DEF PaymentSpec
==============================================================================
