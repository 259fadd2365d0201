----------------------------- MODULE PaymentBook ------------------------------
(***************************************************************************)
(* What the ledger of a booking promises its readers: a book of payments    *)
(* that is only added to.  An entry keeps its number and its source, and    *)
(* its amount too unless it is the advance, which may be restated; a        *)
(* document it names it names for good.  No two entries have one number or  *)
(* one document, and a document that counts as settled has its entry.       *)
(***************************************************************************)
EXTENDS Naturals

CONSTANTS Documents, NoDocument

VARIABLES
    entries,  \* the entries of the book
    settled   \* the documents that count as paid

vars == <<entries, settled>>

Entry == [n : Nat, source : {"ADVANCE", "MANUAL", "EASYCOUNT_INVOICE"}, amount : Nat,
          doc : Documents \cup {NoDocument}]

\* The book counts nothing twice.
Sound(book) ==
    \A a, b \in book : a.n = b.n \/ (a.doc = b.doc /\ a.doc # NoDocument) => a = b

Continues(old, new) ==
    /\ new.n = old.n /\ new.source = old.source
    /\ old.source # "ADVANCE" => new.amount = old.amount
    /\ old.doc # NoDocument => new.doc = old.doc

Init == entries = {} /\ settled = {}

Next ==
    /\ entries' \subseteq Entry
    /\ Sound(entries')
    /\ \A old \in entries : \E new \in entries' : Continues(old, new)
    /\ settled' \subseteq {e.doc : e \in entries'}

Spec == Init /\ [][Next]_vars
===============================================================================
