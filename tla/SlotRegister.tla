---------------------------- MODULE SlotRegister -----------------------------
(***************************************************************************)
(* What the booking system promises its users: a register of claims on the  *)
(* slots of the hall.  A claim is tentative (an option) or firm (an event). *)
(* Claims appear, move within their date, become firm and disappear; no     *)
(* slot has two claims, no claim moves to another date or becomes tentative *)
(* again, and a claim that is gone never comes back.                        *)
(***************************************************************************)
EXTENDS TimeSlots

CONSTANTS Ids, Dates

VARIABLES
    claims,  \* the current claims: a function from some ids to claims
    used     \* every id a claim was ever given

vars == <<claims, used>>

Claim == [date : Dates, slot : Slots, firm : BOOLEAN]

Exclusive(table) ==
    \A a, b \in DOMAIN table :
        table[a].date = table[b].date /\ table[a].slot = table[b].slot => a = b

\* A claim that persists keeps its date and its firmness.
Continues(old, new) == old.date = new.date /\ (old.firm => new.firm)

Init == claims = [a \in {} |-> a] /\ used = {}

\* One transaction: claims in gone end, those in fresh begin, the others go on.
Update(gone, fresh) ==
    /\ claims' \in [(DOMAIN claims \ gone) \cup fresh -> Claim]
    /\ \A a \in DOMAIN claims \ gone : Continues(claims[a], claims'[a])
    /\ Exclusive(claims')
    /\ used' = used \cup fresh

Next == \E gone \in SUBSET DOMAIN claims, fresh \in SUBSET (Ids \ used) :
            Update(gone, fresh)

Spec == Init /\ [][Next]_vars
==============================================================================
