----------------------------- MODULE BookingFile -----------------------------
(***************************************************************************)
(* The prices in a booking's row and the people who write them at the same *)
(* time: the booking form (client BookingForm.tsx, updateBooking), live     *)
(* additions signed during the event                                       *)
(* (addEventAddition), upgrades added to the contract (addBookingUpgrade)  *)
(* and the production form (event-form upsertForm).  The rules of the day  *)
(* and the slots are EventCalendar's, the payments PaymentLedger's.        *)
(*                                                                         *)
(* Every write of the row moves updatedAt, here a version.  An upgrade or a *)
(* live addition costs one unit; what the portions come to is the base.    *)
(* VAT, discounts and the text of the contract are left out.  A request    *)
(* that a rule refuses leaves no trace.                                    *)
(***************************************************************************)
EXTENDS Integers, FiniteSets

CONSTANTS
    Hands,         \* requests being served, and the forms open before them
    HallKeys,      \* upgrades the hall is paid for
    SupplierKeys,  \* upgrades an outside supplier is paid for
    Bases,         \* base prices an editor may come to
    NoHand,        \* no holder of the row's lock
    Desks          \* the traffic mixes: kinds of work and how much of it

ASSUME FileAssumption ==
    /\ Desks \subseteq [kinds : SUBSET {"edit", "addition", "upgrade", "form"}, work : Nat]
    /\ Bases \subseteq Nat
    /\ IsFiniteSet(HallKeys) /\ IsFiniteSet(SupplierKeys)
    /\ HallKeys \cap SupplierKeys = {} /\ NoHand \notin Hands

VARIABLES
    desk,       \* bounds of this behaviour: the kinds of work, and work left
    file,       \* the priced columns of the booking row, its upgrades and version
    equipment,  \* upgrades ticked in the production form
    additions,  \* what the stored EventAddition rows come to
    rowHolder,  \* who has the row FOR UPDATE
    hand,       \* the requests
    overrun,    \* history: an edit wrote back an older sum of live additions
    reckoned,   \* history: who computed the total, and whether the row had changed
    lastEdit,   \* history: the version of the last edit, and the edits served beside it
    blind       \* history: an edit wrote over one that its author had not seen

fileVars == <<desk, file, equipment, additions, rowHolder, hand, overrun, reckoned, lastEdit, blind>>
fileHistory == <<overrun, reckoned, lastEdit, blind>>

Keys == HallKeys \cup SupplierKeys
HallPrice(upgrades) == Cardinality(upgrades \cap HallKeys)
SupplierPrice(upgrades) == Cardinality(upgrades \cap SupplierKeys)
Files == [base : Nat, extras : Nat, supplier : Nat, live : Nat, total : Nat,
          upgrades : SUBSET Keys, version : Nat]
NewFile == [base |-> 0, extras |-> 0, supplier |-> 0, live |-> 0, total |-> 0,
            upgrades |-> {}, version |-> 0]
Unoccupied == [step |-> "idle", loaded |-> 0, keys |-> {}, seen |-> NewFile]

FileInit ==
    /\ desk \in Desks
    /\ file = NewFile
    /\ equipment = {} /\ additions = 0
    /\ rowHolder = NoHand
    /\ hand = [h \in Hands |-> Unoccupied]
    /\ overrun = FALSE /\ reckoned = "hall" /\ blind = FALSE
    /\ lastEdit = [version |-> 0, beside |-> {}]

\* Every update, and every insert that refers to the row, waits for its holder.
RowFree(h) == rowHolder \in {NoHand, h}

Takes(kind, h, job) ==
    /\ kind \in desk.kinds /\ desk.work > 0 /\ hand[h].step = "idle"
    /\ desk' = [desk EXCEPT !.work = @ - 1]
    /\ hand' = [hand EXCEPT ![h] = job]
    /\ UNCHANGED <<file, additions, rowHolder, fileHistory>>

Others(h, step) == {q \in Hands \ {h} : hand[q].step = step}

Answer(h) == hand' = [hand EXCEPT ![h] = Unoccupied]

(***************************************************************************)
(* The booking form.                                                       *)
(***************************************************************************)

\* The form is filled from the row and keeps its updatedAt.
LoadForm(h) ==
    /\ Takes("edit", h, [Unoccupied EXCEPT !.step = "form", !.loaded = file.version])
    /\ UNCHANGED equipment

\* updateBooking reads the row before its transaction.  It would compare updatedAt
\* with the expectedUpdatedAt the form sends, but updateBookingSchema does not name
\* that field and validate drops what the schema does not name.
ServeEdit(h) ==
    /\ hand[h].step = "form"
    /\ hand' = [hand EXCEPT ![h].step = "edit", ![h].seen = file]
    /\ UNCHANGED <<desk, file, equipment, additions, rowHolder, fileHistory>>

\* The hall's breakdown, computed from the request and from the additions read.
Priced(base, upgrades, live) ==
    [base |-> base, extras |-> HallPrice(upgrades), supplier |-> SupplierPrice(upgrades),
     live |-> live, total |-> base + HallPrice(upgrades) + live, upgrades |-> upgrades,
     version |-> file.version + 1]

WriteEdit(h, base, upgrades) ==
    /\ hand[h].step = "edit" /\ RowFree(h)
    /\ file' = Priced(base, upgrades, hand[h].seen.live)
    /\ Answer(h)
    /\ overrun' = (file.live # hand[h].seen.live \/ overrun)
    /\ reckoned' = "hall"
    /\ lastEdit' = [version |-> file.version + 1,
                    beside |-> Others(h, "edit")]
    /\ blind' = (blind \/ (hand[h].loaded < lastEdit.version /\ h \notin lastEdit.beside))
    /\ UNCHANGED <<desk, equipment, additions, rowHolder>>

\* A slot or a price that does not fit: nothing is written.
RefuseEdit(h) ==
    /\ hand[h].step = "edit"
    /\ Answer(h)
    /\ UNCHANGED <<desk, file, equipment, additions, rowHolder, fileHistory>>

(***************************************************************************)
(* A live addition: inserting it holds the booking by its foreign key, as  *)
(* others may; then the row is locked and its sums are read.               *)
(***************************************************************************)

AskAddition(h) ==
    Takes("addition", h, [Unoccupied EXCEPT !.step = "add"]) /\ UNCHANGED equipment

InsertAddition(h) ==
    /\ hand[h].step = "add" /\ RowFree(h)
    /\ hand' = [hand EXCEPT ![h].step = "lock"]
    /\ UNCHANGED <<desk, file, equipment, additions, rowHolder, fileHistory>>

\* Mutant: the sums are read without FOR UPDATE.
WithoutLock(h) == TRUE

\* FOR UPDATE waits for those who hold the row by a foreign key too.
Lockable(h) == RowFree(h) /\ Others(h, "lock") = {}

LockRow(h) ==
    /\ hand[h].step = "lock" /\ Lockable(h)
    /\ rowHolder' = h
    /\ hand' = [hand EXCEPT ![h].step = "sum", ![h].seen = file]
    /\ UNCHANGED <<desk, file, equipment, additions, fileHistory>>

\* Two additions that hold the booking wait for each other: the database fails one.
AdditionFails(h) ==
    /\ hand[h].step = "lock" /\ Others(h, "lock") # {}
    /\ Answer(h)
    /\ UNCHANGED <<desk, file, equipment, additions, rowHolder, fileHistory>>

TotalWithAddition(seen) == seen.base + seen.extras + seen.live + 1

WriteAddition(h) ==
    /\ hand[h].step = "sum"
    /\ additions' = additions + 1
    /\ file' = [file EXCEPT !.live = hand[h].seen.live + 1,
                            !.total = TotalWithAddition(hand[h].seen), !.version = @ + 1]
    /\ rowHolder' = NoHand
    /\ Answer(h)
    /\ reckoned' = "hall"
    /\ UNCHANGED <<desk, equipment, overrun, lastEdit, blind>>

(***************************************************************************)
(* refreshBookingUpgradesAndContract, on a row read before.                *)
(***************************************************************************)

\* addBookingUpgrade reads the row together with the production form.
ReadForUpgrade(h, key) ==
    /\ Takes("upgrade", h, [Unoccupied EXCEPT !.step = "refresh", !.keys = equipment \cup {key},
                                              !.seen = file])
    /\ UNCHANGED equipment

\* upsertForm writes the production form, then reads the row.
SaveForm(h, ticked) ==
    /\ Takes("form", h, [Unoccupied EXCEPT !.step = "saved", !.keys = ticked])
    /\ equipment' = ticked

ReadForForm(h) ==
    /\ hand[h].step = "saved"
    /\ hand' = [hand EXCEPT ![h].step = "refresh", ![h].seen = file]
    /\ UNCHANGED <<desk, file, equipment, additions, rowHolder, fileHistory>>

\* Neither the base nor the additions are written, but the total is computed from
\* them, and counts the suppliers in.
WriteRefresh(h) ==
    LET seen == hand[h].seen
        upgrades == seen.upgrades \cup hand[h].keys IN
    /\ hand[h].step = "refresh" /\ RowFree(h)
    /\ file' = [file EXCEPT !.extras = HallPrice(upgrades), !.supplier = SupplierPrice(upgrades),
                            !.total = seen.base + HallPrice(upgrades) + SupplierPrice(upgrades)
                                      + seen.live,
                            !.upgrades = upgrades, !.version = @ + 1]
    /\ Answer(h)
    /\ reckoned' = IF seen.base = file.base /\ seen.live = file.live THEN "refresh" ELSE "stale"
    /\ UNCHANGED <<desk, equipment, additions, rowHolder, overrun, lastEdit, blind>>

FileNext ==
    \E h \in Hands :
       \/ LoadForm(h) \/ ServeEdit(h) \/ RefuseEdit(h)
       \/ \E base \in Bases, upgrades \in SUBSET Keys : WriteEdit(h, base, upgrades)
       \/ AskAddition(h) \/ InsertAddition(h) \/ LockRow(h) \/ AdditionFails(h)
       \/ WriteAddition(h)
       \/ \E key \in Keys : ReadForUpgrade(h, key)
       \/ \E ticked \in SUBSET SupplierKeys : SaveForm(h, ticked)
       \/ ReadForForm(h) \/ WriteRefresh(h)

FileSpec == FileInit /\ [][FileNext]_fileVars

(***************************************************************************)
(* Properties.                                                             *)
(***************************************************************************)

\* Type invariant.
FileTypeOK ==
    /\ desk \in [kinds : SUBSET {"edit", "addition", "upgrade", "form"}, work : Nat]
    /\ file \in Files
    /\ equipment \subseteq SupplierKeys /\ additions \in Nat
    /\ hand \in [Hands -> [step : {"idle", "form", "edit", "add", "lock", "sum", "saved", "refresh"},
                           loaded : Nat, keys : SUBSET Keys, seen : Files]]
    /\ rowHolder \in Hands \cup {NoHand}
    /\ overrun \in BOOLEAN /\ reckoned \in {"hall", "refresh", "stale"} /\ blind \in BOOLEAN
    /\ lastEdit \in [version : Nat, beside : SUBSET Hands]

HallOwed == file.base + file.extras + file.live

\* "External supplier upgrades [...] are stored separately and excluded from totalPrice"
\* (hallBilling.ts:3; :34 says the same as a formula).  An upgrade of a supplier added to
\* the contract, or a production form that is saved with one, counts it in.
TotalIsHalls == file.total = HallOwed

\* What the writers of the prices do keep, which is less than hallBilling.ts says
\* (TotalIsHalls).  The row never shows more live additions than were signed, however many
\* are entered at once and whatever is written between them, and no fewer unless an edit
\* that was being served wrote back the sum it had read.  The total is what the hall is
\* owed when an edit or an addition computed it last, and that and what the suppliers are
\* owed when an upgrade or the production form did, on a row that stood still under it.
PricesAddUp ==
    /\ file.live <= additions
    /\ ~overrun => file.live = additions
    /\ reckoned = "hall" => file.total = HallOwed
    /\ reckoned = "refresh" => file.total = HallOwed + file.supplier

\* An edit never writes over an edit that its author had not seen, unless the
\* server was serving both at the same time: what the message of
\* bookingLifecycle.service.ts:567 and the form's alert (CONFLICT_UPDATED) are for.
NoBlindEdit == ~blind
=============================================================================
