------------------------------- MODULE Signing -------------------------------
(***************************************************************************)
(* The signatures on the contract of one booking (bookingContract.service,  *)
(* contractFields.ts): the booking form and its contract window             *)
(* (BookingForm.tsx, ContractModal.tsx) on several desks, and the three      *)
(* requests that write the signatures together with the flag that says they  *)
(* are complete.  A request reads the booking, decides, and writes what it   *)
(* has made of the signatures it read and those it was sent.                 *)
(*                                                                          *)
(* A signature is the side it belongs to; the contract's text is left out.   *)
(***************************************************************************)
EXTENDS Naturals, FiniteSets

CONSTANTS
    Signers,   \* people at a booking form, each with the client beside them
    Signings   \* the traffic mixes: the booking at first, and how much is done

Types == {"wedding", "other"}
Marks == {"A", "B"}
Contracts == [type : Types, option : BOOLEAN, signed : BOOLEAN, marks : SUBSET Marks]

\* Mutant: one signature will do.
AnySignature(type, marks) == marks # {}

isContractFullySigned(type, marks) == "A" \in marks /\ (type = "wedding" => "B" \in marks)

\* A booking that is marked as signed at first is signed.
ASSUME SigningAssumption ==
    /\ Signings \subseteq [at : SUBSET Contracts, calls : Nat, changes : Nat, api : BOOLEAN]
    /\ \A k \in Signings : \A b \in k.at : b.signed => isContractFullySigned(b.type, b.marks)

VARIABLES
    signing,   \* bounds of this behaviour
    contract,  \* the booking row
    sheet,     \* the form of each person
    errand,    \* the request each person waits for
    given,     \* history: the signatures the row has held
    wiped,     \* history: those taken off it by a request that did not know them
    retyped    \* history: the flag was computed for another type of event

signingVars == <<signing, contract, sheet, errand, given, wiped, retyped>>

(***************************************************************************)
(* The form.  "marks" are the signatures it shows, "loaded" those of its    *)
(* fields, which unticking leaves alone.                                   *)
(***************************************************************************)

Modes == {"away", "edit", "convert"}
NoSheet == [mode |-> "away", option |-> FALSE, type |-> "other", signed |-> FALSE, marks |-> {},
            loaded |-> {}]
NoErrand == [op |-> "none", at |-> "sent", type |-> "other", signed |-> FALSE, marks |-> {},
             base |-> [type |-> "other", option |-> FALSE, signed |-> FALSE, marks |-> {}]]

SigningInit ==
    /\ signing \in Signings
    /\ contract \in signing.at
    /\ sheet = [p \in Signers |-> NoSheet]
    /\ errand = [p \in Signers |-> NoErrand]
    /\ given = contract.marks /\ wiped = {} /\ retyped = FALSE

Idle(p) == errand[p] = NoErrand
Sheet(p, s) == sheet' = [sheet EXCEPT ![p] = s]

\* An option can be opened to be edited or to be closed into an event.  A booking is
\* edited as an option too when its date has the status of one.  With no calls left to
\* make nobody opens a form.
OpenSheet(p, mode, asOption) ==
    /\ sheet[p] = NoSheet /\ Idle(p) /\ signing.calls > 0
    /\ IF mode = "convert" THEN contract.option /\ ~asOption ELSE contract.option => asOption
    /\ Sheet(p, [mode |-> mode, option |-> asOption, type |-> contract.type,
                 signed |-> contract.signed, marks |-> contract.marks, loaded |-> contract.marks])
    /\ UNCHANGED <<signing, contract, errand, given, wiped, retyped>>

CloseSheet(p) ==
    /\ sheet[p] # NoSheet /\ Sheet(p, NoSheet)
    /\ UNCHANGED <<signing, contract, errand, given, wiped, retyped>>

ChangeType(p) ==
    /\ sheet[p] # NoSheet /\ signing.changes > 0
    /\ signing' = [signing EXCEPT !.changes = @ - 1]
    /\ \E t \in Types \ {sheet[p].type} : Sheet(p, [sheet[p] EXCEPT !.type = t])
    /\ UNCHANGED <<contract, errand, given, wiped, retyped>>

\* The box can be unticked only where an option is closed.
Untick(p) ==
    /\ sheet[p].mode = "convert" /\ sheet[p].signed
    /\ Sheet(p, [sheet[p] EXCEPT !.signed = FALSE, !.marks = {}])
    /\ UNCHANGED <<signing, contract, errand, given, wiped, retyped>>

Call(p, op, type, signed, marks) ==
    /\ Idle(p) /\ signing.calls > 0
    /\ signing' = [signing EXCEPT !.calls = @ - 1]
    /\ errand' = [errand EXCEPT ![p] = [NoErrand EXCEPT !.op = op, !.type = type,
                                            !.signed = signed, !.marks = marks]]
    /\ UNCHANGED <<contract, sheet, given, wiped, retyped>>

\* What the contract window sends when "drawn" has been drawn: sides that have a
\* signature are locked, and the second side is there at weddings only.
handleConfirmSignature(p, drawn) ==
    LET next == (sheet[p].marks \cup drawn) \cap (IF sheet[p].type = "wedding" THEN Marks ELSE {"A"})
    IN  /\ sheet[p] # NoSheet /\ ~sheet[p].option
        /\ next # {} /\ (sheet[p].type = "wedding" \/ "A" \in next)
        /\ Call(p, "sign", sheet[p].type, TRUE, next)

\* The form is saved: a converted option must be signed, and a signed contract complete.
handleSubmit(p) ==
    LET marks == sheet[p].marks \cup sheet[p].loaded
    IN  /\ sheet[p] # NoSheet
        /\ sheet[p].mode = "convert" => sheet[p].signed
        /\ ~sheet[p].option /\ sheet[p].signed => isContractFullySigned(sheet[p].type, marks)
        /\ Call(p, sheet[p].mode, sheet[p].type, sheet[p].signed, marks)

\* finalizeBooking, which no screen calls.
CallFinalize(p, marks) ==
    /\ signing.api /\ sheet[p] = NoSheet
    /\ Call(p, "finalize", "other", TRUE, marks)

(***************************************************************************)
(* The requests.                                                           *)
(***************************************************************************)

\* Mutant: what is stored is not looked at.
OnlySent(e) == e.marks

\* pickSignature for both sides: what was sent, else what was read, unless the form
\* says that the contract is not signed.
pickSignature(e) == IF e.signed THEN e.marks \cup e.base.marks ELSE e.marks

\* The type of event the flag is computed for.
TypeFor(e) == IF e.op \in {"edit", "convert"} THEN e.type ELSE e.base.type

\* syncContractFields
SyncedFlag(e) == e.signed /\ isContractFullySigned(TypeFor(e), pickSignature(e))

\* What a request refuses, having read the booking.
Denied(e) ==
    CASE e.op = "sign" -> e.base.type = "other" /\ "A" \notin pickSignature(e)
      [] e.op = "convert" -> ~e.base.option \/ ~SyncedFlag(e)
      [] e.op = "edit" -> e.signed /\ ~SyncedFlag(e)
      [] e.op = "finalize" -> ~SyncedFlag(e)

InStage(p, stage) == ~Idle(p) /\ errand[p].at = stage

\* An answer to a request of the contract window that says the signatures are stored, if
\* the form is still open.
SheetAfter(p, e) ==
    IF e.op = "sign" /\ sheet[p] # NoSheet
    THEN [sheet[p] EXCEPT !.marks = e.marks, !.loaded = e.marks, !.signed = @ \/ SyncedFlag(e)]
    ELSE IF e.op \in {"edit", "convert"} THEN NoSheet ELSE sheet[p]

ReadBooking(p) ==
    /\ InStage(p, "sent")
    /\ LET e == [errand[p] EXCEPT !.base = contract, !.at = "read"]
       IN  errand' = [errand EXCEPT ![p] = IF Denied(e) THEN NoErrand ELSE e]
    /\ UNCHANGED <<signing, contract, sheet, given, wiped, retyped>>

\* What a request takes off the row without knowing it: a signature stored since it read
\* the booking, or one that was not on its form, which says the contract is not signed.
Unknown(e) == Marks \ (IF e.signed THEN e.base.marks ELSE e.marks \cap e.base.marks)

\* The write, and the answer; a completed contract is printed and mailed first.
WriteContract(p) ==
    LET e == errand[p]
        marks == pickSignature(e)
    IN  /\ InStage(p, "read")
        /\ contract' = [contract EXCEPT !.marks = marks, !.signed = SyncedFlag(e),
                            !.type = IF e.op \in {"edit", "convert"} THEN e.type ELSE @,
                            !.option = @ /\ e.op \notin {"convert", "finalize"}]
        /\ given' = given \cup marks
        /\ wiped' = (wiped \cup ((contract.marks \ marks) \cap Unknown(e))) \ marks
        /\ retyped' = (TypeFor(e) # contract'.type)
        /\ IF SyncedFlag(e) /\ e.op # "edit"
           THEN errand' = [errand EXCEPT ![p].at = "mail"] /\ UNCHANGED sheet
           ELSE errand' = [errand EXCEPT ![p] = NoErrand] /\ Sheet(p, SheetAfter(p, e))
        /\ UNCHANGED signing

\* Printing fails, or works: only signAndSendContract lets a failure become its answer.
MailContract(p, printed) ==
    /\ InStage(p, "mail")
    /\ errand' = [errand EXCEPT ![p] = NoErrand]
    /\ IF printed \/ errand[p].op # "sign" THEN Sheet(p, SheetAfter(p, errand[p])) ELSE UNCHANGED sheet
    /\ UNCHANGED <<signing, contract, given, wiped, retyped>>

SigningNext ==
    \E p \in Signers :
        \/ \E mode \in {"edit", "convert"}, asOption \in BOOLEAN : OpenSheet(p, mode, asOption)
        \/ CloseSheet(p) \/ ChangeType(p) \/ Untick(p) \/ handleSubmit(p)
        \/ \E marks \in SUBSET Marks : handleConfirmSignature(p, marks) \/ CallFinalize(p, marks)
        \/ ReadBooking(p) \/ WriteContract(p)
        \/ \E printed \in BOOLEAN : MailContract(p, printed)

SigningSpec == SigningInit /\ [][SigningNext]_signingVars

SigningTypeOK ==
    /\ signing \in [at : SUBSET Contracts, calls : Nat, changes : Nat, api : BOOLEAN]
    /\ contract \in Contracts
    /\ sheet \in [Signers -> [mode : Modes, option : BOOLEAN, type : Types, signed : BOOLEAN,
                              marks : SUBSET Marks, loaded : SUBSET Marks]]
    /\ errand \in [Signers -> [op : {"none", "sign", "edit", "convert", "finalize"},
                               at : {"sent", "read", "mail"}, type : Types, signed : BOOLEAN,
                               marks : SUBSET Marks, base : Contracts]]
    /\ given \subseteq Marks /\ wiped \subseteq Marks /\ retyped \in BOOLEAN

\* A signature that a client has given is on the booking, whatever is signed, edited,
\* closed and finalized meanwhile; unless a request took it off that had read the booking
\* before it was there, or came from a form that did not have it.
SignatureKept == given \subseteq contract.marks \cup wiped

\* A contract marked as signed has the signatures that its type of event requires, unless
\* the type was changed while the request that marked it was at work.
SignedIsComplete ==
    contract.signed /\ ~retyped =>
        "A" \in contract.marks /\ (contract.type = "wedding" => "B" \in contract.marks)

\* The flag of a signed contract and the signatures it stands for, written by three
\* requests that each decide on a read of their own.
ContractHolds == SignatureKept /\ SignedIsComplete
=============================================================================
