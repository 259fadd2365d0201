--------------------------- MODULE ProductionForm ---------------------------
(***************************************************************************)
(* The production form of the events in one browser                        *)
(* (EventFormManager.tsx): one editor, used for one booking after another, *)
(* the answers it loads its form from, the scans of the deposit check, and    *)
(* the requests that save the form                                         *)
(* (controllers/eventForm.controller.ts upsertForm).                       *)
(*                                                                         *)
(* A datum is the booking it was entered for.  The form's data (its fields,*)
(* the image of the check and the details read from it), the menu and the  *)
(* chosen image file live in three places of the editor and are reset at   *)
(* different times.  The tables are left out, and what a save does to the  *)
(* prices is BookingFile's.                                                *)
(***************************************************************************)
EXTENDS Naturals, FiniteSets

CONSTANTS
    Occasions,  \* bookings
    Blank,      \* no datum, no booking
    Shifts      \* the traffic mixes: forms opened, menus and checks dealt with, saves

ASSUME ShiftAssumption == Shifts \subseteq [opens : Nat, choices : Nat, saves : Nat] /\ Blank \notin Occasions

VARIABLES
    shift,       \* bounds of this behaviour
    production,  \* the stored forms
    editor,      \* the selected booking, the form's data, the menu and the chosen file
    loads,       \* forms asked for, and their answers
    scans,       \* checks being read: from the file, then by the server
    posting,     \* the save on its way
    early,       \* history: bookings saved before their form had been answered
    strayed,     \* history: bookings whose editor took another's answer
    carried,     \* history: bookings opened with another's menu or check file left
    misread      \* history: bookings whose editor took the scan of another's check

formVars == <<shift, production, editor, loads, scans, posting, early, strayed, carried, misread>>

Data == Occasions \cup {Blank}
NoForm == [there |-> FALSE, fields |-> Blank, menu |-> Blank, image |-> Blank, details |-> Blank]
Forms == [there : BOOLEAN, fields : Data, menu : Data, image : Data, details : Data]
WithoutMenu(b) == [there |-> TRUE, fields |-> b, menu |-> Blank, image |-> b, details |-> b]
NotPosting == [of |-> Blank, leaves |-> FALSE, fields |-> Blank, menu |-> Blank, image |-> Blank,
               details |-> Blank, stored |-> FALSE]

\* What is left out is taken from elsewhere.
Else(datum, kept) == IF datum = Blank THEN kept ELSE datum

FormInit ==
    /\ shift \in Shifts
    /\ \E some \in SUBSET Occasions :
          production = [b \in Occasions |-> IF b \in some THEN WithoutMenu(b) ELSE NoForm]
    /\ editor = [selected |-> Blank, fields |-> Blank, image |-> Blank, details |-> Blank,
                 menu |-> Blank, file |-> Blank]
    /\ loads = {} /\ scans = {} /\ posting = NotPosting
    /\ early = {} /\ strayed = {} /\ carried = {} /\ misread = {}

Foreign(datum, b) == datum \notin {b, Blank}

\* selectBooking, from the list that is shown while no booking is selected; the
\* effect asks for its form.
OpenForm(b) ==
    /\ editor.selected = Blank /\ shift.opens > 0
    /\ shift' = [shift EXCEPT !.opens = @ - 1]
    /\ editor' = [editor EXCEPT !.selected = b]
    /\ loads' = loads \cup {[of |-> b, answer |-> "none", form |-> NoForm]}
    /\ carried' = IF Foreign(editor.file, b) THEN carried \cup {b} ELSE carried
    /\ UNCHANGED <<production, scans, posting, early, strayed, misread>>

\* clearSelected resets the form's data, and neither the menu nor the check file.
Cleared ==
    [editor EXCEPT !.selected = Blank, !.fields = Blank, !.image = Blank, !.details = Blank]

\* handleStepBack; neither a save on its way nor a scan holds it.
LeaveForm ==
    /\ editor.selected # Blank
    /\ editor' = Cleared
    /\ UNCHANGED <<shift, production, loads, scans, posting, early, strayed, carried, misread>>

\* getForm, or a request that fails.
AnswerLoad(load) ==
    /\ load.answer = "none"
    /\ \E answer \in {"form", "failed"} :
          loads' = (loads \ {load})
                   \cup {[load EXCEPT !.answer = answer,
                                      !.form = IF answer = "form" THEN production[load.of] ELSE @]}
    /\ UNCHANGED <<shift, production, editor, scans, posting, early, strayed, carried, misread>>

\* Mutant: a form without a menu leaves the one that is there.
MenuIfAny(load) == IF load.form.menu # Blank THEN load.form.menu ELSE editor.menu

\* setSelectedMenu is called for a form, with or without a menu.
LoadedMenu(load) == IF load.form.there THEN load.form.menu ELSE editor.menu

\* hydrateFormFromBooking: what the stored form lacks comes from the booking.
Hydrated(load) ==
    [editor EXCEPT !.fields = Else(load.form.fields, load.of),
                   !.image = Else(load.form.image, load.of),
                   !.details = Else(load.form.details, load.of)]

\* The answer fills the editor, whatever is selected by then.
LoadArrives(load) ==
    /\ load.answer # "none"
    /\ loads' = loads \ {load}
    /\ editor' = [Hydrated(load) EXCEPT !.menu = LoadedMenu(load)]
    /\ strayed' = IF editor.selected \in {load.of, Blank} THEN strayed
                  ELSE strayed \cup {editor.selected}
    /\ carried' = IF ~load.form.there /\ Foreign(editor.menu, load.of) THEN carried \cup {load.of}
                  ELSE carried
    /\ UNCHANGED <<shift, production, scans, posting, early, misread>>

Chooses ==
    /\ editor.selected # Blank /\ shift.choices > 0
    /\ shift' = [shift EXCEPT !.choices = @ - 1]

\* handleMenuSave.
ChooseMenu ==
    /\ Chooses
    /\ editor' = [editor EXCEPT !.menu = editor.selected]
    /\ UNCHANGED <<production, loads, scans, posting, early, strayed, carried, misread>>

(***************************************************************************)
(* The deposit check.                                                      *)
(***************************************************************************)

CheckOf(b, from) == [of |-> b, from |-> from]

\* handleFileChange: the chosen file is read, and its image then sent to be read.
ChooseCheck ==
    /\ Chooses
    /\ editor' = [editor EXCEPT !.file = editor.selected]
    /\ scans' = scans \cup {CheckOf(editor.selected, "file")}
    /\ UNCHANGED <<production, loads, posting, early, strayed, carried, misread>>

\* The camera's onCapture: the image is there at once.
PhotographCheck ==
    /\ Chooses
    /\ editor' = [editor EXCEPT !.image = editor.selected, !.file = Blank]
    /\ scans' = scans \cup {CheckOf(editor.selected, "server")}
    /\ UNCHANGED <<production, loads, posting, early, strayed, carried, misread>>

DeleteCheck ==
    /\ Chooses
    /\ editor' = [editor EXCEPT !.file = Blank, !.image = Blank, !.details = Blank]
    /\ UNCHANGED <<production, loads, scans, posting, early, strayed, carried, misread>>

\* What a scan brings goes into the form's data, whatever is selected by then.
ScanLands(scan) ==
    /\ misread' = IF editor.selected \in {scan.of, Blank} THEN misread
                  ELSE misread \cup {editor.selected}
    /\ UNCHANGED <<shift, production, loads, posting, early, strayed, carried>>

FileRead(scan) ==
    /\ scan.from = "file" /\ ScanLands(scan)
    /\ editor' = [editor EXCEPT !.image = scan.of]
    /\ scans' = (scans \ {scan}) \cup {CheckOf(scan.of, "server")}

\* An error is written into the details too.
CheckScanned(scan) ==
    /\ scan.from = "server" /\ ScanLands(scan)
    /\ editor' = [editor EXCEPT !.details = scan.of]
    /\ scans' = scans \ {scan}

\* A file that cannot be read.
FileUnread(scan) ==
    /\ scan.from = "file" /\ scans' = scans \ {scan}
    /\ UNCHANGED <<shift, production, editor, loads, posting, early, strayed, carried, misread>>

(***************************************************************************)
(* Saving.                                                                 *)
(***************************************************************************)

\* handleSaveForm leaves the form when it is saved and wants its fields and a check
\* filled in; the saves before a PDF and an email do neither.  The chosen file is sent
\* in place of the image.
ClickSave(leaves) ==
    /\ editor.selected # Blank /\ posting.of = Blank /\ shift.saves > 0
    /\ leaves => editor.fields # Blank /\ (editor.image # Blank \/ editor.file # Blank)
    /\ shift' = [shift EXCEPT !.saves = @ - 1]
    /\ posting' = [of |-> editor.selected, leaves |-> leaves, fields |-> editor.fields,
                   menu |-> editor.menu, image |-> Else(editor.file, editor.image),
                   details |-> editor.details, stored |-> FALSE]
    /\ early' = IF \E load \in loads : load.of = editor.selected THEN early \cup {editor.selected}
                ELSE early
    /\ UNCHANGED <<production, editor, loads, scans, strayed, carried, misread>>

\* upsertForm leaves out what the request leaves out; a menu that is null is
\* written or left out.
StoreForm ==
    /\ posting.of # Blank /\ ~posting.stored
    /\ LET old == production[posting.of] IN
       \E noMenu \in {Blank, old.menu} :
          production' = [production EXCEPT ![posting.of] =
             [there |-> TRUE, fields |-> Else(posting.fields, old.fields),
              menu |-> Else(posting.menu, noMenu), image |-> Else(posting.image, old.image),
              details |-> Else(posting.details, old.details)]]
    /\ posting' = [posting EXCEPT !.stored = TRUE]
    /\ UNCHANGED <<shift, editor, loads, scans, early, strayed, carried, misread>>

\* The answer of a save that leaves closes the editor, whatever is selected by then.
SaveAnswered ==
    /\ posting.stored
    /\ editor' = IF posting.leaves THEN [Cleared EXCEPT !.file = Blank] ELSE editor
    /\ posting' = NotPosting
    /\ UNCHANGED <<shift, production, loads, scans, early, strayed, carried, misread>>

\* An error before or after the form was stored.
SaveFails ==
    /\ posting.of # Blank
    /\ posting' = NotPosting
    /\ UNCHANGED <<shift, production, editor, loads, scans, early, strayed, carried, misread>>

FormNext ==
    \/ \E b \in Occasions : OpenForm(b)
    \/ LeaveForm
    \/ \E load \in loads : AnswerLoad(load) \/ LoadArrives(load)
    \/ ChooseMenu \/ ChooseCheck \/ PhotographCheck \/ DeleteCheck
    \/ \E scan \in scans : FileRead(scan) \/ CheckScanned(scan) \/ FileUnread(scan)
    \/ \E leaves \in BOOLEAN : ClickSave(leaves)
    \/ StoreForm \/ SaveAnswered \/ SaveFails

FormSpec == FormInit /\ [][FormNext]_formVars

(***************************************************************************)
(* Properties.                                                             *)
(***************************************************************************)

\* Type invariant.
FormTypeOK ==
    /\ shift \in [opens : Nat, choices : Nat, saves : Nat]
    /\ production \in [Occasions -> Forms]
    /\ editor \in [selected : Data, fields : Data, image : Data, details : Data, menu : Data,
                   file : Data]
    /\ loads \subseteq [of : Occasions, answer : {"none", "form", "failed"}, form : Forms]
    /\ scans \subseteq [of : Occasions, from : {"file", "server"}]
    /\ posting \in [of : Data, leaves : BOOLEAN, fields : Data, menu : Data, image : Data,
                    details : Data, stored : BOOLEAN]
    /\ early \subseteq Occasions /\ strayed \subseteq Occasions /\ carried \subseteq Occasions
    /\ misread \subseteq Occasions

\* The stored form of a booking holds nothing of another one, in whatever order forms
\* are opened, answered, scanned for and saved.  Excused: a form saved before its own
\* answer, or into which another's answer came; for the menu and the image, one opened
\* with those of another still in the editor; for the image and the details of the
\* check, one that was open when the scan of another's check ended.
FormOfOneBooking ==
    \A b \in Occasions \ (early \cup strayed) :
       /\ ~Foreign(production[b].fields, b)
       /\ b \notin carried => ~Foreign(production[b].menu, b)
       /\ b \notin carried \cup misread => ~Foreign(production[b].image, b)
       /\ b \notin misread => ~Foreign(production[b].details, b)
=============================================================================
