----------------------------- MODULE FileProofs ------------------------------
(***************************************************************************)
(* Theorems about BookingFile, for any number of requests and upgrades, any *)
(* prices and every mix of work, about ProductionForm, for any number of    *)
(* bookings, forms opened and saves, about CalendarCache, for any number of *)
(* screens, changes, nights, outages and lost connections, and about        *)
(* EventCodes, for any number of requests, dates and server starts.         *)
(***************************************************************************)
EXTENDS BookingFile, ProductionForm, CalendarCache, EventCodes, FiniteSetTheorems,
        WellFoundedInduction, TLAPS

HandSteps == {"idle", "form", "edit", "add", "lock", "sum", "saved", "refresh"}
HandJobs == [step : HandSteps, loaded : Nat, keys : SUBSET Keys, seen : Files]

\* Only the addition that sums holds the row, and nobody has written it since.
HolderSeesRow ==
    \A h \in Hands : /\ rowHolder = h <=> hand[h].step = "sum"
                     /\ hand[h].step = "sum" => hand[h].seen = file

\* Nobody has read a sum of additions that were not signed.
SeenWereSigned == \A h \in Hands : hand[h].seen.live <= additions

FileInv == FileTypeOK /\ HolderSeesRow /\ SeenWereSigned /\ PricesAddUp

\* What upgrades cost is a natural number.
LEMMA PricesAreNaturals ==
    ASSUME NEW upgrades \in SUBSET Keys
    PROVE  HallPrice(upgrades) \in Nat /\ SupplierPrice(upgrades) \in Nat
<1>1. IsFiniteSet(upgrades \cap HallKeys) /\ IsFiniteSet(upgrades \cap SupplierKeys)
  BY FileAssumption, FS_Intersection
<1> QED BY <1>1, FS_CardinalityType DEF HallPrice, SupplierPrice

\* What the two writes of single columns make of a row is a row.
LEMMA ColumnsWritten ==
    ASSUME NEW row \in Files, NEW live \in Nat, NEW extras \in Nat, NEW supplier \in Nat,
           NEW total \in Nat, NEW upgrades \in SUBSET Keys
    PROVE  /\ [row EXCEPT !.live = live, !.total = total, !.version = @ + 1] \in Files
           /\ [row EXCEPT !.extras = extras, !.supplier = supplier, !.total = total,
                          !.upgrades = upgrades, !.version = @ + 1] \in Files
<1>1. row.version + 1 \in Nat
  BY DEF Files
<1>2. [row EXCEPT !.live = live, !.total = total, !.version = @ + 1] \in Files
  BY <1>1, Zenon DEF Files
<1>3. [row EXCEPT !.extras = extras, !.supplier = supplier, !.total = total,
                  !.upgrades = upgrades, !.version = @ + 1] \in Files
  BY <1>1, Zenon DEF Files
<1> QED BY <1>2, <1>3

\* A request that goes on leaves the others where they are.
LEMMA HandMoves ==
    ASSUME FileTypeOK, NEW h \in Hands, NEW job \in HandJobs, hand' = [hand EXCEPT ![h] = job]
    PROVE  /\ hand' \in [Hands -> HandJobs]
           /\ hand'[h] = job
           /\ \A q \in Hands \ {h} : hand'[q] = hand[q]
BY DEF FileTypeOK, HandJobs, HandSteps

\* An empty row, nobody at work.
LEMMA FileInitial == FileInit => FileInv
<1> SUFFICES ASSUME FileInit PROVE FileInv
  OBVIOUS
<1>1. NewFile \in Files
  BY DEF NewFile, Files
<1>2. FileTypeOK
  BY <1>1, FileAssumption DEF FileInit, FileTypeOK, Unoccupied
<1>3. HolderSeesRow /\ SeenWereSigned /\ PricesAddUp
  BY FileAssumption DEF FileInit, HolderSeesRow, SeenWereSigned, PricesAddUp, HallOwed, Unoccupied, NewFile
<1> QED BY <1>2, <1>3 DEF FileInv

\* A step of one request that writes nothing and takes no lock.
LEMMA QuietStepKeeps ==
    ASSUME FileInv, NEW h \in Hands, NEW job \in HandJobs,
           hand' = [hand EXCEPT ![h] = job], UNCHANGED <<file, additions, rowHolder, fileHistory>>,
           hand[h].step # "sum", job.step # "sum", job.seen.live <= additions,
           desk' \in [kinds : SUBSET {"edit", "addition", "upgrade", "form"}, work : Nat],
           equipment' \subseteq SupplierKeys
    PROVE  FileInv'
<1>1. /\ hand' \in [Hands -> HandJobs] /\ hand'[h] = job
      /\ \A q \in Hands \ {h} : hand'[q] = hand[q]
  BY HandMoves DEF FileInv
<1>2. FileTypeOK'
  BY <1>1 DEF FileInv, FileTypeOK, fileHistory, HandJobs, HandSteps
<1>3. HolderSeesRow'
  BY <1>1 DEF FileInv, HolderSeesRow
<1>4. PricesAddUp'
  BY DEF FileInv, PricesAddUp, HallOwed, fileHistory
<1>5. SeenWereSigned'
  BY <1>1 DEF FileInv, SeenWereSigned
<1> QED BY <1>2, <1>3, <1>4, <1>5 DEF FileInv

\* The steps that only read, begin or give up.
LEMMA ReadersKeep ==
    ASSUME FileInv, NEW h \in Hands,
           \/ LoadForm(h) \/ ServeEdit(h) \/ RefuseEdit(h)
           \/ AskAddition(h) \/ InsertAddition(h) \/ AdditionFails(h) \/ ReadForForm(h)
           \/ \E key \in Keys : ReadForUpgrade(h, key)
           \/ \E ticked \in SUBSET SupplierKeys : SaveForm(h, ticked)
    PROVE  FileInv'
<1>1. /\ hand[h] \in HandJobs /\ file \in Files /\ equipment \subseteq SupplierKeys
      /\ file.version \in Nat
      /\ desk \in [kinds : SUBSET {"edit", "addition", "upgrade", "form"}, work : Nat]
  BY DEF FileInv, FileTypeOK, HandJobs, HandSteps, Files
<1>2. /\ Unoccupied \in HandJobs /\ Unoccupied.step = "idle"
      /\ Unoccupied.seen.live <= additions
  BY DEF Unoccupied, NewFile, HandJobs, HandSteps, Files, FileInv, FileTypeOK
<1>3. file.live <= additions /\ hand[h].seen.live <= additions
  BY DEF FileInv, PricesAddUp, SeenWereSigned
<1>4. desk.work > 0 => [desk EXCEPT !.work = @ - 1]
                          \in [kinds : SUBSET {"edit", "addition", "upgrade", "form"}, work : Nat]
  BY <1>1
<1>5. CASE LoadForm(h)
  <2> DEFINE job == [Unoccupied EXCEPT !.step = "form", !.loaded = file.version]
  <2>1. job \in HandJobs /\ job.step = "form" /\ job.seen.live <= additions
    BY <1>1, <1>2 DEF Unoccupied, HandJobs, HandSteps
  <2> QED BY <1>1, <1>4, <1>5, <2>1, QuietStepKeeps DEF LoadForm, Takes
<1>6. CASE ServeEdit(h)
  <2> DEFINE job == [hand[h] EXCEPT !.step = "edit", !.seen = file]
  <2>1. job \in HandJobs /\ job.step = "edit" /\ job.seen.live <= additions
    BY <1>1, <1>3 DEF HandJobs, HandSteps
  <2>2. hand' = [hand EXCEPT ![h] = job]
    BY <1>6 DEF ServeEdit
  <2> QED BY <1>1, <1>6, <2>1, <2>2, QuietStepKeeps DEF ServeEdit
<1>7. CASE RefuseEdit(h) \/ AdditionFails(h)
  BY <1>1, <1>2, <1>7, QuietStepKeeps DEF RefuseEdit, AdditionFails, Answer
<1>8. CASE AskAddition(h)
  <2> DEFINE job == [Unoccupied EXCEPT !.step = "add"]
  <2>1. job \in HandJobs /\ job.step = "add" /\ job.seen.live <= additions
    BY <1>2 DEF Unoccupied, HandJobs, HandSteps
  <2> QED BY <1>1, <1>4, <1>8, <2>1, QuietStepKeeps DEF AskAddition, Takes
<1>9. CASE InsertAddition(h)
  <2> DEFINE job == [hand[h] EXCEPT !.step = "lock"]
  <2>1. job \in HandJobs /\ job.step = "lock" /\ job.seen.live <= additions
    BY <1>1, <1>3 DEF HandJobs, HandSteps
  <2>2. hand' = [hand EXCEPT ![h] = job]
    BY <1>9 DEF InsertAddition
  <2> QED BY <1>1, <1>9, <2>1, <2>2, QuietStepKeeps DEF InsertAddition
<1>10. CASE ReadForForm(h)
  <2> DEFINE job == [hand[h] EXCEPT !.step = "refresh", !.seen = file]
  <2>1. job \in HandJobs /\ job.step = "refresh" /\ job.seen.live <= additions
    BY <1>1, <1>3 DEF HandJobs, HandSteps
  <2>2. hand' = [hand EXCEPT ![h] = job]
    BY <1>10 DEF ReadForForm
  <2> QED BY <1>1, <1>10, <2>1, <2>2, QuietStepKeeps DEF ReadForForm
<1>11. ASSUME NEW key \in Keys, ReadForUpgrade(h, key) PROVE FileInv'
  <2> DEFINE job == [Unoccupied EXCEPT !.step = "refresh", !.keys = equipment \cup {key},
                                       !.seen = file]
  <2>1. job \in HandJobs /\ job.step = "refresh" /\ job.seen.live <= additions
    BY <1>1, <1>2, <1>3 DEF Unoccupied, HandJobs, HandSteps, Keys
  <2> QED BY <1>1, <1>4, <1>11, <2>1, QuietStepKeeps DEF ReadForUpgrade, Takes
<1>12. ASSUME NEW ticked \in SUBSET SupplierKeys, SaveForm(h, ticked) PROVE FileInv'
  <2> DEFINE job == [Unoccupied EXCEPT !.step = "saved", !.keys = ticked]
  <2>1. job \in HandJobs /\ job.step = "saved" /\ job.seen.live <= additions
    BY <1>2 DEF Unoccupied, HandJobs, HandSteps, Keys
  <2> QED BY <1>1, <1>4, <1>12, <2>1, QuietStepKeeps DEF SaveForm, Takes
<1> QED BY <1>5, <1>6, <1>7, <1>8, <1>9, <1>10, <1>11, <1>12

\* The row is locked: what its holder sees is the row.
LEMMA LockKeeps ==
    ASSUME FileInv, NEW h \in Hands, LockRow(h) PROVE FileInv'
<1> DEFINE job == [hand[h] EXCEPT !.step = "sum", !.seen = file]
<1>1. /\ job \in HandJobs /\ job.step = "sum" /\ job.seen = file
      /\ hand' = [hand EXCEPT ![h] = job]
  BY DEF LockRow, FileInv, FileTypeOK, HandJobs, HandSteps
<1>2. /\ hand' \in [Hands -> HandJobs] /\ hand'[h] = job
      /\ \A q \in Hands \ {h} : hand'[q] = hand[q]
  BY <1>1, HandMoves DEF FileInv
<1>3. /\ UNCHANGED <<desk, file, equipment, additions, fileHistory>>
      /\ rowHolder' = h /\ rowHolder = NoHand
  <2>1. rowHolder # h
    BY DEF LockRow, FileInv, HolderSeesRow
  <2> QED BY <2>1 DEF LockRow, Lockable, RowFree
<1>4. FileTypeOK'
  BY <1>2, <1>3 DEF FileInv, FileTypeOK, fileHistory, HandJobs, HandSteps
<1>5. HolderSeesRow'
  BY <1>1, <1>2, <1>3, FileAssumption DEF FileInv, HolderSeesRow
<1>6. PricesAddUp'
  BY <1>3 DEF FileInv, PricesAddUp, HallOwed, fileHistory
<1>7. SeenWereSigned'
  BY <1>1, <1>2, <1>3 DEF FileInv, SeenWereSigned, PricesAddUp
<1> QED BY <1>4, <1>5, <1>6, <1>7 DEF FileInv

\* A write of a request that does not hold the row finds it free.
LEMMA NobodySums ==
    ASSUME FileInv, NEW h \in Hands, RowFree(h), hand[h].step # "sum"
    PROVE  rowHolder = NoHand /\ \A q \in Hands : hand[q].step # "sum"
BY FileAssumption DEF FileInv, HolderSeesRow, RowFree

\* An edit is written.
LEMMA EditKeeps ==
    ASSUME FileInv, NEW h \in Hands, NEW base \in Bases, NEW upgrades \in SUBSET Keys,
           WriteEdit(h, base, upgrades)
    PROVE  FileInv'
<1>1. /\ file' = Priced(base, upgrades, hand[h].seen.live)
      /\ hand' = [hand EXCEPT ![h] = Unoccupied] /\ hand[h].step = "edit"
      /\ UNCHANGED <<desk, equipment, additions, rowHolder>>
      /\ lastEdit' = [version |-> file.version + 1, beside |-> Others(h, "edit")]
  BY DEF WriteEdit, Answer
<1>2. /\ hand[h] \in HandJobs /\ hand[h].seen.live \in Nat /\ base \in Nat
      /\ file.version \in Nat /\ HallPrice(upgrades) \in Nat /\ SupplierPrice(upgrades) \in Nat
  BY FileAssumption, PricesAreNaturals DEF FileInv, FileTypeOK, HandJobs, HandSteps, Files
<1>3. Unoccupied \in HandJobs /\ Unoccupied.step = "idle"
  BY DEF Unoccupied, NewFile, HandJobs, HandSteps, Files
<1>4. /\ hand' \in [Hands -> HandJobs] /\ hand'[h] = Unoccupied
      /\ \A q \in Hands \ {h} : hand'[q] = hand[q]
  BY <1>1, <1>3, HandMoves DEF FileInv
<1>5. rowHolder = NoHand /\ \A q \in Hands : hand[q].step # "sum"
  BY <1>1, NobodySums DEF WriteEdit
<1>6. file' \in Files /\ file'.version = file.version + 1
  BY <1>1, <1>2 DEF Priced, Files
<1>7. lastEdit' \in [version : Nat, beside : SUBSET Hands]
  BY <1>1, <1>2 DEF Others
<1>8. FileTypeOK'
  BY <1>1, <1>4, <1>6, <1>7 DEF WriteEdit, FileInv, FileTypeOK, HandJobs, HandSteps
<1>9. HolderSeesRow'
  BY <1>1, <1>3, <1>4, <1>5, FileAssumption DEF HolderSeesRow
<1>10. PricesAddUp'
  <2>1. /\ file'.live = hand[h].seen.live /\ file'.base = base
        /\ file'.extras = HallPrice(upgrades)
        /\ file'.total = base + HallPrice(upgrades) + hand[h].seen.live
    BY <1>1 DEF Priced
  <2>2. ~overrun' => file'.live = additions'
    BY <1>1, <2>1 DEF WriteEdit, FileInv, PricesAddUp
  <2>3. file'.total = file'.base + file'.extras + file'.live /\ reckoned' = "hall"
    BY <1>2, <2>1 DEF WriteEdit
  <2>4. file'.live <= additions'
    BY <1>1, <2>1 DEF FileInv, SeenWereSigned
  <2> QED BY <2>2, <2>3, <2>4 DEF PricesAddUp, HallOwed
<1>11. SeenWereSigned'
  BY <1>1, <1>4, FileAssumption DEF FileInv, SeenWereSigned, FileTypeOK, Unoccupied, NewFile
<1> QED BY <1>8, <1>9, <1>10, <1>11 DEF FileInv

\* A live addition is written under the lock: the sums it read are the row's.
LEMMA AdditionKeeps ==
    ASSUME FileInv, NEW h \in Hands, WriteAddition(h) PROVE FileInv'
<1>1. /\ hand' = [hand EXCEPT ![h] = Unoccupied]
      /\ additions' = additions + 1 /\ rowHolder' = NoHand
      /\ UNCHANGED <<desk, equipment, overrun, lastEdit, blind>> /\ reckoned' = "hall"
      /\ file' = [file EXCEPT !.live = file.live + 1, !.total = TotalWithAddition(file),
                              !.version = @ + 1]
  BY DEF WriteAddition, Answer, FileInv, HolderSeesRow
<1>2. /\ file \in Files /\ additions \in Nat /\ file.version \in Nat /\ lastEdit.version \in Nat
      /\ file.base \in Nat /\ file.extras \in Nat /\ file.live \in Nat
  BY DEF FileInv, FileTypeOK, Files
<1>3. Unoccupied \in HandJobs /\ Unoccupied.step = "idle"
  BY DEF Unoccupied, NewFile, HandJobs, HandSteps, Files
<1>4. /\ hand' \in [Hands -> HandJobs] /\ hand'[h] = Unoccupied
      /\ \A q \in Hands \ {h} : hand'[q] = hand[q]
  BY <1>1, <1>3, HandMoves DEF FileInv
<1>5. /\ file' \in Files /\ file'.version = file.version + 1 /\ file'.live = file.live + 1
      /\ file'.base = file.base /\ file'.extras = file.extras
      /\ file'.total = file.base + file.extras + file.live + 1
  <2>1. TotalWithAddition(file) = file.base + file.extras + file.live + 1
    BY DEF TotalWithAddition
  <2>2. file.live + 1 \in Nat /\ TotalWithAddition(file) \in Nat
    BY <1>2, <2>1
  <2>3. file' \in Files
    BY <1>1, <1>2, <2>2, ColumnsWritten, PricesAreNaturals
  <2> QED BY <1>1, <1>2, <2>1, <2>3 DEF Files
<1>6. FileTypeOK'
  <2>1. hand' \in [Hands -> HandJobs] /\ file' \in Files /\ additions' \in Nat
    BY <1>1, <1>2, <1>4, <1>5
  <2> QED BY <1>1, <2>1 DEF FileInv, FileTypeOK, HandJobs, HandSteps
<1>7. HolderSeesRow'
  <2>1. hand[h].step = "sum"
    BY DEF WriteAddition
  <2>2. \A q \in Hands \ {h} : hand[q].step # "sum"
    BY <2>1 DEF FileInv, HolderSeesRow
  <2> QED BY <1>1, <1>3, <1>4, <2>2, FileAssumption DEF HolderSeesRow
<1>8. PricesAddUp'
  BY <1>1, <1>2, <1>5 DEF FileInv, PricesAddUp, HallOwed
<1>9. SeenWereSigned'
  <2>1. \A q \in Hands : hand[q].seen.live \in Nat /\ hand[q].seen.live <= additions
    BY DEF FileInv, SeenWereSigned, FileTypeOK, Files
  <2> QED BY <1>1, <1>2, <1>4, <2>1 DEF SeenWereSigned, Unoccupied, NewFile
<1> QED BY <1>6, <1>7, <1>8, <1>9 DEF FileInv

\* The refresh writes neither the base nor the sum of the additions.
LEMMA RefreshKeeps ==
    ASSUME FileInv, NEW h \in Hands, WriteRefresh(h) PROVE FileInv'
<1> DEFINE seen == hand[h].seen
           upgrades == seen.upgrades \cup hand[h].keys
<1>1. /\ hand' = [hand EXCEPT ![h] = Unoccupied] /\ hand[h].step = "refresh" /\ RowFree(h)
      /\ UNCHANGED <<desk, equipment, additions, rowHolder, overrun, lastEdit, blind>>
      /\ reckoned' = IF seen.base = file.base /\ seen.live = file.live THEN "refresh" ELSE "stale"
      /\ file' = [file EXCEPT !.extras = HallPrice(upgrades), !.supplier = SupplierPrice(upgrades),
                              !.total = seen.base + HallPrice(upgrades) + SupplierPrice(upgrades)
                                        + seen.live,
                              !.upgrades = upgrades, !.version = @ + 1]
  BY DEF WriteRefresh, Answer
<1>2. /\ file \in Files /\ seen \in Files /\ upgrades \in SUBSET Keys
      /\ file.version \in Nat /\ lastEdit.version \in Nat
      /\ seen.base \in Nat /\ seen.live \in Nat
  BY DEF FileInv, FileTypeOK, HandJobs, HandSteps, Files
<1>3. HallPrice(upgrades) \in Nat /\ SupplierPrice(upgrades) \in Nat
  BY <1>2, PricesAreNaturals
<1>4. Unoccupied \in HandJobs /\ Unoccupied.step = "idle"
  BY DEF Unoccupied, NewFile, HandJobs, HandSteps, Files
<1>5. /\ hand' \in [Hands -> HandJobs] /\ hand'[h] = Unoccupied
      /\ \A q \in Hands \ {h} : hand'[q] = hand[q]
  BY <1>1, <1>4, HandMoves DEF FileInv
<1>6. rowHolder = NoHand /\ \A q \in Hands : hand[q].step # "sum"
  BY <1>1, NobodySums
<1> HIDE DEF upgrades
<1>7. /\ file' \in Files /\ file'.version = file.version + 1 /\ file'.live = file.live
      /\ file'.base = file.base /\ file'.extras = HallPrice(upgrades)
      /\ file'.supplier = SupplierPrice(upgrades)
      /\ file'.total = seen.base + HallPrice(upgrades) + SupplierPrice(upgrades) + seen.live
  <2> DEFINE total == seen.base + HallPrice(upgrades) + SupplierPrice(upgrades) + seen.live
  <2>1. total \in Nat
    BY <1>2, <1>3
  <2>2. file' \in Files
    BY <1>1, <1>2, <1>3, <2>1, ColumnsWritten
  <2> QED BY <1>1, <1>2, <2>2 DEF Files
<1>8. FileTypeOK'
  BY <1>1, <1>5, <1>7 DEF FileInv, FileTypeOK, HandJobs, HandSteps
<1>9. HolderSeesRow'
  BY <1>1, <1>4, <1>5, <1>6, FileAssumption DEF HolderSeesRow
<1>10. PricesAddUp'
  <2>1. reckoned' = "refresh" =>
           file'.total = file'.base + file'.extras + file'.live + file'.supplier
    <3>1. reckoned' = "refresh" => seen.base = file.base /\ seen.live = file.live
      BY <1>1
    <3> QED BY <1>2, <1>3, <1>7, <3>1
  <2>2. reckoned' # "hall"
    BY <1>1
  <2> QED BY <1>1, <1>7, <2>1, <2>2 DEF FileInv, PricesAddUp, HallOwed
<1>11. SeenWereSigned'
  BY <1>1, <1>5 DEF FileInv, SeenWereSigned, FileTypeOK, Unoccupied, NewFile
<1> QED BY <1>8, <1>9, <1>10, <1>11 DEF FileInv

LEMMA FileStep == FileInv /\ [FileNext]_fileVars => FileInv'
<1> SUFFICES ASSUME FileInv, [FileNext]_fileVars PROVE FileInv'
  OBVIOUS
<1>1. CASE UNCHANGED fileVars
  BY <1>1 DEF fileVars, FileInv, FileTypeOK, HolderSeesRow, SeenWereSigned, PricesAddUp, HallOwed
<1>2. CASE FileNext
  BY <1>2, ReadersKeep, LockKeeps, EditKeeps, AdditionKeeps, RefreshKeeps DEF FileNext
<1> QED BY <1>1, <1>2

\* The types of the booking's file.
THEOREM FileTypes == FileSpec => []FileTypeOK
BY FileInitial, FileStep, PTL DEF FileSpec, FileInv

\* The row never shows more live additions than were signed, nor fewer unless an edit
\* wrote back an older sum; and its total is the one its last writer computes, the hall's
\* or the hall's with the suppliers', unless the row changed under the computation: for
\* any number of requests and any upgrades.
THEOREM PricesAlwaysAddUp == FileSpec => []PricesAddUp
BY FileInitial, FileStep, PTL DEF FileSpec, FileInv

(***************************************************************************)
(* The production form.                                                    *)
(***************************************************************************)

\* Neither excused by an early save nor by another's answer.
Tidy(b) == b \notin early \cup strayed

\* The data of a form are the booking's own, as far as they are not excused.
Own(b, data) ==
    Tidy(b) => /\ ~Foreign(data.fields, b)
               /\ b \notin carried => ~Foreign(data.menu, b)
               /\ b \notin carried \cup misread => ~Foreign(data.image, b)
               /\ b \notin misread => ~Foreign(data.details, b)

\* The editor, once no answer for the booking in it is awaited.
EditorOwn ==
    \A b \in Occasions : editor.selected = b =>
       /\ b \notin carried => ~Foreign(editor.file, b)
       /\ (\A load \in loads : load.of # b) => Own(b, editor)

FormInv ==
    /\ FormTypeOK
    /\ \A b \in Occasions : Own(b, production[b])
    /\ \A load \in loads : Own(load.of, load.form)
    /\ posting.of # Blank => Own(posting.of, posting)
    /\ EditorOwn

Editors ==
    [selected : Data, fields : Data, image : Data, details : Data, menu : Data, file : Data]
Postings ==
    [of : Data, leaves : BOOLEAN, fields : Data, menu : Data, image : Data, details : Data,
     stored : BOOLEAN]
Loads == [of : Occasions, answer : {"none", "form", "failed"}, form : Forms]

\* Excuses are never taken back, so what was a booking's own stays so.
LEMMA OwnStays ==
    ASSUME NEW b, NEW data, Own(b, data), early \subseteq early', strayed \subseteq strayed',
           carried \subseteq carried', misread \subseteq misread'
    PROVE  Own(b, data)'
BY DEF Own, Tidy, Foreign

\* Stored forms are their bookings' own at first, and the editor is empty.
LEMMA FormInitial == FormInit => FormInv
<1> SUFFICES ASSUME FormInit PROVE FormInv
  OBVIOUS
<1>1. PICK some \in SUBSET Occasions :
         production = [b \in Occasions |-> IF b \in some THEN WithoutMenu(b) ELSE NoForm]
  BY DEF FormInit
<1>2. \A b \in Occasions : production[b] \in Forms /\ Own(b, production[b])
  BY <1>1 DEF WithoutMenu, NoForm, Forms, Data, Own, Foreign
<1>3. FormTypeOK
  BY <1>1, <1>2, ShiftAssumption DEF FormInit, FormTypeOK, NotPosting, Data
<1> QED BY <1>2, <1>3, ShiftAssumption DEF FormInit, FormInv, EditorOwn, NotPosting

\* A form is opened: what another left in the editor is noted, and its own answer is
\* awaited.
LEMMA FormOpenKeeps ==
    ASSUME FormInv, NEW b \in Occasions, OpenForm(b) PROVE FormInv'
<1> DEFINE new == [of |-> b, answer |-> "none", form |-> NoForm]
<1>1. /\ loads' = loads \cup {new} /\ editor' = [editor EXCEPT !.selected = b]
      /\ UNCHANGED <<production, scans, posting, early, strayed, misread>>
      /\ carried' = IF Foreign(editor.file, b) THEN carried \cup {b} ELSE carried
  BY DEF OpenForm
<1>2. new \in Loads
  BY DEF NoForm, Forms, Data, Loads
<1>3. FormTypeOK'
  BY <1>1, <1>2 DEF OpenForm, FormInv, FormTypeOK, Data, Loads
<1>4. Own(b, NoForm)'
  BY DEF Own, NoForm, Foreign
<1>5. /\ \A c \in Occasions : Own(c, production[c])'
      /\ \A load \in loads' : Own(load.of, load.form)'
      /\ posting.of # Blank => Own(posting.of, posting)'
  BY <1>1, <1>4, OwnStays DEF FormInv
<1>6. EditorOwn'
  <2>1. editor'.selected = b /\ editor'.file = editor.file
    BY <1>1 DEF FormInv, FormTypeOK
  <2>2. new \in loads' /\ new.of = b
    BY <1>1
  <2>3. b \notin carried' => ~Foreign(editor.file, b)
    BY <1>1
  <2> QED BY <2>1, <2>2, <2>3 DEF EditorOwn, Foreign
<1> QED BY <1>1, <1>3, <1>5, <1>6 DEF FormInv

\* The selected booking's own, or nothing, is put into the editor.
LEMMA EditedKeeps ==
    ASSUME FormInv,
           UNCHANGED <<production, loads, posting, early, strayed, carried, misread>>,
           FormTypeOK', editor'.selected \in {editor.selected, Blank},
           editor'.fields \in {editor.fields, editor.selected, Blank},
           editor'.menu \in {editor.menu, editor.selected, Blank},
           editor'.image \in {editor.image, editor.selected, Blank},
           editor'.details \in {editor.details, editor.selected, Blank},
           editor'.file \in {editor.file, editor.selected, Blank}
    PROVE  FormInv'
<1>1. EditorOwn'
  BY ShiftAssumption DEF FormInv, EditorOwn, Own, Tidy, Foreign
<1> QED BY <1>1 DEF FormInv, Own, Tidy

\* The editor is left, or filled in by hand with the selected booking's own.
LEMMA HandKeeps ==
    ASSUME FormInv,
           LeaveForm \/ ChooseMenu \/ ChooseCheck \/ PhotographCheck \/ DeleteCheck
    PROVE  FormInv'
<1>1. UNCHANGED <<production, loads, posting, early, strayed, carried, misread>>
  BY DEF LeaveForm, ChooseMenu, ChooseCheck, PhotographCheck, DeleteCheck
<1>2. editor \in Editors
  BY DEF FormInv, FormTypeOK, Editors
<1>3. shift' \in [opens : Nat, choices : Nat, saves : Nat]
  BY DEF FormInv, FormTypeOK, LeaveForm, ChooseMenu, ChooseCheck, PhotographCheck, DeleteCheck, Chooses
<1>4. scans' \subseteq [of : Occasions, from : {"file", "server"}]
  BY <1>2 DEF FormInv, FormTypeOK, LeaveForm, ChooseMenu, ChooseCheck, PhotographCheck, DeleteCheck,
     Chooses, CheckOf, Editors, Data
<1>5. /\ editor'.selected \in {editor.selected, Blank}
      /\ editor'.fields \in {editor.fields, editor.selected, Blank}
      /\ editor'.menu \in {editor.menu, editor.selected, Blank}
      /\ editor'.image \in {editor.image, editor.selected, Blank}
      /\ editor'.details \in {editor.details, editor.selected, Blank}
      /\ editor'.file \in {editor.file, editor.selected, Blank}
      /\ editor' \in Editors
  BY <1>2 DEF LeaveForm, ChooseMenu, ChooseCheck, PhotographCheck, DeleteCheck, Cleared, Editors, Data
<1>6. FormTypeOK'
  BY <1>1, <1>3, <1>4, <1>5 DEF FormInv, FormTypeOK, Editors
<1> QED BY <1>1, <1>5, <1>6, EditedKeeps

\* A scan's step fills the editor; in the form of another booking it is noted.
LEMMA CheckScanKeeps ==
    ASSUME FormInv, NEW scan \in scans, FileRead(scan) \/ CheckScanned(scan)
    PROVE  FormInv'
<1>1. /\ UNCHANGED <<shift, production, loads, posting, early, strayed, carried>>
      /\ misread' = IF editor.selected \in {scan.of, Blank} THEN misread
                    ELSE misread \cup {editor.selected}
  BY DEF FileRead, CheckScanned, ScanLands
<1>2. editor \in Editors /\ scan \in [of : Occasions, from : {"file", "server"}]
  BY DEF FormInv, FormTypeOK, Editors
<1>3. /\ editor' \in Editors /\ editor'.selected = editor.selected
      /\ editor'.fields = editor.fields /\ editor'.menu = editor.menu
      /\ editor'.image \in {editor.image, scan.of}
      /\ editor'.details \in {editor.details, scan.of} /\ editor'.file = editor.file
  BY <1>2 DEF FileRead, CheckScanned, Editors, Data
<1>4. scans' \subseteq [of : Occasions, from : {"file", "server"}] /\ misread' \subseteq Occasions
  BY <1>1, <1>2 DEF FileRead, CheckScanned, CheckOf, FormInv, FormTypeOK, Editors, Data
<1>5. FormTypeOK'
  BY <1>1, <1>3, <1>4 DEF FormInv, FormTypeOK, Editors
<1>6. /\ \A b \in Occasions : Own(b, production[b])'
      /\ \A load \in loads : Own(load.of, load.form)'
      /\ posting.of # Blank => Own(posting.of, posting)'
  BY <1>1, OwnStays DEF FormInv
<1>7. EditorOwn'
  <2>1. ASSUME NEW b \in Occasions, editor.selected = b
        PROVE  b \in misread' \/ scan.of = b
    BY <1>1, <2>1, ShiftAssumption
  <2> QED BY <1>1, <1>3, <2>1 DEF FormInv, EditorOwn, Own, Tidy, Foreign
<1> QED BY <1>1, <1>5, <1>6, <1>7 DEF FormInv

\* A file that cannot be read brings nothing.
LEMMA UnreadKeeps ==
    ASSUME FormInv, NEW scan \in scans, FileUnread(scan) PROVE FormInv'
BY DEF FileUnread, FormInv, FormTypeOK, Own, Tidy, EditorOwn

\* An answer carries the stored form of its booking.
LEMMA ChangeAnswerKeeps ==
    ASSUME FormInv, NEW load \in loads, AnswerLoad(load) PROVE FormInv'
<1>1. UNCHANGED <<shift, production, editor, scans, posting, early, strayed, carried, misread>>
  BY DEF AnswerLoad
<1>2. PICK answer \in {"form", "failed"} :
         loads' = (loads \ {load})
                   \cup {[load EXCEPT !.answer = answer,
                                      !.form = IF answer = "form" THEN production[load.of] ELSE @]}
  BY DEF AnswerLoad
<1> DEFINE new == [load EXCEPT !.answer = answer,
                               !.form = IF answer = "form" THEN production[load.of] ELSE @]
<1>3. load \in Loads /\ production[load.of] \in Forms
  BY DEF FormInv, FormTypeOK, Loads
<1>4. /\ new \in Loads
      /\ new.of = load.of /\ new.form \in {load.form, production[load.of]}
  BY <1>3 DEF Loads
<1>5. Own(load.of, new.form)
  BY <1>3, <1>4 DEF FormInv, Loads
<1> HIDE DEF new
<1>6. FormTypeOK'
  BY <1>1, <1>2, <1>4 DEF FormInv, FormTypeOK, new, Loads
<1>7. \A other \in loads' : Own(other.of, other.form)
  BY <1>2, <1>4, <1>5 DEF FormInv, new
<1>8. EditorOwn'
  BY <1>1, <1>2, <1>4 DEF FormInv, EditorOwn, Own, Tidy, new
<1> QED BY <1>1, <1>6, <1>7, <1>8 DEF FormInv, Own, Tidy

\* An answer fills the editor; one that is another's is noted.
LEMMA ArrivalKeeps ==
    ASSUME FormInv, NEW load \in loads, LoadArrives(load) PROVE FormInv'
<1>1. /\ UNCHANGED <<shift, production, scans, posting, early, misread>> /\ loads' = loads \ {load}
      /\ strayed \subseteq strayed' /\ carried \subseteq carried'
      /\ editor.selected \notin {load.of, Blank} => editor.selected \in strayed'
      /\ ~load.form.there /\ Foreign(editor.menu, load.of) => load.of \in carried'
  BY DEF LoadArrives
<1>2. load \in Loads /\ editor \in Editors
  BY DEF FormInv, FormTypeOK, Loads, Editors
<1>3. load.of \in Occasions /\ load.form \in Forms
  BY <1>2 DEF Loads
<1>4. /\ editor' \in Editors
      /\ editor'.selected = editor.selected /\ editor'.file = editor.file
      /\ editor'.fields = Else(load.form.fields, load.of)
      /\ editor'.image = Else(load.form.image, load.of)
      /\ editor'.details = Else(load.form.details, load.of)
      /\ editor'.menu = LoadedMenu(load)
  BY <1>2, <1>3 DEF LoadArrives, Hydrated, Else, LoadedMenu, Editors, Forms, Data
<1>5. strayed' \subseteq Occasions /\ carried' \subseteq Occasions
  BY <1>2, <1>3 DEF LoadArrives, FormInv, FormTypeOK, Editors, Data
<1>6. FormTypeOK'
  BY <1>1, <1>4, <1>5 DEF FormInv, FormTypeOK, Editors
<1>7. /\ \A b \in Occasions : Own(b, production[b])'
      /\ \A other \in loads' : Own(other.of, other.form)'
      /\ posting.of # Blank => Own(posting.of, posting)'
  BY <1>1, OwnStays DEF FormInv
<1>8. EditorOwn'
  <2> SUFFICES ASSUME NEW b \in Occasions, editor.selected = b
               PROVE  (b \notin carried' => ~Foreign(editor.file, b)) /\ Own(b, editor)'
    BY <1>4 DEF EditorOwn, Foreign
  <2>1. b \notin carried' => ~Foreign(editor.file, b)
    BY <1>1 DEF FormInv, EditorOwn
  <2>2. ASSUME Tidy(b)'
        PROVE  Own(b, editor)'
    <3>1. load.of = b /\ Tidy(b)
      BY <1>1, <2>2, ShiftAssumption DEF Tidy
    <3>2. Own(b, load.form)
      BY <3>1 DEF FormInv
    <3> QED BY <1>1, <1>4, <3>1, <3>2 DEF Own, Else, LoadedMenu, Foreign
  <2> QED BY <2>1, <2>2 DEF Own
<1> QED BY <1>1, <1>6, <1>7, <1>8 DEF FormInv

\* A save takes what the editor holds; one before its form's answer is noted.
LEMMA ClickKeeps ==
    ASSUME FormInv, NEW leaves \in BOOLEAN, ClickSave(leaves) PROVE FormInv'
<1> DEFINE b == editor.selected
<1>1. /\ UNCHANGED <<production, editor, loads, scans, strayed, carried, misread>> /\ b # Blank
      /\ early \subseteq early'
      /\ (\E load \in loads : load.of = b) => b \in early'
      /\ shift.saves > 0 /\ shift' = [shift EXCEPT !.saves = @ - 1]
  BY DEF ClickSave
<1>2. editor \in Editors /\ b \in Occasions
  BY <1>1 DEF FormInv, FormTypeOK, Editors, Data
<1>3. posting' = [of |-> b, leaves |-> leaves, fields |-> editor.fields, menu |-> editor.menu,
                  image |-> Else(editor.file, editor.image), details |-> editor.details,
                  stored |-> FALSE]
  BY DEF ClickSave
<1>4. posting' \in Postings
  BY <1>2, <1>3 DEF Postings, Editors, Else
<1>5. early' \subseteq Occasions
  BY <1>2 DEF ClickSave, FormInv, FormTypeOK
<1>6. shift' \in [opens : Nat, choices : Nat, saves : Nat]
  BY <1>1 DEF FormInv, FormTypeOK
<1>7. FormTypeOK'
  BY <1>1, <1>4, <1>5, <1>6 DEF FormInv, FormTypeOK, Postings
<1>8. /\ \A c \in Occasions : Own(c, production[c])'
      /\ \A load \in loads : Own(load.of, load.form)'
  BY <1>1, OwnStays DEF FormInv
<1>9. Own(b, posting)'
  <2>1. Tidy(b)' => Tidy(b) /\ \A load \in loads : load.of # b
    BY <1>1 DEF Tidy
  <2>2. /\ b \notin carried => ~Foreign(editor.file, b)
        /\ Tidy(b)' => Own(b, editor)
    BY <1>2, <2>1 DEF FormInv, EditorOwn
  <2> QED BY <1>1, <1>3, <2>1, <2>2 DEF Own, Else, Foreign
<1>10. EditorOwn'
  BY <1>1 DEF FormInv, EditorOwn, Own, Tidy
<1> QED BY <1>1, <1>3, <1>7, <1>8, <1>9, <1>10 DEF FormInv

\* What is stored is the save's, and where it is silent, what was stored.
LEMMA StoreKeeps ==
    ASSUME FormInv, StoreForm PROVE FormInv'
<1> DEFINE old == production[posting.of]
<1>1. /\ UNCHANGED <<shift, editor, loads, scans, early, strayed, carried, misread>>
      /\ posting.of # Blank /\ posting' = [posting EXCEPT !.stored = TRUE]
  BY DEF StoreForm
<1>2. PICK noMenu \in {Blank, old.menu} :
         production' = [production EXCEPT ![posting.of] =
            [there |-> TRUE, fields |-> Else(posting.fields, old.fields),
             menu |-> Else(posting.menu, noMenu), image |-> Else(posting.image, old.image),
             details |-> Else(posting.details, old.details)]]
  BY DEF StoreForm
<1>3. /\ posting.of \in Occasions /\ old \in Forms /\ posting \in Postings
      /\ production \in [Occasions -> Forms]
  BY <1>1 DEF FormInv, FormTypeOK, Data, Postings
<1> DEFINE new == [there |-> TRUE, fields |-> Else(posting.fields, old.fields),
                   menu |-> Else(posting.menu, noMenu), image |-> Else(posting.image, old.image),
                   details |-> Else(posting.details, old.details)]
<1>4. new \in Forms
  BY <1>3 DEF Forms, Postings, Data, Else
<1>5. Own(posting.of, new)
  <2>1. Own(posting.of, posting) /\ Own(posting.of, old)
    BY <1>1, <1>3 DEF FormInv
  <2> QED BY <2>1 DEF Own, Else, Foreign
<1>6. /\ production' = [production EXCEPT ![posting.of] = new]
      /\ production' \in [Occasions -> Forms]
  BY <1>2, <1>3, <1>4
<1> HIDE DEF new
<1>7. FormTypeOK'
  BY <1>1, <1>3, <1>6 DEF FormInv, FormTypeOK, Postings
<1>8. \A b \in Occasions : Own(b, production'[b])
  BY <1>3, <1>5, <1>6 DEF FormInv
<1>9. posting'.of = posting.of /\ Own(posting.of, posting')
  BY <1>1, <1>3 DEF FormInv, Own, Postings
<1>10. EditorOwn'
  BY <1>1 DEF FormInv, EditorOwn, Own, Tidy
<1> QED BY <1>1, <1>7, <1>8, <1>9, <1>10 DEF FormInv, Own, Tidy

\* A save is over, and has perhaps closed the editor.
LEMMA SaveEndKeeps ==
    ASSUME FormInv, SaveAnswered \/ SaveFails PROVE FormInv'
<1>1. UNCHANGED <<shift, production, loads, scans, early, strayed, carried, misread>>
      /\ posting' = NotPosting /\ editor' \in {editor, [Cleared EXCEPT !.file = Blank]}
  BY DEF SaveAnswered, SaveFails
<1>2. FormTypeOK'
  BY <1>1 DEF FormInv, FormTypeOK, NotPosting, Cleared, Data
<1>3. EditorOwn'
  <2>1. editor' = editor \/ editor'.selected = Blank
    BY <1>1 DEF Cleared, FormInv, FormTypeOK
  <2> QED BY <1>1, <2>1, ShiftAssumption DEF FormInv, EditorOwn, Own, Tidy
<1> QED BY <1>1, <1>2, <1>3 DEF FormInv, Own, Tidy, NotPosting

LEMMA FormStep == FormInv /\ [FormNext]_formVars => FormInv'
<1> SUFFICES ASSUME FormInv, [FormNext]_formVars PROVE FormInv'
  OBVIOUS
<1>1. CASE UNCHANGED formVars
  BY <1>1 DEF formVars, FormInv, FormTypeOK, Own, Tidy, EditorOwn
<1>2. CASE FormNext
  BY <1>2, FormOpenKeeps, HandKeeps, CheckScanKeeps, UnreadKeeps, ChangeAnswerKeeps, ArrivalKeeps, ClickKeeps,
     StoreKeeps, SaveEndKeeps
     DEF FormNext
<1> QED BY <1>1, <1>2

\* The stored form of a booking is its own, in whatever order forms are opened,
\* answered, scanned for and saved, with the excuses FormOfOneBooking names; a check's
\* scan that ends in another booking's form is one of them.
THEOREM FormsNotMixed == FormSpec => []FormOfOneBooking
<1>1. FormInv => FormOfOneBooking
  BY DEF FormInv, FormOfOneBooking, Own, Tidy
<1> QED BY FormInitial, FormStep, <1>1, PTL DEF FormSpec

(***************************************************************************)
(* The month on the screens.                                               *)
(***************************************************************************)

\* What is left of a plan.
Left(plan) == {plan[i] : i \in DOMAIN plan}

\* A plan that is followed from its head.  Where the commit is still to come, so
\* is the clearing, unless the screens have not been told either.
Plan(plan) ==
    plan # <<>> =>
        /\ Head(plan) \in Left(plan) /\ Left(Tail(plan)) = Left(plan) \ {Head(plan)}
        /\ "commit" \in Left(plan) /\ "tell" \notin Left(plan) => "clear" \in Left(plan)
Plans ==
    {<<>>, <<"answer">>, <<"clear", "answer">>, <<"tell", "clear", "answer">>, CommitFirst,
     <<"commit", "clear", "answer">>, TellFirst, <<"tell">>, TellOnly}

CacheTypes ==
    /\ traffic \in [changes : Nat, nights : Nat, repairs : Nat, outages : Nat, losses : Nat]
    /\ board \in Nat
    /\ change \in [Screens \cup {Night} -> Plans]
    /\ screen \in [Screens -> [shown : Nat, asks : BOOLEAN]]
    /\ misled \subseteq Screens /\ up \in BOOLEAN /\ tainted \in BOOLEAN

Versions == 0 .. board

\* A change that is committed and has this step still to do.
Pending(step) ==
    \E w \in Screens \cup {Night} :
        step \in Left(change[w]) /\ "commit" \notin Left(change[w])

\* The copy and the answers to be stored are no newer than the month, and the
\* copy no older than the last clearing; after a commit a clearing is to come.
Copies ==
    /\ cached \in Versions \cup {Absent} /\ DOMAIN fills \subseteq Versions
    /\ settled \in Versions
    /\ ~tainted /\ cached # Absent => cached >= settled
    /\ settled # board => Pending("clear")

\* A screen that is behind will be told; none is satisfied before a commit that
\* was announced.
Seen ==
    \A s \in Screens : ~screen[s].asks /\ s \notin misled =>
        /\ ~Announced("commit")
        /\ screen[s].shown # board => Pending("tell")

CacheInv == CacheTypes /\ Copies /\ Seen

\* What is left of each plan.
LEMMA LeftIs ==
    /\ Left(<<>>) = {} /\ Left(<<"answer">>) = {"answer"}
    /\ Left(<<"clear", "answer">>) = {"clear", "answer"}
    /\ Left(<<"tell", "clear", "answer">>) = {"tell", "clear", "answer"}
    /\ Left(<<"commit", "tell", "clear", "answer">>) = {"commit", "tell", "clear", "answer"}
    /\ Left(<<"commit", "clear", "answer">>) = {"commit", "clear", "answer"}
    /\ Left(<<"tell", "commit", "clear", "answer">>) = {"tell", "commit", "clear", "answer"}
    /\ Left(<<"tell">>) = {"tell"} /\ Left(<<"commit", "tell">>) = {"commit", "tell"}
BY DEF Left

LEMMA TailIs ==
    /\ Tail(<<"answer">>) = <<>> /\ Tail(<<"clear", "answer">>) = <<"answer">>
    /\ Tail(<<"tell", "clear", "answer">>) = <<"clear", "answer">>
    /\ Tail(<<"commit", "tell", "clear", "answer">>) = <<"tell", "clear", "answer">>
    /\ Tail(<<"commit", "clear", "answer">>) = <<"clear", "answer">>
    /\ Tail(<<"tell", "commit", "clear", "answer">>) = <<"commit", "clear", "answer">>
    /\ Tail(<<"tell">>) = <<>> /\ Tail(<<"commit", "tell">>) = <<"tell">>
OBVIOUS

LEMMA HeadIs ==
    /\ Head(<<"answer">>) = "answer" /\ Head(<<"clear", "answer">>) = "clear"
    /\ Head(<<"tell", "clear", "answer">>) = "tell"
    /\ Head(<<"commit", "tell", "clear", "answer">>) = "commit"
    /\ Head(<<"commit", "clear", "answer">>) = "commit"
    /\ Head(<<"tell", "commit", "clear", "answer">>) = "tell"
    /\ Head(<<"tell">>) = "tell" /\ Head(<<"commit", "tell">>) = "commit"
OBVIOUS

LEMMA PlansGoOn == \A plan \in Plans : Plan(plan) /\ (plan # <<>> => Tail(plan) \in Plans)
BY LeftIs, TailIs, HeadIs DEF Plans, Plan, CommitFirst, TellFirst, TellOnly

\* What a step of a change does to what is left of it.
LEMMA DoesStep ==
    ASSUME CacheTypes, NEW w \in Screens \cup {Night}, NEW next, Does(w, next)
    PROVE  /\ change' \in [Screens \cup {Night} -> Plans]
           /\ next \in Left(change[w]) /\ Left(change'[w]) = Left(change[w]) \ {next}
           /\ \A v \in (Screens \cup {Night}) \ {w} : change'[v] = change[v]
           /\ "commit" \in Left(change[w]) /\ "tell" \notin Left(change[w]) =>
                  "clear" \in Left(change[w])
<1>1. /\ change[w] # <<>> /\ Head(change[w]) = next
      /\ change' = [change EXCEPT ![w] = Tail(change[w])]
  BY DEF Does
<1>2. Plan(change[w]) /\ Tail(change[w]) \in Plans
  BY <1>1, PlansGoOn DEF CacheTypes
<1> QED BY <1>1, <1>2 DEF CacheTypes, Plan

LEMMA PendingStays ==
    ASSUME CacheTypes, NEW w \in Screens \cup {Night}, NEW next, Does(w, next), NEW step,
           step # next, Pending(step)
    PROVE  Pending(step)'
<1>1. PICK v \in Screens \cup {Night} :
         step \in Left(change[v]) /\ "commit" \notin Left(change[v])
  BY DEF Pending
<1>2. step \in Left(change'[v]) /\ "commit" \notin Left(change'[v])
  BY <1>1, DoesStep
<1> QED BY <1>2 DEF Pending

\* Nothing is announced but by telling.
LEMMA AnnouncedIs ==
    ASSUME CacheTypes, NEW step
    PROVE  Announced(step) <=> \E w \in Screens \cup {Night} :
                                  step \in Left(change[w]) /\ "tell" \notin Left(change[w])
BY DEF Announced, Remaining, Left, CacheTypes

LEMMA AnnouncedBefore ==
    ASSUME CacheTypes, CacheTypes', NEW w \in Screens \cup {Night}, NEW next, Does(w, next),
           next # "tell", Announced("commit")'
    PROVE  Announced("commit")
<1>1. PICK v \in Screens \cup {Night} :
         "commit" \in Left(change'[v]) /\ "tell" \notin Left(change'[v])
  BY DEF Announced, Remaining, Left, CacheTypes
<1>2. "commit" \in Left(change[v]) /\ "tell" \notin Left(change[v])
  BY <1>1, DoesStep
<1> QED BY <1>2, AnnouncedIs

LEMMA CacheInitial == CacheInit => CacheInv
<1> SUFFICES ASSUME CacheInit PROVE CacheInv
  OBVIOUS
<1>1. CacheTypes
  BY CacheAssumption DEF CacheInit, CacheTypes, Plans
<1>2. Copies
  BY DEF CacheInit, Copies, Versions, EmptyBag, SetToBag
<1>3. Seen
  <2>1. \A w \in Screens \cup {Night} : Left(change[w]) = {}
    BY LeftIs DEF CacheInit
  <2>2. ~Announced("commit")
    BY <1>1, <2>1, AnnouncedIs
  <2> QED BY <2>2 DEF Seen, CacheInit
<1> QED BY <1>1, <1>2, <1>3 DEF CacheInv

\* A change that begins will tell.
LEMMA BeginsFresh ==
    ASSUME CacheInv, NEW w \in Screens \cup {Night}, change[w] = <<>>,
           NEW plan \in Plans, "tell" \in Left(plan), change' = [change EXCEPT ![w] = plan],
           traffic' \in [changes : Nat, nights : Nat, repairs : Nat, outages : Nat, losses : Nat],
           UNCHANGED <<board, cached, up, screen, fills, settled, tainted, misled>>
    PROVE  CacheInv'
<1>1. /\ CacheTypes /\ change'[w] = plan
      /\ \A v \in (Screens \cup {Night}) \ {w} : change'[v] = change[v]
  BY DEF CacheInv, CacheTypes
<1>2. CacheTypes'
  BY <1>1, CacheAssumption DEF CacheInv, CacheTypes
<1>3. ASSUME NEW step, Pending(step)
      PROVE  Pending(step)'
  BY <1>1, <1>3, LeftIs DEF Pending
<1>4. Announced("commit")' => Announced("commit")
  <2>1. ASSUME Announced("commit")'
        PROVE  Announced("commit")
    <3>1. PICK v \in Screens \cup {Night} :
             "commit" \in Left(change'[v]) /\ "tell" \notin Left(change'[v])
      BY <1>2, <2>1 DEF Announced, Remaining, Left, CacheTypes
    <3>2. "commit" \in Left(change[v]) /\ "tell" \notin Left(change[v])
      BY <1>1, <3>1
    <3> QED BY <1>1, <3>2, AnnouncedIs
  <2> QED BY <2>1
<1>5. Copies'
  BY <1>3 DEF CacheInv, Copies, Versions
<1>6. Seen'
  BY <1>3, <1>4 DEF CacheInv, Seen
<1> QED BY <1>2, <1>5, <1>6 DEF CacheInv

LEMMA MakeChangeFresh ==
    ASSUME CacheInv, NEW s \in Screens, NEW steps \in {CommitFirst, TellFirst, TellOnly},
           MakeChange(s, steps)
    PROVE  CacheInv'
<1>1. traffic' \in [changes : Nat, nights : Nat, repairs : Nat, outages : Nat, losses : Nat]
  <2>1. traffic.changes > 0 /\ traffic' = [traffic EXCEPT !.changes = @ - 1]
    BY DEF MakeChange
  <2> QED BY <2>1 DEF CacheInv, CacheTypes
<1>2. steps \in Plans /\ "tell" \in Left(steps)
  BY LeftIs DEF Plans, CommitFirst, TellFirst, TellOnly
<1> QED BY <1>1, <1>2, BeginsFresh DEF MakeChange

LEMMA ArchiveNightFresh ==
    ASSUME CacheInv, ArchiveNight
    PROVE  CacheInv'
<1>1. traffic' \in [changes : Nat, nights : Nat, repairs : Nat, outages : Nat, losses : Nat]
  BY DEF ArchiveNight, CacheInv, CacheTypes
<1>2. TellOnly \in Plans /\ "tell" \in Left(TellOnly)
  BY LeftIs DEF Plans, TellOnly
<1> QED BY <1>1, <1>2, BeginsFresh DEF ArchiveNight

\* A repair leaves the copy tainted and every screen that does not ask misled.
LEMMA RepairDateFresh ==
    ASSUME CacheInv, RepairDate
    PROVE  CacheInv'
<1>1. /\ CacheTypes /\ Copies /\ board' = board + 1 /\ settled' = board + 1 /\ tainted' = TRUE
      /\ misled' = misled \cup {s \in Screens : ~screen[s].asks}
      /\ UNCHANGED <<cached, up, change, screen, fills>>
      /\ traffic.repairs > 0 /\ traffic' = [traffic EXCEPT !.repairs = @ - 1]
  BY DEF CacheInv, RepairDate
<1>2. CacheTypes'
  BY <1>1 DEF CacheTypes
<1>3. Copies'
  BY <1>1 DEF Copies, Versions, CacheTypes
<1>4. Seen'
  BY <1>1 DEF Seen
<1> QED BY <1>2, <1>3, <1>4 DEF CacheInv

LEMMA CommitChangeFresh ==
    ASSUME CacheInv, NEW w \in Screens \cup {Night}, CommitChange(w)
    PROVE  CacheInv'
<1> DEFINE clears == "clear" \in Left(change[w])
<1>1. /\ CacheTypes /\ Copies /\ Seen /\ Does(w, "commit") /\ board' = board + 1
      /\ settled' = (IF clears THEN settled ELSE board + 1)
      /\ cached' = cached /\ fills' = fills /\ screen' = screen /\ misled' = misled
      /\ tainted' = (~clears \/ tainted) /\ UNCHANGED <<traffic, up>>
  BY DEF CacheInv, CommitChange, Remaining, Left
<1>2. CacheTypes'
  BY <1>1, DoesStep DEF CacheTypes
<1>3. /\ "commit" \in Left(change[w]) /\ Left(change'[w]) = Left(change[w]) \ {"commit"}
      /\ "tell" \notin Left(change[w]) => "clear" \in Left(change[w])
  BY <1>1, DoesStep
<1>4. board \in Nat
  BY <1>1 DEF CacheTypes
<1>5. Copies'
  <2>1. ~tainted' => ~tainted /\ clears
    BY <1>1, <1>2 DEF CacheTypes
  <2>2. settled' # board' => Pending("clear")'
    <3>1. CASE ~clears
      BY <1>1, <3>1
    <3>2. CASE clears
      <4>1. "clear" \in Left(change'[w]) /\ "commit" \notin Left(change'[w])
        BY <1>3, <3>2
      <4> QED BY <4>1 DEF Pending
    <3> QED BY <3>1, <3>2
  <2>3. ~tainted' /\ cached' # Absent => cached' >= settled'
    BY <1>1, <2>1 DEF Copies
  <2>4. Versions \subseteq Versions' /\ settled' \in Versions'
    BY <1>1, <1>4 DEF Versions, Copies
  <2> QED BY <1>1, <2>2, <2>3, <2>4 DEF Copies
<1>6. Seen'
  <2>1. ASSUME NEW s \in Screens, ~screen'[s].asks, s \notin misled'
        PROVE  ~Announced("commit")' /\ Pending("tell")'
    <3>1. ~Announced("commit")
      BY <1>1, <2>1 DEF Seen
    <3>2. ~Announced("commit")'
      BY <1>1, <1>2, <3>1, AnnouncedBefore
    <3>3. "tell" \in Left(change[w])
      BY <1>1, <1>3, <3>1, AnnouncedIs
    <3>4. "tell" \in Left(change'[w]) /\ "commit" \notin Left(change'[w])
      BY <1>3, <3>3
    <3> QED BY <3>2, <3>4 DEF Pending
  <2> QED BY <2>1 DEF Seen
<1> QED BY <1>2, <1>5, <1>6 DEF CacheInv

\* A change that goes on without touching the month and the copy.
LEMMA TellScreensFresh ==
    ASSUME CacheInv, NEW w \in Screens \cup {Night}, NEW told \in SUBSET Screens,
           TellScreens(w, told)
    PROVE  CacheInv'
<1>1. /\ CacheTypes /\ Copies /\ Does(w, "tell")
      /\ screen' = [s \in Screens |-> [screen[s] EXCEPT !.asks = @ \/ s \in told]]
      /\ misled' = misled \cup {s \in Screens \ told : ~screen[s].asks}
      /\ UNCHANGED <<board, cached, up, fills, settled, tainted>>
  BY DEF CacheInv, TellScreens
<1>2. traffic' \in [changes : Nat, nights : Nat, repairs : Nat, outages : Nat, losses : Nat]
  <2>1. \/ traffic' = traffic
        \/ traffic.losses > 0 /\ traffic' = [traffic EXCEPT !.losses = @ - 1]
    <3>1. CASE told = Screens
      BY <3>1 DEF TellScreens
    <3>2. CASE told # Screens
      BY <3>2 DEF TellScreens
    <3> QED BY <3>1, <3>2
  <2>2. CASE traffic' = traffic
    BY <1>1, <2>2 DEF CacheTypes
  <2>3. CASE traffic.losses > 0 /\ traffic' = [traffic EXCEPT !.losses = @ - 1]
    BY <1>1, <2>3 DEF CacheTypes
  <2> QED BY <2>1, <2>2, <2>3
<1>3. \A s \in Screens : /\ screen'[s] \in [shown : Nat, asks : BOOLEAN]
                         /\ screen'[s].asks \/ s \in misled'
  <2> TAKE s \in Screens
  <2>1. screen[s] \in [shown : Nat, asks : BOOLEAN]
    BY <1>1 DEF CacheTypes
  <2>2. screen'[s] = [screen[s] EXCEPT !.asks = @ \/ s \in told]
    BY <1>1
  <2>3. screen'[s] \in [shown : Nat, asks : BOOLEAN]
    BY <2>1, <2>2
  <2>4. screen'[s].asks = (screen[s].asks \/ s \in told)
    BY <2>1, <2>2
  <2>5. s \in misled' \/ screen[s].asks \/ s \in told
    BY <1>1
  <2> QED BY <2>3, <2>4, <2>5
<1>4. CacheTypes'
  <2>1. screen' \in [Screens -> [shown : Nat, asks : BOOLEAN]] /\ misled' \subseteq Screens
    BY <1>1, <1>3 DEF CacheTypes
  <2> QED BY <1>1, <1>2, <2>1, DoesStep DEF CacheTypes
<1>5. Copies'
  BY <1>1, PendingStays DEF Copies, Versions
<1>6. Seen'
  BY <1>3 DEF Seen
<1> QED BY <1>4, <1>5, <1>6 DEF CacheInv

LEMMA ClearCacheFresh ==
    ASSUME CacheInv, NEW w \in Screens \cup {Night}, ClearCache(w)
    PROVE  CacheInv'
<1>1. /\ CacheTypes /\ Copies /\ Seen /\ Does(w, "clear")
      /\ cached' = (IF up THEN Absent ELSE cached) /\ settled' = board /\ tainted' = ~up
      /\ UNCHANGED <<traffic, board, up, screen, fills, misled>>
  BY DEF CacheInv, ClearCache
<1>2. CacheTypes'
  BY <1>1, DoesStep DEF CacheTypes
<1>3. Copies'
  <2>1. board \in Versions /\ Versions' = Versions
    BY <1>1 DEF Versions, CacheTypes
  <2>2. ~tainted' => cached' = Absent
    BY <1>1 DEF CacheTypes
  <2>3. cached' \in Versions \cup {Absent}
    BY <1>1 DEF Copies
  <2> QED BY <1>1, <2>1, <2>2, <2>3 DEF Copies
<1>4. Pending("tell") => Pending("tell")'
  BY <1>1, PendingStays
<1>5. Announced("commit")' => Announced("commit")
  BY <1>1, <1>2, AnnouncedBefore
<1>6. Seen'
  BY <1>1, <1>4, <1>5 DEF Seen
<1> QED BY <1>2, <1>3, <1>6 DEF CacheInv

LEMMA AnswerChangeFresh ==
    ASSUME CacheInv, NEW s \in Screens, AnswerChange(s)
    PROVE  CacheInv'
<1>1. /\ CacheTypes /\ Copies /\ Seen /\ Does(s, "answer")
      /\ screen' = [screen EXCEPT ![s].asks = TRUE]
      /\ UNCHANGED <<traffic, board, cached, up, fills, settled, tainted, misled>>
  BY DEF CacheInv, AnswerChange
<1>2. CacheTypes'
  <2>1. screen' \in [Screens -> [shown : Nat, asks : BOOLEAN]]
    BY <1>1 DEF CacheTypes
  <2> QED BY <1>1, <2>1, DoesStep DEF CacheTypes
<1>3. \A q \in Screens : ~screen'[q].asks => screen'[q] = screen[q]
  BY <1>1 DEF CacheTypes
<1>4. Copies'
  BY <1>1, PendingStays DEF Copies, Versions
<1>5. Pending("tell") => Pending("tell")'
  BY <1>1, PendingStays
<1>6. Announced("commit")' => Announced("commit")
  BY <1>1, <1>2, AnnouncedBefore
<1>7. Seen'
  BY <1>1, <1>3, <1>5, <1>6 DEF Seen
<1> QED BY <1>2, <1>4, <1>7 DEF CacheInv

\* Steps that leave the changes alone.
LEMMA AloneFresh ==
    ASSUME CacheTypes, change' = change, NEW step
    PROVE  /\ Pending(step)' <=> Pending(step)
           /\ Announced(step)' <=> Announced(step)
BY DEF Pending, Announced, Remaining

\* An answer that shows this version keeps what a screen that waits for no other
\* may believe.
Timely(version) == ~Announced("commit") /\ (version # board => Pending("tell"))

\* An answer in time shows the month, or a copy that will be told about.
LEMMA ShowsFresh ==
    ASSUME CacheInv, NEW s \in Screens, NEW version \in Nat, UNCHANGED <<board, change>>,
           screen' = [screen EXCEPT ![s] = [shown |-> version, asks |-> FALSE]],
           \/ misled' = misled \cup {s}
           \/ Timely(version) /\ misled' = misled \ {s}
    PROVE  /\ screen' \in [Screens -> [shown : Nat, asks : BOOLEAN]]
           /\ misled' \subseteq Screens /\ Seen'
<1>1. CacheTypes /\ Seen
  BY DEF CacheInv
<1>2. /\ screen' \in [Screens -> [shown : Nat, asks : BOOLEAN]] /\ misled' \subseteq Screens
  BY <1>1 DEF CacheTypes
<1>3. /\ screen'[s].shown = version
      /\ \A q \in Screens \ {s} : screen'[q] = screen[q] /\ (q \in misled' <=> q \in misled)
  BY <1>1 DEF CacheTypes
<1>4. s \notin misled' => Timely(version)
  OBVIOUS
<1>5. ASSUME NEW q \in Screens, ~screen'[q].asks, q \notin misled'
      PROVE  Timely(screen'[q].shown)
  <2>1. CASE q = s
    BY <1>3, <1>4, <1>5, <2>1
  <2>2. CASE q # s
    BY <1>1, <1>3, <1>5, <2>2 DEF Seen, Timely
  <2> QED BY <2>1, <2>2
<1>6. Seen'
  BY <1>1, <1>5, AloneFresh DEF Seen, Timely
<1> QED BY <1>2, <1>6

LEMMA HitFresh ==
    ASSUME CacheInv, NEW s \in Screens, Hit(s)
    PROVE  CacheInv'
<1> DEFINE soon == tainted \/ Announced("clear")
<1>1. /\ CacheTypes /\ Copies /\ cached # Absent
      /\ screen' = [screen EXCEPT ![s] = [shown |-> cached, asks |-> FALSE]]
      /\ soon => misled' = misled \cup {s}
      /\ ~soon => misled' = misled \ {s}
      /\ UNCHANGED <<traffic, board, cached, up, change, fills, settled, tainted>>
  BY DEF CacheInv, Hit, Shows
<1>2. cached \in Nat /\ cached \in Versions
  BY <1>1 DEF Copies, Versions
<1>3. ASSUME ~soon
      PROVE  Timely(cached)
  <2>1. ~tainted /\ ~Announced("clear")
    BY <1>3
  <2>2. \A w \in Screens \cup {Night} :
           /\ "clear" \in Left(change[w]) => "tell" \in Left(change[w])
           /\ change[w] \in Plans
    BY <1>1, <2>1, AnnouncedIs DEF CacheTypes
  <2>3. \A plan \in Plans :
           "commit" \in Left(plan) /\ "tell" \notin Left(plan) => "clear" \in Left(plan)
    BY LeftIs DEF Plans, CommitFirst, TellFirst, TellOnly
  <2>4. ~Announced("commit")
    BY <1>1, <2>2, <2>3, AnnouncedIs
  <2>5. ASSUME cached # board
        PROVE  Pending("tell")
    <3>1. settled # board
      BY <1>1, <1>2, <2>1, <2>5 DEF Copies, Versions, CacheTypes
    <3>2. Pending("clear")
      BY <1>1, <3>1 DEF Copies
    <3> QED BY <2>2, <3>2 DEF Pending
  <2> QED BY <2>4, <2>5 DEF Timely
<1> HIDE DEF soon
<1>4. \/ misled' = misled \cup {s}
      \/ Timely(cached) /\ misled' = misled \ {s}
  <2>1. CASE soon
    BY <1>1, <2>1
  <2>2. CASE ~soon
    BY <1>1, <1>3, <2>2
  <2> QED BY <2>1, <2>2
<1>5. /\ screen' \in [Screens -> [shown : Nat, asks : BOOLEAN]]
      /\ misled' \subseteq Screens /\ Seen'
  BY <1>1, <1>2, <1>4, ShowsFresh
<1>6. CacheTypes'
  BY <1>1, <1>5 DEF CacheTypes
<1>7. Copies'
  BY <1>1, AloneFresh DEF Copies, Versions
<1> QED BY <1>5, <1>6, <1>7 DEF CacheInv

LEMMA MissFresh ==
    ASSUME CacheInv, NEW s \in Screens, Miss(s)
    PROVE  CacheInv'
<1> DEFINE soon == Announced("commit")
<1>1. /\ CacheTypes /\ Copies
      /\ screen' = [screen EXCEPT ![s] = [shown |-> board, asks |-> FALSE]]
      /\ soon => misled' = misled \cup {s}
      /\ ~soon => misled' = misled \ {s}
      /\ fills' = IF up THEN fills (+) SetToBag({board}) ELSE fills
      /\ UNCHANGED <<traffic, board, cached, up, change, settled, tainted>>
  BY DEF CacheInv, Miss, Shows
<1>2. board \in Nat /\ board \in Versions
  BY <1>1 DEF CacheTypes, Versions
<1>3. \/ misled' = misled \cup {s}
      \/ Timely(board) /\ misled' = misled \ {s}
  <2>1. ~soon => Timely(board)
    BY DEF Timely
  <2> HIDE DEF soon
  <2>2. CASE soon
    BY <1>1, <2>2
  <2>3. CASE ~soon
    BY <1>1, <2>1, <2>3
  <2> QED BY <2>2, <2>3
<1> HIDE DEF soon
<1>4. /\ screen' \in [Screens -> [shown : Nat, asks : BOOLEAN]]
      /\ misled' \subseteq Screens /\ Seen'
  BY <1>1, <1>2, <1>3, ShowsFresh
<1>5. CacheTypes'
  BY <1>1, <1>4 DEF CacheTypes
<1>6. DOMAIN fills' \subseteq Versions
  <2>1. DOMAIN (fills (+) SetToBag({board})) = DOMAIN fills \cup {board}
    BY DEF (+), SetToBag
  <2> QED BY <1>1, <1>2, <2>1 DEF Copies
<1>7. Copies'
  BY <1>1, <1>6, AloneFresh DEF Copies, Versions
<1> QED BY <1>4, <1>5, <1>7 DEF CacheInv

LEMMA StoreAnswerFresh ==
    ASSUME CacheInv, NEW version \in BagToSet(fills), StoreAnswer(version)
    PROVE  CacheInv'
<1>1. /\ CacheTypes /\ Copies /\ Seen
      /\ fills' = fills (-) SetToBag({version})
      /\ cached' = (IF up THEN version ELSE cached)
      /\ tainted' = (IF up THEN version < settled ELSE tainted)
      /\ UNCHANGED <<traffic, board, up, change, screen, settled, misled>>
  BY DEF CacheInv, StoreAnswer
<1>2. version \in Versions
  BY <1>1 DEF BagToSet, Copies
<1>3. DOMAIN fills' \subseteq Versions
  <2>1. DOMAIN (fills (-) SetToBag({version})) \subseteq DOMAIN fills
    BY DEF (-), SetToBag
  <2> QED BY <1>1, <2>1 DEF Copies
<1>4. CASE up
  <2>1. cached' = version /\ tainted' = (version < settled)
    BY <1>1, <1>4
  <2>2. ~tainted' => version >= settled
    BY <1>1, <1>2, <2>1 DEF Copies, Versions, CacheTypes
  <2>3. CacheTypes'
    <3>1. tainted' \in BOOLEAN
      BY <2>1
    <3> QED BY <1>1, <3>1 DEF CacheTypes
  <2>4. Copies'
    BY <1>1, <1>2, <1>3, <2>1, <2>2, AloneFresh DEF Copies, Versions
  <2>5. Seen'
    BY <1>1, AloneFresh DEF Seen
  <2> QED BY <2>3, <2>4, <2>5 DEF CacheInv
<1>5. CASE ~up
  <2>1. cached' = cached /\ tainted' = tainted
    BY <1>1, <1>5
  <2>2. CacheTypes' /\ Copies'
    <3>1. CacheTypes'
      BY <1>1, <2>1 DEF CacheTypes
    <3>2. ~tainted' => ~tainted
      BY <2>1
    <3>3. Pending("clear") => Pending("clear")'
      BY <1>1, AloneFresh
    <3>4. Copies'
      BY <1>1, <1>3, <2>1, <3>2, <3>3 DEF Copies, Versions
    <3> QED BY <3>1, <3>4
  <2>3. Seen'
    BY <1>1, AloneFresh DEF Seen
  <2> QED BY <2>2, <2>3 DEF CacheInv
<1> QED BY <1>4, <1>5

LEMMA CacheStep == CacheInv /\ [CacheNext]_cacheVars => CacheInv'
<1> SUFFICES ASSUME CacheInv, [CacheNext]_cacheVars PROVE CacheInv'
  OBVIOUS
<1>0. CacheTypes /\ Copies /\ Seen
  BY DEF CacheInv
<1>1. CASE UNCHANGED cacheVars
  <2>1. UNCHANGED <<traffic, board, cached, up, change, screen, fills, settled, tainted, misled>>
    BY <1>1 DEF cacheVars
  <2> QED BY <1>0, <2>1, AloneFresh DEF CacheInv, CacheTypes, Copies, Versions, Seen
<1>2. ASSUME NEW s \in Screens,
             \/ MakeChange(s, CommitFirst) \/ MakeChange(s, TellFirst) \/ MakeChange(s, TellOnly)
             \/ AnswerChange(s) \/ Hit(s) \/ Miss(s)
      PROVE  CacheInv'
  BY <1>2, MakeChangeFresh, AnswerChangeFresh, HitFresh, MissFresh
<1>3. ASSUME NEW w \in Screens \cup {Night},
             \/ CommitChange(w) \/ ClearCache(w)
             \/ \E told \in SUBSET Screens : TellScreens(w, told)
      PROVE  CacheInv'
  BY <1>3, CommitChangeFresh, ClearCacheFresh, TellScreensFresh
<1>4. CASE Expire
  <2>1. /\ cached' = Absent
        /\ UNCHANGED <<traffic, board, up, change, screen, fills, settled, tainted, misled>>
    BY <1>4 DEF Expire
  <2> QED BY <1>0, <2>1, AloneFresh DEF CacheInv, CacheTypes, Copies, Versions, Seen
<1>5. CASE RedisDrops \/ RedisReturns
  <2>1. /\ up' \in BOOLEAN
        /\ UNCHANGED <<board, cached, change, screen, fills, settled, tainted, misled>>
    BY <1>5 DEF RedisDrops, RedisReturns
  <2>2. ASSUME RedisReturns
        PROVE  traffic' \in [changes : Nat, nights : Nat, repairs : Nat, outages : Nat, losses : Nat]
    BY <1>0, <2>2 DEF RedisReturns, CacheTypes
  <2>3. ASSUME RedisDrops
        PROVE  traffic' \in [changes : Nat, nights : Nat, repairs : Nat, outages : Nat, losses : Nat]
    <3>1. traffic.outages > 0 /\ traffic' = [traffic EXCEPT !.outages = @ - 1]
      BY <2>3 DEF RedisDrops
    <3> QED BY <1>0, <3>1 DEF CacheTypes
  <2>4. traffic' \in [changes : Nat, nights : Nat, repairs : Nat, outages : Nat, losses : Nat]
    BY <1>5, <2>2, <2>3
  <2> QED BY <1>0, <2>1, <2>4, AloneFresh DEF CacheInv, CacheTypes, Copies, Versions, Seen
<1> QED BY <1>1, <1>2, <1>3, <1>4, <1>5, ArchiveNightFresh, RepairDateFresh, StoreAnswerFresh
       DEF CacheNext

LEMMA CacheFresh == CacheInv => ScreenFresh
<1> SUFFICES ASSUME CacheInv, \A w \in DOMAIN change : change[w] = <<>>
             PROVE  /\ ~tainted => cached \in {board, Absent}
                    /\ \A s \in Screens :
                          ~screen[s].asks /\ s \notin misled => screen[s].shown = board
  BY DEF ScreenFresh
<1>1. \A step : ~Pending(step)
  <2>1. \A w \in Screens \cup {Night} : change[w] = <<>>
    BY DEF CacheInv, CacheTypes
  <2>2. \A w \in Screens \cup {Night} : Left(change[w]) = {}
    BY <2>1, LeftIs
  <2> QED BY <2>2 DEF Pending
<1>2. settled = board
  BY <1>1 DEF CacheInv, Copies
<1> QED BY <1>1, <1>2 DEF CacheInv, CacheTypes, Copies, Versions, Seen

\* When no change is underway the copy in Redis is the month as it is, and so is
\* every screen that has its answer (cacheMiddleware.ts invalidateCache,
\* realtime.ts, realtimeSync.ts), with the excuses of the property (among them the
\* writers that clear nothing, and the repair of a date that tells nobody either): for
\* every number of screens, changes, repairs, outages and lost connections.
THEOREM ScreensAreFresh == CacheSpec => []ScreenFresh
BY CacheInitial, CacheStep, CacheFresh, PTL DEF CacheSpec

(***************************************************************************)
(* Types.                                                                  *)
(***************************************************************************)

\* The production forms, the editor, the answers and the save on their way are of
\* their types.
THEOREM FormTypes == FormSpec => []FormTypeOK
<1>1. FormInv => FormTypeOK
  BY DEF FormInv
<1> QED BY <1>1, FormInitial, FormStep, PTL DEF FormSpec

\* A bag of versions with one more in it is a bag.
LEMMA BagAdds ==
    ASSUME NEW B, IsABag(B), DOMAIN B \subseteq Nat, NEW n \in Nat
    PROVE  IsABag(B (+) SetToBag({n}))
<1> DEFINE C == B (+) SetToBag({n})
<1>1. B \in [DOMAIN B -> {k \in Nat : k > 0}]
  BY DEF IsABag
<1>2. C = [e \in DOMAIN B \cup {n} |->
              (IF e \in DOMAIN B THEN B[e] ELSE 0) + (IF e \in {n} THEN 1 ELSE 0)]
  BY DEF (+), SetToBag
<1>3. \A e \in DOMAIN B \cup {n} :
         (IF e \in DOMAIN B THEN B[e] ELSE 0) + (IF e \in {n} THEN 1 ELSE 0) \in {k \in Nat : k > 0}
  BY <1>1
<1>4. C \in [DOMAIN B \cup {n} -> {k \in Nat : k > 0}]
  BY <1>2, <1>3
<1>5. DOMAIN C = DOMAIN B \cup {n}
  BY <1>2
<1> HIDE DEF C
<1>6. IsABag(C)
  BY <1>4, <1>5 DEF IsABag
<1> QED BY <1>6 DEF C

\* A bag with one taken out is a bag.
LEMMA BagTakes ==
    ASSUME NEW B, IsABag(B), NEW n
    PROVE  IsABag(B (-) SetToBag({n}))
<1> DEFINE D == [e \in DOMAIN B |-> IF e \in {n} THEN B[e] - 1 ELSE B[e]]
           C == [e \in {d \in DOMAIN D : D[d] > 0} |-> D[e]]
<1>1. B \in [DOMAIN B -> {k \in Nat : k > 0}]
  BY DEF IsABag
<1>2. \A e \in DOMAIN D : D[e] \in Nat
  BY <1>1
<1>3. B (-) SetToBag({n}) = C
  BY DEF (-), SetToBag
<1> HIDE DEF D
<1>4. C \in [DOMAIN C -> {k \in Nat : k > 0}]
  BY <1>2
<1> QED BY <1>3, <1>4 DEF IsABag

\* The answers on their way to the cache stay a bag.
LEMMA FillsStep ==
    ASSUME CacheInv, IsABag(fills), [CacheNext]_cacheVars
    PROVE  IsABag(fills')
<1>1. CASE fills' = fills
  BY <1>1
<1>2. ASSUME NEW s \in Screens, Miss(s)
      PROVE  IsABag(fills')
  <2>1. DOMAIN fills \subseteq Nat /\ board \in Nat
    BY DEF CacheInv, CacheTypes, Copies, Versions
  <2> QED BY <1>2, <2>1, BagAdds DEF Miss
<1>3. ASSUME NEW version \in BagToSet(fills), StoreAnswer(version)
      PROVE  IsABag(fills')
  BY <1>3, BagTakes DEF StoreAnswer
<1>4. ASSUME NEW s \in Screens,
             \/ MakeChange(s, CommitFirst) \/ MakeChange(s, TellFirst) \/ MakeChange(s, TellOnly)
             \/ AnswerChange(s) \/ Hit(s)
      PROVE  fills' = fills
  BY <1>4 DEF MakeChange, AnswerChange, Hit
<1>5. ASSUME NEW w \in Screens \cup {Night},
             CommitChange(w) \/ ClearCache(w) \/ \E told \in SUBSET Screens : TellScreens(w, told)
      PROVE  fills' = fills
  BY <1>5 DEF CommitChange, ClearCache, TellScreens
<1>6. CASE \/ ArchiveNight \/ RepairDate \/ Expire \/ RedisDrops \/ RedisReturns
            \/ UNCHANGED cacheVars
  BY <1>6 DEF ArchiveNight, RepairDate, Expire, RedisDrops, RedisReturns, cacheVars
<1> QED BY <1>1, <1>2, <1>3, <1>4, <1>5, <1>6 DEF CacheNext

\* The calendar, its copies and the answers on their way are of their types, and of a
\* change nothing is left but steps a change has.
THEOREM CachesTyped == CacheSpec => []CacheTypeOK
<1>1. CacheInit => CacheInv /\ IsABag(fills)
  BY CacheInitial DEF CacheInit, EmptyBag, SetToBag, IsABag
<1>2. CacheInv /\ IsABag(fills) /\ [CacheNext]_cacheVars => CacheInv' /\ IsABag(fills)'
  BY CacheStep, FillsStep
<1>3. CacheInv /\ IsABag(fills) => CacheTypeOK
  <2> SUFFICES ASSUME CacheInv, IsABag(fills) PROVE CacheTypeOK
    OBVIOUS
  <2>1. ASSUME NEW w \in Screens \cup {Night}
        PROVE  Remaining(w) \subseteq {"commit", "tell", "clear", "answer"}
    <3>1. change[w] \in Plans
      BY DEF CacheInv, CacheTypes
    <3>2. Left(change[w]) \subseteq {"commit", "tell", "clear", "answer"}
      BY <3>1, LeftIs DEF Plans, CommitFirst, TellFirst, TellOnly
    <3> QED BY <3>2 DEF Left, Remaining
  <2> QED BY <2>1 DEF CacheInv, CacheTypes, Copies, Versions, CacheTypeOK, BagToSet
<1> QED BY <1>1, <1>2, <1>3, PTL DEF CacheSpec

(***************************************************************************)
(* The numbers of bookings.                                                *)
(***************************************************************************)

NumberRows == Days \cup {Settings}
RequestSteps == {"idle", "lock", "read", "write", "insert", "commit", "use"}
Requests == [step : RequestSteps, prefix : Prefixes, dates : Seq(Days), alone : BOOLEAN,
             read : Nat, own : Nat, taken : SUBSET Codes]

NumberTyped ==
    /\ numbering \in [requests : Nat, starts : Nat]
    /\ nextNumber \in Nat /\ rewound \subseteq Nat /\ codes \subseteq Codes
    /\ holder \in [NumberRows -> Registrars \cup {Free}]
    /\ registrar \in [Registrars -> Requests]
    /\ boot \in [step : {"idle", "compare", "raise"}, highest : Nat, seen : Nat]

\* A request that has written the counter and not committed.
Live(r) == registrar[r].own > 0 /\ registrar[r].step # "use"

\* Where a request is, what it holds and what its number is worth: it alone has the
\* counter, and its number and those of its bookings are new, or may be given out again.
StepOK(r) ==
    LET k == registrar[r] IN
    /\ k.step \in {"idle", "use"} => \A x \in NumberRows : holder[x] # r
    /\ k.step = "idle" => k.own = 0
    /\ k.step = "lock" => k.dates # <<>>
    /\ k.step \in {"insert", "commit", "use"} => k.own > 0
    /\ k.own = 0 \/ k.step = "use" => k.taken = {}
    /\ k.alone => k.taken = {} /\ k.step \notin {"lock", "insert"}
    /\ k.step = "write" /\ k.own > 0 => k.read = k.own
    /\ Live(r) => /\ holder[Settings] = r
                  /\ \A n \in Nat : k.own <= n /\ n <= nextNumber => n \in rewound
                  /\ \A c \in k.taken : /\ c.n <= k.own /\ c.prefix = k.prefix
                                        /\ c.n > nextNumber \/ c.n \in rewound
    /\ k.step = "use" => k.own <= nextNumber \/ k.own \in rewound

\* A lone number that is about to be used is on no booking and is nobody else's.
LoneApart ==
    \A r \in Registrars : registrar[r].step = "use" =>
        /\ \A c \in codes : c.n # registrar[r].own \/ c.n \in rewound
        /\ \A q \in Registrars : q # r /\ registrar[q].step = "use" =>
              registrar[q].own # registrar[r].own \/ registrar[r].own \in rewound

NumberInv ==
    /\ NumberTyped /\ \A r \in Registrars : StepOK(r)
    /\ boot.step = "raise" => boot.seen < boot.highest
    /\ \E k \in Nat : \A c \in codes : c.n <= k
    /\ \A c \in codes : c.n <= nextNumber \/ c.n \in rewound
    /\ LoneApart /\ NumberOnOneBooking

\* The largest of numbers that have a bound.
LEMMA MaxIsOne ==
    ASSUME NEW S \in SUBSET Nat, S # {}, NEW k \in Nat, \A n \in S : n <= k
    PROVE  Max(S) \in S /\ \A n \in S : n <= Max(S)
<1> DEFINE T == {m \in Nat : \A n \in S : n <= m}
<1>1. PICK m \in T : \A y \in T : ~(<<y, m>> \in OpToRel(<, Nat))
  <2>1. T \subseteq Nat /\ T # {}
    OBVIOUS
  <2> HIDE DEF T
  <2> QED BY <2>1, NatLessThanWellFounded, WFMin
<1>2. \A y \in T : ~(y < m)
  BY <1>1 DEF OpToRel
<1>3. m \in T
  OBVIOUS
<1>4. m \in Nat /\ \A n \in S : n <= m
  BY <1>3
<1>5. m \in S
  <2> SUFFICES ASSUME m \notin S PROVE FALSE
    OBVIOUS
  <2>1. m # 0 /\ \A n \in S : n <= m - 1
    <3>1. ASSUME NEW n \in S PROVE n <= m - 1 /\ m # 0
      <4>1. n \in Nat /\ n # m /\ n <= m /\ m \in Nat
        BY <1>4
      <4> QED BY <4>1
    <3> QED BY <3>1
  <2>2. m - 1 \in T
    BY <1>4, <2>1
  <2>3. m - 1 < m
    BY <1>4
  <2> HIDE DEF T
  <2> QED BY <1>2, <2>2, <2>3
<1>6. \E x \in S : \A y \in S : x >= y
  BY <1>4, <1>5
<1> DEFINE M == CHOOSE x \in S : \A y \in S : x >= y
<1>7. M \in S /\ \A y \in S : M >= y
  BY <1>6
<1> QED BY <1>7 DEF Max

\* No number is given out.
LEMMA NumberStarts == NumberInit => NumberInv
<1> SUFFICES ASSUME NumberInit PROVE NumberInv
  OBVIOUS
<1>1. Waiting \in Requests /\ Waiting.step = "idle" /\ Waiting.own = 0 /\ Waiting.taken = {}
  BY DEF Waiting, Requests, RequestSteps, Prefixes, Codes
<1>2. NumberTyped
  BY <1>1, NumberingAssumption DEF NumberInit, NumberTyped, NotBooting, NumberRows, Codes
<1>3. \A r \in Registrars : StepOK(r)
  BY <1>1, NumberingAssumption DEF NumberInit, StepOK, Live, NumberRows, Waiting
<1>4. boot.step # "raise" /\ codes = {} /\ LoneApart /\ NumberOnOneBooking
  BY <1>1 DEF NumberInit, NotBooting, LoneApart, NumberOnOneBooking
<1> QED BY <1>2, <1>3, <1>4 DEF NumberInv

\* A request that rests.
LEMMA WaitingIs == /\ Waiting \in Requests /\ Waiting.step = "idle" /\ Waiting.own = 0
                   /\ Waiting.taken = {} /\ Waiting.alone = FALSE
  BY DEF Waiting, Requests, RequestSteps, Prefixes, Codes

\* A request that moves leaves the others where they are.
LEMMA RegistrarMoves ==
    ASSUME NumberTyped, NEW r \in Registrars, NEW j \in Requests,
           registrar' = [registrar EXCEPT ![r] = j]
    PROVE  /\ registrar' \in [Registrars -> Requests] /\ registrar'[r] = j
           /\ \A q \in Registrars : q # r => registrar'[q] = registrar[q]
  BY DEF NumberTyped

\* What a request is promised stays true while another one moves.
LEMMA OthersKeep ==
    ASSUME NEW q \in Registrars, StepOK(q), registrar'[q] = registrar[q],
           nextNumber' = nextNumber, rewound \subseteq rewound',
           holder[Settings] = q => holder'[Settings] = q,
           \A x \in NumberRows : holder'[x] = q => holder[x] = q
    PROVE  StepOK(q)'
  BY DEF StepOK, Live

\* The state of lone numbers and of the bookings when neither moves.
LEMMA BookingsKeep ==
    ASSUME NumberInv, codes' = codes, nextNumber' = nextNumber, rewound \subseteq rewound',
           \A r \in Registrars : registrar'[r].step = "use" => registrar'[r] = registrar[r]
    PROVE  /\ \E k \in Nat : \A c \in codes' : c.n <= k
           /\ \A c \in codes' : c.n <= nextNumber' \/ c.n \in rewound'
           /\ LoneApart' /\ NumberOnOneBooking'
<1>1. \E k \in Nat : \A c \in codes' : c.n <= k
  BY DEF NumberInv
<1>2. \A c \in codes' : c.n <= nextNumber' \/ c.n \in rewound'
  BY DEF NumberInv
<1>3. LoneApart'
  BY DEF NumberInv, LoneApart
<1>4. NumberOnOneBooking'
  BY DEF NumberInv, NumberOnOneBooking
<1> QED BY <1>1, <1>2, <1>3, <1>4

\* Releasing the locks of one request.
LEMMA ReleasedHolds ==
    ASSUME NumberTyped, NEW r \in Registrars, holder' = Released(r)
    PROVE  /\ holder' \in [NumberRows -> Registrars \cup {Free}]
           /\ \A x \in NumberRows : holder'[x] # r
           /\ \A x \in NumberRows : \A q \in Registrars : q # r => (holder'[x] = q <=> holder[x] = q)
  BY NumberingAssumption DEF NumberTyped, Released

\* A request that fails takes its update back.
LEMMA AbandonKeeps ==
    ASSUME NumberInv, NEW r \in Registrars, Abandon(r) PROVE NumberInv'
<1>1. /\ registrar' = [registrar EXCEPT ![r] = Waiting] /\ holder' = Released(r)
      /\ numbering' = numbering /\ nextNumber' = nextNumber /\ codes' = codes /\ boot' = boot
      /\ rewound' = rewound
  BY DEF Abandon
<1>2. /\ registrar' \in [Registrars -> Requests] /\ registrar'[r] = Waiting
      /\ \A q \in Registrars : q # r => registrar'[q] = registrar[q]
  BY <1>1, WaitingIs, RegistrarMoves DEF NumberInv
<1>3. /\ holder' \in [NumberRows -> Registrars \cup {Free}]
      /\ \A x \in NumberRows : holder'[x] # r
      /\ \A x \in NumberRows : \A q \in Registrars : q # r => (holder'[x] = q <=> holder[x] = q)
  BY <1>1, ReleasedHolds DEF NumberInv
<1>4. NumberTyped'
  BY <1>1, <1>2, <1>3 DEF NumberInv, NumberTyped
<1>5. ASSUME NEW q \in Registrars PROVE StepOK(q)'
  <2>1. CASE q = r
    BY <1>2, <1>3, <2>1, WaitingIs DEF StepOK, Live
  <2>2. CASE q # r
    BY <1>1, <1>2, <1>3, <2>2, OthersKeep DEF NumberInv, NumberRows
  <2> QED BY <2>1, <2>2
<1>6. \A q \in Registrars : registrar'[q].step = "use" => registrar'[q] = registrar[q]
  BY <1>2, WaitingIs
<1>7. boot'.step = "raise" => boot'.seen < boot'.highest
  BY <1>1 DEF NumberInv
<1> QED BY <1>1, <1>4, <1>5, <1>6, <1>7, BookingsKeep DEF NumberInv

\* A request that starts.
LEMMA BeginKeepsNumbers ==
    ASSUME NumberInv, NEW r \in Registrars, NEW prefix \in Prefixes,
           AskNumber(r, prefix) \/ \E dates \in DateLists : AskBooking(r, prefix, dates)
    PROVE  NumberInv'
<1>1. \A dates \in DateLists : dates \in Seq(Days) /\ dates # <<>>
  <2>1. ASSUME NEW d \in Days PROVE <<d>> \in Seq(Days) /\ <<d>> # <<>>
    OBVIOUS
  <2>2. ASSUME NEW d \in Days, NEW e \in Days PROVE <<d, e>> \in Seq(Days) /\ <<d, e>> # <<>>
    OBVIOUS
  <2>3. ASSUME NEW dates \in DateLists
        PROVE  (\E d \in Days : dates = <<d>>) \/ (\E d, e \in Days : dates = <<d, e>>)
    <3>1. CASE dates \in {<<d>> : d \in Days}
      BY <3>1
    <3>2. CASE dates \in UNION {{<<d, e>> : e \in Days \ {d}} : d \in Days}
      <4>1. PICK d \in Days : dates \in {<<d, e>> : e \in Days \ {d}}
        BY <3>2
      <4> QED BY <4>1
    <3> QED BY <3>1, <3>2 DEF DateLists
  <2> QED BY <2>1, <2>2, <2>3
<1>2. \E j \in Requests : /\ Begins(r, j) /\ j.own = 0 /\ j.taken = {}
                         /\ \/ j.step = "lock" /\ j.dates # <<>> /\ ~j.alone
                            \/ j.step = "read"
  <2>1. CASE AskNumber(r, prefix)
    <3> DEFINE j == [Waiting EXCEPT !.step = "read", !.prefix = prefix, !.alone = TRUE]
    <3>1. j \in Requests /\ j.own = 0 /\ j.taken = {} /\ j.step = "read"
      BY WaitingIs DEF Requests, RequestSteps
    <3> QED BY <2>1, <3>1 DEF AskNumber
  <2>2. ASSUME NEW dates \in DateLists, AskBooking(r, prefix, dates)
        PROVE  \E j \in Requests : /\ Begins(r, j) /\ j.own = 0 /\ j.taken = {}
                                  /\ j.step = "lock" /\ j.dates # <<>> /\ ~j.alone
    <3> DEFINE j == [Waiting EXCEPT !.step = "lock", !.prefix = prefix, !.dates = dates]
    <3>1. j \in Requests /\ j.own = 0 /\ j.taken = {} /\ j.step = "lock" /\ j.dates = dates /\ ~j.alone
      BY <1>1, WaitingIs DEF Requests, RequestSteps
    <3>2. Begins(r, j)
      BY <2>2 DEF AskBooking
    <3> HIDE DEF j
    <3> QED BY <1>1, <3>1, <3>2
  <2> QED BY <2>1, <2>2
<1>3. PICK j \in Requests : /\ Begins(r, j) /\ j.own = 0 /\ j.taken = {}
                           /\ \/ j.step = "lock" /\ j.dates # <<>> /\ ~j.alone
                              \/ j.step = "read"
  BY <1>2
<1>4. /\ registrar' = [registrar EXCEPT ![r] = j] /\ holder' = holder
      /\ nextNumber' = nextNumber /\ codes' = codes /\ boot' = boot /\ rewound' = rewound
      /\ numbering' = [numbering EXCEPT !.requests = @ - 1] /\ numbering.requests > 0
  BY <1>3 DEF Begins
<1>5. /\ registrar' \in [Registrars -> Requests] /\ registrar'[r] = j
      /\ \A q \in Registrars : q # r => registrar'[q] = registrar[q]
  BY <1>4, RegistrarMoves DEF NumberInv
<1>6. numbering' \in [requests : Nat, starts : Nat]
  BY <1>4 DEF NumberInv, NumberTyped
<1>7. NumberTyped'
  BY <1>4, <1>5, <1>6 DEF NumberInv, NumberTyped
<1>8. ASSUME NEW q \in Registrars PROVE StepOK(q)'
  <2>1. CASE q = r
    BY <1>3, <1>5, <2>1 DEF StepOK, Live
  <2>2. CASE q # r
    BY <1>4, <1>5, <2>2, OthersKeep DEF NumberInv
  <2> QED BY <2>1, <2>2
<1>9. \A q \in Registrars : registrar'[q].step = "use" => registrar'[q] = registrar[q]
  BY <1>3, <1>5
<1>10. boot'.step = "raise" => boot'.seen < boot'.highest
  BY <1>4 DEF NumberInv
<1> QED BY <1>4, <1>7, <1>8, <1>9, <1>10, BookingsKeep DEF NumberInv

\* A date is locked.
LEMMA LockKeepsNumbers == ASSUME NumberInv, NEW r \in Registrars, LockDay(r) PROVE NumberInv'
<1> DEFINE k == registrar[r]
           j == [k EXCEPT !.step = "read", !.dates = Tail(@)]
           d == Head(k.dates)
<1>1. NumberTyped /\ k \in Requests /\ k.step = "lock" /\ StepOK(r)
  BY DEF NumberInv, NumberTyped, LockDay
<1>2. k.dates \in Seq(Days) /\ k.dates # <<>>
  BY <1>1 DEF Requests, StepOK
<1>3. Tail(k.dates) \in Seq(Days) /\ d \in Days
  BY <1>2
<1>4. j \in Requests /\ j.step = "read" /\ j.own = k.own /\ j.taken = k.taken /\ j.alone = k.alone
      /\ j.prefix = k.prefix
  BY <1>1, <1>3 DEF Requests, RequestSteps
<1>5. /\ holder' = [holder EXCEPT ![d] = r] /\ holder[d] \in {Free, r}
      /\ numbering' = numbering /\ nextNumber' = nextNumber /\ codes' = codes /\ boot' = boot
      /\ rewound' = rewound
  BY DEF LockDay
<1>6. registrar' = [registrar EXCEPT ![r] = j]
  BY <1>1 DEF LockDay, NumberTyped
<1> HIDE DEF j, d
<1>7. /\ registrar' \in [Registrars -> Requests] /\ registrar'[r] = j
      /\ \A q \in Registrars : q # r => registrar'[q] = registrar[q]
  BY <1>1, <1>4, <1>6, RegistrarMoves
<1>8. /\ holder' \in [NumberRows -> Registrars \cup {Free}] /\ holder'[Settings] = holder[Settings]
      /\ \A x \in NumberRows : \A q \in Registrars : q # r /\ holder'[x] = q => holder[x] = q
  BY <1>1, <1>3, <1>5, NumberingAssumption DEF NumberTyped, NumberRows
<1>9. NumberTyped'
  BY <1>1, <1>5, <1>7, <1>8 DEF NumberTyped
<1>10. ASSUME NEW q \in Registrars PROVE StepOK(q)'
  <2>1. CASE q = r
    BY <1>1, <1>4, <1>5, <1>7, <1>8, <2>1 DEF StepOK, Live
  <2>2. CASE q # r
    BY <1>5, <1>7, <1>8, <2>2, OthersKeep DEF NumberInv
  <2> QED BY <2>1, <2>2
<1>11. \A q \in Registrars : registrar'[q].step = "use" => registrar'[q] = registrar[q]
  BY <1>4, <1>7
<1>12. boot'.step = "raise" => boot'.seen < boot'.highest
  BY <1>5 DEF NumberInv
<1> QED BY <1>5, <1>9, <1>10, <1>11, <1>12, BookingsKeep DEF NumberInv

\* The counter is read.
LEMMA ReadNumberKeeps == ASSUME NumberInv, NEW r \in Registrars, ReadNumber(r) PROVE NumberInv'
<1> DEFINE k == registrar[r]
           j == [k EXCEPT !.step = "write", !.read = SeenNumber(r)]
<1>1. NumberTyped /\ k \in Requests /\ k.step = "read" /\ StepOK(r)
  BY DEF NumberInv, NumberTyped, ReadNumber
<1>2. SeenNumber(r) \in Nat /\ (k.own > 0 => SeenNumber(r) = k.own)
  BY <1>1 DEF SeenNumber, NumberTyped, Requests
<1>3. j \in Requests /\ j.step = "write" /\ j.own = k.own /\ j.taken = k.taken /\ j.alone = k.alone
      /\ j.prefix = k.prefix /\ j.read = SeenNumber(r)
  BY <1>1, <1>2 DEF Requests, RequestSteps
<1>4. /\ holder' = holder /\ numbering' = numbering /\ nextNumber' = nextNumber /\ codes' = codes
      /\ boot' = boot /\ rewound' = rewound
  BY DEF ReadNumber
<1>5. registrar' = [registrar EXCEPT ![r] = j]
  BY <1>1 DEF ReadNumber, NumberTyped
<1> HIDE DEF j
<1>6. /\ registrar' \in [Registrars -> Requests] /\ registrar'[r] = j
      /\ \A q \in Registrars : q # r => registrar'[q] = registrar[q]
  BY <1>1, <1>3, <1>5, RegistrarMoves
<1>7. NumberTyped'
  BY <1>1, <1>4, <1>6 DEF NumberTyped
<1>8. ASSUME NEW q \in Registrars PROVE StepOK(q)'
  <2>1. CASE q = r
    BY <1>1, <1>2, <1>3, <1>4, <1>6, <2>1 DEF StepOK, Live
  <2>2. CASE q # r
    BY <1>4, <1>6, <2>2, OthersKeep DEF NumberInv
  <2> QED BY <2>1, <2>2
<1>9. \A q \in Registrars : registrar'[q].step = "use" => registrar'[q] = registrar[q]
  BY <1>3, <1>6
<1>10. boot'.step = "raise" => boot'.seen < boot'.highest
  BY <1>4 DEF NumberInv
<1> QED BY <1>4, <1>7, <1>8, <1>9, <1>10, BookingsKeep DEF NumberInv

\* The numbers that are given out once more are numbers.
LEMMA RewindsAreNumbers ==
    ASSUME NEW seen \in Nat, NEW first \in Nat, nextNumber \in Nat
    PROVE  Rewinds(seen, first) \subseteq Nat
<1>1. \A n \in first..nextNumber : n \in Nat
  OBVIOUS
<1>2. Rewinds(seen, first) \subseteq first..nextNumber
  BY DEF Rewinds
<1> QED BY <1>1, <1>2

\* A counter that has moved on since it was read gives out numbers once more.
LEMMA WriteKeepsNumbers == ASSUME NumberInv, NEW r \in Registrars, WriteNumber(r) PROVE NumberInv'
<1> DEFINE k == registrar[r]
           j == [k EXCEPT !.step = IF k.alone THEN "commit" ELSE "insert", !.own = k.read + 1]
<1>1. NumberTyped /\ k \in Requests /\ k.step = "write" /\ StepOK(r)
  BY DEF NumberInv, NumberTyped, WriteNumber
<1>2. k.read \in Nat /\ k.own \in Nat /\ nextNumber \in Nat
  BY <1>1 DEF NumberTyped, Requests
<1>3. j \in Requests /\ j.step = (IF k.alone THEN "commit" ELSE "insert") /\ j.own = k.read + 1
      /\ j.taken = k.taken /\ j.alone = k.alone /\ j.prefix = k.prefix
  <2> DEFINE s == IF k.alone THEN "commit" ELSE "insert"
             n == k.read + 1
  <2>1. s \in RequestSteps /\ n \in Nat
    BY <1>2 DEF RequestSteps
  <2>2. j = [k EXCEPT !.step = s, !.own = n]
    OBVIOUS
  <2>3. s = (IF k.alone THEN "commit" ELSE "insert") /\ n = k.read + 1
    OBVIOUS
  <2> HIDE DEF s, n, j
  <2>4. j \in Requests /\ j.step = s /\ j.own = n
        /\ j.taken = k.taken /\ j.alone = k.alone /\ j.prefix = k.prefix
    BY <1>1, <2>1, <2>2 DEF Requests
  <2> QED BY <2>3, <2>4
<1>4. /\ holder[Settings] \in {Free, r} /\ holder' = [holder EXCEPT ![Settings] = r]
      /\ numbering' = numbering /\ nextNumber' = nextNumber /\ codes' = codes /\ boot' = boot
      /\ rewound' = IF k.own > 0 THEN rewound ELSE rewound \cup Rewinds(k.read, k.read + 1)
  BY DEF WriteNumber
<1>5. registrar' = [registrar EXCEPT ![r] = j]
  BY <1>1 DEF WriteNumber, NumberTyped
<1> HIDE DEF j
<1>6. /\ registrar' \in [Registrars -> Requests] /\ registrar'[r] = j
      /\ \A q \in Registrars : q # r => registrar'[q] = registrar[q]
  BY <1>1, <1>3, <1>5, RegistrarMoves
<1>7. /\ holder' \in [NumberRows -> Registrars \cup {Free}] /\ holder'[Settings] = r
      /\ \A x \in NumberRows : \A q \in Registrars : q # r /\ holder'[x] = q => holder[x] = q
      /\ \A q \in Registrars : q # r => holder[Settings] # q
  BY <1>1, <1>4, NumberingAssumption DEF NumberTyped, NumberRows
<1>8. rewound' \subseteq Nat /\ rewound \subseteq rewound'
  <2>1. Rewinds(k.read, k.read + 1) \subseteq Nat
    BY <1>2, RewindsAreNumbers
  <2> QED BY <1>1, <1>4, <2>1 DEF NumberTyped
<1>9. NumberTyped'
  BY <1>1, <1>4, <1>6, <1>7, <1>8 DEF NumberTyped
<1>10. \A n \in Nat : k.read + 1 <= n /\ n <= nextNumber => n \in rewound'
  <2> SUFFICES ASSUME NEW n \in Nat, k.read + 1 <= n, n <= nextNumber PROVE n \in rewound'
    OBVIOUS
  <2>1. CASE k.own > 0
    <3>1. k.read = k.own /\ k.own <= n
      BY <1>1, <1>2, <2>1 DEF StepOK
    <3> QED BY <1>1, <1>8, <2>1, <3>1 DEF StepOK, Live
  <2>2. CASE ~(k.own > 0)
    <3>1. k.read # nextNumber /\ n \in (k.read + 1)..nextNumber
      BY <1>2
    <3> QED BY <1>4, <2>2, <3>1 DEF Rewinds
  <2> QED BY <2>1, <2>2
<1>11. \A c \in k.taken : /\ c.n <= k.read + 1 /\ c.prefix = k.prefix
                          /\ c.n > nextNumber \/ c.n \in rewound'
  <2> SUFFICES ASSUME NEW c \in k.taken
               PROVE  /\ c.n <= k.read + 1 /\ c.prefix = k.prefix
                      /\ c.n > nextNumber \/ c.n \in rewound'
    OBVIOUS
  <2>1. k.own > 0 /\ k.own = k.read /\ c.n \in Nat
    BY <1>1, <1>2 DEF StepOK, Requests, Codes
  <2>2. c.n <= k.own /\ c.prefix = k.prefix /\ (c.n > nextNumber \/ c.n \in rewound)
    BY <1>1, <2>1 DEF StepOK, Live
  <2> QED BY <1>2, <1>8, <2>1, <2>2
<1>12. ASSUME NEW q \in Registrars PROVE StepOK(q)'
  <2>1. CASE q = r
    <3>1. j.own > 0
      BY <1>2, <1>3
    <3> QED BY <1>1, <1>2, <1>3, <1>4, <1>6, <1>7, <1>10, <1>11, <2>1, <3>1 DEF StepOK, Live
  <2>2. CASE q # r
    BY <1>4, <1>6, <1>7, <1>8, <2>2, OthersKeep DEF NumberInv
  <2> QED BY <2>1, <2>2
<1>13. \A q \in Registrars : registrar'[q].step = "use" => registrar'[q] = registrar[q]
  BY <1>3, <1>6
<1>14. boot'.step = "raise" => boot'.seen < boot'.highest
  BY <1>4 DEF NumberInv
<1> QED BY <1>4, <1>8, <1>9, <1>12, <1>13, <1>14, BookingsKeep DEF NumberInv

\* A booking is inserted with its code.
LEMMA InsertKeepsNumbers == ASSUME NumberInv, NEW r \in Registrars, InsertBooking(r) PROVE NumberInv'
<1> DEFINE k == registrar[r]
           code == Code(k.prefix, k.own)
           j == [k EXCEPT !.taken = @ \cup {code}, !.step = IF k.dates = <<>> THEN "commit" ELSE "lock"]
<1>1. NumberTyped /\ k \in Requests /\ k.step = "insert" /\ StepOK(r)
  BY DEF NumberInv, NumberTyped, InsertBooking
<1>2. code \in Codes /\ code.n = k.own /\ code.prefix = k.prefix /\ k.own \in Nat /\ nextNumber \in Nat
  BY <1>1 DEF Code, Codes, Requests, NumberTyped
<1>3. j \in Requests /\ j.step = (IF k.dates = <<>> THEN "commit" ELSE "lock") /\ j.own = k.own
      /\ j.taken = k.taken \cup {code} /\ j.alone = k.alone /\ j.prefix = k.prefix
      /\ j.dates = k.dates
  <2> HIDE DEF code
  <2>1. k.taken \cup {code} \in SUBSET Codes
    BY <1>1, <1>2 DEF Requests
  <2> QED BY <1>1, <2>1 DEF Requests, RequestSteps
<1>4. /\ holder' = holder /\ numbering' = numbering /\ nextNumber' = nextNumber /\ codes' = codes
      /\ boot' = boot /\ rewound' = rewound
  BY DEF InsertBooking
<1>5. registrar' = [registrar EXCEPT ![r] = j]
  BY <1>1 DEF InsertBooking, NumberTyped
<1> HIDE DEF j, code
<1>6. /\ registrar' \in [Registrars -> Requests] /\ registrar'[r] = j
      /\ \A q \in Registrars : q # r => registrar'[q] = registrar[q]
  BY <1>1, <1>3, <1>5, RegistrarMoves
<1>7. NumberTyped'
  BY <1>1, <1>4, <1>6 DEF NumberTyped
<1>8. k.own > 0 /\ ~k.alone
  BY <1>1 DEF StepOK
<1>9. \A c \in j.taken : /\ c.n <= k.own /\ c.prefix = k.prefix
                         /\ c.n > nextNumber \/ c.n \in rewound
  <2>1. k.own > nextNumber \/ k.own \in rewound
    BY <1>1, <1>2, <1>8 DEF StepOK, Live
  <2> QED BY <1>1, <1>2, <1>3, <1>8, <2>1 DEF StepOK, Live
<1>10. ASSUME NEW q \in Registrars PROVE StepOK(q)'
  <2>1. CASE q = r
    <3>1. holder[Settings] = r /\ \A n \in Nat : k.own <= n /\ n <= nextNumber => n \in rewound
      BY <1>1, <1>8 DEF StepOK, Live
    <3> QED BY <1>1, <1>3, <1>4, <1>6, <1>8, <1>9, <2>1, <3>1 DEF StepOK, Live
  <2>2. CASE q # r
    BY <1>4, <1>6, <2>2, OthersKeep DEF NumberInv
  <2> QED BY <2>1, <2>2
<1>11. \A q \in Registrars : registrar'[q].step = "use" => registrar'[q] = registrar[q]
  BY <1>3, <1>6
<1>12. boot'.step = "raise" => boot'.seen < boot'.highest
  BY <1>4 DEF NumberInv
<1> QED BY <1>4, <1>7, <1>10, <1>11, <1>12, BookingsKeep DEF NumberInv

\* The counter is written: the numbers of this transaction are new, or given out again.
LEMMA CommitKeepsNumbers == ASSUME NumberInv, NEW r \in Registrars, CommitNumber(r) PROVE NumberInv'
<1> DEFINE k == registrar[r]
           j == IF k.alone THEN [k EXCEPT !.step = "use"] ELSE Waiting
<1>1. NumberTyped /\ k \in Requests /\ k.step = "commit" /\ StepOK(r)
  BY DEF NumberInv, NumberTyped, CommitNumber
<1>2. k.own \in Nat /\ k.own > 0 /\ nextNumber \in Nat /\ k.taken \subseteq Codes
  BY <1>1 DEF StepOK, NumberTyped, Requests
<1>3. /\ holder[Settings] = r
      /\ \A n \in Nat : k.own <= n /\ n <= nextNumber => n \in rewound
      /\ \A c \in k.taken : /\ c.n <= k.own /\ c.prefix = k.prefix
                            /\ c.n > nextNumber \/ c.n \in rewound
      /\ k.alone => k.taken = {}
  BY <1>1, <1>2 DEF StepOK, Live
<1>4. j \in Requests /\ j.taken \subseteq k.taken
      /\ (k.alone => j.step = "use" /\ j.own = k.own /\ j.taken = {} /\ j.alone)
      /\ (~k.alone => j.step = "idle" /\ j.own = 0 /\ j.taken = {} /\ ~j.alone)
  BY <1>1, <1>3, WaitingIs DEF Requests, RequestSteps
<1>5. /\ holder' = Released(r) /\ numbering' = numbering /\ nextNumber' = k.own
      /\ codes' = codes \cup k.taken /\ boot' = boot /\ rewound' = rewound
  BY DEF CommitNumber
<1>6. registrar' = [registrar EXCEPT ![r] = j]
  BY <1>1 DEF CommitNumber, NumberTyped
<1> HIDE DEF j
<1>7. /\ registrar' \in [Registrars -> Requests] /\ registrar'[r] = j
      /\ \A q \in Registrars : q # r => registrar'[q] = registrar[q]
  BY <1>1, <1>4, <1>6, RegistrarMoves
<1>8. /\ holder' \in [NumberRows -> Registrars \cup {Free}]
      /\ \A x \in NumberRows : holder'[x] # r
      /\ \A x \in NumberRows : \A q \in Registrars : q # r => (holder'[x] = q <=> holder[x] = q)
  BY <1>1, <1>5, ReleasedHolds
<1>9. NumberTyped'
  BY <1>1, <1>2, <1>5, <1>7, <1>8 DEF NumberTyped
<1>10. \A n \in Nat : n <= nextNumber \/ n \in rewound => n <= k.own \/ n \in rewound
  BY <1>2, <1>3
<1>11. \A q \in Registrars : q # r => ~Live(q)
  BY <1>3 DEF NumberInv, StepOK
<1>12. ASSUME NEW q \in Registrars PROVE StepOK(q)'
  <2>1. CASE q = r
    BY <1>2, <1>4, <1>5, <1>7, <1>8, <2>1 DEF StepOK, Live
  <2>2. CASE q # r
    <3>1. registrar[q].own \in Nat /\ StepOK(q)
      BY <1>1 DEF NumberTyped, Requests, NumberInv
    <3>2. registrar[q].step = "use" => registrar[q].own <= k.own \/ registrar[q].own \in rewound
      BY <1>10, <3>1 DEF StepOK
    <3>3. ~Live(q)
      BY <1>11, <2>2
    <3> QED BY <1>5, <1>7, <1>8, <2>2, <3>1, <3>2, <3>3 DEF StepOK, Live
  <2> QED BY <2>1, <2>2
<1>13. \A c \in codes : c.n \in Nat /\ (c.n <= nextNumber \/ c.n \in rewound)
  BY <1>1 DEF NumberInv, NumberTyped, Codes
<1>14. \E m \in Nat : \A c \in codes' : c.n <= m
  <2>1. PICK m \in Nat : \A c \in codes : c.n <= m
    BY DEF NumberInv
  <2>2. \A c \in codes' : c.n <= m + k.own
    <3>1. \A c \in codes' : c.n \in Nat
      BY <1>9 DEF NumberTyped, Codes
    <3> QED BY <1>2, <1>3, <1>5, <2>1, <3>1
  <2>3. m + k.own \in Nat
    BY <1>2
  <2> QED BY <2>2, <2>3
<1>15. \A c \in codes' : c.n <= nextNumber' \/ c.n \in rewound'
  BY <1>3, <1>5, <1>10, <1>13
<1>16. \A q \in Registrars : q # r /\ registrar[q].step = "use"
          => registrar[q].own <= nextNumber \/ registrar[q].own \in rewound
  BY DEF NumberInv, StepOK
<1>17. LoneApart'
  <2> SUFFICES ASSUME NEW q \in Registrars, registrar'[q].step = "use"
               PROVE  /\ \A c \in codes' : c.n # registrar'[q].own \/ c.n \in rewound
                      /\ \A p \in Registrars : p # q /\ registrar'[p].step = "use" =>
                           registrar'[p].own # registrar'[q].own \/ registrar'[q].own \in rewound
    BY <1>5 DEF LoneApart
  <2>1. CASE q # r
    <3>1. registrar'[q] = registrar[q] /\ registrar[q].own \in Nat
      BY <1>1, <1>7, <2>1 DEF NumberTyped, Requests
    <3>2. \A c \in codes : c.n # registrar[q].own \/ c.n \in rewound
      BY <2>1, <3>1 DEF NumberInv, LoneApart
    <3>3. \A c \in k.taken : c.n # registrar[q].own \/ c.n \in rewound
      <4>1. \A c \in k.taken : c.n \in Nat
        BY <1>2 DEF Codes
      <4> QED BY <1>2, <1>3, <1>16, <2>1, <3>1, <4>1
    <3>4. \A p \in Registrars : p # q /\ p # r /\ registrar'[p].step = "use" =>
             registrar'[p].own # registrar'[q].own \/ registrar'[q].own \in rewound
      BY <1>7, <2>1, <3>1 DEF NumberInv, LoneApart
    <3>5. k.own # registrar[q].own \/ registrar[q].own \in rewound
      BY <1>2, <1>3, <1>16, <2>1, <3>1
    <3>6. registrar'[r].step = "use" => registrar'[r].own = k.own
      BY <1>4, <1>7
    <3> QED BY <1>5, <3>1, <3>2, <3>3, <3>4, <3>5, <3>6
  <2>2. CASE q = r
    <3>1. k.alone /\ k.taken = {} /\ registrar'[q].own = k.own
      BY <1>3, <1>4, <1>7, <2>2
    <3>2. \A c \in codes' : c.n # k.own \/ c.n \in rewound
      BY <1>2, <1>3, <1>5, <1>13, <3>1
    <3>3. ASSUME NEW p \in Registrars, p # r, registrar'[p].step = "use"
          PROVE  registrar'[p].own # k.own \/ k.own \in rewound
      <4>1. registrar'[p] = registrar[p] /\ registrar[p].own \in Nat
        BY <1>1, <1>7, <3>3 DEF NumberTyped, Requests
      <4> QED BY <1>2, <1>3, <1>16, <3>3, <4>1
    <3> QED BY <2>2, <3>1, <3>2, <3>3
  <2> QED BY <2>1, <2>2
<1>18. NumberOnOneBooking'
  <2> SUFFICES ASSUME NEW c \in codes', NEW e \in codes', c # e
               PROVE  c.n # e.n \/ c.n \in rewound
    BY <1>5 DEF NumberOnOneBooking
  <2>0. \A x \in codes, y \in k.taken : x.n # y.n \/ x.n \in rewound
    <3>1. \A y \in k.taken : y.n \in Nat
      BY <1>2 DEF Codes
    <3> QED BY <1>2, <1>3, <1>13, <3>1
  <2>1. CASE c \in codes /\ e \in codes
    BY <2>1 DEF NumberInv, NumberOnOneBooking
  <2>2. CASE c \in k.taken /\ e \in k.taken
    BY <1>2, <1>3, <2>2 DEF Codes
  <2> QED BY <1>5, <2>0, <2>1, <2>2
<1>19. boot'.step = "raise" => boot'.seen < boot'.highest
  BY <1>5 DEF NumberInv
<1> QED BY <1>9, <1>12, <1>14, <1>15, <1>17, <1>18, <1>19 DEF NumberInv

\* A lone number becomes the number of a booking, or of none.
LEMMA UseKeeps == ASSUME NumberInv, NEW r \in Registrars, UseNumber(r) PROVE NumberInv'
<1> DEFINE k == registrar[r]
           code == Code(k.prefix, k.own)
<1>1. NumberTyped /\ k \in Requests /\ k.step = "use" /\ StepOK(r)
  BY DEF NumberInv, NumberTyped, UseNumber
<1>2. code \in Codes /\ code.n = k.own /\ k.own \in Nat /\ nextNumber \in Nat
  BY <1>1 DEF Code, Codes, Requests, NumberTyped
<1>3. /\ holder' = holder /\ numbering' = numbering /\ nextNumber' = nextNumber
      /\ boot' = boot /\ rewound' = rewound /\ registrar' = [registrar EXCEPT ![r] = Waiting]
      /\ codes' = codes \/ codes' = codes \cup {code}
  BY DEF UseNumber
<1>4. /\ registrar' \in [Registrars -> Requests] /\ registrar'[r] = Waiting
      /\ \A q \in Registrars : q # r => registrar'[q] = registrar[q]
  BY <1>1, <1>3, WaitingIs, RegistrarMoves
<1> HIDE DEF code
<1>5. NumberTyped'
  BY <1>1, <1>2, <1>3, <1>4 DEF NumberTyped
<1>6. ASSUME NEW q \in Registrars PROVE StepOK(q)'
  <2>1. CASE q = r
    BY <1>1, <1>3, <1>4, <2>1, WaitingIs DEF StepOK, Live
  <2>2. CASE q # r
    BY <1>3, <1>4, <2>2, OthersKeep DEF NumberInv
  <2> QED BY <2>1, <2>2
<1>7. \E m \in Nat : \A c \in codes' : c.n <= m
  <2>1. PICK m \in Nat : \A c \in codes : c.n <= m
    BY DEF NumberInv
  <2>2. \A c \in codes' : c.n <= m + k.own
    <3>1. \A c \in codes' : c.n \in Nat
      BY <1>5 DEF NumberTyped, Codes
    <3> QED BY <1>2, <1>3, <2>1, <3>1
  <2>3. m + k.own \in Nat
    BY <1>2
  <2> QED BY <2>2, <2>3
<1>8. \A c \in codes' : c.n <= nextNumber' \/ c.n \in rewound'
  BY <1>1, <1>2, <1>3 DEF NumberInv, StepOK
<1>9. LoneApart'
  <2> SUFFICES ASSUME NEW q \in Registrars, q # r, registrar[q].step = "use"
               PROVE  /\ \A c \in codes' : c.n # registrar[q].own \/ c.n \in rewound
                      /\ \A p \in Registrars : p # q /\ p # r /\ registrar[p].step = "use" =>
                           registrar[p].own # registrar[q].own \/ registrar[q].own \in rewound
    BY <1>3, <1>4, WaitingIs DEF LoneApart
  <2>1. k.own # registrar[q].own \/ registrar[q].own \in rewound
    BY <1>1 DEF NumberInv, LoneApart
  <2> QED BY <1>2, <1>3, <2>1 DEF NumberInv, LoneApart
<1>10. NumberOnOneBooking'
  <2>1. \A c \in codes : c.n # k.own \/ c.n \in rewound
    BY <1>1 DEF NumberInv, LoneApart
  <2> QED BY <1>2, <1>3, <2>1 DEF NumberInv, NumberOnOneBooking
<1>11. boot'.step = "raise" => boot'.seen < boot'.highest
  BY <1>3 DEF NumberInv
<1> QED BY <1>5, <1>6, <1>7, <1>8, <1>9, <1>10, <1>11 DEF NumberInv

\* An option becomes an event and keeps its number.
LEMMA ConvertKeeps == ASSUME NumberInv, NEW n \in Nat, ConvertCode(n) PROVE NumberInv'
<1> DEFINE option == Code("OPT", n)
           event == Code("EVT", n)
<1>1. /\ option \in codes /\ event \notin codes /\ codes' = (codes \ {option}) \cup {event}
      /\ holder' = holder /\ numbering' = numbering /\ nextNumber' = nextNumber
      /\ boot' = boot /\ rewound' = rewound /\ registrar' = registrar
  BY DEF ConvertCode
<1>2. option.n = n /\ event.n = n /\ event \in Codes
  BY DEF Code, Codes, Prefixes
<1>3. \A e \in codes : e.n = n => e = option
  <2>1. \A e \in Codes : e.n = n => e = option \/ e = event
    BY DEF Codes, Code, Prefixes
  <2> QED BY <1>1, <2>1 DEF NumberInv, NumberTyped
<1> HIDE DEF option, event
<1>4. NumberTyped'
  BY <1>1, <1>2 DEF NumberInv, NumberTyped
<1>5. ASSUME NEW q \in Registrars PROVE StepOK(q)'
  BY <1>1, OthersKeep DEF NumberInv
<1>6. \E m \in Nat : \A c \in codes' : c.n <= m
  <2>1. PICK m \in Nat : \A c \in codes : c.n <= m
    BY DEF NumberInv
  <2> QED BY <1>1, <1>2, <2>1
<1>7. \A c \in codes' : c.n <= nextNumber' \/ c.n \in rewound'
  BY <1>1, <1>2 DEF NumberInv
<1>8. LoneApart'
  <2>1. \A q \in Registrars : registrar[q].step = "use" =>
           \A c \in codes' : c.n # registrar[q].own \/ c.n \in rewound
    BY <1>1, <1>2 DEF NumberInv, LoneApart
  <2> QED BY <1>1, <2>1 DEF NumberInv, LoneApart
<1>9. NumberOnOneBooking'
  <2> SUFFICES ASSUME NEW c \in codes', NEW e \in codes', c # e, c.n = e.n
               PROVE  c.n \in rewound
    BY <1>1 DEF NumberOnOneBooking
  <2> QED BY <1>1, <1>2, <1>3 DEF NumberInv, NumberOnOneBooking
<1>10. boot'.step = "raise" => boot'.seen < boot'.highest
  BY <1>1 DEF NumberInv
<1> QED BY <1>4, <1>5, <1>6, <1>7, <1>8, <1>9, <1>10 DEF NumberInv

\* A server that looks at the counter.
LEMMA BootLooks == ASSUME NumberInv, BootScan \/ BootCompare PROVE NumberInv'
<1>1. /\ nextNumber' = nextNumber /\ codes' = codes /\ holder' = holder /\ registrar' = registrar
      /\ rewound' = rewound
  BY DEF BootScan, BootCompare
<1>2. /\ numbering' \in [requests : Nat, starts : Nat]
      /\ boot' \in [step : {"idle", "compare", "raise"}, highest : Nat, seen : Nat]
      /\ boot'.step = "raise" => boot'.seen < boot'.highest
  <2>1. CASE BootScan
    <3> DEFINE S == {c.n : c \in codes} \cup {0}
    <3>1. S \in SUBSET Nat /\ S # {}
      BY DEF NumberInv, NumberTyped, Codes
    <3>2. PICK m \in Nat : \A c \in codes : c.n <= m
      BY DEF NumberInv
    <3>3. \A n \in S : n <= m
      BY <3>2
    <3> HIDE DEF S
    <3>4. Max(S) \in Nat
      BY <3>1, <3>2, <3>3, MaxIsOne
    <3>5. boot' = [boot EXCEPT !.step = "compare", !.highest = Max(S)]
          /\ numbering' = [numbering EXCEPT !.starts = @ - 1] /\ numbering.starts > 0
      BY <2>1 DEF BootScan, S
    <3> DEFINE h == Max(S)
               n == numbering.starts - 1
    <3>6. h \in Nat /\ n \in Nat
      BY <3>4, <3>5 DEF NumberInv, NumberTyped
    <3>7. boot' = [boot EXCEPT !.step = "compare", !.highest = h]
          /\ numbering' = [numbering EXCEPT !.starts = n]
      BY <3>5 DEF NumberInv, NumberTyped
    <3> HIDE DEF h, n
    <3> QED BY <3>6, <3>7 DEF NumberInv, NumberTyped
  <2>2. CASE BootCompare
    <3>1. numbering' = numbering
          /\ boot' = IF nextNumber < boot.highest THEN [boot EXCEPT !.step = "raise", !.seen = nextNumber]
                     ELSE NotBooting
      BY <2>2 DEF BootCompare, Behind
    <3> QED BY <3>1 DEF NumberInv, NumberTyped, NotBooting
  <2> QED BY <2>1, <2>2
<1>3. NumberTyped'
  BY <1>1, <1>2 DEF NumberInv, NumberTyped
<1>4. ASSUME NEW q \in Registrars PROVE StepOK(q)'
  BY <1>1, OthersKeep DEF NumberInv
<1> QED BY <1>1, <1>2, <1>3, <1>4, BookingsKeep DEF NumberInv

\* A server that raises the counter, while no request has it.
LEMMA RaiseKeeps == ASSUME NumberInv, BootRaise PROVE NumberInv'
<1>1. /\ holder[Settings] = Free /\ boot.step = "raise" /\ nextNumber' = boot.highest
      /\ rewound' = rewound \cup Rewinds(boot.seen, boot.highest + 1) /\ boot' = NotBooting
      /\ numbering' = numbering /\ codes' = codes /\ holder' = holder /\ registrar' = registrar
  BY DEF BootRaise
<1>2. /\ NumberTyped /\ boot.seen \in Nat /\ boot.highest \in Nat /\ boot.seen < boot.highest
      /\ nextNumber \in Nat
  BY <1>1 DEF NumberInv, NumberTyped
<1>3. rewound' \subseteq Nat /\ rewound \subseteq rewound'
  <2>1. Rewinds(boot.seen, boot.highest + 1) \subseteq Nat
    BY <1>2, RewindsAreNumbers
  <2> QED BY <1>1, <1>2, <2>1 DEF NumberTyped
<1>4. NumberTyped'
  BY <1>1, <1>2, <1>3 DEF NumberTyped, NotBooting
<1>5. \A n \in Nat : n <= nextNumber \/ n \in rewound => n <= boot.highest \/ n \in rewound'
  <2> SUFFICES ASSUME NEW n \in Nat, n <= nextNumber, n > boot.highest PROVE n \in rewound'
    BY <1>2, <1>3
  <2>1. n \in (boot.highest + 1)..nextNumber /\ boot.seen # nextNumber
    BY <1>2
  <2> QED BY <1>1, <2>1 DEF Rewinds
<1>6. ASSUME NEW q \in Registrars PROVE StepOK(q)'
  <2>1. ~Live(q) /\ StepOK(q) /\ registrar[q].own \in Nat
    BY <1>1, <1>2, NumberingAssumption DEF NumberInv, StepOK, NumberTyped, Requests
  <2>2. registrar[q].step = "use" => registrar[q].own <= boot.highest \/ registrar[q].own \in rewound'
    BY <1>5, <2>1 DEF StepOK
  <2> QED BY <1>1, <2>1, <2>2 DEF StepOK, Live
<1>7. \A c \in codes' : c.n <= nextNumber' \/ c.n \in rewound'
  <2>1. \A c \in codes : c.n \in Nat
    BY <1>2 DEF NumberTyped, Codes
  <2> QED BY <1>1, <1>5, <2>1 DEF NumberInv
<1>8. LoneApart'
  BY <1>1, <1>3 DEF NumberInv, LoneApart
<1>9. NumberOnOneBooking'
  BY <1>1, <1>3 DEF NumberInv, NumberOnOneBooking
<1>10. boot'.step # "raise" /\ \E k \in Nat : \A c \in codes' : c.n <= k
  BY <1>1 DEF NumberInv, NotBooting
<1> QED BY <1>4, <1>6, <1>7, <1>8, <1>9, <1>10 DEF NumberInv

\* Every step keeps the invariant.
LEMMA NumberStep == NumberInv /\ [NumberNext]_numberVars => NumberInv'
<1> SUFFICES ASSUME NumberInv, [NumberNext]_numberVars PROVE NumberInv'
  OBVIOUS
<1>1. CASE UNCHANGED numberVars
  <2>1. NumberTyped' /\ \A q \in Registrars : StepOK(q)'
    BY <1>1 DEF numberVars, NumberInv, NumberTyped, StepOK, Live
  <2> QED BY <1>1, <2>1, BookingsKeep DEF numberVars, NumberInv
<1>2. CASE NumberNext
  <2>1. ASSUME NEW n \in {c.n : c \in codes} PROVE n \in Nat
    BY DEF NumberInv, NumberTyped, Codes
  <2>2. ASSUME NEW r \in Registrars, CodeTaken(r) \/ SlotRefused(r) \/ Deadlock(r) PROVE Abandon(r)
    BY <2>2 DEF CodeTaken, SlotRefused, Deadlock
  <2> QED BY <1>2, <2>1, <2>2, AbandonKeeps, BeginKeepsNumbers, LockKeepsNumbers, ReadNumberKeeps, WriteKeepsNumbers,
             InsertKeepsNumbers, CommitKeepsNumbers, UseKeeps, ConvertKeeps, BootLooks, RaiseKeeps DEF NumberNext
<1> QED BY <1>1, <1>2

\* A number is on one booking, whatever requests fail or wait for each other and whatever
\* servers start, unless the counter was written back after it had moved on.
THEOREM EventCodesNumberOnOneBooking == NumberSpec => []NumberOnOneBooking
<1>1. NumberInv => NumberOnOneBooking
  BY DEF NumberInv
<1> QED BY NumberStarts, NumberStep, <1>1, PTL DEF NumberSpec

\* The counter, the codes, the row locks and the requests are of their types: an idle
\* request holds no row, and whoever has written the counter holds its row.
THEOREM NumberTypes == NumberSpec => []NumberTypeOK
<1>1. NumberInv => NumberTypeOK
  <2> SUFFICES ASSUME NumberInv PROVE NumberTypeOK
    OBVIOUS
  <2>1. NumberTyped /\ \A r \in Registrars : StepOK(r)
    BY DEF NumberInv
  <2>2. /\ DOMAIN registrar = Registrars /\ DOMAIN holder = NumberRows
        /\ \A r \in Registrars : registrar[r] \in Requests
    BY <2>1 DEF NumberTyped
  <2>3. ASSUME NEW r \in Registrars
        PROVE  /\ registrar[r].step \in RequestSteps /\ registrar[r].taken \subseteq Codes
               /\ registrar[r].own > 0 /\ registrar[r].step # "use" => holder[Settings] = r
               /\ registrar[r].step = "idle" => \A x \in DOMAIN holder : holder[x] # r
    BY <2>1, <2>2 DEF StepOK, Live, Requests
  <2> QED BY <2>1, <2>2, <2>3 DEF NumberTyped, NumberTypeOK, RequestSteps, NumberRows
<1> QED BY NumberStarts, NumberStep, <1>1, PTL DEF NumberSpec
=============================================================================
