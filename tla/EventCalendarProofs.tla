------------------------- MODULE EventCalendarProofs -------------------------
(***************************************************************************)
(* Theorems about EventCalendar for every value of its constants.           *)
(***************************************************************************)
EXTENDS EventCalendar, TLAPS

------------------------------------------------------------------------------
(* Helpers *)

\* An answered handler has a well-typed state.
LEMMA IdleType == Idle \in RequestState
  BY DEF Idle, RequestState, KeptSlot, KeptType, EventTypes, Expiries

\* The row of a date, stored or by its defaults, is well-typed.
LEMMA RowOfType ==
    ASSUME CalendarType, NEW d \in Dates
    PROVE  RowOf(d) \in CalendarRow
  BY DEF CalendarType, RowOf, DefaultRow, CalendarRow, Statuses, Expiries, Rows

\* The repair of a date row (syncEventDateWithOptionBookings) keeps its type.
LEMMA SyncedType ==
    ASSUME NEW row \in CalendarRow, NEW option, NEW confirmed
    PROVE  Synced(row, option, confirmed) \in CalendarRow
  BY DEF Synced, CalendarRow, Statuses, Expiries

\* Releasing a date row keeps its type.
LEMMA ReleasedType ==
    ASSUME NEW row \in CalendarRow
    PROVE  Released(row) \in CalendarRow /\ FreedRow(row) \in CalendarRow
<1>1. Released(row) \in CalendarRow
  BY DEF Released, CalendarRow, Statuses, Expiries
<1>2. [Released(row) EXCEPT !.lockedBy = NoOne] \in CalendarRow
  BY <1>1 DEF CalendarRow
<1> QED BY <1>1, <1>2 DEF FreedRow

\* A handler that goes on with a well-formed state keeps the type.
LEMMA WaitType ==
    ASSUME RequestType, NEW r \in Requests, NEW state \in RequestState,
           WellFormed(state), Wait(r, state)
    PROVE  RequestType'
  BY DEF RequestType, Wait

\* A handler that answers keeps the type.
LEMMA AnswerType ==
    ASSUME RequestType, NEW r \in Requests, Answer(r)
    PROVE  RequestType'
<1>1. WellFormed(Idle)
  BY DEF WellFormed, Idle
<1> QED BY <1>1, IdleType, WaitType DEF Answer

------------------------------------------------------------------------------
(* Who writes what *)

\* Answering with an error and being aborted are the same step.
LEMMA StepCases ==
    ASSUME Next
    PROVE  \/ \E r \in Requests : Arrive(r) \/ Advance(r) \/ Reject(r)
           \/ Atomic
           \/ JobStep
           \/ JobAbort
           \/ AdvanceDay
           \/ \E d \in Dates : Lapse(d)
  BY DEF Next, AbortDeadlock

\* The steps that write a date row.
CalendarWrite ==
    \/ \E r \in Requests : \/ CommitConfirmed(r) \/ CommitOptions(r) \/ CommitEdit(r)
                           \/ GroupEditCommit(r) \/ CommitConvert(r) \/ SyncWrite(r)
                           \/ SetDeadline(r)     \/ ReleaseDateWrite(r)
    \/ Atomic
    \/ PurgeDates \/ ArchiveCommit
    \/ \E d \in Dates : Lapse(d)

\* Only the actions of CalendarWrite change date rows.
LEMMA CalendarWriters ==
    ASSUME Next
    PROVE  UNCHANGED calendar \/ CalendarWrite
<1>1. CASE \E r \in Requests : Arrive(r) \/ Advance(r) \/ Reject(r)
  BY <1>1, ZenonT(60) DEF CalendarWrite, Arrive, Advance, Reject, ReadForConfirmed,
        ReadForOptions, ReadForEdit, ReadForConvert, SyncRead, ReleaseDateRead,
        DeleteForOverride, LockForOptions, GroupEditLock, LockForConvert
<1>2. CASE JobStep \/ JobAbort \/ AdvanceDay
  BY <1>2 DEF CalendarWrite, JobStep, JobAbort, AdvanceDay, PurgeScan,
        PurgeBookings, PurgeScanDates, ArchiveScan
<1> QED BY <1>1, <1>2, StepCases, SMTT(60) DEF CalendarWrite

\* The steps that write a booking row.
BookingWrite ==
    \/ \E r \in Requests : \/ CommitConfirmed(r) \/ CommitOptions(r) \/ CommitEdit(r)
                           \/ GroupEditCommit(r) \/ CommitConvert(r)
    \/ \E b \in Bookings : FinalizeBooking(b)
    \/ \E D \in SUBSET Dates : ReleaseOptions(D)
    \/ \E d \in Dates, s \in Slots, t \in EventTypes :
         BookEventFinal(d, s, t) \/ \E g \in Groups : CreateOption(d, s, t, g)
    \/ PurgeBookings

\* Only the actions of BookingWrite change booking rows.
LEMMA BookingWriters ==
    ASSUME Next
    PROVE  UNCHANGED <<bookings, issued>> \/ BookingWrite
<1>1. CASE \E r \in Requests : Arrive(r) \/ Advance(r) \/ Reject(r)
  BY <1>1, ZenonT(60) DEF BookingWrite, Arrive, Advance, Reject, ReadForConfirmed,
        ReadForOptions, ReadForEdit, ReadForConvert, SyncRead, ReleaseDateRead,
        DeleteForOverride, LockForOptions, GroupEditLock, LockForConvert,
        SyncWrite, SetDeadline, ReleaseDateWrite
<1>2. CASE Atomic
  BY <1>2 DEF BookingWrite, Atomic, Clients, SaveOptionHold, LockDateForChecking
<1>3. CASE JobStep \/ JobAbort \/ AdvanceDay \/ \E d \in Dates : Lapse(d)
  BY <1>3 DEF BookingWrite, JobStep, JobAbort, AdvanceDay, Lapse, PurgeScan,
        PurgeScanDates, PurgeDates, ArchiveScan, ArchiveCommit
<1> QED BY <1>1, <1>2, <1>3, StepCases

\* The steps that change what a handler remembers.
LEMMA RequestWriters ==
    ASSUME Next
    PROVE  \/ UNCHANGED request
           \/ \E r \in Requests : Arrive(r) \/ Advance(r) \/ Reject(r)
<1>1. CASE Atomic
  BY <1>1 DEF Atomic, FinalizeBooking, ReleaseOptions, SaveOptionHold,
        BookEventFinal, CreateOption, LockDateForChecking
<1>2. CASE JobStep \/ JobAbort \/ AdvanceDay \/ \E d \in Dates : Lapse(d)
  BY <1>2 DEF JobStep, JobAbort, AdvanceDay, Lapse, PurgeScan, PurgeBookings,
        PurgeScanDates, PurgeDates, ArchiveScan, ArchiveCommit
<1> QED BY <1>1, <1>2, StepCases

------------------------------------------------------------------------------
(* Type correctness *)

\* Inserting or updating well-typed date rows keeps the calendar typed.
LEMMA UpsertType ==
    ASSUME CalendarType, NEW rows, DOMAIN rows \subseteq Dates,
           \A d \in DOMAIN rows : rows[d] \in CalendarRow,
           calendar' = Upsert(calendar, rows)
    PROVE  CalendarType'
  BY DEF CalendarType, Upsert, Rows

\* Updating one stored date row keeps the calendar typed.
LEMMA RowWriteType ==
    ASSUME CalendarType, NEW d, NEW row, d \in Rows => row \in CalendarRow,
           calendar' = [calendar EXCEPT ![d] = row]
    PROVE  CalendarType'
  BY DEF CalendarType, Rows

\* The fields of a handler state that its date writes use.
LEMMA RequestFields ==
    ASSUME RequestType, NEW r \in Requests
    PROVE  /\ request[r] \in RequestState
           /\ request[r].dates \subseteq Dates
           /\ request[r].seenExpiry \in Expiries
           /\ request[r].pc # "idle" => request[r].date \in Dates
  BY DEF RequestType, WellFormed, RequestState

\* The date row an option edit leaves is well-typed.
LEMMA EditedRowType ==
    ASSUME CalendarType, NEW r \in Requests, request[r].date \in Rows,
           NEW option, NEW confirmed
    PROVE  EditedRow(request[r], option, confirmed) \in CalendarRow
<1>1. calendar[request[r].date] \in CalendarRow
  BY DEF CalendarType
<1>2. Synced(calendar[request[r].date], option, confirmed) \in CalendarRow
  BY <1>1, SyncedType
<1>3. [Synced(calendar[request[r].date], option, confirmed) EXCEPT !.expiry = "live"]
        \in CalendarRow
  BY <1>2 DEF CalendarRow, Expiries
<1> QED BY <1>1, <1>2, <1>3 DEF EditedRow

\* Every step keeps the EventDate table typed.
LEMMA CalendarTypeStep ==
    ASSUME TypeOK, Next
    PROVE  CalendarType'
<1> USE DEF TypeOK
<1>0. CASE UNCHANGED calendar
  BY <1>0 DEF CalendarType, Rows
<1>1. ASSUME NEW r \in Requests, CommitConfirmed(r)
      PROVE  CalendarType'
  <2> DEFINE d    == request[r].date
             base == IF request[r].override THEN FreedRow(RowOf(d)) ELSE RowOf(d)
             keep == base.status = "BOOKED" /\ d \in request[r].seenOption
             row  == [base EXCEPT !.status = "BOOKED",
                                  !.expiry = IF keep THEN @ ELSE "none"]
  <2>1. d \in Dates
    BY <1>1, RequestFields DEF CommitConfirmed
  <2>2. base \in CalendarRow
    BY <2>1, RowOfType, ReleasedType
  <2>3. row \in CalendarRow
    BY <2>2 DEF CalendarRow, Statuses, Expiries
  <2>4. calendar' = Upsert(calendar, [x \in {d} |-> row])
    BY <1>1 DEF CommitConfirmed
  <2> HIDE DEF row, d
  <2> QED BY <2>1, <2>3, <2>4, UpsertType
<1>2. ASSUME NEW r \in Requests, CommitOptions(r)
      PROVE  CalendarType'
  <2> DEFINE q == request[r]
             row(d) == [RowOf(d) EXCEPT
                    !.status = IF d \notin q.seenConfirmed \/ ConfirmedOn(d) = {}
                               THEN "OPTION" ELSE @,
                    !.expiry = "live"]
  <2>1. q.dates \subseteq Dates
    BY RequestFields
  <2>2. \A d \in q.dates : row(d) \in CalendarRow
    BY <2>1, RowOfType DEF CalendarRow, Statuses, Expiries
  <2>3. calendar' = Upsert(calendar, [d \in q.dates |-> row(d)])
    BY <1>2 DEF CommitOptions
  <2> HIDE DEF row, q
  <2> QED BY <2>1, <2>2, <2>3, UpsertType
<1>3. ASSUME NEW r \in Requests, CommitEdit(r)
      PROVE  CalendarType'
  <2> DEFINE q   == request[r]
             row == EditedRow(q, OptionsOn(q.date) # {}, ConfirmedOn(q.date) # {})
  <2>1. calendar' = [calendar EXCEPT ![q.date] = row]
    BY <1>3 DEF CommitEdit
  <2>2. q.date \in Rows => row \in CalendarRow
    BY EditedRowType
  <2> HIDE DEF row, q
  <2> QED BY <2>1, <2>2 DEF CalendarType, Rows
<1>4. ASSUME NEW r \in Requests, GroupEditCommit(r)
      PROVE  CalendarType'
  <2> DEFINE q      == request[r]
             fresh  == q.dates \ DatesOf(q.related)
             expiry == IF q.extend THEN "live" ELSE q.seenExpiry
             anchor == EditedRow(q, q.seenOption # {}, q.seenConfirmed # {})
             Opened(d) ==
                IF RowOf(d).status = "BOOKED" /\ OptionsOn(d) # {} THEN RowOf(d)
                ELSE [RowOf(d) EXCEPT
                        !.status = IF ConfirmedOn(d) = {} THEN "OPTION" ELSE @,
                        !.expiry = expiry]
             row(d) == IF d \in fresh THEN Opened(d)
                       ELSE IF d = q.date /\ d \notin q.empties THEN anchor
                       ELSE IF d = q.date THEN Released(anchor)
                       ELSE Released(calendar[d])
             D == {q.date} \cup q.empties \cup fresh
  <2>1. calendar' = Upsert(calendar, [d \in D |-> row(d)])
    BY <1>4 DEF GroupEditCommit
  <2>2. D \subseteq Dates
    BY <1>4, RequestFields DEF GroupEditCommit, CalendarType
  <2>3. q.date \in Rows => anchor \in CalendarRow /\ Released(anchor) \in CalendarRow
    BY EditedRowType, ReleasedType
  <2>4. ASSUME NEW d \in D
        PROVE  row(d) \in CalendarRow
    <3>1. CASE d \in fresh
      <4>1. RowOf(d) \in CalendarRow
        BY <2>2, RowOfType
      <4>2. expiry \in Expiries
        BY RequestFields DEF Expiries
      <4>3. [RowOf(d) EXCEPT !.status = IF ConfirmedOn(d) = {} THEN "OPTION" ELSE @,
                             !.expiry = expiry] \in CalendarRow
        <5> HIDE DEF expiry
        <5> QED BY <4>1, <4>2 DEF CalendarRow, Statuses
      <4> QED BY <3>1, <4>1, <4>3
    <3>2. CASE d \notin fresh /\ d = q.date
      <4>1. q.date \in Rows
        BY <1>4 DEF GroupEditCommit
      <4> QED BY <3>2, <4>1, <2>3
    <3>3. CASE d \notin fresh /\ d # q.date
      <4>1. calendar[d] \in CalendarRow
        BY <3>3, <1>4 DEF GroupEditCommit, CalendarType
      <4> QED BY <3>3, <4>1, ReleasedType
    <3> QED BY <3>1, <3>2, <3>3
  <2> HIDE DEF row, D
  <2> QED BY <2>1, <2>2, <2>4, UpsertType
<1>5. ASSUME NEW r \in Requests, CommitConvert(r)
      PROVE  CalendarType'
  <2> DEFINE q == request[r]
             row(x) == IF x \in q.empties THEN FreedRow(calendar[x])
                ELSE IF x # q.date THEN calendar[x]
                ELSE IF q.option THEN Synced(calendar[q.date], TRUE, TRUE)
                ELSE [calendar[q.date] EXCEPT !.status = "BOOKED", !.expiry = "none"]
  <2>1. calendar' = [x \in Rows |-> row(x)]
    BY <1>5 DEF CommitConvert
  <2>2. ASSUME NEW x \in Rows
        PROVE  row(x) \in CalendarRow
    <3>1. calendar[x] \in CalendarRow
      BY DEF CalendarType
    <3>2. [calendar[x] EXCEPT !.status = "BOOKED", !.expiry = "none"] \in CalendarRow
      BY <3>1 DEF CalendarRow, Statuses, Expiries
    <3> QED BY <3>1, <3>2, SyncedType, ReleasedType
  <2> HIDE DEF row, q
  <2> QED BY <2>1, <2>2 DEF CalendarType, Rows
<1>6. ASSUME NEW r \in Requests, SyncWrite(r)
      PROVE  CalendarType'
  <2> DEFINE q   == request[r]
             old == calendar[q.date]
             row == [old EXCEPT !.status = IF q.option THEN "OPTION" ELSE @,
                                !.expiry = IF q.seenExpiry = "none" THEN "live" ELSE @]
  <2>1. old \in CalendarRow
    BY <1>6 DEF SyncWrite, CalendarType
  <2>2. row \in CalendarRow
    BY <2>1 DEF CalendarRow, Statuses, Expiries
  <2>3. calendar' = [calendar EXCEPT ![q.date] = row]
    BY <1>6 DEF SyncWrite
  <2> HIDE DEF row, q
  <2> QED BY <2>2, <2>3, RowWriteType
<1>10. ASSUME NEW r \in Requests, SetDeadline(r)
       PROVE  CalendarType'
  <2> DEFINE d   == request[r].date
             row == [calendar[d] EXCEPT !.expiry = "live"]
  <2>1. d \in Rows /\ calendar' = [calendar EXCEPT ![d] = row]
    BY <1>10 DEF SetDeadline
  <2>2. row \in CalendarRow
    BY <2>1 DEF CalendarType, CalendarRow, Expiries
  <2> HIDE DEF row, d
  <2> QED BY <2>1, <2>2, RowWriteType
<1>11. ASSUME NEW r \in Requests, ReleaseDateWrite(r)
       PROVE  CalendarType'
  <2> DEFINE q      == request[r]
             booked == q.seenOption \cup q.seenConfirmed # {}
             row    == [status   |-> IF q.seenConfirmed # {} THEN "BOOKED"
                                     ELSE IF booked THEN "OPTION" ELSE "AVAILABLE",
                        expiry   |-> IF booked THEN q.seenExpiry ELSE "none",
                        lockedBy |-> NoOne]
  <2>1. calendar' = [calendar EXCEPT ![q.date] = row]
    BY <1>11 DEF ReleaseDateWrite
  <2>2. row \in CalendarRow
    BY RequestFields DEF CalendarRow, Statuses, Expiries
  <2> HIDE DEF row, q
  <2> QED BY <2>1, <2>2, RowWriteType
<1>7. CASE Atomic
  <2>1. ASSUME NEW b \in Bookings, FinalizeBooking(b)
        PROVE  CalendarType'
    <3> DEFINE d   == bookings[b].date
               row == [calendar[d] EXCEPT !.status = "BOOKED", !.expiry = "none"]
    <3>1. calendar' = [calendar EXCEPT ![d] = row]
      BY <2>1 DEF FinalizeBooking
    <3>2. d \in Rows => row \in CalendarRow
      BY DEF CalendarType, CalendarRow, Statuses, Expiries
    <3> HIDE DEF row, d
    <3> QED BY <3>1, <3>2, RowWriteType
  <2>2. ASSUME NEW D \in SUBSET Dates, ReleaseOptions(D)
        PROVE  CalendarType'
    BY <2>2, ReleasedType DEF ReleaseOptions, CalendarType, Rows
  <2>3. ASSUME NEW D \in SUBSET Dates, SaveOptionHold(D)
        PROVE  CalendarType'
    <3> DEFINE row == [status |-> "OPTION", expiry |-> "live", lockedBy |-> NoOne]
    <3>1. row \in CalendarRow
      BY DEF CalendarRow, Statuses, Expiries
    <3>2. calendar' = Upsert(calendar, [d \in D |-> row])
      BY <2>3 DEF SaveOptionHold
    <3> HIDE DEF row
    <3> QED BY <3>1, <3>2, UpsertType
  <2>4. ASSUME NEW d \in Dates, NEW s \in Slots,
               NEW t \in EventTypes, NEW g,
               BookEventFinal(d, s, t) \/ CreateOption(d, s, t, g)
        PROVE  CalendarType'
    <3> DEFINE event  == [status |-> "BOOKED", expiry |-> "none", lockedBy |-> NoOne]
               option == [status |-> "OPTION", expiry |-> "live", lockedBy |-> NoOne]
    <3>1. event \in CalendarRow /\ option \in CalendarRow
      BY DEF CalendarRow, Statuses, Expiries
    <3>2. \/ calendar' = [calendar EXCEPT ![d] = event]
          \/ calendar' = [calendar EXCEPT ![d] = option]
      BY <2>4 DEF BookEventFinal, CreateOption
    <3> HIDE DEF event, option
    <3> QED BY <3>1, <3>2, RowWriteType
  <2>5. ASSUME NEW d \in Dates, NEW e \in Employees, LockDateForChecking(d, e)
        PROVE  CalendarType'
    <3> DEFINE row == [status |-> "CHECKING", expiry |-> "live", lockedBy |-> e]
    <3>1. row \in CalendarRow
      BY DEF CalendarRow, Statuses, Expiries
    <3>2. calendar' = Upsert(calendar, [x \in {d} |-> row])
      BY <2>5 DEF LockDateForChecking
    <3> HIDE DEF row
    <3> QED BY <3>1, <3>2, UpsertType
  <2> QED BY <1>7, <2>1, <2>2, <2>3, <2>4, <2>5 DEF Atomic
<1>8. CASE PurgeDates \/ ArchiveCommit
  BY <1>8 DEF CalendarType, Rows, PurgeDates, ArchiveCommit, Without, CalendarRow, Statuses
<1>9. ASSUME NEW d \in Dates, Lapse(d)
      PROVE  CalendarType'
  BY <1>9 DEF CalendarType, Rows, Lapse, CalendarRow, Expiries
<1> QED
  BY <1>0, <1>1, <1>2, <1>3, <1>4, <1>5, <1>6, <1>7, <1>8, <1>9, <1>10, <1>11,
     CalendarWriters
     DEF CalendarWrite

\* What createBooking remembers of the next date is well-typed.
LEMMA SeenBeforeType ==
    ASSUME NEW state \in RequestState, NEW d \in Dates
    PROVE  /\ SeenBefore(state, d) \in RequestState
           /\ SeenBefore(state, d).date = d
           /\ SeenBefore(state, d).pc = state.pc
<1> DEFINE rows == state.seenRow \cup (Rows \cap {d})
           conf == state.seenConfirmed \cup {x \in {d} : ConfirmedOn(x) # {}}
<1>1. rows \in SUBSET Dates /\ conf \in SUBSET Dates
  BY DEF RequestState
<1>2. SeenBefore(state, d) = [state EXCEPT !.date = d, !.seenRow = rows,
                                           !.seenConfirmed = conf]
  BY DEF SeenBefore, RequestState
<1> HIDE DEF rows, conf
<1> QED BY <1>1, <1>2, ZenonT(60) DEF RequestState

\* What a handler remembers when its request arrives.
LEMMA ArriveType ==
    ASSUME TypeOK, NEW r \in Requests, Arrive(r)
    PROVE  RequestType'
<1> USE DEF TypeOK
<1> USE CalendarAssumption
<1>1. CASE ReadForConfirmed(r)
  <2>1. PICK d \in Dates, s \in Slots, t \in EventTypes,
             override \in BOOLEAN :
            Wait(r, [Idle EXCEPT !.pc = IF override THEN "override" ELSE "confirm",
                        !.date = d, !.slot = s, !.type = t, !.checked = t,
                        !.override = override,
                        !.seenRow = Rows \cap {d},
                        !.seenOption = {x \in {d} : OptionsOn(x) # {}}])
    BY <1>1 DEF ReadForConfirmed
  <2> DEFINE state == [Idle EXCEPT !.pc = IF override THEN "override" ELSE "confirm",
                        !.date = d, !.slot = s, !.type = t, !.checked = t,
                        !.override = override,
                        !.seenRow = Rows \cap {d},
                        !.seenOption = {x \in {d} : OptionsOn(x) # {}}]
  <2>2. state \in RequestState /\ WellFormed(state)
    BY ZenonT(60) DEF RequestState, Idle, WellFormed, Expiries
  <2>3. Wait(r, state)
    BY <2>1
  <2> HIDE DEF state
  <2> QED BY <2>2, <2>3, WaitType
<1>2. CASE ReadForOptions(r)
  <2>0. PICK D \in SUBSET Dates, s \in Slots, t \in EventTypes,
             g \in Groups :
            \E d \in D : Wait(r, SeenBefore([Idle EXCEPT !.pc = "options",
                            !.dates = D, !.slot = s, !.type = t, !.checked = t,
                            !.group = g], d))
    BY <1>2 DEF ReadForOptions, Clients
  <2>1. PICK d \in D :
            Wait(r, SeenBefore([Idle EXCEPT !.pc = "options", !.dates = D,
                                            !.slot = s, !.type = t,
                                            !.checked = t, !.group = g], d))
    BY <2>0
  <2> DEFINE first == [Idle EXCEPT !.pc = "options", !.dates = D, !.slot = s,
                                   !.type = t, !.checked = t, !.group = g]
             state == SeenBefore(first, d)
  <2>2. first \in RequestState /\ first.pc = "options"
    BY DEF RequestState, Idle, Expiries
  <2>3. state \in RequestState /\ WellFormed(state)
    <3> HIDE DEF first
    <3> QED BY <2>2, SeenBeforeType DEF WellFormed
  <2>4. Wait(r, state)
    BY <2>1
  <2> HIDE DEF state
  <2> QED BY <2>3, <2>4, WaitType
<1>3. CASE ReadForEdit(r)
  <2>1. PICK b \in Live, s \in Slots \cup {KeptSlot},
             t \in EventTypes \cup {KeptType},
             D \in SUBSET Dates, extend \in BOOLEAN :
             LET d == bookings[b].date IN
             /\ Given(D, s, t)
             /\ d \in Rows
             /\ calendar[d].status # "ARCHIVED"
             /\ Editable(d)
             /\ s \notin BlockedSlots(WeekdayOf[d])
             /\ IF D = {} THEN "edit" \in traffic.kinds ELSE "groupEdit" \in traffic.kinds
             /\ D # {} => /\ bookings[b].isOption
                          /\ s # KeptSlot
                          /\ Cardinality(D) <= MaxOptionDates
             /\ extend => "extend" \in traffic.kinds /\ bookings[b].isOption
             /\ Wait(r, [Idle EXCEPT !.pc = "edit", !.booking = b, !.date = d,
                        !.slot = s, !.type = t, !.checked = CheckedType(b, t),
                        !.dates = D, !.extend = extend,
                        !.group = bookings[b].group,
                        !.option = bookings[b].isOption,
                        !.seenExpiry = calendar[d].expiry])
    BY <1>3, Zenon DEF ReadForEdit
  <2> DEFINE state == [Idle EXCEPT !.pc = "edit", !.booking = b,
                        !.date = bookings[b].date,
                        !.slot = s, !.type = t, !.checked = CheckedType(b, t),
                        !.dates = D, !.extend = extend,
                        !.group = bookings[b].group,
                        !.option = bookings[b].isOption,
                        !.seenExpiry = calendar[bookings[b].date].expiry]
  <2>6. bookings[b].date \in Rows /\ (D # {} => s # KeptSlot)
    BY <2>1
  <2>2. calendar[bookings[b].date].expiry \in Expiries
    BY <2>6 DEF CalendarType, CalendarRow
  <2>3. b \in Bookings /\ bookings[b] \in BookingRow
    BY DEF BookingsType
  <2>7. CheckedType(b, t) \in EventTypes
    BY <2>3 DEF CheckedType, BookingRow
  <2>4. state \in RequestState /\ WellFormed(state)
    <3>1. state \in RequestState
      BY <2>6, <2>2, <2>3, <2>7, ZenonT(60) DEF RequestState, Idle, BookingRow
    <3>2. WellFormed(state)
      BY <2>3, <2>6 DEF Idle, WellFormed, BookingRow
    <3> QED BY <3>1, <3>2
  <2>5. Wait(r, state)
    BY <2>1
  <2> HIDE DEF state
  <2> QED BY <2>4, <2>5, WaitType
<1>4. CASE ReadForConvert(r)
  <2>1. PICK b \in Live, s \in Slots \cup {KeptSlot},
             t \in EventTypes \cup {KeptType}, D \in SUBSET Dates :
             Wait(r, [Idle EXCEPT !.pc = "convert", !.booking = b,
                        !.date = bookings[b].date, !.slot = s, !.type = t,
                        !.checked = CheckedType(b, t), !.dates = D,
                        !.group = bookings[b].group])
    BY <1>4 DEF ReadForConvert
  <2> DEFINE state == [Idle EXCEPT !.pc = "convert", !.booking = b,
                        !.date = bookings[b].date, !.slot = s, !.type = t,
                        !.checked = CheckedType(b, t), !.dates = D,
                        !.group = bookings[b].group]
  <2>2. b \in Bookings /\ bookings[b] \in BookingRow
    BY DEF BookingsType
  <2>5. CheckedType(b, t) \in EventTypes
    BY <2>2 DEF CheckedType, BookingRow
  <2>3. state \in RequestState /\ WellFormed(state)
    <3>1. state \in RequestState
      BY <2>2, <2>5, ZenonT(60) DEF RequestState, Idle, BookingRow, Expiries
    <3>2. WellFormed(state)
      BY <2>2 DEF Idle, WellFormed, BookingRow
    <3> QED BY <3>1, <3>2
  <2>4. Wait(r, state)
    BY <2>1
  <2> HIDE DEF state
  <2> QED BY <2>3, <2>4, WaitType
<1>5. CASE SyncRead(r)
  <2>1. PICK d \in Rows, extend \in BOOLEAN, stray \in BOOLEAN, repair \in BOOLEAN :
             Wait(r, [Idle EXCEPT !.pc = IF repair THEN "sync" ELSE "deadline",
                            !.date = d, !.extend = extend, !.option = stray,
                            !.seenExpiry = calendar[d].expiry])
    BY <1>5 DEF SyncRead
  <2> DEFINE state == [Idle EXCEPT !.pc = IF repair THEN "sync" ELSE "deadline",
                            !.date = d, !.extend = extend, !.option = stray,
                            !.seenExpiry = calendar[d].expiry]
  <2>2. d \in Dates /\ calendar[d].expiry \in Expiries
    BY DEF CalendarType, CalendarRow
  <2>3. state \in RequestState /\ WellFormed(state)
    BY <2>2, ZenonT(60) DEF RequestState, Idle, EventTypes, WellFormed
  <2>4. Wait(r, state)
    BY <2>1
  <2> HIDE DEF state
  <2> QED BY <2>3, <2>4, WaitType
<1>6. CASE ReleaseDateRead(r)
  <2>1. PICK d \in Rows :
         Wait(r, [Idle EXCEPT !.pc = "release", !.date = d,
                    !.seenExpiry = calendar[d].expiry,
                    !.seenOption = {x \in {d} : OptionsOn(x) # {}},
                    !.seenConfirmed = {x \in {d} : ConfirmedOn(x) # {}}])
    BY <1>6 DEF ReleaseDateRead
  <2> DEFINE state == [Idle EXCEPT !.pc = "release", !.date = d,
                    !.seenExpiry = calendar[d].expiry,
                    !.seenOption = {x \in {d} : OptionsOn(x) # {}},
                    !.seenConfirmed = {x \in {d} : ConfirmedOn(x) # {}}]
  <2>2. d \in Dates /\ calendar[d].expiry \in Expiries
    BY DEF CalendarType, CalendarRow
  <2>3. state \in RequestState /\ WellFormed(state)
    BY <2>2, ZenonT(60) DEF RequestState, Idle, EventTypes, WellFormed
  <2>4. Wait(r, state)
    BY <2>1
  <2> HIDE DEF state
  <2> QED BY <2>3, <2>4, WaitType
<1> QED BY <1>1, <1>2, <1>3, <1>4, <1>5, <1>6 DEF Arrive

\* What it remembers from one of its steps to the next.
LEMMA AdvanceType ==
    ASSUME TypeOK, NEW r \in Requests, Advance(r) \/ Reject(r)
    PROVE  RequestType'
<1> USE DEF TypeOK
<1> DEFINE q == request[r]
<1>0. /\ q \in RequestState
      /\ WellFormed(q)
  BY DEF RequestType
<1>1. CASE \/ CommitConfirmed(r) \/ CommitOptions(r) \/ CommitEdit(r)
           \/ GroupEditCommit(r) \/ CommitConvert(r) \/ SetDeadline(r)
           \/ ReleaseDateWrite(r) \/ Reject(r)
  BY <1>1, AnswerType DEF CommitConfirmed, CommitOptions, CommitEdit,
        GroupEditCommit, CommitConvert, SetDeadline, ReleaseDateWrite, Reject
<1>2. CASE DeleteForOverride(r)
  <2> DEFINE state == [q EXCEPT !.pc = "confirm", !.doomed = BookingsOn(q.date)]
  <2>1. BookingsOn(q.date) \in SUBSET Bookings
    BY DEF BookingsOn, BookingsType, Live
  <2>2. q.pc = "override" /\ Wait(r, state)
    BY <1>2 DEF DeleteForOverride
  <2>3. state \in RequestState /\ WellFormed(state)
    <3> HIDE DEF q
    <3> QED BY <1>0, <2>1, <2>2 DEF RequestState, WellFormed
  <2> HIDE DEF state
  <2> QED BY <2>2, <2>3, WaitType
<1>3. CASE LockForOptions(r)
  <2> DEFINE held  == q.locked \cup {q.date}
             last  == [q EXCEPT !.pc = "optionsCommit", !.locked = held]
             other == [q EXCEPT !.locked = held]
  <2>1. q.pc = "options" /\ held \in SUBSET Dates
    BY <1>3, <1>0 DEF LockForOptions, RequestState, WellFormed
  <2>2. /\ last \in RequestState /\ WellFormed(last)
        /\ other \in RequestState /\ other.pc = "options"
    <3> HIDE DEF q, held
    <3> QED BY <1>0, <2>1 DEF RequestState, WellFormed
  <2>3. Wait(r, last) \/ \E d \in q.dates \ held : Wait(r, SeenBefore(other, d))
    BY <1>3 DEF LockForOptions
  <2>4. CASE Wait(r, last)
    <3> HIDE DEF last
    <3> QED BY <2>2, <2>4, WaitType
  <2>5. ASSUME NEW d \in q.dates \ held, Wait(r, SeenBefore(other, d))
        PROVE  RequestType'
    <3>1. d \in Dates
      BY <1>0 DEF RequestState
    <3> HIDE DEF other
    <3>2. SeenBefore(other, d) \in RequestState /\ WellFormed(SeenBefore(other, d))
      BY <2>2, <3>1, SeenBeforeType DEF WellFormed
    <3> QED BY <2>5, <3>2, WaitType
  <2> QED BY <2>3, <2>4, <2>5
<1>4. CASE GroupEditLock(r)
  <2>1. PICK g \in Groups : 
            LET related == GroupOptions(q.group)
                                \ (IF g = q.group THEN {} ELSE {q.booking})
                doomed  == {b \in related : bookings[b].date \notin q.dates}
            IN  Wait(r, [q EXCEPT !.pc = "groupCommit", !.locked = {q.date},
                    !.group = g, !.related = related, !.doomed = doomed,
                    !.empties = EmptiedBy(doomed, DatesOf(doomed)),
                    !.seenOption = {x \in {q.date} : OptionsOn(x) # {}},
                    !.seenConfirmed = {x \in {q.date} : ConfirmedOn(x) # {}}])
    BY <1>4 DEF GroupEditLock, Clients
  <2> DEFINE related == GroupOptions(q.group)
                                \ (IF g = q.group THEN {} ELSE {q.booking})
             doomed  == {b \in related : bookings[b].date \notin q.dates}
             empties == EmptiedBy(doomed, DatesOf(doomed))
             options == {x \in {q.date} : OptionsOn(x) # {}}
             events  == {x \in {q.date} : ConfirmedOn(x) # {}}
             state == [q EXCEPT !.pc = "groupCommit", !.locked = {q.date},
                    !.group = g, !.related = related, !.doomed = doomed,
                    !.empties = empties, !.seenOption = options,
                    !.seenConfirmed = events]
  <2>2. q.pc = "edit" /\ q.dates # {}
    BY <1>4 DEF GroupEditLock
  <2>3. related \in SUBSET Bookings /\ doomed \in SUBSET Bookings
    BY DEF GroupOptions, BookingsType, Live
  <2>4. empties \in SUBSET Dates
    BY DEF EmptiedBy, DatesOf, GroupOptions, BookingsType, BookingRow, Live
  <2>5. options \in SUBSET Dates /\ events \in SUBSET Dates /\ q.date \in Dates
    BY <1>0, <2>2 DEF WellFormed
  <2>8. doomed \subseteq related /\ q.slot \in Slots
    BY <1>0, <2>2 DEF WellFormed
  <2>6. state \in RequestState /\ WellFormed(state)
    <3> HIDE DEF q, related, doomed, empties, options, events
    <3>1. state \in RequestState
      BY <1>0, <2>2, <2>3, <2>4, <2>5 DEF RequestState
    <3>2. /\ state.pc = "groupCommit" /\ state.date = q.date /\ state.slot = q.slot
          /\ state.doomed = doomed /\ state.related = related
      BY <1>0 DEF RequestState
    <3> QED BY <2>5, <2>8, <3>1, <3>2 DEF WellFormed
  <2>7. Wait(r, state)
    BY <2>1
  <2> HIDE DEF state
  <2> QED BY <2>6, <2>7, WaitType, SMTT(60)
<1>5. CASE LockForConvert(r)
  <2> DEFINE doomed  == {b \in GroupOptions(q.group) \ {q.booking} :
                            bookings[b].date \in q.dates}
             others  == OptionsOn(q.date) \ {q.booking} # {}
             empties == EmptiedBy(doomed, q.dates)
             state   == [q EXCEPT !.pc = "convertCommit", !.locked = {q.date},
                            !.option = others, !.doomed = doomed,
                            !.empties = empties]
  <2>1. q.pc = "convert" /\ Wait(r, state)
    BY <1>5 DEF LockForConvert
  <2>2. doomed \in SUBSET Bookings
    BY DEF GroupOptions, BookingsType, Live
  <2>3. empties \in SUBSET Dates /\ others \in BOOLEAN /\ q.date \in Dates
    BY <1>0, <2>1 DEF EmptiedBy, RequestState, WellFormed
  <2>4. state \in RequestState /\ WellFormed(state)
    <3> HIDE DEF q, doomed, others, empties
    <3> QED BY <1>0, <2>1, <2>2, <2>3 DEF RequestState, WellFormed
  <2> HIDE DEF state
  <2> QED BY <2>1, <2>4, WaitType
<1>6. CASE SyncWrite(r)
  <2> DEFINE state == [q EXCEPT !.pc = "deadline"]
  <2>1. q.pc = "sync" /\ (Wait(r, state) \/ Answer(r))
    BY <1>6 DEF SyncWrite
  <2>2. state \in RequestState /\ WellFormed(state)
    <3> HIDE DEF q
    <3> QED BY <1>0, <2>1 DEF RequestState, WellFormed
  <2> HIDE DEF state
  <2> QED BY <2>1, <2>2, WaitType, AnswerType
<1> QED BY <1>1, <1>2, <1>3, <1>4, <1>5, <1>6 DEF Advance

\* Every step keeps the handlers well-formed.
LEMMA RequestTypeStep ==
    ASSUME TypeOK, Next
    PROVE  RequestType'
<1>1. CASE UNCHANGED request
  BY <1>1 DEF TypeOK, RequestType
<1> QED BY <1>1, RequestWriters, ArriveType, AdvanceType

\* The tables only a job or the clock writes.
LEMMA JobTypeStep ==
    ASSUME TypeOK, Next
    PROVE  job' \in JobState /\ today' \in 0 .. LastDay
<1> USE DEF TypeOK
<1> USE CalendarAssumption
<1>1. CASE \E r \in Requests : Arrive(r) \/ Advance(r) \/ Reject(r)
  BY <1>1, ZenonT(60) DEF Arrive, Advance, Reject, ReadForConfirmed,
        ReadForOptions, ReadForEdit, ReadForConvert, SyncRead, ReleaseDateRead,
        DeleteForOverride, LockForOptions, GroupEditLock, LockForConvert,
        CommitConfirmed, CommitOptions, CommitEdit, GroupEditCommit, CommitConvert,
        SyncWrite, SetDeadline, ReleaseDateWrite
<1>2. CASE Atomic
  BY <1>2 DEF Atomic, FinalizeBooking, ReleaseOptions, SaveOptionHold,
        BookEventFinal, CreateOption, LockDateForChecking
<1>3. CASE PurgeScan
  <2> DEFINE old == {b \in Live : Expired(bookings[b].date)}
             pc  == IF old = {} THEN "archive" ELSE "purge"
  <2>1. job' = [pc |-> pc, ids |-> old, dates |-> DatesOf(old)] /\ today' = today
    BY <1>3 DEF PurgeScan
  <2>2. old \subseteq Bookings /\ DatesOf(old) \subseteq Dates
    BY DEF BookingsType, Live, DatesOf, BookingRow
  <2>3. pc \in {"purge", "archive"}
    OBVIOUS
  <2> HIDE DEF old, pc
  <2> QED BY <2>1, <2>2, <2>3 DEF JobState
<1>4. CASE PurgeBookings \/ PurgeDates \/ ArchiveCommit \/ JobAbort
  <2>1. IdleJob \in JobState
    BY DEF IdleJob, JobState
  <2>2. [IdleJob EXCEPT !.pc = "archive"] \in JobState
    BY DEF IdleJob, JobState
  <2>3. [job EXCEPT !.pc = "purgeDates", !.ids = {}] \in JobState
    BY DEF JobState
  <2> QED BY <1>4, <2>1, <2>2, <2>3 DEF PurgeBookings, PurgeDates, ArchiveCommit, JobAbort
<1>6. CASE PurgeScanDates
  <2> DEFINE left == {d \in job.dates \cap Rows : BookingsOn(d) = {}}
  <2>1. job' = [job EXCEPT !.pc = "deleteDates", !.dates = left] /\ today' = today
    BY <1>6 DEF PurgeScanDates, JobState
  <2>2. left \subseteq Dates
    BY DEF CalendarType
  <2> HIDE DEF left
  <2> QED BY <2>1, <2>2 DEF JobState
<1>7. CASE ArchiveScan
  <2> DEFINE past == {d \in Rows : /\ calendar[d].status = "BOOKED"
                                   /\ Past(d)
                                   /\ ConfirmedOn(d) # {}}
  <2>1. /\ \/ job' = IdleJob
           \/ job' = [pc |-> "archiveCommit", ids |-> {}, dates |-> past]
        /\ today' = today
    BY <1>7 DEF ArchiveScan
  <2>2. past \subseteq Dates
    BY DEF CalendarType
  <2> HIDE DEF past
  <2> QED BY <2>1, <2>2 DEF JobState, IdleJob
<1>5. CASE AdvanceDay \/ \E d \in Dates : Lapse(d)
  BY <1>5 DEF AdvanceDay, Lapse
<1> QED BY <1>1, <1>2, <1>3, <1>4, <1>5, <1>6, <1>7, StepCases DEF JobStep

\* The mix of traffic is chosen once.
LEMMA TrafficStays ==
    ASSUME Next
    PROVE  traffic' = traffic
<1>1. CASE \E r \in Requests : Arrive(r) \/ Advance(r) \/ Reject(r)
  BY <1>1, ZenonT(60) DEF Arrive, Advance, Reject, ReadForConfirmed,
        ReadForOptions, ReadForEdit, ReadForConvert, SyncRead, ReleaseDateRead,
        DeleteForOverride, LockForOptions, GroupEditLock, LockForConvert,
        CommitConfirmed, CommitOptions, CommitEdit, GroupEditCommit, CommitConvert,
        SyncWrite, SetDeadline, ReleaseDateWrite
<1>2. CASE Atomic
  BY <1>2 DEF Atomic, FinalizeBooking, ReleaseOptions, SaveOptionHold,
        BookEventFinal, CreateOption, LockDateForChecking
<1>3. CASE JobStep \/ JobAbort \/ AdvanceDay \/ \E d \in Dates : Lapse(d)
  BY <1>3 DEF JobStep, JobAbort, AdvanceDay, Lapse, PurgeScan, PurgeBookings,
        PurgeScanDates, PurgeDates, ArchiveScan, ArchiveCommit
<1> QED BY <1>1, <1>2, <1>3, StepCases

\* Inserts, updates and deletes of one transaction.
LEMMA BookingsUpsertType ==
    ASSUME BookingsType, NEW gone, NEW fresh, NEW rows,
           fresh \subseteq Bookings,
           DOMAIN rows \subseteq issued \cup fresh,
           \A b \in DOMAIN rows : rows[b] \in BookingRow,
           bookings' = Upsert(Without(bookings, gone), rows),
           issued' = issued \cup fresh
    PROVE  BookingsType'
<1>1. Live' = (Live \ gone) \cup DOMAIN rows
  BY DEF Live, Upsert, Without
<1>2. \A b \in Live' : bookings'[b] \in BookingRow
  BY <1>1 DEF BookingsType, Upsert, Without, Live
<1> QED BY <1>1, <1>2 DEF BookingsType

\* New rows of a multi-date write: fresh ids, one for each date.
LEMMA PlacementsType ==
    ASSUME NEW D, NEW on \in Placements(D)
    PROVE  /\ DOMAIN on \subseteq Bookings
           /\ DOMAIN on \cap issued = {}
           /\ \A b \in DOMAIN on : on[b] \in D
           /\ \A b, c \in DOMAIN on : on[b] = on[c] => b = c
  BY DEF Placements, FreshIds

\* An edit leaves a stored booking a type of event.
LEMMA EditedTypeType ==
    ASSUME TypeOK, NEW r \in Requests, NEW b \in Live
    PROVE  EditedType(request[r], b) \in EventTypes
<1>1. request[r].type \in EventTypes \cup {KeptType} /\ bookings[b].type \in EventTypes
  BY RequestFields DEF TypeOK, RequestState, BookingsType, BookingRow
<1> QED BY <1>1 DEF EditedType

\* Every step keeps the Booking table typed.
LEMMA BookingsTypeStep ==
    ASSUME IndInv, Next
    PROVE  BookingsType'
<1> USE DEF IndInv, TypeOK
<1>0. CASE UNCHANGED <<bookings, issued>>
  BY <1>0 DEF BookingsType, Live
<1>1. ASSUME NEW r \in Requests, CommitConfirmed(r)
      PROVE  BookingsType'
  <2> DEFINE q   == request[r]
             row == [date |-> q.date, slot |-> q.slot, type |-> q.checked,
                     isOption |-> FALSE, group |-> NoGroup]
  <2>1. PICK b \in FreshIds :
            /\ bookings' = Upsert(Without(bookings, q.doomed), [x \in {b} |-> row])
            /\ issued' = issued \cup {b}
    BY <1>1 DEF CommitConfirmed
  <2>2. q.date \in Dates /\ q.slot \in Slots /\ q.checked \in EventTypes
    <3>1. q \in RequestState
      BY RequestFields
    <3> QED BY <1>1, <3>1, RequestFields
            DEF CommitConfirmed, SlotAvailable, BookableSlots, RequestState
  <2> DEFINE rows == [x \in {b} |-> row]
  <2>3. row \in BookingRow
    BY <2>2 DEF BookingRow
  <2>4. DOMAIN rows = {b} /\ \A x \in DOMAIN rows : rows[x] \in BookingRow
    BY <2>3
  <2>5. bookings' = Upsert(Without(bookings, q.doomed), rows)
    BY <2>1
  <2> HIDE DEF q, rows
  <2> QED BY <2>1, <2>4, <2>5, BookingsUpsertType DEF FreshIds
<1>2. ASSUME NEW r \in Requests, CommitOptions(r)
      PROVE  BookingsType'
  <2> DEFINE q == request[r]
  <2>1. PICK on \in Placements(q.dates) :
            /\ bookings' = Upsert(bookings,
                 [b \in DOMAIN on |-> [date |-> on[b], slot |-> q.slot,
                                       type |-> q.checked, isOption |-> TRUE,
                                       group |-> q.group]])
            /\ issued' = issued \cup DOMAIN on
    BY <1>2 DEF CommitOptions
  <2> DEFINE rows == [b \in DOMAIN on |-> [date |-> on[b], slot |-> q.slot,
                                       type |-> q.checked, isOption |-> TRUE,
                                       group |-> q.group]]
  <2>2. /\ DOMAIN on \subseteq Bookings
        /\ \A b \in DOMAIN on : on[b] \in q.dates
    BY <2>1, PlacementsType
  <2>3. q \in RequestState /\ q.dates \subseteq Dates
    BY RequestFields
  <2>4. \A d \in q.dates : q.slot \in Slots
    BY <1>2 DEF CommitOptions, SlotAvailable, BookableSlots
  <2>5. \A b \in DOMAIN rows : rows[b] \in BookingRow
    BY <2>2, <2>3, <2>4 DEF BookingRow, RequestState
  <2>6. bookings' = Upsert(Without(bookings, {}), rows)
    BY <2>1 DEF Without, Upsert
  <2>7. DOMAIN rows = DOMAIN on
    OBVIOUS
  <2> HIDE DEF q, rows
  <2> QED BY <2>1, <2>2, <2>5, <2>6, <2>7, BookingsUpsertType
<1>3. ASSUME NEW r \in Requests, CommitEdit(r)
      PROVE  BookingsType'
  <2> DEFINE q == request[r]
  <2>1. PICK g \in Groups :
             bookings' = [bookings EXCEPT ![q.booking].slot = EditedSlot(q),
                 ![q.booking].type = EditedType(q, q.booking),
                 ![q.booking].group = IF q.option THEN g ELSE @]
    BY <1>3 DEF CommitEdit, Clients
  <2> DEFINE slot  == EditedSlot(q)
             type  == EditedType(q, q.booking)
             group == IF q.option THEN g ELSE bookings[q.booking].group
             row   == [bookings[q.booking] EXCEPT !.slot = slot, !.type = type,
                                                  !.group = group]
  <2>2. q.booking \in Live
    BY <1>3 DEF CommitEdit, EditAllowed
  <2>3. slot \in Slots
    BY <1>3, <2>2, RequestFields
       DEF CommitEdit, EditedSlot, RequestState, BookingsType, BookingRow
  <2>8. type \in EventTypes
    BY <2>2, EditedTypeType
  <2>4. bookings[q.booking] \in BookingRow /\ group \in Groups \cup {NoGroup}
    BY <2>2 DEF BookingsType, BookingRow
  <2>5. bookings' = [bookings EXCEPT ![q.booking] = row]
    BY <2>1, <2>2 DEF Live, BookingsType, BookingRow
  <2>6. row \in BookingRow
    <3> HIDE DEF slot, type, group
    <3> QED BY <2>3, <2>4, <2>8 DEF BookingRow
  <2>7. issued' = issued
    BY <1>3 DEF CommitEdit
  <2> HIDE DEF q, row
  <2> QED BY <2>5, <2>6, <2>7 DEF BookingsType, Live
<1>4. ASSUME NEW r \in Requests, GroupEditCommit(r)
      PROVE  BookingsType'
  <2> DEFINE q      == request[r]
             edited == {q.booking} \cup (q.related \ q.doomed)
             fresh  == q.dates \ DatesOf(q.related)
  <2>1. PICK on \in Placements(fresh), g \in Groups :
            /\ bookings' = Upsert(Without(bookings, q.doomed),
                    [b \in (edited \ q.doomed) \cup DOMAIN on |->
                        IF b \in DOMAIN on
                        THEN [date |-> on[b], slot |-> q.slot,
                              type |-> q.checked, isOption |-> TRUE,
                              group |-> g]
                        ELSE [bookings[b] EXCEPT !.slot = q.slot,
                                                 !.type = EditedType(q, b),
                                                 !.group = q.group]])
            /\ issued' = issued \cup DOMAIN on
    BY <1>4 DEF GroupEditCommit, Clients
  <2> DEFINE rows == [b \in (edited \ q.doomed) \cup DOMAIN on |->
                        IF b \in DOMAIN on
                        THEN [date |-> on[b], slot |-> q.slot,
                              type |-> q.checked, isOption |-> TRUE,
                              group |-> g]
                        ELSE [bookings[b] EXCEPT !.slot = q.slot,
                                                 !.type = EditedType(q, b),
                                                 !.group = q.group]]
  <2>2. /\ DOMAIN on \subseteq Bookings
        /\ \A b \in DOMAIN on : on[b] \in fresh
    BY <2>1, PlacementsType
  <2>3. q \in RequestState /\ q.dates \subseteq Dates /\ q.slot \in Slots
    BY <1>4, RequestFields DEF GroupEditCommit, RequestType, WellFormed
  <2>4. q.booking \in Bookings => q.booking \in Live
    BY <1>4 DEF GroupEditCommit, LockedRowsRemain, BookingLockedBy
  <2>5. edited \subseteq Live
    BY <1>4, <2>4 DEF GroupEditCommit, EditKnowsDate, BookingsType
  <2>6. \A b \in DOMAIN on : [date |-> on[b], slot |-> q.slot, type |-> q.checked,
                              isOption |-> TRUE, group |-> g] \in BookingRow
    <3>1. q.checked \in EventTypes
      BY <2>3 DEF RequestState
    <3> HIDE DEF q
    <3> QED BY <2>2, <2>3, <3>1 DEF BookingRow
  <2>7. \A b \in edited : [bookings[b] EXCEPT !.slot = q.slot,
                                              !.type = EditedType(q, b),
                                              !.group = q.group] \in BookingRow
    <3>1. \A b \in edited : bookings[b] \in BookingRow
      BY <2>5 DEF BookingsType
    <3>2. q.group \in Groups \cup {NoGroup}
      BY <2>3 DEF RequestState
    <3>3. \A b \in edited : EditedType(q, b) \in EventTypes
      BY <2>5, EditedTypeType
    <3> HIDE DEF q, edited
    <3> QED BY <2>3, <3>1, <3>2, <3>3 DEF BookingRow
  <2>8. \A b \in DOMAIN rows : rows[b] \in BookingRow
    <3> HIDE DEF q, edited
    <3> QED BY <2>6, <2>7
  <2>9. DOMAIN rows \subseteq issued \cup DOMAIN on
    <3> HIDE DEF edited
    <3> QED BY <2>5 DEF BookingsType
  <2>10. bookings' = Upsert(Without(bookings, q.doomed), rows)
    BY <2>1
  <2> HIDE DEF q, rows
  <2> QED BY <2>1, <2>2, <2>8, <2>9, <2>10, BookingsUpsertType
<1>5. ASSUME NEW r \in Requests, CommitConvert(r)
      PROVE  BookingsType'
  <2> DEFINE q    == request[r]
             slot == EditedSlot(q)
             type == EditedType(q, q.booking)
             row  == [bookings[q.booking] EXCEPT !.isOption = FALSE, !.slot = slot,
                                                 !.type = type]
  <2>1. bookings' = Without([bookings EXCEPT
                                ![q.booking].isOption = FALSE,
                                ![q.booking].slot = EditedSlot(q),
                                ![q.booking].type = EditedType(q, q.booking)],
                            q.doomed)
    BY <1>5 DEF CommitConvert
  <2>2. q.booking \in Live => slot \in Slots
    BY RequestFields DEF EditedSlot, RequestState, BookingsType, BookingRow
  <2>6. q.booking \in Live => type \in EventTypes
    BY EditedTypeType
  <2>3. q.booking \in Live => row \in BookingRow
    <3> HIDE DEF slot, type
    <3> QED BY <2>2, <2>6 DEF BookingRow, BookingsType
  <2>4. bookings' = Without([bookings EXCEPT ![q.booking] = row], q.doomed)
    BY <2>1 DEF Live, BookingsType, BookingRow
  <2>5. issued' = issued
    BY <1>5 DEF CommitConvert
  <2> HIDE DEF q, row
  <2> QED BY <2>3, <2>4, <2>5 DEF BookingsType, Live, Without
<1>6. ASSUME NEW b \in Bookings, FinalizeBooking(b)
      PROVE  BookingsType'
  BY <1>6 DEF FinalizeBooking, BookingsType, Live, BookingRow
<1>7. ASSUME NEW D \in SUBSET Dates, ReleaseOptions(D)
      PROVE  BookingsType'
  BY <1>7 DEF ReleaseOptions, BookingsType, Live, Without
<1>8. ASSUME NEW d \in Dates, NEW s \in Slots, NEW t \in EventTypes,
             NEW g \in Groups \cup {NoGroup}, NEW isOption \in BOOLEAN,
             InsertOn(d, s, t, isOption, g)
      PROVE  BookingsType'
  <2> DEFINE row == [date |-> d, slot |-> s, type |-> t, isOption |-> isOption,
                     group |-> g]
  <2>1. PICK b \in FreshIds : /\ bookings' = Upsert(bookings, [x \in {b} |-> row])
                              /\ issued' = issued \cup {b}
    BY <1>8 DEF InsertOn
  <2> DEFINE rows == [x \in {b} |-> row]
  <2>2. row \in BookingRow
    BY CalendarAssumption DEF BookingRow
  <2>3. DOMAIN rows = {b} /\ \A x \in DOMAIN rows : rows[x] \in BookingRow
    BY <2>2
  <2>4. bookings' = Upsert(Without(bookings, {}), rows)
    BY <2>1 DEF Without, Upsert
  <2> HIDE DEF rows
  <2> QED BY <2>1, <2>3, <2>4, BookingsUpsertType DEF FreshIds
<1>9. CASE PurgeBookings
  BY <1>9 DEF PurgeBookings, BookingsType, Live, Without
<1> QED
  BY <1>0, <1>1, <1>2, <1>3, <1>4, <1>5, <1>6, <1>7, <1>8, <1>9, BookingWriters
     DEF BookingWrite, BookEventFinal, CreateOption

------------------------------------------------------------------------------
(* What one step does to the handlers *)

\* A request that arrives holds no lock and has deleted nothing; an edit or a
\* conversion has found its booking and the booking's date.
LEMMA Arrival ==
    ASSUME TypeOK, NEW r \in Requests, Arrive(r)
    PROVE  LET n == request'[r] IN
           /\ \A s \in Requests \ {r} : request'[s] = request[s]
           /\ n.pc \in {"override", "confirm", "options", "edit", "convert",
                        "release", "sync", "deadline"}
           /\ n.locked = {} /\ n.doomed = {}
           /\ n.pc \in {"edit", "convert"} =>
                    /\ n.booking \in Live
                    /\ n.date = bookings[n.booking].date
                    /\ n.type # KeptType => n.checked = n.type
           /\ UNCHANGED <<bookings, issued>>
<1> USE DEF TypeOK
<1>0. request \in [Requests -> RequestState]
  BY DEF RequestType
<1>1. CASE ReadForConfirmed(r)
  BY <1>0, <1>1 DEF ReadForConfirmed, Wait, Idle
<1>2. CASE ReadForOptions(r)
  BY <1>0, <1>2 DEF ReadForOptions, Wait, Idle, SeenBefore
<1>3. CASE ReadForEdit(r)
  BY <1>0, <1>3, SMTT(60) DEF ReadForEdit, Wait, Idle, CheckedType
<1>4. CASE ReadForConvert(r)
  BY <1>0, <1>4, SMTT(60) DEF ReadForConvert, Wait, Idle, CheckedType
<1>5. CASE SyncRead(r)
  BY <1>0, <1>5 DEF SyncRead, Wait, Idle
<1>6. CASE ReleaseDateRead(r)
  BY <1>0, <1>6 DEF ReleaseDateRead, Wait, Idle
<1> QED BY <1>1, <1>2, <1>3, <1>4, <1>5, <1>6 DEF Arrive

\* A handler at work answers, or goes on in one of five ways.
LEMMA Progress ==
    ASSUME TypeOK, NEW r \in Requests, Advance(r) \/ Reject(r)
    PROVE  LET q == request[r]
               n == request'[r]
           IN
           /\ \A s \in Requests \ {r} : request'[s] = request[s]
           /\ q.pc # "idle"
           /\ \/ n = Idle
              \/ /\ DeleteForOverride(r)
                 /\ n.pc = "confirm" /\ n.locked = q.locked
                 /\ n.doomed = BookingsOn(q.date)
              \/ /\ LockForOptions(r)
                 /\ n.pc \in {"options", "optionsCommit"} /\ n.dates = q.dates
                 /\ n.locked = q.locked \cup {q.date}
                 /\ n.pc = "optionsCommit" => n.locked = n.dates
              \/ /\ GroupEditLock(r)
                 /\ n.pc = "groupCommit" /\ n.locked = {q.date}
                 /\ n.date = q.date /\ n.booking = q.booking /\ n.slot = q.slot
                 /\ n.type = q.type /\ n.checked = q.checked
              \/ /\ LockForConvert(r)
                 /\ n.pc = "convertCommit" /\ n.locked = {q.date}
                 /\ n.date = q.date /\ n.booking = q.booking
                 /\ n.slot = q.slot /\ n.group = q.group
                 /\ n.type = q.type /\ n.checked = q.checked
                 /\ n.doomed \subseteq GroupOptions(q.group)
                 /\ \A b \in n.doomed : RowFree(b)
              \/ /\ SyncWrite(r)
                 /\ n.pc = "deadline" /\ n.locked = q.locked
<1> USE DEF TypeOK
<1> DEFINE q == request[r]
           n == request'[r]
<1>0. request \in [Requests -> RequestState] /\ q \in RequestState
  BY DEF RequestType
<1>1. CASE \/ CommitConfirmed(r) \/ CommitOptions(r) \/ CommitEdit(r)
           \/ GroupEditCommit(r) \/ CommitConvert(r) \/ SetDeadline(r)
           \/ ReleaseDateWrite(r) \/ Reject(r)
  <2>1. Answer(r) /\ q.pc # "idle"
    BY <1>1 DEF CommitConfirmed, CommitOptions, CommitEdit, GroupEditCommit,
          CommitConvert, SetDeadline, ReleaseDateWrite, Reject
  <2> QED BY <1>0, <2>1, SMTT(60) DEF Answer, Wait
<1>2. CASE DeleteForOverride(r)
  BY <1>0, <1>2 DEF DeleteForOverride, Wait, RequestState
<1>3. CASE LockForOptions(r)
  <2> DEFINE held == q.locked \cup {q.date}
  <2>1. q.pc = "options"
    BY <1>3 DEF LockForOptions
  <2>2. CASE held = q.dates /\ Wait(r, [q EXCEPT !.pc = "optionsCommit", !.locked = held])
    <3>1. n = [q EXCEPT !.pc = "optionsCommit", !.locked = held]
      BY <1>0, <2>2 DEF Wait
    <3>2. n.pc = "optionsCommit" /\ n.dates = q.dates /\ n.locked = held
      BY <1>0, <3>1 DEF RequestState
    <3>3. \A s \in Requests \ {r} : request'[s] = request[s]
      BY <1>0, <2>2 DEF Wait
    <3> QED BY <1>3, <2>1, <2>2, <3>2, <3>3
  <2>3. ASSUME NEW d \in q.dates \ held,
               Wait(r, SeenBefore([q EXCEPT !.locked = held], d))
        PROVE  /\ \A s \in Requests \ {r} : request'[s] = request[s]
               /\ n.pc = "options" /\ n.dates = q.dates /\ n.locked = held
    <3>1. n = SeenBefore([q EXCEPT !.locked = held], d)
      BY <1>0, <2>3 DEF Wait
    <3>2. n.pc = "options" /\ n.dates = q.dates /\ n.locked = held
      BY <1>0, <2>1, <3>1 DEF RequestState, SeenBefore
    <3>3. \A s \in Requests \ {r} : request'[s] = request[s]
      BY <1>0, <2>3 DEF Wait
    <3> QED BY <3>2, <3>3
  <2>4. \/ held = q.dates /\ Wait(r, [q EXCEPT !.pc = "optionsCommit", !.locked = held])
        \/ \E d \in q.dates \ held : Wait(r, SeenBefore([q EXCEPT !.locked = held], d))
    BY <1>3 DEF LockForOptions
  <2> QED BY <1>3, <2>1, <2>2, <2>3, <2>4
<1>4. CASE GroupEditLock(r)
  <2>1. PICK related, doomed, empties, options, events, g :
            Wait(r, [q EXCEPT !.pc = "groupCommit", !.locked = {q.date},
                    !.group = g, !.related = related, !.doomed = doomed,
                    !.empties = empties, !.seenOption = options,
                    !.seenConfirmed = events])
    BY <1>4, ZenonT(60) DEF GroupEditLock
  <2>2. n = [q EXCEPT !.pc = "groupCommit", !.locked = {q.date},
                    !.group = g, !.related = related, !.doomed = doomed,
                    !.empties = empties, !.seenOption = options,
                    !.seenConfirmed = events]
    BY <1>0, <2>1 DEF Wait
  <2>3. n.pc = "groupCommit" /\ n.locked = {q.date} /\ n.date = q.date
        /\ n.booking = q.booking /\ n.slot = q.slot
        /\ n.type = q.type /\ n.checked = q.checked
    BY <1>0, <2>2 DEF RequestState
  <2>4. \A s \in Requests \ {r} : request'[s] = request[s]
    BY <1>0, <2>1 DEF Wait
  <2>5. q.pc = "edit"
    BY <1>4 DEF GroupEditLock
  <2> QED BY <1>4, <2>3, <2>4, <2>5
<1>5. CASE LockForConvert(r)
  <2> DEFINE doomed  == {b \in GroupOptions(q.group) \ {q.booking} :
                            bookings[b].date \in q.dates}
  <2>1. PICK others, empties :
            Wait(r, [q EXCEPT !.pc = "convertCommit", !.locked = {q.date},
                        !.option = others, !.doomed = doomed, !.empties = empties])
    BY <1>5 DEF LockForConvert
  <2>2. n = [q EXCEPT !.pc = "convertCommit", !.locked = {q.date},
                        !.option = others, !.doomed = doomed, !.empties = empties]
    BY <1>0, <2>1 DEF Wait
  <2>3. /\ n.pc = "convertCommit" /\ n.locked = {q.date} /\ n.date = q.date
        /\ n.booking = q.booking /\ n.slot = q.slot /\ n.group = q.group
        /\ n.type = q.type /\ n.checked = q.checked /\ n.doomed = doomed
    <3> HIDE DEF doomed
    <3> QED BY <1>0, <2>2 DEF RequestState
  <2>4. \A s \in Requests \ {r} : request'[s] = request[s]
    BY <1>0, <2>1 DEF Wait
  <2>5. q.pc = "convert" /\ \A b \in doomed : RowFree(b)
    BY <1>5 DEF LockForConvert
  <2>6. doomed \subseteq GroupOptions(q.group)
    OBVIOUS
  <2> HIDE DEF doomed
  <2> QED BY <1>5, <2>3, <2>4, <2>5, <2>6
<1>6. CASE SyncWrite(r)
  BY <1>0, <1>6 DEF SyncWrite, Wait, Answer, RequestState
<1> QED BY <1>1, <1>2, <1>3, <1>4, <1>5, <1>6 DEF Advance

\* The steps that leave a handler at work change no booking.
LEMMA StagesWriteNothing ==
    ASSUME NEW r \in Requests,
           \/ DeleteForOverride(r) \/ LockForOptions(r) \/ GroupEditLock(r)
           \/ LockForConvert(r) \/ SyncWrite(r)
    PROVE  UNCHANGED <<bookings, issued>>
  BY DEF DeleteForOverride, LockForOptions, GroupEditLock, LockForConvert, SyncWrite

------------------------------------------------------------------------------
(* Locks on date rows *)

\* Each handler locks and releases date rows as its stage says.
LEMMA LocksHeldStep ==
    ASSUME IndInv, Next
    PROVE  LocksHeld'
<1> USE DEF IndInv
<1>1. CASE UNCHANGED request
  BY <1>1 DEF LocksHeld
<1>2. ASSUME NEW r \in Requests, Arrive(r)
      PROVE  LocksHeld'
  BY <1>2, Arrival DEF LocksHeld
<1>3. ASSUME NEW r \in Requests, Advance(r) \/ Reject(r)
      PROVE  LocksHeld'
  <2> DEFINE q == request[r]
             n == request'[r]
  <2>0. \A s \in Requests \ {r} : request'[s] = request[s]
    BY <1>3, Progress
  <2>1. /\ n.pc \notin {"options", "optionsCommit", "groupCommit", "convertCommit"}
                => n.locked = {}
        /\ n.pc \in {"groupCommit", "convertCommit"} => n.locked = {n.date}
        /\ n.pc = "optionsCommit" => n.locked = n.dates
    <3>1. CASE n = Idle
      BY <3>1 DEF Idle
    <3>2. CASE (DeleteForOverride(r) /\ n.pc = "confirm" /\ n.locked = q.locked)
               \/ (SyncWrite(r) /\ n.pc = "deadline" /\ n.locked = q.locked)
      <4>1. q.pc \in {"override", "sync"}
        BY <3>2 DEF DeleteForOverride, SyncWrite
      <4> QED BY <3>2, <4>1 DEF LocksHeld
    <3>3. CASE n.pc \in {"options", "optionsCommit"}
               /\ (n.pc = "optionsCommit" => n.locked = n.dates)
      BY <3>3
    <3>4. CASE n.pc \in {"groupCommit", "convertCommit"} /\ n.locked = {n.date}
      BY <3>4
    <3> QED BY <1>3, <3>1, <3>2, <3>3, <3>4, Progress
  <2> QED BY <2>0, <2>1 DEF LocksHeld
<1> QED BY <1>1, <1>2, <1>3, RequestWriters

\* SELECT ... FOR UPDATE never hands a locked date row to a second handler.
LEMMA DateLocksExclusiveStep ==
    ASSUME IndInv, Next
    PROVE  DateLocksExclusive'
<1> USE DEF IndInv
<1>1. CASE UNCHANGED request
  BY <1>1 DEF DateLocksExclusive
<1>2. ASSUME NEW r \in Requests, Arrive(r)
      PROVE  DateLocksExclusive'
  BY <1>2, Arrival DEF DateLocksExclusive
<1>3. ASSUME NEW r \in Requests, Advance(r) \/ Reject(r)
      PROVE  DateLocksExclusive'
  <2> DEFINE q == request[r]
             n == request'[r]
  <2>0. LockForOptions(r) \/ GroupEditLock(r) \/ LockForConvert(r)
            => LockableBy(r, q.date)
    BY DEF LockForOptions, GroupEditLock, LockForConvert
  <2>1. \/ n.locked \subseteq q.locked
        \/ n.locked \subseteq q.locked \cup {q.date} /\ LockableBy(r, q.date)
    BY <1>3, <2>0, Progress DEF Idle
  <2>2. \A s \in Requests \ {r} : request'[s] = request[s]
    BY <1>3, Progress
  <2> QED BY <2>1, <2>2, SMTT(60) DEF DateLocksExclusive, LockableBy, DateLockedBy
<1> QED BY <1>1, <1>2, <1>3, RequestWriters

------------------------------------------------------------------------------
(* What each transaction does to the bookings *)

\* What a delete followed by an insert-or-update does to the Booking table.
LEMMA UpsertEffect ==
    ASSUME NEW gone, NEW rows, bookings' = Upsert(Without(bookings, gone), rows)
    PROVE  /\ Live' = (Live \ gone) \cup DOMAIN rows
           /\ \A b \in DOMAIN rows : bookings'[b] = rows[b]
           /\ \A b \in Live' \ DOMAIN rows : bookings'[b] = bookings[b]
  BY DEF Upsert, Without, Live

\* What the insert of one booking does.
LEMMA InsertEffect ==
    ASSUME NEW d, NEW slot, NEW type, NEW isOption, NEW group,
           InsertOn(d, slot, type, isOption, group)
    PROVE  \E b \in FreshIds :
             /\ Live' = Live \cup {b}
             /\ issued' = issued \cup {b}
             /\ bookings'[b].date = d /\ bookings'[b].slot = slot
             /\ bookings'[b].type = type
             /\ bookings'[b].isOption = isOption
             /\ \A c \in Live' \ {b} : bookings'[c] = bookings[c]
  BY DEF InsertOn, Upsert, Live

\* What a confirmed createBooking does to the Booking table.
LEMMA ConfirmedEffect ==
    ASSUME NEW r \in Requests, CommitConfirmed(r)
    PROVE  \E b \in FreshIds :
             /\ Live' = (Live \ request[r].doomed) \cup {b}
             /\ issued' = issued \cup {b}
             /\ bookings'[b].date = request[r].date
             /\ bookings'[b].slot = request[r].slot
             /\ bookings'[b].type = request[r].checked
             /\ bookings'[b].isOption = FALSE
             /\ \A c \in Live' \ {b} : bookings'[c] = bookings[c]
<1> DEFINE row == [date |-> request[r].date, slot |-> request[r].slot,
                   type |-> request[r].checked, isOption |-> FALSE,
                   group |-> NoGroup]
<1>1. PICK b \in FreshIds :
          /\ bookings' = Upsert(Without(bookings, request[r].doomed), [x \in {b} |-> row])
          /\ issued' = issued \cup {b}
  BY DEF CommitConfirmed
<1> HIDE DEF row
<1>2. /\ Live' = (Live \ request[r].doomed) \cup {b}
      /\ bookings'[b] = row
      /\ \A c \in Live' \ {b} : bookings'[c] = bookings[c]
  BY <1>1, UpsertEffect
<1>3. /\ row.date = request[r].date /\ row.slot = request[r].slot
      /\ row.type = request[r].checked /\ row.isOption = FALSE
  BY DEF row
<1> QED BY <1>1, <1>2, <1>3

\* What a createBooking of options does to the Booking table.
LEMMA OptionsEffect ==
    ASSUME NEW r \in Requests, CommitOptions(r)
    PROVE  \E on \in Placements(request[r].dates) :
             /\ Live' = Live \cup DOMAIN on
             /\ issued' = issued \cup DOMAIN on
             /\ \A b \in DOMAIN on : /\ bookings'[b].date = on[b]
                                     /\ bookings'[b].slot = request[r].slot
                                     /\ bookings'[b].type = request[r].checked
                                     /\ bookings'[b].isOption = TRUE
             /\ \A c \in Live' \ DOMAIN on : bookings'[c] = bookings[c]
<1> DEFINE row(d) == [date |-> d, slot |-> request[r].slot,
                      type |-> request[r].checked, isOption |-> TRUE,
                      group |-> request[r].group]
<1>1. PICK on \in Placements(request[r].dates) :
          /\ bookings' = Upsert(bookings, [b \in DOMAIN on |-> row(on[b])])
          /\ issued' = issued \cup DOMAIN on
  BY DEF CommitOptions
<1> HIDE DEF row
<1>2. /\ Live' = Live \cup DOMAIN on
      /\ \A b \in DOMAIN on : bookings'[b] = row(on[b])
      /\ \A c \in Live' \ DOMAIN on : bookings'[c] = bookings[c]
  BY <1>1 DEF Upsert, Live
<1>3. \A d : /\ row(d).date = d /\ row(d).slot = request[r].slot
              /\ row(d).type = request[r].checked /\ row(d).isOption = TRUE
  BY DEF row
<1> QED BY <1>1, <1>2, <1>3

\* What an edit of one booking does to the Booking table.
LEMMA EditEffect ==
    ASSUME IndInv, NEW r \in Requests, CommitEdit(r)
    PROVE  LET b == request[r].booking IN
           /\ b \in Live
           /\ Live' = Live
           /\ issued' = issued
           /\ bookings'[b].date = bookings[b].date
           /\ bookings'[b].isOption = bookings[b].isOption
           /\ bookings'[b].slot = EditedSlot(request[r])
           /\ bookings'[b].type = EditedType(request[r], b)
           /\ \A c \in Live \ {b} : bookings'[c] = bookings[c]
<1> DEFINE b == request[r].booking
           slot == EditedSlot(request[r])
           type == EditedType(request[r], b)
<1>1. PICK g : bookings' = [bookings EXCEPT ![b].slot = slot, ![b].type = type,
                              ![b].group = IF request[r].option THEN g ELSE @]
  BY DEF CommitEdit
<1>2. b \in Live /\ issued' = issued
  BY DEF CommitEdit, EditAllowed
<1>3. bookings[b] \in BookingRow
  BY <1>2 DEF IndInv, TypeOK, BookingsType
<1> HIDE DEF b, slot, type
<1> QED BY <1>1, <1>2, <1>3 DEF Live, BookingRow, b, slot, type

\* What a conversion does to the Booking table.
LEMMA ConvertEffect ==
    ASSUME IndInv, NEW r \in Requests, CommitConvert(r)
    PROVE  LET b == request[r].booking IN
           /\ Live' = Live \ request[r].doomed
           /\ issued' = issued
           /\ b \in Live' => /\ bookings'[b].date = bookings[b].date
                             /\ bookings'[b].isOption = FALSE
                             /\ bookings'[b].slot = EditedSlot(request[r])
                             /\ bookings'[b].type = EditedType(request[r], b)
           /\ \A c \in Live' \ {b} : bookings'[c] = bookings[c]
<1> DEFINE b == request[r].booking
           slot == EditedSlot(request[r])
           type == EditedType(request[r], b)
           doomed == request[r].doomed
<1>1. bookings' = Without([bookings EXCEPT ![b].isOption = FALSE, ![b].slot = slot,
                                           ![b].type = type], doomed)
  BY DEF CommitConvert
<1>2. issued' = issued
  BY DEF CommitConvert
<1>3. b \in Live => bookings[b] \in BookingRow
  BY DEF IndInv, TypeOK, BookingsType
<1> HIDE DEF b, slot, type, doomed
<1> QED BY <1>1, <1>2, <1>3 DEF Live, BookingRow, Without, b, slot, type, doomed

\* What closing an event does to the Booking table.
LEMMA FinalizeEffect ==
    ASSUME IndInv, NEW b \in Bookings, FinalizeBooking(b)
    PROVE  /\ b \in Live
           /\ Live' = Live
           /\ issued' = issued
           /\ bookings'[b].date = bookings[b].date
           /\ bookings'[b].slot = bookings[b].slot
           /\ bookings'[b].type = bookings[b].type
           /\ bookings'[b].isOption = FALSE
           /\ \A c \in Live \ {b} : bookings'[c] = bookings[c]
<1>1. /\ bookings' = [bookings EXCEPT ![b].isOption = FALSE]
      /\ b \in Live
      /\ issued' = issued
  BY DEF FinalizeBooking
<1>2. bookings[b] \in BookingRow
  BY <1>1, SMTT(60) DEF IndInv, TypeOK, BookingsType
<1> QED BY <1>1, <1>2 DEF Live, BookingRow

\* What a group edit does to the Booking table.
LEMMA GroupEffect ==
    ASSUME IndInv, NEW r \in Requests, GroupEditCommit(r)
    PROVE  LET q      == request[r]
               edited == ({q.booking} \cup q.related) \ q.doomed
           IN
           \E on \in Placements(q.dates \ DatesOf(q.related)) :
             /\ q.booking \in Live /\ edited \subseteq Live
             /\ Live' = (Live \ q.doomed) \cup DOMAIN on
             /\ issued' = issued \cup DOMAIN on
             /\ \A b \in DOMAIN on : /\ bookings'[b].date = on[b]
                                     /\ bookings'[b].slot = q.slot
                                     /\ bookings'[b].type = q.checked
                                     /\ bookings'[b].isOption = TRUE
             /\ \A b \in edited : /\ bookings'[b].date = bookings[b].date
                                  /\ bookings'[b].slot = q.slot
                                  /\ bookings'[b].type = EditedType(q, b)
                                  /\ bookings'[b].isOption = bookings[b].isOption
             /\ \A b \in Live' \ (edited \cup DOMAIN on) : bookings'[b] = bookings[b]
<1> USE DEF IndInv, TypeOK
<1> DEFINE q      == request[r]
           edited == ({q.booking} \cup q.related) \ q.doomed
           fresh  == q.dates \ DatesOf(q.related)
<1>1. PICK on \in Placements(fresh), g \in Groups :
            /\ bookings' = Upsert(Without(bookings, q.doomed),
                    [b \in (({q.booking} \cup (q.related \ q.doomed)) \ q.doomed)
                                \cup DOMAIN on |->
                        IF b \in DOMAIN on
                        THEN [date |-> on[b], slot |-> q.slot,
                              type |-> q.checked, isOption |-> TRUE,
                              group |-> g]
                        ELSE [bookings[b] EXCEPT !.slot = q.slot,
                                                 !.type = EditedType(q, b),
                                                 !.group = q.group]])
            /\ issued' = issued \cup DOMAIN on
  BY DEF GroupEditCommit, Clients
<1> DEFINE new(b) == [date |-> on[b], slot |-> q.slot, type |-> q.checked,
                      isOption |-> TRUE, group |-> g]
           old(b) == [bookings[b] EXCEPT !.slot = q.slot,
                                         !.type = EditedType(q, b),
                                         !.group = q.group]
           rows   == [b \in edited \cup DOMAIN on |->
                        IF b \in DOMAIN on THEN new(b) ELSE old(b)]
<1>2. bookings' = Upsert(Without(bookings, q.doomed), rows)
  <2>1. ({q.booking} \cup (q.related \ q.doomed)) \ q.doomed = edited
    OBVIOUS
  <2> HIDE DEF edited
  <2> QED BY <1>1, <2>1
<1>3. q.booking \in Live /\ edited \subseteq Live
  <2>1. q.pc = "groupCommit" /\ q.related \subseteq Live
    BY DEF GroupEditCommit
  <2>2. q.booking \in Bookings
    BY <2>1 DEF EditKnowsDate, BookingsType
  <2>3. q.booking \in Live
    BY <2>1, <2>2 DEF LockedRowsRemain, BookingLockedBy
  <2> QED BY <2>1, <2>3
<1>4. DOMAIN on \cap edited = {}
  BY <1>3, PlacementsType DEF BookingsType
<1>5. \A b \in edited : /\ old(b).date = bookings[b].date
                        /\ old(b).slot = q.slot
                        /\ old(b).type = EditedType(q, b)
                        /\ old(b).isOption = bookings[b].isOption
  <2>1. \A b \in edited : bookings[b] \in BookingRow
    BY <1>3 DEF BookingsType
  <2> HIDE DEF q, edited
  <2> QED BY <2>1 DEF BookingRow
<1>6. /\ \A b \in DOMAIN on : rows[b] = new(b)
      /\ \A b \in edited : rows[b] = old(b)
      /\ DOMAIN rows = edited \cup DOMAIN on
  <2> HIDE DEF edited, new, old
  <2> QED BY <1>4
<1>7. \A b \in DOMAIN on : /\ new(b).date = on[b] /\ new(b).slot = q.slot
                           /\ new(b).type = q.checked /\ new(b).isOption = TRUE
  OBVIOUS
<1>8. /\ Live' = (Live \ q.doomed) \cup (edited \cup DOMAIN on)
      /\ \A b \in edited \cup DOMAIN on : bookings'[b] = rows[b]
      /\ \A b \in Live' \ (edited \cup DOMAIN on) : bookings'[b] = bookings[b]
  <2> HIDE DEF rows, q, edited, new, old
  <2>1. DOMAIN rows = edited \cup DOMAIN on
    BY <1>6
  <2> QED BY <1>2, <2>1, UpsertEffect
<1>9. Live' = (Live \ q.doomed) \cup DOMAIN on
  BY <1>3, <1>8
<1>10. \A b \in DOMAIN on : /\ bookings'[b].date = on[b]
                            /\ bookings'[b].slot = q.slot
                            /\ bookings'[b].type = q.checked
                            /\ bookings'[b].isOption = TRUE
  <2> HIDE DEF rows, new, old, edited, q
  <2> QED BY <1>6, <1>7, <1>8
<1>11. \A b \in edited : /\ bookings'[b].date = bookings[b].date
                         /\ bookings'[b].slot = q.slot
                         /\ bookings'[b].type = EditedType(q, b)
                         /\ bookings'[b].isOption = bookings[b].isOption
  <2> HIDE DEF rows, new, old, edited, q
  <2> QED BY <1>5, <1>6, <1>8
<1> HIDE DEF rows, new, old
<1> QED BY <1>1, <1>3, <1>8, <1>9, <1>10, <1>11

\* The tables move the way the abstract register allows: a booking that stays
\* keeps its date and, once an event, stays one; ids are given out once.
LEMMA RowsContinue ==
    ASSUME IndInv, Next
    PROVE  /\ \A b \in Live \cap Live' :
                /\ bookings'[b].date = bookings[b].date
                /\ ~bookings[b].isOption => ~bookings'[b].isOption
           /\ (Live' \ Live) \cap issued = {}
           /\ issued' = issued \cup (Live' \ Live)
<1> USE DEF IndInv, TypeOK
<1> DEFINE Continued ==
           /\ \A b \in Live \cap Live' :
                /\ bookings'[b].date = bookings[b].date
                /\ ~bookings[b].isOption => ~bookings'[b].isOption
           /\ (Live' \ Live) \cap issued = {}
           /\ issued' = issued \cup (Live' \ Live)
<1>0. CASE UNCHANGED <<bookings, issued>>
  BY <1>0 DEF Live
<1>1. ASSUME NEW r \in Requests, CommitConfirmed(r)
      PROVE  Continued
  BY <1>1, ConfirmedEffect DEF BookingsType, FreshIds
<1>2. ASSUME NEW r \in Requests, CommitOptions(r)
      PROVE  Continued
  <2>1. PICK on \in Placements(request[r].dates) :
             /\ Live' = Live \cup DOMAIN on
             /\ issued' = issued \cup DOMAIN on
             /\ \A c \in Live' \ DOMAIN on : bookings'[c] = bookings[c]
    BY <1>2, OptionsEffect
  <2>2. DOMAIN on \cap issued = {}
    BY PlacementsType
  <2> QED BY <2>1, <2>2 DEF BookingsType
<1>3. ASSUME NEW r \in Requests, CommitEdit(r)
      PROVE  Continued
  BY <1>3, EditEffect DEF BookingsType
<1>4. ASSUME NEW r \in Requests, GroupEditCommit(r)
      PROVE  Continued
  <2> DEFINE q      == request[r]
             edited == ({q.booking} \cup q.related) \ q.doomed
  <2>1. PICK on \in Placements(q.dates \ DatesOf(q.related)) :
             /\ Live' = (Live \ q.doomed) \cup DOMAIN on
             /\ issued' = issued \cup DOMAIN on
             /\ \A b \in edited : /\ bookings'[b].date = bookings[b].date
                                  /\ bookings'[b].isOption = bookings[b].isOption
             /\ \A b \in Live' \ (edited \cup DOMAIN on) : bookings'[b] = bookings[b]
    BY <1>4, GroupEffect, ZenonT(60)
  <2>2. DOMAIN on \cap issued = {}
    BY PlacementsType
  <2>3. Live' \ Live = DOMAIN on
    BY <2>1, <2>2 DEF BookingsType
  <2> HIDE DEF edited, q
  <2> QED BY <2>1, <2>2, <2>3 DEF BookingsType
<1>5. ASSUME NEW r \in Requests, CommitConvert(r)
      PROVE  Continued
  BY <1>5, ConvertEffect DEF BookingsType
<1>6. ASSUME NEW b \in Bookings, FinalizeBooking(b)
      PROVE  Continued
  BY <1>6, FinalizeEffect DEF BookingsType
<1>7. ASSUME NEW D \in SUBSET Dates, ReleaseOptions(D)
      PROVE  Continued
  BY <1>7 DEF ReleaseOptions, Live, Without
<1>8. ASSUME NEW d, NEW s, NEW t, NEW g, NEW isOption, InsertOn(d, s, t, isOption, g)
      PROVE  Continued
  <2>1. PICK b \in FreshIds :
             /\ Live' = Live \cup {b}
             /\ issued' = issued \cup {b}
             /\ \A c \in Live' \ {b} : bookings'[c] = bookings[c]
    BY <1>8, InsertEffect
  <2>2. b \notin issued /\ b \notin Live
    BY DEF FreshIds, BookingsType
  <2> QED BY <2>1, <2>2
<1>9. CASE PurgeBookings
  BY <1>9 DEF PurgeBookings, Live, Without
<1> QED
  BY <1>0, <1>1, <1>2, <1>3, <1>4, <1>5, <1>6, <1>7, <1>8, <1>9, BookingWriters
     DEF BookingWrite, BookEventFinal, CreateOption

\* Nobody else writes a booking row that an open transaction has locked.
LEMMA LockedRowsUntouched ==
    ASSUME IndInv, Next, NEW s \in Requests, NEW b \in Bookings,
           BookingLockedBy(s, b), request'[s] = request[s]
    PROVE  b \in Live' /\ bookings'[b] = bookings[b]
<1> USE DEF IndInv, TypeOK
<1>a. b \in Live /\ b \in issued
  BY DEF LockedRowsRemain, BookingsType
<1>b. request[s].pc # "idle"
  BY DEF BookingLockedBy
<1>c. ASSUME NEW r \in Requests, Answer(r)
      PROVE  s # r
  BY <1>b, <1>c DEF Answer, Wait, Idle, RequestType
<1>d. ASSUME NEW r \in Requests, r # s
      PROVE  ~BookingLockedBy(r, b)
  BY <1>d DEF RowLocksExclusive
<1>e. ~RowFree(b)
  BY DEF RowFree
<1>0. CASE UNCHANGED <<bookings, issued>>
  BY <1>0, <1>a DEF Live
<1>1. ASSUME NEW r \in Requests, CommitConfirmed(r)
      PROVE  b \in Live' /\ bookings'[b] = bookings[b]
  <2>1. r # s /\ request[r].pc = "confirm"
    BY <1>1, <1>c DEF CommitConfirmed
  <2>2. b \notin request[r].doomed
    BY <1>d, <2>1 DEF BookingLockedBy
  <2> QED BY <1>1, <1>a, <2>2, ConfirmedEffect DEF FreshIds
<1>2. ASSUME NEW r \in Requests, CommitOptions(r)
      PROVE  b \in Live' /\ bookings'[b] = bookings[b]
  <2>1. PICK on \in Placements(request[r].dates) :
             /\ Live' = Live \cup DOMAIN on
             /\ \A c \in Live' \ DOMAIN on : bookings'[c] = bookings[c]
    BY <1>2, OptionsEffect
  <2>2. DOMAIN on \cap issued = {}
    BY PlacementsType
  <2> QED BY <1>a, <2>1, <2>2
<1>3. ASSUME NEW r \in Requests, CommitEdit(r)
      PROVE  b \in Live' /\ bookings'[b] = bookings[b]
  <2>1. b # request[r].booking
    BY <1>3, <1>e DEF CommitEdit, EditAllowed
  <2> QED BY <1>3, <1>a, <2>1, EditEffect
<1>4. ASSUME NEW r \in Requests, GroupEditCommit(r)
      PROVE  b \in Live' /\ bookings'[b] = bookings[b]
  <2> DEFINE q      == request[r]
             edited == ({q.booking} \cup q.related) \ q.doomed
  <2>1. r # s /\ q.pc = "groupCommit"
    BY <1>4, <1>c DEF GroupEditCommit
  <2>2. b # q.booking
    BY <1>d, <2>1 DEF BookingLockedBy
  <2>3. b \notin q.related
    BY <1>4, <2>1 DEF GroupEditCommit
  <2>4. b \notin q.doomed
    BY <2>1, <2>3 DEF RequestType, WellFormed
  <2>5. PICK on \in Placements(q.dates \ DatesOf(q.related)) :
             /\ Live' = (Live \ q.doomed) \cup DOMAIN on
             /\ \A c \in Live' \ (edited \cup DOMAIN on) : bookings'[c] = bookings[c]
    BY <1>4, GroupEffect
  <2>6. DOMAIN on \cap issued = {}
    BY PlacementsType
  <2> QED BY <1>a, <2>2, <2>3, <2>4, <2>5, <2>6
<1>5. ASSUME NEW r \in Requests, CommitConvert(r)
      PROVE  b \in Live' /\ bookings'[b] = bookings[b]
  <2>1. r # s /\ request[r].pc = "convertCommit"
    BY <1>5, <1>c DEF CommitConvert
  <2>2. b # request[r].booking /\ b \notin request[r].doomed
    BY <1>d, <2>1 DEF BookingLockedBy
  <2> QED BY <1>5, <1>a, <2>2, ConvertEffect
<1>6. ASSUME NEW c \in Bookings, FinalizeBooking(c)
      PROVE  b \in Live' /\ bookings'[b] = bookings[b]
  <2>1. b # c
    BY <1>6, <1>e DEF FinalizeBooking
  <2> QED BY <1>6, <1>a, <2>1, FinalizeEffect
<1>7. ASSUME NEW D \in SUBSET Dates, ReleaseOptions(D)
      PROVE  b \in Live' /\ bookings'[b] = bookings[b]
  <2>1. b \notin UNION {BookingsOn(d) : d \in D}
    BY <1>7, <1>e DEF ReleaseOptions
  <2> QED BY <1>7, <1>a, <2>1 DEF ReleaseOptions, Live, Without
<1>8. ASSUME NEW d, NEW slot, NEW t, NEW g, NEW isOption, InsertOn(d, slot, t, isOption, g)
      PROVE  b \in Live' /\ bookings'[b] = bookings[b]
  BY <1>8, <1>a, InsertEffect DEF FreshIds
<1>9. CASE PurgeBookings
  <2>1. b \notin job.ids
    BY <1>9, <1>e DEF PurgeBookings
  <2> QED BY <1>9, <1>a, <2>1 DEF PurgeBookings, Live, Without
<1> QED
  BY <1>0, <1>1, <1>2, <1>3, <1>4, <1>5, <1>6, <1>7, <1>8, <1>9, BookingWriters
     DEF BookingWrite, BookEventFinal, CreateOption

\* A booking row that a step locks was free, is there, and is not written by it.
LEMMA NewRowLocks ==
    ASSUME IndInv, NEW r \in Requests, Arrive(r) \/ Advance(r) \/ Reject(r),
           NEW b \in Bookings, BookingLockedBy(r, b)'
    PROVE  /\ RowFree(b)
           /\ b \in Live
           /\ UNCHANGED <<bookings, issued>>
<1> USE DEF IndInv
<1> DEFINE q == request[r]
           n == request'[r]
<1>0. /\ n.pc \in {"confirm", "groupCommit", "convertCommit"}
      /\ \/ n.pc \in {"groupCommit", "convertCommit"} /\ b = n.booking
         \/ n.pc \in {"confirm", "convertCommit"} /\ b \in n.doomed
  BY DEF BookingLockedBy
<1>1. CASE Arrive(r)
  BY <1>0, <1>1, Arrival
<1>2. CASE Advance(r) \/ Reject(r)
  <2>1. CASE n = Idle
    BY <1>0, <2>1 DEF Idle
  <2>2. CASE DeleteForOverride(r) /\ n.pc = "confirm" /\ n.doomed = BookingsOn(q.date)
    <3>1. b \in BookingsOn(q.date)
      BY <1>0, <2>2
    <3> QED BY <2>2, <3>1, StagesWriteNothing DEF DeleteForOverride, BookingsOn
  <2>3. CASE n.pc \in {"options", "optionsCommit", "deadline"}
    BY <1>0, <2>3
  <2>4. CASE GroupEditLock(r) /\ n.pc = "groupCommit" /\ n.booking = q.booking
    BY <1>0, <2>4, StagesWriteNothing DEF GroupEditLock, EditAllowed
  <2>5. CASE /\ LockForConvert(r)
             /\ n.pc = "convertCommit" /\ n.booking = q.booking
             /\ n.doomed \subseteq GroupOptions(q.group)
             /\ \A c \in n.doomed : RowFree(c)
    <3>1. CASE b = q.booking
      BY <2>5, <3>1, StagesWriteNothing DEF LockForConvert, EditAllowed
    <3>2. CASE b \in n.doomed
      BY <2>5, <3>2, StagesWriteNothing DEF GroupOptions
    <3> QED BY <1>0, <2>5, <3>1, <3>2
  <2> QED BY <1>2, <2>1, <2>2, <2>3, <2>4, <2>5, Progress
<1> QED BY <1>1, <1>2

------------------------------------------------------------------------------
(* Row locks and what the handlers know *)

\* A step changes the state of one handler at most.
LEMMA RequestSteps ==
    ASSUME TypeOK, Next
    PROVE  \/ UNCHANGED request
           \/ \E r \in Requests : /\ Arrive(r) \/ Advance(r) \/ Reject(r)
                                  /\ \A s \in Requests \ {r} : request'[s] = request[s]
  BY RequestWriters, Arrival, Progress

\* Every step leaves the rows an open transaction has locked in place.
LEMMA LockedRowsRemainStep ==
    ASSUME IndInv, Next
    PROVE  LockedRowsRemain'
<1> USE DEF IndInv
<1> SUFFICES ASSUME NEW s \in Requests, NEW b \in Bookings, BookingLockedBy(s, b)'
             PROVE  b \in Live'
  BY DEF LockedRowsRemain
<1>1. CASE request'[s] = request[s]
  <2>1. BookingLockedBy(s, b)
    BY <1>1 DEF BookingLockedBy
  <2> QED BY <1>1, <2>1, LockedRowsUntouched
<1>2. CASE request'[s] # request[s]
  <2>1. Arrive(s) \/ Advance(s) \/ Reject(s)
    BY <1>2, RequestSteps
  <2> QED BY <2>1, NewRowLocks DEF Live
<1> QED BY <1>1, <1>2

\* No step locks a booking row that another transaction has locked.
LEMMA RowLocksExclusiveStep ==
    ASSUME IndInv, Next
    PROVE  RowLocksExclusive'
<1> USE DEF IndInv
<1>1. ASSUME NEW r \in Requests, NEW s \in Requests, NEW b \in Bookings,
             BookingLockedBy(r, b)', BookingLockedBy(s, b)',
             r # s, request'[r] # request[r]
      PROVE  FALSE
  <2>1. /\ Arrive(r) \/ Advance(r) \/ Reject(r)
        /\ request'[s] = request[s]
    BY <1>1, RequestSteps
  <2>2. BookingLockedBy(s, b)
    BY <1>1, <2>1 DEF BookingLockedBy
  <2>3. RowFree(b)
    BY <1>1, <2>1, NewRowLocks
  <2> QED BY <2>2, <2>3 DEF RowFree
<1>2. ASSUME NEW r \in Requests, NEW s \in Requests, NEW b \in Bookings,
             BookingLockedBy(r, b)', BookingLockedBy(s, b)',
             request'[r] = request[r], request'[s] = request[s]
      PROVE  r = s
  <2>1. BookingLockedBy(r, b) /\ BookingLockedBy(s, b)
    BY <1>2 DEF BookingLockedBy
  <2> QED BY <2>1 DEF RowLocksExclusive
<1> QED BY <1>1, <1>2 DEF RowLocksExclusive

\* The date an editing handler remembers stays the date of its booking.
LEMMA EditKnowsDateStep ==
    ASSUME IndInv, Next
    PROVE  EditKnowsDate'
<1> USE DEF IndInv, TypeOK
<1> DEFINE pcs == {"edit", "groupCommit", "convert", "convertCommit"}
<1> SUFFICES ASSUME NEW s \in Requests, request'[s].pc \in pcs
             PROVE  /\ request'[s].booking \in issued'
                    /\ request'[s].booking \in Live' =>
                           bookings'[request'[s].booking].date = request'[s].date
  BY DEF EditKnowsDate
<1> DEFINE b == request[s].booking
<1>1. CASE /\ request[s].pc \in pcs
           /\ request'[s].booking = b /\ request'[s].date = request[s].date
  <2>1. b \in issued /\ (b \in Live => bookings[b].date = request[s].date)
    BY <1>1 DEF EditKnowsDate
  <2>2. b \in issued'
    BY <2>1, RowsContinue
  <2>3. b \in Live' => b \in Live
    BY <2>1, RowsContinue
  <2> QED BY <1>1, <2>1, <2>2, <2>3, RowsContinue
<1>2. CASE Arrive(s)
  <2>1. /\ request'[s].booking \in Live
        /\ request'[s].date = bookings[request'[s].booking].date
        /\ UNCHANGED <<bookings, issued>>
    BY <1>2, Arrival
  <2> QED BY <2>1 DEF BookingsType, Live
<1>3. CASE Advance(s) \/ Reject(s)
  <2>1. /\ GroupEditLock(s) \/ LockForConvert(s)
        /\ request'[s].booking = b /\ request'[s].date = request[s].date
    BY <1>3, Progress, SMTT(60) DEF Idle
  <2>2. request[s].pc \in pcs
    BY <2>1 DEF GroupEditLock, LockForConvert
  <2> QED BY <1>1, <2>1, <2>2
<1>4. CASE request'[s] = request[s]
  BY <1>1, <1>4
<1> QED BY <1>2, <1>3, <1>4, RequestSteps

\* What a conversion has deleted stays an option of its group.
LEMMA DoomedAreOptionsStep ==
    ASSUME IndInv, Next
    PROVE  DoomedAreOptions'
<1> USE DEF IndInv, TypeOK
<1> SUFFICES ASSUME NEW s \in Requests, request'[s].pc = "convertCommit",
                    NEW b \in request'[s].doomed, b \in Live'
             PROVE  /\ bookings'[b].isOption
                    /\ bookings'[b].group = request'[s].group
  BY DEF DoomedAreOptions
<1>0. b \in Bookings
  BY RequestTypeStep DEF RequestType, RequestState
<1>1. CASE request'[s] = request[s]
  <2>1. BookingLockedBy(s, b)
    BY <1>1 DEF BookingLockedBy
  <2>2. b \in Live /\ bookings'[b] = bookings[b]
    BY <1>0, <1>1, <2>1, LockedRowsUntouched DEF LockedRowsRemain
  <2> QED BY <1>1, <2>2 DEF DoomedAreOptions
<1>2. CASE Arrive(s)
  BY <1>2, Arrival
<1>3. CASE Advance(s) \/ Reject(s)
  <2>1. /\ LockForConvert(s)
        /\ request'[s].doomed \subseteq GroupOptions(request[s].group)
        /\ request'[s].group = request[s].group
    BY <1>3, Progress DEF Idle
  <2>2. bookings' = bookings
    BY <2>1, StagesWriteNothing
  <2> QED BY <2>1, <2>2 DEF GroupOptions
<1> QED BY <1>1, <1>2, <1>3, RequestSteps

------------------------------------------------------------------------------
(* The slots *)

\* The check under the row lock finds every booking of the slot.
LEMMA AvailableSlotIsFree ==
    ASSUME NEW d, NEW slot, NEW type, NEW isOption, NEW gone,
           \/ SlotAvailable(d, slot, type, BookingsOn(d) \ gone, isOption)
           \/ SlotAvailable(d, slot, type, BookingsOn(d), isOption)
    PROVE  \A c \in Live \ gone : bookings[c].date = d => bookings[c].slot # slot
<1>1. slot \notin TakenSlots(BookingsOn(d) \ gone)
  BY DEF SlotAvailable, BookableSlots, TakenSlots
<1> QED BY <1>1 DEF TakenSlots, BookingsOn

\* Inserting one booking on a slot that nobody who stays has.
LEMMA InsertKeepsIndex ==
    ASSUME IndInv, NEW b, NEW d, NEW slot,
           b \notin Live, Live' \subseteq Live \cup {b},
           bookings'[b].date = d, bookings'[b].slot = slot,
           \A c \in Live' \ {b} : bookings'[c] = bookings[c],
           \A c \in Live' \ {b} : bookings[c].date = d => bookings[c].slot # slot
    PROVE  NoDoubleBooking'
  BY DEF IndInv, NoDoubleBooking, Live

\* Moving one booking within its date to a slot that nobody who stays has.
LEMMA MoveKeepsIndex ==
    ASSUME IndInv, NEW b, Live' \subseteq Live,
           \A c \in Live' \ {b} : bookings'[c] = bookings[c],
           b \in Live' =>
               /\ bookings'[b].date = bookings[b].date
               /\ \/ bookings'[b].slot = bookings[b].slot
                  \/ \A c \in Live' \ {b} : bookings[c].date = bookings[b].date
                                        => bookings[c].slot # bookings'[b].slot
    PROVE  NoDoubleBooking'
  BY DEF IndInv, NoDoubleBooking, Live

\* Deleting bookings double-books nothing.
LEMMA DeleteKeepsIndex ==
    ASSUME IndInv, NEW gone, bookings' = Without(bookings, gone)
    PROVE  NoDoubleBooking'
  BY DEF IndInv, NoDoubleBooking, Without, Live

\* Inserting one booking after the slot check double-books nothing.
LEMMA InsertOnKeepsIndex ==
    ASSUME IndInv, NEW d, NEW slot, NEW type, NEW isOption, NEW group,
           SlotAvailable(d, slot, type, BookingsOn(d), isOption),
           InsertOn(d, slot, type, isOption, group)
    PROVE  NoDoubleBooking'
<1>1. PICK b \in FreshIds :
             /\ Live' = Live \cup {b}
             /\ bookings'[b].date = d /\ bookings'[b].slot = slot
             /\ \A c \in Live' \ {b} : bookings'[c] = bookings[c]
  BY InsertEffect
<1>2. b \notin Live
  BY DEF IndInv, TypeOK, BookingsType, FreshIds
<1>3. \A c \in Live \ {} : bookings[c].date = d => bookings[c].slot # slot
  BY AvailableSlotIsFree
<1> QED BY <1>1, <1>2, <1>3, InsertKeepsIndex

\* No step books a slot twice.
LEMMA NoDoubleBookingStep ==
    ASSUME IndInv, Next
    PROVE  NoDoubleBooking'
<1> USE DEF IndInv, TypeOK
<1>0. CASE UNCHANGED <<bookings, issued>>
  BY <1>0 DEF NoDoubleBooking, Live
<1>1. ASSUME NEW r \in Requests, CommitConfirmed(r)
      PROVE  NoDoubleBooking'
  <2> DEFINE q == request[r]
  <2>1. PICK b \in FreshIds :
             /\ Live' = (Live \ q.doomed) \cup {b}
             /\ bookings'[b].date = q.date /\ bookings'[b].slot = q.slot
             /\ \A c \in Live' \ {b} : bookings'[c] = bookings[c]
    BY <1>1, ConfirmedEffect
  <2>2. b \notin Live
    BY DEF BookingsType, FreshIds
  <2>3. SlotAvailable(q.date, q.slot, q.checked, BookingsOn(q.date) \ q.doomed, FALSE)
    BY <1>1 DEF CommitConfirmed
  <2>4. \A c \in Live \ q.doomed : bookings[c].date = q.date => bookings[c].slot # q.slot
    BY <2>3, AvailableSlotIsFree
  <2> HIDE DEF q
  <2> QED BY <2>1, <2>2, <2>4, InsertKeepsIndex
<1>2. ASSUME NEW r \in Requests, CommitOptions(r)
      PROVE  NoDoubleBooking'
  <2> DEFINE q == request[r]
  <2>1. PICK on \in Placements(q.dates) :
             /\ Live' = Live \cup DOMAIN on
             /\ \A b \in DOMAIN on : /\ bookings'[b].date = on[b]
                                     /\ bookings'[b].slot = q.slot
             /\ \A c \in Live' \ DOMAIN on : bookings'[c] = bookings[c]
    BY <1>2, OptionsEffect
  <2>2. DOMAIN on \cap Live = {}
    BY PlacementsType DEF BookingsType
  <2>3. \A d \in q.dates : \A c \in Live \ {} :
            bookings[c].date = d => bookings[c].slot # q.slot
    <3>1. \A d \in q.dates : SlotAvailable(d, q.slot, q.checked, BookingsOn(d), TRUE)
      BY <1>2 DEF CommitOptions
    <3> HIDE DEF q
    <3> QED BY <3>1, AvailableSlotIsFree
  <2>9. \A b \in DOMAIN on : on[b] \in q.dates
    <3> HIDE DEF q
    <3> QED BY PlacementsType
  <2>4. \A b \in DOMAIN on : bookings'[b].date = on[b] /\ bookings'[b].slot = q.slot
                             /\ on[b] \in q.dates
    BY <2>1, <2>9
  <2>5. \A b, c \in DOMAIN on : on[b] = on[c] => b = c
    BY PlacementsType
  <2>6. \A c \in Live' \ DOMAIN on : c \in Live /\ bookings'[c] = bookings[c]
    BY <2>1
  <2> HIDE DEF q
  <2>7. \A b \in DOMAIN on, c \in Live' \ DOMAIN on :
            ~(bookings'[b].date = bookings'[c].date /\ bookings'[b].slot = bookings'[c].slot)
    BY <2>3, <2>4, <2>6
  <2>8. \A b, c \in Live' :
          bookings'[b].date = bookings'[c].date /\ bookings'[b].slot = bookings'[c].slot
          => b = c
    BY <2>4, <2>5, <2>6, <2>7 DEF NoDoubleBooking, Live
  <2> QED BY <2>8 DEF NoDoubleBooking, Live
<1>3. ASSUME NEW r \in Requests, CommitEdit(r)
      PROVE  NoDoubleBooking'
  <2> DEFINE q == request[r]
             b == q.booking
  <2>1. /\ b \in Live /\ Live' = Live
        /\ bookings'[b].date = bookings[b].date
        /\ bookings'[b].slot = EditedSlot(q)
        /\ \A c \in Live \ {b} : bookings'[c] = bookings[c]
    BY <1>3, EditEffect
  <2>2. bookings[b].date = q.date
    BY <1>3, <2>1 DEF CommitEdit, EditKnowsDate
  <2>3. q.slot # KeptSlot =>
            SlotAvailable(q.date, q.slot, q.checked, BookingsOn(q.date) \ {b}, FALSE)
    BY <1>3 DEF CommitEdit, EditAllowed
  <2>4. q.slot # KeptSlot =>
            \A c \in Live \ {b} : bookings[c].date = q.date => bookings[c].slot # q.slot
    BY <2>3, AvailableSlotIsFree
  <2>5. \/ bookings'[b].slot = bookings[b].slot
        \/ \A c \in Live' \ {b} : bookings[c].date = bookings[b].date
                                        => bookings[c].slot # bookings'[b].slot
    BY <2>1, <2>2, <2>4 DEF EditedSlot
  <2> HIDE DEF b
  <2> QED BY <2>1, <2>5, MoveKeepsIndex
<1>4. ASSUME NEW r \in Requests, GroupEditCommit(r)
      PROVE  NoDoubleBooking'
  <2>1. \E table : SlotIndex(table) /\ bookings' = table
    BY <1>4 DEF GroupEditCommit
  <2> QED BY <2>1 DEF NoDoubleBooking, SlotIndex, Live
<1>5. ASSUME NEW r \in Requests, CommitConvert(r)
      PROVE  NoDoubleBooking'
  <2> DEFINE q == request[r]
             b == q.booking
  <2>1. /\ Live' \subseteq Live
        /\ b \in Live' => /\ bookings'[b].date = bookings[b].date
                          /\ bookings'[b].slot = EditedSlot(q)
        /\ \A c \in Live' \ {b} : bookings'[c] = bookings[c]
    BY <1>5, ConvertEffect
  <2>2. q.pc = "convertCommit" /\ (b \in Live => bookings[b].date = q.date)
    BY <1>5 DEF CommitConvert, EditKnowsDate
  <2>3. \A c \in Live \ {b} : ~(bookings[c].date = q.date /\ bookings[c].slot = q.slot)
    BY <2>2 DEF ConvertSlotHeld
  <2>4. b \in Live' =>
            \/ bookings'[b].slot = bookings[b].slot
            \/ \A c \in Live' \ {b} : bookings[c].date = bookings[b].date
                                          => bookings[c].slot # bookings'[b].slot
    BY <2>1, <2>2, <2>3 DEF EditedSlot
  <2> HIDE DEF b
  <2> QED BY <2>1, <2>4, MoveKeepsIndex
<1>6. ASSUME NEW b \in Bookings, FinalizeBooking(b)
      PROVE  NoDoubleBooking'
  BY <1>6, FinalizeEffect, MoveKeepsIndex
<1>7. CASE (\E D \in SUBSET Dates : ReleaseOptions(D)) \/ PurgeBookings
  BY <1>7, DeleteKeepsIndex DEF ReleaseOptions, PurgeBookings
<1>8. ASSUME NEW d, NEW s, NEW t, NEW g,
             BookEventFinal(d, s, t) \/ CreateOption(d, s, t, g)
      PROVE  NoDoubleBooking'
  BY <1>8, InsertOnKeepsIndex DEF BookEventFinal, CreateOption
<1> QED
  BY <1>0, <1>1, <1>2, <1>3, <1>4, <1>5, <1>6, <1>7, <1>8, BookingWriters
     DEF BookingWrite

\* While a conversion holds the lock of its date, nobody takes its slot there.
LEMMA ConvertSlotUntouched ==
    ASSUME IndInv, Next, NEW s \in Requests, request[s].pc = "convertCommit",
           request'[s] = request[s], NEW c \in Live', c # request[s].booking
    PROVE  ~(bookings'[c].date = request[s].date /\ bookings'[c].slot = request[s].slot)
<1> USE DEF IndInv, TypeOK
<1> DEFINE Taken == bookings'[c].date = request[s].date
                    /\ bookings'[c].slot = request[s].slot
<1>a. request[s].locked = {request[s].date}
  BY DEF LocksHeld
<1>b. \A b \in Live : b # request[s].booking =>
         ~(bookings[b].date = request[s].date /\ bookings[b].slot = request[s].slot)
  BY DEF ConvertSlotHeld
<1>c. ASSUME NEW r \in Requests, Answer(r)
      PROVE  s # r
  BY <1>c DEF Answer, Wait, Idle, RequestType
<1>d. CASE c \in Live /\ bookings'[c] = bookings[c]
  BY <1>b, <1>d
<1>e. ASSUME NEW r \in Requests, r # s, LockableBy(r, request[s].date)
      PROVE  FALSE
  BY <1>a, <1>e DEF LockableBy, DateLockedBy
<1>0. CASE UNCHANGED <<bookings, issued>>
  BY <1>0, <1>d DEF Live
<1>1. ASSUME NEW r \in Requests, CommitConfirmed(r)
      PROVE  ~Taken
  <2>1. r # s /\ LockableBy(r, request[r].date)
    BY <1>1, <1>c DEF CommitConfirmed
  <2>2. request[r].date # request[s].date
    BY <1>e, <2>1
  <2>3. PICK b \in FreshIds :
             /\ Live' = (Live \ request[r].doomed) \cup {b}
             /\ bookings'[b].date = request[r].date
             /\ \A x \in Live' \ {b} : bookings'[x] = bookings[x]
    BY <1>1, ConfirmedEffect
  <2> QED BY <1>d, <2>2, <2>3
<1>2. ASSUME NEW r \in Requests, CommitOptions(r)
      PROVE  ~Taken
  <2>1. r # s /\ request[r].locked = request[r].dates
    BY <1>2, <1>c DEF CommitOptions, LocksHeld
  <2>2. request[s].date \notin request[r].dates
    BY <1>a, <2>1 DEF DateLocksExclusive
  <2>3. PICK on \in Placements(request[r].dates) :
             /\ Live' = Live \cup DOMAIN on
             /\ \A b \in DOMAIN on : /\ bookings'[b].date = on[b]
                                     /\ bookings'[b].slot = request[r].slot
             /\ \A b \in Live' \ DOMAIN on : bookings'[b] = bookings[b]
    BY <1>2, OptionsEffect
  <2>5. \A b \in DOMAIN on : on[b] \in request[r].dates
    BY PlacementsType
  <2>4. \A b \in DOMAIN on : bookings'[b].date = on[b] /\ on[b] \in request[r].dates
    BY <2>3, <2>5
  <2> QED BY <1>d, <2>2, <2>3, <2>4
<1>3. ASSUME NEW r \in Requests, CommitEdit(r)
      PROVE  ~Taken
  <2>1. r # s /\ LockableBy(r, request[r].date) /\ request[r].pc = "edit"
    BY <1>3, <1>c DEF CommitEdit
  <2>2. request[r].date # request[s].date
    BY <1>e, <2>1
  <2>3. /\ request[r].booking \in Live
        /\ Live' = Live
        /\ bookings'[request[r].booking].date = bookings[request[r].booking].date
        /\ \A b \in Live \ {request[r].booking} : bookings'[b] = bookings[b]
    BY <1>3, EditEffect
  <2>4. bookings[request[r].booking].date = request[r].date
    BY <2>1, <2>3 DEF EditKnowsDate
  <2> QED BY <1>d, <2>2, <2>3, <2>4
<1>4. ASSUME NEW r \in Requests, GroupEditCommit(r)
      PROVE  ~Taken
  <2> DEFINE q      == request[r]
             fresh  == q.dates \ DatesOf(q.related)
             edited == ({q.booking} \cup q.related) \ q.doomed
  <2>1. /\ r # s /\ q.pc = "groupCommit"
        /\ \A d \in fresh : LockableBy(r, d)
        /\ \A b \in q.related \ q.doomed : ~SlotWrittenBy(s, bookings[b].date, q.slot)
    BY <1>4, <1>c DEF GroupEditCommit
  <2>2. request[s].date \notin fresh
    BY <1>e, <2>1
  <2>3. q.date # request[s].date
    BY <1>a, <2>1 DEF LocksHeld, DateLocksExclusive
  <2>4. PICK on \in Placements(fresh) :
             /\ q.booking \in Live /\ edited \subseteq Live
             /\ Live' = (Live \ q.doomed) \cup DOMAIN on
             /\ issued' = issued \cup DOMAIN on
             /\ \A b \in DOMAIN on : /\ bookings'[b].date = on[b]
                                     /\ bookings'[b].slot = q.slot
                                     /\ bookings'[b].type = q.checked
                                     /\ bookings'[b].isOption = TRUE
             /\ \A b \in edited : /\ bookings'[b].date = bookings[b].date
                                  /\ bookings'[b].slot = q.slot
                                  /\ bookings'[b].type = EditedType(q, b)
                                  /\ bookings'[b].isOption = bookings[b].isOption
             /\ \A b \in Live' \ (edited \cup DOMAIN on) : bookings'[b] = bookings[b]
    BY <1>4, GroupEffect
  <2>5. \A b \in DOMAIN on : on[b] \in fresh
    <3> HIDE DEF fresh
    <3> QED BY PlacementsType
  <2>6. bookings[q.booking].date = q.date
    BY <2>1, <2>4 DEF EditKnowsDate
  <2>7. CASE c \in DOMAIN on
    BY <2>2, <2>4, <2>5, <2>7
  <2>8. CASE c = q.booking /\ c \in edited
    BY <2>3, <2>4, <2>6, <2>8
  <2>9. CASE c \in q.related \ q.doomed
    <3>1. bookings'[c].date = bookings[c].date /\ bookings'[c].slot = q.slot
      BY <2>4, <2>9
    <3>2. ~(bookings[c].date \in request[s].locked /\ q.slot = request[s].slot)
      BY <2>1, <2>9 DEF SlotWrittenBy
    <3> QED BY <1>a, <3>1, <3>2
  <2>10. CASE c \notin edited \cup DOMAIN on
    BY <1>d, <2>4, <2>10
  <2> QED BY <2>7, <2>8, <2>9, <2>10
<1>5. ASSUME NEW r \in Requests, CommitConvert(r)
      PROVE  ~Taken
  <2>1. r # s /\ request[r].pc = "convertCommit"
    BY <1>5, <1>c DEF CommitConvert
  <2>2. request[r].date # request[s].date
    BY <1>a, <2>1 DEF LocksHeld, DateLocksExclusive
  <2>3. request[r].booking \in Live => bookings[request[r].booking].date = request[r].date
    BY <2>1 DEF EditKnowsDate
  <2> QED BY <1>5, <1>d, <2>2, <2>3, ConvertEffect
<1>6. ASSUME NEW b \in Bookings, FinalizeBooking(b)
      PROVE  ~Taken
  <2>1. /\ Live' = Live
        /\ bookings'[b].date = bookings[b].date
        /\ bookings'[b].slot = bookings[b].slot
        /\ \A x \in Live \ {b} : bookings'[x] = bookings[x]
    BY <1>6, FinalizeEffect
  <2> QED BY <1>b, <1>d, <2>1
<1>7. CASE (\E D \in SUBSET Dates : ReleaseOptions(D)) \/ PurgeBookings
  BY <1>7, <1>d DEF ReleaseOptions, PurgeBookings, Live, Without
<1>8. ASSUME NEW d, NEW slot, NEW t, NEW g,
             BookEventFinal(d, slot, t) \/ CreateOption(d, slot, t, g)
      PROVE  ~Taken
  <2>1. d # request[s].date
    BY <1>8, <1>a DEF BookEventFinal, CreateOption, Unlocked, DateLockedBy
  <2>2. PICK isOption, group : InsertOn(d, slot, t, isOption, group)
    BY <1>8 DEF BookEventFinal, CreateOption
  <2>3. PICK b \in FreshIds :
             /\ Live' = Live \cup {b}
             /\ bookings'[b].date = d
             /\ \A x \in Live' \ {b} : bookings'[x] = bookings[x]
    BY <2>2, InsertEffect
  <2> QED BY <1>d, <2>1, <2>3
<1> QED
  BY <1>0, <1>1, <1>2, <1>3, <1>4, <1>5, <1>6, <1>7, <1>8, BookingWriters
     DEF BookingWrite

\* The slot of a conversion in progress stays free.
LEMMA ConvertSlotHeldStep ==
    ASSUME IndInv, Next
    PROVE  ConvertSlotHeld'
<1> USE DEF IndInv, TypeOK
<1> SUFFICES ASSUME NEW s \in Requests, request'[s].pc = "convertCommit",
                    NEW c \in Live', c # request'[s].booking
             PROVE  ~(bookings'[c].date = request'[s].date
                      /\ bookings'[c].slot = request'[s].slot)
  BY DEF ConvertSlotHeld
<1>1. CASE request'[s] = request[s]
  BY <1>1, ConvertSlotUntouched
<1>2. CASE Arrive(s)
  BY <1>2, Arrival
<1>3. CASE Advance(s) \/ Reject(s)
  <2> DEFINE q == request[s]
  <2>1. /\ LockForConvert(s)
        /\ request'[s].date = q.date /\ request'[s].slot = q.slot
        /\ request'[s].booking = q.booking
    BY <1>3, Progress DEF Idle
  <2>2. bookings' = bookings
    BY <2>1, StagesWriteNothing
  <2>3. bookings[c].slot \in Slots
    BY <2>2 DEF BookingsType, BookingRow, Live
  <2>4. \/ q.slot = KeptSlot
        \/ SlotAvailable(q.date, q.slot, q.checked, BookingsOn(q.date) \ {q.booking}, FALSE)
    BY <2>1 DEF LockForConvert, EditAllowed
  <2>5. CASE q.slot = KeptSlot
    BY <2>1, <2>2, <2>3, <2>5 DEF KeptSlot, Slots
  <2>6. CASE SlotAvailable(q.date, q.slot, q.checked, BookingsOn(q.date) \ {q.booking}, FALSE)
    <3>1. \A x \in Live \ {q.booking} : bookings[x].date = q.date
                                          => bookings[x].slot # q.slot
      BY <2>6, AvailableSlotIsFree
    <3> QED BY <2>1, <2>2, <3>1 DEF Live
  <2> QED BY <2>4, <2>5, <2>6
<1> QED BY <1>1, <1>2, <1>3, RequestSteps

------------------------------------------------------------------------------
(* The theorems *)

\* The inductive invariant holds in the empty hall.
LEMMA IndInvInit ==
    ASSUME Init
    PROVE  IndInv
<1> USE DEF Init
<1>1. CalendarType /\ BookingsType
  BY DEF CalendarType, Rows, BookingsType, Live
<1>2. RequestType
  BY IdleType DEF RequestType, WellFormed, Idle
<1>3. job \in JobState /\ today \in 0 .. LastDay /\ traffic \in Traffics
  BY CalendarAssumption DEF JobState, IdleJob
<1>4. NoDoubleBooking /\ EditKnowsDate /\ LocksHeld /\ DateLocksExclusive
  BY DEF NoDoubleBooking, EditKnowsDate, LocksHeld, DateLocksExclusive, Idle, Live
<1>5. ConvertSlotHeld /\ RowLocksExclusive /\ LockedRowsRemain /\ DoomedAreOptions
  BY DEF ConvertSlotHeld, RowLocksExclusive, LockedRowsRemain, DoomedAreOptions,
         BookingLockedBy, Idle
<1> QED BY <1>1, <1>2, <1>3, <1>4, <1>5 DEF IndInv, TypeOK

\* The inductive invariant is preserved by every step.
LEMMA IndInvStep ==
    ASSUME IndInv, [Next]_vars
    PROVE  IndInv'
<1>1. CASE Next
  <2>1. TypeOK'
    BY <1>1, CalendarTypeStep, BookingsTypeStep, RequestTypeStep, JobTypeStep,
       TrafficStays DEF IndInv, TypeOK
  <2> QED
    BY <1>1, <2>1, NoDoubleBookingStep, EditKnowsDateStep, LocksHeldStep,
       DateLocksExclusiveStep, ConvertSlotHeldStep, RowLocksExclusiveStep,
       LockedRowsRemainStep, DoomedAreOptionsStep
       DEF IndInv
<1>2. CASE UNCHANGED vars
  BY <1>2 DEF vars, IndInv, TypeOK, CalendarType, BookingsType, RequestType, Rows, Live,
        NoDoubleBooking, EditKnowsDate, LocksHeld, DateLocksExclusive,
        ConvertSlotHeld, RowLocksExclusive, LockedRowsRemain, DoomedAreOptions,
        BookingLockedBy
<1> QED BY <1>1, <1>2

\* The inductive invariant holds in every reachable state of every instance:
\* what is stored and what the handlers in flight remember and have locked fit
\* together.
THEOREM Inductive == Spec => []IndInv
<1>1. Init => IndInv
  BY IndInvInit
<1>2. IndInv /\ [Next]_vars => IndInv'
  BY IndInvStep
<1> QED BY <1>1, <1>2, PTL DEF Spec

\* Rows, bookings, handlers, job and clock keep their types (the type invariant
\* needs the row locks: an edited row must not be deleted under its handler).
THEOREM TypeCorrect == Spec => []TypeOK
<1>1. IndInv => TypeOK
  BY DEF IndInv
<1> QED BY <1>1, Inductive, PTL

\* PRD KPI "0 double bookings": for any number of dates, bookings, groups and
\* requests in flight no slot of a date is ever held by two bookings.
THEOREM NoDoubleBookings == Spec => []NoDoubleBooking
<1>1. IndInv => NoDoubleBooking
  BY DEF IndInv
<1> QED BY <1>1, Inductive, PTL

\* No handler loses a booking row it has locked: the rows that an override or
\* a conversion deletes and the one an edit updates outlive its other steps.
THEOREM LockedRowsStay == Spec => []LockedRowsRemain
<1>1. IndInv => LockedRowsRemain
  BY DEF IndInv
<1> QED BY <1>1, Inductive, PTL

\* A conversion deletes nothing but options of its own group, whatever other
\* handlers did to them before its transaction commits.
THEOREM ConversionsSpareEvents == Spec => ConversionSparesEvents
<1>1. ASSUME IndInv, Next, NEW r \in Requests, CommitConvert(r), NEW b \in Live \ Live'
      PROVE  bookings[b].isOption /\ bookings[b].group = request[r].group
  <2>1. request[r].pc = "convertCommit" /\ b \in request[r].doomed
    BY <1>1, ConvertEffect DEF CommitConvert
  <2> QED BY <1>1, <2>1, SMTT(60) DEF IndInv, DoomedAreOptions
<1>2. IndInv /\ [Next]_vars =>
        [\A r \in Requests : CommitConvert(r) =>
            \A b \in Live \ Live' : bookings[b].isOption
                                    /\ bookings[b].group = request[r].group]_vars
  BY <1>1
<1> QED BY <1>2, Inductive, PTL DEF Spec, ConversionSparesEvents

\* The empty hall is the empty register.
LEMMA RegisterInit ==
    ASSUME Init
    PROVE  Register!Init
  BY DEF Init, Register!Init, Live

\* Every step of the hall is a step of the register.
LEMMA RegisterStep ==
    ASSUME IndInv, IndInv', Next
    PROVE  Register!Next
<1> USE DEF IndInv, TypeOK
<1> DEFINE claims == [b \in Live |-> [date |-> bookings[b].date,
                                      slot |-> bookings[b].slot,
                                      firm |-> ~bookings[b].isOption]]
           gone   == Live \ Live'
           fresh  == Live' \ Live
<1>1. gone \in SUBSET DOMAIN claims /\ fresh \in SUBSET (Bookings \ issued)
  BY RowsContinue DEF BookingsType
<1>2. claims' \in [(DOMAIN claims \ gone) \cup fresh -> Register!Claim]
  <2>1. (DOMAIN claims \ gone) \cup fresh = Live'
    OBVIOUS
  <2>2. \A b \in Live' : [date |-> bookings'[b].date, slot |-> bookings'[b].slot,
                          firm |-> ~bookings'[b].isOption] \in Register!Claim
    BY DEF BookingsType, BookingRow, Register!Claim, Slots, Register!Slots
  <2> QED BY <2>1, <2>2
<1>3. \A b \in DOMAIN claims \ gone : Register!Continues(claims[b], claims'[b])
  BY RowsContinue DEF Register!Continues
<1>4. Register!Exclusive(claims')
  BY DEF NoDoubleBooking, Register!Exclusive, Live
<1>5. issued' = issued \cup fresh
  BY RowsContinue
<1> HIDE DEF gone, fresh
<1>6. \E g \in SUBSET DOMAIN claims, f \in SUBSET (Bookings \ issued) :
        /\ claims' \in [(DOMAIN claims \ g) \cup f -> Register!Claim]
        /\ \A b \in DOMAIN claims \ g : Register!Continues(claims[b], claims'[b])
        /\ Register!Exclusive(claims')
        /\ issued' = issued \cup f
  <2> HIDE DEF claims
  <2> QED BY <1>1, <1>2, <1>3, <1>4, <1>5
<1> QED BY <1>6 DEF Register!Next, Register!Update

\* The hall implements the abstract register of claims: handlers, locks,
\* calendar rows and the job add nothing that its users could see but claims
\* that begin, go on and end, exclusively.
THEOREM ImplementsRegister == Spec => IsRegister
<1>1. Init => Register!Init
  BY RegisterInit
<1>2. IndInv /\ IndInv' /\ [Next]_vars => [Register!Next]_Register!vars
  BY RegisterStep DEF vars, Live, Register!vars
<1> QED BY <1>1, <1>2, Inductive, PTL DEF Spec, IsRegister, Register!Spec

------------------------------------------------------------------------------
(* The calendar agrees with the bookings and the clock *)

\* What a step makes of the row of a date: its status and holder stay, or it becomes
\* available, an option or booked, or it is locked for checking, or archived.
RowKept(d) ==
    /\ d \in Rows
    /\ calendar'[d].status = calendar[d].status
    /\ calendar'[d].lockedBy = calendar[d].lockedBy

RowOpened(d) == calendar'[d].status \in {"AVAILABLE", "OPTION", "BOOKED"}

RowWritten(d) ==
    \/ RowKept(d) \/ RowOpened(d)
    \/ \E e \in Employees : LockDateForChecking(d, e)
    \/ ArchiveCommit /\ d \in job.dates /\ calendar'[d].status = "ARCHIVED"

\* A row that is inserted or updated.
LEMMA UpsertWrites ==
    ASSUME NEW rows, calendar' = Upsert(calendar, rows), NEW d \in Rows',
           d \in DOMAIN rows =>
              \/ rows[d].status \in {"AVAILABLE", "OPTION", "BOOKED"}
              \/ /\ d \in Rows /\ rows[d].status = calendar[d].status
                 /\ rows[d].lockedBy = calendar[d].lockedBy
    PROVE  RowKept(d) \/ RowOpened(d)
  BY DEF Upsert, Rows, RowKept, RowOpened

\* A row that is updated where it is.
LEMMA UpdateWrites ==
    ASSUME NEW x, NEW row, calendar' = [calendar EXCEPT ![x] = row], NEW d \in Rows',
           d = x => \/ row.status \in {"AVAILABLE", "OPTION", "BOOKED"}
                    \/ row.status = calendar[d].status /\ row.lockedBy = calendar[d].lockedBy
    PROVE  RowKept(d) \/ RowOpened(d)
  BY DEF Rows, RowKept, RowOpened

\* A date without a row is available.
LEMMA RowOfStatus ==
    ASSUME CalendarType, NEW d \in Dates
    PROVE  \/ RowOf(d).status = "AVAILABLE"
           \/ /\ d \in Rows /\ RowOf(d).status = calendar[d].status
              /\ RowOf(d).lockedBy = calendar[d].lockedBy
  BY DEF RowOf, DefaultRow

\* What the repair of a row and the edit of an option leave of it.
LEMMA EditedRowStatus ==
    ASSUME CalendarType, NEW q, q.date \in Rows, NEW option, NEW confirmed
    PROVE  LET row == EditedRow(q, option, confirmed) IN
           /\ row.status \in {"OPTION", calendar[q.date].status}
           /\ row.lockedBy = calendar[q.date].lockedBy
<1>1. calendar[q.date] \in CalendarRow
  BY DEF CalendarType
<1> QED BY <1>1 DEF EditedRow, Synced, CalendarRow

\* Whatever a step writes into the row of a date is one of these.
LEMMA RowsWritten ==
    ASSUME TypeOK, Next
    PROVE  \A d \in Rows' : RowWritten(d)
<1> SUFFICES ASSUME NEW d \in Rows' PROVE RowWritten(d)
  OBVIOUS
<1> DEFINE Good == RowKept(d) \/ RowOpened(d)
<1>a. Good => RowWritten(d)
  BY DEF RowWritten
<1> USE DEF TypeOK
<1> HIDE DEF Good
<1>0. CASE UNCHANGED calendar
  BY <1>0 DEF Rows, RowKept, RowWritten
<1>1. ASSUME NEW r \in Requests, CommitConfirmed(r)
      PROVE  Good
  <2> DEFINE x    == request[r].date
             base == IF request[r].override THEN FreedRow(RowOf(x)) ELSE RowOf(x)
             keep == base.status = "BOOKED" /\ x \in request[r].seenOption
             row  == [base EXCEPT !.status = "BOOKED",
                                  !.expiry = IF keep THEN @ ELSE "none"]
  <2>1. x \in Dates
    BY <1>1, RequestFields DEF CommitConfirmed
  <2>2. base \in CalendarRow
    BY <2>1, RowOfType, ReleasedType
  <2>3. row.status = "BOOKED"
    BY <2>2 DEF CalendarRow
  <2>4. calendar' = Upsert(calendar, [y \in {x} |-> row])
    BY <1>1 DEF CommitConfirmed
  <2> HIDE DEF row, x
  <2> QED BY <2>3, <2>4, UpsertWrites DEF Good
<1>2. ASSUME NEW r \in Requests, CommitOptions(r)
      PROVE  Good
  <2> DEFINE q == request[r]
             row(x) == [RowOf(x) EXCEPT
                    !.status = IF x \notin q.seenConfirmed \/ ConfirmedOn(x) = {}
                               THEN "OPTION" ELSE @,
                    !.expiry = "live"]
  <2>1. q.dates \subseteq Dates
    BY RequestFields
  <2>2. ASSUME NEW x \in q.dates
        PROVE  /\ row(x).status \in {"OPTION", RowOf(x).status}
               /\ row(x).lockedBy = RowOf(x).lockedBy
    <3>1. RowOf(x) \in CalendarRow
      BY <2>1, RowOfType
    <3> QED BY <3>1 DEF CalendarRow
  <2>3. calendar' = Upsert(calendar, [x \in q.dates |-> row(x)])
    BY <1>2 DEF CommitOptions
  <2> HIDE DEF row, q
  <2>4. \A x \in q.dates : \/ row(x).status \in {"AVAILABLE", "OPTION", "BOOKED"}
                           \/ /\ x \in Rows /\ row(x).status = calendar[x].status
                              /\ row(x).lockedBy = calendar[x].lockedBy
    BY <2>1, <2>2, RowOfStatus
  <2> QED BY <2>3, <2>4, UpsertWrites DEF Good
<1>3. ASSUME NEW r \in Requests, CommitEdit(r)
      PROVE  Good
  <2> DEFINE q   == request[r]
             row == EditedRow(q, OptionsOn(q.date) # {}, ConfirmedOn(q.date) # {})
  <2>1. calendar' = [calendar EXCEPT ![q.date] = row]
    BY <1>3 DEF CommitEdit
  <2>2. q.date \in Rows => /\ row.status \in {"OPTION", calendar[q.date].status}
                           /\ row.lockedBy = calendar[q.date].lockedBy
    BY EditedRowStatus
  <2>3. Rows' = Rows
    BY <2>1 DEF Rows
  <2> HIDE DEF row, q
  <2> QED BY <2>1, <2>2, <2>3, UpdateWrites DEF Good
<1>4. ASSUME NEW r \in Requests, GroupEditCommit(r)
      PROVE  Good
  <2> DEFINE q      == request[r]
             fresh  == q.dates \ DatesOf(q.related)
             expiry == IF q.extend THEN "live" ELSE q.seenExpiry
             anchor == EditedRow(q, q.seenOption # {}, q.seenConfirmed # {})
             Opened(x) ==
                IF RowOf(x).status = "BOOKED" /\ OptionsOn(x) # {} THEN RowOf(x)
                ELSE [RowOf(x) EXCEPT
                        !.status = IF ConfirmedOn(x) = {} THEN "OPTION" ELSE @,
                        !.expiry = expiry]
             row(x) == IF x \in fresh THEN Opened(x)
                       ELSE IF x = q.date /\ x \notin q.empties THEN anchor
                       ELSE IF x = q.date THEN Released(anchor)
                       ELSE Released(calendar[x])
             D == {q.date} \cup q.empties \cup fresh
  <2>1. calendar' = Upsert(calendar, [x \in D |-> row(x)])
    BY <1>4 DEF GroupEditCommit
  <2>2. D \subseteq Dates /\ {q.date} \cup q.empties \subseteq Rows
    BY <1>4, RequestFields DEF GroupEditCommit, CalendarType
  <2>3. /\ anchor \in CalendarRow
        /\ anchor.status \in {"OPTION", calendar[q.date].status}
        /\ anchor.lockedBy = calendar[q.date].lockedBy
    BY <2>2, EditedRowType, EditedRowStatus
  <2>4. ASSUME NEW x \in D
        PROVE  \/ row(x).status \in {"AVAILABLE", "OPTION", "BOOKED"}
               \/ /\ x \in Rows /\ row(x).status = calendar[x].status
                  /\ row(x).lockedBy = calendar[x].lockedBy
    <3>1. CASE x \in fresh
      <4>1. RowOf(x) \in CalendarRow
        BY <2>2, RowOfType
      <4>2. Opened(x).status \in {"OPTION", RowOf(x).status} /\ Opened(x).lockedBy = RowOf(x).lockedBy
        BY <4>1 DEF CalendarRow
      <4>3. row(x) = Opened(x)
        BY <3>1
      <4> HIDE DEF Opened, row
      <4> QED BY <2>2, <4>2, <4>3, RowOfStatus
    <3>2. CASE x \notin fresh /\ x = q.date /\ x \notin q.empties
      <4>1. row(x) = anchor /\ x \in Rows
        BY <3>2, <2>2
      <4> HIDE DEF anchor, row
      <4> QED BY <2>3, <3>2, <4>1
    <3>3. CASE x \notin fresh /\ (x # q.date \/ x \in q.empties)
      <4>1. calendar[x] \in CalendarRow
        BY <3>3, <2>2 DEF CalendarType
      <4>2. \A t \in CalendarRow : Released(t).status = "AVAILABLE"
        BY DEF Released, CalendarRow
      <4>3. row(x) \in {Released(anchor), Released(calendar[x])}
        BY <3>3
      <4> HIDE DEF anchor, row
      <4> QED BY <2>3, <4>1, <4>2, <4>3
    <3> QED BY <3>1, <3>2, <3>3
  <2> HIDE DEF row, D
  <2> QED BY <2>1, <2>4, UpsertWrites DEF Good
<1>5. ASSUME NEW r \in Requests, CommitConvert(r)
      PROVE  Good
  <2> DEFINE q == request[r]
  <2>1. calendar[d] \in CalendarRow /\ d \in Rows
    BY <1>5 DEF CommitConvert, CalendarType, Rows
  <2>2. calendar' = [x \in Rows |->
                IF x \in q.empties THEN FreedRow(calendar[x])
                ELSE IF x # q.date THEN calendar[x]
                ELSE IF q.option THEN Synced(calendar[q.date], TRUE, TRUE)
                ELSE [calendar[q.date] EXCEPT !.status = "BOOKED", !.expiry = "none"]]
    BY <1>5 DEF CommitConvert
  <2>3. CASE d \in q.empties
    BY <2>1, <2>2, <2>3 DEF Good, RowOpened, FreedRow, Released, CalendarRow
  <2>4. CASE d \notin q.empties
    BY <2>1, <2>2, <2>4 DEF Good, RowOpened, RowKept, Synced, CalendarRow
  <2> QED BY <2>3, <2>4
<1>6. ASSUME NEW r \in Requests, SyncWrite(r) \/ SetDeadline(r) \/ ReleaseDateWrite(r)
      PROVE  Good
  <2>0. ASSUME NEW x, NEW row, calendar' = [calendar EXCEPT ![x] = row],
               x \in Rows => \/ row.status \in {"AVAILABLE", "OPTION", "BOOKED"}
                            \/ /\ row.status = calendar[x].status
                               /\ row.lockedBy = calendar[x].lockedBy
        PROVE  Good
    <3>1. Rows' = Rows
      BY <2>0 DEF Rows
    <3> QED BY <2>0, <3>1, UpdateWrites DEF Good
  <2> DEFINE q == request[r]
  <2>1. q.date \in Rows => calendar[q.date] \in CalendarRow
    BY DEF CalendarType
  <2>2. CASE SyncWrite(r)
    <3> DEFINE row == [calendar[q.date] EXCEPT
                         !.status = IF q.option THEN "OPTION" ELSE @,
                         !.expiry = IF q.seenExpiry = "none" THEN "live" ELSE @]
    <3>1. calendar' = [calendar EXCEPT ![q.date] = row]
      BY <2>2 DEF SyncWrite
    <3>2. q.date \in Rows => /\ row.status \in {"OPTION", calendar[q.date].status}
                             /\ row.lockedBy = calendar[q.date].lockedBy
      BY <2>1 DEF CalendarRow
    <3> HIDE DEF row
    <3> QED BY <2>0, <3>1, <3>2
  <2>3. CASE SetDeadline(r)
    <3> DEFINE row == [calendar[q.date] EXCEPT !.expiry = "live"]
    <3>1. calendar' = [calendar EXCEPT ![q.date] = row]
      BY <2>3 DEF SetDeadline
    <3>2. q.date \in Rows => /\ row.status = calendar[q.date].status
                             /\ row.lockedBy = calendar[q.date].lockedBy
      BY <2>1 DEF CalendarRow
    <3> HIDE DEF row
    <3> QED BY <2>0, <3>1, <3>2
  <2>4. CASE ReleaseDateWrite(r)
    <3> DEFINE booked == q.seenOption \cup q.seenConfirmed # {}
               status == IF q.seenConfirmed # {} THEN "BOOKED"
                         ELSE IF booked THEN "OPTION" ELSE "AVAILABLE"
               expiry == IF booked THEN q.seenExpiry ELSE "none"
               row == [status |-> status, expiry |-> expiry, lockedBy |-> NoOne]
    <3>1. calendar' = [calendar EXCEPT ![q.date] = row]
      BY <2>4 DEF ReleaseDateWrite
    <3>2. row.status \in {"AVAILABLE", "OPTION", "BOOKED"}
      OBVIOUS
    <3> HIDE DEF row
    <3> QED BY <2>0, <3>1, <3>2
  <2> QED BY <1>6, <2>2, <2>3, <2>4
<1>7. CASE \/ \E b \in Bookings : FinalizeBooking(b)
           \/ \E D \in SUBSET Dates : ReleaseOptions(D)
           \/ \E x \in Dates : Lapse(x)
           \/ PurgeDates
  <2>1. d \in Rows /\ calendar[d] \in CalendarRow
    BY <1>7 DEF FinalizeBooking, ReleaseOptions, Lapse, PurgeDates, Without, Rows, CalendarType
  <2>2. ASSUME NEW b \in Bookings, FinalizeBooking(b) PROVE Good
    BY <2>1, <2>2 DEF FinalizeBooking, Rows, Good, RowOpened, RowKept, CalendarRow
  <2>3. ASSUME NEW D \in SUBSET Dates, ReleaseOptions(D) PROVE Good
    BY <2>1, <2>3 DEF ReleaseOptions, Released, Rows, Good, RowOpened, RowKept, CalendarRow
  <2>4. ASSUME NEW x \in Dates, Lapse(x) PROVE Good
    BY <2>1, <2>4 DEF Lapse, Rows, Good, RowKept, CalendarRow
  <2>5. CASE PurgeDates
    <3>1. calendar' = calendar \/ calendar' = Without(calendar, job.dates)
      BY <2>5 DEF PurgeDates
    <3>2. calendar'[d] = calendar[d]
      BY <3>1 DEF Without, Rows
    <3>3. RowKept(d)
      BY <2>1, <3>2, Zenon DEF RowKept
    <3> QED BY <1>a, <3>3 DEF Good
  <2> QED BY <1>7, <1>a, <2>2, <2>3, <2>4, <2>5
<1>8. CASE \/ \E D \in SUBSET Dates : SaveOptionHold(D)
           \/ \E x \in Dates, s \in Slots, t \in EventTypes :
                 BookEventFinal(x, s, t) \/ \E g \in Clients : CreateOption(x, s, t, g)
  <2>1. ASSUME NEW D \in SUBSET Dates, SaveOptionHold(D) PROVE Good
    <3> DEFINE row == [status |-> "OPTION", expiry |-> "live", lockedBy |-> NoOne]
               rows == [x \in D |-> row]
    <3>1. calendar' = Upsert(calendar, rows)
      BY <2>1 DEF SaveOptionHold
    <3>2. \A x \in DOMAIN rows : rows[x].status = "OPTION"
      OBVIOUS
    <3> HIDE DEF rows
    <3> QED BY <3>1, <3>2, UpsertWrites DEF Good
  <2>2. ASSUME NEW x \in Dates, NEW s \in Slots, NEW t \in EventTypes,
               BookEventFinal(x, s, t)
        PROVE  Good
    BY <2>2 DEF BookEventFinal, Rows, Good, RowOpened, RowKept
  <2>3. ASSUME NEW x \in Dates, NEW s \in Slots, NEW t \in EventTypes,
               NEW g \in Clients, CreateOption(x, s, t, g)
        PROVE  Good
    BY <2>3 DEF CreateOption, Rows, Good, RowOpened, RowKept
  <2> QED BY <1>8, <1>a, <2>1, <2>2, <2>3
<1>9. ASSUME NEW x \in Dates, NEW e \in Employees, LockDateForChecking(x, e)
      PROVE  RowWritten(d)
  <2>1. d # x => Good
    BY <1>9 DEF LockDateForChecking, Upsert, Rows, Good, RowKept
  <2> QED BY <1>9, <2>1, <1>a DEF RowWritten
<1>10. CASE ArchiveCommit
  <2>1. d \in Rows /\ calendar[d] \in CalendarRow
    BY <1>10 DEF ArchiveCommit, Rows, CalendarType
  <2> QED BY <1>10, <2>1 DEF ArchiveCommit, RowWritten, RowKept, CalendarRow
<1> QED BY <1>0, <1>1, <1>2, <1>3, <1>4, <1>5, <1>6, <1>7, <1>8, <1>9, <1>10, <1>a, CalendarWriters
       DEF CalendarWrite, Atomic

\* A booking that is inserted as an option is one.
LEMMA OptionInsertEffect ==
    ASSUME NEW d, NEW slot, NEW type, NEW group, InsertOn(d, slot, type, TRUE, group)
    PROVE  \E b : /\ Live' = Live \cup {b}
                  /\ bookings'[b].date = d /\ bookings'[b].slot = slot
                  /\ bookings'[b].type = type /\ bookings'[b].isOption = TRUE
                  /\ \A c \in Live' \ {b} : bookings'[c] = bookings[c]
  BY DEF InsertOn, Upsert, Live

\* A step that creates a confirmed booking, or confirms one that is not being converted,
\* makes the date booked.
LEMMA ConfirmedIsBooked ==
    ASSUME IndInv, Next, \A r \in Requests : ~CommitConvert(r),
           NEW b \in Live', ~bookings'[b].isOption,
           bookings'[b].date \in Rows'
    PROVE  \/ b \in Live /\ ~bookings[b].isOption /\ bookings[b].date = bookings'[b].date
           \/ calendar'[bookings'[b].date].status = "BOOKED"
<1> DEFINE Good == \/ b \in Live /\ ~bookings[b].isOption /\ bookings[b].date = bookings'[b].date
                   \/ calendar'[bookings'[b].date].status = "BOOKED"
<1> USE DEF IndInv, TypeOK
<1>0. CASE UNCHANGED <<bookings, issued>>
  BY <1>0 DEF Live
<1>1. ASSUME NEW r \in Requests, CommitConfirmed(r)
      PROVE  Good
  <2> DEFINE x    == request[r].date
             base == IF request[r].override THEN FreedRow(RowOf(x)) ELSE RowOf(x)
             keep == base.status = "BOOKED" /\ x \in request[r].seenOption
             row  == [base EXCEPT !.status = "BOOKED",
                                  !.expiry = IF keep THEN @ ELSE "none"]
  <2>1. x \in Dates
    BY <1>1, RequestFields DEF CommitConfirmed
  <2>2. base \in CalendarRow
    BY <2>1, RowOfType, ReleasedType
  <2>3. row.status = "BOOKED"
    BY <2>2 DEF CalendarRow
  <2>4. calendar' = Upsert(calendar, [y \in {x} |-> row])
    BY <1>1 DEF CommitConfirmed
  <2>5. calendar'[x].status = "BOOKED"
    <3> HIDE DEF row, x
    <3> QED BY <2>3, <2>4 DEF Upsert
  <2> QED BY <1>1, <2>5, ConfirmedEffect
<1>2. ASSUME NEW r \in Requests, CommitOptions(r)
      PROVE  Good
  <2>1. PICK on \in Placements(request[r].dates) :
             /\ Live' = Live \cup DOMAIN on
             /\ \A c \in DOMAIN on : bookings'[c].isOption = TRUE
             /\ \A c \in Live' \ DOMAIN on : bookings'[c] = bookings[c]
    BY <1>2, OptionsEffect
  <2> QED BY <2>1
<1>3. ASSUME NEW r \in Requests, CommitEdit(r)
      PROVE  Good
  BY <1>3, EditEffect
<1>4. ASSUME NEW r \in Requests, GroupEditCommit(r)
      PROVE  Good
  <2> DEFINE q      == request[r]
             edited == ({q.booking} \cup q.related) \ q.doomed
  <2>1. PICK on \in Placements(q.dates \ DatesOf(q.related)) :
             /\ edited \subseteq Live
             /\ Live' = (Live \ q.doomed) \cup DOMAIN on
             /\ \A c \in DOMAIN on : /\ bookings'[c].date = on[c]
                                     /\ bookings'[c].slot = q.slot
                                     /\ bookings'[c].type = q.checked
                                     /\ bookings'[c].isOption = TRUE
             /\ \A c \in edited : /\ bookings'[c].date = bookings[c].date
                                  /\ bookings'[c].slot = q.slot
                                  /\ bookings'[c].type = EditedType(q, c)
                                  /\ bookings'[c].isOption = bookings[c].isOption
             /\ \A c \in Live' \ (edited \cup DOMAIN on) : bookings'[c] = bookings[c]
    BY <1>4, GroupEffect, ZenonT(60)
  <2> HIDE DEF edited, q
  <2> QED BY <2>1
<1>5. ASSUME NEW c \in Bookings, FinalizeBooking(c)
      PROVE  Good
  <2>1. /\ c \in Live /\ Live' = Live /\ bookings'[c].date = bookings[c].date
        /\ \A e \in Live \ {c} : bookings'[e] = bookings[e]
    BY <1>5, FinalizeEffect
  <2>2. Rows' = Rows /\ \A x \in Rows : calendar[x] \in CalendarRow
    BY <1>5 DEF FinalizeBooking, Rows, CalendarType
  <2>3. bookings[c].date \in Rows => calendar'[bookings[c].date].status = "BOOKED"
    BY <1>5, <2>2 DEF FinalizeBooking, Rows, CalendarRow
  <2> QED BY <2>1, <2>2, <2>3
<1>6. ASSUME NEW D \in SUBSET Dates, ReleaseOptions(D)
      PROVE  Good
  BY <1>6 DEF ReleaseOptions, Live, Without
<1>7. ASSUME NEW x \in Dates, NEW s \in Slots, NEW t \in EventTypes,
             BookEventFinal(x, s, t)
      PROVE  Good
  <2>1. calendar'[x].status = "BOOKED"
    BY <1>7 DEF BookEventFinal, Rows
  <2>2. InsertOn(x, s, t, FALSE, NoGroup)
    BY <1>7 DEF BookEventFinal
  <2>3. PICK c : /\ Live' = Live \cup {c}
                 /\ bookings'[c].date = x /\ bookings'[c].slot = s
                 /\ bookings'[c].type = t /\ bookings'[c].isOption = FALSE
                 /\ \A e \in Live' \ {c} : bookings'[e] = bookings[e]
    BY <2>2 DEF InsertOn, Upsert, Live
  <2>4. CASE b = c
    BY <2>1, <2>3, <2>4
  <2>5. CASE b # c
    <3>1. b \in Live /\ bookings'[b] = bookings[b]
      BY <2>3, <2>5
    <3> QED BY <3>1
  <2> QED BY <2>4, <2>5
<1>8. ASSUME NEW x \in Dates, NEW s \in Slots, NEW t \in EventTypes,
             NEW g \in Groups, CreateOption(x, s, t, g)
      PROVE  Good
  <2>1. InsertOn(x, s, t, TRUE, g)
    BY <1>8 DEF CreateOption
  <2>2. PICK c : Live' = Live \cup {c} /\ bookings'[c].isOption = TRUE
                 /\ \A e \in Live' \ {c} : bookings'[e] = bookings[e]
    BY <2>1, OptionInsertEffect
  <2> QED BY <2>2
<1>9. CASE PurgeBookings
  BY <1>9 DEF PurgeBookings, Live, Without
<1> QED
  BY <1>0, <1>1, <1>2, <1>3, <1>4, <1>5, <1>6, <1>7, <1>8, <1>9, BookingWriters
     DEF BookingWrite

\* A new booking is put on a date that has a row, and rows go only from dates that are empty.
LEMMA RowsForBookings ==
    ASSUME IndInv, Next, BookingsHaveRows
    PROVE  BookingsHaveRows'
<1> USE DEF IndInv, TypeOK
<1>1. \A x \in Rows : x \in Rows' \/ BookingsOn(x)' = {}
  <2>1. CASE UNCHANGED calendar
    BY <2>1 DEF Rows
  <2>2. CASE PurgeDates
    BY <2>2 DEF PurgeDates, Without, Rows, BookingsOn, Live
  <2>3. CASE CalendarWrite /\ ~PurgeDates
    <3>1. \A rows : calendar' = Upsert(calendar, rows) => Rows \subseteq Rows'
      BY DEF Upsert, Rows
    <3>2. ASSUME NEW r \in Requests,
                 CommitConfirmed(r) \/ CommitOptions(r) \/ GroupEditCommit(r)
          PROVE  Rows \subseteq Rows'
      BY <3>1, <3>2, Zenon DEF CommitConfirmed, CommitOptions, GroupEditCommit
    <3>3. ASSUME NEW r \in Requests, \/ CommitEdit(r) \/ CommitConvert(r) \/ SyncWrite(r)
                                     \/ SetDeadline(r) \/ ReleaseDateWrite(r)
          PROVE  Rows \subseteq Rows'
      BY <3>3 DEF CommitEdit, CommitConvert, SyncWrite, SetDeadline, ReleaseDateWrite, Rows
    <3>4. CASE Atomic
      <4>1. ASSUME NEW x \in Dates, NEW s \in Slots, NEW t \in EventTypes,
                   BookEventFinal(x, s, t) \/ \E g \in Groups : CreateOption(x, s, t, g)
            PROVE  Rows \subseteq Rows'
        BY <4>1 DEF BookEventFinal, CreateOption, Rows
      <4>2. CASE \/ \E x \in Dates, e \in Employees : LockDateForChecking(x, e)
                 \/ \E D \in SUBSET Dates : SaveOptionHold(D)
        BY <3>1, <4>2, Zenon DEF LockDateForChecking, SaveOptionHold
      <4>3. CASE \/ \E b \in Bookings : FinalizeBooking(b)
                 \/ \E D \in SUBSET Dates : ReleaseOptions(D)
        BY <4>3 DEF FinalizeBooking, ReleaseOptions, Rows
      <4> QED BY <3>4, <4>1, <4>2, <4>3 DEF Atomic, Clients
    <3>5. CASE ArchiveCommit \/ \E x \in Dates : Lapse(x)
      BY <3>5 DEF ArchiveCommit, Lapse, Rows
    <3> QED BY <2>3, <3>2, <3>3, <3>4, <3>5 DEF CalendarWrite
  <2> QED BY <2>1, <2>2, <2>3, CalendarWriters
<1>2. ASSUME NEW b \in Live', b \notin Live PROVE bookings'[b].date \in Rows'
  <2>1. ASSUME NEW r \in Requests, CommitConfirmed(r)
        PROVE  bookings'[b].date \in Rows'
    <3>1. request[r].date \in Rows'
      BY <2>1 DEF CommitConfirmed, Upsert, Rows
    <3>2. PICK c : Live' \subseteq Live \cup {c} /\ bookings'[c].date = request[r].date
      BY <2>1, ConfirmedEffect
    <3> QED BY <1>2, <3>1, <3>2
  <2>2. ASSUME NEW r \in Requests, CommitOptions(r)
        PROVE  bookings'[b].date \in Rows'
    <3>1. request[r].dates \subseteq Rows'
      BY <2>2 DEF CommitOptions, Upsert, Rows
    <3>2. PICK on \in Placements(request[r].dates) :
             /\ Live' = Live \cup DOMAIN on
             /\ \A c \in DOMAIN on : bookings'[c].date = on[c]
      BY <2>2, OptionsEffect
    <3>3. b \in DOMAIN on /\ on[b] \in request[r].dates
      BY <1>2, <3>2 DEF Placements
    <3> QED BY <3>1, <3>2, <3>3
  <2>3. ASSUME NEW r \in Requests, GroupEditCommit(r)
        PROVE  bookings'[b].date \in Rows'
    <3> DEFINE fresh == request[r].dates \ DatesOf(request[r].related)
    <3>1. fresh \subseteq Rows'
      BY <2>3 DEF GroupEditCommit, Upsert, Rows
    <3>2. PICK on \in Placements(fresh) :
             /\ Live' = (Live \ request[r].doomed) \cup DOMAIN on
             /\ \A c \in DOMAIN on : bookings'[c].date = on[c]
      BY <2>3, GroupEffect, ZenonT(60)
    <3> HIDE DEF fresh
    <3>3. b \in DOMAIN on /\ on[b] \in fresh
      BY <1>2, <3>2 DEF Placements
    <3> QED BY <3>1, <3>2, <3>3
  <2>4. ASSUME NEW x \in Dates, NEW s \in Slots, NEW t \in EventTypes,
               BookEventFinal(x, s, t) \/ \E g \in Groups : CreateOption(x, s, t, g)
        PROVE  bookings'[b].date \in Rows'
    <3>1. x \in Rows'
      BY <2>4 DEF BookEventFinal, CreateOption, Rows
    <3>2. \E option, g : InsertOn(x, s, t, option, g)
      BY <2>4 DEF BookEventFinal, CreateOption
    <3>3. PICK c : Live' = Live \cup {c} /\ bookings'[c].date = x
      BY <3>2, InsertEffect
    <3> QED BY <1>2, <3>1, <3>3
  <2>5. ASSUME NEW r \in Requests, CommitEdit(r) \/ CommitConvert(r)
        PROVE  FALSE
    BY <1>2, <2>5, EditEffect, ConvertEffect
  <2>6. CASE \/ \E c \in Bookings : FinalizeBooking(c)
             \/ \E D \in SUBSET Dates : ReleaseOptions(D)
             \/ PurgeBookings \/ UNCHANGED <<bookings, issued>>
    BY <1>2, <2>6, FinalizeEffect DEF ReleaseOptions, PurgeBookings, Without, Live
  <2> QED BY <2>1, <2>2, <2>3, <2>4, <2>5, <2>6, BookingWriters DEF BookingWrite
<1>3. ASSUME NEW b \in Live', b \in Live PROVE bookings'[b].date \in Rows'
  <2>1. bookings'[b].date = bookings[b].date /\ bookings[b].date \in Rows
    BY <1>3, RowsContinue DEF BookingsHaveRows
  <2> QED BY <1>1, <2>1 DEF BookingsOn
<1> QED BY <1>2, <1>3 DEF BookingsHaveRows

\* What a job that is about to write knows of its rows: the bookings it deletes are past
\* retention, and the dates it archives are over.
JobKnows ==
    /\ job.pc = "purge" => \A b \in job.ids :
          b \in issued /\ (b \in Live => IsPastRetention(bookings[b].date))
    /\ job.pc = "archiveCommit" => \A d \in job.dates : IsOver(d)

\* A date that is locked for checking is locked by somebody.
LockNamesEmployee ==
    \A d \in Rows : calendar[d].status = "CHECKING" => calendar[d].lockedBy # NoOne

CalendarInv ==
    /\ IndInv /\ JobKnows /\ LockNamesEmployee
    /\ BookingsHaveRows /\ ArchivedArePast

\* The clock goes on by a day or stands; the job's own steps leave it alone.
LEMMA ClockMoves ==
    ASSUME TypeOK, Next
    PROVE  /\ today \in Nat /\ today' \in {today, today + 1}
           /\ job' = job \/ job' = IdleJob \/ (JobStep /\ today' = today)
<1> USE DEF TypeOK
<1>0. today \in Nat
  BY CalendarAssumption
<1>1. ASSUME NEW r \in Requests, Arrive(r) PROVE today' = today /\ job' = job
  BY <1>1, Zenon DEF Arrive, ReadForConfirmed, ReadForOptions, ReadForEdit, ReadForConvert, SyncRead,
     ReleaseDateRead
<1>2. ASSUME NEW r \in Requests, Advance(r) \/ Reject(r) PROVE today' = today /\ job' = job
  BY <1>2, Zenon DEF Advance, Reject, DeleteForOverride, CommitConfirmed, LockForOptions, CommitOptions,
     CommitEdit, GroupEditLock, GroupEditCommit, LockForConvert, CommitConvert, SyncWrite, SetDeadline,
     ReleaseDateWrite
<1>3. CASE Atomic
  BY <1>0, <1>3, Zenon DEF Atomic, FinalizeBooking, ReleaseOptions, SaveOptionHold, BookEventFinal, CreateOption,
     LockDateForChecking
<1>4. CASE JobStep
  <2>1. today' = today
    BY <1>4, Zenon DEF JobStep, PurgeScan, PurgeBookings, PurgeScanDates, PurgeDates, ArchiveScan, ArchiveCommit
  <2> QED BY <1>0, <1>4, <2>1
<1>5. CASE JobAbort \/ AdvanceDay \/ \E d \in Dates : Lapse(d)
  BY <1>0, <1>5 DEF JobAbort, AdvanceDay, Lapse
<1> QED BY <1>0, <1>1, <1>2, <1>3, <1>4, <1>5, StepCases

\* What is over stays over.
LEMMA OverStays ==
    ASSUME TypeOK, Next, NEW d \in Dates
    PROVE  (IsOver(d) => IsOver(d)') /\ (IsPastRetention(d) => IsPastRetention(d)')
<1>1. today \in Nat /\ today' \in {today, today + 1} /\ DayOf[d] \in Nat /\ RetentionDays \in Nat
  BY ClockMoves, CalendarAssumption
<1> QED BY <1>1 DEF IsOver, IsPastRetention

\* What the job selected stays as it knows it: ids are not given out again, bookings keep
\* their dates, and the clock does not go back.
LEMMA JobKnowsStep ==
    ASSUME IndInv, JobKnows, Next
    PROVE  JobKnows'
<1> USE DEF IndInv, TypeOK
<1>1. CASE job' = job
  <2>1. ASSUME job.pc = "purge", NEW b \in job.ids
        PROVE  b \in issued' /\ (b \in Live' => IsPastRetention(bookings[b].date)' )
    <3>1. b \in issued /\ (b \in Live => IsPastRetention(bookings[b].date))
      BY <2>1 DEF JobKnows
    <3>2. b \in issued' /\ (b \in Live' => b \in Live /\ bookings'[b].date = bookings[b].date)
      BY <3>1, RowsContinue
    <3>3. b \in Live => bookings[b].date \in Dates
      BY DEF BookingsType, BookingRow
    <3>4. b \in Live => IsPastRetention(bookings[b].date) /\ \A d \in Dates : IsPastRetention(d) => IsPastRetention(d)'
      BY <3>1, OverStays
    <3> QED BY <3>2, <3>3, <3>4 DEF IsPastRetention
  <2>2. ASSUME job.pc = "archiveCommit", NEW d \in job.dates PROVE IsOver(d)'
    <3>1. d \in Dates /\ IsOver(d)
      BY <2>2 DEF JobKnows, JobState
    <3> QED BY <3>1, OverStays
  <2> QED BY <1>1, <2>1, <2>2 DEF JobKnows
<1>2. CASE job' = IdleJob
  BY <1>2 DEF JobKnows, IdleJob
<1>3. CASE JobStep /\ today' = today
  <2>1. CASE PurgeScan
    <3> DEFINE old == {b \in Live : Expired(bookings[b].date)}
    <3>1. /\ job'.pc \in {"purge", "archive"} /\ job'.ids = old
          /\ bookings' = bookings /\ issued' = issued /\ today' = today
      BY <2>1 DEF PurgeScan
    <3>2. \A b \in old : b \in issued /\ IsPastRetention(bookings[b].date)
      BY DEF BookingsType, Expired, IsPastRetention
    <3> QED BY <3>1, <3>2 DEF JobKnows, IsPastRetention, Live
  <2>2. CASE ArchiveScan
    <3>1. /\ job'.pc \in {"idle", "archiveCommit"} /\ \A d \in job'.dates : Past(d)
          /\ today' = today
      BY <2>2 DEF ArchiveScan, IdleJob
    <3> QED BY <3>1 DEF JobKnows, IsOver, Past
  <2>3. CASE PurgeBookings \/ PurgeScanDates \/ PurgeDates \/ ArchiveCommit
    <3>1. job \in JobState
      OBVIOUS
    <3>2. job'.pc \notin {"purge", "archiveCommit"}
      <4>1. CASE PurgeBookings
        BY <3>1, <4>1 DEF PurgeBookings, JobState
      <4>2. CASE PurgeScanDates
        BY <3>1, <4>2 DEF PurgeScanDates, JobState
      <4>3. CASE PurgeDates
        BY <3>1, <4>3 DEF PurgeDates, IdleJob
      <4>4. CASE ArchiveCommit
        BY <4>4 DEF ArchiveCommit, IdleJob
      <4> QED BY <2>3, <4>1, <4>2, <4>3, <4>4
    <3> QED BY <3>2 DEF JobKnows
  <2> QED BY <1>3, <2>1, <2>2, <2>3 DEF JobStep
<1> QED BY <1>1, <1>2, <1>3, ClockMoves

\* The only action that locks a date writes the employee who locked it.
LEMMA LockNamesEmployeeStep ==
    ASSUME IndInv, LockNamesEmployee, Next
    PROVE  LockNamesEmployee'
<1> SUFFICES ASSUME NEW d \in Rows', calendar'[d].status = "CHECKING"
             PROVE  calendar'[d].lockedBy # NoOne
  BY DEF LockNamesEmployee
<1>1. RowWritten(d)
  BY RowsWritten DEF IndInv
<1>2. CASE RowKept(d)
  BY <1>2 DEF RowKept, LockNamesEmployee
<1>3. ASSUME NEW e \in Employees, LockDateForChecking(d, e)
      PROVE  calendar'[d].lockedBy # NoOne
  <2>1. calendar'[d].lockedBy = e
    BY <1>3 DEF LockDateForChecking, Upsert
  <2> QED BY <2>1, CalendarAssumption
<1> QED BY <1>1, <1>2, <1>3 DEF RowWritten, RowOpened

\* Archiving writes dates that were over when they were read, and they stay over.
LEMMA ArchivedArePastStep ==
    ASSUME IndInv, JobKnows, ArchivedArePast, Next
    PROVE  ArchivedArePast'
<1> SUFFICES ASSUME NEW d \in Rows', calendar'[d].status = "ARCHIVED"
             PROVE  IsOver(d)'
  BY DEF ArchivedArePast
<1>1. RowWritten(d)
  BY RowsWritten DEF IndInv
<1>2. CASE RowKept(d)
  <2>1. IsOver(d) /\ d \in Dates
    BY <1>2 DEF RowKept, ArchivedArePast, IndInv, TypeOK, CalendarType
  <2> QED BY <2>1, OverStays DEF IndInv
<1>3. ASSUME NEW e \in Employees, LockDateForChecking(d, e)
      PROVE  FALSE
  BY <1>3 DEF LockDateForChecking, Upsert
<1>4. CASE ArchiveCommit /\ d \in job.dates
  <2>1. IsOver(d) /\ today' = today
    BY <1>4 DEF ArchiveCommit, JobKnows
  <2> QED BY <2>1 DEF IsOver
<1> QED BY <1>1, <1>2, <1>3, <1>4 DEF RowWritten, RowOpened

\* The strengthened invariant holds in the empty office.
LEMMA CalendarInvInit == Init => CalendarInv
<1> SUFFICES ASSUME Init PROVE CalendarInv
  OBVIOUS
<1>1. IndInv
  BY IndInvInit
<1>2. Rows = {} /\ Live = {} /\ job.pc = "idle" /\ \A r \in Requests : request[r].pc = "idle"
  BY DEF Init, Rows, Live, IdleJob, Idle
<1> QED BY <1>1, <1>2 DEF CalendarInv, JobKnows, LockNamesEmployee, BookingsHaveRows, ArchivedArePast

\* Every step keeps the strengthened invariant.
LEMMA CalendarInvStep == CalendarInv /\ [Next]_vars => CalendarInv'
<1> SUFFICES ASSUME CalendarInv, [Next]_vars PROVE CalendarInv'
  OBVIOUS
<1>1. IndInv'
  BY IndInvStep DEF CalendarInv
<1>2. CASE Next
  BY <1>1, <1>2, JobKnowsStep, LockNamesEmployeeStep, ArchivedArePastStep, RowsForBookings
     DEF CalendarInv
<1>3. CASE UNCHANGED vars
  BY <1>1, <1>3 DEF vars, CalendarInv, JobKnows, LockNamesEmployee, BookingsHaveRows,
     ArchivedArePast, Rows, Live, IsOver, IsPastRetention
<1> QED BY <1>2, <1>3

\* The strengthened invariant holds throughout.
LEMMA CalendarInvHolds == Spec => []CalendarInv
  BY CalendarInvInit, CalendarInvStep, PTL DEF Spec

\* The table of dates agrees with that of bookings and with the clock, whatever requests,
\* employees and the nightly job do on reads of their own: a booking always has its
\* calendar row, although the retention job deletes rows that it counted empty a moment
\* earlier, and only dates that are over are archived, although the archive job names them
\* on an earlier read.
THEOREM CalendarAlwaysAgrees == Spec => []CalendarAgrees
<1>1. CalendarInv => CalendarAgrees
  BY DEF CalendarInv, CalendarAgrees
<1> QED BY <1>1, CalendarInvHolds, PTL

\* The status of the date of a conversion says that it is booked, unless other options
\* stay there.
LEMMA ConvertedDate ==
    ASSUME IndInv, NEW r \in Requests, CommitConvert(r),
           NEW d \in Rows, d = request[r].date, calendar'[d].status = "CHECKING"
    PROVE  ConvertedBeside(d)
<1> DEFINE q == request[r]
<1>1. calendar[d] \in CalendarRow
  BY DEF IndInv, TypeOK, CalendarType
<1>2. q.pc = "convertCommit" /\ request'[r].pc = "idle"
  BY DEF CommitConvert, Answer, Wait, Idle, IndInv, TypeOK, RequestType
<1>3. calendar'[d] = IF d \in q.empties THEN FreedRow(calendar[d])
                     ELSE IF q.option THEN Synced(calendar[d], TRUE, TRUE)
                     ELSE [calendar[d] EXCEPT !.status = "BOOKED", !.expiry = "none"]
  BY DEF CommitConvert
<1>4. FreedRow(calendar[d]).status = "AVAILABLE"
  BY <1>1 DEF FreedRow, Released, CalendarRow
<1>5. [calendar[d] EXCEPT !.status = "BOOKED", !.expiry = "none"].status = "BOOKED"
  BY <1>1 DEF CalendarRow
<1>6. q.option
  BY <1>3, <1>4, <1>5
<1> QED BY <1>2, <1>6 DEF ConvertedBeside

\* No step of any request, job or employee hands a date that somebody is checking to
\* somebody else before the lock lapses or is released; and no step puts an event on a
\* date that is being checked, or locks a date with an event, except a conversion that
\* leaves other options on its date.
THEOREM CheckingStaysExclusive == Spec => CheckingIsExclusive
<1>1. ASSUME CalendarInv, Next, NEW d \in DOMAIN calendar',
             calendar'[d].status = "CHECKING",
             d \in Rows, calendar[d].status = "CHECKING", calendar[d].expiry = "live"
      PROVE  calendar'[d].lockedBy = calendar[d].lockedBy
  <2>1. RowWritten(d)
    BY <1>1, RowsWritten DEF CalendarInv, IndInv, Rows
  <2>2. ASSUME NEW e \in Employees, LockDateForChecking(d, e)
        PROVE  calendar'[d].lockedBy = calendar[d].lockedBy
    <3>1. calendar'[d].lockedBy = e /\ ~HeldByOther(d, e)
      BY <2>2 DEF LockDateForChecking, Upsert
    <3>2. calendar[d].lockedBy # NoOne
      BY <1>1 DEF CalendarInv, LockNamesEmployee
    <3> QED BY <1>1, <3>1, <3>2 DEF HeldByOther, RowOf
  <2> QED BY <1>1, <2>1, <2>2 DEF RowWritten, RowKept, RowOpened
<1>2. ASSUME CalendarInv, Next, NEW d \in DOMAIN calendar',
             calendar'[d].status = "CHECKING", NEW b \in ConfirmedOn(d)'
      PROVE  \/ d \in Rows /\ calendar[d].status = "CHECKING" /\ ConfirmedOn(d) # {}
             \/ ConvertedBeside(d)
  <2> USE DEF CalendarInv
  <2>0. b \in Live' /\ ~bookings'[b].isOption /\ bookings'[b].date = d /\ d \in Rows'
    BY <1>2 DEF ConfirmedOn, OptionsOn, BookingsOn, Rows
  <2>1. RowWritten(d)
    BY <1>2, <2>0, RowsWritten DEF IndInv
  <2>2. ASSUME NEW e \in Employees, LockDateForChecking(d, e)
        PROVE  FALSE
    BY <2>0, <2>2 DEF LockDateForChecking, ConfirmedOn, OptionsOn, BookingsOn, Live
  <2>3. d \in Rows /\ calendar[d].status = "CHECKING"
    BY <1>2, <2>1, <2>2 DEF RowWritten, RowKept, RowOpened
  <2>4. ASSUME ConfirmedOn(d) = {}
        PROVE  ConvertedBeside(d)
    <3>1. ~(b \in Live /\ ~bookings[b].isOption /\ bookings[b].date = d)
      BY <2>4 DEF ConfirmedOn, OptionsOn, BookingsOn
    <3>2. PICK r \in Requests : CommitConvert(r)
      BY <1>2, <2>0, <3>1, ConfirmedIsBooked
    <3>3. /\ Live' \subseteq Live
          /\ \A c \in Live' \ {request[r].booking} : bookings'[c] = bookings[c]
          /\ request[r].booking \in Live' =>
                bookings'[request[r].booking].date = bookings[request[r].booking].date
      BY <1>2, <3>2, ConvertEffect
    <3>4. b = request[r].booking
      BY <2>0, <3>1, <3>3
    <3>5. d = request[r].date
      BY <1>2, <2>0, <3>2, <3>3, <3>4 DEF CommitConvert, IndInv, EditKnowsDate
    <3> QED BY <1>2, <2>3, <2>4, <3>2, <3>5, ConvertedDate
  <2> QED BY <2>3, <2>4
<1>3. CalendarInv /\ [Next]_vars =>
        [\A d \in DOMAIN calendar' : calendar'[d].status = "CHECKING" =>
            /\ d \in Rows /\ calendar[d].status = "CHECKING" /\ calendar[d].expiry = "live"
               => calendar'[d].lockedBy = calendar[d].lockedBy
            /\ ConfirmedOn(d)' # {}
               => \/ d \in Rows /\ calendar[d].status = "CHECKING" /\ ConfirmedOn(d) # {}
                  \/ ConvertedBeside(d)]_vars
  BY <1>1, <1>2
<1> QED BY <1>3, CalendarInvHolds, PTL DEF Spec, CheckingIsExclusive

\* The nightly job deletes bookings past retention only, although it deletes by ids that
\* it selected earlier: an id is never given out again, and no booking moves to another date.
THEOREM JobDeletesExpired == Spec => JobDeletesOnlyExpired
<1>1. ASSUME CalendarInv, Next, JobStep, NEW b \in Live \ Live'
      PROVE  IsPastRetention(bookings[b].date)
  <2>1. PurgeBookings /\ b \in job.ids
    BY <1>1 DEF JobStep, PurgeScan, PurgeBookings, PurgeScanDates, PurgeDates, ArchiveScan, ArchiveCommit,
       Without, Live
  <2> QED BY <1>1, <2>1 DEF CalendarInv, JobKnows, PurgeBookings
<1>2. CalendarInv /\ [Next]_vars =>
        [JobStep => \A b \in Live \ Live' : IsPastRetention(bookings[b].date)]_vars
  BY <1>1
<1> QED BY <1>2, CalendarInvHolds, PTL DEF Spec, JobDeletesOnlyExpired

------------------------------------------------------------------------------
(* The rules of the day *)

\* The type an edit or a conversion gives is the one its day was checked for; and one that
\* is about to commit found its slot and its day within the rules.
RequestChecked ==
    \A r \in Requests :
        LET q == request[r] IN
        /\ q.pc \in {"edit", "groupCommit", "convert", "convertCommit"} =>
              (q.type # KeptType => q.checked = q.type)
        /\ q.pc \in {"groupCommit", "convertCommit"} /\ q.slot # KeptSlot =>
              /\ q.slot \notin BlockedSlots(WeekdayOf[q.date])
              /\ q.date \notin ForbiddenDates[q.checked]

RulesInv == IndInv /\ RequestChecked

\* A slot that is available on a date is one the rules of the day permit.
LEMMA AvailableIsPermitted ==
    ASSUME NEW d, NEW slot, NEW type, NEW B, NEW option,
           SlotAvailable(d, slot, type, B, option)
    PROVE  /\ slot \notin BlockedSlots(WeekdayOf[d])
           /\ d \notin ForbiddenDates[type]
           /\ option => WeekdayOf[d] # "saturday"
  BY DEF SlotAvailable, BookableSlots

\* An edit is checked under the row lock before it goes on to its commit.
LEMMA RequestCheckedStep ==
    ASSUME IndInv, RequestChecked, Next
    PROVE  RequestChecked'
<1>0. TypeOK
  BY DEF IndInv
<1>1. ASSUME NEW r \in Requests, Arrive(r)
      PROVE  RequestChecked'
  <2>1. /\ \A s \in Requests \ {r} : request'[s] = request[s]
        /\ request'[r].pc \notin {"groupCommit", "convertCommit"}
        /\ request'[r].pc \in {"edit", "convert"} =>
              (request'[r].type # KeptType => request'[r].checked = request'[r].type)
    BY <1>0, <1>1, Arrival
  <2> QED BY <2>1 DEF RequestChecked
<1>2. ASSUME NEW r \in Requests, Advance(r) \/ Reject(r)
      PROVE  RequestChecked'
  <2> DEFINE q == request[r]
             n == request'[r]
  <2>1. \A s \in Requests \ {r} : request'[s] = request[s]
    BY <1>0, <1>2, Progress
  <2>2. CASE n.pc \notin {"edit", "groupCommit", "convert", "convertCommit"}
    BY <2>1, <2>2 DEF RequestChecked
  <2>3. CASE n.pc \in {"edit", "groupCommit", "convert", "convertCommit"}
    <3>1. /\ GroupEditLock(r) \/ LockForConvert(r)
          /\ n.date = q.date /\ n.slot = q.slot
          /\ n.type = q.type /\ n.checked = q.checked
      BY <1>0, <1>2, <2>3, Progress DEF Idle
    <3>2. q.pc \in {"edit", "convert"} /\ EditAllowed(q)
      BY <3>1 DEF GroupEditLock, LockForConvert
    <3>3. q.slot # KeptSlot => \E B : SlotAvailable(q.date, q.slot, q.checked, B, FALSE)
      BY <3>2 DEF EditAllowed
    <3>4. q.slot # KeptSlot => /\ q.slot \notin BlockedSlots(WeekdayOf[q.date])
                               /\ q.date \notin ForbiddenDates[q.checked]
      <4> HIDE DEF q
      <4> QED BY <3>3, AvailableIsPermitted
    <3> QED BY <2>1, <3>1, <3>2, <3>4 DEF RequestChecked
  <2> QED BY <2>2, <2>3
<1>3. CASE UNCHANGED request
  BY <1>3 DEF RequestChecked
<1> QED BY <1>1, <1>2, <1>3, RequestWriters

\* What RulesKept says of one booking of the next state.
KeepsRules(b) ==
    /\ SlotBlocked(bookings'[b])
       => (b \in Live /\ SlotBlocked(bookings[b])) \/ MovedAlong(b)
    /\ DayForbidden(bookings'[b])
       => \/ b \in Live /\ DayForbidden(bookings[b])
          \/ MovedAlong(b) \/ Retyped(b)

\* A new row that passed the check of its day keeps the rules.
LEMMA CheckedKeepsRules ==
    ASSUME NEW b,
           bookings'[b].slot \notin BlockedSlots(WeekdayOf[bookings'[b].date]),
           bookings'[b].date \notin ForbiddenDates[bookings'[b].type],
           bookings'[b].isOption => WeekdayOf[bookings'[b].date] # "saturday"
    PROVE  KeepsRules(b)
  BY DEF KeepsRules, SlotBlocked, DayForbidden

\* A row that stays on its date, in its slot and of its type, and becomes no option, keeps
\* the rules it kept.
LEMMA SameKeepsRules ==
    ASSUME NEW b \in Live,
           bookings'[b].date = bookings[b].date, bookings'[b].slot = bookings[b].slot,
           bookings'[b].type = bookings[b].type,
           bookings'[b].isOption => bookings[b].isOption
    PROVE  KeepsRules(b)
  BY DEF KeepsRules, SlotBlocked, DayForbidden

\* The row an edit or a conversion is about.  With a slot given, slot and day were checked
\* for the type it gives, or for the one it read, in which case the type stays what it is.
LEMMA EditedKeepsRules ==
    ASSUME IndInv, NEW r \in Requests, NEW b \in Live, b = request[r].booking,
           request[r].pc \in {"edit", "groupCommit", "convertCommit"},
           request'[r].pc = "idle",
           bookings'[b].date = bookings[b].date,
           bookings'[b].slot = EditedSlot(request[r]),
           bookings'[b].type = EditedType(request[r], b),
           bookings'[b].isOption => bookings[b].isOption,
           request[r].pc = "groupCommit" => request[r].slot # KeptSlot,
           request[r].type # KeptType => request[r].checked = request[r].type,
           request[r].slot # KeptSlot =>
               /\ request[r].slot \notin BlockedSlots(WeekdayOf[request[r].date])
               /\ request[r].date \notin ForbiddenDates[request[r].checked]
    PROVE  KeepsRules(b)
<1> DEFINE q == request[r]
<1>1. bookings[b].date = q.date
  BY DEF IndInv, EditKnowsDate
<1>2. SlotBlocked(bookings'[b]) => SlotBlocked(bookings[b])
  BY <1>1 DEF SlotBlocked, EditedSlot
<1>3. CASE q.type = KeptType
  <2>1. bookings'[b].type = bookings[b].type
    BY <1>3 DEF EditedType
  <2>2. DayForbidden(bookings'[b]) => DayForbidden(bookings[b])
    BY <2>1 DEF DayForbidden
  <2> QED BY <1>2, <2>2 DEF KeepsRules
<1>4. CASE q.type # KeptType /\ q.slot # KeptSlot
  <2>1. bookings'[b].type = q.checked
    BY <1>4 DEF EditedType
  <2>2. bookings'[b].date \notin ForbiddenDates[bookings'[b].type]
    BY <1>1, <1>4, <2>1
  <2>3. DayForbidden(bookings'[b]) => DayForbidden(bookings[b])
    BY <2>2 DEF DayForbidden
  <2> QED BY <1>2, <2>3 DEF KeepsRules
<1>5. CASE q.type # KeptType /\ q.slot = KeptSlot
  <2>1. Retyped(b)
    BY <1>5 DEF Retyped
  <2> QED BY <1>2, <2>1 DEF KeepsRules
<1> QED BY <1>3, <1>4, <1>5

\* A transaction that answers leaves an idle handler.
LEMMA AnsweredIsIdle ==
    ASSUME TypeOK, NEW r \in Requests, Answer(r)
    PROVE  request'[r].pc = "idle"
  BY DEF TypeOK, RequestType, Answer, Wait, Idle

\* A row that is new or changed passed the check of its day, or keeps what it had, or is
\* stored unchecked in one of the two ways that are named.
LEMMA RulesKeptStep ==
    ASSUME RulesInv, Next, NEW b \in Live'
    PROVE  KeepsRules(b)
<1> USE DEF RulesInv
<1>0. TypeOK
  BY DEF IndInv
<1>b. b \in Live /\ bookings'[b] = bookings[b] => KeepsRules(b)
  BY SameKeepsRules
<1>1. ASSUME NEW r \in Requests, CommitConfirmed(r)
      PROVE  KeepsRules(b)
  <2> DEFINE q == request[r]
  <2>1. PICK c : /\ Live' = (Live \ q.doomed) \cup {c}
                 /\ bookings'[c].date = q.date
                 /\ bookings'[c].slot = q.slot
                 /\ bookings'[c].type = q.checked
                 /\ bookings'[c].isOption = FALSE
                 /\ \A x \in Live' \ {c} : bookings'[x] = bookings[x]
    BY <1>1, ConfirmedEffect
  <2>2. \E B : SlotAvailable(q.date, q.slot, q.checked, B, FALSE)
    BY <1>1 DEF CommitConfirmed
  <2>3. KeepsRules(c)
    <3> HIDE DEF q
    <3>1. /\ q.slot \notin BlockedSlots(WeekdayOf[q.date])
          /\ q.date \notin ForbiddenDates[q.checked]
      BY <2>2, AvailableIsPermitted
    <3> QED BY <2>1, <3>1, CheckedKeepsRules
  <2> QED BY <1>b, <2>1, <2>3
<1>2. ASSUME NEW r \in Requests, CommitOptions(r)
      PROVE  KeepsRules(b)
  <2> DEFINE q == request[r]
  <2>1. PICK on \in Placements(q.dates) :
             /\ Live' = Live \cup DOMAIN on
             /\ \A c \in DOMAIN on : /\ bookings'[c].date = on[c]
                                     /\ bookings'[c].slot = q.slot
                                     /\ bookings'[c].type = q.checked
             /\ \A c \in Live' \ DOMAIN on : bookings'[c] = bookings[c]
    BY <1>2, OptionsEffect
  <2>2. CASE b \in DOMAIN on
    <3>1. on[b] \in q.dates
      BY <2>2 DEF Placements
    <3>2. SlotAvailable(on[b], q.slot, q.checked, BookingsOn(on[b]), TRUE)
      BY <1>2, <3>1 DEF CommitOptions
    <3>3. /\ q.slot \notin BlockedSlots(WeekdayOf[on[b]])
          /\ on[b] \notin ForbiddenDates[q.checked]
          /\ WeekdayOf[on[b]] # "saturday"
      BY <3>2 DEF SlotAvailable, BookableSlots
    <3> HIDE DEF q
    <3> QED BY <2>1, <2>2, <3>3, CheckedKeepsRules
  <2> QED BY <1>b, <2>1, <2>2
<1>3. ASSUME NEW r \in Requests, CommitEdit(r)
      PROVE  KeepsRules(b)
  <2> DEFINE q == request[r]
             e == q.booking
  <2>1. /\ e \in Live /\ Live' = Live
        /\ bookings'[e].date = bookings[e].date
        /\ bookings'[e].isOption = bookings[e].isOption
        /\ bookings'[e].slot = EditedSlot(q)
        /\ bookings'[e].type = EditedType(q, e)
        /\ \A c \in Live \ {e} : bookings'[c] = bookings[c]
    BY <1>3, EditEffect
  <2>2. q.pc = "edit" /\ EditAllowed(q) /\ request'[r].pc = "idle"
    BY <1>0, <1>3, AnsweredIsIdle DEF CommitEdit
  <2>3. q.slot # KeptSlot => \E B : SlotAvailable(q.date, q.slot, q.checked, B, FALSE)
    BY <2>2 DEF EditAllowed
  <2>4. q.slot # KeptSlot => /\ q.slot \notin BlockedSlots(WeekdayOf[q.date])
                             /\ q.date \notin ForbiddenDates[q.checked]
    <3> HIDE DEF q
    <3> QED BY <2>3, AvailableIsPermitted
  <2>5. q.type # KeptType => q.checked = q.type
    BY <2>2 DEF RequestChecked
  <2>6. KeepsRules(e)
    BY <2>1, <2>2, <2>4, <2>5, EditedKeepsRules
  <2> QED BY <1>b, <2>1, <2>6
<1>4. ASSUME NEW r \in Requests, GroupEditCommit(r)
      PROVE  KeepsRules(b)
  <2> DEFINE q      == request[r]
             edited == ({q.booking} \cup q.related) \ q.doomed
             fresh  == q.dates \ DatesOf(q.related)
  <2>1. PICK on \in Placements(fresh) :
             /\ q.booking \in Live /\ edited \subseteq Live
             /\ Live' = (Live \ q.doomed) \cup DOMAIN on
             /\ \A c \in DOMAIN on : /\ bookings'[c].date = on[c]
                                     /\ bookings'[c].slot = q.slot
                                     /\ bookings'[c].type = q.checked
                                     /\ bookings'[c].isOption = TRUE
             /\ \A c \in edited : /\ bookings'[c].date = bookings[c].date
                                  /\ bookings'[c].slot = q.slot
                                  /\ bookings'[c].type = EditedType(q, c)
                                  /\ bookings'[c].isOption = bookings[c].isOption
             /\ \A c \in Live' \ (edited \cup DOMAIN on) : bookings'[c] = bookings[c]
    BY <1>4, GroupEffect, ZenonT(60)
  <2>2. q.pc = "groupCommit" /\ request'[r].pc = "idle" /\ q.slot \in Slots
    BY <1>0, <1>4, AnsweredIsIdle DEF GroupEditCommit, TypeOK, RequestType, WellFormed
  <2>3. q.slot # KeptSlot
    BY <2>2 DEF Slots, KeptSlot
  <2>4. CASE b \in DOMAIN on
    <3>1. on[b] \in fresh
      <4> HIDE DEF fresh
      <4> QED BY <2>4 DEF Placements
    <3>2. SlotAvailable(on[b], q.slot, q.checked, BookingsOn(on[b]), TRUE)
      BY <1>4, <3>1 DEF GroupEditCommit
    <3>3. /\ q.slot \notin BlockedSlots(WeekdayOf[on[b]])
          /\ on[b] \notin ForbiddenDates[q.checked]
          /\ WeekdayOf[on[b]] # "saturday"
      BY <3>2 DEF SlotAvailable, BookableSlots
    <3> HIDE DEF q
    <3> QED BY <2>1, <2>4, <3>3, CheckedKeepsRules
  <2>5. CASE b \in edited /\ b = q.booking
    <3>1. /\ bookings'[b].date = bookings[b].date
          /\ bookings'[b].slot = EditedSlot(q)
          /\ bookings'[b].type = EditedType(q, b)
          /\ bookings'[b].isOption = bookings[b].isOption
      BY <2>1, <2>3, <2>5 DEF EditedSlot
    <3>2. /\ q.slot \notin BlockedSlots(WeekdayOf[q.date])
          /\ q.date \notin ForbiddenDates[q.checked]
          /\ q.type # KeptType => q.checked = q.type
      BY <2>2, <2>3 DEF RequestChecked
    <3> QED BY <2>1, <2>2, <2>3, <2>5, <3>1, <3>2, EditedKeepsRules
  <2>6. CASE b \in edited /\ b # q.booking
    <3>1. MovedAlong(b)
      BY <2>2, <2>6 DEF MovedAlong
    <3> QED BY <3>1 DEF KeepsRules
  <2>7. CASE b \notin edited \cup DOMAIN on
    <3>1. bookings'[b] = bookings[b] /\ b \in Live
      BY <2>1, <2>7
    <3> QED BY <1>b, <3>1
  <2> QED BY <2>4, <2>5, <2>6, <2>7
<1>5. ASSUME NEW r \in Requests, CommitConvert(r)
      PROVE  KeepsRules(b)
  <2> DEFINE q == request[r]
             e == q.booking
  <2>1. /\ Live' \subseteq Live
        /\ e \in Live' => /\ bookings'[e].date = bookings[e].date
                          /\ bookings'[e].isOption = FALSE
                          /\ bookings'[e].slot = EditedSlot(q)
                          /\ bookings'[e].type = EditedType(q, e)
        /\ \A c \in Live' \ {e} : bookings'[c] = bookings[c]
    BY <1>5, ConvertEffect
  <2>2. q.pc = "convertCommit" /\ request'[r].pc = "idle"
    BY <1>0, <1>5, AnsweredIsIdle DEF CommitConvert
  <2>3. /\ q.slot # KeptSlot => /\ q.slot \notin BlockedSlots(WeekdayOf[q.date])
                                /\ q.date \notin ForbiddenDates[q.checked]
        /\ q.type # KeptType => q.checked = q.type
    BY <2>2 DEF RequestChecked
  <2>4. CASE b # e
    BY <1>b, <2>1, <2>4
  <2>5. CASE b = e
    BY <2>1, <2>2, <2>3, <2>5, EditedKeepsRules
  <2> QED BY <2>4, <2>5
<1>6. ASSUME NEW c \in Bookings, FinalizeBooking(c)
      PROVE  KeepsRules(b)
  <2>1. /\ c \in Live /\ Live' = Live
        /\ bookings'[c].date = bookings[c].date
        /\ bookings'[c].slot = bookings[c].slot
        /\ bookings'[c].type = bookings[c].type
        /\ bookings'[c].isOption = FALSE
        /\ \A x \in Live \ {c} : bookings'[x] = bookings[x]
    BY <1>6, FinalizeEffect
  <2>2. KeepsRules(c)
    BY <2>1, SameKeepsRules
  <2> QED BY <1>b, <2>1, <2>2
<1>7. ASSUME NEW x \in Dates, NEW s \in Slots, NEW t \in EventTypes,
             NEW g, NEW option \in BOOLEAN,
             InsertOn(x, s, t, option, g), SlotAvailable(x, s, t, BookingsOn(x), option)
      PROVE  KeepsRules(b)
  <2>1. PICK c : /\ Live' = Live \cup {c}
                 /\ bookings'[c].date = x /\ bookings'[c].slot = s
                 /\ bookings'[c].type = t /\ bookings'[c].isOption = option
                 /\ \A y \in Live' \ {c} : bookings'[y] = bookings[y]
    BY <1>7, InsertEffect
  <2>2. /\ s \notin BlockedSlots(WeekdayOf[x]) /\ x \notin ForbiddenDates[t]
        /\ option => WeekdayOf[x] # "saturday"
    BY <1>7, AvailableIsPermitted
  <2>3. KeepsRules(c)
    BY <2>1, <2>2, CheckedKeepsRules
  <2> QED BY <1>b, <2>1, <2>3
<1>8. ASSUME NEW x \in Dates, NEW s \in Slots, NEW t \in EventTypes,
             BookEventFinal(x, s, t) \/ \E g \in Groups : CreateOption(x, s, t, g)
      PROVE  KeepsRules(b)
  BY <1>7, <1>8 DEF BookEventFinal, CreateOption
<1>9. CASE \/ \E D \in SUBSET Dates : ReleaseOptions(D)
           \/ PurgeBookings \/ UNCHANGED <<bookings, issued>>
  <2>1. b \in Live /\ bookings'[b] = bookings[b]
    BY <1>9 DEF ReleaseOptions, PurgeBookings, Without, Live
  <2> QED BY <1>b, <2>1
<1> QED BY <1>1, <1>2, <1>3, <1>4, <1>5, <1>6, <1>8, <1>9, BookingWriters DEF BookingWrite

\* The strengthened invariant of the day rules is inductive.
LEMMA RulesInvHolds == Spec => []RulesInv
<1>1. Init => RulesInv
  <2> SUFFICES ASSUME Init PROVE RulesInv
    OBVIOUS
  <2>1. IndInv
    BY IndInvInit
  <2>2. \A r \in Requests : request[r].pc = "idle"
    BY DEF Init, Idle
  <2> QED BY <2>1, <2>2 DEF RulesInv, RequestChecked
<1>2. RulesInv /\ [Next]_vars => RulesInv'
  <2> SUFFICES ASSUME RulesInv, [Next]_vars PROVE RulesInv'
    OBVIOUS
  <2>1. IndInv'
    BY IndInvStep DEF RulesInv
  <2>2. CASE Next
    BY <2>1, <2>2, RequestCheckedStep DEF RulesInv
  <2>3. CASE UNCHANGED vars
    BY <2>1, <2>3 DEF vars, RulesInv, RequestChecked
  <2> QED BY <2>2, <2>3
<1> QED BY <1>1, <1>2, PTL DEF Spec

\* The rules of the day hold for what is stored, whichever way a booking was created,
\* edited, moved, retyped or converted, and whatever others did since the handler read the
\* day, except for the siblings a group edit moves along and for a type of event that is
\* changed with no slot given.
THEOREM RulesOfTheDay == Spec => RulesKept
<1>1. RulesInv /\ [Next]_vars => [\A b \in Live' : KeepsRules(b)]_vars
  BY RulesKeptStep
<1>2. RulesInv /\ [Next]_vars =>
        [\A b \in Live' :
            /\ SlotBlocked(bookings'[b])
               => (b \in Live /\ SlotBlocked(bookings[b])) \/ MovedAlong(b)
            /\ DayForbidden(bookings'[b])
               => \/ b \in Live /\ DayForbidden(bookings[b])
                  \/ MovedAlong(b) \/ Retyped(b)]_vars
  BY <1>1 DEF KeepsRules
<1> QED BY <1>2, RulesInvHolds, PTL DEF Spec, RulesKept
==============================================================================
