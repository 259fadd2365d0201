---------------------------- MODULE EventCalendar ----------------------------
(***************************************************************************)
(* The calendar and the bookings of one event hall: the EventDate and       *)
(* Booking tables and every request handler and nightly job that writes     *)
(* them (Services/booking, Services/calendar.service.ts,                    *)
(* Services/eventArchive.service.ts, utils/optionDateSync.ts,               *)
(* utils/optionRelease.ts).                                                 *)
(*                                                                         *)
(* PostgreSQL runs at READ COMMITTED: a transaction's writes become visible *)
(* when it commits, and a statement sees what was committed before it.  So  *)
(* a transaction that decides everything after SELECT ... FOR UPDATE on the *)
(* one date row it writes is one action.  A handler that decides on         *)
(* something it read earlier (before its transaction, before the row lock,  *)
(* or while it holds one lock and waits for another) is several actions,    *)
(* and request[r] keeps what it read and the rows it has locked.            *)
(*                                                                         *)
(* Every error path (400, 403, 404, 409, a lost connection, a transaction   *)
(* timeout) rolls the open transaction back and answers the caller: the     *)
(* request ends in Reject and leaves the tables as they are.                *)
(***************************************************************************)
EXTENDS TimeSlots, FiniteSets

CONSTANTS
    Dates,           \* calendar days, one EventDate row each at most
    Bookings,        \* ids that booking rows can be given
    Groups,          \* client, seller and creation window: an option group
    Employees,       \* names that can hold a CHECKING lock
    Requests,        \* HTTP requests in flight at the same time
    NoOne, NoGroup, NoDate, NoBooking,
    WeekdayOf,       \* [Dates -> Weekdays]
    ForbiddenDates,  \* days whose static status is FORBIDDEN, by type of event
    DayOf,           \* [Dates -> Nat]: position of the date on the clock
    LastDay,         \* bound on the clock
    RetentionDays,   \* EVENT_RETENTION_YEARS, in days of the clock
    MaxOptionDates,  \* dates one option request may name
    Traffics         \* the traffic mixes: records of the fields read below

\* getDayStaticStatus tells weddings from everything else.
EventTypes == {"wedding", "other"}

ASSUME CalendarAssumption ==
    /\ WeekdayOf \in [Dates -> Weekdays]
    /\ ForbiddenDates \in [EventTypes -> SUBSET Dates]
    /\ DayOf \in [Dates -> Nat]
    /\ LastDay \in Nat
    /\ RetentionDays \in Nat
    /\ NoOne \notin Employees
    /\ NoGroup \notin Groups
    /\ NoDate \notin Dates
    /\ NoBooking \notin Bookings

VARIABLES
    calendar,   \* EventDate rows, by date
    bookings,   \* Booking rows, by id
    issued,     \* booking ids ever given out (uuids: never given out again)
    request,    \* local state of each handler in flight
    job,        \* local state of the nightly archive job
    today,      \* the clock, in days
    traffic     \* the mix this behaviour runs under

vars == <<calendar, bookings, issued, request, job, today, traffic>>

------------------------------------------------------------------------------
(* Rows *)

Statuses == {"AVAILABLE", "CHECKING", "OPTION", "BOOKED", "ARCHIVED"}

\* optionExpiresAt: absent, in the future, or in the past.
Expiries == {"none", "live", "lapsed"}

CalendarRow == [status : Statuses, expiry : Expiries,
                lockedBy : Employees \cup {NoOne}]

BookingRow == [date : Dates, slot : Slots, type : EventTypes,
               isOption : BOOLEAN, group : Groups \cup {NoGroup}]

\* An edit that names no slot, or no type of event.
KeptSlot == "kept"
KeptType == "kept"

\* What a handler carries from one of its steps to the next.
RequestState ==
    [pc            : {"idle", "override", "confirm", "options",
                      "optionsCommit", "edit", "groupCommit", "convert",
                      "convertCommit", "release", "sync", "deadline"},
     date          : Dates \cup {NoDate},
     dates         : SUBSET Dates,
     booking       : Bookings \cup {NoBooking},
     slot          : Slots \cup {KeptSlot},
     type          : EventTypes \cup {KeptType},
     checked       : EventTypes,   \* the type its date is checked for
     group         : Groups \cup {NoGroup},
     override      : BOOLEAN,
     option        : BOOLEAN,
     extend        : BOOLEAN,
     seenRow       : SUBSET Dates,
     seenOption    : SUBSET Dates,
     seenConfirmed : SUBSET Dates,
     seenExpiry    : Expiries,
     locked        : SUBSET Dates,
     related       : SUBSET Bookings,
     doomed        : SUBSET Bookings,
     empties       : SUBSET Dates]

Idle == [pc |-> "idle", date |-> NoDate, dates |-> {}, booking |-> NoBooking,
         slot |-> KeptSlot, type |-> KeptType, checked |-> "wedding",
         group |-> NoGroup, override |-> FALSE, option |-> FALSE,
         extend |-> FALSE, seenRow |-> {}, seenOption |-> {},
         seenConfirmed |-> {}, seenExpiry |-> "none", locked |-> {},
         related |-> {}, doomed |-> {}, empties |-> {}]

JobState == [pc : {"idle", "purge", "purgeDates", "deleteDates", "archive",
                   "archiveCommit"},
             ids : SUBSET Bookings, dates : SUBSET Dates]

IdleJob == [pc |-> "idle", ids |-> {}, dates |-> {}]

\* Insert-or-update and delete on a table.
Upsert(table, rows) ==
    [k \in DOMAIN table \cup DOMAIN rows |->
        IF k \in DOMAIN rows THEN rows[k] ELSE table[k]]

Without(table, gone) == [k \in DOMAIN table \ gone |-> table[k]]

------------------------------------------------------------------------------
(* Queries *)

Rows == DOMAIN calendar

Live == DOMAIN bookings

BookingsOn(d) == {b \in Live : bookings[b].date = d}

OptionsOn(d) == {b \in BookingsOn(d) : bookings[b].isOption}

ConfirmedOn(d) == BookingsOn(d) \ OptionsOn(d)

\* Mutant: only events count as taken.
EventSlots(B) == {bookings[b].slot : b \in {c \in B : ~bookings[c].isOption}}

TakenSlots(B) == {bookings[b].slot : b \in B}

\* A row insert takes the column defaults for what the writer leaves out.
DefaultRow == [status |-> "AVAILABLE", expiry |-> "none", lockedBy |-> NoOne]

RowOf(d) == IF d \in Rows THEN calendar[d] ELSE DefaultRow

\* Mutant: today counts as past.
PastOrToday(d) == DayOf[d] <= today

Past(d) == DayOf[d] < today

Editable(d) == today < DayOf[d]

\* Mutants: the retention period ends a day early; only the day itself counts.
ExpiredEarly(d) == DayOf[d] + RetentionDays <= today + 1

ExpiredToday(d) == DayOf[d] + RetentionDays = today

Expired(d) == DayOf[d] + RetentionDays <= today

\* The row lock on d (or the uniqueness of a date being inserted) is free
\* for a statement of request r.
DateLockedBy(s, d) == d \in request[s].locked

Unlocked(d) == \A s \in Requests : ~DateLockedBy(s, d)

LockableBy(r, d) == \A s \in Requests \ {r} : ~DateLockedBy(s, d)

\* Booking rows an open transaction has updated or deleted: other writers of
\* them wait until it commits.
BookingLockedBy(s, b) ==
    \/ request[s].pc \in {"groupCommit", "convertCommit"}
       /\ b = request[s].booking
    \/ request[s].pc \in {"confirm", "convertCommit"}
       /\ b \in request[s].doomed

RowFree(b) == \A s \in Requests : ~BookingLockedBy(s, b)

\* The entry (d, slot) an open transaction has put into the unique index on
\* date and slot: whoever writes it again waits, and then fails.
SlotWrittenBy(s, d, slot) == d \in request[s].locked /\ slot = request[s].slot

\* assertSlotAvailableAfterLock: B are the bookings already on the date.
SlotAvailableOnForbidden(d, slot, type, B, isOption) ==   \* mutant: no day rule
    /\ ~(isOption /\ WeekdayOf[d] = "saturday")
    /\ slot \in BookableSlots(WeekdayOf[d], TakenSlots(B))

SlotAvailableOnSaturday(d, slot, type, B, isOption) ==   \* mutant: no Saturday rule
    /\ d \notin ForbiddenDates[type]
    /\ slot \in BookableSlots(WeekdayOf[d], TakenSlots(B))

SlotAvailable(d, slot, type, B, isOption) ==
    /\ ~(isOption /\ WeekdayOf[d] = "saturday")
    /\ d \notin ForbiddenDates[type]
    /\ slot \in BookableSlots(WeekdayOf[d], TakenSlots(B))

\* Mutant: the index is not unique.
PlainIndex(table) == TRUE

\* @@unique([calendarDateId, timeSlot])
SlotIndex(table) ==
    \A b, c \in DOMAIN table :
        table[b].date = table[c].date /\ table[b].slot = table[c].slot => b = c

\* syncEventDateWithOptionBookings: what it leaves in the row of a date that
\* has an option or not, a confirmed booking or not.
Synced(row, option, confirmed) ==
    IF ~option THEN row
    ELSE [row EXCEPT !.status = IF confirmed THEN @ ELSE "OPTION",
                     !.expiry = IF @ = "none" THEN "live" ELSE @]

Released(row) == [row EXCEPT !.status = "AVAILABLE", !.expiry = "none"]

FreedRow(row) == [Released(row) EXCEPT !.lockedBy = NoOne]

\* Mutant: ids of deleted bookings are given out again.
UnusedIds == (Bookings \cap traffic.ids) \ Live

\* Ids for new bookings, and for one new booking on each date of D.
FreshIds == (Bookings \cap traffic.ids) \ issued

Placements(D) ==
    {on \in UNION {[S -> D] : S \in SUBSET FreshIds} :
        /\ \A d \in D : \E b \in DOMAIN on : on[b] = d
        /\ \A b, c \in DOMAIN on : on[b] = on[c] => b = c}

\* Who books: the client of an option may be renamed.
Clients == Groups \cap traffic.groups

\* What requests of this behaviour ask for: an edit or a conversion may keep
\* the slot and the type of event as they are.
Asked(D, slot, type) ==
    D \subseteq traffic.dates /\ slot \in traffic.slots /\ type \in traffic.types

Given(D, slot, type) ==
    /\ D \subseteq traffic.dates
    /\ slot \in traffic.slots \cup {KeptSlot} /\ type \in traffic.given

Wait(r, state) == request' = [request EXCEPT ![r] = state]

Answer(r) == Wait(r, Idle)

------------------------------------------------------------------------------
(* createBooking: a confirmed event on one date *)

\* The date row and its bookings are read before the row lock; whether this
\* is an override of an option is decided on that read.
ReadForConfirmed(r) ==
    /\ "confirm" \in traffic.kinds
    /\ request[r].pc = "idle"
    /\ \E d \in Dates, s \in Slots, t \in EventTypes,
          override \in BOOLEAN :
         /\ Asked({d}, s, t)
         /\ ~Past(d)
         /\ override => /\ "override" \in traffic.kinds
                        /\ d \in Rows
                        /\ calendar[d].status = "OPTION" \/ OptionsOn(d) # {}
         /\ Wait(r, [Idle EXCEPT !.pc = IF override THEN "override" ELSE "confirm",
                        !.date = d, !.slot = s, !.type = t, !.checked = t,
                        !.override = override,
                        !.seenRow = Rows \cap {d},
                        !.seenOption = {x \in {d} : OptionsOn(x) # {}}])
    /\ UNCHANGED <<calendar, bookings, issued, job, today, traffic>>

\* An override first deletes every booking it finds on the date.
DeleteForOverride(r) ==
    LET q == request[r]
    IN  /\ q.pc = "override"
        /\ q.date \in Rows
        /\ \A b \in BookingsOn(q.date) : RowFree(b)
        /\ Wait(r, [q EXCEPT !.pc = "confirm", !.doomed = BookingsOn(q.date)])
        /\ UNCHANGED <<calendar, bookings, issued, job, today, traffic>>

\* Under the lock the slot is checked against the bookings that are there now
\* and the date becomes BOOKED.  The option expiry stays when the date already
\* was BOOKED and options were seen.
CommitConfirmed(r) ==
    LET q    == request[r]
        d    == q.date
        base == IF q.override THEN FreedRow(RowOf(d)) ELSE RowOf(d)
        keep == base.status = "BOOKED" /\ d \in q.seenOption
    IN  /\ q.pc = "confirm"
        /\ LockableBy(r, d)
        /\ q.seenRow = Rows \cap {d}
        /\ SlotAvailable(d, q.slot, q.checked, BookingsOn(d) \ q.doomed, FALSE)
        /\ \E b \in FreshIds :
             /\ bookings' = Upsert(Without(bookings, q.doomed),
                    [x \in {b} |-> [date |-> d, slot |-> q.slot,
                                    type |-> q.checked, isOption |-> FALSE,
                                    group |-> NoGroup]])
             /\ issued' = issued \cup {b}
        /\ calendar' = Upsert(calendar, [x \in {d} |->
                [base EXCEPT !.status = "BOOKED",
                             !.expiry = IF keep THEN @ ELSE "none"]])
        /\ Answer(r)
        /\ UNCHANGED <<job, today, traffic>>

------------------------------------------------------------------------------
(* createBooking: options on one or several dates, in one transaction *)

\* What the handler remembers of date d before it locks it.
SeenBefore(state, d) ==
    [state EXCEPT !.date = d,
                  !.seenRow = @ \cup (Rows \cap {d}),
                  !.seenConfirmed = @ \cup {x \in {d} : ConfirmedOn(x) # {}}]

ReadForOptions(r) ==
    /\ "options" \in traffic.kinds
    /\ request[r].pc = "idle"
    /\ \E D \in SUBSET Dates, s \in Slots, t \in EventTypes,
          g \in Clients :
         /\ Asked(D, s, t)
         /\ D # {} /\ Cardinality(D) <= MaxOptionDates
         /\ \A d \in D : ~Past(d)
         /\ \E d \in D :
              Wait(r, SeenBefore([Idle EXCEPT !.pc = "options", !.dates = D,
                                      !.slot = s, !.type = t, !.checked = t,
                                      !.group = g], d))
    /\ UNCHANGED <<calendar, bookings, issued, job, today, traffic>>

\* Lock the date that was read; read the next one while holding the lock.
LockForOptions(r) ==
    LET q    == request[r]
        held == q.locked \cup {q.date}
    IN  /\ q.pc = "options"
        /\ LockableBy(r, q.date)
        /\ q.date \in q.seenRow <=> q.date \in Rows
        /\ \/ /\ held = q.dates
              /\ Wait(r, [q EXCEPT !.pc = "optionsCommit", !.locked = held])
           \/ \E d \in q.dates \ held :
                Wait(r, SeenBefore([q EXCEPT !.locked = held], d))
        /\ UNCHANGED <<calendar, bookings, issued, job, today, traffic>>

\* All dates are locked.  Each gets an option booking and its status: OPTION
\* unless the read before the lock saw a confirmed booking and one is still
\* there.
CommitOptions(r) ==
    LET q == request[r]
        D == q.dates
    IN  /\ q.pc = "optionsCommit"
        /\ \A d \in D : SlotAvailable(d, q.slot, q.checked, BookingsOn(d), TRUE)
        /\ \E on \in Placements(D) :
             /\ bookings' = Upsert(bookings,
                    [b \in DOMAIN on |-> [date |-> on[b], slot |-> q.slot,
                                          type |-> q.checked, isOption |-> TRUE,
                                          group |-> q.group]])
             /\ issued' = issued \cup DOMAIN on
        /\ calendar' = Upsert(calendar, [d \in D |->
                [RowOf(d) EXCEPT
                    !.status = IF d \notin q.seenConfirmed \/ ConfirmedOn(d) = {}
                               THEN "OPTION" ELSE @,
                    !.expiry = "live"]])
        /\ Answer(r)
        /\ UNCHANGED <<job, today, traffic>>

------------------------------------------------------------------------------
(* updateBooking: edit of an event or an option *)

\* Mutant: always the type that was read.
CheckedTypeRead(b, t) == bookings[b].type

\* The type an edit is checked for: the one it gives, else the one it read.
CheckedType(b, t) == IF t = KeptType THEN bookings[b].type ELSE t

\* Everything the handler checks about archive, day and option is read before
\* its transaction.
ReadForEdit(r) ==
    /\ request[r].pc = "idle"
    /\ \E b \in Live, s \in Slots \cup {KeptSlot},
          t \in EventTypes \cup {KeptType},
          D \in SUBSET Dates, extend \in BOOLEAN :
         LET d == bookings[b].date IN
         /\ Given(D, s, t)
         /\ d \in Rows
         /\ calendar[d].status # "ARCHIVED"
         /\ Editable(d)
         /\ s \notin BlockedSlots(WeekdayOf[d])
         /\ IF D = {} THEN "edit" \in traffic.kinds ELSE "groupEdit" \in traffic.kinds
         /\ D # {} => /\ bookings[b].isOption
                      /\ s # KeptSlot
                      /\ Cardinality(D) <= MaxOptionDates
         /\ extend => "extend" \in traffic.kinds /\ bookings[b].isOption
         /\ Wait(r, [Idle EXCEPT !.pc = "edit", !.booking = b, !.date = d,
                        !.slot = s, !.type = t, !.checked = CheckedType(b, t),
                        !.dates = D, !.extend = extend,
                        !.group = bookings[b].group,
                        !.option = bookings[b].isOption,
                        !.seenExpiry = calendar[d].expiry])
    /\ UNCHANGED <<calendar, bookings, issued, job, today, traffic>>

\* The slot and the type the edit leaves its booking in, and the check made
\* under the row lock: of the slot and the day, and only when a slot is given.
EditedSlot(q) == IF q.slot = KeptSlot THEN bookings[q.booking].slot ELSE q.slot

EditedType(q, b) == IF q.type = KeptType THEN bookings[b].type ELSE q.type

EditAllowed(q) ==
    /\ q.booking \in Live
    /\ RowFree(q.booking)
    /\ q.slot # KeptSlot =>
         SlotAvailable(q.date, q.slot, q.checked,
                       BookingsOn(q.date) \ {q.booking}, FALSE)

\* The date row of an edited option: synced, then given a new deadline.
EditedRow(q, option, confirmed) ==
    LET row == Synced(calendar[q.date], option, confirmed)
    IN  IF ~q.option THEN calendar[q.date]
        ELSE IF q.extend THEN [row EXCEPT !.expiry = "live"] ELSE row

\* An edit may rename the client, which moves an option to another group.
CommitEdit(r) ==
    LET q == request[r]
    IN  /\ q.pc = "edit"
        /\ q.dates = {}
        /\ LockableBy(r, q.date)
        /\ EditAllowed(q)
        /\ \E g \in Clients :
             bookings' = [bookings EXCEPT
                 ![q.booking].slot = EditedSlot(q),
                 ![q.booking].type = EditedType(q, q.booking),
                 ![q.booking].group = IF q.option THEN g ELSE @]
        /\ calendar' = [calendar EXCEPT ![q.date] =
                EditedRow(q, OptionsOn(q.date) # {}, ConfirmedOn(q.date) # {})]
        /\ Answer(r)
        /\ UNCHANGED <<issued, job, today, traffic>>

------------------------------------------------------------------------------
(* updateBooking with allSelectedDates: edit of a whole option group *)

GroupBookings(g) == {b \in Live : bookings[b].group = g}   \* mutant

GroupOptions(g) == {b \in Live : bookings[b].isOption /\ bookings[b].group = g}

DatesOf(B) == {bookings[b].date : b \in B}

EmptiedBy(doomed, D) == {d \in D : BookingsOn(d) \subseteq doomed}

\* Under the lock of the anchor's date.  The related rows are searched by the
\* name the anchor had when it was read; a renamed anchor is not among them.
GroupEditLock(r) ==
    LET q == request[r]
    IN  /\ q.pc = "edit"
        /\ q.dates # {}
        /\ LockableBy(r, q.date)
        /\ EditAllowed(q)
        /\ \E g \in Clients :
             LET related == GroupOptions(q.group)
                                \ (IF g = q.group THEN {} ELSE {q.booking})
                 doomed  == {b \in related : bookings[b].date \notin q.dates}
             IN  Wait(r, [q EXCEPT !.pc = "groupCommit", !.locked = {q.date},
                    !.group = g, !.related = related, !.doomed = doomed,
                    !.empties = EmptiedBy(doomed, DatesOf(doomed)),
                    !.seenOption = {x \in {q.date} : OptionsOn(x) # {}},
                    !.seenConfirmed = {x \in {q.date} : ConfirmedOn(x) # {}}])
        /\ UNCHANGED <<calendar, bookings, issued, job, today, traffic>>

\* Related rows outside the selected dates are deleted by id and the dates
\* counted empty released; the others take the slot and the type of the edit,
\* with neither a lock nor a check of their date; the selected dates that had
\* no row get a new option under their lock.
GroupEditCommit(r) ==
    LET q      == request[r]
        kept   == q.related \ q.doomed
        fresh  == q.dates \ DatesOf(q.related)
        expiry == IF q.extend THEN "live" ELSE q.seenExpiry
        edited == {q.booking} \cup kept
        anchor == EditedRow(q, q.seenOption # {}, q.seenConfirmed # {})
        Opened(d) ==
            IF RowOf(d).status = "BOOKED" /\ OptionsOn(d) # {} THEN RowOf(d)
            ELSE [RowOf(d) EXCEPT
                    !.status = IF ConfirmedOn(d) = {} THEN "OPTION" ELSE @,
                    !.expiry = expiry]
    IN  /\ q.pc = "groupCommit"
        /\ q.related \subseteq Live
        /\ \A s \in Requests \ {r}, b \in q.related : ~BookingLockedBy(s, b)
        /\ \A s \in Requests \ {r}, b \in kept :
                ~SlotWrittenBy(s, bookings[b].date, q.slot)
        /\ \A d \in fresh \cup q.empties : LockableBy(r, d)
        /\ {q.date} \cup q.empties \subseteq Rows
        /\ q.date \notin fresh       \* the edited anchor has the slot there
        /\ \A d \in fresh : SlotAvailable(d, q.slot, q.checked, BookingsOn(d), TRUE)
        /\ \E on \in Placements(fresh), g \in Clients :
             LET table == Upsert(Without(bookings, q.doomed),
                    [b \in (edited \ q.doomed) \cup DOMAIN on |->
                        IF b \in DOMAIN on
                        THEN [date |-> on[b], slot |-> q.slot,
                              type |-> q.checked, isOption |-> TRUE,
                              group |-> g]
                        ELSE [bookings[b] EXCEPT !.slot = q.slot,
                                                 !.type = EditedType(q, b),
                                                 !.group = q.group]])
             IN  /\ SlotIndex(table)
                 /\ bookings' = table
                 /\ issued' = issued \cup DOMAIN on
        /\ calendar' = Upsert(calendar, [d \in {q.date} \cup q.empties \cup fresh |->
                IF d \in fresh THEN Opened(d)
                ELSE IF d = q.date /\ d \notin q.empties THEN anchor
                ELSE IF d = q.date THEN Released(anchor)
                ELSE Released(calendar[d])])
        /\ Answer(r)
        /\ UNCHANGED <<job, today, traffic>>

------------------------------------------------------------------------------
(* updateBooking with convertFromOption: an option becomes an event *)

ReadForConvert(r) ==
    /\ "convert" \in traffic.kinds
    /\ request[r].pc = "idle"
    /\ \E b \in Live, s \in Slots \cup {KeptSlot},
          t \in EventTypes \cup {KeptType}, D \in SUBSET Dates :
         LET d == bookings[b].date IN
         /\ Given(D, s, t)
         /\ bookings[b].isOption
         /\ d \in Rows
         /\ calendar[d].status # "ARCHIVED"
         /\ Editable(d)
         /\ s \notin BlockedSlots(WeekdayOf[d])
         /\ D # {} => "giveBack" \in traffic.kinds
         /\ Wait(r, [Idle EXCEPT !.pc = "convert", !.booking = b, !.date = d,
                        !.slot = s, !.type = t, !.checked = CheckedType(b, t),
                        !.dates = D, !.group = bookings[b].group])
    /\ UNCHANGED <<calendar, bookings, issued, job, today, traffic>>

\* Under the lock of the option's date: every date to release must be held by
\* another option of the group; those options are deleted and their dates
\* counted, while the options left on the date itself are counted before.
LockForConvert(r) ==
    LET q      == request[r]
        doomed == {b \in GroupOptions(q.group) \ {q.booking} :
                        bookings[b].date \in q.dates}
    IN  /\ q.pc = "convert"
        /\ LockableBy(r, q.date)
        /\ EditAllowed(q)
        /\ q.dates \subseteq DatesOf(doomed)
        /\ \A b \in doomed : RowFree(b)
        /\ Wait(r, [q EXCEPT !.pc = "convertCommit", !.locked = {q.date},
                        !.option = OptionsOn(q.date) \ {q.booking} # {},
                        !.doomed = doomed,
                        !.empties = EmptiedBy(doomed, q.dates)])
        /\ UNCHANGED <<calendar, bookings, issued, job, today, traffic>>

\* The dates counted empty are released once their rows can be written.
CommitConvert(r) ==
    LET q == request[r]
        d == q.date
    IN  /\ q.pc = "convertCommit"
        /\ q.empties \subseteq Rows
        /\ \A x \in q.empties : LockableBy(r, x)
        /\ bookings' = Without(
                [bookings EXCEPT ![q.booking].isOption = FALSE,
                                 ![q.booking].slot = EditedSlot(q),
                                 ![q.booking].type = EditedType(q, q.booking)],
                q.doomed)
        /\ calendar' = [x \in Rows |->
                IF x \in q.empties THEN FreedRow(calendar[x])
                ELSE IF x # d THEN calendar[x]
                ELSE IF q.option THEN Synced(calendar[d], TRUE, TRUE)
                ELSE [calendar[d] EXCEPT !.status = "BOOKED", !.expiry = "none"]]
        /\ Answer(r)
        /\ UNCHANGED <<issued, job, today, traffic>>

------------------------------------------------------------------------------
(* finalizeBooking and releaseOptions: one transaction, no earlier read *)

\* Closing an event looks at neither the date's status nor the clock.
FinalizeBooking(b) ==
    /\ "finalize" \in traffic.kinds
    /\ b \in Live
    /\ RowFree(b)
    /\ Unlocked(bookings[b].date)
    /\ bookings' = [bookings EXCEPT ![b].isOption = FALSE]
    /\ calendar' = [calendar EXCEPT ![bookings[b].date] =
            [@ EXCEPT !.status = "BOOKED", !.expiry = "none"]]
    /\ UNCHANGED <<issued, request, job, today, traffic>>

\* All bookings of the chosen dates go, events as well as options.
ReleaseOptions(D) ==
    LET gone == UNION {BookingsOn(d) : d \in D}
    IN  /\ "release" \in traffic.kinds
        /\ D # {} /\ D \subseteq Rows
        /\ \A d \in D : Unlocked(d)
        /\ \A b \in gone : RowFree(b)
        /\ bookings' = Without(bookings, gone)
        /\ calendar' = [d \in Rows |->
                IF d \in D THEN Released(calendar[d]) ELSE calendar[d]]
        /\ UNCHANGED <<issued, request, job, today, traffic>>

------------------------------------------------------------------------------
(* syncEventDateWithOptionBookings outside a transaction, and bumpOption *)

\* Reading the lists of options repairs date rows on the way; a bump (extend)
\* sets the deadline after the repair.
SyncRead(r) ==
    /\ "sync" \in traffic.kinds
    /\ request[r].pc = "idle"
    /\ \E d \in Rows, extend \in BOOLEAN :
         LET stray  == ConfirmedOn(d) = {} /\ calendar[d].status # "OPTION"
             repair == stray \/ calendar[d].expiry = "none"
         IN  /\ OptionsOn(d) # {}
             /\ repair \/ extend
             /\ extend => "extend" \in traffic.kinds
             /\ Wait(r, [Idle EXCEPT !.pc = IF repair THEN "sync" ELSE "deadline",
                            !.date = d, !.extend = extend, !.option = stray,
                            !.seenExpiry = calendar[d].expiry])
    /\ UNCHANGED <<calendar, bookings, issued, job, today, traffic>>

SyncWrite(r) ==
    LET q   == request[r]
        row == calendar[q.date]
    IN  /\ q.pc = "sync"
        /\ q.date \in Rows /\ LockableBy(r, q.date)
        /\ calendar' = [calendar EXCEPT ![q.date] =
                [row EXCEPT !.status = IF q.option THEN "OPTION" ELSE @,
                            !.expiry = IF q.seenExpiry = "none" THEN "live" ELSE @]]
        /\ IF q.extend THEN Wait(r, [q EXCEPT !.pc = "deadline"]) ELSE Answer(r)
        /\ UNCHANGED <<bookings, issued, job, today, traffic>>

SetDeadline(r) ==
    LET q == request[r]
    IN  /\ q.pc = "deadline"
        /\ q.date \in Rows /\ LockableBy(r, q.date)
        /\ calendar' = [calendar EXCEPT ![q.date].expiry = "live"]
        /\ Answer(r)
        /\ UNCHANGED <<bookings, issued, job, today, traffic>>

------------------------------------------------------------------------------
(* calendar.service: the calendar page's own operations *)

\* A booking row inserted on an existing date under its lock.
InsertOn(d, slot, type, isOption, group) ==
    \E b \in FreshIds :
        /\ bookings' = Upsert(bookings, [x \in {b} |->
                [date |-> d, slot |-> slot, type |-> type,
                 isOption |-> isOption, group |-> group]])
        /\ issued' = issued \cup {b}

BookEventFinal(d, slot, type) ==
    /\ "bookFinal" \in traffic.kinds
    /\ Asked({d}, slot, type)
    /\ d \in Rows /\ Unlocked(d)
    /\ SlotAvailable(d, slot, type, BookingsOn(d), FALSE)
    /\ InsertOn(d, slot, type, FALSE, NoGroup)
    /\ calendar' = [calendar EXCEPT ![d] = [status |-> "BOOKED",
                        expiry |-> "none", lockedBy |-> NoOne]]
    /\ UNCHANGED <<request, job, today, traffic>>

\* The date becomes OPTION whatever it was.
CreateOption(d, slot, type, group) ==
    /\ "option" \in traffic.kinds
    /\ Asked({d}, slot, type)
    /\ d \in Rows /\ Unlocked(d)
    /\ SlotAvailable(d, slot, type, BookingsOn(d), TRUE)
    /\ InsertOn(d, slot, type, TRUE, group)
    /\ calendar' = [calendar EXCEPT ![d] = [status |-> "OPTION",
                        expiry |-> "live", lockedBy |-> NoOne]]
    /\ UNCHANGED <<request, job, today, traffic>>

LapsedOfOther(d, e) ==   \* mutant: the deadline is compared the wrong way
    /\ RowOf(d).status = "CHECKING"
    /\ RowOf(d).lockedBy \notin {NoOne, e}
    /\ RowOf(d).expiry = "lapsed"

HeldByOther(d, e) ==
    /\ RowOf(d).status = "CHECKING"
    /\ RowOf(d).lockedBy \notin {NoOne, e}
    /\ RowOf(d).expiry = "live"

LockDateByStatus(d, e) ==   \* mutant: bookings of the date are not looked at
    /\ "checking" \in traffic.kinds /\ d \in traffic.dates
    /\ Unlocked(d)
    /\ RowOf(d).status \notin {"BOOKED", "ARCHIVED"}
    /\ ~HeldByOther(d, e)
    /\ calendar' = Upsert(calendar, [x \in {d} |->
            [status |-> "CHECKING", expiry |-> "live", lockedBy |-> e]])
    /\ UNCHANGED <<bookings, issued, request, job, today, traffic>>

LockDateForChecking(d, e) ==
    /\ "checking" \in traffic.kinds /\ d \in traffic.dates
    /\ Unlocked(d)
    /\ ConfirmedOn(d) = {}
    /\ RowOf(d).status \notin {"BOOKED", "ARCHIVED"}
    /\ ~HeldByOther(d, e)
    /\ calendar' = Upsert(calendar, [x \in {d} |->
            [status |-> "CHECKING", expiry |-> "live", lockedBy |-> e]])
    /\ UNCHANGED <<bookings, issued, request, job, today, traffic>>

SaveOptionHold(D) ==
    /\ "hold" \in traffic.kinds /\ D \subseteq traffic.dates
    /\ D # {} /\ Cardinality(D) <= MaxOptionDates
    /\ \A d \in D : Unlocked(d) /\ ConfirmedOn(d) = {}
    /\ calendar' = Upsert(calendar, [d \in D |->
            [status |-> "OPTION", expiry |-> "live", lockedBy |-> NoOne]])
    /\ UNCHANGED <<bookings, issued, request, job, today, traffic>>

\* releaseDate reads the row and its bookings, then locks the row, then writes
\* what the read implied.
ReleaseDateRead(r) ==
    /\ "releaseDate" \in traffic.kinds
    /\ request[r].pc = "idle"
    /\ \E d \in Rows :
         Wait(r, [Idle EXCEPT !.pc = "release", !.date = d,
                    !.seenExpiry = calendar[d].expiry,
                    !.seenOption = {x \in {d} : OptionsOn(x) # {}},
                    !.seenConfirmed = {x \in {d} : ConfirmedOn(x) # {}}])
    /\ UNCHANGED <<calendar, bookings, issued, job, today, traffic>>

ReleaseDateWrite(r) ==
    LET q      == request[r]
        booked == q.seenOption \cup q.seenConfirmed # {}
    IN  /\ q.pc = "release"
        /\ q.date \in Rows /\ LockableBy(r, q.date)
        /\ calendar' = [calendar EXCEPT ![q.date] =
                [status   |-> IF q.seenConfirmed # {} THEN "BOOKED"
                              ELSE IF booked THEN "OPTION" ELSE "AVAILABLE",
                 expiry   |-> IF booked THEN q.seenExpiry ELSE "none",
                 lockedBy |-> NoOne]]
        /\ Answer(r)
        /\ UNCHANGED <<bookings, issued, job, today, traffic>>

------------------------------------------------------------------------------
(* The nightly archive job: retention first, then archiving *)

\* Mutant: with nothing to delete the job returns before it archives.
PurgeScanReturns ==
    LET old == {b \in Live : Expired(bookings[b].date)}
    IN  /\ "archive" \in traffic.kinds
        /\ job.pc = "idle"
        /\ old # {}
        /\ job' = [pc |-> "purge", ids |-> old, dates |-> DatesOf(old)]
        /\ UNCHANGED <<calendar, bookings, issued, request, today, traffic>>

\* Bookings of dates past retention, and their dates.
PurgeScan ==
    LET old == {b \in Live : Expired(bookings[b].date)}
    IN  /\ "archive" \in traffic.kinds
        /\ job.pc = "idle"
        /\ job' = [pc |-> IF old = {} THEN "archive" ELSE "purge",
                   ids |-> old, dates |-> DatesOf(old)]
        /\ UNCHANGED <<calendar, bookings, issued, request, today, traffic>>

PurgeBookings ==
    /\ job.pc = "purge"
    /\ \A b \in job.ids : RowFree(b)
    /\ bookings' = Without(bookings, job.ids)
    /\ job' = [job EXCEPT !.pc = "purgeDates", !.ids = {}]
    /\ UNCHANGED <<calendar, issued, request, today, traffic>>

\* Which of those dates are left without a booking.
PurgeScanDates ==
    /\ job.pc = "purgeDates"
    /\ job' = [job EXCEPT !.pc = "deleteDates",
                          !.dates = {d \in @ \cap Rows : BookingsOn(d) = {}}]
    /\ UNCHANGED <<calendar, bookings, issued, request, today, traffic>>

\* Mutant: no foreign key.
PurgeDatesBlindly ==
    /\ job.pc = "deleteDates"
    /\ \A d \in job.dates : Unlocked(d)
    /\ calendar' = Without(calendar, job.dates)
    /\ job' = [IdleJob EXCEPT !.pc = "archive"]
    /\ UNCHANGED <<bookings, issued, request, today, traffic>>

\* The foreign key refuses to delete the row of a date that has a booking
\* again: the whole job then ends in an error.
PurgeDates ==
    /\ job.pc = "deleteDates"
    /\ \A d \in job.dates : Unlocked(d)
    /\ IF \A d \in job.dates : BookingsOn(d) = {}
       THEN /\ calendar' = Without(calendar, job.dates)
            /\ job' = [IdleJob EXCEPT !.pc = "archive"]
       ELSE /\ job' = IdleJob
            /\ UNCHANGED calendar
    /\ UNCHANGED <<bookings, issued, request, today, traffic>>

ArchiveScan ==
    LET past == {d \in Rows : /\ calendar[d].status = "BOOKED"
                              /\ Past(d)
                              /\ ConfirmedOn(d) # {}}
    IN  /\ job.pc = "archive"
        /\ job' = IF past = {} THEN IdleJob
                  ELSE [pc |-> "archiveCommit", ids |-> {}, dates |-> past]
        /\ UNCHANGED <<calendar, bookings, issued, request, today, traffic>>

\* The update names the dates by id and looks at their status no more.
ArchiveCommit ==
    /\ job.pc = "archiveCommit"
    /\ \A d \in job.dates : Unlocked(d)
    /\ calendar' = [d \in Rows |->
            IF d \in job.dates THEN [calendar[d] EXCEPT !.status = "ARCHIVED"]
            ELSE calendar[d]]
    /\ job' = IdleJob
    /\ UNCHANGED <<bookings, issued, request, today, traffic>>

\* The process restarts, or a statement of the job fails.
JobAbort ==
    /\ "jobAbort" \in traffic.kinds
    /\ job.pc # "idle"
    /\ job' = IdleJob
    /\ UNCHANGED <<calendar, bookings, issued, request, today, traffic>>

JobStep == \/ PurgeScan \/ PurgeBookings \/ PurgeScanDates \/ PurgeDates
           \/ ArchiveScan \/ ArchiveCommit

------------------------------------------------------------------------------
(* Time *)

AdvanceDay ==
    /\ "days" \in traffic.kinds
    /\ today < LastDay
    /\ today' = today + 1
    /\ UNCHANGED <<calendar, bookings, issued, request, job, traffic>>

\* A deadline passes.  Nothing else happens at that moment: an expired option
\* stays on the calendar.
Lapse(d) ==
    /\ "lapse" \in traffic.kinds
    /\ d \in Rows
    /\ calendar[d].expiry = "live"
    /\ calendar' = [calendar EXCEPT ![d].expiry = "lapsed"]
    /\ UNCHANGED <<bookings, issued, request, job, today, traffic>>

------------------------------------------------------------------------------
(* How a request ends without effect, and who waits for whom *)

\* A check fails, the connection breaks, the transaction times out.
Reject(r) ==
    /\ request[r].pc # "idle"
    /\ Answer(r)
    /\ UNCHANGED <<calendar, bookings, issued, job, today, traffic>>

\* The date rows the next statement of r has to lock.
WaitsFor(r) ==
    LET q == request[r]
    IN  CASE q.pc \in {"idle", "override", "optionsCommit"} -> {}
          [] q.pc = "groupCommit"   -> q.empties \cup (q.dates \ DatesOf(q.related \cap Live))
          [] q.pc = "convertCommit" -> q.empties
          [] OTHER                  -> {q.date}

BlockedBy(r, s) == r # s /\ WaitsFor(r) \cap request[s].locked # {}

Blocked(r) == \E s \in Requests : BlockedBy(r, s)

\* A handler that is not waiting for a lock answers with an error when a check
\* of it fails.
RefuseSome(r) ==   \* mutant: an error at the last option is swallowed
    ~Blocked(r) /\ request[r].pc # "optionsCommit" /\ Reject(r)

Refuse(r) == ~Blocked(r) /\ Reject(r)

\* PostgreSQL detects a cycle of waiting transactions and aborts one of them.
AbortDeadlock(r) ==
    /\ \E C \in SUBSET Requests :
         /\ r \in C
         /\ \A s \in C : \E t \in C : BlockedBy(s, t)
    /\ Reject(r)

------------------------------------------------------------------------------

Advance(r) ==
    \/ DeleteForOverride(r) \/ CommitConfirmed(r)
    \/ LockForOptions(r)    \/ CommitOptions(r)
    \/ CommitEdit(r)        \/ GroupEditLock(r) \/ GroupEditCommit(r)
    \/ LockForConvert(r)    \/ CommitConvert(r)
    \/ SyncWrite(r)         \/ SetDeadline(r)   \/ ReleaseDateWrite(r)

Arrive(r) ==
    \/ ReadForConfirmed(r) \/ ReadForOptions(r) \/ ReadForEdit(r)
    \/ ReadForConvert(r)   \/ SyncRead(r)       \/ ReleaseDateRead(r)

Atomic ==
    \/ \E b \in Bookings : FinalizeBooking(b)
    \/ \E D \in SUBSET Dates : ReleaseOptions(D) \/ SaveOptionHold(D)
    \/ \E d \in Dates :
         \/ \E s \in Slots, t \in EventTypes :
              \/ BookEventFinal(d, s, t)
              \/ \E g \in Clients : CreateOption(d, s, t, g)
         \/ \E e \in Employees : LockDateForChecking(d, e)

Init ==
    /\ calendar = [d \in {} |-> DefaultRow]
    /\ bookings = [b \in {} |-> b]
    /\ issued = {}
    /\ request = [r \in Requests |-> Idle]
    /\ job = IdleJob
    /\ today = 0
    /\ traffic \in Traffics

Next ==
    \/ \E r \in Requests : Arrive(r) \/ Advance(r) \/ Reject(r) \/ AbortDeadlock(r)
    \/ Atomic
    \/ JobStep \/ JobAbort
    \/ AdvanceDay \/ \E d \in Dates : Lapse(d)

Spec == Init /\ [][Next]_vars

(***************************************************************************)
(* Fairness.  The server's event loop keeps running every handler, and the  *)
(* row locks of PostgreSQL are queues, so a handler whose lock is free again *)
(* and again gets it: strong fairness of "go on or answer".  Without Refuse  *)
(* in it a handler that fails a check would never answer; Refuse is         *)
(* disabled while a handler waits for a lock, so a deadlock is not hidden.   *)
(* node-cron runs the job every midnight, days pass, and PostgreSQL looks    *)
(* for deadlocks after deadlock_timeout.  No arrival is fair.               *)
(***************************************************************************)
Fairness ==
    /\ \A r \in Requests : /\ SF_vars(Advance(r) \/ Refuse(r))
                           /\ WF_vars(AbortDeadlock(r))
    /\ WF_vars(JobStep)
    /\ WF_vars(AdvanceDay)

FairSpec == Spec /\ Fairness

------------------------------------------------------------------------------
(* Type invariant *)

CalendarType == Rows \subseteq Dates /\ \A d \in Rows : calendar[d] \in CalendarRow

BookingsType ==
    /\ Live \subseteq issued
    /\ issued \subseteq Bookings
    /\ \A b \in Live : bookings[b] \in BookingRow

\* A handler at work has a date; only an edit of one booking may name no slot;
\* a group edit deletes rows of its group only.
WellFormed(q) ==
    /\ q.pc # "idle" => q.date \in Dates
    /\ q.pc = "groupCommit" \/ (q.pc = "edit" /\ q.dates # {}) => q.slot \in Slots
    /\ q.pc = "groupCommit" => q.doomed \subseteq q.related

RequestType ==
    /\ request \in [Requests -> RequestState]
    /\ \A r \in Requests : WellFormed(request[r])

\* Every variable stays in its table or state type: rows only of known dates,
\* bookings only with ids that were given out.
TypeOK ==
    /\ CalendarType
    /\ BookingsType
    /\ RequestType
    /\ job \in JobState
    /\ today \in 0 .. LastDay
    /\ traffic \in Traffics

------------------------------------------------------------------------------
(* Safety *)

IsOver(d) == DayOf[d] < today

IsPastRetention(d) == DayOf[d] + RetentionDays <= today

\* PRD KPI "0 double bookings": no two bookings, options included, ever hold
\* the same slot of the same date.  Only siblings of a group edit lean on the
\* unique index for it; everywhere else the check under the row lock suffices.
NoDoubleBooking ==
    \A b, c \in Live :
        bookings[b].date = bookings[c].date /\ bookings[b].slot = bookings[c].slot
        => b = c

\* An open transaction relies on the rows it has locked: the bookings an
\* override or a conversion has deleted, and the one it has updated, are still
\* there when it commits.
LockedRowsRemain ==
    \A r \in Requests, b \in Bookings : BookingLockedBy(r, b) => b \in Live

\* A booking always has its calendar row, although the retention job deletes
\* rows it counted empty a moment earlier.
BookingsHaveRows == \A b \in Live : bookings[b].date \in Rows

\* Only dates that have passed are archived.
ArchivedArePast == \A d \in Rows : calendar[d].status = "ARCHIVED" => IsOver(d)

\* The table of dates agrees with that of bookings and with the clock, whatever
\* employees, requests and the nightly job do on reads of their own.
CalendarAgrees == BookingsHaveRows /\ ArchivedArePast

------------------------------------------------------------------------------
(* What makes the safety invariants inductive *)

\* A handler that edits a booking knows its date: ids are never given out
\* again and no booking moves to another date.
EditKnowsDate ==
    \A r \in Requests :
        request[r].pc \in {"edit", "groupCommit", "convert", "convertCommit"} =>
            /\ request[r].booking \in issued
            /\ request[r].booking \in Live =>
                    bookings[request[r].booking].date = request[r].date

\* Which date rows a handler has locked at each of its steps.
LocksHeld ==
    \A r \in Requests :
        LET q == request[r] IN
        /\ q.pc \notin {"options", "optionsCommit", "groupCommit", "convertCommit"}
                => q.locked = {}
        /\ q.pc \in {"groupCommit", "convertCommit"} => q.locked = {q.date}
        /\ q.pc = "optionsCommit" => q.locked = q.dates

\* No date row is locked by two handlers.
DateLocksExclusive ==
    \A r, s \in Requests : r # s => request[r].locked \cap request[s].locked = {}

\* No booking row is locked by two handlers.
RowLocksExclusive ==
    \A r, s \in Requests, b \in Bookings :
        BookingLockedBy(r, b) /\ BookingLockedBy(s, b) => r = s

\* The slot a converting option moves to stays free until the commit.
ConvertSlotHeld ==
    \A r \in Requests : request[r].pc = "convertCommit" =>
        \A b \in Live \ {request[r].booking} :
            ~(bookings[b].date = request[r].date /\ bookings[b].slot = request[r].slot)

\* What a conversion has deleted stays an option of its group until the commit.
DoomedAreOptions ==
    \A r \in Requests : request[r].pc = "convertCommit" =>
        \A b \in request[r].doomed :
            b \in Live => bookings[b].isOption /\ bookings[b].group = request[r].group

IndInv ==
    /\ TypeOK
    /\ NoDoubleBooking
    /\ EditKnowsDate
    /\ LocksHeld
    /\ DateLocksExclusive
    /\ ConvertSlotHeld
    /\ RowLocksExclusive
    /\ LockedRowsRemain
    /\ DoomedAreOptions

------------------------------------------------------------------------------
(* Action properties *)

\* Converting one option of a client deletes other options of that client and
\* nothing that is confirmed, even one that was confirmed a moment earlier by a
\* concurrent conversion (optionRelease, "H8").
ConversionSparesEvents ==
    [][\A r \in Requests : CommitConvert(r) =>
        \A b \in Live \ Live' : bookings[b].isOption
                                /\ bookings[b].group = request[r].group]_vars

\* The rules of the day, for a booking row: no slot its weekday blocks; no date
\* forbidden for its type of event and no option on a Saturday.
SlotBlocked(row) == row.slot \in BlockedSlots(WeekdayOf[row.date])

DayForbidden(row) ==
    \/ row.date \in ForbiddenDates[row.type]
    \/ row.isOption /\ WeekdayOf[row.date] = "saturday"

\* The two ways in which the code stores what it has not checked: a group edit
\* moves the siblings of its option along, and an edit or a conversion that
\* gives a type of event and no slot changes the type.
MovedAlong(b) ==
    \E r \in Requests :
        /\ request[r].pc = "groupCommit" /\ request'[r].pc = "idle"
        /\ b \in request[r].related \ {request[r].booking}

Retyped(b) ==
    \E r \in Requests :
        /\ request[r].pc \in {"edit", "convertCommit"} /\ request'[r].pc = "idle"
        /\ request[r].booking = b
        /\ request[r].slot = KeptSlot /\ request[r].type # KeptType

\* The rules of the day hold for what is stored, not only for what was asked for:
\* whichever way a booking is created, moved, retyped or converted, and whatever
\* others did since the handler read it, no step leaves a booking against a rule
\* it kept before, except the two that are named above.
RulesKept ==
    [][\A b \in Live' :
        /\ SlotBlocked(bookings'[b])
           => (b \in Live /\ SlotBlocked(bookings[b])) \/ MovedAlong(b)
        /\ DayForbidden(bookings'[b])
           => \/ b \in Live /\ DayForbidden(bookings[b])
              \/ MovedAlong(b) \/ Retyped(b)
      ]_vars

\* An option of d becomes an event while other options stay on d: the date's
\* row is then left in the status it has.
ConvertedBeside(d) ==
    \E r \in Requests :
        /\ request[r].pc = "convertCommit" /\ request'[r].pc = "idle"
        /\ request[r].date = d /\ request[r].option

\* A date an employee is checking is not handed to another employee before the
\* lock lapses or is released.  And no event comes to be on a date that is, or
\* becomes, locked for checking, except by a conversion beside other options.
CheckingIsExclusive ==
    [][\A d \in DOMAIN calendar' : calendar'[d].status = "CHECKING" =>
        /\ d \in Rows /\ calendar[d].status = "CHECKING" /\ calendar[d].expiry = "live"
           => calendar'[d].lockedBy = calendar[d].lockedBy
        /\ ConfirmedOn(d)' # {}
           => \/ d \in Rows /\ calendar[d].status = "CHECKING" /\ ConfirmedOn(d) # {}
              \/ ConvertedBeside(d)
      ]_vars

\* The nightly job deletes bookings past retention only.
JobDeletesOnlyExpired ==
    [][JobStep => \A b \in Live \ Live' : IsPastRetention(bookings[b].date)]_vars

\* A date that becomes AVAILABLE is empty ("releases empty dates",
\* utils/optionRelease.ts).
FreedDateIsEmpty ==
    [][\A d \in Rows \cap DOMAIN calendar' :
        calendar[d].status # "AVAILABLE" /\ calendar'[d].status = "AVAILABLE"
        => BookingsOn(d)' = {}]_vars

------------------------------------------------------------------------------
(* Liveness *)

\* Every request is answered, although handlers that lock several dates in the
\* order of the request can wait for each other.
EveryRequestAnswered ==
    \A r \in Requests : request[r].pc # "idle" ~> request[r].pc = "idle"

\* A date that is BOOKED for a confirmed event and has passed leaves BOOKED.
BookedPastIsArchived ==
    \A d \in Dates :
        d \in Rows /\ calendar[d].status = "BOOKED" /\ IsOver(d) /\ ConfirmedOn(d) # {}
        ~> d \notin Rows \/ calendar[d].status # "BOOKED" \/ ConfirmedOn(d) = {}

\* A booking does not outlive the retention period.
RetentionEnforced ==
    \A b \in Bookings :
        b \in Live /\ IsPastRetention(bookings[b].date) ~> b \notin Live

\* Confirmed events whose date has passed are archived.
ConfirmedPastIsArchived ==
    \A d \in Dates :
        d \in Rows /\ IsOver(d) /\ ConfirmedOn(d) # {}
        ~> d \notin Rows \/ calendar[d].status = "ARCHIVED" \/ ConfirmedOn(d) = {}

------------------------------------------------------------------------------
(* Refinement *)

Register == INSTANCE SlotRegister
    WITH Ids <- Bookings, used <- issued,
         claims <- [b \in Live |-> [date |-> bookings[b].date,
                                    slot |-> bookings[b].slot,
                                    firm |-> ~bookings[b].isOption]]

\* The hall is a register of exclusive claims.
IsRegister == Register!Spec
==============================================================================
