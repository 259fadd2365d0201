--------------------------- MODULE MCEventCalendar ---------------------------
(***************************************************************************)
(* Instances of EventCalendar for TLC.  Dates are model values with a fixed *)
(* weekday and day of the clock; booking ids, requests and option groups    *)
(* are symmetric.  A mix of traffic says which kinds of operation arrive,   *)
(* for which dates, slots and types of event (given: the types that an edit *)
(* or a conversion names), and how many bookings and clients there are.     *)
(***************************************************************************)
EXTENDS EventCalendar, TLC

CONSTANTS thu, fri, sat

MCWeekdayOf == [d \in Dates |-> IF d = fri THEN "friday"
                                ELSE IF d = sat THEN "saturday" ELSE "weekday"]

MCDayOf == [d \in Dates |-> IF d = thu THEN 1 ELSE IF d = fri THEN 2 ELSE 3]

\* With RetentionDays = 2 and LastDay = 3, thu passes and expires, and fri
\* passes and stays: only the archive step can move it on.
MCTwoDaysApart == [d \in Dates |-> IF d = thu THEN 0 ELSE 2]

\* No date is forbidden.
MCOpen == [t \in EventTypes |-> {}]

\* Weddings are forbidden on Thursday, other events nowhere.
MCNoWeddings == [t \in EventTypes |-> IF t = "wedding" THEN {thu} ELSE {}]

Symmetry ==
    Permutations(Bookings) \cup Permutations(Requests) \cup Permutations(Groups)

------------------------------------------------------------------------------
(* Traffic *)

Some(n, S) == CHOOSE T \in SUBSET S : Cardinality(T) = n

Nothing == [kinds |-> {}, dates |-> {thu}, slots |-> {"morning", "evening"},
            types |-> {"other"}, given |-> {KeptType},
            ids |-> Some(2, Bookings), groups |-> Some(1, Groups)]

\* Events, options and conversions that give options back, on two slots; and
\* with a third booking, on one.
Creating == [Nothing EXCEPT
    !.kinds = {"confirm", "options", "convert", "giveBack"}, !.dates = {thu, fri}]

Converting == [Creating EXCEPT !.slots = {"morning"}, !.ids = Bookings]

\* Events that override options.
Overriding == [Nothing EXCEPT
    !.kinds = {"confirm", "override", "options", "convert"}, !.ids = Bookings]

\* Edits of options and of whole groups.
Editing == [Nothing EXCEPT
    !.kinds = {"option", "hold", "groupEdit", "edit", "convert", "giveBack"},
    !.dates = {thu, fri}, !.groups = Groups]

\* Weddings and other events on a date forbidden for weddings.
Weddings == [Nothing EXCEPT
    !.kinds = {"confirm", "options", "edit", "convert"},
    !.types = EventTypes, !.given = EventTypes \cup {KeptType}]

\* Siblings that a group edit takes along to another type of event.
Siblings == [Nothing EXCEPT
    !.kinds = {"options", "groupEdit"}, !.dates = {thu, fri}, !.slots = {"morning"},
    !.types = EventTypes, !.given = EventTypes \cup {KeptType}]

\* Saturday: no options, evenings only.
Saturdays == [Nothing EXCEPT
    !.kinds = {"confirm", "options", "edit", "groupEdit"}, !.dates = {thu, sat}]

\* What the calendar page does to one date.
Checking == [Nothing EXCEPT
    !.kinds = {"confirm", "option", "bookFinal", "finalize", "checking", "hold",
               "releaseDate", "sync", "extend", "lapse", "convert"}]

\* The nightly job; the date passes on the second day and expires on the third.
Nightly == [Nothing EXCEPT
    !.kinds = {"confirm", "option", "checking", "finalize", "release", "releaseDate",
               "archive", "jobAbort", "days"}]

HallMixes == {Creating, Converting, Overriding, Editing, Weddings, Siblings, Saturdays,
              Checking, Nightly}

\* Options that deadlock, and the job that has to catch up.
Progressing == {[Nothing EXCEPT
    !.kinds = {"options", "confirm", "archive", "days"}, !.dates = Dates,
    !.slots = {"morning"}, !.ids = Bookings]}

\* One option converted beside another.
Archived == {[Nothing EXCEPT
    !.kinds = {"options", "convert", "archive", "days"}, !.groups = Groups]}

\* A conversion that gives options back, and an event in between.
Freed == {[Converting EXCEPT !.slots = {"morning", "evening"}]}
==============================================================================
