----------------------------- MODULE EventCodes -----------------------------
(***************************************************************************)
(* The order numbers of bookings (utils/eventCode.ts): a counter in the    *)
(* settings row, read and written back by every transaction that creates a *)
(* booking (createBooking), by operations that only want a number          *)
(* (option.controller, finalizeBooking) and by every server that starts.   *)
(*                                                                         *)
(* The database runs at READ COMMITTED: the counter is read without a lock, *)
(* and its update waits for the transaction that updated it before, which  *)
(* also holds date rows.  eventCode is unique.  Dates that have no row yet, *)
(* the padding of a code and what else a booking holds are left out.       *)
(***************************************************************************)
EXTENDS Naturals, Sequences, FiniteSetsExt

CONSTANTS
    Registrars,  \* requests that need a number
    Days,        \* dates
    Settings,    \* the settings row, as one more row to lock
    Free,        \* no holder of a lock
    Numberings   \* the traffic mixes: requests and server starts

ASSUME NumberingAssumption ==
    /\ Numberings \subseteq [requests : Nat, starts : Nat]
    /\ Settings \notin Days /\ Free \notin Registrars

VARIABLES
    numbering,   \* bounds of this behaviour: requests and server starts left
    nextNumber,  \* systemSettings.nextEventNumber, as committed
    codes,       \* the codes of the committed bookings
    holder,      \* who holds the lock of each row
    registrar,   \* the requests
    boot,        \* a server that starts: initOrderSequence
    rewound      \* history: numbers the counter may give out again

numberVars == <<numbering, nextNumber, codes, holder, registrar, boot, rewound>>

Prefixes == {"OPT", "EVT"}
Code(prefix, n) == [prefix |-> prefix, n |-> n]
Codes == [prefix : Prefixes, n : Nat]
Waiting == [step |-> "idle", prefix |-> "EVT", dates |-> <<>>, alone |-> FALSE,
            read |-> 0, own |-> 0, taken |-> {}]
NotBooting == [step |-> "idle", highest |-> 0, seen |-> 0]

NumberInit ==
    /\ numbering \in Numberings
    /\ nextNumber = 0 /\ codes = {}
    /\ holder = [x \in Days \cup {Settings} |-> Free]
    /\ registrar = [r \in Registrars |-> Waiting]
    /\ boot = NotBooting
    /\ rewound = {}

Begins(r, request) ==
    /\ registrar[r].step = "idle" /\ numbering.requests > 0
    /\ numbering' = [numbering EXCEPT !.requests = @ - 1]
    /\ registrar' = [registrar EXCEPT ![r] = request]
    /\ UNCHANGED <<nextNumber, codes, holder, boot, rewound>>

\* createBooking: an event has one date, an option one or more, in the order of
\* the request.
AskBooking(r, prefix, dates) ==
    /\ prefix = "EVT" => Len(dates) = 1
    /\ Begins(r, [Waiting EXCEPT !.step = "lock", !.prefix = prefix, !.dates = dates])

\* allocateEventCode without a transaction of the caller.
AskNumber(r, prefix) ==
    Begins(r, [Waiting EXCEPT !.step = "read", !.prefix = prefix, !.alone = TRUE])

LockDay(r) ==
    /\ registrar[r].step = "lock"
    /\ LET d == Head(registrar[r].dates) IN
       /\ holder[d] \in {Free, r}
       /\ holder' = [holder EXCEPT ![d] = r]
    /\ registrar' = [registrar EXCEPT ![r].step = "read", ![r].dates = Tail(@)]
    /\ UNCHANGED <<numbering, nextNumber, codes, boot, rewound>>


\* What the transaction sees: its own update before the committed row.
SeenNumber(r) == IF registrar[r].own > 0 THEN registrar[r].own ELSE nextNumber

ReadNumber(r) ==
    /\ registrar[r].step = "read"
    /\ registrar' = [registrar EXCEPT ![r].step = "write", ![r].read = SeenNumber(r)]
    /\ UNCHANGED <<numbering, nextNumber, codes, holder, boot, rewound>>

\* History: an update of a counter that has moved on since it was read gives out
\* those numbers once more.
Rewinds(seen, first) == IF seen = nextNumber THEN {} ELSE first..nextNumber

WriteNumber(r) ==
    /\ registrar[r].step = "write" /\ holder[Settings] \in {Free, r}
    /\ holder' = [holder EXCEPT ![Settings] = r]
    /\ registrar' = [registrar EXCEPT ![r].step = IF registrar[r].alone THEN "commit" ELSE "insert",
                                      ![r].own = registrar[r].read + 1]
    /\ rewound' = IF registrar[r].own > 0 THEN rewound
                  ELSE rewound \cup Rewinds(registrar[r].read, registrar[r].read + 1)
    /\ UNCHANGED <<numbering, nextNumber, codes, boot>>

Released(r) == [x \in DOMAIN holder |-> IF holder[x] = r THEN Free ELSE holder[x]]

\* A transaction that fails takes its update of the counter back.
Abandon(r) ==
    /\ holder' = Released(r)
    /\ registrar' = [registrar EXCEPT ![r] = Waiting]
    /\ UNCHANGED <<numbering, nextNumber, codes, boot, rewound>>

InsertBooking(r) ==
    /\ registrar[r].step = "insert"
    /\ LET code == Code(registrar[r].prefix, registrar[r].own) IN
       /\ code \notin codes
       /\ registrar' = [registrar EXCEPT ![r].taken = @ \cup {code},
                            ![r].step = IF registrar[r].dates = <<>> THEN "commit" ELSE "lock"]
    /\ UNCHANGED <<numbering, nextNumber, codes, holder, boot, rewound>>

\* The unique index refuses the code: the request fails.
CodeTaken(r) ==
    /\ registrar[r].step = "insert"
    /\ Code(registrar[r].prefix, registrar[r].own) \in codes
    /\ Abandon(r)

\* The slot is taken, or a rule forbids it.
SlotRefused(r) == registrar[r].step = "read" /\ ~registrar[r].alone /\ Abandon(r)

CommitNumber(r) ==
    /\ registrar[r].step = "commit"
    /\ nextNumber' = registrar[r].own
    /\ codes' = codes \cup registrar[r].taken
    /\ holder' = Released(r)
    /\ registrar' = [registrar EXCEPT ![r] =
          IF @.alone THEN [@ EXCEPT !.step = "use"] ELSE Waiting]
    /\ UNCHANGED <<numbering, boot, rewound>>

\* The booking of a lone number is written afterwards, or never.
UseNumber(r) ==
    /\ registrar[r].step = "use"
    /\ \E written \in BOOLEAN :
          codes' = IF written THEN codes \cup {Code(registrar[r].prefix, registrar[r].own)}
                   ELSE codes
    /\ registrar' = [registrar EXCEPT ![r] = Waiting]
    /\ UNCHANGED <<numbering, nextNumber, holder, boot, rewound>>

(***************************************************************************)
(* Two transactions that wait for each other: the database fails one.      *)
(***************************************************************************)
Wanted(r) ==
    CASE registrar[r].step = "lock"  -> {Head(registrar[r].dates)}
      [] registrar[r].step = "write" -> {Settings}
      [] OTHER -> {}
WaitsFor(r, q) == r # q /\ \E x \in Wanted(r) : holder[x] = q

Deadlock(r) == (\E q \in Registrars : WaitsFor(r, q) /\ WaitsFor(q, r)) /\ Abandon(r)

\* convertOptionCodeToEventCode: the booking keeps its number; the unique index
\* refuses a code that is there and waits for one that is being inserted.
ConvertCode(n) ==
    /\ Code("OPT", n) \in codes /\ Code("EVT", n) \notin codes
    /\ \A r \in Registrars : Code("EVT", n) \notin registrar[r].taken
    /\ codes' = (codes \ {Code("OPT", n)}) \cup {Code("EVT", n)}
    /\ UNCHANGED <<numbering, nextNumber, holder, registrar, boot, rewound>>

(***************************************************************************)
(* initOrderSequence, before a server listens; another one may be at work. *)
(***************************************************************************)
BootScan ==
    /\ boot.step = "idle" /\ numbering.starts > 0
    /\ numbering' = [numbering EXCEPT !.starts = @ - 1]
    /\ boot' = [boot EXCEPT !.step = "compare", !.highest = Max({c.n : c \in codes} \cup {0})]
    /\ UNCHANGED <<nextNumber, codes, holder, registrar, rewound>>

\* Mutant: the counter is set to the highest number whatever it is.
AlwaysBehind == TRUE

Behind == nextNumber < boot.highest

BootCompare ==
    /\ boot.step = "compare"
    /\ boot' = IF Behind THEN [boot EXCEPT !.step = "raise", !.seen = nextNumber] ELSE NotBooting
    /\ UNCHANGED <<numbering, nextNumber, codes, holder, registrar, rewound>>

BootRaise ==
    /\ boot.step = "raise" /\ holder[Settings] = Free
    /\ nextNumber' = boot.highest
    /\ rewound' = rewound \cup Rewinds(boot.seen, boot.highest + 1)
    /\ boot' = NotBooting
    /\ UNCHANGED <<numbering, codes, holder, registrar>>

DateLists == {<<d>> : d \in Days} \cup UNION {{<<d, e>> : e \in Days \ {d}} : d \in Days}

NumberNext ==
    \/ \E r \in Registrars :
          \/ \E prefix \in Prefixes :
                \/ AskNumber(r, prefix)
                \/ \E dates \in DateLists : AskBooking(r, prefix, dates)
          \/ LockDay(r) \/ ReadNumber(r) \/ WriteNumber(r) \/ InsertBooking(r) \/ CodeTaken(r)
          \/ SlotRefused(r) \/ CommitNumber(r) \/ UseNumber(r) \/ Deadlock(r)
    \/ \E n \in {c.n : c \in codes} : ConvertCode(n)
    \/ BootScan \/ BootCompare \/ BootRaise

NumberSpec == NumberInit /\ [][NumberNext]_numberVars

(***************************************************************************)
(* Properties.                                                             *)
(***************************************************************************)

\* Type invariant; only the holder of the settings row has written a number, and
\* an idle request holds nothing.
NumberTypeOK ==
    /\ numbering \in [requests : Nat, starts : Nat]
    /\ nextNumber \in Nat /\ rewound \subseteq Nat
    /\ codes \subseteq Codes
    /\ holder \in [Days \cup {Settings} -> Registrars \cup {Free}]
    /\ DOMAIN registrar = Registrars
    /\ \A r \in Registrars :
          /\ registrar[r].step \in {"idle", "lock", "read", "write", "insert", "commit", "use"}
          /\ registrar[r].taken \subseteq Codes
          /\ registrar[r].own > 0 /\ registrar[r].step # "use" => holder[Settings] = r
          /\ registrar[r].step = "idle" => \A x \in DOMAIN holder : holder[x] # r
    /\ boot \in [step : {"idle", "compare", "raise"}, highest : Nat, seen : Nat]

\* A number is on one booking: an option's number never stands on an event too,
\* which could not be converted beside it, through failed requests, deadlocks, lone
\* numbers and servers that start, unless the counter was written back after it
\* had moved on.
NumberOnOneBooking ==
    \A c, e \in codes : c # e => c.n # e.n \/ c.n \in rewound
=============================================================================
