---------------------------- MODULE CalendarCache ----------------------------
(***************************************************************************)
(* The month on the screens of the staff.  A change of the calendar is     *)
(* committed, announced to every screen through Socket.io (realtime.ts),    *)
(* and then the Redis copy of the month is removed (cacheMiddleware.ts      *)
(* invalidateCache).  A screen that is told asks again (realtimeSync.ts)    *)
(* and is answered from the copy, or from the database: that answer is     *)
(* sent, and stored as the copy afterwards.  Some handlers leave the copy, *)
(* and some tell nobody either.                                            *)
(*                                                                         *)
(* The month is a version.  There is one cached month; the half minute     *)
(* before a lost connection is tried again is part of Redis being away.    *)
(***************************************************************************)
EXTENDS Naturals, Sequences, Bags

CONSTANTS
    Screens,  \* screens that show the month; each makes one change at a time
    Night,    \* the nightly archive job
    Absent,   \* the month is not in the cache
    Traffics  \* the traffic mixes

ASSUME CacheAssumption ==
    /\ Traffics \subseteq [changes : Nat, nights : Nat, repairs : Nat, outages : Nat, losses : Nat]
    /\ Night \notin Screens /\ Absent \notin Nat

VARIABLES
    traffic,  \* bounds of this behaviour
    board,    \* the version of the month in the database
    cached,   \* the version Redis holds
    up,       \* Redis answers
    change,   \* what each change has still to do
    screen,   \* the version shown, and whether a request is on its way
    fills,    \* the answers that are still to be stored, a bag of versions
    settled,  \* history: the newest version whose clearing is over
    tainted,  \* history: the copy outlived a clearing, or was stored after it
    misled    \* history: screens answered too early, or not told

cacheVars == <<traffic, board, cached, up, change, screen, fills, settled, tainted, misled>>

CacheInit ==
    /\ traffic \in Traffics
    /\ board = 0 /\ cached = Absent /\ up = TRUE
    /\ change = [w \in Screens \cup {Night} |-> <<>>]
    /\ screen = [s \in Screens |-> [shown |-> 0, asks |-> FALSE]]
    /\ fills = EmptyBag
    /\ settled = 0 /\ tainted = FALSE /\ misled = {}

(***************************************************************************)
(* A change.                                                               *)
(***************************************************************************)

\* createBooking, updateBooking, finalizeBooking, release and bump.
CommitFirst == <<"commit", "tell", "clear", "answer">>

\* lockDateForChecking, releaseDate and saveOptionHold tell from inside the
\* transaction; their controllers clear.
TellFirst == <<"tell", "commit", "clear", "answer">>

\* archivePastEvents clears nothing; nor do those who change a booking shown in the
\* month: addBookingUpgrade, addEventAddition, upsertForm, issueEasyCountReceipt.
TellOnly == <<"commit", "tell">>

MakeChange(s, steps) ==
    /\ traffic.changes > 0 /\ change[s] = <<>>
    /\ traffic' = [traffic EXCEPT !.changes = @ - 1]
    /\ change' = [change EXCEPT ![s] = steps]
    /\ UNCHANGED <<board, cached, up, screen, fills, settled, tainted, misled>>

ArchiveNight ==
    /\ traffic.nights > 0 /\ change[Night] = <<>>
    /\ traffic' = [traffic EXCEPT !.nights = @ - 1]
    /\ change' = [change EXCEPT ![Night] = TellOnly]
    /\ UNCHANGED <<board, cached, up, screen, fills, settled, tainted, misled>>

\* syncEventDateWithOptionBookings, when a list of options is asked for
\* (syncDesyncedOptionDates), related options are, or an option's client is written to:
\* a date is made an OPTION again, or given a deadline, and that is all.
RepairDate ==
    /\ traffic.repairs > 0
    /\ traffic' = [traffic EXCEPT !.repairs = @ - 1]
    /\ board' = board + 1 /\ settled' = board + 1
    /\ tainted' = TRUE
    /\ misled' = misled \cup {s \in Screens : ~screen[s].asks}
    /\ UNCHANGED <<cached, up, change, screen, fills>>

Remaining(w) == {change[w][i] : i \in DOMAIN change[w]}

Does(w, next) ==
    /\ change[w] # <<>> /\ Head(change[w]) = next
    /\ change' = [change EXCEPT ![w] = Tail(@)]

CommitChange(w) ==
    /\ Does(w, "commit")
    /\ board' = board + 1
    /\ settled' = IF "clear" \in Remaining(w) THEN settled ELSE board + 1
    /\ tainted' = ("clear" \notin Remaining(w) \/ tainted)
    /\ UNCHANGED <<traffic, cached, up, screen, fills, misled>>

\* A screen drops the answer it waits for and asks again; one whose connection is
\* lost is not told, nor when it is back.
TellScreens(w, told) ==
    /\ Does(w, "tell")
    /\ told = Screens \/ traffic.losses > 0
    /\ traffic' = IF told = Screens THEN traffic ELSE [traffic EXCEPT !.losses = @ - 1]
    /\ screen' = [s \in Screens |-> [screen[s] EXCEPT !.asks = @ \/ s \in told]]
    /\ misled' = misled \cup {s \in Screens \ told : ~screen[s].asks}
    /\ UNCHANGED <<board, cached, up, fills, settled, tainted>>

\* Mutant: the service returns without clearing (tests/calendarCacheInvalidation.test.ts:4-7).
ReturnsAtOnce(w) ==
    /\ Does(w, "clear")
    /\ UNCHANGED <<traffic, board, cached, up, screen, fills, settled, tainted, misled>>

ClearCache(w) ==
    /\ Does(w, "clear")
    /\ cached' = IF up THEN Absent ELSE cached
    /\ settled' = board
    /\ tainted' = ~up
    /\ UNCHANGED <<traffic, board, up, screen, fills, misled>>

\* The client asks for its own month again (invalidateCalendarData).
AnswerChange(s) ==
    /\ Does(s, "answer")
    /\ screen' = [screen EXCEPT ![s].asks = TRUE]
    /\ UNCHANGED <<traffic, board, cached, up, fills, settled, tainted, misled>>

(***************************************************************************)
(* GET /calendar/dates.                                                    *)
(***************************************************************************)

\* History: a change was announced, and this step of it is still to come.
Announced(step) ==
    \E w \in DOMAIN change : step \in Remaining(w) /\ "tell" \notin Remaining(w)

Shows(s, version, early) ==
    /\ screen[s].asks
    /\ screen' = [screen EXCEPT ![s] = [shown |-> version, asks |-> FALSE]]
    /\ misled' = IF early THEN misled \cup {s} ELSE misled \ {s}

Hit(s) ==
    /\ up /\ cached # Absent
    /\ Shows(s, cached, tainted \/ Announced("clear"))
    /\ UNCHANGED <<traffic, board, cached, up, change, fills, settled, tainted>>

\* Nothing is cached, Redis is away, or it does not answer within a second.
Miss(s) ==
    /\ Shows(s, board, Announced("commit"))
    /\ fills' = IF up THEN fills (+) SetToBag({board}) ELSE fills
    /\ UNCHANGED <<traffic, board, cached, up, change, settled, tainted>>

\* The SET of an answer is not awaited; it fails when Redis is away.
StoreAnswer(version) ==
    /\ fills' = fills (-) SetToBag({version})
    /\ cached' = IF up THEN version ELSE cached
    /\ tainted' = IF up THEN version < settled ELSE tainted
    /\ UNCHANGED <<traffic, board, up, change, screen, settled, misled>>

Expire ==
    /\ cached # Absent /\ cached' = Absent
    /\ UNCHANGED <<traffic, board, up, change, screen, fills, settled, tainted, misled>>

RedisDrops ==
    /\ up /\ traffic.outages > 0
    /\ up' = FALSE
    /\ traffic' = [traffic EXCEPT !.outages = @ - 1]
    /\ UNCHANGED <<board, cached, change, screen, fills, settled, tainted, misled>>

RedisReturns ==
    /\ ~up /\ up' = TRUE
    /\ UNCHANGED <<traffic, board, cached, change, screen, fills, settled, tainted, misled>>

CacheNext ==
    \/ \E s \in Screens :
          \/ MakeChange(s, CommitFirst) \/ MakeChange(s, TellFirst) \/ MakeChange(s, TellOnly)
          \/ AnswerChange(s) \/ Hit(s) \/ Miss(s)
    \/ ArchiveNight \/ RepairDate
    \/ \E w \in Screens \cup {Night} :
          \/ CommitChange(w) \/ ClearCache(w)
          \/ \E told \in SUBSET Screens : TellScreens(w, told)
    \/ \E version \in BagToSet(fills) : StoreAnswer(version)
    \/ Expire \/ RedisDrops \/ RedisReturns

CacheSpec == CacheInit /\ [][CacheNext]_cacheVars

(***************************************************************************)
(* Properties.                                                             *)
(***************************************************************************)

\* Type invariant.
CacheTypeOK ==
    /\ traffic \in [changes : Nat, nights : Nat, repairs : Nat, outages : Nat, losses : Nat]
    /\ board \in Nat /\ cached \in Nat \cup {Absent} /\ up \in BOOLEAN
    /\ \A w \in Screens \cup {Night} : Remaining(w) \subseteq {"commit", "tell", "clear", "answer"}
    /\ screen \in [Screens -> [shown : Nat, asks : BOOLEAN]]
    /\ IsABag(fills) /\ BagToSet(fills) \subseteq Nat
    /\ settled \in Nat /\ tainted \in BOOLEAN /\ misled \subseteq Screens

\* When no change is underway, the copy is the month as it is, and so is every
\* screen that has its answer.  Excused: a copy that outlived a clearing (Redis was
\* away), or a change after which nothing is cleared (TellOnly, RepairDate), or was
\* stored after either; and a screen that was not told (its connection was lost, or
\* RepairDate tells nobody), or was answered from an excused copy, or between an
\* announcement and the commit or the clearing that followed it.
ScreenFresh ==
    (\A w \in DOMAIN change : change[w] = <<>>) =>
       /\ ~tainted => cached \in {board, Absent}
       /\ \A s \in Screens : ~screen[s].asks /\ s \notin misled => screen[s].shown = board
=============================================================================
