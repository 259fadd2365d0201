---------------------------- MODULE CheckInQueue ----------------------------
(***************************************************************************)
(* The check-in form of the event day on a tablet of the hall: saving it   *)
(* (client EventCheckInModal.tsx), the queue of saves made without a       *)
(* connection (client utils/offlineCheckInQueue.ts) and the write on the   *)
(* server (controllers/checkIn.controller.ts).                             *)
(*                                                                         *)
(* A form is the number of its save; it carries every field, so a write    *)
(* replaces the row, whether the row was there or is created.  A request   *)
(* that fails may have been served, but is not served later.  The queue    *)
(* lies in the local storage and holds one save of each booking.           *)
(***************************************************************************)
EXTENDS Naturals

CONSTANTS
    Events,     \* bookings whose form the tablet edits
    Syncs,      \* runs of syncOfflineCheckInQueue: the tablet came online again
    Evenings    \* the traffic mixes: bounds on saves and on runs

ASSUME CheckInAssumption == Evenings \subseteq [saves : Nat, runs : Nat]

VARIABLES
    evening,    \* bounds of this behaviour: saves and runs left
    saves,      \* the number of the last save
    queue,      \* the queued save of each booking, 0 for none
    sync,       \* the runs: the saves each has yet to send and those it keeps
    stored,     \* the save the server has for each booking
    open,       \* canEditCheckIn: the event is under way
    last,       \* history: the last save of each booking confirmed to the user
    raced       \* history: bookings saved beside an older queued save or a run

checkInVars == <<evening, saves, queue, sync, stored, open, last, raced>>

None == [e \in Events |-> 0]
Asleep == [awake |-> FALSE, todo |-> None, keep |-> None]

CheckInInit ==
    /\ evening \in Evenings
    /\ saves = 0
    /\ queue = None /\ stored = None
    /\ sync = [k \in Syncs |-> Asleep]
    /\ open = TRUE
    /\ last = None /\ raced = {}

\* A request is accepted, answered with an error, or fails, before or after the
\* server has served it.
Outcomes == {"ok", "refused", "failed", "unanswered"}
Possible(outcome) == IF open THEN outcome # "refused" ELSE outcome \in {"refused", "failed"}
Serves(outcome) == outcome \in {"ok", "unanswered"}

\* History: the save leaves an older one in the queue, or a run is about to write
\* the queue it read.
Races(e, outcome) ==
    \/ outcome = "ok" /\ queue[e] # 0
    \/ \E k \in Syncs : sync[k].awake

\* handleSave: an accepted save is done, a refused one stays with the user, and
\* one that failed takes the place of the queued save of its booking.
Save(e, outcome) ==
    /\ evening.saves > 0 /\ Possible(outcome)
    /\ evening' = [evening EXCEPT !.saves = @ - 1]
    /\ saves' = saves + 1
    /\ stored' = [stored EXCEPT ![e] = IF Serves(outcome) THEN saves + 1 ELSE @]
    /\ queue' = [queue EXCEPT ![e] = IF outcome \in {"failed", "unanswered"} THEN saves + 1 ELSE @]
    /\ last' = [last EXCEPT ![e] = IF outcome = "refused" THEN @ ELSE saves + 1]
    /\ raced' = IF outcome = "refused" THEN raced
                ELSE IF Races(e, outcome) THEN raced \cup {e} ELSE raced \ {e}
    /\ UNCHANGED <<sync, open>>

\* A run reads the queue; nothing keeps two runs apart.
StartSync(k) ==
    /\ ~sync[k].awake /\ evening.runs > 0 /\ queue # None
    /\ evening' = [evening EXCEPT !.runs = @ - 1]
    /\ sync' = [sync EXCEPT ![k] = [Asleep EXCEPT !.awake = TRUE, !.todo = queue]]
    /\ UNCHANGED <<saves, queue, stored, open, last, raced>>

\* Mutant: a save that the server answers with an error is not kept.
KeptIfThrown(outcome) == outcome \in {"failed", "unanswered"}

Kept(outcome) == outcome # "ok"

Put(k, e, outcome) ==
    /\ sync[k].todo[e] # 0 /\ Possible(outcome)
    /\ stored' = [stored EXCEPT ![e] = IF Serves(outcome) THEN sync[k].todo[e] ELSE @]
    /\ sync' = [sync EXCEPT ![k].todo[e] = 0,
                            ![k].keep[e] = IF Kept(outcome) THEN sync[k].todo[e] ELSE 0]
    /\ UNCHANGED <<evening, saves, queue, open, last, raced>>

\* The queue becomes what the run keeps, whatever it holds by now.
EndSync(k) ==
    /\ sync[k].awake /\ sync[k].todo = None
    /\ queue' = sync[k].keep
    /\ sync' = [sync EXCEPT ![k] = Asleep]
    /\ UNCHANGED <<evening, saves, stored, open, last, raced>>

\* The page is closed: the queue stays as it was.
SyncStops(k) ==
    /\ sync[k].awake
    /\ sync' = [sync EXCEPT ![k] = Asleep]
    /\ UNCHANGED <<evening, saves, queue, stored, open, last, raced>>

\* The event ends.
Close ==
    /\ open
    /\ open' = FALSE
    /\ UNCHANGED <<evening, saves, queue, sync, stored, last, raced>>

CheckInNext ==
    \/ Close
    \/ \E e \in Events, outcome \in Outcomes :
          \/ Save(e, outcome)
          \/ \E k \in Syncs : Put(k, e, outcome)
    \/ \E k \in Syncs : StartSync(k) \/ EndSync(k) \/ SyncStops(k)

CheckInSpec == CheckInInit /\ [][CheckInNext]_checkInVars

(***************************************************************************)
(* Properties.                                                             *)
(***************************************************************************)

\* Type invariant; a run that sleeps holds nothing.
CheckInTypeOK ==
    /\ evening \in [saves : Nat, runs : Nat]
    /\ saves \in Nat
    /\ {queue, stored, last} \subseteq [Events -> 0..saves]
    /\ sync \in [Syncs -> [awake : BOOLEAN, todo : [Events -> 0..saves],
                           keep : [Events -> 0..saves]]]
    /\ \A k \in Syncs : ~sync[k].awake => sync[k] = Asleep
    /\ open \in BOOLEAN
    /\ raced \subseteq Events

\* The last save the user was told of is on the server or still waits in the
\* tablet's queue, through lost answers, refusals, overlapping runs and closed
\* pages, unless it was made while a run was at work or beside an older queued save.
LastSaveKept == \A e \in Events \ raced : last[e] \in {stored[e], queue[e]}
=============================================================================
