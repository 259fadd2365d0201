------------------------------ MODULE Greetings ------------------------------
(***************************************************************************)
(* Scheduled greetings (Services/greetingService.ts): the row, the job that *)
(* every server instance runs each minute, and the manager who cancels.    *)
(*                                                                         *)
(* All clients of a greeting are one recipient: what matters is whether    *)
(* anything went out.  The batch of ten is never full; attachments are left *)
(* out.                                                                     *)
(***************************************************************************)
EXTENDS Naturals

CONSTANTS
    Cards,      \* scheduled greetings
    Clerks,     \* runs of the job, on any instance
    Managers,   \* requests that cancel
    Seasons     \* the traffic mixes: the greetings scheduled, process stops

ASSUME GreetingAssumption == Seasons \subseteq [stops : Nat, cards : SUBSET Cards]

VARIABLES
    season,     \* bounds of this behaviour: greetings to schedule, stops left
    card,       \* the ScheduledGreeting rows and whether their time has come
    clerk,      \* the runs of the job
    manager,    \* the requests to cancel: the greeting each has read
    sentTo,     \* history: how often each greeting went out
    answered,   \* history: greetings whose cancellation was confirmed
    crossing    \* history: those claimed before the cancellation was written

greetingVars == <<season, card, clerk, manager, sentTo, answered, crossing>>

Off == [step |-> "idle", batch |-> {}, at |-> {}, reached |-> FALSE]

GreetingInit ==
    /\ season \in Seasons
    /\ card = [c \in Cards |-> [status |-> "none", due |-> FALSE]]
    /\ clerk = [w \in Clerks |-> Off]
    /\ manager = [m \in Managers |-> {}]
    /\ sentTo = [c \in Cards |-> 0]
    /\ answered = {} /\ crossing = {}

Schedule(c) ==
    /\ c \in season.cards /\ card[c].status = "none"
    /\ card' = [card EXCEPT ![c].status = "PENDING"]
    /\ UNCHANGED <<season, clerk, manager, sentTo, answered, crossing>>

BecomesDue(c) ==
    /\ card[c].status # "none" /\ ~card[c].due
    /\ card' = [card EXCEPT ![c].due = TRUE]
    /\ UNCHANGED <<season, clerk, manager, sentTo, answered, crossing>>

(***************************************************************************)
(* processDueScheduledGreetings.                                           *)
(***************************************************************************)

Scan(w) ==
    /\ clerk[w].step = "idle"
    /\ LET due == {c \in Cards : card[c].status = "PENDING" /\ card[c].due} IN
       /\ due # {}
       /\ clerk' = [clerk EXCEPT ![w] = [Off EXCEPT !.step = "claim", !.batch = due]]
    /\ UNCHANGED <<season, card, manager, sentTo, answered, crossing>>

\* Mutant: the claim asks for the id alone.
ClaimsAny(c) == TRUE

\* Mutant: only what another run has claimed is left alone.
ClaimsUnlessTaken(c) == card[c].status \in {"PENDING", "CANCELLED"}

\* The claim is an update where the status is still PENDING.
ClaimsPending(c) == card[c].status = "PENDING"

NextOf(w, c) ==
    LET left == clerk[w].batch \ {c} IN
    IF left = {} THEN Off ELSE [Off EXCEPT !.step = "claim", !.batch = left]

Take(w, c) ==
    /\ clerk[w].step = "claim" /\ c \in clerk[w].batch
    /\ IF ClaimsPending(c)
       THEN /\ card' = [card EXCEPT ![c].status = "PROCESSING"]
            /\ clerk' = [clerk EXCEPT ![w].step = "send", ![w].at = {c}]
       ELSE /\ clerk' = [clerk EXCEPT ![w] = NextOf(w, c)]
            /\ UNCHANGED card
    /\ UNCHANGED <<season, manager, sentTo, answered, crossing>>

\* sendToAllClients: one channel of one client accepts it, or none does.
SendOut(w, c, reached) ==
    /\ clerk[w].step = "send" /\ clerk[w].at = {c}
    /\ clerk' = [clerk EXCEPT ![w].step = "store", ![w].reached = reached]
    /\ sentTo' = [sentTo EXCEPT ![c] = IF reached THEN @ + 1 ELSE @]
    /\ UNCHANGED <<season, card, manager, answered, crossing>>

\* The outcome is written whatever the status has become; a statement that fails
\* after the sending makes it FAILED too.
StoreOutcome(w, c) ==
    /\ clerk[w].step = "store" /\ clerk[w].at = {c}
    /\ \E outcome \in IF clerk[w].reached THEN {"SENT", "FAILED"} ELSE {"FAILED"} :
          card' = [card EXCEPT ![c].status = outcome]
    /\ clerk' = [clerk EXCEPT ![w] = NextOf(w, c)]
    /\ UNCHANGED <<season, manager, sentTo, answered, crossing>>

\* A stop of the process: what it had claimed stays in PROCESSING.
ClerkStops(w) ==
    /\ clerk[w].step # "idle" /\ season.stops > 0
    /\ season' = [season EXCEPT !.stops = @ - 1]
    /\ clerk' = [clerk EXCEPT ![w] = Off]
    /\ UNCHANGED <<card, manager, sentTo, answered, crossing>>

(***************************************************************************)
(* cancelScheduledGreeting reads the status, then writes by id.            *)
(***************************************************************************)

AskCancel(m, c) ==
    /\ manager[m] = {} /\ card[c].status = "PENDING"
    /\ manager' = [manager EXCEPT ![m] = {c}]
    /\ UNCHANGED <<season, card, clerk, sentTo, answered, crossing>>

Cancel(m, c) ==
    /\ manager[m] = {c}
    /\ card' = [card EXCEPT ![c].status = "CANCELLED"]
    /\ manager' = [manager EXCEPT ![m] = {}]
    /\ answered' = answered \cup {c}
    /\ crossing' = IF card[c].status \in {"PENDING", "CANCELLED"} THEN crossing
                   ELSE crossing \cup {c}
    /\ UNCHANGED <<season, clerk, sentTo>>

GreetingNext ==
    \/ \E c \in Cards :
          \/ Schedule(c) \/ BecomesDue(c)
          \/ \E w \in Clerks :
                \/ Take(w, c) \/ StoreOutcome(w, c)
                \/ \E reached \in BOOLEAN : SendOut(w, c, reached)
          \/ \E m \in Managers : AskCancel(m, c) \/ Cancel(m, c)
    \/ \E w \in Clerks : Scan(w) \/ ClerkStops(w)

GreetingSpec == GreetingInit /\ [][GreetingNext]_greetingVars

(***************************************************************************)
(* Properties.                                                             *)
(***************************************************************************)

\* Type invariant; a run holds at most one greeting of its batch.
GreetingTypeOK ==
    /\ season \in [stops : Nat, cards : SUBSET Cards]
    /\ card \in [Cards -> [status : {"none", "PENDING", "PROCESSING", "SENT", "FAILED",
                                     "CANCELLED"},
                           due : BOOLEAN]]
    /\ clerk \in [Clerks -> [step : {"idle", "claim", "send", "store"}, batch : SUBSET Cards,
                             at : {{}} \cup {{c} : c \in Cards}, reached : BOOLEAN]]
    /\ manager \in [Managers -> {{}} \cup {{c} : c \in Cards}]
    /\ sentTo \in [Cards -> Nat]
    /\ answered \subseteq Cards /\ crossing \subseteq Cards

\* A greeting goes out once at most, from whatever number of instances, process
\* stops and cancellations that write over the claim.
GreetingOnce == \A c \in Cards : sentTo[c] <= 1

\* A greeting whose cancellation was confirmed never goes out, before or after,
\* unless a run of the job claimed it between the manager's read and write.
CancelledIsQuiet == \A c \in answered \ crossing : sentTo[c] = 0
=============================================================================
