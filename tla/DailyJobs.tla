----------------------------- MODULE DailyJobs ------------------------------
(***************************************************************************)
(* The daily jobs about one closed event (utils/cronJobs.ts): at 00:00 the *)
(* archive, at 08:00 the reminder of an overdue payment                    *)
(* (paymentDeadlineService.ts), at 09:15 the financial summary of          *)
(* yesterday (eventFinancialSummary.service.ts).  Every server instance    *)
(* that is up at an hour runs its job, which ends within the day.          *)
(*                                                                         *)
(* The installment that is overdue is the one due a week before the event; *)
(* the days here are of that week and after it.  The messages to the       *)
(* client and to the manager are one reminder, and one summary.            *)
(***************************************************************************)
EXTENDS Integers, FiniteSets

CONSTANTS
    Servers,   \* server instances
    EventDay,  \* the day of the event
    LastDay,   \* the last day of a behaviour
    Weeks      \* the traffic mixes: days to come, outages and failed messages

ASSUME JobsAssumption ==
    /\ EventDay \in Nat /\ LastDay \in Nat
    /\ Weeks \subseteq [days : 0..LastDay, outages : Nat, failures : Nat]

VARIABLES
    week,       \* bounds of this behaviour
    clock,      \* the day and the hour
    event,      \* the columns of the booking and its date that the jobs read
    down,       \* instances that are not running
    ran,        \* instances that have started the job of the hour
    reminder,   \* the payment job of each instance
    summary,    \* the summary job of each instance
    reminded,   \* reminders sent, by day
    summaries,  \* summaries sent
    owed,       \* history: days on which the job found the payment overdue
    troubled    \* history: days on which an instance was down or a message failed

jobVars == <<week, clock, event, down, ran, reminder, summary, reminded, summaries, owed, troubled>>

Hours == {"midnight", "eight", "nine"}

JobsInit ==
    /\ week \in Weeks
    /\ clock = [day |-> 0, hour |-> "nine"]
    /\ event = [archived |-> FALSE, paid |-> FALSE, lastReminder |-> -1, summarised |-> FALSE]
    /\ down = {} /\ ran = Servers
    /\ reminder = [s \in Servers |-> "none"]
    /\ summary = [s \in Servers |-> FALSE]
    /\ reminded = [d \in 0..LastDay |-> 0] /\ summaries = 0
    /\ owed = {} /\ troubled = {}

JobsDone == \A s \in Servers : reminder[s] = "none" /\ ~summary[s]

\* node-cron starts a job in every instance that is up.
NextHour ==
    /\ ran \cup down = Servers
    /\ clock.hour = "nine" => JobsDone
    /\ clock' = CASE clock.hour = "midnight" -> [clock EXCEPT !.hour = "eight"]
                  [] clock.hour = "eight"    -> [clock EXCEPT !.hour = "nine"]
                  [] clock.hour = "nine"     -> [day |-> clock.day + 1, hour |-> "midnight"]
    /\ clock'.day <= week.days
    /\ ran' = {}
    /\ troubled' = IF down = {} THEN troubled ELSE troubled \cup {clock'.day}
    /\ UNCHANGED <<week, event, down, reminder, summary, reminded, summaries, owed>>

Runs(s, hour) ==
    /\ clock.hour = hour /\ s \notin ran \cup down
    /\ ran' = ran \cup {s}

\* archivePastEvents: closed events of yesterday or earlier.
ArchiveJob(s) ==
    /\ Runs(s, "midnight")
    /\ event' = [event EXCEPT !.archived = @ \/ EventDay < clock.day]
    /\ UNCHANGED <<week, clock, down, reminder, summary, reminded, summaries, owed, troubled>>

(***************************************************************************)
(* checkOverduePayments.                                                   *)
(***************************************************************************)

Overdue == ~event.archived /\ ~event.paid

\* The scan.
PaymentJob(s) ==
    /\ Runs(s, "eight")
    /\ reminder' = IF Overdue /\ event.lastReminder < clock.day
                   THEN [reminder EXCEPT ![s] = "claim"]
                   ELSE reminder
    /\ owed' = IF Overdue THEN owed \cup {clock.day} ELSE owed
    /\ UNCHANGED <<week, clock, event, down, summary, reminded, summaries, troubled>>

\* Mutant: the reminder is claimed although it was claimed since the scan.
ClaimedByNobody == TRUE

NotRemindedToday == event.lastReminder < clock.day

\* claimDailyReminderSlot.
ClaimReminder(s) ==
    /\ reminder[s] = "claim"
    /\ IF NotRemindedToday
       THEN /\ event' = [event EXCEPT !.lastReminder = clock.day]
            /\ reminder' = [reminder EXCEPT ![s] = "send"]
       ELSE /\ reminder' = [reminder EXCEPT ![s] = "none"]
            /\ UNCHANGED event
    /\ UNCHANGED <<week, clock, down, ran, summary, reminded, summaries, owed, troubled>>

\* The claim is not given back when a message fails.
SendReminder(s) ==
    /\ reminder[s] = "send"
    /\ reminder' = [reminder EXCEPT ![s] = "none"]
    /\ \/ /\ reminded' = [reminded EXCEPT ![clock.day] = @ + 1]
          /\ UNCHANGED <<week, troubled>>
       \/ /\ week.failures > 0 /\ week' = [week EXCEPT !.failures = @ - 1]
          /\ troubled' = troubled \cup {clock.day}
          /\ UNCHANGED reminded
    /\ UNCHANGED <<clock, event, down, ran, summary, summaries, owed>>

PayBill ==
    /\ ~event.paid /\ clock.day > 0
    /\ event' = [event EXCEPT !.paid = TRUE]
    /\ UNCHANGED <<week, clock, down, ran, reminder, summary, reminded, summaries, owed, troubled>>

(***************************************************************************)
(* processPreviousDayFinancialSummaries.                                   *)
(***************************************************************************)

SummaryJob(s) ==
    /\ Runs(s, "nine") /\ ~summary[s]
    /\ summary' = [summary EXCEPT ![s] = /\ clock.day = EventDay + 1
                                         /\ ~event.archived /\ ~event.summarised]
    /\ UNCHANGED <<week, clock, event, down, reminder, reminded, summaries, owed, troubled>>

\* The summary is noted after it was sent; one that fails is left.
SendSummary(s) ==
    /\ summary[s]
    /\ summary' = [summary EXCEPT ![s] = FALSE]
    /\ \/ /\ summaries' = summaries + 1
          /\ event' = [event EXCEPT !.summarised = TRUE]
          /\ UNCHANGED <<week, troubled>>
       \/ /\ week.failures > 0 /\ week' = [week EXCEPT !.failures = @ - 1]
          /\ troubled' = troubled \cup {clock.day}
          /\ UNCHANGED <<summaries, event>>
    /\ UNCHANGED <<clock, down, ran, reminder, reminded, owed>>

(***************************************************************************)
(* An instance stops, and comes back.                                      *)
(***************************************************************************)

ServerStops(s) ==
    /\ s \notin down /\ week.outages > 0
    /\ week' = [week EXCEPT !.outages = @ - 1]
    /\ down' = down \cup {s}
    /\ reminder' = [reminder EXCEPT ![s] = "none"]
    /\ summary' = [summary EXCEPT ![s] = FALSE]
    /\ troubled' = troubled \cup {clock.day}
    /\ UNCHANGED <<clock, event, ran, reminded, summaries, owed>>

\* The jobs of the hour have been missed.
ServerStarts(s) ==
    /\ s \in down
    /\ down' = down \ {s} /\ ran' = ran \cup {s}
    /\ UNCHANGED <<week, clock, event, reminder, summary, reminded, summaries, owed, troubled>>

JobsNext ==
    \/ NextHour \/ PayBill
    \/ \E s \in Servers :
          \/ ArchiveJob(s)
          \/ PaymentJob(s) \/ ClaimReminder(s) \/ SendReminder(s)
          \/ SummaryJob(s) \/ SendSummary(s)
          \/ ServerStops(s) \/ ServerStarts(s)

JobsSpec == JobsInit /\ [][JobsNext]_jobVars

(***************************************************************************)
(* Properties.                                                             *)
(***************************************************************************)

\* Type invariant.
JobsTypeOK ==
    /\ week \in [days : 0..LastDay, outages : Nat, failures : Nat]
    /\ clock \in [day : 0..LastDay, hour : Hours]
    /\ event \in [archived : BOOLEAN, paid : BOOLEAN, lastReminder : -1..LastDay,
                  summarised : BOOLEAN]
    /\ down \subseteq Servers /\ ran \subseteq Servers
    /\ reminder \in [Servers -> {"none", "claim", "send"}]
    /\ summary \in [Servers -> BOOLEAN]
    /\ reminded \in [0..LastDay -> Nat] /\ summaries \in Nat
    /\ owed \subseteq 0..LastDay /\ troubled \subseteq 0..LastDay

\* Once a day for each booking (paymentDeadlineService.ts:244-247), on however many
\* instances the job runs: never twice on a day, and, with the jobs done, once on
\* every day the payment was found overdue, unless an instance was down or a message
\* failed that day (the claim is not given back).
RemindedOncePerDay ==
    /\ \A d \in 0..LastDay : reminded[d] <= 1
    /\ JobsDone => \A d \in owed \ troubled : reminded[d] = 1

\* The claim of eventFinancialSummary.service.ts:3: the summary is sent on the
\* morning after the event.
SummaryArrives ==
    clock.day > EventDay + 1 /\ EventDay + 1 \notin troubled /\ JobsDone => summaries > 0
=============================================================================
