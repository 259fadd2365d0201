----------------------------- MODULE JobsProofs -----------------------------
(***************************************************************************)
(* Theorems about work that several runs do at once: the payment reminders *)
(* of DailyJobs, Greetings and CheckInQueue, for any number of instances,  *)
(* runs and bookings, and every mix of traffic.                            *)
(***************************************************************************)
EXTENDS DailyJobs, Greetings, CheckInQueue, TLAPS

(***************************************************************************)
(* The payment reminders.                                                  *)
(***************************************************************************)

WatchedDays == 0..LastDay
Sending(s) == reminder[s] = "send"
Claiming(s) == reminder[s] = "claim"

\* Nothing has happened on the days to come.
Ahead ==
    /\ event.lastReminder <= clock.day
    /\ \A d \in owed : d <= clock.day
    /\ \A d \in WatchedDays : d > clock.day => reminded[d] = 0

\* An instance works on reminders only after it has started the job of the day.
RemindersAtWork ==
    \A s \in Servers : reminder[s] # "none" =>
       /\ clock.hour # "midnight"
       /\ clock.hour = "eight" => s \in ran \cup down

\* The column lastReminder admits one sender a day, who has sent nothing yet.
OneSender ==
    /\ \A d \in WatchedDays : reminded[d] <= 1
    /\ reminded[clock.day] > 0 => event.lastReminder = clock.day
    /\ \A s \in Servers : Sending(s) => event.lastReminder = clock.day /\ reminded[clock.day] = 0
    /\ \A s, t \in Servers : Sending(s) /\ Sending(t) => s = t

\* A day that was claimed is being served or has been, unless it was troubled.
Claimed ==
    event.lastReminder = clock.day /\ clock.day \notin troubled =>
       reminded[clock.day] = 1 \/ \E s \in Servers : Sending(s)

\* A payment found overdue is being taken care of, until the day is over.
Pursued ==
    \A d \in owed \ troubled :
       \/ reminded[d] = 1
       \/ /\ d = clock.day
          /\ \/ \E s \in Servers : Sending(s)
             \/ event.lastReminder < clock.day /\ \E s \in Servers : Claiming(s)

ReminderInv == JobsTypeOK /\ Ahead /\ RemindersAtWork /\ OneSender /\ Claimed /\ Pursued

\* The first morning: nothing is owed, claimed or sent.
LEMMA ReminderInitial == JobsInit => ReminderInv
BY JobsAssumption
   DEF JobsInit, ReminderInv, JobsTypeOK, Hours, Ahead, RemindersAtWork, OneSender, Claimed, Pursued, WatchedDays,
       Sending, Claiming

\* A new hour: the jobs of the day before have come to their end.
LEMMA HourKeeps == ASSUME ReminderInv, NextHour PROVE ReminderInv'
<1> USE JobsAssumption
<1> SUFFICES ASSUME JobsTypeOK, Ahead, RemindersAtWork, OneSender, Claimed, Pursued, NextHour
             PROVE  ReminderInv'
  BY DEF ReminderInv
<1>1. /\ clock' \in [day : 0..LastDay, hour : Hours]
      /\ \/ clock'.day = clock.day /\ clock.hour # "nine" /\ clock'.hour # "midnight"
            /\ (clock'.hour = "eight" => clock.hour = "midnight")
         \/ clock'.day = clock.day + 1 /\ clock.hour = "nine" /\ clock'.hour = "midnight"
  <2>1. clock \in [day : 0..LastDay, hour : Hours] /\ week.days \in 0..LastDay
    BY DEF JobsTypeOK
  <2>2. CASE clock.hour = "nine"
    BY <2>1, <2>2 DEF NextHour, Hours
  <2>3. CASE clock.hour # "nine"
    BY <2>1, <2>3 DEF NextHour, Hours
  <2> QED BY <2>2, <2>3
<1>2. JobsTypeOK'
  BY <1>1 DEF NextHour, JobsTypeOK
<1>3. clock.hour = "nine" => \A s \in Servers : ~Sending(s) /\ ~Claiming(s) /\ reminder[s] = "none"
  BY DEF NextHour, JobsDone, Sending, Claiming
<1>4. UNCHANGED <<event, reminder, reminded, owed>> /\ troubled \subseteq troubled'
  BY DEF NextHour
<1>5. clock.day \in WatchedDays /\ event.lastReminder \in -1..LastDay
      /\ owed \subseteq WatchedDays /\ reminded \in [WatchedDays -> Nat]
  BY DEF JobsTypeOK, WatchedDays
<1>6. Ahead'
  BY <1>1, <1>4, <1>5 DEF Ahead, WatchedDays
<1>a. clock.hour = "nine" =>
         /\ reminded'[clock'.day] = 0 /\ event'.lastReminder < clock'.day
         /\ \A s \in Servers : ~Sending(s)'
  BY <1>1, <1>3, <1>4, <1>5 DEF Ahead, WatchedDays, Sending
<1>7. RemindersAtWork'
  BY <1>1, <1>3, <1>4 DEF RemindersAtWork
<1>8. OneSender'
  <2>1. CASE clock.hour = "nine"
    <3>1. \A d \in WatchedDays : reminded'[d] <= 1
      BY <1>4 DEF OneSender
    <3> QED BY <1>a, <2>1, <3>1 DEF OneSender
  <2>2. CASE clock.hour # "nine"
    BY <1>1, <1>4, <2>2 DEF OneSender, Sending
  <2> QED BY <2>1, <2>2
<1>9. Claimed' /\ Pursued'
  <2>1. CASE clock.hour = "nine"
    <3>1. Claimed'
      BY <1>1, <1>5, <1>a, <2>1 DEF Claimed
    <3>2. \A d \in owed' \ troubled' : reminded'[d] = 1
      BY <1>3, <1>4, <2>1 DEF Pursued
    <3> QED BY <3>1, <3>2 DEF Pursued
  <2>2. CASE clock.hour # "nine"
    BY <1>1, <1>4, <2>2 DEF Claimed, Pursued, Sending, Claiming
  <2> QED BY <2>1, <2>2
<1> QED BY <1>2, <1>6, <1>7, <1>8, <1>9 DEF ReminderInv

\* The archive and the summary touch neither the reminders nor the day.
LEMMA BesideKeeps ==
    ASSUME ReminderInv, NEW s \in Servers, ArchiveJob(s) \/ SummaryJob(s) \/ SendSummary(s)
    PROVE  ReminderInv'
<1> USE JobsAssumption
<1> SUFFICES ASSUME JobsTypeOK, Ahead, RemindersAtWork, OneSender, Claimed, Pursued
             PROVE  ReminderInv'
  BY DEF ReminderInv
<1>1. JobsTypeOK'
  <2>1. CASE ArchiveJob(s)
    BY <2>1 DEF ArchiveJob, Runs, JobsTypeOK
  <2>2. CASE SummaryJob(s)
    BY <2>2 DEF SummaryJob, Runs, JobsTypeOK
  <2>3. CASE SendSummary(s)
    <3>0. week' \in [days : 0..LastDay, outages : Nat, failures : Nat]
      BY <2>3 DEF SendSummary, JobsTypeOK
    <3>1. troubled' \subseteq 0..LastDay /\ summaries' \in Nat
      BY <2>3 DEF SendSummary, JobsTypeOK
    <3>2. summary' \in [Servers -> BOOLEAN]
      BY <2>3 DEF SendSummary, JobsTypeOK
    <3>3. event' \in [archived : BOOLEAN, paid : BOOLEAN, lastReminder : -1..LastDay,
                      summarised : BOOLEAN]
      BY <2>3 DEF SendSummary, JobsTypeOK
    <3> QED BY <2>3, <3>0, <3>1, <3>2, <3>3 DEF SendSummary, JobsTypeOK
  <2> QED BY <2>1, <2>2, <2>3
<1>2. /\ UNCHANGED <<clock, reminder, reminded, owed, down>>
      /\ event'.lastReminder = event.lastReminder
      /\ ran \subseteq ran' /\ troubled \subseteq troubled'
  BY DEF ArchiveJob, SummaryJob, SendSummary, Runs, JobsTypeOK
<1>3. Ahead' /\ RemindersAtWork'
  BY <1>2 DEF Ahead, RemindersAtWork
<1>4. OneSender'
  BY <1>2 DEF OneSender, Sending
<1>5. Claimed' /\ Pursued'
  BY <1>2 DEF Claimed, Pursued, Sending, Claiming
<1> QED BY <1>1, <1>3, <1>4, <1>5 DEF ReminderInv

\* The scan of an instance that has not run today: it was working on nothing.
LEMMA ScanKeeps ==
    ASSUME ReminderInv, NEW s \in Servers, PaymentJob(s) PROVE ReminderInv'
<1> USE JobsAssumption
<1> SUFFICES ASSUME JobsTypeOK, Ahead, RemindersAtWork, OneSender, Claimed, Pursued
             PROVE  ReminderInv'
  BY DEF ReminderInv
<1>1. JobsTypeOK'
  BY DEF PaymentJob, Runs, JobsTypeOK
<1>2. /\ UNCHANGED <<clock, event, reminded, troubled, down>>
      /\ ran' = ran \cup {s} /\ clock.hour = "eight"
      /\ owed' \subseteq owed \cup {clock.day}
  BY DEF PaymentJob, Runs
<1>3. reminder[s] = "none"
  BY DEF RemindersAtWork, PaymentJob, Runs
<1>4. \/ reminder' = reminder /\ (Overdue => ~(event.lastReminder < clock.day))
      \/ reminder' = [reminder EXCEPT ![s] = "claim"] /\ event.lastReminder < clock.day
  BY DEF PaymentJob
<1>5. \A t \in Servers : /\ (Sending(t)' <=> Sending(t)) /\ (Claiming(t) => Claiming(t)')
                         /\ (reminder'[t] # reminder[t] => t = s)
  BY <1>3, <1>4 DEF Sending, Claiming, JobsTypeOK
<1>6. Ahead' /\ RemindersAtWork'
  BY <1>2, <1>5 DEF Ahead, RemindersAtWork, JobsTypeOK
<1>7. OneSender' /\ Claimed'
  BY <1>2, <1>5 DEF OneSender, Claimed
<1>8. Pursued'
  <2> SUFFICES ASSUME NEW d \in owed' \ troubled
               PROVE  \/ reminded[d] = 1
                      \/ /\ d = clock.day
                         /\ \/ \E t \in Servers : Sending(t)
                            \/ event.lastReminder < clock.day /\ \E t \in Servers : Claiming(t)'
    BY <1>2, <1>5 DEF Pursued
  <2>1. CASE d \in owed
    BY <1>5, <2>1 DEF Pursued
  <2>2. CASE d \notin owed
    <3>1. d = clock.day /\ Overdue
      BY <2>2 DEF PaymentJob
    <3>2. CASE reminder' = reminder
      <4>1. event.lastReminder = clock.day
        <5>1. ~(event.lastReminder < clock.day)
          <6>1. reminder # [reminder EXCEPT ![s] = "claim"]
            BY <1>3 DEF JobsTypeOK
          <6> QED BY <1>4, <3>1, <3>2, <6>1
        <5> QED BY <5>1 DEF Ahead, JobsTypeOK
      <4> QED BY <3>1, <4>1 DEF Claimed
    <3>3. CASE reminder' # reminder
      BY <1>4, <3>1, <3>3 DEF Claiming, JobsTypeOK
    <3> QED BY <3>2, <3>3
  <2> QED BY <2>1, <2>2
<1> QED BY <1>1, <1>6, <1>7, <1>8 DEF ReminderInv

\* Of two claims on one day the second finds the column written.
LEMMA ClaimKeeps ==
    ASSUME ReminderInv, NEW s \in Servers, ClaimReminder(s) PROVE ReminderInv'
<1> USE JobsAssumption
<1> SUFFICES ASSUME JobsTypeOK, Ahead, RemindersAtWork, OneSender, Claimed, Pursued
             PROVE  ReminderInv'
  BY DEF ReminderInv
<1>1. JobsTypeOK'
  BY DEF ClaimReminder, JobsTypeOK
<1>2. UNCHANGED <<clock, reminded, troubled, owed, down, ran>> /\ reminder[s] = "claim"
  BY DEF ClaimReminder
<1>3. CASE NotRemindedToday
  <2>1. /\ event'.lastReminder = clock.day /\ event.lastReminder < clock.day
        /\ reminder' = [reminder EXCEPT ![s] = "send"]
    BY <1>3 DEF ClaimReminder, NotRemindedToday, JobsTypeOK
  <2>2. reminded[clock.day] = 0 /\ \A t \in Servers : ~Sending(t)
    BY <2>1 DEF OneSender, JobsTypeOK, WatchedDays
  <2>3. Sending(s)' /\ \A t \in Servers : Sending(t)' => t = s
    BY <2>1, <2>2 DEF Sending, JobsTypeOK
  <2>4. Ahead'
    BY <1>2, <2>1 DEF Ahead, JobsTypeOK
  <2>5. RemindersAtWork'
    BY <1>2, <2>1 DEF RemindersAtWork, JobsTypeOK
  <2>6. OneSender'
    BY <1>2, <2>1, <2>2, <2>3 DEF OneSender
  <2>7. Claimed' /\ Pursued'
    BY <1>2, <2>3 DEF Claimed, Pursued
  <2> QED BY <1>1, <2>4, <2>5, <2>6, <2>7 DEF ReminderInv
<1>4. CASE ~NotRemindedToday
  <2>1. UNCHANGED event /\ reminder' = [reminder EXCEPT ![s] = "none"]
        /\ ~(event.lastReminder < clock.day)
    BY <1>4 DEF ClaimReminder, NotRemindedToday
  <2>2. \A t \in Servers : /\ (Sending(t)' <=> Sending(t))
                           /\ (reminder'[t] # "none" => reminder[t] # "none")
    BY <1>2, <2>1 DEF Sending, JobsTypeOK
  <2>3. Ahead' /\ RemindersAtWork'
    BY <1>2, <2>1, <2>2 DEF Ahead, RemindersAtWork
  <2>4. OneSender' /\ Claimed' /\ Pursued'
    BY <1>2, <2>1, <2>2 DEF OneSender, Claimed, Pursued
  <2> QED BY <1>1, <2>3, <2>4 DEF ReminderInv
<1> QED BY <1>3, <1>4

\* The sender goes out once and is done, or fails and leaves a troubled day.
LEMMA SendKeeps ==
    ASSUME ReminderInv, NEW s \in Servers, SendReminder(s) PROVE ReminderInv'
<1> USE JobsAssumption
<1> SUFFICES ASSUME JobsTypeOK, Ahead, RemindersAtWork, OneSender, Claimed, Pursued
             PROVE  ReminderInv'
  BY DEF ReminderInv
<1>0. clock.day \in WatchedDays
  BY DEF JobsTypeOK, WatchedDays
<1>1. JobsTypeOK'
  <2>1. /\ reminder' \in [Servers -> {"none", "claim", "send"}]
        /\ troubled' \subseteq 0..LastDay
    BY <1>0 DEF SendReminder, JobsTypeOK, WatchedDays
  <2>2. reminded' \in [0..LastDay -> Nat]
    BY <1>0 DEF SendReminder, JobsTypeOK, WatchedDays
  <2>3. week' \in [days : 0..LastDay, outages : Nat, failures : Nat]
    BY DEF SendReminder, JobsTypeOK
  <2> QED BY <2>1, <2>2, <2>3 DEF SendReminder, JobsTypeOK
<1>2. /\ UNCHANGED <<clock, event, owed, down, ran>> /\ Sending(s)
      /\ reminder' = [reminder EXCEPT ![s] = "none"]
  BY DEF SendReminder, Sending
<1>3. \A t \in Servers : /\ ~Sending(t)' /\ (Claiming(t) => Claiming(t)')
                         /\ (reminder'[t] # "none" => reminder[t] # "none")
  BY <1>2 DEF Sending, Claiming, OneSender, JobsTypeOK
<1>4. event.lastReminder = clock.day /\ reminded[clock.day] = 0 /\ clock.day \in WatchedDays
  BY <1>2 DEF OneSender, JobsTypeOK, WatchedDays
<1>5. \/ reminded' = [reminded EXCEPT ![clock.day] = 1] /\ troubled' = troubled
      \/ reminded' = reminded /\ troubled' = troubled \cup {clock.day}
  BY <1>4 DEF SendReminder
<1>6. reminded \in [WatchedDays -> Nat] /\ owed \subseteq WatchedDays
  BY DEF JobsTypeOK, WatchedDays
<1>7. Ahead' /\ RemindersAtWork'
  <2>1. \A d \in WatchedDays : d > clock.day => reminded'[d] = reminded[d]
    BY <1>4, <1>5, <1>6 DEF WatchedDays
  <2> QED BY <1>2, <1>3, <2>1 DEF Ahead, RemindersAtWork
<1>8. OneSender'
  BY <1>2, <1>3, <1>4, <1>5, <1>6 DEF OneSender
<1>9. Claimed' /\ Pursued'
  BY <1>2, <1>3, <1>4, <1>5, <1>6 DEF Claimed, Pursued
<1> QED BY <1>1, <1>7, <1>8, <1>9 DEF ReminderInv

\* An instance that stops forgets its work, and the day is troubled.
LEMMA OutageKeeps ==
    ASSUME ReminderInv, NEW s \in Servers, ServerStops(s) \/ ServerStarts(s) PROVE ReminderInv'
<1> USE JobsAssumption
<1> SUFFICES ASSUME JobsTypeOK, Ahead, RemindersAtWork, OneSender, Claimed, Pursued
             PROVE  ReminderInv'
  BY DEF ReminderInv
<1>1. JobsTypeOK'
  <2>1. CASE ServerStops(s)
    <3>0. week' \in [days : 0..LastDay, outages : Nat, failures : Nat]
      BY <2>1 DEF ServerStops, JobsTypeOK
    <3>1. troubled' \subseteq 0..LastDay /\ down' \subseteq Servers
      BY <2>1 DEF ServerStops, JobsTypeOK
    <3>2. reminder' \in [Servers -> {"none", "claim", "send"}] /\ summary' \in [Servers -> BOOLEAN]
      BY <2>1 DEF ServerStops, JobsTypeOK
    <3> QED BY <2>1, <3>0, <3>1, <3>2 DEF ServerStops, JobsTypeOK
  <2>2. CASE ServerStarts(s)
    BY <2>2 DEF ServerStarts, JobsTypeOK
  <2> QED BY <2>1, <2>2
<1>2. CASE ServerStops(s)
  <2>1. /\ UNCHANGED <<clock, event, reminded, owed, ran>>
        /\ reminder' = [reminder EXCEPT ![s] = "none"]
        /\ troubled' = troubled \cup {clock.day} /\ down \subseteq down'
    BY <1>2 DEF ServerStops
  <2>2. \A t \in Servers : /\ (Sending(t)' => Sending(t)) /\ (reminder'[t] # "none" => reminder[t] # "none")
    BY <2>1 DEF Sending, JobsTypeOK
  <2> QED BY <1>1, <2>1, <2>2 DEF ReminderInv, Ahead, RemindersAtWork, OneSender, Claimed, Pursued
<1>3. CASE ServerStarts(s)
  <2>1. /\ UNCHANGED <<clock, event, reminded, owed, reminder, troubled>>
        /\ ran' = ran \cup {s} /\ down' = down \ {s}
    BY <1>3 DEF ServerStarts
  <2> QED BY <1>1, <2>1 DEF ReminderInv, Ahead, RemindersAtWork, OneSender, Claimed, Pursued, Sending, Claiming
<1> QED BY <1>2, <1>3

\* Every step of the reminders keeps their invariant.
LEMMA ReminderStep == ReminderInv /\ [JobsNext]_jobVars => ReminderInv'
<1> SUFFICES ASSUME ReminderInv, [JobsNext]_jobVars PROVE ReminderInv'
  OBVIOUS
<1>1. CASE UNCHANGED jobVars
  BY <1>1 DEF jobVars, ReminderInv, JobsTypeOK, Ahead, RemindersAtWork, OneSender, Claimed, Pursued,
              Sending, Claiming
<1>2. CASE NextHour
  BY <1>2, HourKeeps
<1>3. ASSUME NEW s \in Servers,
             ArchiveJob(s) \/ SummaryJob(s) \/ SendSummary(s)
      PROVE  ReminderInv'
  BY <1>3, BesideKeeps
<1>4. CASE PayBill
  <2> SUFFICES ASSUME JobsTypeOK, Ahead, RemindersAtWork, OneSender, Claimed, Pursued
               PROVE  ReminderInv'
    BY DEF ReminderInv
  <2>1. /\ UNCHANGED <<week, clock, reminder, summary, summaries, reminded, owed, down, ran, troubled>>
        /\ event' = [event EXCEPT !.paid = TRUE]
    BY <1>4 DEF PayBill
  <2>2. JobsTypeOK' /\ event'.lastReminder = event.lastReminder
    BY <2>1 DEF JobsTypeOK
  <2> QED BY <2>1, <2>2 DEF ReminderInv, Ahead, RemindersAtWork, OneSender, Claimed, Pursued, Sending, Claiming
<1>5. ASSUME NEW s \in Servers, PaymentJob(s) PROVE ReminderInv'
  BY <1>5, ScanKeeps
<1>6. ASSUME NEW s \in Servers, ClaimReminder(s) PROVE ReminderInv'
  BY <1>6, ClaimKeeps
<1>7. ASSUME NEW s \in Servers, SendReminder(s) PROVE ReminderInv'
  BY <1>7, SendKeeps
<1>8. ASSUME NEW s \in Servers, ServerStops(s) \/ ServerStarts(s) PROVE ReminderInv'
  BY <1>8, OutageKeeps
<1> QED BY <1>1, <1>2, <1>3, <1>4, <1>5, <1>6, <1>7, <1>8 DEF JobsNext

\* The types of the daily jobs.
THEOREM JobsTypes == JobsSpec => []JobsTypeOK
BY ReminderInitial, ReminderStep, PTL DEF JobsSpec, ReminderInv

\* On however many instances the payment job runs, a client is reminded at most once
\* a day, and once on every day the payment was found overdue that had no outage and
\* no failed message.
THEOREM OneReminderADay == JobsSpec => []RemindedOncePerDay
<1>1. ReminderInv => RemindedOncePerDay
  <2> SUFFICES ASSUME OneSender, Pursued PROVE RemindedOncePerDay
    BY DEF ReminderInv
  <2>1. JobsDone => \A s \in Servers : ~Sending(s) /\ ~Claiming(s)
    BY DEF JobsDone, Sending, Claiming
  <2> QED BY <2>1 DEF RemindedOncePerDay, OneSender, Pursued, WatchedDays
<1> QED BY ReminderInitial, ReminderStep, <1>1, PTL DEF JobsSpec

(***************************************************************************)
(* The scheduled greetings.                                                *)
(***************************************************************************)

\* The types this argument needs.
CardRow == [status : {"none", "PENDING", "PROCESSING", "SENT", "FAILED", "CANCELLED"},
            due : BOOLEAN]
ClerkRow == [step : {"idle", "claim", "send", "store"}, batch : SUBSET Cards,
             at : SUBSET Cards, reached : BOOLEAN]
GreetingShape ==
    /\ card \in [Cards -> CardRow]
    /\ clerk \in [Clerks -> ClerkRow]
    /\ sentTo \in [Cards -> Nat]
    /\ answered \subseteq Cards

\* A run of the job has the greeting in hand.
CardInHand(w, c) == c \in clerk[w].at

\* A greeting that waits was never claimed, and one in hand before its sending
\* never went out; no two runs have the same one.
GreetingClaims ==
    /\ \A c \in Cards : card[c].status \in {"none", "PENDING"} =>
          sentTo[c] = 0 /\ \A w \in Clerks : ~CardInHand(w, c)
    /\ \A v, w \in Clerks : \A c \in Cards : CardInHand(v, c) /\ CardInHand(w, c) => v = w
    /\ \A w \in Clerks : \A c \in Cards :
          clerk[w].step = "send" /\ CardInHand(w, c) => sentTo[c] = 0
    /\ \A w \in Clerks : clerk[w].step \in {"idle", "claim"} => clerk[w].at = {}

\* A confirmed cancellation that crossed no claim is final.
Confirmed ==
    /\ \A c \in Cards : card[c].status = "CANCELLED" => c \in answered
    /\ \A c \in answered \ crossing :
          card[c].status = "CANCELLED" /\ \A w \in Clerks : ~CardInHand(w, c)

GreetingInv == GreetingShape /\ GreetingClaims /\ GreetingOnce /\ Confirmed /\ CancelledIsQuiet

\* A run that moves leaves the others where they are.
LEMMA ClerkMoves ==
    ASSUME GreetingShape, NEW w \in Clerks, NEW r \in ClerkRow, clerk' = [clerk EXCEPT ![w] = r]
    PROVE  /\ clerk' \in [Clerks -> ClerkRow]
           /\ clerk'[w] = r
           /\ \A v \in Clerks \ {w} : clerk'[v] = clerk[v]
BY DEF GreetingShape

\* A row that changes leaves the others as they are.
LEMMA CardChanges ==
    ASSUME GreetingShape, NEW c \in Cards, NEW r \in CardRow, card' = [card EXCEPT ![c] = r]
    PROVE  /\ card' \in [Cards -> CardRow]
           /\ card'[c] = r
           /\ \A d \in Cards \ {c} : card'[d] = card[d]
BY DEF GreetingShape

\* What a run goes on with after a greeting.
LEMMA NextOfRow ==
    ASSUME GreetingShape, NEW w \in Clerks, NEW c \in Cards
    PROVE  /\ NextOf(w, c) \in ClerkRow
           /\ NextOf(w, c).at = {} /\ NextOf(w, c).step \in {"idle", "claim"}
<1>1. clerk[w] \in ClerkRow
  BY DEF GreetingShape
<1>2. clerk[w].batch \ {c} \in SUBSET Cards
  BY <1>1 DEF ClerkRow
<1> QED BY <1>2 DEF NextOf, Off, ClerkRow

\* Nothing is scheduled, claimed or sent at first.
LEMMA GreetingInitial == GreetingInit => GreetingInv
BY GreetingAssumption
   DEF GreetingInit, GreetingInv, GreetingShape, CardRow, ClerkRow, GreetingClaims, GreetingOnce, Confirmed,
       CancelledIsQuiet, Off, CardInHand

\* What goes on beside the job's rows and runs.
LEMMA DeskKeeps ==
    ASSUME GreetingInv, NEW c \in Cards,
           Schedule(c) \/ BecomesDue(c) \/ \E m \in Managers : AskCancel(m, c)
    PROVE  GreetingInv'
<1>1. CASE Schedule(c)
  BY <1>1 DEF Schedule, GreetingInv, GreetingShape, CardRow, ClerkRow, GreetingClaims, GreetingOnce, Confirmed,
              CancelledIsQuiet, CardInHand
<1>2. CASE BecomesDue(c)
  BY <1>2 DEF BecomesDue, GreetingInv, GreetingShape, CardRow, ClerkRow, GreetingClaims, GreetingOnce, Confirmed,
              CancelledIsQuiet, CardInHand
<1>3. CASE \E m \in Managers : AskCancel(m, c)
  BY <1>3 DEF AskCancel, GreetingInv, GreetingShape, CardRow, ClerkRow, GreetingClaims, GreetingOnce, Confirmed,
              CancelledIsQuiet, CardInHand
<1> QED BY <1>1, <1>2, <1>3

\* A cancellation of a greeting that waits finds it in nobody's hands.
LEMMA CancelKeeps ==
    ASSUME GreetingInv, NEW m \in Managers, NEW c \in Cards, Cancel(m, c)
    PROVE  GreetingInv'
<1>1. GreetingShape'
  BY DEF Cancel, GreetingInv, GreetingShape, CardRow, ClerkRow
<1>2. GreetingClaims' /\ GreetingOnce'
  BY DEF Cancel, GreetingInv, GreetingShape, CardRow, ClerkRow, GreetingClaims, GreetingOnce, CardInHand
<1>3. Confirmed' /\ CancelledIsQuiet'
  BY DEF Cancel, GreetingInv, GreetingShape, CardRow, ClerkRow, GreetingClaims, Confirmed, CancelledIsQuiet, CardInHand
<1> QED BY <1>1, <1>2, <1>3 DEF GreetingInv

\* A run lists what is due and claims nothing yet, or loses what it had in hand.
LEMMA DueScanKeeps ==
    ASSUME GreetingInv, NEW w \in Clerks, Scan(w) \/ ClerkStops(w)
    PROVE  GreetingInv'
<1>1. CASE Scan(w)
  <2>1. GreetingShape'
    BY <1>1 DEF Scan, Off, GreetingInv, GreetingShape, CardRow, ClerkRow
  <2>2. /\ clerk[w].at = {} /\ clerk'[w].at = {} /\ clerk'[w].step = "claim"
        /\ \A v \in Clerks \ {w} : clerk'[v] = clerk[v]
    BY <1>1 DEF Scan, Off, GreetingInv, GreetingShape, CardRow, ClerkRow, GreetingClaims
  <2> QED BY <1>1, <2>1, <2>2 DEF Scan, GreetingInv, GreetingClaims, GreetingOnce, Confirmed,
                                  CancelledIsQuiet, CardInHand
<1>2. CASE ClerkStops(w)
  <2>1. GreetingShape'
    BY <1>2 DEF ClerkStops, Off, GreetingInv, GreetingShape, CardRow, ClerkRow
  <2>2. /\ clerk'[w].at = {} /\ clerk'[w].step = "idle"
        /\ \A v \in Clerks \ {w} : clerk'[v] = clerk[v]
    BY <1>2 DEF ClerkStops, Off, GreetingInv, GreetingShape, CardRow, ClerkRow
  <2> QED BY <1>2, <2>1, <2>2 DEF ClerkStops, GreetingInv, GreetingClaims, GreetingOnce, Confirmed,
                                  CancelledIsQuiet, CardInHand
<1> QED BY <1>1, <1>2

\* A claim finds the greeting waiting, so nobody has it and it never went out.
LEMMA TakeKeeps ==
    ASSUME GreetingInv, NEW w \in Clerks, NEW c \in Cards, Take(w, c)
    PROVE  GreetingInv'
<1>0. GreetingShape /\ clerk[w] \in ClerkRow /\ card[c] \in CardRow
  BY DEF GreetingInv, GreetingShape
<1>1. CASE ClaimsPending(c)
  <2> DEFINE r == [clerk[w] EXCEPT !.step = "send", !.at = {c}]
             n == [card[c] EXCEPT !.status = "PROCESSING"]
  <2>1. r \in ClerkRow /\ r.at = {c} /\ r.step = "send"
    BY <1>0 DEF ClerkRow
  <2>2. n \in CardRow /\ n.status = "PROCESSING"
    BY <1>0 DEF CardRow
  <2>3. clerk' = [clerk EXCEPT ![w] = r] /\ card' = [card EXCEPT ![c] = n]
    BY <1>1 DEF Take
  <2> HIDE DEF r, n
  <2>4. /\ clerk' \in [Clerks -> ClerkRow] /\ clerk'[w] = r
        /\ \A v \in Clerks \ {w} : clerk'[v] = clerk[v]
    BY <1>0, <2>1, <2>3, ClerkMoves
  <2>5. /\ card' \in [Cards -> CardRow] /\ card'[c] = n
        /\ \A d \in Cards \ {c} : card'[d] = card[d]
    BY <1>0, <2>2, <2>3, CardChanges
  <2>6. card[c].status = "PENDING" /\ clerk[w].at = {}
    BY <1>1 DEF Take, ClaimsPending, GreetingInv, GreetingClaims
  <2> QED BY <1>0, <2>1, <2>2, <2>4, <2>5, <2>6
          DEF Take, GreetingInv, GreetingShape, GreetingClaims, GreetingOnce, Confirmed, CancelledIsQuiet, CardInHand
<1>2. CASE ~ClaimsPending(c)
  <2>1. clerk' = [clerk EXCEPT ![w] = NextOf(w, c)] /\ card' = card
    BY <1>2 DEF Take
  <2>2. /\ clerk' \in [Clerks -> ClerkRow] /\ clerk'[w] = NextOf(w, c)
        /\ \A v \in Clerks \ {w} : clerk'[v] = clerk[v]
    BY <1>0, <2>1, NextOfRow, ClerkMoves
  <2>3. clerk'[w].at = {} /\ clerk'[w].step \in {"idle", "claim"}
    BY <1>0, <2>2, NextOfRow
  <2> QED BY <1>2, <2>1, <2>2, <2>3 DEF Take, GreetingInv, GreetingShape, GreetingClaims, GreetingOnce, Confirmed,
                                  CancelledIsQuiet, CardInHand
<1> QED BY <1>1, <1>2

\* The sending is the first of this greeting; a quiet one is in nobody's hands.
LEMMA SendOutKeeps ==
    ASSUME GreetingInv, NEW w \in Clerks, NEW c \in Cards, NEW reached \in BOOLEAN,
           SendOut(w, c, reached)
    PROVE  GreetingInv'
<1> DEFINE r == [clerk[w] EXCEPT !.step = "store", !.reached = reached]
<1>0. GreetingShape /\ clerk[w] \in ClerkRow
  BY DEF GreetingInv, GreetingShape
<1>1. CardInHand(w, c) /\ clerk[w].step = "send" /\ sentTo[c] = 0 /\ clerk[w].at = {c}
  BY DEF SendOut, GreetingInv, GreetingClaims, CardInHand
<1>2. r \in ClerkRow /\ r.at = {c} /\ r.step = "store"
  BY <1>0, <1>1 DEF ClerkRow
<1>3. clerk' = [clerk EXCEPT ![w] = r]
  BY DEF SendOut
<1> HIDE DEF r
<1>4. /\ clerk' \in [Clerks -> ClerkRow] /\ clerk'[w] = r
      /\ \A v \in Clerks \ {w} : clerk'[v] = clerk[v]
  BY <1>0, <1>2, <1>3, ClerkMoves
<1>5. /\ sentTo' \in [Cards -> Nat] /\ sentTo'[c] \in {0, 1}
      /\ \A d \in Cards \ {c} : sentTo'[d] = sentTo[d]
  BY <1>1 DEF SendOut, GreetingInv, GreetingShape
<1>6. card' = card /\ answered' = answered /\ crossing' = crossing
  BY DEF SendOut
<1>7. GreetingShape'
  BY <1>0, <1>4, <1>5, <1>6 DEF GreetingShape
<1>8. GreetingClaims' /\ GreetingOnce'
  BY <1>1, <1>2, <1>4, <1>5, <1>6 DEF GreetingInv, GreetingShape, GreetingClaims, GreetingOnce, CardInHand
<1>9. Confirmed' /\ CancelledIsQuiet'
  BY <1>1, <1>2, <1>4, <1>5, <1>6 DEF GreetingInv, GreetingShape, Confirmed, CancelledIsQuiet, CardInHand
<1> QED BY <1>7, <1>8, <1>9 DEF GreetingInv

\* The outcome is never a status that may be claimed.
LEMMA StoreOutcomeKeeps ==
    ASSUME GreetingInv, NEW w \in Clerks, NEW c \in Cards, StoreOutcome(w, c)
    PROVE  GreetingInv'
<1>0. GreetingShape /\ clerk[w] \in ClerkRow /\ card[c] \in CardRow
  BY DEF GreetingInv, GreetingShape
<1>1. PICK outcome \in {"SENT", "FAILED"} : card' = [card EXCEPT ![c].status = outcome]
  BY DEF StoreOutcome
<1> DEFINE n == [card[c] EXCEPT !.status = outcome]
<1>2. n \in CardRow /\ n.status = outcome /\ card' = [card EXCEPT ![c] = n]
  BY <1>0, <1>1 DEF CardRow
<1> HIDE DEF n
<1>3. /\ card' \in [Cards -> CardRow] /\ card'[c].status \in {"SENT", "FAILED"}
      /\ \A d \in Cards \ {c} : card'[d] = card[d]
  BY <1>0, <1>2, CardChanges
<1>4. clerk' = [clerk EXCEPT ![w] = NextOf(w, c)] /\ clerk[w].at = {c}
  BY DEF StoreOutcome
<1>5. /\ clerk' \in [Clerks -> ClerkRow] /\ clerk'[w] = NextOf(w, c)
      /\ \A v \in Clerks \ {w} : clerk'[v] = clerk[v]
  BY <1>0, <1>4, NextOfRow, ClerkMoves
<1>6. clerk'[w].at = {} /\ clerk'[w].step \in {"idle", "claim"}
  BY <1>0, <1>5, NextOfRow
<1>7. sentTo' = sentTo /\ answered' = answered /\ crossing' = crossing
  BY DEF StoreOutcome
<1> QED BY <1>3, <1>4, <1>5, <1>6, <1>7 DEF GreetingInv, GreetingShape, GreetingClaims, GreetingOnce, Confirmed,
                                      CancelledIsQuiet, CardInHand

\* Every step of the greetings keeps their invariant.
LEMMA GreetingStep == GreetingInv /\ [GreetingNext]_greetingVars => GreetingInv'
<1> SUFFICES ASSUME GreetingInv, [GreetingNext]_greetingVars PROVE GreetingInv'
  OBVIOUS
<1>1. CASE UNCHANGED greetingVars
  BY <1>1 DEF greetingVars, GreetingInv, GreetingShape, GreetingClaims, GreetingOnce, Confirmed,
              CancelledIsQuiet, CardInHand
<1>2. CASE GreetingNext
  <2>1. CASE \E c \in Cards : Schedule(c) \/ BecomesDue(c) \/ \E m \in Managers : AskCancel(m, c)
    BY <2>1, DeskKeeps
  <2>2. CASE \E w \in Clerks : Scan(w) \/ ClerkStops(w)
    BY <2>2, DueScanKeeps
  <2>3. CASE \E w \in Clerks, c \in Cards : Take(w, c)
    BY <2>3, TakeKeeps
  <2>4. CASE \E w \in Clerks, c \in Cards, reached \in BOOLEAN : SendOut(w, c, reached)
    BY <2>4, SendOutKeeps
  <2>5. CASE \E w \in Clerks, c \in Cards : StoreOutcome(w, c)
    BY <2>5, StoreOutcomeKeeps
  <2>6. CASE \E m \in Managers, c \in Cards : Cancel(m, c)
    BY <2>6, CancelKeeps
  <2> QED BY <1>2, <2>1, <2>2, <2>3, <2>4, <2>5, <2>6 DEF GreetingNext
<1> QED BY <1>1, <1>2

\* The inductive invariant holds in every reachable state.
LEMMA GreetingInvariant == GreetingSpec => []GreetingInv
BY GreetingInitial, GreetingStep, PTL DEF GreetingSpec

\* A scheduled greeting goes out once at most (greetingService.ts:269-275), from
\* any number of runs and instances, stopped at any point.
THEOREM SentOutOnce == GreetingSpec => []GreetingOnce
BY GreetingInvariant, PTL DEF GreetingInv

\* A confirmed cancellation (greetingService.ts:350-355) that no claim crossed
\* keeps the greeting from going out for ever.
THEOREM CancelledStaysQuiet == GreetingSpec => []CancelledIsQuiet
BY GreetingInvariant, PTL DEF GreetingInv

(***************************************************************************)
(* The check-in queue.                                                     *)
(***************************************************************************)

SyncRun == [awake : BOOLEAN, todo : [Events -> Nat], keep : [Events -> Nat]]

\* The types this argument needs.
QueueShape ==
    /\ saves \in Nat
    /\ queue \in [Events -> Nat] /\ stored \in [Events -> Nat] /\ last \in [Events -> Nat]
    /\ sync \in [Syncs -> SyncRun]
    /\ \A k \in Syncs : ~sync[k].awake => sync[k].todo = None /\ sync[k].keep = None

\* Nothing older than the last save of a booking waits anywhere.
NothingOlder ==
    \A e \in Events \ raced :
        /\ queue[e] \in {0, last[e]}
        /\ \A k \in Syncs : sync[k].todo[e] \in {0, last[e]} /\ sync[k].keep[e] \in {0, last[e]}

\* A run at work has sent the last save, is to send it, or gives it back.
RunsKeep ==
    \A e \in Events \ raced : \A k \in Syncs :
        sync[k].awake => last[e] \in {stored[e], sync[k].todo[e], sync[k].keep[e]}

CheckInInv == QueueShape /\ NothingOlder /\ RunsKeep /\ LastSaveKept

\* The empty queue as a function.
LEMMA NoneType == None \in [Events -> Nat] /\ \A e \in Events : None[e] = 0
BY DEF None

\* Nothing is queued.
LEMMA CheckInInitial == CheckInInit => CheckInInv
<1> SUFFICES ASSUME CheckInInit PROVE CheckInInv
  OBVIOUS
<1>1. Asleep \in SyncRun /\ ~Asleep.awake /\ Asleep.todo = None /\ Asleep.keep = None
  BY NoneType DEF Asleep, SyncRun
<1>2. QueueShape
  BY <1>1, NoneType DEF CheckInInit, QueueShape
<1>3. \A k \in Syncs : ~sync[k].awake /\ sync[k].todo = None /\ sync[k].keep = None
  BY <1>1 DEF CheckInInit
<1> QED BY <1>2, <1>3, NoneType DEF CheckInInit, CheckInInv, NothingOlder, RunsKeep, LastSaveKept

\* A save is where it should be at once; one made while a run is at work, or
\* beside an older one, is excused.
LEMMA CheckInSaveKeeps ==
    ASSUME CheckInInv, NEW e \in Events, NEW outcome \in Outcomes, Save(e, outcome)
    PROVE  CheckInInv'
<1> DEFINE n == saves + 1
<1>1. n \in Nat /\ sync' = sync /\ QueueShape
  BY DEF Save, CheckInInv, QueueShape
<1>2. /\ queue' \in [Events -> Nat] /\ stored' \in [Events -> Nat] /\ last' \in [Events -> Nat]
      /\ \A f \in Events \ {e} :
            queue'[f] = queue[f] /\ stored'[f] = stored[f] /\ last'[f] = last[f]
      /\ \A f \in Events \ {e} : f \in raced' <=> f \in raced
  BY <1>1 DEF Save, QueueShape
<1>3. QueueShape'
  BY <1>1, <1>2 DEF Save, QueueShape
<1>4. CASE outcome = "refused"
  <2>1. queue'[e] = queue[e] /\ stored'[e] = stored[e] /\ last'[e] = last[e] /\ raced' = raced
    BY <1>1, <1>4 DEF Save, Serves, QueueShape
  <2> QED BY <1>1, <1>2, <1>3, <2>1 DEF CheckInInv, NothingOlder, RunsKeep, LastSaveKept
<1>5. CASE outcome # "refused" /\ e \notin raced'
  <2>1. ~Races(e, outcome)
    BY <1>5 DEF Save
  <2>2. \A k \in Syncs : ~sync[k].awake /\ sync[k].todo[e] = 0 /\ sync[k].keep[e] = 0
    BY <1>1, <2>1, NoneType DEF Races, QueueShape
  <2>3. last'[e] = n
    BY <1>1, <1>5 DEF Save, QueueShape
  <2>4. \/ outcome = "ok" /\ stored'[e] = n /\ queue'[e] = 0
        \/ outcome \in {"failed", "unanswered"} /\ queue'[e] = n
    BY <1>1, <1>5, <2>1 DEF Save, Serves, Races, Outcomes, QueueShape
  <2> QED BY <1>1, <1>2, <1>3, <2>2, <2>3, <2>4
          DEF CheckInInv, NothingOlder, RunsKeep, LastSaveKept
<1>6. CASE e \in raced'
  BY <1>1, <1>2, <1>3, <1>6 DEF CheckInInv, NothingOlder, RunsKeep, LastSaveKept
<1> QED BY <1>4, <1>5, <1>6

\* A run that starts has the whole queue to send.
LEMMA StartSyncKeeps ==
    ASSUME CheckInInv, NEW k \in Syncs, StartSync(k)
    PROVE  CheckInInv'
<1> DEFINE r == [Asleep EXCEPT !.awake = TRUE, !.todo = queue]
<1>1. QueueShape
  BY DEF CheckInInv
<1>2. r \in SyncRun /\ r.awake /\ r.todo = queue /\ r.keep = None
  BY <1>1, NoneType DEF Asleep, SyncRun, QueueShape
<1>3. sync' = [sync EXCEPT ![k] = r]
  BY DEF StartSync
<1> HIDE DEF r
<1>4. sync' \in [Syncs -> SyncRun] /\ sync'[k] = r /\ \A j \in Syncs \ {k} : sync'[j] = sync[j]
  BY <1>1, <1>2, <1>3 DEF QueueShape
<1>5. UNCHANGED <<saves, queue, stored, last, raced>>
  BY DEF StartSync
<1> QED BY <1>1, <1>2, <1>4, <1>5, NoneType
        DEF CheckInInv, QueueShape, NothingOlder, RunsKeep, LastSaveKept

\* A save that is sent is the last one or excused; it is stored, or kept to be
\* given back.
LEMMA CheckInPutKeeps ==
    ASSUME CheckInInv, NEW k \in Syncs, NEW e \in Events, NEW outcome \in Outcomes,
           Put(k, e, outcome)
    PROVE  CheckInInv'
<1> DEFINE x == sync[k].todo[e]
           r == [sync[k] EXCEPT !.todo[e] = 0, !.keep[e] = IF Kept(outcome) THEN x ELSE 0]
<1>1. QueueShape /\ sync[k] \in SyncRun /\ x \in Nat /\ x # 0 /\ sync[k].awake
  BY NoneType DEF CheckInInv, QueueShape, SyncRun, Put
<1>2. sync' = [sync EXCEPT ![k] = r]
  BY DEF Put
<1>3. /\ r \in SyncRun /\ r.awake
      /\ r.todo[e] = 0 /\ r.keep[e] = IF Kept(outcome) THEN x ELSE 0
      /\ \A f \in Events \ {e} : r.todo[f] = sync[k].todo[f] /\ r.keep[f] = sync[k].keep[f]
  BY <1>1 DEF SyncRun
<1>4. /\ stored' \in [Events -> Nat]
      /\ stored'[e] = IF Serves(outcome) THEN x ELSE stored[e]
      /\ \A f \in Events \ {e} : stored'[f] = stored[f]
  BY <1>1 DEF Put, QueueShape
<1>5. UNCHANGED <<saves, queue, last, raced>>
  BY DEF Put
<1>6. Serves(outcome) \/ Kept(outcome)
  BY DEF Serves, Kept, Outcomes
<1> HIDE DEF r, x
<1>7. sync' \in [Syncs -> SyncRun] /\ sync'[k] = r /\ \A j \in Syncs \ {k} : sync'[j] = sync[j]
  BY <1>1, <1>2, <1>3 DEF QueueShape
<1>8. QueueShape'
  BY <1>1, <1>3, <1>4, <1>5, <1>7 DEF QueueShape
<1>9. e \notin raced => x = last[e]
  BY <1>1 DEF CheckInInv, NothingOlder, x
<1>10. NothingOlder'
  BY <1>1, <1>3, <1>5, <1>7, <1>9 DEF CheckInInv, NothingOlder
<1>11. RunsKeep'
  BY <1>1, <1>3, <1>4, <1>5, <1>6, <1>7, <1>9 DEF CheckInInv, RunsKeep, x
<1>12. LastSaveKept'
  BY <1>4, <1>5, <1>9 DEF CheckInInv, LastSaveKept
<1> QED BY <1>8, <1>10, <1>11, <1>12 DEF CheckInInv

\* The queue becomes what the run keeps: the last save is among it or stored.
LEMMA EndSyncKeeps ==
    ASSUME CheckInInv, NEW k \in Syncs, EndSync(k)
    PROVE  CheckInInv'
<1>1. QueueShape /\ sync[k] \in SyncRun /\ sync[k].awake /\ sync[k].todo = None
  BY DEF CheckInInv, QueueShape, EndSync
<1>2. Asleep \in SyncRun /\ ~Asleep.awake /\ Asleep.todo = None /\ Asleep.keep = None
  BY NoneType DEF Asleep, SyncRun
<1>3. /\ sync' \in [Syncs -> SyncRun] /\ sync'[k] = Asleep
      /\ \A j \in Syncs \ {k} : sync'[j] = sync[j]
  BY <1>1, <1>2 DEF EndSync, QueueShape
<1>4. queue' = sync[k].keep /\ queue' \in [Events -> Nat]
  BY <1>1 DEF EndSync, SyncRun
<1>5. UNCHANGED <<saves, stored, last, raced>>
  BY DEF EndSync
<1>6. QueueShape'
  BY <1>1, <1>2, <1>3, <1>4, <1>5 DEF QueueShape
<1>7. NothingOlder' /\ RunsKeep'
  BY <1>2, <1>3, <1>4, <1>5, NoneType DEF CheckInInv, NothingOlder, RunsKeep
<1>8. ASSUME NEW e \in Events \ raced'
      PROVE  last'[e] \in {stored'[e], queue'[e]}
  <2>1. last[e] \in {stored[e], 0, sync[k].keep[e]} /\ sync[k].keep[e] \in {0, last[e]}
    BY <1>1, <1>5, <1>8, NoneType DEF CheckInInv, RunsKeep, NothingOlder
  <2> QED BY <1>4, <1>5, <2>1
<1> QED BY <1>6, <1>7, <1>8 DEF CheckInInv, LastSaveKept

\* A closed page loses what the run had read, not the queue.
LEMMA SyncStopsKeeps ==
    ASSUME CheckInInv, NEW k \in Syncs, SyncStops(k)
    PROVE  CheckInInv'
<1>1. Asleep \in SyncRun /\ ~Asleep.awake /\ Asleep.todo = None /\ Asleep.keep = None
  BY NoneType DEF Asleep, SyncRun
<1>2. /\ sync' \in [Syncs -> SyncRun] /\ sync'[k] = Asleep
      /\ \A j \in Syncs \ {k} : sync'[j] = sync[j]
  BY <1>1 DEF SyncStops, CheckInInv, QueueShape
<1>3. UNCHANGED <<saves, queue, stored, last, raced>>
  BY DEF SyncStops
<1> QED BY <1>1, <1>2, <1>3, NoneType
        DEF CheckInInv, QueueShape, NothingOlder, RunsKeep, LastSaveKept

\* Every step of the queue keeps its invariant.
LEMMA CheckInStep == CheckInInv /\ [CheckInNext]_checkInVars => CheckInInv'
<1> SUFFICES ASSUME CheckInInv, [CheckInNext]_checkInVars PROVE CheckInInv'
  OBVIOUS
<1>1. CASE Close \/ UNCHANGED checkInVars
  BY <1>1 DEF Close, checkInVars, CheckInInv, QueueShape, NothingOlder, RunsKeep, LastSaveKept
<1>2. CASE \E e \in Events, outcome \in Outcomes : Save(e, outcome)
  BY <1>2, CheckInSaveKeeps
<1>3. CASE \E e \in Events, outcome \in Outcomes, k \in Syncs : Put(k, e, outcome)
  BY <1>3, CheckInPutKeeps
<1>4. CASE \E k \in Syncs : StartSync(k) \/ EndSync(k) \/ SyncStops(k)
  BY <1>4, StartSyncKeeps, EndSyncKeeps, SyncStopsKeeps
<1> QED BY <1>1, <1>2, <1>3, <1>4 DEF CheckInNext

\* The inductive invariant holds in every reachable state.
LEMMA CheckInInvariant == CheckInSpec => []CheckInInv
BY CheckInInitial, CheckInStep, PTL DEF CheckInSpec

\* The queue of the tablet (offlineCheckInQueue.ts:50-103) loses no save of which
\* the user was told, whatever number of runs overlap, stop or go unanswered,
\* with the exceptions that LastSaveKept names.
THEOREM QueueKeepsLastSave == CheckInSpec => []LastSaveKept
BY CheckInInvariant, PTL DEF CheckInInv

(***************************************************************************)
(* Types.                                                                  *)
(***************************************************************************)

\* At most one greeting.
AtMostOneCard == {{}} \cup {{c} : c \in Cards}

\* A run as the type invariant has it: one greeting of its batch in hand at most.
ClerkAtOne == [step : {"idle", "claim", "send", "store"}, batch : SUBSET Cards,
               at : AtMostOneCard, reached : BOOLEAN]

\* The types of the greetings, of the runs and of those who schedule and cancel.
GreetingTyped ==
    /\ season \in [stops : Nat, cards : SUBSET Cards]
    /\ card \in [Cards -> CardRow]
    /\ clerk \in [Clerks -> ClerkAtOne]
    /\ manager \in [Managers -> AtMostOneCard]
    /\ sentTo \in [Cards -> Nat]
    /\ answered \subseteq Cards /\ crossing \subseteq Cards

\* No greeting is at most one, and one is.
LEMMA NoneOrOne == {} \in AtMostOneCard /\ \A c \in Cards : {c} \in AtMostOneCard
BY DEF AtMostOneCard

\* A run that goes on has one greeting in hand at most.
LEMMA NextOfOne ==
    ASSUME GreetingTyped, NEW w \in Clerks, NEW c \in Cards
    PROVE  NextOf(w, c) \in ClerkAtOne
<1>1. clerk[w].batch \ {c} \in SUBSET Cards
  BY DEF GreetingTyped, ClerkAtOne
<1> QED BY <1>1, NoneOrOne DEF NextOf, Off, ClerkAtOne

\* The scheduled greetings stay of their types.
LEMMA GreetingTypesStep == GreetingTyped /\ [GreetingNext]_greetingVars => GreetingTyped'
<1> SUFFICES ASSUME GreetingTyped, [GreetingNext]_greetingVars PROVE GreetingTyped'
  OBVIOUS
<1>1. CASE UNCHANGED greetingVars
  BY <1>1 DEF greetingVars, GreetingTyped
<1>2. ASSUME NEW c \in Cards, Schedule(c) \/ BecomesDue(c) PROVE GreetingTyped'
  <2>1. card[c] \in CardRow /\ card \in [Cards -> CardRow]
    BY DEF GreetingTyped
  <2>2. /\ [card[c] EXCEPT !.status = "PENDING"] \in CardRow
        /\ [card[c] EXCEPT !.due = TRUE] \in CardRow
    BY <2>1 DEF CardRow
  <2>3. \/ card' = [card EXCEPT ![c] = [card[c] EXCEPT !.status = "PENDING"]]
        \/ card' = [card EXCEPT ![c] = [card[c] EXCEPT !.due = TRUE]]
    BY <1>2 DEF Schedule, BecomesDue
  <2>4. card' \in [Cards -> CardRow]
    BY <2>1, <2>2, <2>3
  <2> QED BY <1>2, <2>4 DEF Schedule, BecomesDue, GreetingTyped
<1>3. ASSUME NEW c \in Cards, NEW m \in Managers, AskCancel(m, c) \/ Cancel(m, c)
      PROVE  GreetingTyped'
  <2>1. card[c] \in CardRow /\ card \in [Cards -> CardRow]
    BY DEF GreetingTyped
  <2>2. [card[c] EXCEPT !.status = "CANCELLED"] \in CardRow
    BY <2>1 DEF CardRow
  <2>3. card' = card \/ card' = [card EXCEPT ![c] = [card[c] EXCEPT !.status = "CANCELLED"]]
    BY <1>3 DEF AskCancel, Cancel
  <2>4. card' \in [Cards -> CardRow]
    BY <2>1, <2>2, <2>3
  <2>5. manager' \in [Managers -> AtMostOneCard]
    BY <1>3, NoneOrOne DEF AskCancel, Cancel, GreetingTyped
  <2> QED BY <1>3, <2>4, <2>5 DEF AskCancel, Cancel, GreetingTyped
<1>4. ASSUME NEW w \in Clerks, Scan(w) \/ ClerkStops(w) PROVE GreetingTyped'
  <2>1. CASE Scan(w)
    BY <2>1, NoneOrOne DEF Scan, Off, GreetingTyped, ClerkAtOne
  <2>2. CASE ClerkStops(w)
    BY <2>2, NoneOrOne DEF ClerkStops, Off, GreetingTyped, ClerkAtOne
  <2> QED BY <1>4, <2>1, <2>2
<1>5. ASSUME NEW w \in Clerks, NEW c \in Cards, Take(w, c) PROVE GreetingTyped'
  <2>1. [clerk[w] EXCEPT !.step = "send", !.at = {c}] \in ClerkAtOne
    BY NoneOrOne DEF GreetingTyped, ClerkAtOne
  <2>2. CASE ClaimsPending(c)
    <3>1. card[c] \in CardRow /\ card \in [Cards -> CardRow]
      BY DEF GreetingTyped
    <3>2. [card[c] EXCEPT !.status = "PROCESSING"] \in CardRow
      BY <3>1 DEF CardRow
    <3>3. card' = [card EXCEPT ![c] = [card[c] EXCEPT !.status = "PROCESSING"]]
      BY <1>5, <2>2 DEF Take
    <3>4. clerk' = [clerk EXCEPT ![w] = [clerk[w] EXCEPT !.step = "send", !.at = {c}]]
      BY <1>5, <2>2 DEF Take
    <3> QED BY <1>5, <2>1, <3>1, <3>2, <3>3, <3>4 DEF Take, GreetingTyped
  <2>3. CASE ~ClaimsPending(c)
    BY <1>5, <2>3, NextOfOne DEF Take, GreetingTyped
  <2> QED BY <2>2, <2>3
<1>6. ASSUME NEW w \in Clerks, NEW c \in Cards, NEW reached \in BOOLEAN, SendOut(w, c, reached)
      PROVE  GreetingTyped'
  <2>1. [clerk[w] EXCEPT !.step = "store", !.reached = reached] \in ClerkAtOne
    BY DEF GreetingTyped, ClerkAtOne
  <2>2. clerk' = [clerk EXCEPT ![w] = [clerk[w] EXCEPT !.step = "store", !.reached = reached]]
    BY <1>6 DEF SendOut
  <2>3. sentTo' \in [Cards -> Nat]
    BY <1>6 DEF SendOut, GreetingTyped
  <2> QED BY <1>6, <2>1, <2>2, <2>3 DEF SendOut, GreetingTyped
<1>7. ASSUME NEW w \in Clerks, NEW c \in Cards, StoreOutcome(w, c) PROVE GreetingTyped'
  <2>1. clerk' \in [Clerks -> ClerkAtOne]
    BY <1>7, NextOfOne DEF StoreOutcome, GreetingTyped
  <2>2. card' \in [Cards -> CardRow]
    BY <1>7 DEF StoreOutcome, GreetingTyped, CardRow
  <2> QED BY <1>7, <2>1, <2>2 DEF StoreOutcome, GreetingTyped
<1> QED BY <1>1, <1>2, <1>3, <1>4, <1>5, <1>6, <1>7 DEF GreetingNext

\* The greetings, the runs over them and the managers who cancel are of their types;
\* a run has one greeting of its batch in hand at most.
THEOREM GreetingTypes == GreetingSpec => []GreetingTypeOK
<1>1. GreetingInit => GreetingTyped
  BY GreetingAssumption, NoneOrOne DEF GreetingInit, GreetingTyped, Off, CardRow, ClerkAtOne
<1>2. GreetingTyped => GreetingTypeOK
  BY DEF GreetingTyped, GreetingTypeOK, CardRow, ClerkAtOne, AtMostOneCard
<1> QED BY <1>1, <1>2, GreetingTypesStep, PTL DEF GreetingSpec

\* Numbers of saves up to n.
UpTo(n) == [Events -> 0..n]

\* Numbers of saves are numbers of more saves.
LEMMA UpToGrows ==
    ASSUME NEW n \in Nat, NEW f \in UpTo(n)
    PROVE  f \in UpTo(n + 1)
BY DEF UpTo

\* A run over saves up to n.
SyncUpTo(n) == [awake : BOOLEAN, todo : UpTo(n), keep : UpTo(n)]

\* The saves are numbered from 1; everything counts up to the last of them.
CheckInTyped ==
    /\ evening \in [saves : Nat, runs : Nat]
    /\ saves \in Nat
    /\ queue \in UpTo(saves) /\ stored \in UpTo(saves) /\ last \in UpTo(saves)
    /\ sync \in [Syncs -> SyncUpTo(saves)]
    /\ \A k \in Syncs : ~sync[k].awake => sync[k] = Asleep
    /\ open \in BOOLEAN
    /\ raced \subseteq Events

\* Nothing kept, and a run that sleeps, count no save.
LEMMA AsleepUpTo ==
    ASSUME NEW n \in Nat
    PROVE  None \in UpTo(n) /\ Asleep \in SyncUpTo(n)
BY DEF None, Asleep, UpTo, SyncUpTo

\* What is queued, stored and in the hands of the runs are saves that were made.
LEMMA CheckInTypesStep == CheckInTyped /\ [CheckInNext]_checkInVars => CheckInTyped'
<1> SUFFICES ASSUME CheckInTyped, [CheckInNext]_checkInVars PROVE CheckInTyped'
  OBVIOUS
<1>1. CASE Close \/ UNCHANGED checkInVars
  BY <1>1 DEF Close, checkInVars, CheckInTyped
<1>2. ASSUME NEW e \in Events, NEW outcome \in Outcomes, Save(e, outcome) PROVE CheckInTyped'
  <2>1. saves' = saves + 1 /\ saves \in Nat
    BY <1>2 DEF Save, CheckInTyped
  <2>2. queue \in UpTo(saves') /\ stored \in UpTo(saves') /\ last \in UpTo(saves')
    BY <2>1, UpToGrows DEF CheckInTyped
  <2>3. queue' \in UpTo(saves') /\ stored' \in UpTo(saves') /\ last' \in UpTo(saves')
    BY <1>2, <2>1, <2>2 DEF Save, UpTo
  <2>4. ASSUME NEW k \in Syncs PROVE sync[k] \in SyncUpTo(saves')
    BY <2>1, UpToGrows DEF CheckInTyped, SyncUpTo
  <2>5. sync' \in [Syncs -> SyncUpTo(saves')]
    BY <1>2, <2>4 DEF Save, CheckInTyped
  <2> QED BY <1>2, <2>1, <2>3, <2>5 DEF Save, CheckInTyped
<1>3. ASSUME NEW e \in Events, NEW outcome \in Outcomes, NEW k \in Syncs, Put(k, e, outcome)
      PROVE  CheckInTyped'
  <2>1. sync[k] \in SyncUpTo(saves) /\ sync[k].todo[e] \in 0..saves /\ sync[k].awake
    BY <1>3 DEF Put, CheckInTyped, SyncUpTo, UpTo, Asleep, None
  <2>2. stored' \in UpTo(saves)
    BY <1>3, <2>1 DEF Put, CheckInTyped, UpTo
  <2>3. PICK x \in 0..saves :
           sync' = [sync EXCEPT ![k] = [sync[k] EXCEPT !.todo[e] = 0, !.keep[e] = x]]
    <3>1. sync' = [sync EXCEPT ![k] = [sync[k] EXCEPT !.todo[e] = 0,
                          !.keep[e] = IF Kept(outcome) THEN sync[k].todo[e] ELSE 0]]
      BY <1>3 DEF Put
    <3>2. (IF Kept(outcome) THEN sync[k].todo[e] ELSE 0) \in 0..saves
      BY <2>1 DEF CheckInTyped
    <3> QED BY <3>1, <3>2
  <2> DEFINE r == [sync[k] EXCEPT !.todo[e] = 0, !.keep[e] = x]
  <2>4. r \in SyncUpTo(saves) /\ r.awake
    <3>1. /\ [sync[k].todo EXCEPT ![e] = 0] \in UpTo(saves)
          /\ [sync[k].keep EXCEPT ![e] = x] \in UpTo(saves)
      BY <2>1 DEF SyncUpTo, UpTo, CheckInTyped
    <3> QED BY <2>1, <3>1 DEF SyncUpTo
  <2>5. sync' = [sync EXCEPT ![k] = r]
    BY <2>3
  <2> HIDE DEF r
  <2>6. /\ sync' \in [Syncs -> SyncUpTo(saves)]
        /\ \A j \in Syncs : ~sync'[j].awake => sync'[j] = Asleep
    BY <2>4, <2>5 DEF CheckInTyped
  <2> QED BY <1>3, <2>2, <2>6 DEF Put, CheckInTyped
<1>4. ASSUME NEW k \in Syncs, StartSync(k) PROVE CheckInTyped'
  <2> DEFINE r == [Asleep EXCEPT !.awake = TRUE, !.todo = queue]
  <2>1. r \in SyncUpTo(saves) /\ r.awake
    BY AsleepUpTo DEF CheckInTyped, Asleep, SyncUpTo
  <2>2. sync' = [sync EXCEPT ![k] = r] /\ evening' \in [saves : Nat, runs : Nat]
    BY <1>4 DEF StartSync, CheckInTyped
  <2> QED BY <1>4, <2>1, <2>2 DEF StartSync, CheckInTyped
<1>5. ASSUME NEW k \in Syncs, EndSync(k) \/ SyncStops(k) PROVE CheckInTyped'
  BY <1>5, AsleepUpTo DEF EndSync, SyncStops, CheckInTyped, SyncUpTo
<1> QED BY <1>1, <1>2, <1>3, <1>4, <1>5 DEF CheckInNext

\* The queue of the form, the server and the runs between them hold only saves that
\* were made, and a run that sleeps holds nothing.
THEOREM CheckInTypes == CheckInSpec => []CheckInTypeOK
<1>1. CheckInInit => CheckInTyped
  BY CheckInAssumption, AsleepUpTo DEF CheckInInit, CheckInTyped
<1>2. CheckInTyped => CheckInTypeOK
  BY DEF CheckInTyped, CheckInTypeOK, UpTo, SyncUpTo
<1> QED BY <1>1, <1>2, CheckInTypesStep, PTL DEF CheckInSpec
=============================================================================
