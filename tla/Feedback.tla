------------------------------ MODULE Feedback ------------------------------
(***************************************************************************)
(* The survey after one event (utils/feedbackHelpers.ts,                   *)
(* controllers/feedback.controller.ts): the rows of its two sides, the     *)
(* hourly sweep of every server instance, the manager's own sending, and   *)
(* the answers of the two sides.                                           *)
(*                                                                         *)
(* The event is closed and its survey due; the scan window of 14 days has  *)
(* not ended.  A sender is a sweep that has reached this booking, or a     *)
(* request of the manager.  A sweep keeps the time it started at: it is    *)
(* what the claim writes and what the backoff is measured from.  The three *)
(* categories of a survey are one rating.                                  *)
(***************************************************************************)
EXTENDS Integers

CONSTANTS
    Sides,        \* clientSide of the rows: the two sides of the event
    Senders,      \* sweeps and requests to send
    Guests,       \* requests that submit a survey
    MaxAttempts,  \* FEEDBACK_MAX_NOTIFY_ATTEMPTS
    Backoff,      \* FEEDBACK_RETRY_BACKOFF_MINUTES, in hours
    Ratings,      \* FEEDBACK_CRITICAL_SCORE_BELOW and the gap separate them
    Critical,     \* FEEDBACK_CRITICAL_SCORE_BELOW
    Gap,          \* FEEDBACK_SCORE_GAP_THRESHOLD
    Surveys       \* the traffic mixes: hours, starts, faults, desk, answers

ASSUME FeedbackAssumption ==
    /\ MaxAttempts \in Nat /\ Backoff \in Nat \ {0}
    /\ Ratings \subseteq Nat /\ Critical \in Nat /\ Gap \in Nat
    /\ Surveys \subseteq [hours : Nat, starts : Nat, faults : Nat,
                          desk : BOOLEAN, answers : BOOLEAN]

VARIABLES
    survey,       \* bound: the mix this behaviour runs under
    hour,         \* the clock
    spare,        \* bounds: starts and faults left
    rows,         \* the Feedback row of each side
    sender,       \* the senders at work
    guest,        \* the submissions at work
    told,         \* alerts given to the manager
    copies,       \* history: links the sweeps delivered to a side
    excused,      \* history: claims of a row still held after the backoff, and
                  \* deliveries that were never recorded
    missed        \* history: sides that answered at once, or an alert lost

feedbackVars == <<survey, hour, spare, rows, sender, guest, told, copies, excused, missed>>

RowType == [made : BOOLEAN, done : BOOLEAN, rating : Ratings \cup {0}, notified : BOOLEAN,
            attempts : Nat, stamp : Nat]
NewRow == [made |-> FALSE, done |-> FALSE, rating |-> 0, notified |-> FALSE,
           attempts |-> 0, stamp |-> 0]

Resting == [step |-> "idle", auto |-> FALSE, now |-> 0, asked |-> {}, left |-> {},
            at |-> {}, sent |-> FALSE]
Away == [step |-> "idle", at |-> {}, rating |-> 0, others |-> {}]

FeedbackInit ==
    /\ survey \in Surveys
    /\ hour = 1
    /\ spare = [starts |-> survey.starts, faults |-> survey.faults]
    /\ rows = [s \in Sides |-> NewRow]
    /\ sender = [p \in Senders |-> Resting]
    /\ guest = [g \in Guests |-> Away]
    /\ told = {}
    /\ copies = [s \in Sides |-> 0]
    /\ excused = [s \in Sides |-> 0]
    /\ missed = FALSE

Tick ==
    /\ hour < survey.hours
    /\ hour' = hour + 1
    /\ UNCHANGED <<survey, spare, rows, sender, guest, told, copies, excused, missed>>

(***************************************************************************)
(* Sending.                                                                *)
(***************************************************************************)

NothingSent == UNCHANGED <<survey, hour, guest, told, copies, missed>>

Start(p, job) ==
    /\ sender[p].step = "idle" /\ spare.starts > 0
    /\ sender' = [sender EXCEPT ![p] = job]
    /\ spare' = [spare EXCEPT !.starts = @ - 1]
    /\ UNCHANGED <<rows, excused>> /\ NothingSent

\* findFeedbackCandidates: no row yet, or one that may still be sent.
Candidate ==
    \/ \A s \in Sides : ~rows[s].made
    \/ \E s \in Sides : /\ rows[s].made /\ ~rows[s].done /\ ~rows[s].notified
                        /\ rows[s].attempts < MaxAttempts

StartSweep(p) ==
    /\ Candidate
    /\ Start(p, [Resting EXCEPT !.step = "ensure", !.auto = TRUE, !.now = hour])

\* sendAdmin, for one side or for every side that has not answered.
StartManual(p, asked) ==
    /\ survey.desk
    /\ Start(p, [Resting EXCEPT !.step = "ensure", !.asked = asked])

\* A sender that has nothing left is done.
With(job, left) == IF left = {} THEN Resting ELSE [job EXCEPT !.step = "pick", !.left = left,
                                                              !.at = {}, !.sent = FALSE]

\* ensureFeedbackRecordsForBooking: missing rows are made, rows made by another
\* at the same time are kept, and the rows are read as they are now.
Ensure(p) ==
    /\ sender[p].step = "ensure"
    /\ rows' = [s \in Sides |-> [rows[s] EXCEPT !.made = TRUE]]
    /\ LET open == {s \in Sides : ~rows[s].done}
           left == IF sender[p].auto THEN {s \in open : ~rows[s].notified}
                   ELSE IF sender[p].asked = {} THEN open ELSE open \cap sender[p].asked
       IN  sender' = [sender EXCEPT ![p] = With(sender[p], left)]
    /\ UNCHANGED <<spare, excused>> /\ NothingSent

\* Mutant: a row whose link was delivered meanwhile can be claimed again.
ClaimableUnanswered(p, s) ==
    /\ ~rows[s].done /\ rows[s].attempts < MaxAttempts
    /\ rows[s].stamp = 0 \/ rows[s].stamp <= sender[p].now - Backoff

\* Mutant: a row may be claimed however often it was.
ClaimableForever(p, s) ==
    /\ ~rows[s].done /\ ~rows[s].notified
    /\ rows[s].stamp = 0 \/ rows[s].stamp <= sender[p].now - Backoff

\* The row may be claimed: retryCutoff is counted from the start of the sweep.
Claimable(p, s) ==
    /\ ~rows[s].done /\ ~rows[s].notified
    /\ rows[s].attempts < MaxAttempts
    /\ rows[s].stamp = 0 \/ rows[s].stamp <= sender[p].now - Backoff

\* History: another sweep has claimed the row a backoff ago and still holds it.
Lapsed(p, s) ==
    /\ rows[s].stamp <= sender[p].now - Backoff
    /\ \E q \in Senders \ {p} : sender[q].auto /\ sender[q].at = {s}

\* dispatchFeedbackForBooking: a compare-and-set on the row before the sending.
Claim(p, s) ==
    /\ sender[p].step = "pick" /\ sender[p].auto /\ s \in sender[p].left
    /\ IF Claimable(p, s)
       THEN /\ rows' = [rows EXCEPT ![s].stamp = sender[p].now, ![s].attempts = @ + 1]
            /\ sender' = [sender EXCEPT ![p].step = "send", ![p].at = {s}]
            /\ excused' = [excused EXCEPT ![s] = IF Lapsed(p, s) THEN @ + 1 ELSE @]
       ELSE /\ sender' = [sender EXCEPT ![p] = With(sender[p], sender[p].left \ {s})]
            /\ UNCHANGED <<rows, excused>>
    /\ UNCHANGED spare /\ NothingSent

\* The manager's request claims nothing.
PickManual(p, s) ==
    /\ sender[p].step = "pick" /\ ~sender[p].auto /\ s \in sender[p].left
    /\ sender' = [sender EXCEPT ![p].step = "send", ![p].at = {s}]
    /\ UNCHANGED <<spare, rows, excused>> /\ NothingSent

\* E-mail and WhatsApp of sendFeedbackLinkForRecord, one or none of them accepted.
Send(p, s, delivered) ==
    /\ sender[p].step = "send" /\ sender[p].at = {s}
    /\ sender' = [sender EXCEPT ![p].step = "store", ![p].sent = delivered]
    /\ copies' = [copies EXCEPT ![s] = IF delivered /\ sender[p].auto THEN @ + 1 ELSE @]
    /\ UNCHANGED <<survey, hour, spare, rows, guest, told, excused, missed>>

Store(p, s) ==
    /\ sender[p].step = "store" /\ sender[p].at = {s}
    /\ rows' = [rows EXCEPT ![s].notified = @ \/ sender[p].sent]
    /\ sender' = [sender EXCEPT ![p] = With(sender[p], sender[p].left \ {s})]
    /\ UNCHANGED <<spare, excused>> /\ NothingSent

\* The second channel or the update throws: a sweep goes on with the next row, a
\* manager's request ends.  Or the process stops.
SendingFails(p, s, stops) ==
    /\ sender[p].step = "store" /\ sender[p].at = {s} /\ spare.faults > 0
    /\ spare' = [spare EXCEPT !.faults = @ - 1]
    /\ excused' = [excused EXCEPT ![s] = IF sender[p].sent /\ sender[p].auto THEN @ + 1 ELSE @]
    /\ sender' = [sender EXCEPT
                     ![p] = IF stops \/ ~sender[p].auto THEN Resting
                            ELSE With(sender[p], sender[p].left \ {s})]
    /\ UNCHANGED rows /\ NothingSent

(***************************************************************************)
(* submitFeedback: the link is on the row, the row is taken by a            *)
(* compare-and-set, the other side is read in the same transaction.         *)
(***************************************************************************)

OtherSides(s) == Sides \ {s}

\* Mutant: the row is not looked for before it is taken.
OpenUnfound(s) == ~rows[s].done

\* The token belongs to a row that was not answered.
OpenLink(s) == rows[s].made /\ ~rows[s].done

Submit(g, s, rating) ==
    /\ survey.answers
    /\ guest[g].step = "idle" /\ OpenLink(s)
    /\ \A h \in Guests : guest[h].step = "commit" => guest[h].at # {s}
    /\ guest' = [guest EXCEPT
                    ![g] = [step |-> "commit", at |-> {s}, rating |-> rating,
                            others |-> {rows[o].rating : o \in {o \in OtherSides(s) : rows[o].done}}]]
    /\ missed' = (missed \/ \E h \in Guests : guest[h].step = "commit")
    /\ UNCHANGED <<survey, hour, spare, rows, sender, told, copies, excused>>

CommitAnswer(g, s) ==
    /\ guest[g].step = "commit" /\ guest[g].at = {s}
    /\ rows' = [rows EXCEPT ![s].done = TRUE, ![s].rating = guest[g].rating]
    /\ guest' = [guest EXCEPT ![g].step = "tell"]
    /\ UNCHANGED <<survey, hour, spare, sender, told, copies, excused, missed>>

\* detectFeedbackDiscrepancy.
Apart(a, b) == a - b >= Gap \/ b - a >= Gap
Discrepant(a, b) == a < Critical \/ b < Critical \/ Apart(a, b)

\* Mutant: a low rating is told as the answer of one side, whoever came before.
AlertLowFirst(rating, others) ==
    IF rating < Critical THEN {"low"}
    ELSE IF \E o \in others : Discrepant(rating, o) THEN {"discrepancy"} ELSE {}

AlertFor(rating, others) ==
    IF others # {}
    THEN IF \E o \in others : Discrepant(rating, o) THEN {"discrepancy"} ELSE {}
    ELSE IF rating < Critical THEN {"low"} ELSE {}

TellManager(g) ==
    /\ guest[g].step = "tell"
    /\ told' = told \cup AlertFor(guest[g].rating, guest[g].others)
    /\ guest' = [guest EXCEPT ![g] = Away]
    /\ UNCHANGED <<survey, hour, spare, rows, sender, copies, excused, missed>>

\* The process stops between the commit and the alert.
TellingFails(g) ==
    /\ guest[g].step = "tell" /\ spare.faults > 0
    /\ spare' = [spare EXCEPT !.faults = @ - 1]
    /\ guest' = [guest EXCEPT ![g] = Away]
    /\ missed' = TRUE
    /\ UNCHANGED <<survey, hour, rows, sender, told, copies, excused>>

(***************************************************************************)
(* The specification.                                                      *)
(***************************************************************************)

FeedbackNext ==
    \/ Tick
    \/ \E p \in Senders :
          \/ StartSweep(p) \/ Ensure(p)
          \/ \E s \in Sides : StartManual(p, {s})
          \/ StartManual(p, {})
          \/ \E s \in Sides :
                \/ Claim(p, s) \/ PickManual(p, s) \/ Store(p, s)
                \/ \E delivered \in BOOLEAN : Send(p, s, delivered)
                \/ \E stops \in BOOLEAN : SendingFails(p, s, stops)
    \/ \E g \in Guests :
          \/ TellManager(g) \/ TellingFails(g)
          \/ \E s \in Sides :
                \/ CommitAnswer(g, s)
                \/ \E rating \in Ratings : Submit(g, s, rating)

FeedbackSpec == FeedbackInit /\ [][FeedbackNext]_feedbackVars

(***************************************************************************)
(* Properties.                                                             *)
(***************************************************************************)

\* Type invariant; a row that was never made holds nothing.
FeedbackTypeOK ==
    /\ survey \in Surveys /\ hour \in Nat
    /\ spare \in [starts : Nat, faults : Nat]
    /\ rows \in [Sides -> RowType]
    /\ \A s \in Sides : ~rows[s].made => rows[s] = NewRow
    /\ sender \in [Senders -> [step : {"idle", "ensure", "pick", "send", "store"},
                               auto : BOOLEAN, now : Nat, asked : SUBSET Sides,
                               left : SUBSET Sides, at : SUBSET Sides, sent : BOOLEAN]]
    /\ guest \in [Guests -> [step : {"idle", "commit", "tell"}, at : SUBSET Sides,
                             rating : Ratings \cup {0}, others : SUBSET (Ratings \cup {0})]]
    /\ told \subseteq {"low", "discrepancy"}
    /\ {copies, excused} \subseteq [Sides -> Nat]
    /\ missed \in BOOLEAN

\* "Two concurrent workers - or a worker overlapping its own previous run - can never send
\* twice" (feedbackHelpers.ts:357-359).  A sweep that still holds a row when its backoff,
\* counted from the start of the sweep, has ended breaks it.
NeverSentTwice == \A s \in Sides : copies[s] <= 1

\* What the claim does keep, which is less than its comment says (NeverSentTwice).  However
\* slow, overlapping or interrupted the sweeps are, each link was claimed, and the claims of
\* a side end at FEEDBACK_MAX_NOTIFY_ATTEMPTS; and of these links one is sent, and one more
\* for each claim taken over from a sweep that still held the row after the backoff and for
\* each delivery that nobody recorded (feedbackHelpers.ts:372-388).
LinkOncePerClaim ==
    \A s \in Sides :
        /\ copies[s] <= rows[s].attempts /\ rows[s].attempts <= MaxAttempts
        /\ copies[s] <= 1 + excused[s]

\* When both sides have answered and differ, or one is low, the manager has heard
\* of the discrepancy, unless they answered at once or a process stopped.
DiscrepancyIsTold ==
    \A a, b \in Sides :
        /\ a # b /\ rows[a].done /\ rows[b].done /\ ~missed
        /\ Discrepant(rows[a].rating, rows[b].rating)
        /\ \A g \in Guests : guest[g].step = "idle"
        => "discrepancy" \in told
=============================================================================
