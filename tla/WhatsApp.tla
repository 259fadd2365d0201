------------------------------ MODULE WhatsApp ------------------------------
(***************************************************************************)
(* Incoming WhatsApp traffic on top of the outbox: the webhook             *)
(* (controllers/whatsappWebhook.controller.ts), the stored events and the  *)
(* worker that retries them (Services/whatsapp/webhookEvent.service.ts,    *)
(* webhookProcessor.ts), delivery statuses and inbound messages            *)
(* (message.service.ts), the IncomingMessage automation                    *)
(* (automation/handlers/incomingMessage.ts) and the older forwarding flow. *)
(*                                                                         *)
(* An event is the record its external id is made of: the sender's message *)
(* id, or the accepted send and the status reported for it.  An outgoing   *)
(* message is the record its dedupe key is made of.  A handler is a        *)
(* process of a server: it serves one POST or runs one tick of the webhook *)
(* job.  Its steps are the statements between two awaits.                  *)
(*                                                                         *)
(* A behaviour chooses its traffic in its first state: which messages are  *)
(* requested, which events arrive, which processes run, how many faults.   *)
(***************************************************************************)
EXTENDS WhatsAppOutbox

CONSTANTS
    Customers,   \* phone numbers, each with one conversation
    Events,      \* [kind |-> "message", id, from] or [kind |-> "status", m, k, s]
    Handlers,    \* processes that serve requests or run the webhook job
    MaxRetries,  \* WHATSAPP_WEBHOOK_MAX_RETRIES
    Traffics,    \* the traffic mixes: records of the fields read below
    NoEvent      \* no event: the handler handles none

InboundEvents == {e \in Events : e.kind = "message"}
StatusEvents == {e \in Events : e.kind = "status"}

\* What an inbound message leads to: the manager's notice and the customer's reply.
Notice(e) == [kind |-> "notice", of |-> e]
AutoReply(c) == [kind |-> "autoReply", to |-> c]

ASSUME WhatsAppAssumption ==
    /\ MaxRetries \in Nat
    /\ NoEvent \notin Events
    /\ IsFiniteSet(Events)
    /\ Events = InboundEvents \cup StatusEvents
    /\ \A e \in StatusEvents :
          /\ e.m \in Messages /\ e.k \in Nat \ {0}
          /\ e.s \in {"Sent", "Delivered", "Read", "Failed"}
    /\ \A e \in InboundEvents : e.from \in Customers /\ Notice(e) \in Messages

VARIABLES
    traffic,    \* the mix this behaviour runs under
    passed,     \* requests that passed the checks made before the transaction
    event,      \* status of each stored webhook event
    retries,    \* its retryCount
    recorded,   \* inbound messages in the ledger
    counted,    \* history: those that reached their conversation
    unread,     \* unreadCount of each conversation
    window,     \* the customer wrote less than 24 hours ago
    raced,      \* history: messages and customers written from a stale read
    hpc,        \* where each handler is
    job,        \* the event it handles
    mine,       \* the events it claimed and has not finished, worker only
    via,        \* "http" or "worker"
    seen,       \* the events, the ledger status or the notes it read
    stored,     \* inbound messages of the older table
    notes,      \* those appended to the booking's manager comments
    died        \* history: events a dead handler left claimed

hookVars == <<event, retries, recorded, counted, unread, window, raced>>
handlerVars == <<hpc, job, mine, via, seen>>
legacyVars == <<stored, notes>>
vars == <<outboxVars, traffic, passed, hookVars, handlerVars, legacyVars, died>>

EventStatus == {"none", "Pending", "Processing", "Processed", "Ignored", "Failed"}
HandlerPC == {"idle", "claiming", "ready", "status", "write", "find", "insert",
              "count", "notify", "notice", "reply", "answer", "handled",
              "ignored", "failed", "legacy", "store", "note"}

Init ==
    /\ traffic \in Traffics
    /\ OutboxInit
    /\ budget = traffic.faults
    /\ passed = {}
    /\ event = [e \in Events |-> "none"]
    /\ retries = [e \in Events |-> 0]
    /\ recorded = {}
    /\ counted = {}
    /\ unread = [c \in Customers |-> 0]
    /\ window = [c \in Customers |-> FALSE]
    /\ raced = {}
    /\ hpc = [h \in Handlers |-> "idle"]
    /\ job = [h \in Handlers |-> NoEvent]
    /\ mine = [h \in Handlers |-> {}]
    /\ via = [h \in Handlers |-> "http"]
    /\ seen = [h \in Handlers |-> {}]
    /\ stored = {}
    /\ notes = {}
    /\ died = {}

(***************************************************************************)
(* Outgoing messages: the checks of queueWhatsAppMessage, then the outbox. *)
(***************************************************************************)

\* Free text needs the 24-hour window.  The approval of a template is Meta's
\* and is not modelled: a template message may always pass.
Sendable(m) == m.kind \in {"text", "autoReply"} => window[m.to]

RequestPasses(m) ==
    /\ m \in traffic.requests /\ m \notin passed /\ Sendable(m)
    /\ passed' = passed \cup {m}
    /\ UNCHANGED <<outboxVars, traffic, hookVars, handlerVars, legacyVars, died>>

QueueRequest(m) ==
    /\ m \in passed /\ Enqueue(m)
    /\ UNCHANGED <<traffic, passed, hookVars, handlerVars, legacyVars, died>>

OperatorCancels(m) ==
    /\ traffic.cancels /\ Cancel(m)
    /\ UNCHANGED <<traffic, passed, hookVars, handlerVars, legacyVars, died>>

OutboxRuns ==
    /\ \/ \E w \in Workers : w \in traffic.workers /\ WorkerStep(w)
       \/ \E m \in Messages : DeadClaimAges(m)
       \/ FaultStep
    /\ UNCHANGED <<traffic, passed, hookVars, handlerVars, legacyVars, died>>

\* 24 hours pass without a message of the customer.
WindowCloses(c) ==
    /\ window[c] /\ traffic.closes
    /\ window' = [window EXCEPT ![c] = FALSE]
    /\ UNCHANGED <<outboxVars, traffic, passed, event, retries, recorded, counted,
                   unread, raced, handlerVars, legacyVars, died>>

(***************************************************************************)
(* The webhook request: store each event once, then handle it in the       *)
(* request or leave it to the job; the older flow runs in any case.        *)
(***************************************************************************)

\* Meta reports a status only for a send it accepted.
CanArrive(e) == e \in traffic.events /\ (e.kind = "status" => e.k <= copies[e.m])

FirstStep(e) == IF e.kind = "status" THEN "status" ELSE "find"
AfterIngest(e) == IF e.kind = "message" /\ traffic.legacy THEN "legacy" ELSE "idle"
Go(h, next) == hpc' = [hpc EXCEPT ![h] = next]

\* persistWebhookEvent of a first delivery: the unique external id admits it.
Post(h, e) ==
    /\ hpc[h] = "idle" /\ h \in traffic.servers
    /\ CanArrive(e) /\ event[e] = "none"
    /\ event' = [event EXCEPT ![e] = "Pending"]
    /\ Go(h, IF traffic.async THEN AfterIngest(e) ELSE FirstStep(e))
    /\ job' = [job EXCEPT ![h] = IF traffic.async /\ AfterIngest(e) = "idle" THEN NoEvent ELSE e]
    /\ via' = [via EXCEPT ![h] = "http"]
    /\ UNCHANGED <<outboxVars, traffic, passed, retries, recorded, counted, unread,
                   window, raced, mine, seen, legacyVars, died>>

\* A redelivery is a duplicate: nothing but the older flow runs again.
PostAgain(h, e) ==
    /\ hpc[h] = "idle" /\ h \in traffic.servers
    /\ CanArrive(e) /\ event[e] # "none" /\ AfterIngest(e) = "legacy"
    /\ Go(h, "legacy")
    /\ job' = [job EXCEPT ![h] = e]
    /\ via' = [via EXCEPT ![h] = "http"]
    /\ UNCHANGED <<outboxVars, traffic, passed, hookVars, mine, seen, legacyVars, died>>

(***************************************************************************)
(* The webhook job: claim what is pending or failed, then handle it.       *)
(***************************************************************************)

Retriable(e) == event[e] \in {"Pending", "Failed"} /\ retries[e] < MaxRetries

StartJob(h) ==
    /\ hpc[h] = "idle" /\ h \in traffic.jobs
    /\ \E e \in Events : Retriable(e)
    /\ Go(h, "claiming")
    /\ seen' = [seen EXCEPT ![h] = {e \in Events : Retriable(e)}]
    /\ via' = [via EXCEPT ![h] = "worker"]
    /\ UNCHANGED <<outboxVars, traffic, passed, hookVars, job, mine, legacyVars, died>>

\* claimWebhookEvent: a conditional update that asks for the status alone.
ClaimEvent(h, e) ==
    /\ hpc[h] = "claiming" /\ e \in seen[h]
    /\ seen' = [seen EXCEPT ![h] = @ \ {e}]
    /\ IF event[e] \in {"Pending", "Failed"}
       THEN /\ event' = [event EXCEPT ![e] = "Processing"]
            /\ mine' = [mine EXCEPT ![h] = @ \cup {e}]
       ELSE UNCHANGED <<event, mine>>
    /\ UNCHANGED <<outboxVars, traffic, passed, retries, recorded, counted, unread,
                   window, raced, hpc, job, via, legacyVars, died>>

EndEventClaims(h) ==
    /\ hpc[h] = "claiming" /\ seen[h] = {}
    /\ Go(h, "ready")
    /\ UNCHANGED <<outboxVars, traffic, passed, hookVars, job, mine, via, seen,
                   legacyVars, died>>

NextEvent(h) ==
    /\ hpc[h] = "ready"
    /\ IF mine[h] = {}
       THEN Go(h, "idle") /\ UNCHANGED <<job, mine>>
       ELSE \E e \in mine[h] :
               /\ Go(h, FirstStep(e))
               /\ job' = [job EXCEPT ![h] = e]
               /\ mine' = [mine EXCEPT ![h] = @ \ {e}]
    /\ UNCHANGED <<outboxVars, traffic, passed, hookVars, via, seen, legacyVars, died>>

(***************************************************************************)
(* applyStatusUpdate: read the message by its provider id, then write.     *)
(***************************************************************************)

Rank(s) == CASE s = "Sent" -> 2 [] s = "Delivered" -> 3 [] s = "Read" -> 4 [] OTHER -> 0

\* Mutant: every status that matches a message is written.
NeverStaleStatus(s, now) == FALSE

\* The status is not Failed and no higher than the one in the ledger.
StaleStatus(s, now) == s # "Failed" /\ Rank(s) <= Rank(now)

\* What a handler remembers of the ledger: the status it read.
EntryRead(status) == [kind |-> "entry", s |-> status]

ReadEntry(h) ==
    /\ hpc[h] = "status"
    /\ LET e == job[h] IN
          /\ Go(h, IF wamid[e.m] # e.k THEN "ignored"
                   ELSE IF StaleStatus(e.s, entry[e.m]) THEN "handled" ELSE "write")
          /\ seen' = [seen EXCEPT ![h] = IF wamid[e.m] = e.k THEN {EntryRead(entry[e.m])} ELSE {}]
    /\ UNCHANGED <<outboxVars, traffic, passed, hookVars, job, mine, via, legacyVars, died>>

WriteEntry(h) ==
    /\ hpc[h] = "write"
    /\ LET e == job[h] IN
          /\ entry' = [entry EXCEPT ![e.m] = e.s]
          /\ raced' = IF seen[h] = {EntryRead(entry[e.m])} THEN raced ELSE raced \cup {e.m}
    /\ Go(h, "handled")
    /\ seen' = [seen EXCEPT ![h] = {}]
    /\ UNCHANGED <<rowVars, wamid, workerVars, copies, faults, budget, traffic, passed,
                   event, retries, recorded, counted, unread, window, job, mine, via,
                   legacyVars, died>>

(***************************************************************************)
(* processInboundMessage: find, insert, update the conversation, run the   *)
(* automation.                                                             *)
(***************************************************************************)

FindRecorded(h) ==
    /\ hpc[h] = "find"
    /\ Go(h, IF job[h] \in recorded THEN "handled" ELSE "insert")
    /\ UNCHANGED <<outboxVars, traffic, passed, hookVars, job, mine, via, seen,
                   legacyVars, died>>

\* Mutant: an insert that lost the race counts as a new message.
AfterInsertAlways(e) == "count"

AfterInsert(e) == IF e \in recorded THEN "handled" ELSE "count"

\* The unique index on the provider id refuses the second of two inserts.
InsertInbound(h) ==
    /\ hpc[h] = "insert"
    /\ Go(h, AfterInsert(job[h]))
    /\ recorded' = recorded \cup {job[h]}
    /\ UNCHANGED <<outboxVars, traffic, passed, event, retries, counted, unread, window,
                   raced, job, mine, via, seen, legacyVars, died>>

CountInbound(h) ==
    /\ hpc[h] = "count"
    /\ LET c == job[h].from IN
          /\ unread' = [unread EXCEPT ![c] = @ + 1]
          /\ window' = [window EXCEPT ![c] = TRUE]
    /\ counted' = counted \cup {job[h]}
    /\ Go(h, IF traffic.automation THEN "notify" ELSE "handled")
    /\ UNCHANGED <<outboxVars, traffic, passed, event, retries, recorded, raced, job,
                   mine, via, seen, legacyVars, died>>

\* The checks of the manager's notice, then its transaction.
CheckNotice(h) ==
    /\ hpc[h] = "notify"
    /\ Go(h, IF Sendable(Notice(job[h])) THEN "notice" ELSE "reply")
    /\ UNCHANGED <<outboxVars, traffic, passed, hookVars, job, mine, via, seen,
                   legacyVars, died>>

\* Mutant: the notice is keyed by the conversation, not by the message.
QueueNoticeOnce(h) ==
    /\ hpc[h] = "notice"
    /\ IF \E e \in InboundEvents : e.from = job[h].from /\ row[Notice(e)] # "none"
       THEN UNCHANGED outboxVars
       ELSE Enqueue(Notice(job[h]))
    /\ Go(h, "reply")
    /\ UNCHANGED <<traffic, passed, hookVars, job, mine, via, seen, legacyVars, died>>

QueueNotice(h) ==
    /\ hpc[h] = "notice"
    /\ IF row[Notice(job[h])] = "none" THEN Enqueue(Notice(job[h])) ELSE UNCHANGED outboxVars
    /\ Go(h, "reply")
    /\ UNCHANGED <<traffic, passed, hookVars, job, mine, via, seen, legacyVars, died>>

\* An unknown customer is answered once: no outgoing message in the ledger yet.
\* The reply is free text, and the window is read after that count.
CheckReply(h) ==
    /\ hpc[h] = "reply"
    /\ LET c == job[h].from IN
       Go(h, IF /\ AutoReply(c) \in Messages
                /\ entry[AutoReply(c)] = "none"
                /\ Sendable(AutoReply(c))
             THEN "answer" ELSE "handled")
    /\ UNCHANGED <<outboxVars, traffic, passed, hookVars, job, mine, via, seen,
                   legacyVars, died>>

QueueReply(h) ==
    /\ hpc[h] = "answer"
    /\ LET m == AutoReply(job[h].from) IN
       IF row[m] = "none" THEN Enqueue(m) ELSE UNCHANGED outboxVars
    /\ Go(h, "handled")
    /\ UNCHANGED <<traffic, passed, hookVars, job, mine, via, seen, legacyVars, died>>

(***************************************************************************)
(* The outcome of an event.                                                *)
(***************************************************************************)

\* After the outcome the worker goes on; the request goes on to the older flow.
Finish(h) ==
    LET next == IF via[h] = "worker" THEN "ready" ELSE AfterIngest(job[h]) IN
    /\ Go(h, next)
    /\ job' = [job EXCEPT ![h] = IF next = "legacy" THEN @ ELSE NoEvent]

MarkEvent(h) ==
    /\ hpc[h] \in {"handled", "ignored"}
    /\ event' = [event EXCEPT ![job[h]] = IF hpc[h] = "handled" THEN "Processed" ELSE "Ignored"]
    /\ Finish(h)
    /\ UNCHANGED <<outboxVars, traffic, passed, retries, recorded, counted, unread,
                   window, raced, mine, via, seen, legacyVars, died>>

\* Mutant: a failed event is put away as handled.
MarkEventHandled(h) ==
    /\ hpc[h] = "failed"
    /\ event' = [event EXCEPT ![job[h]] = "Processed"]
    /\ Finish(h)
    /\ UNCHANGED <<outboxVars, traffic, passed, retries, recorded, counted, unread,
                   window, raced, mine, via, seen, legacyVars, died>>

\* markWebhookEventFailed reads the counter and writes it back; both in one
\* step, since only a second handler of the same event can come between.
MarkEventFailed(h) ==
    /\ hpc[h] = "failed"
    /\ event' = [event EXCEPT ![job[h]] = "Failed"]
    /\ retries' = [retries EXCEPT ![job[h]] = @ + 1]
    /\ Finish(h)
    /\ UNCHANGED <<outboxVars, traffic, passed, recorded, counted, unread, window,
                   raced, mine, via, seen, legacyVars, died>>

SpendFault == budget > 0 /\ budget' = budget - 1
OutboxButBudget == <<rowVars, ledgerVars, workerVars, copies, faults>>

\* A statement of the handling throws before it takes effect.
HandlerThrows(h) ==
    /\ hpc[h] \in {"status", "write", "find", "insert", "count", "notify", "handled", "ignored"}
    /\ SpendFault
    /\ Go(h, "failed")
    /\ seen' = [seen EXCEPT ![h] = {}]
    /\ UNCHANGED <<OutboxButBudget, traffic, passed, hookVars, job, mine, via,
                   legacyVars, died>>

\* A message of the automation cannot be queued: logged and skipped.
QueueingFails(h) ==
    /\ hpc[h] \in {"notice", "answer"}
    /\ SpendFault
    /\ Go(h, IF hpc[h] = "notice" THEN "reply" ELSE "handled")
    /\ UNCHANGED <<OutboxButBudget, traffic, passed, hookVars, job, mine, via, seen,
                   legacyVars, died>>

\* The process dies.  What it had claimed stays Processing: the job lists
\* Pending and Failed events only.
HandlerCrashes(h) ==
    /\ hpc[h] # "idle"
    /\ SpendFault
    /\ Go(h, "idle")
    /\ job' = [job EXCEPT ![h] = NoEvent]
    /\ mine' = [mine EXCEPT ![h] = {}]
    /\ seen' = [seen EXCEPT ![h] = {}]
    /\ died' = died \cup mine[h] \cup ({job[h]} \cap Events)
    /\ UNCHANGED <<OutboxButBudget, traffic, passed, hookVars, via, legacyVars>>

\* Retention drops handled events; a late redelivery is then new again.
Cleanup(e) ==
    /\ traffic.cleanup /\ event[e] \in {"Processed", "Ignored"}
    /\ event' = [event EXCEPT ![e] = "none"]
    /\ retries' = [retries EXCEPT ![e] = 0]
    /\ UNCHANGED <<outboxVars, traffic, passed, recorded, counted, unread, window,
                   raced, handlerVars, legacyVars, died>>

(***************************************************************************)
(* The older flow: the booking is read with its comments, the message is   *)
(* stored under a unique id, and the note is appended to the comments as   *)
(* read.  The direct message to the manager that follows, on a redelivery  *)
(* too, and its flag are left out: no property here reads them.            *)
(***************************************************************************)

NotesOf(c) == {e \in notes : e.from = c}

LegacyRead(h) ==
    /\ hpc[h] = "legacy"
    /\ seen' = [seen EXCEPT ![h] = NotesOf(job[h].from)]
    /\ Go(h, "store")
    /\ UNCHANGED <<outboxVars, traffic, passed, hookVars, job, mine, via, legacyVars, died>>

LegacyStore(h) ==
    /\ hpc[h] = "store"
    /\ stored' = stored \cup {job[h]}
    /\ IF job[h] \in stored
       THEN /\ Go(h, "idle")
            /\ job' = [job EXCEPT ![h] = NoEvent]
            /\ seen' = [seen EXCEPT ![h] = {}]
       ELSE Go(h, "note") /\ UNCHANGED <<job, seen>>
    /\ UNCHANGED <<outboxVars, traffic, passed, hookVars, mine, via, notes, died>>

\* Mutant: the note replaces the comments.
NotesReplaced(h) == {job[h]}

NotesWritten(h) == seen[h] \cup {job[h]}

LegacyNote(h) ==
    /\ hpc[h] = "note"
    /\ notes' = (notes \ NotesOf(job[h].from)) \cup NotesWritten(h)
    /\ raced' = IF seen[h] = NotesOf(job[h].from) THEN raced ELSE raced \cup {job[h].from}
    /\ Go(h, "idle")
    /\ job' = [job EXCEPT ![h] = NoEvent]
    /\ seen' = [seen EXCEPT ![h] = {}]
    /\ UNCHANGED <<outboxVars, traffic, passed, event, retries, recorded, counted, unread,
                   window, mine, via, stored, died>>

(***************************************************************************)
(* The specification.                                                      *)
(***************************************************************************)

HandlerStep(h) ==
    \/ \E e \in Events : ClaimEvent(h, e)
    \/ EndEventClaims(h) \/ NextEvent(h)
    \/ ReadEntry(h) \/ WriteEntry(h)
    \/ FindRecorded(h) \/ InsertInbound(h) \/ CountInbound(h)
    \/ CheckNotice(h) \/ QueueNotice(h) \/ CheckReply(h) \/ QueueReply(h)
    \/ MarkEvent(h) \/ MarkEventFailed(h)
    \/ LegacyRead(h) \/ LegacyStore(h) \/ LegacyNote(h)

Next ==
    \/ OutboxRuns
    \/ \E m \in Messages : RequestPasses(m) \/ QueueRequest(m) \/ OperatorCancels(m)
    \/ \E c \in Customers : WindowCloses(c)
    \/ \E h \in Handlers :
          \/ \E e \in Events : Post(h, e) \/ PostAgain(h, e)
          \/ StartJob(h) \/ HandlerStep(h) \/ HandlerThrows(h)
          \/ QueueingFails(h) \/ HandlerCrashes(h)
    \/ \E e \in Events : Cleanup(e)

Spec == Init /\ [][Next]_vars

Others == <<traffic, passed, hookVars, handlerVars, legacyVars, died>>

\* The cron of every instance goes on, so do the statements of a handler that
\* does not crash, and a claim that nobody holds grows old.
FairSpec ==
    /\ Spec
    /\ \A w \in Workers : WF_vars(w \in traffic.workers /\ WorkerStep(w) /\ UNCHANGED Others)
    /\ \A m \in Messages : WF_vars(DeadClaimAges(m) /\ UNCHANGED Others)
    /\ \A h \in Handlers : WF_vars(StartJob(h)) /\ WF_vars(HandlerStep(h))

(***************************************************************************)
(* Properties.                                                             *)
(***************************************************************************)

\* Type invariant of the whole messaging state.
TypeOK ==
    /\ OutboxTypeOK
    /\ traffic \in Traffics
    /\ passed \subseteq Messages
    /\ event \in [Events -> EventStatus]
    /\ retries \in [Events -> Nat]
    /\ recorded \subseteq InboundEvents
    /\ counted \subseteq recorded
    /\ unread \in [Customers -> Nat]
    /\ window \in [Customers -> BOOLEAN]
    /\ raced \subseteq Messages \cup Customers
    /\ hpc \in [Handlers -> HandlerPC]
    /\ job \in [Handlers -> Events \cup {NoEvent}]
    /\ mine \in [Handlers -> SUBSET Events]
    /\ via \in [Handlers -> {"http", "worker"}]
    /\ stored \subseteq InboundEvents
    /\ notes \subseteq stored
    /\ died \subseteq Events

\* The unread counter never counts an inbound message twice, with the request
\* and the job handling the same event at once, redeliveries after the retention
\* and retries (message.service.ts:67-68).
CountedOnce ==
    \A c \in Customers :
        unread[c] <= Cardinality({e \in recorded : e.from = c})

Handles(h, e) == job[h] = e \/ e \in mine[h]

\* A message kept by the older flow has its note in the manager's comments,
\* unless another message of the customer was written meanwhile from the same
\* comments, or a statement failed.
StoredIsNoted ==
    \A e \in stored :
        /\ e.from \notin raced /\ budget = traffic.faults
        /\ ~ \E h \in Handlers : job[h] = e /\ hpc[h] \in {"store", "note"}
        => e \in notes

\* A handled message reached its conversation, and the manager's notice was
\* queued, if no statement failed on the way and nobody is at work on it; and what
\* the older flow kept is in the manager's comments (StoredIsNoted).
HandledReachesManager ==
    /\ \A e \in InboundEvents :
        /\ event[e] = "Processed" /\ budget = traffic.faults
        /\ ~ \E h \in Handlers : Handles(h, e)
        => e \in counted /\ (traffic.automation => row[Notice(e)] # "none")
    /\ StoredIsNoted

\* A status of the send the ledger names, which met no fault, is replaced by a lower one.
Lowered(m) ==
    /\ wamid'[m] = wamid[m] /\ wamid[m] # 0 /\ faults'[m] = 0
    /\ entry'[m] # "Failed" /\ Rank(entry'[m]) < Rank(entry[m])

\* "A lower-ranked status must never overwrite a higher one" (message.service.ts:24-25).
\* Two handlers of one message break it: both read before either writes.
HigherStatusStands == [][\A m \in Messages : ~Lowered(m)]_vars

\* A handler writes a status above the one it read, and the ledger has moved since.
WritesStale(h, m) ==
    /\ hpc[h] = "write" /\ job[h].m = m
    /\ \E s \in EntryStatus \ {entry[m]} :
          seen[h] = {EntryRead(s)} /\ Rank(s) < Rank(job[h].s)

\* A status of a fault-free send was handled, no failure of it was reported (or may have
\* been, and was dropped by the retention), and no handler wrote it from a stale read.
HandledUncrossed(e) ==
    /\ event[e] = "Processed" /\ e.m \notin raced /\ wamid[e.m] = e.k
    /\ e.s # "Failed" /\ faults[e.m] = 0
    /\ \A f \in StatusEvents : f.m = e.m /\ f.s = "Failed" =>
          event[f] = "none" /\ (traffic.cleanup => f \notin traffic.events)

\* What the comparison of applyStatusUpdate does keep, which is less than its comment says
\* (HigherStatusStands): the ledger falls only in the write of a handler that had read a
\* lower status, so that another one wrote in between, never by a report out of order,
\* a redelivery, a retry or the outbox.  Where none wrote so, the ledger shows each
\* handled status or a later one; and the outbox does not leave it behind.
StatusFallsOnlyByCrossing ==
    /\ [](/\ LedgerFollowsOutbox
          /\ \A e \in StatusEvents : HandledUncrossed(e) => Rank(entry[e.m]) >= Rank(e.s))
    /\ [][\A m \in Messages : Lowered(m) => \E h \in Handlers : WritesStale(h, m)]_vars

\* Where the job runs, a row waiting to be sent is sent, given up or cancelled
\* in the end, whichever worker dies with it.
OutboxDrains ==
    \A m \in {x \in Messages : x.kind = "template"} :
        row[m] = "Pending" /\ traffic.workers # {}
        ~> row[m] \in {"Sent", "Failed", "Cancelled"}

\* A stored inbound event is recorded in the end, whatever statement failed,
\* unless the handler that had claimed it died or the retries ran out.
StoredIsRecorded ==
    \A e \in InboundEvents :
        event[e] = "Pending" ~> \/ e \in recorded
                                \/ e \in died
                                \/ retries[e] >= MaxRetries
=============================================================================
