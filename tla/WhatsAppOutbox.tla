--------------------------- MODULE WhatsAppOutbox ---------------------------
(***************************************************************************)
(* The transactional outbox of outgoing WhatsApp messages and the workers  *)
(* that drain it: Services/whatsapp/outbox.service.ts, outboxWorker.ts and *)
(* the part of message.service.ts that follows an accepted send.           *)
(*                                                                         *)
(* A message is named by its dedupe key and has one outbox row and one     *)
(* entry of the message ledger, written together.  A worker is a server    *)
(* instance running the cron job.  Every step below is one statement on    *)
(* the database or one call to the provider, so workers interleave at      *)
(* every await.  Not modelled: the backoff delay (a tick that finds no row *)
(* due is a tick that comes later), the batch size, the retry-after hint.  *)
(***************************************************************************)
EXTENDS Naturals, FiniteSets

CONSTANTS
    Messages,      \* outgoing messages, by dedupe key
    Workers,       \* server instances that run the outbox job
    MaxAttempts,   \* WHATSAPP_RETRY_MAX_ATTEMPTS, the attempts of a row
    Budgets,       \* bound: the faults a behaviour may have in all
    NoMessage      \* no message: the worker processes none

ASSUME OutboxAssumption ==
    /\ MaxAttempts \in Nat \ {0}
    /\ Budgets \subseteq Nat
    /\ NoMessage \notin Messages
    /\ IsFiniteSet(Messages)

VARIABLES
    row,       \* status of the outbox row of each message
    attempts,  \* its attempts counter
    aged,      \* its claim is older than CLAIM_TIMEOUT_MS
    entry,     \* status of the message in the ledger
    wamid,     \* which accepted send the ledger's provider id names, 0 for none
    pc,        \* where each worker is in its tick
    due,       \* the candidates a worker read and has not tried to claim yet
    batch,     \* the rows a worker claimed and has not finished
    current,   \* the row it is processing
    sentAs,    \* which accepted send the worker's reply names
    copies,    \* history: sends of a message the provider accepted
    faults,    \* history: faults that hit the processing of a message
    budget     \* faults that may still happen

rowVars == <<row, attempts, aged>>
ledgerVars == <<entry, wamid>>
workerVars == <<pc, due, batch, current, sentAs>>
outboxVars == <<rowVars, ledgerVars, workerVars, copies, faults, budget>>

RowStatus == {"none", "Pending", "Processing", "Sent", "Failed", "Cancelled"}
EntryStatus == {"none", "Pending", "Sent", "Delivered", "Read", "Failed"}
\* Where a worker is: between two ticks, before it lists the due rows, claiming
\* them, at the head of its loop; then, with a current row, after an accepted
\* reply, after the row is marked, after a refusal, in the catch block, and
\* after the verdict on the attempt has been read.
PC == {"idle", "finding", "claiming", "ready", "accepted", "marked", "refused",
       "refusedForGood", "thrown", "retry", "giveUp", "drop", "unledgered"}

OutboxInit ==
    /\ row = [m \in Messages |-> "none"]
    /\ attempts = [m \in Messages |-> 0]
    /\ aged = [m \in Messages |-> FALSE]
    /\ entry = [m \in Messages |-> "none"]
    /\ wamid = [m \in Messages |-> 0]
    /\ pc = [w \in Workers |-> "idle"]
    /\ due = [w \in Workers |-> {}]
    /\ batch = [w \in Workers |-> {}]
    /\ current = [w \in Workers |-> NoMessage]
    /\ sentAs = [w \in Workers |-> 0]
    /\ copies = [m \in Messages |-> 0]
    /\ faults = [m \in Messages |-> 0]
    /\ budget \in Budgets

\* A worker still has the row in hand: claimed and not finished.
Holds(w, m) == m \in batch[w] \/ current[w] = m
Held(m) == \E w \in Workers : Holds(w, m)

Fault(m) == /\ budget > 0
            /\ budget' = budget - 1
            /\ faults' = [faults EXCEPT ![m] = @ + 1]
NoFault == UNCHANGED <<faults, budget>>

(***************************************************************************)
(* Writing to the outbox.                                                  *)
(***************************************************************************)

\* The transaction of queueWhatsAppMessage.  A key that is already there adds
\* nothing: found by the first read, or refused by the unique index, which
\* aborts the transaction of the request that lost.
Enqueue(m) ==
    /\ row[m] = "none"
    /\ row' = [row EXCEPT ![m] = "Pending"]
    /\ entry' = [entry EXCEPT ![m] = "Pending"]
    /\ UNCHANGED <<attempts, aged, wamid, workerVars, copies, faults, budget>>

\* Mutant: whatever is not sent yet may be cancelled.
CancelUnsent(m) ==
    /\ row[m] \in {"Pending", "Processing", "Failed"}
    /\ row' = [row EXCEPT ![m] = "Cancelled"]
    /\ aged' = [aged EXCEPT ![m] = FALSE]
    /\ UNCHANGED <<attempts, ledgerVars, workerVars, copies, faults, budget>>

\* cancelOutboxMessage: one conditional update.
Cancel(m) ==
    /\ row[m] \in {"Pending", "Failed"}
    /\ row' = [row EXCEPT ![m] = "Cancelled"]
    /\ aged' = [aged EXCEPT ![m] = FALSE]
    /\ UNCHANGED <<attempts, ledgerVars, workerVars, copies, faults, budget>>

(***************************************************************************)
(* A tick of the worker: take stale claims back, list the due rows, claim  *)
(* them one at a time, process what was claimed.                           *)
(***************************************************************************)

\* Mutant: no claim is ever taken back.
NeverStale(m) == FALSE

Stale(m) == row[m] = "Processing" /\ aged[m]

\* releaseStaleClaims.  Taking the claim of a worker that is only slow counts
\* as a fault of the message; its budget was spent when the claim grew old.
Tick(w) ==
    /\ pc[w] = "idle"
    /\ pc' = [pc EXCEPT ![w] = "finding"]
    /\ row' = [m \in Messages |-> IF Stale(m) THEN "Pending" ELSE row[m]]
    /\ aged' = [m \in Messages |-> IF Stale(m) THEN FALSE ELSE aged[m]]
    /\ faults' = [m \in Messages |-> IF Stale(m) /\ Held(m) THEN faults[m] + 1 ELSE faults[m]]
    /\ UNCHANGED <<attempts, ledgerVars, due, batch, current, sentAs, copies, budget>>

FindDue(w) ==
    /\ pc[w] = "finding"
    /\ pc' = [pc EXCEPT ![w] = "claiming"]
    /\ due' = [due EXCEPT ![w] = {m \in Messages : row[m] = "Pending"}]
    /\ UNCHANGED <<rowVars, ledgerVars, batch, current, sentAs, copies, faults, budget>>

Claimable(m) == row[m] = "Pending"

\* One conditional update of claimDueMessages that matches the row.
Claim(w, m) ==
    /\ pc[w] = "claiming" /\ m \in due[w] /\ Claimable(m)
    /\ due' = [due EXCEPT ![w] = @ \ {m}]
    /\ row' = [row EXCEPT ![m] = "Processing"]
    /\ attempts' = [attempts EXCEPT ![m] = @ + 1]
    /\ aged' = [aged EXCEPT ![m] = FALSE]
    /\ batch' = [batch EXCEPT ![w] = @ \cup {m}]
    /\ UNCHANGED <<pc, ledgerVars, current, sentAs, copies, faults, budget>>

\* The same update, lost to another worker or to an operator.
LoseClaim(w, m) ==
    /\ pc[w] = "claiming" /\ m \in due[w] /\ ~Claimable(m)
    /\ due' = [due EXCEPT ![w] = @ \ {m}]
    /\ UNCHANGED <<rowVars, ledgerVars, pc, batch, current, sentAs, copies, faults, budget>>

EndClaims(w) ==
    /\ pc[w] = "claiming" /\ due[w] = {}
    /\ pc' = [pc EXCEPT ![w] = "ready"]
    /\ UNCHANGED <<rowVars, ledgerVars, due, batch, current, sentAs, copies, faults, budget>>

EndTick(w) ==
    /\ pc[w] = "ready" /\ batch[w] = {}
    /\ pc' = [pc EXCEPT ![w] = "idle"]
    /\ UNCHANGED <<rowVars, ledgerVars, due, batch, current, sentAs, copies, faults, budget>>

(***************************************************************************)
(* processOne: one call to the provider and its three replies.             *)
(***************************************************************************)

Take(w, m, next) ==
    /\ pc[w] = "ready" /\ m \in batch[w]
    /\ batch' = [batch EXCEPT ![w] = @ \ {m}]
    /\ current' = [current EXCEPT ![w] = m]
    /\ pc' = [pc EXCEPT ![w] = next]
    /\ UNCHANGED <<rowVars, ledgerVars, due>>

SendAccepted(w, m) ==
    /\ Take(w, m, "accepted")
    /\ copies' = [copies EXCEPT ![m] = @ + 1]
    /\ sentAs' = [sentAs EXCEPT ![w] = copies[m] + 1]
    /\ NoFault

\* The provider took the message and the worker does not learn it: the reply
\* timed out (retryable), or came without a message id (not retryable).
SendUnacknowledged(w, m, retryable) ==
    /\ Take(w, m, IF retryable THEN "refused" ELSE "refusedForGood")
    /\ copies' = [copies EXCEPT ![m] = @ + 1]
    /\ UNCHANGED sentAs
    /\ Fault(m)

SendRefused(w, m, retryable) ==
    /\ Take(w, m, IF retryable THEN "refused" ELSE "refusedForGood")
    /\ UNCHANGED <<copies, sentAs>>
    /\ NoFault

Done(w, next) ==
    /\ current' = [current EXCEPT ![w] = NoMessage]
    /\ sentAs' = [sentAs EXCEPT ![w] = 0]
    /\ pc' = [pc EXCEPT ![w] = next]

\* Mutant: an accepted row keeps its claim.
KeepClaim(w) ==
    /\ pc[w] = "accepted"
    /\ pc' = [pc EXCEPT ![w] = "marked"]
    /\ UNCHANGED <<rowVars, ledgerVars, due, batch, current, sentAs, copies, faults, budget>>

MarkOutboxSent(w) ==
    /\ pc[w] = "accepted"
    /\ pc' = [pc EXCEPT ![w] = "marked"]
    /\ row' = [row EXCEPT ![current[w]] = "Sent"]
    /\ aged' = [aged EXCEPT ![current[w]] = FALSE]
    /\ UNCHANGED <<attempts, ledgerVars, due, batch, current, sentAs, copies, faults, budget>>

\* Mutant: the ledger is left as it was once the row is marked.
ForgetMessageSent(w) ==
    /\ pc[w] = "marked"
    /\ Done(w, "ready")
    /\ UNCHANGED <<rowVars, ledgerVars, due, batch, copies, faults, budget>>

\* The ledger learns the provider's id and the status becomes Sent, whatever
\* it was.
MarkMessageSent(w) ==
    /\ pc[w] = "marked"
    /\ entry' = [entry EXCEPT ![current[w]] = "Sent"]
    /\ wamid' = [wamid EXCEPT ![current[w]] = sentAs[w]]
    /\ Done(w, "ready")
    /\ UNCHANGED <<rowVars, due, batch, copies, faults, budget>>

(***************************************************************************)
(* markOutboxAttemptFailed reads the counter, then writes the verdict.     *)
(***************************************************************************)

Exhausted(m) == attempts[m] >= MaxAttempts

ReadAttempts(w) ==
    /\ pc[w] \in {"refused", "refusedForGood", "thrown"}
    /\ pc' = [pc EXCEPT ![w] =
                 IF pc[w] # "refusedForGood" /\ ~Exhausted(current[w]) THEN "retry"
                 ELSE IF pc[w] = "thrown" THEN "drop" ELSE "giveUp"]
    /\ UNCHANGED <<rowVars, ledgerVars, due, batch, current, sentAs, copies, faults, budget>>

WriteRetry(w) ==
    /\ pc[w] = "retry"
    /\ row' = [row EXCEPT ![current[w]] = "Pending"]
    /\ aged' = [aged EXCEPT ![current[w]] = FALSE]
    /\ Done(w, "ready")
    /\ UNCHANGED <<attempts, ledgerVars, due, batch, copies, faults, budget>>

\* After an answer of the provider the ledger is marked next; in the catch
\* block the row alone is.
WriteFailed(w) ==
    /\ pc[w] \in {"giveUp", "drop"}
    /\ row' = [row EXCEPT ![current[w]] = "Failed"]
    /\ aged' = [aged EXCEPT ![current[w]] = FALSE]
    /\ IF pc[w] = "giveUp"
       THEN /\ pc' = [pc EXCEPT ![w] = "unledgered"]
            /\ UNCHANGED <<current, sentAs>>
       ELSE Done(w, "ready")
    /\ UNCHANGED <<attempts, ledgerVars, due, batch, copies, faults, budget>>

MarkMessageFailed(w) ==
    /\ pc[w] = "unledgered"
    /\ entry' = [entry EXCEPT ![current[w]] = "Failed"]
    /\ Done(w, "ready")
    /\ UNCHANGED <<rowVars, wamid, due, batch, copies, faults, budget>>

(***************************************************************************)
(* Faults.  Each spends the budget, and is counted on the message it hits. *)
(***************************************************************************)

\* A statement fails: before the provider is called, or anywhere after it.
\* The catch block of the loop takes over with a retryable failure.
ThrowEarly(w, m) ==
    /\ Take(w, m, "thrown")
    /\ UNCHANGED <<copies, sentAs>>
    /\ Fault(m)

Throw(w) ==
    /\ pc[w] \in {"accepted", "marked", "refused", "refusedForGood", "retry", "giveUp", "unledgered"}
    /\ pc' = [pc EXCEPT ![w] = "thrown"]
    /\ Fault(current[w])
    /\ UNCHANGED <<rowVars, ledgerVars, due, batch, current, sentAs, copies>>

\* The write of the catch block fails too and is swallowed: the row stays
\* claimed by a worker that has gone on to the next.
Swallow(w) ==
    /\ pc[w] \in {"thrown", "drop"}
    /\ Done(w, "ready")
    /\ Fault(current[w])
    /\ UNCHANGED <<rowVars, ledgerVars, due, batch, copies>>

\* The process dies with its claims in the database and restarts idle.
Crash(w) ==
    /\ pc[w] # "idle"
    /\ budget > 0
    /\ budget' = budget - 1
    /\ faults' = [m \in Messages |-> IF Holds(w, m) THEN faults[m] + 1 ELSE faults[m]]
    /\ Done(w, "idle")
    /\ due' = [due EXCEPT ![w] = {}]
    /\ batch' = [batch EXCEPT ![w] = {}]
    /\ UNCHANGED <<rowVars, ledgerVars, copies>>

\* A claim passes CLAIM_TIMEOUT_MS.  Nobody holds it any more (the code's
\* assumption), or, as a fault, a worker that is slow still does.
DeadClaimAges(m) ==
    /\ row[m] = "Processing" /\ ~aged[m] /\ ~Held(m)
    /\ aged' = [aged EXCEPT ![m] = TRUE]
    /\ UNCHANGED <<row, attempts, ledgerVars, workerVars, copies, faults, budget>>

LiveClaimAges(m) ==
    /\ row[m] = "Processing" /\ ~aged[m] /\ Held(m)
    /\ budget > 0 /\ budget' = budget - 1
    /\ aged' = [aged EXCEPT ![m] = TRUE]
    /\ UNCHANGED <<row, attempts, ledgerVars, workerVars, copies, faults>>

(***************************************************************************)
(* The worker's own steps, the faults, and the specification of the outbox *)
(* on its own.                                                             *)
(***************************************************************************)

WorkerStep(w) ==
    \/ Tick(w) \/ FindDue(w) \/ EndClaims(w) \/ EndTick(w)
    \/ \E m \in Messages :
          \/ Claim(w, m) \/ LoseClaim(w, m) \/ SendAccepted(w, m)
          \/ \E retryable \in BOOLEAN : SendRefused(w, m, retryable)
    \/ MarkOutboxSent(w) \/ MarkMessageSent(w)
    \/ ReadAttempts(w) \/ WriteRetry(w) \/ WriteFailed(w) \/ MarkMessageFailed(w)

FaultStep ==
    \/ \E w \in Workers :
          \/ Throw(w) \/ Swallow(w) \/ Crash(w)
          \/ \E m \in Messages :
                \/ ThrowEarly(w, m)
                \/ \E retryable \in BOOLEAN : SendUnacknowledged(w, m, retryable)
    \/ \E m \in Messages : LiveClaimAges(m)

OutboxStep ==
    \/ \E w \in Workers : WorkerStep(w)
    \/ \E m \in Messages : DeadClaimAges(m)
    \/ FaultStep

OutboxNext == OutboxStep \/ \E m \in Messages : Enqueue(m) \/ Cancel(m)

OutboxSpec == OutboxInit /\ [][OutboxNext]_outboxVars

(***************************************************************************)
(* Properties.                                                             *)
(***************************************************************************)

\* Type invariant of the outbox: rows, ledger, workers and histories.
OutboxTypeOK ==
    /\ row \in [Messages -> RowStatus]
    /\ attempts \in [Messages -> Nat]
    /\ aged \in [Messages -> BOOLEAN]
    /\ entry \in [Messages -> EntryStatus]
    /\ wamid \in [Messages -> Nat]
    /\ pc \in [Workers -> PC]
    /\ due \in [Workers -> SUBSET Messages]
    /\ batch \in [Workers -> SUBSET Messages]
    /\ current \in [Workers -> Messages \cup {NoMessage}]
    /\ sentAs \in [Workers -> Nat]
    /\ copies \in [Messages -> Nat]
    /\ faults \in [Messages -> Nat]
    /\ budget \in Nat

\* A message whose processing met no fault is accepted by the provider at most
\* once, whatever the number of workers: the claim of claimDueMessages is
\* exclusive (outboxWorker.ts:4-5).
SentOnceUnlessFault ==
    \A m \in Messages : faults[m] = 0 => copies[m] <= 1

\* Each fault costs the customer at most one more copy: a lost reply, a late
\* error or a claim taken from a slow worker lets one more send through, and no
\* retry loop multiplies it.
OneCopyPerFault == \A m \in Messages : copies[m] <= 1 + faults[m]

\* A cancelled message was not accepted and is in no worker's hands to be sent
\* (outbox.service.ts:260, "stop a message that has not been sent yet"), unless
\* a fault hit its processing.
CancelledNeverSent ==
    \A m \in Messages : row[m] = "Cancelled" /\ faults[m] = 0 =>
        copies[m] = 0 /\ \A w \in Workers : m \notin batch[w]

\* A row marked Sent and finished has left the ledger's Pending state.
LedgerFollowsOutbox ==
    \A m \in Messages :
        row[m] = "Sent" /\ faults[m] = 0 /\ ~Held(m) => entry[m] # "Pending"

\* How a message stands: a row that is claimed is open to those who asked for it.
Standing(status) ==
    CASE status = "none" -> "none"
      [] status \in {"Pending", "Processing"} -> "open"
      [] status = "Sent" -> "sent"
      [] status = "Failed" -> "failed"
      [] OTHER -> "cancelled"

Service == INSTANCE Delivery WITH state <- [m \in Messages |-> Standing(row[m])]

\* The rows, the claims and the workers deliver messages as Delivery says: to the
\* customer at most once, never after a withdrawal, and closed by what the customer
\* has, unless a fault disturbed the message (outboxWorker.ts:4-5,
\* outbox.service.ts:260).
IsDelivery == Service!Spec
=============================================================================
