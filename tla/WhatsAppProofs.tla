--------------------------- MODULE WhatsAppProofs ---------------------------
(***************************************************************************)
(* Theorems about WhatsApp for every set of messages, workers, customers,  *)
(* events and handlers, every limit and every mix of traffic.              *)
(***************************************************************************)
EXTENDS WhatsApp, FiniteSetTheorems, TLAPS

------------------------------------------------------------------------------
(* The inductive invariant of the outbox *)

\* What the outbox workers read and write, without the ledger and the budget.
core == <<row, attempts, aged, pc, due, batch, current, sentAs, copies, faults>>

CoreType ==
    /\ row \in [Messages -> RowStatus]
    /\ attempts \in [Messages -> Nat]
    /\ aged \in [Messages -> BOOLEAN]
    /\ pc \in [Workers -> PC]
    /\ due \in [Workers -> SUBSET Messages]
    /\ batch \in [Workers -> SUBSET Messages]
    /\ current \in [Workers -> Messages \cup {NoMessage}]
    /\ sentAs \in [Workers -> Nat]
    /\ copies \in [Messages -> Nat]
    /\ faults \in [Messages -> Nat]

AtLoop(p) == p \in {"idle", "finding", "claiming", "ready"}

\* A worker has a row in hand exactly between its call and the end of it.
InHand == \A w \in Workers : AtLoop(pc[w]) <=> current[w] = NoMessage

\* What is true of a message at each place of the worker that processes it.
Phase(m, p) ==
    \/ p = "accepted" /\ row[m] = "Processing" /\ copies[m] = 1
    \/ p = "marked" /\ row[m] = "Sent" /\ copies[m] = 1
    \/ /\ p \in {"refused", "refusedForGood", "retry", "giveUp"}
       /\ row[m] = "Processing" /\ copies[m] = 0
    \/ p = "unledgered" /\ row[m] \in {"Failed", "Cancelled"} /\ copies[m] = 0

\* A message that met no fault: one worker has it, and what it accepted shows.
Orderly(m) ==
    /\ \A v, w \in Workers : Holds(v, m) /\ Holds(w, m) => v = w
    /\ \A w \in Workers : m \in batch[w] =>
          row[m] = "Processing" /\ current[w] # m /\ copies[m] = 0
    /\ \A w \in Workers : current[w] = m => Phase(m, pc[w])
    /\ copies[m] \in {0, 1}
    /\ copies[m] = 1 => \/ row[m] = "Sent"
                        \/ \E w \in Workers : current[w] = m /\ pc[w] = "accepted"

OutboxInv == CoreType /\ InHand /\ \A m \in Messages : faults[m] = 0 => Orderly(m)

\* Counting a fault keeps the counters typed, whatever it is counted on.
LEMMA FaultType ==
    ASSUME faults \in [Messages -> Nat], NEW x, Fault(x)
    PROVE  faults' \in [Messages -> Nat]
<1>1. faults' = [faults EXCEPT ![x] = faults[x] + 1]
  BY DEF Fault
<1>2. CASE x \in Messages
  BY <1>1, <1>2
<1>3. CASE x \notin Messages
  BY <1>1, <1>3
<1> QED BY <1>2, <1>3

\* A new row has no holder.
LEMMA EnqueueKeeps ==
    ASSUME OutboxInv, NEW x \in Messages, Enqueue(x)
    PROVE  OutboxInv'
<1>1. CoreType'
  BY OutboxAssumption DEF OutboxInv, CoreType, RowStatus, PC, workerVars, rowVars, Enqueue
<1>2. InHand'
  BY OutboxAssumption DEF OutboxInv, CoreType, InHand, AtLoop, workerVars, rowVars, Enqueue
<1>3. ASSUME NEW m \in Messages, faults'[m] = 0
      PROVE  Orderly(m)'
  BY <1>3, OutboxAssumption, SMTT(30) DEF OutboxInv, CoreType, InHand, AtLoop, Orderly, Phase, Holds,
        workerVars, rowVars, Enqueue
<1> QED BY <1>1, <1>2, <1>3 DEF OutboxInv

\* A row that may be cancelled is in no batch.
LEMMA CancelKeeps ==
    ASSUME OutboxInv, NEW x \in Messages, Cancel(x)
    PROVE  OutboxInv'
<1>1. CoreType'
  BY OutboxAssumption DEF OutboxInv, CoreType, RowStatus, PC, workerVars, rowVars, Cancel
<1>2. InHand'
  BY OutboxAssumption DEF OutboxInv, CoreType, InHand, AtLoop, workerVars, rowVars, Cancel
<1>3. ASSUME NEW m \in Messages, faults'[m] = 0
      PROVE  Orderly(m)'
  BY <1>3, OutboxAssumption, SMTT(30) DEF OutboxInv, CoreType, InHand, AtLoop, Orderly, Phase, Holds,
        workerVars, rowVars, Cancel
<1> QED BY <1>1, <1>2, <1>3 DEF OutboxInv

\* Only the claim of a message without fault that nobody holds could go back, and there is none.
LEMMA TickKeeps ==
    ASSUME OutboxInv, NEW u \in Workers, Tick(u)
    PROVE  OutboxInv'
<1>1. CoreType'
  <2>1. row' \in [Messages -> RowStatus] /\ aged' \in [Messages -> BOOLEAN]
    BY DEF OutboxInv, CoreType, RowStatus, Tick
  <2>2. faults' \in [Messages -> Nat]
    BY DEF OutboxInv, CoreType, Tick
  <2>3. pc' \in [Workers -> PC]
    BY DEF OutboxInv, CoreType, PC, Tick
  <2> QED BY <2>1, <2>2, <2>3 DEF OutboxInv, CoreType, Tick
<1>2. InHand'
  BY OutboxAssumption DEF OutboxInv, CoreType, InHand, AtLoop, workerVars, rowVars, Stale, Held, Tick
<1>3. ASSUME NEW m \in Messages, faults'[m] = 0
      PROVE  Orderly(m)'
  BY <1>3, OutboxAssumption, SMTT(30) DEF OutboxInv, CoreType, InHand, AtLoop, Orderly, Phase, Holds,
        workerVars, rowVars, Stale, Held, Tick
<1> QED BY <1>1, <1>2, <1>3 DEF OutboxInv

\* Listing changes no row.
LEMMA FindDueKeeps ==
    ASSUME OutboxInv, NEW u \in Workers, FindDue(u)
    PROVE  OutboxInv'
<1>1. CoreType'
  BY OutboxAssumption DEF OutboxInv, CoreType, RowStatus, PC, workerVars, rowVars, FindDue
<1>2. InHand'
  BY OutboxAssumption DEF OutboxInv, CoreType, InHand, AtLoop, workerVars, rowVars, FindDue
<1>3. ASSUME NEW m \in Messages, faults'[m] = 0
      PROVE  Orderly(m)'
  BY <1>3, OutboxAssumption, SMTT(30) DEF OutboxInv, CoreType, InHand, AtLoop, Orderly, Phase, Holds,
        workerVars, rowVars, FindDue
<1> QED BY <1>1, <1>2, <1>3 DEF OutboxInv

\* A pending row has no holder, so the claim is exclusive.
LEMMA ClaimKeeps ==
    ASSUME OutboxInv, NEW u \in Workers, NEW x \in Messages, Claim(u, x)
    PROVE  OutboxInv'
<1>1. CoreType'
  BY OutboxAssumption DEF OutboxInv, CoreType, RowStatus, PC, workerVars, rowVars, Claimable, Claim
<1>2. InHand'
  BY OutboxAssumption DEF OutboxInv, CoreType, InHand, AtLoop, workerVars, rowVars, Claimable, Claim
<1>3. ASSUME NEW m \in Messages, faults'[m] = 0
      PROVE  Orderly(m)'
  BY <1>3, OutboxAssumption, SMTT(30) DEF OutboxInv, CoreType, InHand, AtLoop, Orderly, Phase, Holds,
        workerVars, rowVars, Claimable, Claim
<1> QED BY <1>1, <1>2, <1>3 DEF OutboxInv

\* A lost claim changes no row.
LEMMA LoseClaimKeeps ==
    ASSUME OutboxInv, NEW u \in Workers, NEW x \in Messages, LoseClaim(u, x)
    PROVE  OutboxInv'
<1>1. CoreType'
  BY OutboxAssumption DEF OutboxInv, CoreType, RowStatus, PC, workerVars, rowVars, LoseClaim
<1>2. InHand'
  BY OutboxAssumption DEF OutboxInv, CoreType, InHand, AtLoop, workerVars, rowVars, LoseClaim
<1>3. ASSUME NEW m \in Messages, faults'[m] = 0
      PROVE  Orderly(m)'
  BY <1>3, OutboxAssumption, SMTT(30) DEF OutboxInv, CoreType, InHand, AtLoop, Orderly, Phase, Holds,
        workerVars, rowVars, LoseClaim
<1> QED BY <1>1, <1>2, <1>3 DEF OutboxInv

\* The end of the claims changes no row.
LEMMA EndClaimsKeeps ==
    ASSUME OutboxInv, NEW u \in Workers, EndClaims(u)
    PROVE  OutboxInv'
<1>1. CoreType'
  BY OutboxAssumption DEF OutboxInv, CoreType, RowStatus, PC, workerVars, rowVars, EndClaims
<1>2. InHand'
  BY OutboxAssumption DEF OutboxInv, CoreType, InHand, AtLoop, workerVars, rowVars, EndClaims
<1>3. ASSUME NEW m \in Messages, faults'[m] = 0
      PROVE  Orderly(m)'
  BY <1>3, OutboxAssumption, SMTT(30) DEF OutboxInv, CoreType, InHand, AtLoop, Orderly, Phase, Holds,
        workerVars, rowVars, EndClaims
<1> QED BY <1>1, <1>2, <1>3 DEF OutboxInv

\* The end of a tick changes no row.
LEMMA EndTickKeeps ==
    ASSUME OutboxInv, NEW u \in Workers, EndTick(u)
    PROVE  OutboxInv'
<1>1. CoreType'
  BY OutboxAssumption DEF OutboxInv, CoreType, RowStatus, PC, workerVars, rowVars, EndTick
<1>2. InHand'
  BY OutboxAssumption DEF OutboxInv, CoreType, InHand, AtLoop, workerVars, rowVars, EndTick
<1>3. ASSUME NEW m \in Messages, faults'[m] = 0
      PROVE  Orderly(m)'
  BY <1>3, OutboxAssumption, SMTT(30) DEF OutboxInv, CoreType, InHand, AtLoop, Orderly, Phase, Holds,
        workerVars, rowVars, EndTick
<1> QED BY <1>1, <1>2, <1>3 DEF OutboxInv

\* The first accepted send of a message is its only one.
LEMMA SendAcceptedKeeps ==
    ASSUME OutboxInv, NEW u \in Workers, NEW x \in Messages, SendAccepted(u, x)
    PROVE  OutboxInv'
<1>1. CoreType'
  BY OutboxAssumption DEF OutboxInv, CoreType, RowStatus, PC, workerVars, rowVars, Take, NoFault, SendAccepted
<1>2. InHand'
  BY OutboxAssumption DEF OutboxInv, CoreType, InHand, AtLoop, workerVars, rowVars, Take, NoFault, SendAccepted
<1>3. ASSUME NEW m \in Messages, faults'[m] = 0
      PROVE  Orderly(m)'
  BY <1>3, OutboxAssumption, SMTT(30) DEF OutboxInv, CoreType, InHand, AtLoop, Orderly, Phase, Holds,
        workerVars, rowVars, Take, NoFault, SendAccepted
<1> QED BY <1>1, <1>2, <1>3 DEF OutboxInv

\* A refused send leaves no copy.
LEMMA SendRefusedKeeps ==
    ASSUME OutboxInv, NEW u \in Workers, NEW x \in Messages, NEW retryable \in BOOLEAN, SendRefused(u, x, retryable)
    PROVE  OutboxInv'
<1>1. CoreType'
  BY OutboxAssumption DEF OutboxInv, CoreType, RowStatus, PC, workerVars, rowVars, Take, NoFault, SendRefused
<1>2. InHand'
  BY OutboxAssumption DEF OutboxInv, CoreType, InHand, AtLoop, workerVars, rowVars, Take, NoFault, SendRefused
<1>3. ASSUME NEW m \in Messages, faults'[m] = 0
      PROVE  Orderly(m)'
  BY <1>3, OutboxAssumption, SMTT(30) DEF OutboxInv, CoreType, InHand, AtLoop, Orderly, Phase, Holds,
        workerVars, rowVars, Take, NoFault, SendRefused
<1> QED BY <1>1, <1>2, <1>3 DEF OutboxInv

\* A lost reply is a fault of its message.
LEMMA SendUnacknowledgedKeeps ==
    ASSUME OutboxInv, NEW u \in Workers, NEW x \in Messages, NEW retryable \in BOOLEAN, SendUnacknowledged(u, x, retryable)
    PROVE  OutboxInv'
<1>1. CoreType'
  BY OutboxAssumption DEF OutboxInv, CoreType, RowStatus, PC, workerVars, rowVars, Take, Fault, SendUnacknowledged
<1>2. InHand'
  BY OutboxAssumption DEF OutboxInv, CoreType, InHand, AtLoop, workerVars, rowVars, Take, Fault, SendUnacknowledged
<1>3. ASSUME NEW m \in Messages, faults'[m] = 0
      PROVE  Orderly(m)'
  BY <1>3, OutboxAssumption, SMTT(30) DEF OutboxInv, CoreType, InHand, AtLoop, Orderly, Phase, Holds,
        workerVars, rowVars, Take, Fault, SendUnacknowledged
<1> QED BY <1>1, <1>2, <1>3 DEF OutboxInv

\* The row of an accepted send becomes Sent.
LEMMA MarkOutboxSentKeeps ==
    ASSUME OutboxInv, NEW u \in Workers, MarkOutboxSent(u)
    PROVE  OutboxInv'
<1>1. CoreType'
  BY OutboxAssumption DEF OutboxInv, CoreType, RowStatus, PC, workerVars, rowVars, MarkOutboxSent
<1>2. InHand'
  BY OutboxAssumption DEF OutboxInv, CoreType, InHand, AtLoop, workerVars, rowVars, MarkOutboxSent
<1>3. ASSUME NEW m \in Messages, faults'[m] = 0
      PROVE  Orderly(m)'
  BY <1>3, OutboxAssumption, SMTT(30) DEF OutboxInv, CoreType, InHand, AtLoop, Orderly, Phase, Holds,
        workerVars, rowVars, MarkOutboxSent
<1> QED BY <1>1, <1>2, <1>3 DEF OutboxInv

\* The worker lets the row go after the ledger is marked.
LEMMA MarkMessageSentKeeps ==
    ASSUME OutboxInv, NEW u \in Workers, MarkMessageSent(u)
    PROVE  OutboxInv'
<1>1. CoreType'
  BY OutboxAssumption DEF OutboxInv, CoreType, RowStatus, PC, workerVars, rowVars, Done, MarkMessageSent
<1>2. InHand'
  BY OutboxAssumption DEF OutboxInv, CoreType, InHand, AtLoop, workerVars, rowVars, Done, MarkMessageSent
<1>3. ASSUME NEW m \in Messages, faults'[m] = 0
      PROVE  Orderly(m)'
  BY <1>3, OutboxAssumption, SMTT(30) DEF OutboxInv, CoreType, InHand, AtLoop, Orderly, Phase, Holds,
        workerVars, rowVars, Done, MarkMessageSent
<1> QED BY <1>1, <1>2, <1>3 DEF OutboxInv

\* The verdict is read before it is written.
LEMMA ReadAttemptsKeeps ==
    ASSUME OutboxInv, NEW u \in Workers, ReadAttempts(u)
    PROVE  OutboxInv'
<1>1. CoreType'
  BY OutboxAssumption DEF OutboxInv, CoreType, RowStatus, PC, workerVars, rowVars, Exhausted, ReadAttempts
<1>2. InHand'
  BY OutboxAssumption DEF OutboxInv, CoreType, InHand, AtLoop, workerVars, rowVars, Exhausted, ReadAttempts
<1>3. ASSUME NEW m \in Messages, faults'[m] = 0
      PROVE  Orderly(m)'
  BY <1>3, OutboxAssumption, SMTT(30) DEF OutboxInv, CoreType, InHand, AtLoop, Orderly, Phase, Holds,
        workerVars, rowVars, Exhausted, ReadAttempts
<1> QED BY <1>1, <1>2, <1>3 DEF OutboxInv

\* A row to be tried again has no holder left.
LEMMA WriteRetryKeeps ==
    ASSUME OutboxInv, NEW u \in Workers, WriteRetry(u)
    PROVE  OutboxInv'
<1>1. CoreType'
  BY OutboxAssumption DEF OutboxInv, CoreType, RowStatus, PC, workerVars, rowVars, Done, WriteRetry
<1>2. InHand'
  BY OutboxAssumption DEF OutboxInv, CoreType, InHand, AtLoop, workerVars, rowVars, Done, WriteRetry
<1>3. ASSUME NEW m \in Messages, faults'[m] = 0
      PROVE  Orderly(m)'
  BY <1>3, OutboxAssumption, SMTT(30) DEF OutboxInv, CoreType, InHand, AtLoop, Orderly, Phase, Holds,
        workerVars, rowVars, Done, WriteRetry
<1> QED BY <1>1, <1>2, <1>3 DEF OutboxInv

\* A row given up has no copy.
LEMMA WriteFailedKeeps ==
    ASSUME OutboxInv, NEW u \in Workers, WriteFailed(u)
    PROVE  OutboxInv'
<1>1. CoreType'
  <2>1. row' \in [Messages -> RowStatus] /\ aged' \in [Messages -> BOOLEAN]
    BY DEF OutboxInv, CoreType, RowStatus, WriteFailed
  <2>2. pc' \in [Workers -> PC]
    BY DEF OutboxInv, CoreType, PC, Done, WriteFailed
  <2>3. current' \in [Workers -> Messages \cup {NoMessage}] /\ sentAs' \in [Workers -> Nat]
    BY DEF OutboxInv, CoreType, Done, WriteFailed
  <2> QED BY <2>1, <2>2, <2>3 DEF OutboxInv, CoreType, WriteFailed
<1>2. InHand'
  BY OutboxAssumption DEF OutboxInv, CoreType, InHand, AtLoop, workerVars, rowVars, Done, WriteFailed
<1>3. ASSUME NEW m \in Messages, faults'[m] = 0
      PROVE  Orderly(m)'
  BY <1>3, OutboxAssumption, SMTT(30) DEF OutboxInv, CoreType, InHand, AtLoop, Orderly, Phase, Holds,
        workerVars, rowVars, Done, WriteFailed
<1> QED BY <1>1, <1>2, <1>3 DEF OutboxInv

\* The worker lets the row go after the failure is shown.
LEMMA MarkMessageFailedKeeps ==
    ASSUME OutboxInv, NEW u \in Workers, MarkMessageFailed(u)
    PROVE  OutboxInv'
<1>1. CoreType'
  BY OutboxAssumption DEF OutboxInv, CoreType, RowStatus, PC, workerVars, rowVars, Done, MarkMessageFailed
<1>2. InHand'
  BY OutboxAssumption DEF OutboxInv, CoreType, InHand, AtLoop, workerVars, rowVars, Done, MarkMessageFailed
<1>3. ASSUME NEW m \in Messages, faults'[m] = 0
      PROVE  Orderly(m)'
  BY <1>3, OutboxAssumption, SMTT(30) DEF OutboxInv, CoreType, InHand, AtLoop, Orderly, Phase, Holds,
        workerVars, rowVars, Done, MarkMessageFailed
<1> QED BY <1>1, <1>2, <1>3 DEF OutboxInv

\* An error before the send is a fault of its message.
LEMMA ThrowEarlyKeeps ==
    ASSUME OutboxInv, NEW u \in Workers, NEW x \in Messages, ThrowEarly(u, x)
    PROVE  OutboxInv'
<1>1. CoreType'
  BY OutboxAssumption DEF OutboxInv, CoreType, RowStatus, PC, workerVars, rowVars, Take, Fault, ThrowEarly
<1>2. InHand'
  BY OutboxAssumption DEF OutboxInv, CoreType, InHand, AtLoop, workerVars, rowVars, Take, Fault, ThrowEarly
<1>3. ASSUME NEW m \in Messages, faults'[m] = 0
      PROVE  Orderly(m)'
  BY <1>3, OutboxAssumption, SMTT(30) DEF OutboxInv, CoreType, InHand, AtLoop, Orderly, Phase, Holds,
        workerVars, rowVars, Take, Fault, ThrowEarly
<1> QED BY <1>1, <1>2, <1>3 DEF OutboxInv

\* An error after the send is a fault of its message.
LEMMA ThrowKeeps ==
    ASSUME OutboxInv, NEW u \in Workers, Throw(u)
    PROVE  OutboxInv'
<1>1. CoreType'
  <2>1. pc' \in [Workers -> PC]
    BY DEF OutboxInv, CoreType, PC, Throw
  <2>2. faults' \in [Messages -> Nat]
    BY FaultType DEF OutboxInv, CoreType, Throw
  <2> QED BY <2>1, <2>2 DEF OutboxInv, CoreType, rowVars, Throw
<1>2. InHand'
  BY OutboxAssumption DEF OutboxInv, CoreType, InHand, AtLoop, workerVars, rowVars, Fault, Throw
<1>3. ASSUME NEW m \in Messages, faults'[m] = 0
      PROVE  Orderly(m)'
  BY <1>3, OutboxAssumption, SMTT(30) DEF OutboxInv, CoreType, InHand, AtLoop, Orderly, Phase, Holds,
        workerVars, rowVars, Fault, Throw
<1> QED BY <1>1, <1>2, <1>3 DEF OutboxInv

\* A swallowed error is a fault of its message.
LEMMA SwallowKeeps ==
    ASSUME OutboxInv, NEW u \in Workers, Swallow(u)
    PROVE  OutboxInv'
<1>1. CoreType'
  <2>1. pc' \in [Workers -> PC]
    BY DEF OutboxInv, CoreType, PC, Done, Swallow
  <2>2. faults' \in [Messages -> Nat]
    BY FaultType DEF OutboxInv, CoreType, Swallow
  <2> QED BY <2>1, <2>2 DEF OutboxInv, CoreType, rowVars, Done, Swallow
<1>2. InHand'
  BY OutboxAssumption DEF OutboxInv, CoreType, InHand, AtLoop, workerVars, rowVars, Done, Fault, Swallow
<1>3. ASSUME NEW m \in Messages, faults'[m] = 0
      PROVE  Orderly(m)'
  BY <1>3, OutboxAssumption, SMTT(30) DEF OutboxInv, CoreType, InHand, AtLoop, Orderly, Phase, Holds,
        workerVars, rowVars, Done, Fault, Swallow
<1> QED BY <1>1, <1>2, <1>3 DEF OutboxInv

\* A crash is a fault of every message the worker held.
LEMMA CrashKeeps ==
    ASSUME OutboxInv, NEW u \in Workers, Crash(u)
    PROVE  OutboxInv'
<1>1. CoreType'
  BY OutboxAssumption DEF OutboxInv, CoreType, RowStatus, PC, workerVars, rowVars, Done, Crash
<1>2. InHand'
  BY OutboxAssumption DEF OutboxInv, CoreType, InHand, AtLoop, workerVars, rowVars, Done, Crash
<1>3. ASSUME NEW m \in Messages, faults'[m] = 0
      PROVE  Orderly(m)'
  BY <1>3, OutboxAssumption, SMTT(30) DEF OutboxInv, CoreType, InHand, AtLoop, Orderly, Phase, Holds,
        workerVars, rowVars, Done, Crash
<1> QED BY <1>1, <1>2, <1>3 DEF OutboxInv

\* Age changes no status.
LEMMA DeadClaimAgesKeeps ==
    ASSUME OutboxInv, NEW x \in Messages, DeadClaimAges(x)
    PROVE  OutboxInv'
<1>1. CoreType'
  BY OutboxAssumption DEF OutboxInv, CoreType, RowStatus, PC, workerVars, rowVars, DeadClaimAges
<1>2. InHand'
  BY OutboxAssumption DEF OutboxInv, CoreType, InHand, AtLoop, workerVars, rowVars, DeadClaimAges
<1>3. ASSUME NEW m \in Messages, faults'[m] = 0
      PROVE  Orderly(m)'
  BY <1>3, OutboxAssumption, SMTT(30) DEF OutboxInv, CoreType, InHand, AtLoop, Orderly, Phase, Holds,
        workerVars, rowVars, DeadClaimAges
<1> QED BY <1>1, <1>2, <1>3 DEF OutboxInv

\* Age changes no status.
LEMMA LiveClaimAgesKeeps ==
    ASSUME OutboxInv, NEW x \in Messages, LiveClaimAges(x)
    PROVE  OutboxInv'
<1>1. CoreType'
  BY OutboxAssumption DEF OutboxInv, CoreType, RowStatus, PC, workerVars, rowVars, LiveClaimAges
<1>2. InHand'
  BY OutboxAssumption DEF OutboxInv, CoreType, InHand, AtLoop, workerVars, rowVars, LiveClaimAges
<1>3. ASSUME NEW m \in Messages, faults'[m] = 0
      PROVE  Orderly(m)'
  BY <1>3, OutboxAssumption, SMTT(30) DEF OutboxInv, CoreType, InHand, AtLoop, Orderly, Phase, Holds,
        workerVars, rowVars, LiveClaimAges
<1> QED BY <1>1, <1>2, <1>3 DEF OutboxInv

\* What the workers do not read may change.
LEMMA CoreKept ==
    ASSUME OutboxInv, UNCHANGED core
    PROVE  OutboxInv'
  BY DEF OutboxInv, core, CoreType, InHand, AtLoop, Orderly, Phase, Holds

------------------------------------------------------------------------------
(* The handlers and the outbox *)

\* A step of the handlers, the requests or the clock either queues one message
\* or leaves the outbox workers' state alone.
LEMMA StepCases ==
    ASSUME Next
    PROVE  \/ OutboxRuns
           \/ \E m \in Messages : Cancel(m)
           \/ \E m : Enqueue(m)
           \/ UNCHANGED core
<1>1. CASE \E m \in Messages : RequestPasses(m) \/ QueueRequest(m) \/ OperatorCancels(m)
  BY <1>1, Zenon DEF RequestPasses, QueueRequest, OperatorCancels, core, outboxVars, rowVars, workerVars
<1>2. CASE \E h \in Handlers : QueueNotice(h) \/ QueueReply(h)
  BY <1>2, Zenon DEF QueueNotice, QueueReply, core, outboxVars, rowVars, workerVars
<1>3. CASE \E h \in Handlers : HandlerThrows(h) \/ QueueingFails(h) \/ HandlerCrashes(h)
  BY <1>3, Zenon DEF HandlerThrows, QueueingFails, HandlerCrashes, OutboxButBudget, core, rowVars, workerVars
<1>4. CASE \E h \in Handlers : WriteEntry(h)
  BY <1>4, Zenon DEF WriteEntry, core, rowVars, workerVars
<1>5. CASE \/ \E h \in Handlers : \E e \in Events : Post(h, e) \/ PostAgain(h, e)
           \/ \E c \in Customers : WindowCloses(c)
           \/ \E e \in Events : Cleanup(e)
  BY <1>5, Zenon DEF Post, PostAgain, WindowCloses, Cleanup, core, outboxVars, rowVars, workerVars
<1>6. CASE \E h \in Handlers : \/ StartJob(h) \/ EndEventClaims(h) \/ NextEvent(h) \/ ReadEntry(h)
                               \/ FindRecorded(h) \/ InsertInbound(h) \/ CountInbound(h)
  BY <1>6, Zenon DEF StartJob, EndEventClaims, NextEvent, ReadEntry, FindRecorded, InsertInbound,
        CountInbound, core, outboxVars, rowVars, workerVars
<1>7. CASE \E h \in Handlers : \/ CheckNotice(h) \/ CheckReply(h) \/ MarkEvent(h) \/ MarkEventFailed(h)
                               \/ LegacyRead(h) \/ LegacyStore(h) \/ LegacyNote(h)
  BY <1>7, Zenon DEF CheckNotice, CheckReply, MarkEvent, MarkEventFailed, LegacyRead, LegacyStore,
        LegacyNote, core, outboxVars, rowVars, workerVars
<1>8. CASE \E h \in Handlers : \E e \in Events : ClaimEvent(h, e)
  BY <1>8, Zenon DEF ClaimEvent, core, outboxVars, rowVars, workerVars
<1> QED BY <1>1, <1>2, <1>3, <1>4, <1>5, <1>6, <1>7, <1>8, Zenon DEF Next, HandlerStep

\* Queueing outside the set of messages changes nothing the workers see.
LEMMA EnqueueAnyKeeps ==
    ASSUME OutboxInv, NEW m, Enqueue(m)
    PROVE  OutboxInv'
<1>1. CASE m \in Messages
  BY <1>1, EnqueueKeeps
<1>2. CASE m \notin Messages
  <2>1. row' = row
    BY <1>2 DEF OutboxInv, CoreType, Enqueue
  <2> QED BY <2>1, CoreKept DEF Enqueue, core, workerVars
<1> QED BY <1>1, <1>2

\* Every step of the workers keeps the invariant.
LEMMA OutboxRunsKeeps ==
    ASSUME OutboxInv, OutboxRuns
    PROVE  OutboxInv'
<1>1. CASE \E w \in Workers : WorkerStep(w)
  BY <1>1, TickKeeps, FindDueKeeps, EndClaimsKeeps, EndTickKeeps, ClaimKeeps, LoseClaimKeeps,
     SendAcceptedKeeps, SendRefusedKeeps, MarkOutboxSentKeeps, MarkMessageSentKeeps,
     ReadAttemptsKeeps, WriteRetryKeeps, WriteFailedKeeps, MarkMessageFailedKeeps DEF WorkerStep
<1>2. CASE \E m \in Messages : DeadClaimAges(m)
  BY <1>2, DeadClaimAgesKeeps
<1>3. CASE FaultStep
  BY <1>3, ThrowKeeps, SwallowKeeps, CrashKeeps, ThrowEarlyKeeps, SendUnacknowledgedKeeps,
     LiveClaimAgesKeeps DEF FaultStep
<1> QED BY <1>1, <1>2, <1>3 DEF OutboxRuns

\* The invariant of the outbox holds of every behaviour of the messaging system.
LEMMA OutboxInvariant == Spec => []OutboxInv
<1>1. Init => OutboxInv
  BY OutboxAssumption DEF Init, OutboxInit, OutboxInv, CoreType, InHand, AtLoop, Orderly,
        Holds, RowStatus, PC
<1>2. OutboxInv /\ [Next]_vars => OutboxInv'
  <2> SUFFICES ASSUME OutboxInv, [Next]_vars PROVE OutboxInv'
    OBVIOUS
  <2>1. CASE Next
    BY <2>1, StepCases, OutboxRunsKeeps, CancelKeeps, EnqueueAnyKeeps, CoreKept
  <2>2. CASE UNCHANGED vars
    BY <2>2, CoreKept DEF vars, outboxVars, rowVars, workerVars, core
  <2> QED BY <2>1, <2>2
<1> QED BY <1>1, <1>2, PTL DEF Spec

------------------------------------------------------------------------------
(* The inductive invariant of the handlers *)

HookType ==
    /\ traffic \in Traffics
    /\ passed \subseteq Messages
    /\ event \in [Events -> EventStatus]
    /\ retries \in [Events -> Nat]
    /\ recorded \subseteq InboundEvents
    /\ unread \in [Customers -> Nat]
    /\ window \in [Customers -> BOOLEAN]
    /\ raced \subseteq Messages \cup Customers
    /\ hpc \in [Handlers -> HandlerPC]
    /\ job \in [Handlers -> Events \cup {NoEvent}]
    /\ mine \in [Handlers -> SUBSET Events]
    /\ via \in [Handlers -> {"http", "worker"}]
    /\ seen \in [Handlers -> SUBSET (Events \cup {EntryRead(s) : s \in EntryStatus})]
    /\ stored \subseteq InboundEvents
    /\ notes \subseteq stored
    /\ died \subseteq Events
    /\ entry \in [Messages -> EntryStatus]
    /\ wamid \in [Messages -> Nat]
    /\ budget \in Nat

\* A handler's event is of the kind its place is for, and what it read is in
\* the database still.
JobFits(h) ==
    /\ hpc[h] \in {"status", "write"} => job[h] \in StatusEvents
    /\ hpc[h] \in {"find", "insert", "count", "notify", "notice", "reply", "answer",
                   "legacy", "store", "note"} => job[h] \in InboundEvents
    /\ hpc[h] \in {"handled", "ignored", "failed"} => job[h] \in Events
    /\ hpc[h] = "claiming" => seen[h] \subseteq Events
    /\ hpc[h] \in {"store", "note"} => seen[h] \subseteq stored
    /\ hpc[h] = "note" => job[h] \in stored

\* A message about to be counted was inserted by the handler that counts it.
Counting ==
    /\ counted \subseteq recorded
    /\ \A h \in Handlers : hpc[h] = "count" => job[h] \in recorded \ counted
    /\ \A g, h \in Handlers :
          hpc[g] = "count" /\ hpc[h] = "count" /\ job[g] = job[h] => g = h

CountedFrom(c) == {e \in counted : e.from = c}

HandlerInv ==
    /\ HookType
    /\ \A h \in Handlers : JobFits(h)
    /\ Counting
    /\ \A c \in Customers : unread[c] <= Cardinality(CountedFrom(c))

\* A first delivery starts with an event of the right kind.
LEMMA PostFits ==
    ASSUME HandlerInv, NEW u \in Handlers, NEW x \in Events, Post(u, x)
    PROVE  HandlerInv'
<1>1. HookType'
  BY WhatsAppAssumption, SMTT(30) DEF HandlerInv, HookType, EventStatus, HandlerPC, JobFits, InboundEvents, StatusEvents,
        outboxVars, rowVars, ledgerVars, workerVars, hookVars, handlerVars, legacyVars, Go, CanArrive, FirstStep, AfterIngest, Post
<1>2. ASSUME NEW h \in Handlers PROVE JobFits(h)'
  BY WhatsAppAssumption, SMTT(30) DEF HandlerInv, HookType, JobFits, InboundEvents, StatusEvents,
        outboxVars, rowVars, ledgerVars, workerVars, hookVars, handlerVars, legacyVars, Go, CanArrive, FirstStep, AfterIngest, Post
<1>3. Counting'
  BY SMTT(30) DEF HandlerInv, HookType, Counting, outboxVars, rowVars, ledgerVars, workerVars, hookVars, handlerVars, legacyVars, Go, CanArrive, FirstStep, AfterIngest, Post
<1>4. UNCHANGED <<unread, counted>>
  BY DEF outboxVars, rowVars, ledgerVars, workerVars, hookVars, handlerVars, legacyVars, Post
<1> QED BY <1>1, <1>2, <1>3, <1>4 DEF HandlerInv, CountedFrom

\* Only messages go through the older flow again.
LEMMA PostAgainFits ==
    ASSUME HandlerInv, NEW u \in Handlers, NEW x \in Events, PostAgain(u, x)
    PROVE  HandlerInv'
<1>1. HookType'
  BY WhatsAppAssumption, SMTT(30) DEF HandlerInv, HookType, EventStatus, HandlerPC, JobFits, InboundEvents, StatusEvents,
        outboxVars, rowVars, ledgerVars, workerVars, hookVars, handlerVars, legacyVars, Go, CanArrive, AfterIngest, PostAgain
<1>2. ASSUME NEW h \in Handlers PROVE JobFits(h)'
  BY WhatsAppAssumption, SMTT(30) DEF HandlerInv, HookType, JobFits, InboundEvents, StatusEvents,
        outboxVars, rowVars, ledgerVars, workerVars, hookVars, handlerVars, legacyVars, Go, CanArrive, AfterIngest, PostAgain
<1>3. Counting'
  BY SMTT(30) DEF HandlerInv, HookType, Counting, outboxVars, rowVars, ledgerVars, workerVars, hookVars, handlerVars, legacyVars, Go, CanArrive, AfterIngest, PostAgain
<1>4. UNCHANGED <<unread, counted>>
  BY DEF outboxVars, rowVars, ledgerVars, workerVars, hookVars, handlerVars, legacyVars, PostAgain
<1> QED BY <1>1, <1>2, <1>3, <1>4 DEF HandlerInv, CountedFrom

\* The job lists stored events.
LEMMA StartJobFits ==
    ASSUME HandlerInv, NEW u \in Handlers, StartJob(u)
    PROVE  HandlerInv'
<1>1. HookType'
  BY WhatsAppAssumption, SMTT(30) DEF HandlerInv, HookType, EventStatus, HandlerPC, JobFits, InboundEvents, StatusEvents,
        outboxVars, rowVars, ledgerVars, workerVars, hookVars, handlerVars, legacyVars, Go, StartJob
<1>2. ASSUME NEW h \in Handlers PROVE JobFits(h)'
  BY WhatsAppAssumption, SMTT(30) DEF HandlerInv, HookType, JobFits, InboundEvents, StatusEvents,
        outboxVars, rowVars, ledgerVars, workerVars, hookVars, handlerVars, legacyVars, Go, StartJob
<1>3. Counting'
  BY SMTT(30) DEF HandlerInv, HookType, Counting, outboxVars, rowVars, ledgerVars, workerVars, hookVars, handlerVars, legacyVars, Go, StartJob
<1>4. UNCHANGED <<unread, counted>>
  BY DEF outboxVars, rowVars, ledgerVars, workerVars, hookVars, handlerVars, legacyVars, StartJob
<1> QED BY <1>1, <1>2, <1>3, <1>4 DEF HandlerInv, CountedFrom

\* A claimed event is one of those listed.
LEMMA ClaimEventFits ==
    ASSUME HandlerInv, NEW u \in Handlers, NEW x \in Events, ClaimEvent(u, x)
    PROVE  HandlerInv'
<1>1. HookType'
  BY WhatsAppAssumption, SMTT(30) DEF HandlerInv, HookType, EventStatus, HandlerPC, JobFits, InboundEvents, StatusEvents,
        outboxVars, rowVars, ledgerVars, workerVars, hookVars, handlerVars, legacyVars, ClaimEvent
<1>2. ASSUME NEW h \in Handlers PROVE JobFits(h)'
  BY WhatsAppAssumption, SMTT(30) DEF HandlerInv, HookType, JobFits, InboundEvents, StatusEvents,
        outboxVars, rowVars, ledgerVars, workerVars, hookVars, handlerVars, legacyVars, ClaimEvent
<1>3. Counting'
  BY SMTT(30) DEF HandlerInv, HookType, Counting, outboxVars, rowVars, ledgerVars, workerVars, hookVars, handlerVars, legacyVars, ClaimEvent
<1>4. UNCHANGED <<unread, counted>>
  BY DEF outboxVars, rowVars, ledgerVars, workerVars, hookVars, handlerVars, legacyVars, ClaimEvent
<1> QED BY <1>1, <1>2, <1>3, <1>4 DEF HandlerInv, CountedFrom

\* The end of the claims starts no event.
LEMMA EndEventClaimsFits ==
    ASSUME HandlerInv, NEW u \in Handlers, EndEventClaims(u)
    PROVE  HandlerInv'
<1>1. HookType'
  BY WhatsAppAssumption, SMTT(30) DEF HandlerInv, HookType, EventStatus, HandlerPC, JobFits, InboundEvents, StatusEvents,
        outboxVars, rowVars, ledgerVars, workerVars, hookVars, handlerVars, legacyVars, Go, EndEventClaims
<1>2. ASSUME NEW h \in Handlers PROVE JobFits(h)'
  BY WhatsAppAssumption, SMTT(30) DEF HandlerInv, HookType, JobFits, InboundEvents, StatusEvents,
        outboxVars, rowVars, ledgerVars, workerVars, hookVars, handlerVars, legacyVars, Go, EndEventClaims
<1>3. Counting'
  BY SMTT(30) DEF HandlerInv, HookType, Counting, outboxVars, rowVars, ledgerVars, workerVars, hookVars, handlerVars, legacyVars, Go, EndEventClaims
<1>4. UNCHANGED <<unread, counted>>
  BY DEF outboxVars, rowVars, ledgerVars, workerVars, hookVars, handlerVars, legacyVars, EndEventClaims
<1> QED BY <1>1, <1>2, <1>3, <1>4 DEF HandlerInv, CountedFrom

\* The next event is one of those claimed.
LEMMA NextEventFits ==
    ASSUME HandlerInv, NEW u \in Handlers, NextEvent(u)
    PROVE  HandlerInv'
<1>1. HookType'
  BY WhatsAppAssumption, SMTT(30) DEF HandlerInv, HookType, EventStatus, HandlerPC, JobFits, InboundEvents, StatusEvents,
        outboxVars, rowVars, ledgerVars, workerVars, hookVars, handlerVars, legacyVars, Go, FirstStep, NextEvent
<1>2. ASSUME NEW h \in Handlers PROVE JobFits(h)'
  BY WhatsAppAssumption, SMTT(30) DEF HandlerInv, HookType, JobFits, InboundEvents, StatusEvents,
        outboxVars, rowVars, ledgerVars, workerVars, hookVars, handlerVars, legacyVars, Go, FirstStep, NextEvent
<1>3. Counting'
  BY SMTT(30) DEF HandlerInv, HookType, Counting, outboxVars, rowVars, ledgerVars, workerVars, hookVars, handlerVars, legacyVars, Go, FirstStep, NextEvent
<1>4. UNCHANGED <<unread, counted>>
  BY DEF outboxVars, rowVars, ledgerVars, workerVars, hookVars, handlerVars, legacyVars, NextEvent
<1> QED BY <1>1, <1>2, <1>3, <1>4 DEF HandlerInv, CountedFrom

\* A status is read before it is written.
LEMMA ReadEntryFits ==
    ASSUME HandlerInv, NEW u \in Handlers, ReadEntry(u)
    PROVE  HandlerInv'
<1>1. HookType'
  BY WhatsAppAssumption, SMTT(30) DEF HandlerInv, HookType, EventStatus, HandlerPC, JobFits, InboundEvents, StatusEvents,
        outboxVars, rowVars, ledgerVars, workerVars, hookVars, handlerVars, legacyVars, Go, EntryStatus, ReadEntry
<1>2. ASSUME NEW h \in Handlers PROVE JobFits(h)'
  BY WhatsAppAssumption, SMTT(30) DEF HandlerInv, HookType, JobFits, InboundEvents, StatusEvents,
        outboxVars, rowVars, ledgerVars, workerVars, hookVars, handlerVars, legacyVars, Go, EntryStatus, ReadEntry
<1>3. Counting'
  BY SMTT(30) DEF HandlerInv, HookType, Counting, outboxVars, rowVars, ledgerVars, workerVars, hookVars, handlerVars, legacyVars, Go, EntryStatus, ReadEntry
<1>4. UNCHANGED <<unread, counted>>
  BY DEF outboxVars, rowVars, ledgerVars, workerVars, hookVars, handlerVars, legacyVars, ReadEntry
<1> QED BY <1>1, <1>2, <1>3, <1>4 DEF HandlerInv, CountedFrom

\* A status event carries a status of the ledger.
LEMMA WriteEntryFits ==
    ASSUME HandlerInv, NEW u \in Handlers, WriteEntry(u)
    PROVE  HandlerInv'
<1>1. HookType'
  BY WhatsAppAssumption, SMTT(30) DEF HandlerInv, HookType, EventStatus, HandlerPC, JobFits, InboundEvents, StatusEvents,
        outboxVars, rowVars, ledgerVars, workerVars, hookVars, handlerVars, legacyVars, Go, EntryStatus, WriteEntry
<1>2. ASSUME NEW h \in Handlers PROVE JobFits(h)'
  BY WhatsAppAssumption, SMTT(30) DEF HandlerInv, HookType, JobFits, InboundEvents, StatusEvents,
        outboxVars, rowVars, ledgerVars, workerVars, hookVars, handlerVars, legacyVars, Go, EntryStatus, WriteEntry
<1>3. Counting'
  BY SMTT(30) DEF HandlerInv, HookType, Counting, outboxVars, rowVars, ledgerVars, workerVars, hookVars, handlerVars, legacyVars, Go, EntryStatus, WriteEntry
<1>4. UNCHANGED <<unread, counted>>
  BY DEF outboxVars, rowVars, ledgerVars, workerVars, hookVars, handlerVars, legacyVars, WriteEntry
<1> QED BY <1>1, <1>2, <1>3, <1>4 DEF HandlerInv, CountedFrom

\* A message not found is to be inserted.
LEMMA FindRecordedFits ==
    ASSUME HandlerInv, NEW u \in Handlers, FindRecorded(u)
    PROVE  HandlerInv'
<1>1. HookType'
  BY WhatsAppAssumption, SMTT(30) DEF HandlerInv, HookType, EventStatus, HandlerPC, JobFits, InboundEvents, StatusEvents,
        outboxVars, rowVars, ledgerVars, workerVars, hookVars, handlerVars, legacyVars, Go, FindRecorded
<1>2. ASSUME NEW h \in Handlers PROVE JobFits(h)'
  BY WhatsAppAssumption, SMTT(30) DEF HandlerInv, HookType, JobFits, InboundEvents, StatusEvents,
        outboxVars, rowVars, ledgerVars, workerVars, hookVars, handlerVars, legacyVars, Go, FindRecorded
<1>3. Counting'
  BY SMTT(30) DEF HandlerInv, HookType, Counting, outboxVars, rowVars, ledgerVars, workerVars, hookVars, handlerVars, legacyVars, Go, FindRecorded
<1>4. UNCHANGED <<unread, counted>>
  BY DEF outboxVars, rowVars, ledgerVars, workerVars, hookVars, handlerVars, legacyVars, FindRecorded
<1> QED BY <1>1, <1>2, <1>3, <1>4 DEF HandlerInv, CountedFrom

\* One insert of a message goes on to count it.
LEMMA InsertInboundFits ==
    ASSUME HandlerInv, NEW u \in Handlers, InsertInbound(u)
    PROVE  HandlerInv'
<1>1. HookType'
  BY WhatsAppAssumption, SMTT(30) DEF HandlerInv, HookType, EventStatus, HandlerPC, JobFits, InboundEvents, StatusEvents,
        outboxVars, rowVars, ledgerVars, workerVars, hookVars, handlerVars, legacyVars, Go, AfterInsert, InsertInbound
<1>2. ASSUME NEW h \in Handlers PROVE JobFits(h)'
  BY WhatsAppAssumption, SMTT(30) DEF HandlerInv, HookType, JobFits, InboundEvents, StatusEvents,
        outboxVars, rowVars, ledgerVars, workerVars, hookVars, handlerVars, legacyVars, Go, AfterInsert, InsertInbound
<1>3. Counting'
  BY SMTT(30) DEF HandlerInv, HookType, Counting, outboxVars, rowVars, ledgerVars, workerVars, hookVars, handlerVars, legacyVars, Go, AfterInsert, InsertInbound
<1>4. UNCHANGED <<unread, counted>>
  BY DEF outboxVars, rowVars, ledgerVars, workerVars, hookVars, handlerVars, legacyVars, InsertInbound
<1> QED BY <1>1, <1>2, <1>3, <1>4 DEF HandlerInv, CountedFrom

\* The checks of a notice change nothing.
LEMMA CheckNoticeFits ==
    ASSUME HandlerInv, NEW u \in Handlers, CheckNotice(u)
    PROVE  HandlerInv'
<1>1. HookType'
  BY WhatsAppAssumption, SMTT(30) DEF HandlerInv, HookType, EventStatus, HandlerPC, JobFits, InboundEvents, StatusEvents,
        outboxVars, rowVars, ledgerVars, workerVars, hookVars, handlerVars, legacyVars, Go, CheckNotice
<1>2. ASSUME NEW h \in Handlers PROVE JobFits(h)'
  BY WhatsAppAssumption, SMTT(30) DEF HandlerInv, HookType, JobFits, InboundEvents, StatusEvents,
        outboxVars, rowVars, ledgerVars, workerVars, hookVars, handlerVars, legacyVars, Go, CheckNotice
<1>3. Counting'
  BY SMTT(30) DEF HandlerInv, HookType, Counting, outboxVars, rowVars, ledgerVars, workerVars, hookVars, handlerVars, legacyVars, Go, CheckNotice
<1>4. UNCHANGED <<unread, counted>>
  BY DEF outboxVars, rowVars, ledgerVars, workerVars, hookVars, handlerVars, legacyVars, CheckNotice
<1> QED BY <1>1, <1>2, <1>3, <1>4 DEF HandlerInv, CountedFrom

\* The checks of a reply change nothing.
LEMMA CheckReplyFits ==
    ASSUME HandlerInv, NEW u \in Handlers, CheckReply(u)
    PROVE  HandlerInv'
<1>1. HookType'
  BY WhatsAppAssumption, SMTT(30) DEF HandlerInv, HookType, EventStatus, HandlerPC, JobFits, InboundEvents, StatusEvents,
        outboxVars, rowVars, ledgerVars, workerVars, hookVars, handlerVars, legacyVars, Go, CheckReply
<1>2. ASSUME NEW h \in Handlers PROVE JobFits(h)'
  BY WhatsAppAssumption, SMTT(30) DEF HandlerInv, HookType, JobFits, InboundEvents, StatusEvents,
        outboxVars, rowVars, ledgerVars, workerVars, hookVars, handlerVars, legacyVars, Go, CheckReply
<1>3. Counting'
  BY SMTT(30) DEF HandlerInv, HookType, Counting, outboxVars, rowVars, ledgerVars, workerVars, hookVars, handlerVars, legacyVars, Go, CheckReply
<1>4. UNCHANGED <<unread, counted>>
  BY DEF outboxVars, rowVars, ledgerVars, workerVars, hookVars, handlerVars, legacyVars, CheckReply
<1> QED BY <1>1, <1>2, <1>3, <1>4 DEF HandlerInv, CountedFrom

\* An event is put away with its outcome.
LEMMA MarkEventFits ==
    ASSUME HandlerInv, NEW u \in Handlers, MarkEvent(u)
    PROVE  HandlerInv'
<1>1. HookType'
  BY WhatsAppAssumption, SMTT(30) DEF HandlerInv, HookType, EventStatus, HandlerPC, JobFits, InboundEvents, StatusEvents,
        outboxVars, rowVars, ledgerVars, workerVars, hookVars, handlerVars, legacyVars, Go, Finish, AfterIngest, MarkEvent
<1>2. ASSUME NEW h \in Handlers PROVE JobFits(h)'
  BY WhatsAppAssumption, SMTT(30) DEF HandlerInv, HookType, JobFits, InboundEvents, StatusEvents,
        outboxVars, rowVars, ledgerVars, workerVars, hookVars, handlerVars, legacyVars, Go, Finish, AfterIngest, MarkEvent
<1>3. Counting'
  BY SMTT(30) DEF HandlerInv, HookType, Counting, outboxVars, rowVars, ledgerVars, workerVars, hookVars, handlerVars, legacyVars, Go, Finish, AfterIngest, MarkEvent
<1>4. UNCHANGED <<unread, counted>>
  BY DEF outboxVars, rowVars, ledgerVars, workerVars, hookVars, handlerVars, legacyVars, MarkEvent
<1> QED BY <1>1, <1>2, <1>3, <1>4 DEF HandlerInv, CountedFrom

\* A failed event is put back with one more retry.
LEMMA MarkEventFailedFits ==
    ASSUME HandlerInv, NEW u \in Handlers, MarkEventFailed(u)
    PROVE  HandlerInv'
<1>1. HookType'
  BY WhatsAppAssumption, SMTT(30) DEF HandlerInv, HookType, EventStatus, HandlerPC, JobFits, InboundEvents, StatusEvents,
        outboxVars, rowVars, ledgerVars, workerVars, hookVars, handlerVars, legacyVars, Go, Finish, AfterIngest, MarkEventFailed
<1>2. ASSUME NEW h \in Handlers PROVE JobFits(h)'
  BY WhatsAppAssumption, SMTT(30) DEF HandlerInv, HookType, JobFits, InboundEvents, StatusEvents,
        outboxVars, rowVars, ledgerVars, workerVars, hookVars, handlerVars, legacyVars, Go, Finish, AfterIngest, MarkEventFailed
<1>3. Counting'
  BY SMTT(30) DEF HandlerInv, HookType, Counting, outboxVars, rowVars, ledgerVars, workerVars, hookVars, handlerVars, legacyVars, Go, Finish, AfterIngest, MarkEventFailed
<1>4. UNCHANGED <<unread, counted>>
  BY DEF outboxVars, rowVars, ledgerVars, workerVars, hookVars, handlerVars, legacyVars, MarkEventFailed
<1> QED BY <1>1, <1>2, <1>3, <1>4 DEF HandlerInv, CountedFrom

\* An error leads to the failed outcome.
LEMMA HandlerThrowsFits ==
    ASSUME HandlerInv, NEW u \in Handlers, HandlerThrows(u)
    PROVE  HandlerInv'
<1>1. HookType'
  BY WhatsAppAssumption, SMTT(30) DEF HandlerInv, HookType, EventStatus, HandlerPC, JobFits, InboundEvents, StatusEvents,
        outboxVars, rowVars, ledgerVars, workerVars, hookVars, handlerVars, legacyVars, Go, SpendFault, OutboxButBudget, HandlerThrows
<1>2. ASSUME NEW h \in Handlers PROVE JobFits(h)'
  BY WhatsAppAssumption, SMTT(30) DEF HandlerInv, HookType, JobFits, InboundEvents, StatusEvents,
        outboxVars, rowVars, ledgerVars, workerVars, hookVars, handlerVars, legacyVars, Go, SpendFault, OutboxButBudget, HandlerThrows
<1>3. Counting'
  BY SMTT(30) DEF HandlerInv, HookType, Counting, outboxVars, rowVars, ledgerVars, workerVars, hookVars, handlerVars, legacyVars, Go, SpendFault, OutboxButBudget, HandlerThrows
<1>4. UNCHANGED <<unread, counted>>
  BY DEF outboxVars, rowVars, ledgerVars, workerVars, hookVars, handlerVars, legacyVars, HandlerThrows
<1> QED BY <1>1, <1>2, <1>3, <1>4 DEF HandlerInv, CountedFrom

\* A message that cannot be queued is skipped.
LEMMA QueueingFailsFits ==
    ASSUME HandlerInv, NEW u \in Handlers, QueueingFails(u)
    PROVE  HandlerInv'
<1>1. HookType'
  BY WhatsAppAssumption, SMTT(30) DEF HandlerInv, HookType, EventStatus, HandlerPC, JobFits, InboundEvents, StatusEvents,
        outboxVars, rowVars, ledgerVars, workerVars, hookVars, handlerVars, legacyVars, Go, SpendFault, OutboxButBudget, QueueingFails
<1>2. ASSUME NEW h \in Handlers PROVE JobFits(h)'
  BY WhatsAppAssumption, SMTT(30) DEF HandlerInv, HookType, JobFits, InboundEvents, StatusEvents,
        outboxVars, rowVars, ledgerVars, workerVars, hookVars, handlerVars, legacyVars, Go, SpendFault, OutboxButBudget, QueueingFails
<1>3. Counting'
  BY SMTT(30) DEF HandlerInv, HookType, Counting, outboxVars, rowVars, ledgerVars, workerVars, hookVars, handlerVars, legacyVars, Go, SpendFault, OutboxButBudget, QueueingFails
<1>4. UNCHANGED <<unread, counted>>
  BY DEF outboxVars, rowVars, ledgerVars, workerVars, hookVars, handlerVars, legacyVars, QueueingFails
<1> QED BY <1>1, <1>2, <1>3, <1>4 DEF HandlerInv, CountedFrom

\* A crash drops what the handler remembered.
LEMMA HandlerCrashesFits ==
    ASSUME HandlerInv, NEW u \in Handlers, HandlerCrashes(u)
    PROVE  HandlerInv'
<1>1. HookType'
  BY WhatsAppAssumption, SMTT(30) DEF HandlerInv, HookType, EventStatus, HandlerPC, JobFits, InboundEvents, StatusEvents,
        outboxVars, rowVars, ledgerVars, workerVars, hookVars, handlerVars, legacyVars, Go, SpendFault, OutboxButBudget, HandlerCrashes
<1>2. ASSUME NEW h \in Handlers PROVE JobFits(h)'
  BY WhatsAppAssumption, SMTT(30) DEF HandlerInv, HookType, JobFits, InboundEvents, StatusEvents,
        outboxVars, rowVars, ledgerVars, workerVars, hookVars, handlerVars, legacyVars, Go, SpendFault, OutboxButBudget, HandlerCrashes
<1>3. Counting'
  BY SMTT(30) DEF HandlerInv, HookType, Counting, outboxVars, rowVars, ledgerVars, workerVars, hookVars, handlerVars, legacyVars, Go, SpendFault, OutboxButBudget, HandlerCrashes
<1>4. UNCHANGED <<unread, counted>>
  BY DEF outboxVars, rowVars, ledgerVars, workerVars, hookVars, handlerVars, legacyVars, HandlerCrashes
<1> QED BY <1>1, <1>2, <1>3, <1>4 DEF HandlerInv, CountedFrom

\* Retention forgets events, not messages.
LEMMA CleanupFits ==
    ASSUME HandlerInv, NEW x \in Events, Cleanup(x)
    PROVE  HandlerInv'
<1>1. HookType'
  BY WhatsAppAssumption, SMTT(30) DEF HandlerInv, HookType, EventStatus, HandlerPC, JobFits, InboundEvents, StatusEvents,
        outboxVars, rowVars, ledgerVars, workerVars, hookVars, handlerVars, legacyVars, Cleanup
<1>2. ASSUME NEW h \in Handlers PROVE JobFits(h)'
  BY WhatsAppAssumption, SMTT(30) DEF HandlerInv, HookType, JobFits, InboundEvents, StatusEvents,
        outboxVars, rowVars, ledgerVars, workerVars, hookVars, handlerVars, legacyVars, Cleanup
<1>3. Counting'
  BY SMTT(30) DEF HandlerInv, HookType, Counting, outboxVars, rowVars, ledgerVars, workerVars, hookVars, handlerVars, legacyVars, Cleanup
<1>4. UNCHANGED <<unread, counted>>
  BY DEF outboxVars, rowVars, ledgerVars, workerVars, hookVars, handlerVars, legacyVars, Cleanup
<1> QED BY <1>1, <1>2, <1>3, <1>4 DEF HandlerInv, CountedFrom

\* The comments read are stored messages.
LEMMA LegacyReadFits ==
    ASSUME HandlerInv, NEW u \in Handlers, LegacyRead(u)
    PROVE  HandlerInv'
<1>1. HookType'
  BY WhatsAppAssumption, SMTT(30) DEF HandlerInv, HookType, EventStatus, HandlerPC, JobFits, InboundEvents, StatusEvents,
        outboxVars, rowVars, ledgerVars, workerVars, hookVars, handlerVars, legacyVars, Go, NotesOf, LegacyRead
<1>2. ASSUME NEW h \in Handlers PROVE JobFits(h)'
  BY WhatsAppAssumption, SMTT(30) DEF HandlerInv, HookType, JobFits, InboundEvents, StatusEvents,
        outboxVars, rowVars, ledgerVars, workerVars, hookVars, handlerVars, legacyVars, Go, NotesOf, LegacyRead
<1>3. Counting'
  BY SMTT(30) DEF HandlerInv, HookType, Counting, outboxVars, rowVars, ledgerVars, workerVars, hookVars, handlerVars, legacyVars, Go, NotesOf, LegacyRead
<1>4. UNCHANGED <<unread, counted>>
  BY DEF outboxVars, rowVars, ledgerVars, workerVars, hookVars, handlerVars, legacyVars, LegacyRead
<1> QED BY <1>1, <1>2, <1>3, <1>4 DEF HandlerInv, CountedFrom

\* A message is stored before its note is written.
LEMMA LegacyStoreFits ==
    ASSUME HandlerInv, NEW u \in Handlers, LegacyStore(u)
    PROVE  HandlerInv'
<1>1. HookType'
  BY WhatsAppAssumption, SMTT(30) DEF HandlerInv, HookType, EventStatus, HandlerPC, JobFits, InboundEvents, StatusEvents,
        outboxVars, rowVars, ledgerVars, workerVars, hookVars, handlerVars, legacyVars, Go, LegacyStore
<1>2. ASSUME NEW h \in Handlers PROVE JobFits(h)'
  BY WhatsAppAssumption, SMTT(30) DEF HandlerInv, HookType, JobFits, InboundEvents, StatusEvents,
        outboxVars, rowVars, ledgerVars, workerVars, hookVars, handlerVars, legacyVars, Go, LegacyStore
<1>3. Counting'
  BY SMTT(30) DEF HandlerInv, HookType, Counting, outboxVars, rowVars, ledgerVars, workerVars, hookVars, handlerVars, legacyVars, Go, LegacyStore
<1>4. UNCHANGED <<unread, counted>>
  BY DEF outboxVars, rowVars, ledgerVars, workerVars, hookVars, handlerVars, legacyVars, LegacyStore
<1> QED BY <1>1, <1>2, <1>3, <1>4 DEF HandlerInv, CountedFrom

\* The comments written are stored messages.
LEMMA LegacyNoteFits ==
    ASSUME HandlerInv, NEW u \in Handlers, LegacyNote(u)
    PROVE  HandlerInv'
<1>1. HookType'
  BY WhatsAppAssumption, SMTT(30) DEF HandlerInv, HookType, EventStatus, HandlerPC, JobFits, InboundEvents, StatusEvents,
        outboxVars, rowVars, ledgerVars, workerVars, hookVars, handlerVars, legacyVars, Go, NotesOf, NotesWritten, LegacyNote
<1>2. ASSUME NEW h \in Handlers PROVE JobFits(h)'
  BY WhatsAppAssumption, SMTT(30) DEF HandlerInv, HookType, JobFits, InboundEvents, StatusEvents,
        outboxVars, rowVars, ledgerVars, workerVars, hookVars, handlerVars, legacyVars, Go, NotesOf, NotesWritten, LegacyNote
<1>3. Counting'
  BY SMTT(30) DEF HandlerInv, HookType, Counting, outboxVars, rowVars, ledgerVars, workerVars, hookVars, handlerVars, legacyVars, Go, NotesOf, NotesWritten, LegacyNote
<1>4. UNCHANGED <<unread, counted>>
  BY DEF outboxVars, rowVars, ledgerVars, workerVars, hookVars, handlerVars, legacyVars, LegacyNote
<1> QED BY <1>1, <1>2, <1>3, <1>4 DEF HandlerInv, CountedFrom

\* A request that passes its checks touches no handler.
LEMMA RequestPassesFits ==
    ASSUME HandlerInv, NEW x \in Messages, RequestPasses(x)
    PROVE  HandlerInv'
<1>1. HookType'
  BY WhatsAppAssumption, SMTT(30) DEF HandlerInv, HookType, EventStatus, HandlerPC, JobFits, InboundEvents, StatusEvents,
        outboxVars, rowVars, ledgerVars, workerVars, hookVars, handlerVars, legacyVars, RequestPasses
<1>2. ASSUME NEW h \in Handlers PROVE JobFits(h)'
  BY WhatsAppAssumption, SMTT(30) DEF HandlerInv, HookType, JobFits, InboundEvents, StatusEvents,
        outboxVars, rowVars, ledgerVars, workerVars, hookVars, handlerVars, legacyVars, RequestPasses
<1>3. Counting'
  BY SMTT(30) DEF HandlerInv, HookType, Counting, outboxVars, rowVars, ledgerVars, workerVars, hookVars, handlerVars, legacyVars, RequestPasses
<1>4. UNCHANGED <<unread, counted>>
  BY DEF outboxVars, rowVars, ledgerVars, workerVars, hookVars, handlerVars, legacyVars, RequestPasses
<1> QED BY <1>1, <1>2, <1>3, <1>4 DEF HandlerInv, CountedFrom

\* The clock touches no handler.
LEMMA WindowClosesFits ==
    ASSUME HandlerInv, NEW x \in Customers, WindowCloses(x)
    PROVE  HandlerInv'
<1>1. HookType'
  BY WhatsAppAssumption, SMTT(30) DEF HandlerInv, HookType, EventStatus, HandlerPC, JobFits, InboundEvents, StatusEvents,
        outboxVars, rowVars, ledgerVars, workerVars, hookVars, handlerVars, legacyVars, WindowCloses
<1>2. ASSUME NEW h \in Handlers PROVE JobFits(h)'
  BY WhatsAppAssumption, SMTT(30) DEF HandlerInv, HookType, JobFits, InboundEvents, StatusEvents,
        outboxVars, rowVars, ledgerVars, workerVars, hookVars, handlerVars, legacyVars, WindowCloses
<1>3. Counting'
  BY SMTT(30) DEF HandlerInv, HookType, Counting, outboxVars, rowVars, ledgerVars, workerVars, hookVars, handlerVars, legacyVars, WindowCloses
<1>4. UNCHANGED <<unread, counted>>
  BY DEF outboxVars, rowVars, ledgerVars, workerVars, hookVars, handlerVars, legacyVars, WindowCloses
<1> QED BY <1>1, <1>2, <1>3, <1>4 DEF HandlerInv, CountedFrom

\* The conversation counts one message more, and it was not counted before.
LEMMA CountInboundFits ==
    ASSUME HandlerInv, NEW u \in Handlers, CountInbound(u)
    PROVE  HandlerInv'
<1>1. HookType'
  BY WhatsAppAssumption, SMTT(30) DEF HandlerInv, HookType, HandlerPC, JobFits, InboundEvents,
        outboxVars, rowVars, ledgerVars, workerVars, hookVars, handlerVars, legacyVars, Go, CountInbound
<1>2. ASSUME NEW h \in Handlers PROVE JobFits(h)'
  BY WhatsAppAssumption, SMTT(30) DEF HandlerInv, HookType, JobFits, InboundEvents, StatusEvents,
        outboxVars, rowVars, ledgerVars, workerVars, hookVars, handlerVars, legacyVars, Go, CountInbound
<1>3. Counting'
  BY SMTT(30) DEF HandlerInv, HookType, Counting, outboxVars, rowVars, ledgerVars, workerVars, hookVars, handlerVars, legacyVars, Go, CountInbound
<1>4. ASSUME NEW c \in Customers PROVE unread'[c] <= Cardinality(CountedFrom(c)')
  <2> DEFINE e == job[u]
  <2>1. e \in recorded \ counted /\ e \in InboundEvents
    BY DEF CountInbound, HandlerInv, Counting, JobFits
  <2>2. CountedFrom(c) \subseteq Events /\ IsFiniteSet(CountedFrom(c))
    BY WhatsAppAssumption, FS_Subset DEF HandlerInv, HookType, Counting, CountedFrom, InboundEvents
  <2>3. Cardinality(CountedFrom(c)) \in Nat
    BY <2>2, FS_CardinalityType
  <2>4. CASE e.from = c
    <3>1. CountedFrom(c)' = CountedFrom(c) \cup {e}
      BY <2>4 DEF CountInbound, CountedFrom
    <3>2. Cardinality(CountedFrom(c)') = Cardinality(CountedFrom(c)) + 1
      BY <3>1, <2>1, <2>2, FS_AddElement DEF CountedFrom
    <3>3. unread'[c] = unread[c] + 1 /\ unread[c] \in Nat
      BY <2>4 DEF CountInbound, HandlerInv, HookType
    <3> QED BY <3>2, <3>3, <2>3 DEF HandlerInv
  <2>5. CASE e.from # c
    <3>1. CountedFrom(c)' = CountedFrom(c)
      BY <2>5 DEF CountInbound, CountedFrom
    <3>2. unread'[c] = unread[c]
      BY <2>5 DEF CountInbound, HandlerInv, HookType
    <3> QED BY <3>1, <3>2 DEF HandlerInv
  <2> QED BY <2>4, <2>5
<1> QED BY <1>1, <1>2, <1>3, <1>4 DEF HandlerInv

\* What the handlers do not read may change: the ledger within its types.
LEMMA HooksKept ==
    ASSUME HandlerInv,
           UNCHANGED <<traffic, hookVars, handlerVars, legacyVars, died>>,
           passed' = passed,
           entry' \in [Messages -> EntryStatus], wamid' \in [Messages -> Nat], budget' \in Nat
    PROVE  HandlerInv'
<1>1. HookType'
  BY DEF HandlerInv, HookType, hookVars, handlerVars, legacyVars
<1>2. \A h \in Handlers : JobFits(h)'
  BY DEF HandlerInv, JobFits, hookVars, handlerVars, legacyVars
<1>3. Counting'
  BY DEF HandlerInv, Counting, hookVars, handlerVars
<1> QED BY <1>1, <1>2, <1>3 DEF HandlerInv, CountedFrom, hookVars

\* Queueing adds a ledger entry that is Pending.
LEMMA EnqueueTypes ==
    ASSUME HandlerInv, NEW m, Enqueue(m)
    PROVE  /\ entry' \in [Messages -> EntryStatus] /\ wamid' = wamid /\ budget' = budget
           /\ wamid' \in [Messages -> Nat] /\ budget' \in Nat
  BY DEF HandlerInv, HookType, Enqueue, EntryStatus

\* The workers keep the ledger and the budget typed.
LEMMA OutboxRunsTypes ==
    ASSUME OutboxInv, HandlerInv, OutboxRuns
    PROVE  entry' \in [Messages -> EntryStatus] /\ wamid' \in [Messages -> Nat] /\ budget' \in Nat
<1> USE DEF HandlerInv, HookType, OutboxInv, CoreType, ledgerVars
<1>1. ASSUME NEW w \in Workers, WorkerStep(w)
      PROVE  entry' \in [Messages -> EntryStatus] /\ wamid' \in [Messages -> Nat] /\ budget' \in Nat
  <2>1. CASE MarkMessageSent(w)
    BY <2>1 DEF MarkMessageSent, EntryStatus
  <2>2. CASE MarkMessageFailed(w)
    BY <2>2 DEF MarkMessageFailed, EntryStatus
  <2>3. CASE ~ MarkMessageSent(w) /\ ~ MarkMessageFailed(w)
    <3>1. UNCHANGED <<entry, wamid, budget>>
      BY <1>1, <2>3 DEF WorkerStep, Tick, FindDue, Claim, LoseClaim, EndClaims, EndTick, SendAccepted,
            SendRefused, Take, NoFault, MarkOutboxSent, ReadAttempts, WriteRetry, WriteFailed
    <3> QED BY <3>1
  <2> QED BY <2>1, <2>2, <2>3
<1>2. CASE \E m \in Messages : DeadClaimAges(m)
  BY <1>2 DEF DeadClaimAges
<1>3. CASE FaultStep
  <2>1. UNCHANGED <<entry, wamid>>
    BY <1>3 DEF FaultStep, Throw, Swallow, Crash, ThrowEarly, SendUnacknowledged, Take, LiveClaimAges
  <2>2. budget > 0 /\ budget' = budget - 1
    BY <1>3 DEF FaultStep, Throw, Swallow, Crash, ThrowEarly, SendUnacknowledged, LiveClaimAges, Fault
  <2> QED BY <2>1, <2>2
<1> QED BY <1>1, <1>2, <1>3 DEF OutboxRuns

\* Queueing from the automation moves the handler on.
LEMMA QueueingFits ==
    ASSUME HandlerInv, NEW u \in Handlers, QueueNotice(u) \/ QueueReply(u)
    PROVE  HandlerInv'
<1>1. entry' \in [Messages -> EntryStatus] /\ wamid' \in [Messages -> Nat] /\ budget' \in Nat
  <2>1. UNCHANGED outboxVars \/ \E m : Enqueue(m)
    BY Zenon DEF QueueNotice, QueueReply
  <2>2. CASE UNCHANGED outboxVars
    BY <2>2 DEF outboxVars, ledgerVars, HandlerInv, HookType
  <2> QED BY <2>1, <2>2, EnqueueTypes
<1>2. /\ hpc' = [hpc EXCEPT ![u] = hpc'[u]] /\ hpc'[u] \in {"reply", "handled"}
      /\ UNCHANGED <<traffic, passed, hookVars, job, mine, via, seen, legacyVars, died>>
      /\ hpc[u] \in {"notice", "answer"}
  BY DEF QueueNotice, QueueReply, Go, HandlerInv, HookType
<1>3. HookType'
  BY <1>1, <1>2 DEF HandlerInv, HookType, HandlerPC, hookVars, legacyVars
<1>4. ASSUME NEW h \in Handlers PROVE JobFits(h)'
  BY <1>2, SMTT(30) DEF HandlerInv, HookType, JobFits, InboundEvents, hookVars, legacyVars
<1>5. Counting'
  BY <1>2, SMTT(30) DEF HandlerInv, HookType, Counting, hookVars
<1> QED BY <1>2, <1>3, <1>4, <1>5 DEF HandlerInv, CountedFrom, hookVars

\* Every step keeps the invariant of the handlers.
LEMMA NextFits ==
    ASSUME OutboxInv, HandlerInv, Next
    PROVE  HandlerInv'
<1>1. CASE OutboxRuns
  <2>1. UNCHANGED <<traffic, hookVars, handlerVars, legacyVars, died>> /\ passed' = passed
    BY <1>1 DEF OutboxRuns
  <2> QED BY <1>1, <2>1, OutboxRunsTypes, HooksKept
<1>2. ASSUME NEW m \in Messages, QueueRequest(m) PROVE HandlerInv'
  BY <1>2, EnqueueTypes, HooksKept DEF QueueRequest
<1>3. ASSUME NEW m \in Messages, OperatorCancels(m) PROVE HandlerInv'
  <2>1. UNCHANGED <<entry, wamid, budget>>
    BY <1>3 DEF OperatorCancels, Cancel, ledgerVars
  <2> QED BY <1>3, <2>1, HooksKept DEF OperatorCancels, HandlerInv, HookType
<1>4. ASSUME NEW h \in Handlers, HandlerStep(h) PROVE HandlerInv'
  BY <1>4, ClaimEventFits, EndEventClaimsFits, NextEventFits, ReadEntryFits, WriteEntryFits,
     FindRecordedFits, InsertInboundFits, CountInboundFits, CheckNoticeFits, QueueingFits,
     CheckReplyFits, MarkEventFits, MarkEventFailedFits, LegacyReadFits, LegacyStoreFits,
     LegacyNoteFits DEF HandlerStep
<1> QED BY <1>1, <1>2, <1>3, <1>4, RequestPassesFits, WindowClosesFits, PostFits, PostAgainFits,
           StartJobFits, HandlerThrowsFits, QueueingFailsFits, HandlerCrashesFits, CleanupFits
        DEF Next

\* The invariant of the handlers holds of every behaviour.
LEMMA HandlerInvariant == Spec => []HandlerInv
<1>1. Init => HandlerInv
  <2> SUFFICES ASSUME Init PROVE HandlerInv
    OBVIOUS
  <2>1. HookType
    BY OutboxAssumption DEF Init, OutboxInit, HookType, EventStatus, HandlerPC, EntryStatus
  <2>2. \A h \in Handlers : JobFits(h)
    BY DEF Init, JobFits
  <2>3. Counting
    BY DEF Init, Counting
  <2>4. \A c \in Customers : unread[c] <= Cardinality(CountedFrom(c))
    <3>1. \A c \in Customers : CountedFrom(c) = {}
      BY DEF Init, CountedFrom
    <3> QED BY <3>1, FS_EmptySet DEF Init
  <2> QED BY <2>1, <2>2, <2>3, <2>4 DEF HandlerInv
<1>2. OutboxInv /\ HandlerInv /\ [Next]_vars => HandlerInv'
  <2> SUFFICES ASSUME OutboxInv, HandlerInv, [Next]_vars PROVE HandlerInv'
    OBVIOUS
  <2>1. CASE UNCHANGED vars
    <3>1. UNCHANGED <<traffic, passed, hookVars, handlerVars, legacyVars, died, entry, wamid, budget>>
      BY <2>1 DEF vars, outboxVars, ledgerVars
    <3> QED BY <3>1, HooksKept DEF HandlerInv, HookType
  <2> QED BY <2>1, NextFits
<1> QED BY <1>1, <1>2, OutboxInvariant, PTL DEF Spec

------------------------------------------------------------------------------
(* Theorems *)

\* Type correctness of the messaging system: rows, ledger, workers, webhook
\* events, handlers and histories.
THEOREM TypeCorrect == Spec => []TypeOK
<1>1. OutboxInv /\ HandlerInv => TypeOK
  BY DEF OutboxInv, CoreType, HandlerInv, HookType, Counting, TypeOK, OutboxTypeOK
<1> QED BY <1>1, OutboxInvariant, HandlerInvariant, PTL

\* With any number of workers, crashing and overtaking each other over other
\* messages, a message that met no fault is accepted by the provider at most
\* once: the claim of claimDueMessages is exclusive.
THEOREM SentOnce == Spec => []SentOnceUnlessFault
<1>1. OutboxInv => SentOnceUnlessFault
  BY DEF OutboxInv, Orderly, SentOnceUnlessFault
<1> QED BY <1>1, OutboxInvariant, PTL

\* A message cancelled by the operator was not accepted, and no worker is about
\* to send it, unless a fault hit it.
THEOREM CancelledIsNotSent == Spec => []CancelledNeverSent
<1>1. OutboxInv => CancelledNeverSent
  <2> SUFFICES ASSUME OutboxInv, NEW m \in Messages, row[m] = "Cancelled", faults[m] = 0
               PROVE  copies[m] = 0 /\ \A w \in Workers : m \notin batch[w]
    BY DEF CancelledNeverSent
  <2> QED BY DEF OutboxInv, Orderly, Phase
<1> QED BY <1>1, OutboxInvariant, PTL

\* No inbound message is counted twice in its conversation's unread counter,
\* for any number of handlers, redeliveries, retries and crashes.
THEOREM UnreadIsBounded == Spec => []CountedOnce
<1>1. HandlerInv => CountedOnce
  <2> SUFFICES ASSUME HandlerInv, NEW c \in Customers
               PROVE  unread[c] <= Cardinality({e \in recorded : e.from = c})
    BY DEF CountedOnce
  <2> DEFINE R == {e \in recorded : e.from = c}
  <2>1. IsFiniteSet(R) /\ CountedFrom(c) \subseteq R
    BY WhatsAppAssumption, FS_Subset DEF HandlerInv, HookType, Counting, CountedFrom, InboundEvents
  <2>2. Cardinality(CountedFrom(c)) <= Cardinality(R) /\ Cardinality(R) \in Nat
        /\ Cardinality(CountedFrom(c)) \in Nat
    BY <2>1, FS_Subset, FS_CardinalityType
  <2>3. unread[c] \in Nat
    BY DEF HandlerInv, HookType
  <2> QED BY <2>2, <2>3 DEF HandlerInv
<1> QED BY <1>1, HandlerInvariant, PTL

------------------------------------------------------------------------------
(* One copy for each fault *)

\* The worker may still send the message, now or after a retry.
MaySend(w, m) ==
    m \in batch[w] \/ (current[w] = m /\ pc[w] \in {"refused", "thrown", "retry"})

\* The worker may still write the row of the message away from Processing.
Settles(w, m) ==
    \/ m \in batch[w]
    \/ /\ current[w] = m
       /\ pc[w] \in {"accepted", "refused", "refusedForGood", "thrown", "retry", "giveUp", "drop"}

Senders(m) == {w \in Workers : MaySend(w, m)}

Once(condition) == IF condition THEN 1 ELSE 0

\* A row waits for a worker, or its claim waits to be taken back.
Waiting(m) == row[m] = "Pending" \/ (row[m] = "Processing" /\ \A w \in Workers : ~Settles(w, m))

\* The copies that were made, and the one that a waiting row may lead to.
Base(m) == copies[m] + Once(Waiting(m))

\* With the workers that may send it, no more than the faults allow.
Paced(m) ==
    /\ IsFiniteSet(Senders(m))
    /\ Base(m) + Cardinality(Senders(m)) <= 1 + faults[m]
    /\ row[m] = "none" => copies[m] = 0 /\ \A w \in Workers : ~Holds(w, m)

\* The row in hand is no longer in the batch.
Apart == \A w \in Workers : current[w] \notin batch[w]

CopyInv == Apart /\ \A m \in Messages : Paced(m)

\* What a step does to the sum of a message: it falls, a sender gives its place up, or a
\* fault adds a sender.
Falls(m) == /\ Senders(m)' \subseteq Senders(m)
            /\ Base(m)' + faults[m] <= Base(m) + faults'[m]

Yields(m) == \E w \in Senders(m) :
    /\ Senders(m)' \subseteq Senders(m) \ {w}
    /\ Base(m)' + faults[m] <= Base(m) + 1 + faults'[m]

Grows(m) == \E w \in Workers :
    /\ Senders(m)' \subseteq Senders(m) \cup {w}
    /\ Base(m)' + 1 + faults[m] <= Base(m) + faults'[m]

\* How many are left when one goes or one comes.
LEMMA Headcount ==
    ASSUME NEW R, NEW S, NEW w, IsFiniteSet(R)
    PROVE  /\ Cardinality(R) \in Nat
           /\ S \subseteq R => IsFiniteSet(S) /\ Cardinality(S) \in Nat /\ Cardinality(S) <= Cardinality(R)
           /\ w \in R /\ S \subseteq R \ {w} =>
                IsFiniteSet(S) /\ Cardinality(S) \in Nat /\ Cardinality(S) + 1 <= Cardinality(R)
           /\ S \subseteq R \cup {w} =>
                IsFiniteSet(S) /\ Cardinality(S) \in Nat /\ Cardinality(S) <= Cardinality(R) + 1
<1>1. Cardinality(R) \in Nat
  BY FS_CardinalityType
<1>2. ASSUME S \subseteq R
      PROVE  IsFiniteSet(S) /\ Cardinality(S) \in Nat /\ Cardinality(S) <= Cardinality(R)
  BY <1>2, FS_Subset, FS_CardinalityType
<1>3. ASSUME w \in R, S \subseteq R \ {w}
      PROVE  IsFiniteSet(S) /\ Cardinality(S) \in Nat /\ Cardinality(S) + 1 <= Cardinality(R)
  <2>1. IsFiniteSet(R \ {w}) /\ Cardinality(R \ {w}) = Cardinality(R) - 1
    BY <1>3, FS_RemoveElement
  <2>2. IsFiniteSet(S) /\ Cardinality(S) \in Nat /\ Cardinality(S) <= Cardinality(R \ {w})
    BY <1>3, <2>1, FS_Subset, FS_CardinalityType
  <2> QED BY <1>1, <2>1, <2>2
<1>4. ASSUME S \subseteq R \cup {w}
      PROVE  IsFiniteSet(S) /\ Cardinality(S) \in Nat /\ Cardinality(S) <= Cardinality(R) + 1
  <2>1. IsFiniteSet(R \cup {w}) /\ Cardinality(R \cup {w}) \in {Cardinality(R), Cardinality(R) + 1}
    BY FS_AddElement
  <2>2. IsFiniteSet(S) /\ Cardinality(S) \in Nat /\ Cardinality(S) <= Cardinality(R \cup {w})
    BY <1>4, <2>1, FS_Subset, FS_CardinalityType
  <2> QED BY <1>1, <2>1, <2>2
<1> QED BY <1>1, <1>2, <1>3, <1>4

\* Each of the three keeps the sum within the faults.
LEMMA Pacing ==
    ASSUME NEW m \in Messages, CoreType, CoreType', Paced(m), Falls(m) \/ Yields(m) \/ Grows(m),
           row'[m] = "none" => copies'[m] = 0 /\ \A w \in Workers : ~Holds(w, m)'
    PROVE  Paced(m)'
<1> DEFINE R == Senders(m)
           S == Senders(m)'
           b == Base(m)
           c == Base(m)'
<1>1. b \in Nat /\ c \in Nat /\ faults[m] \in Nat /\ faults'[m] \in Nat
  BY DEF Base, Once, CoreType
<1>2. IsFiniteSet(R) /\ b + Cardinality(R) <= 1 + faults[m]
  BY DEF Paced
<1>3. \/ S \subseteq R /\ c + faults[m] <= b + faults'[m]
      \/ \E w \in R : S \subseteq R \ {w} /\ c + faults[m] <= b + 1 + faults'[m]
      \/ \E w \in Workers : S \subseteq R \cup {w} /\ c + 1 + faults[m] <= b + faults'[m]
  BY DEF Falls, Yields, Grows
<1> HIDE DEF R, S, b, c
<1>4. CASE S \subseteq R /\ c + faults[m] <= b + faults'[m]
  <2>1. IsFiniteSet(S) /\ Cardinality(S) \in Nat /\ Cardinality(S) <= Cardinality(R) /\ Cardinality(R) \in Nat
    BY <1>2, <1>4, Headcount
  <2>2. c + Cardinality(S) <= 1 + faults'[m]
    BY <1>1, <1>2, <1>4, <2>1
  <2> QED BY <2>1, <2>2 DEF Paced, S, c
<1>5. ASSUME NEW w \in R, S \subseteq R \ {w}, c + faults[m] <= b + 1 + faults'[m]
      PROVE  Paced(m)'
  <2>1. IsFiniteSet(S) /\ Cardinality(S) \in Nat /\ Cardinality(S) + 1 <= Cardinality(R) /\ Cardinality(R) \in Nat
    BY <1>2, <1>5, Headcount
  <2>2. c + Cardinality(S) <= 1 + faults'[m]
    BY <1>1, <1>2, <1>5, <2>1
  <2> QED BY <2>1, <2>2 DEF Paced, S, c
<1>6. ASSUME NEW w \in Workers, S \subseteq R \cup {w}, c + 1 + faults[m] <= b + faults'[m]
      PROVE  Paced(m)'
  <2>1. IsFiniteSet(S) /\ Cardinality(S) \in Nat /\ Cardinality(S) <= Cardinality(R) + 1 /\ Cardinality(R) \in Nat
    BY <1>2, <1>6, Headcount
  <2>2. c + Cardinality(S) <= 1 + faults'[m]
    BY <1>1, <1>2, <1>6, <2>1
  <2> QED BY <2>1, <2>2 DEF Paced, S, c
<1> QED BY <1>3, <1>4, <1>5, <1>6

\* A new row may lead to one copy, and no fault is needed for it.
LEMMA EnqueuePaces ==
    ASSUME OutboxInv, CopyInv, NEW x \in Messages, Enqueue(x)
    PROVE  CopyInv'
<1>1. CoreType /\ CoreType' /\ InHand /\ Apart /\ \A m \in Messages : Paced(m)
  BY EnqueueKeeps DEF OutboxInv, CopyInv
<1>2. Apart'
  BY <1>1, OutboxAssumption DEF CoreType, InHand, AtLoop, Apart, workerVars, rowVars, Enqueue
<1>3. ASSUME NEW m \in Messages
      PROVE  Paced(m)'
  <2>1. row'[m] = "none" => copies'[m] = 0 /\ \A w \in Workers : ~Holds(w, m)'
    BY <1>1, OutboxAssumption DEF CoreType, InHand, AtLoop, Paced, Holds, workerVars, rowVars, Enqueue
  <2>2. CASE m # x
    <3>1. Falls(m)
      BY <1>1, <2>2, OutboxAssumption, SMTT(30) DEF Falls, CoreType, InHand, AtLoop, Apart, Paced, Holds, Senders, MaySend, Base, Once, Waiting, Settles, workerVars, rowVars, Enqueue
    <3> QED BY <1>1, <2>1, <3>1, Pacing
  <2>3. CASE m = x
    <3>1. /\ row[m] = "none" /\ row'[m] = "Pending" /\ copies'[m] = 0 /\ faults'[m] \in Nat
          /\ \A w \in Workers : ~Holds(w, m)'
      BY <1>1, <2>3 DEF CoreType, Paced, Holds, workerVars, rowVars, Enqueue
    <3>2. Senders(m)' = {}
      BY <3>1 DEF Senders, MaySend, Holds
    <3>3. Base(m)' = 1
      BY <3>1 DEF Base, Once, Waiting
    <3>4. IsFiniteSet({}) /\ Cardinality({}) = 0
      BY FS_EmptySet
    <3> QED BY <3>1, <3>2, <3>3, <3>4 DEF Paced
  <2> QED BY <2>2, <2>3
<1> QED BY <1>2, <1>3 DEF CopyInv

\* A cancelled row waits for nobody.
LEMMA CancelPaces ==
    ASSUME OutboxInv, CopyInv, NEW x \in Messages, Cancel(x)
    PROVE  CopyInv'
<1>1. CoreType /\ CoreType' /\ InHand /\ Apart /\ \A m \in Messages : Paced(m)
  BY CancelKeeps DEF OutboxInv, CopyInv
<1>2. Apart'
  BY <1>1, OutboxAssumption DEF CoreType, InHand, AtLoop, Apart, workerVars, rowVars, Cancel
<1>3. ASSUME NEW m \in Messages
      PROVE  Paced(m)'
  <2>1. row'[m] = "none" => copies'[m] = 0 /\ \A w \in Workers : ~Holds(w, m)'
    BY <1>1, OutboxAssumption DEF CoreType, InHand, AtLoop, Paced, Holds, workerVars, rowVars, Cancel
  <2>2. CASE m # x
    <3>1. Falls(m)
      BY <1>1, <2>2, OutboxAssumption, SMTT(30) DEF Falls, CoreType, InHand, AtLoop, Apart, Paced, Holds, Senders, MaySend, Base, Once, Waiting, Settles, workerVars, rowVars, Cancel
    <3> QED BY <1>1, <2>1, <3>1, Pacing
  <2>3. CASE m = x
    <3>1. Falls(m)
      BY <1>1, <2>3, OutboxAssumption, SMTT(30) DEF Falls, CoreType, InHand, AtLoop, Apart, Paced, Holds, Senders, MaySend, Base, Once, Waiting, Settles, workerVars, rowVars, Cancel
    <3> QED BY <1>1, <2>1, <3>1, Pacing
  <2> QED BY <2>2, <2>3
<1> QED BY <1>2, <1>3 DEF CopyInv

\* A claim nobody holds counted as waiting already; taking a held one back is a fault.
LEMMA TickPaces ==
    ASSUME OutboxInv, CopyInv, NEW u \in Workers, Tick(u)
    PROVE  CopyInv'
<1>1. CoreType /\ CoreType' /\ InHand /\ Apart /\ \A m \in Messages : Paced(m)
  BY TickKeeps DEF OutboxInv, CopyInv
<1>2. Apart'
  BY <1>1, OutboxAssumption DEF CoreType, InHand, AtLoop, Apart, workerVars, rowVars, Stale, Held, Tick
<1>3. ASSUME NEW m \in Messages
      PROVE  Paced(m)'
  <2>1. row'[m] = "none" => copies'[m] = 0 /\ \A w \in Workers : ~Holds(w, m)'
    BY <1>1, OutboxAssumption DEF CoreType, InHand, AtLoop, Paced, Holds, workerVars, rowVars, Stale, Held, Tick
  <2>2. Falls(m)
    BY <1>1, OutboxAssumption, SMTT(30) DEF Falls, CoreType, InHand, AtLoop, Apart, Paced, Holds, Senders, MaySend, Base, Once, Waiting, Settles, workerVars, rowVars, Stale, Held, Tick
  <2> QED BY <1>1, <2>1, <2>2, Pacing
<1> QED BY <1>2, <1>3 DEF CopyInv

\* Listing changes no row.
LEMMA FindDuePaces ==
    ASSUME OutboxInv, CopyInv, NEW u \in Workers, FindDue(u)
    PROVE  CopyInv'
<1>1. CoreType /\ CoreType' /\ InHand /\ Apart /\ \A m \in Messages : Paced(m)
  BY FindDueKeeps DEF OutboxInv, CopyInv
<1>2. Apart'
  BY <1>1, OutboxAssumption DEF CoreType, InHand, AtLoop, Apart, workerVars, rowVars, FindDue
<1>3. ASSUME NEW m \in Messages
      PROVE  Paced(m)'
  <2>1. row'[m] = "none" => copies'[m] = 0 /\ \A w \in Workers : ~Holds(w, m)'
    BY <1>1, OutboxAssumption DEF CoreType, InHand, AtLoop, Paced, Holds, workerVars, rowVars, FindDue
  <2>2. Falls(m)
    BY <1>1, OutboxAssumption, SMTT(30) DEF Falls, CoreType, InHand, AtLoop, Apart, Paced, Holds, Senders, MaySend, Base, Once, Waiting, Settles, workerVars, rowVars, FindDue
  <2> QED BY <1>1, <2>1, <2>2, Pacing
<1> QED BY <1>2, <1>3 DEF CopyInv

\* The claim turns a waiting row into one sender.
LEMMA ClaimPaces ==
    ASSUME OutboxInv, CopyInv, NEW u \in Workers, NEW x \in Messages, Claim(u, x)
    PROVE  CopyInv'
<1>1. CoreType /\ CoreType' /\ InHand /\ Apart /\ \A m \in Messages : Paced(m)
  BY ClaimKeeps DEF OutboxInv, CopyInv
<1>2. Apart'
  BY <1>1, OutboxAssumption DEF CoreType, InHand, AtLoop, Apart, workerVars, rowVars, Claimable, Claim
<1>3. ASSUME NEW m \in Messages
      PROVE  Paced(m)'
  <2>1. row'[m] = "none" => copies'[m] = 0 /\ \A w \in Workers : ~Holds(w, m)'
    BY <1>1, OutboxAssumption DEF CoreType, InHand, AtLoop, Paced, Holds, workerVars, rowVars, Claimable, Claim
  <2>2. CASE m # x
    <3>1. Falls(m)
      BY <1>1, <2>2, OutboxAssumption, SMTT(30) DEF Falls, CoreType, InHand, AtLoop, Apart, Paced, Holds, Senders, MaySend, Base, Once, Waiting, Settles, workerVars, rowVars, Claimable, Claim
    <3> QED BY <1>1, <2>1, <3>1, Pacing
  <2>3. CASE m = x
    <3>1. Grows(m)
      BY <1>1, <2>3, OutboxAssumption, SMTT(30) DEF Grows, CoreType, InHand, AtLoop, Apart, Paced, Holds, Senders, MaySend, Base, Once, Waiting, Settles, workerVars, rowVars, Claimable, Claim
    <3> QED BY <1>1, <2>1, <3>1, Pacing
  <2> QED BY <2>2, <2>3
<1> QED BY <1>2, <1>3 DEF CopyInv

\* A lost claim changes no row.
LEMMA LoseClaimPaces ==
    ASSUME OutboxInv, CopyInv, NEW u \in Workers, NEW x \in Messages, LoseClaim(u, x)
    PROVE  CopyInv'
<1>1. CoreType /\ CoreType' /\ InHand /\ Apart /\ \A m \in Messages : Paced(m)
  BY LoseClaimKeeps DEF OutboxInv, CopyInv
<1>2. Apart'
  BY <1>1, OutboxAssumption DEF CoreType, InHand, AtLoop, Apart, workerVars, rowVars, LoseClaim
<1>3. ASSUME NEW m \in Messages
      PROVE  Paced(m)'
  <2>1. row'[m] = "none" => copies'[m] = 0 /\ \A w \in Workers : ~Holds(w, m)'
    BY <1>1, OutboxAssumption DEF CoreType, InHand, AtLoop, Paced, Holds, workerVars, rowVars, LoseClaim
  <2>2. CASE m # x
    <3>1. Falls(m)
      BY <1>1, <2>2, OutboxAssumption, SMTT(30) DEF Falls, CoreType, InHand, AtLoop, Apart, Paced, Holds, Senders, MaySend, Base, Once, Waiting, Settles, workerVars, rowVars, LoseClaim
    <3> QED BY <1>1, <2>1, <3>1, Pacing
  <2>3. CASE m = x
    <3>1. Falls(m)
      BY <1>1, <2>3, OutboxAssumption, SMTT(30) DEF Falls, CoreType, InHand, AtLoop, Apart, Paced, Holds, Senders, MaySend, Base, Once, Waiting, Settles, workerVars, rowVars, LoseClaim
    <3> QED BY <1>1, <2>1, <3>1, Pacing
  <2> QED BY <2>2, <2>3
<1> QED BY <1>2, <1>3 DEF CopyInv

\* The end of the claims changes no row.
LEMMA EndClaimsPaces ==
    ASSUME OutboxInv, CopyInv, NEW u \in Workers, EndClaims(u)
    PROVE  CopyInv'
<1>1. CoreType /\ CoreType' /\ InHand /\ Apart /\ \A m \in Messages : Paced(m)
  BY EndClaimsKeeps DEF OutboxInv, CopyInv
<1>2. Apart'
  BY <1>1, OutboxAssumption DEF CoreType, InHand, AtLoop, Apart, workerVars, rowVars, EndClaims
<1>3. ASSUME NEW m \in Messages
      PROVE  Paced(m)'
  <2>1. row'[m] = "none" => copies'[m] = 0 /\ \A w \in Workers : ~Holds(w, m)'
    BY <1>1, OutboxAssumption DEF CoreType, InHand, AtLoop, Paced, Holds, workerVars, rowVars, EndClaims
  <2>2. Falls(m)
    BY <1>1, OutboxAssumption, SMTT(30) DEF Falls, CoreType, InHand, AtLoop, Apart, Paced, Holds, Senders, MaySend, Base, Once, Waiting, Settles, workerVars, rowVars, EndClaims
  <2> QED BY <1>1, <2>1, <2>2, Pacing
<1> QED BY <1>2, <1>3 DEF CopyInv

\* The end of a tick changes no row.
LEMMA EndTickPaces ==
    ASSUME OutboxInv, CopyInv, NEW u \in Workers, EndTick(u)
    PROVE  CopyInv'
<1>1. CoreType /\ CoreType' /\ InHand /\ Apart /\ \A m \in Messages : Paced(m)
  BY EndTickKeeps DEF OutboxInv, CopyInv
<1>2. Apart'
  BY <1>1, OutboxAssumption DEF CoreType, InHand, AtLoop, Apart, workerVars, rowVars, EndTick
<1>3. ASSUME NEW m \in Messages
      PROVE  Paced(m)'
  <2>1. row'[m] = "none" => copies'[m] = 0 /\ \A w \in Workers : ~Holds(w, m)'
    BY <1>1, OutboxAssumption DEF CoreType, InHand, AtLoop, Paced, Holds, workerVars, rowVars, EndTick
  <2>2. Falls(m)
    BY <1>1, OutboxAssumption, SMTT(30) DEF Falls, CoreType, InHand, AtLoop, Apart, Paced, Holds, Senders, MaySend, Base, Once, Waiting, Settles, workerVars, rowVars, EndTick
  <2> QED BY <1>1, <2>1, <2>2, Pacing
<1> QED BY <1>2, <1>3 DEF CopyInv

\* The sender turns into a copy.
LEMMA SendAcceptedPaces ==
    ASSUME OutboxInv, CopyInv, NEW u \in Workers, NEW x \in Messages, SendAccepted(u, x)
    PROVE  CopyInv'
<1>1. CoreType /\ CoreType' /\ InHand /\ Apart /\ \A m \in Messages : Paced(m)
  BY SendAcceptedKeeps DEF OutboxInv, CopyInv
<1>2. Apart'
  BY <1>1, OutboxAssumption DEF CoreType, InHand, AtLoop, Apart, workerVars, rowVars, Take, NoFault, SendAccepted
<1>3. ASSUME NEW m \in Messages
      PROVE  Paced(m)'
  <2>1. row'[m] = "none" => copies'[m] = 0 /\ \A w \in Workers : ~Holds(w, m)'
    BY <1>1, OutboxAssumption DEF CoreType, InHand, AtLoop, Paced, Holds, workerVars, rowVars, Take, NoFault, SendAccepted
  <2>2. CASE m # x
    <3>1. Falls(m)
      BY <1>1, <2>2, OutboxAssumption, SMTT(30) DEF Falls, CoreType, InHand, AtLoop, Apart, Paced, Holds, Senders, MaySend, Base, Once, Waiting, Settles, workerVars, rowVars, Take, NoFault, SendAccepted
    <3> QED BY <1>1, <2>1, <3>1, Pacing
  <2>3. CASE m = x
    <3>1. Yields(m)
      BY <1>1, <2>3, OutboxAssumption, SMTT(30) DEF Yields, CoreType, InHand, AtLoop, Apart, Paced, Holds, Senders, MaySend, Base, Once, Waiting, Settles, workerVars, rowVars, Take, NoFault, SendAccepted
    <3> QED BY <1>1, <2>1, <3>1, Pacing
  <2> QED BY <2>2, <2>3
<1> QED BY <1>2, <1>3 DEF CopyInv

\* A refused send leaves no copy.
LEMMA SendRefusedPaces ==
    ASSUME OutboxInv, CopyInv, NEW u \in Workers, NEW x \in Messages, NEW retryable \in BOOLEAN, SendRefused(u, x, retryable)
    PROVE  CopyInv'
<1>1. CoreType /\ CoreType' /\ InHand /\ Apart /\ \A m \in Messages : Paced(m)
  BY SendRefusedKeeps DEF OutboxInv, CopyInv
<1>2. Apart'
  BY <1>1, OutboxAssumption DEF CoreType, InHand, AtLoop, Apart, workerVars, rowVars, Take, NoFault, SendRefused
<1>3. ASSUME NEW m \in Messages
      PROVE  Paced(m)'
  <2>1. row'[m] = "none" => copies'[m] = 0 /\ \A w \in Workers : ~Holds(w, m)'
    BY <1>1, OutboxAssumption DEF CoreType, InHand, AtLoop, Paced, Holds, workerVars, rowVars, Take, NoFault, SendRefused
  <2>2. CASE m # x
    <3>1. Falls(m)
      BY <1>1, <2>2, OutboxAssumption, SMTT(30) DEF Falls, CoreType, InHand, AtLoop, Apart, Paced, Holds, Senders, MaySend, Base, Once, Waiting, Settles, workerVars, rowVars, Take, NoFault, SendRefused
    <3> QED BY <1>1, <2>1, <3>1, Pacing
  <2>3. CASE m = x
    <3>1. Falls(m)
      BY <1>1, <2>3, OutboxAssumption, SMTT(30) DEF Falls, CoreType, InHand, AtLoop, Apart, Paced, Holds, Senders, MaySend, Base, Once, Waiting, Settles, workerVars, rowVars, Take, NoFault, SendRefused
    <3> QED BY <1>1, <2>1, <3>1, Pacing
  <2> QED BY <2>2, <2>3
<1> QED BY <1>2, <1>3 DEF CopyInv

\* A lost reply is a fault of its message, and a copy of it.
LEMMA SendUnacknowledgedPaces ==
    ASSUME OutboxInv, CopyInv, NEW u \in Workers, NEW x \in Messages, NEW retryable \in BOOLEAN, SendUnacknowledged(u, x, retryable)
    PROVE  CopyInv'
<1>1. CoreType /\ CoreType' /\ InHand /\ Apart /\ \A m \in Messages : Paced(m)
  BY SendUnacknowledgedKeeps DEF OutboxInv, CopyInv
<1>2. Apart'
  BY <1>1, OutboxAssumption DEF CoreType, InHand, AtLoop, Apart, workerVars, rowVars, Take, Fault, SendUnacknowledged
<1>3. ASSUME NEW m \in Messages
      PROVE  Paced(m)'
  <2>1. row'[m] = "none" => copies'[m] = 0 /\ \A w \in Workers : ~Holds(w, m)'
    BY <1>1, OutboxAssumption DEF CoreType, InHand, AtLoop, Paced, Holds, workerVars, rowVars, Take, Fault, SendUnacknowledged
  <2>2. CASE m # x
    <3>1. Falls(m)
      BY <1>1, <2>2, OutboxAssumption, SMTT(30) DEF Falls, CoreType, InHand, AtLoop, Apart, Paced, Holds, Senders, MaySend, Base, Once, Waiting, Settles, workerVars, rowVars, Take, Fault, SendUnacknowledged
    <3> QED BY <1>1, <2>1, <3>1, Pacing
  <2>3. CASE m = x
    <3>1. Falls(m)
      BY <1>1, <2>3, OutboxAssumption, SMTT(30) DEF Falls, CoreType, InHand, AtLoop, Apart, Paced, Holds, Senders, MaySend, Base, Once, Waiting, Settles, workerVars, rowVars, Take, Fault, SendUnacknowledged
    <3> QED BY <1>1, <2>1, <3>1, Pacing
  <2> QED BY <2>2, <2>3
<1> QED BY <1>2, <1>3 DEF CopyInv

\* A sent row waits for nobody.
LEMMA MarkOutboxSentPaces ==
    ASSUME OutboxInv, CopyInv, NEW u \in Workers, MarkOutboxSent(u)
    PROVE  CopyInv'
<1>1. CoreType /\ CoreType' /\ InHand /\ Apart /\ \A m \in Messages : Paced(m)
  BY MarkOutboxSentKeeps DEF OutboxInv, CopyInv
<1>2. Apart'
  BY <1>1, OutboxAssumption DEF CoreType, InHand, AtLoop, Apart, workerVars, rowVars, MarkOutboxSent
<1>3. ASSUME NEW m \in Messages
      PROVE  Paced(m)'
  <2>1. row'[m] = "none" => copies'[m] = 0 /\ \A w \in Workers : ~Holds(w, m)'
    BY <1>1, OutboxAssumption DEF CoreType, InHand, AtLoop, Paced, Holds, workerVars, rowVars, MarkOutboxSent
  <2>2. CASE m # current[u]
    <3>1. Falls(m)
      BY <1>1, <2>2, OutboxAssumption, SMTT(30) DEF Falls, CoreType, InHand, AtLoop, Apart, Paced, Holds, Senders, MaySend, Base, Once, Waiting, Settles, workerVars, rowVars, MarkOutboxSent
    <3> QED BY <1>1, <2>1, <3>1, Pacing
  <2>3. CASE m = current[u]
    <3>1. Falls(m)
      BY <1>1, <2>3, OutboxAssumption, SMTT(30) DEF Falls, CoreType, InHand, AtLoop, Apart, Paced, Holds, Senders, MaySend, Base, Once, Waiting, Settles, workerVars, rowVars, MarkOutboxSent
    <3> QED BY <1>1, <2>1, <3>1, Pacing
  <2> QED BY <2>2, <2>3
<1> QED BY <1>2, <1>3 DEF CopyInv

\* The worker lets a row go that it has settled.
LEMMA MarkMessageSentPaces ==
    ASSUME OutboxInv, CopyInv, NEW u \in Workers, MarkMessageSent(u)
    PROVE  CopyInv'
<1>1. CoreType /\ CoreType' /\ InHand /\ Apart /\ \A m \in Messages : Paced(m)
  BY MarkMessageSentKeeps DEF OutboxInv, CopyInv
<1>2. Apart'
  BY <1>1, OutboxAssumption DEF CoreType, InHand, AtLoop, Apart, workerVars, rowVars, Done, MarkMessageSent
<1>3. ASSUME NEW m \in Messages
      PROVE  Paced(m)'
  <2>1. row'[m] = "none" => copies'[m] = 0 /\ \A w \in Workers : ~Holds(w, m)'
    BY <1>1, OutboxAssumption DEF CoreType, InHand, AtLoop, Paced, Holds, workerVars, rowVars, Done, MarkMessageSent
  <2>2. CASE m # current[u]
    <3>1. Falls(m)
      BY <1>1, <2>2, OutboxAssumption, SMTT(30) DEF Falls, CoreType, InHand, AtLoop, Apart, Paced, Holds, Senders, MaySend, Base, Once, Waiting, Settles, workerVars, rowVars, Done, MarkMessageSent
    <3> QED BY <1>1, <2>1, <3>1, Pacing
  <2>3. CASE m = current[u]
    <3>1. Falls(m)
      BY <1>1, <2>3, OutboxAssumption, SMTT(30) DEF Falls, CoreType, InHand, AtLoop, Apart, Paced, Holds, Senders, MaySend, Base, Once, Waiting, Settles, workerVars, rowVars, Done, MarkMessageSent
    <3> QED BY <1>1, <2>1, <3>1, Pacing
  <2> QED BY <2>2, <2>3
<1> QED BY <1>2, <1>3 DEF CopyInv

\* The verdict is read before it is written.
LEMMA ReadAttemptsPaces ==
    ASSUME OutboxInv, CopyInv, NEW u \in Workers, ReadAttempts(u)
    PROVE  CopyInv'
<1>1. CoreType /\ CoreType' /\ InHand /\ Apart /\ \A m \in Messages : Paced(m)
  BY ReadAttemptsKeeps DEF OutboxInv, CopyInv
<1>2. Apart'
  BY <1>1, OutboxAssumption DEF CoreType, InHand, AtLoop, Apart, workerVars, rowVars, Exhausted, ReadAttempts
<1>3. ASSUME NEW m \in Messages
      PROVE  Paced(m)'
  <2>1. row'[m] = "none" => copies'[m] = 0 /\ \A w \in Workers : ~Holds(w, m)'
    BY <1>1, OutboxAssumption DEF CoreType, InHand, AtLoop, Paced, Holds, workerVars, rowVars, Exhausted, ReadAttempts
  <2>2. CASE m # current[u]
    <3>1. Falls(m)
      BY <1>1, <2>2, OutboxAssumption, SMTT(30) DEF Falls, CoreType, InHand, AtLoop, Apart, Paced, Holds, Senders, MaySend, Base, Once, Waiting, Settles, workerVars, rowVars, Exhausted, ReadAttempts
    <3> QED BY <1>1, <2>1, <3>1, Pacing
  <2>3. CASE m = current[u]
    <3>1. Falls(m)
      BY <1>1, <2>3, OutboxAssumption, SMTT(30) DEF Falls, CoreType, InHand, AtLoop, Apart, Paced, Holds, Senders, MaySend, Base, Once, Waiting, Settles, workerVars, rowVars, Exhausted, ReadAttempts
    <3> QED BY <1>1, <2>1, <3>1, Pacing
  <2> QED BY <2>2, <2>3
<1> QED BY <1>2, <1>3 DEF CopyInv

\* The sender turns into a waiting row.
LEMMA WriteRetryPaces ==
    ASSUME OutboxInv, CopyInv, NEW u \in Workers, WriteRetry(u)
    PROVE  CopyInv'
<1>1. CoreType /\ CoreType' /\ InHand /\ Apart /\ \A m \in Messages : Paced(m)
  BY WriteRetryKeeps DEF OutboxInv, CopyInv
<1>2. Apart'
  BY <1>1, OutboxAssumption DEF CoreType, InHand, AtLoop, Apart, workerVars, rowVars, Done, WriteRetry
<1>3. ASSUME NEW m \in Messages
      PROVE  Paced(m)'
  <2>1. row'[m] = "none" => copies'[m] = 0 /\ \A w \in Workers : ~Holds(w, m)'
    BY <1>1, OutboxAssumption DEF CoreType, InHand, AtLoop, Paced, Holds, workerVars, rowVars, Done, WriteRetry
  <2>2. CASE m # current[u]
    <3>1. Falls(m)
      BY <1>1, <2>2, OutboxAssumption, SMTT(30) DEF Falls, CoreType, InHand, AtLoop, Apart, Paced, Holds, Senders, MaySend, Base, Once, Waiting, Settles, workerVars, rowVars, Done, WriteRetry
    <3> QED BY <1>1, <2>1, <3>1, Pacing
  <2>3. CASE m = current[u]
    <3>1. Yields(m)
      BY <1>1, <2>3, OutboxAssumption, SMTT(30) DEF Yields, CoreType, InHand, AtLoop, Apart, Paced, Holds, Senders, MaySend, Base, Once, Waiting, Settles, workerVars, rowVars, Done, WriteRetry
    <3> QED BY <1>1, <2>1, <3>1, Pacing
  <2> QED BY <2>2, <2>3
<1> QED BY <1>2, <1>3 DEF CopyInv

\* A row given up waits for nobody.
LEMMA WriteFailedPaces ==
    ASSUME OutboxInv, CopyInv, NEW u \in Workers, WriteFailed(u)
    PROVE  CopyInv'
<1>1. CoreType /\ CoreType' /\ InHand /\ Apart /\ \A m \in Messages : Paced(m)
  BY WriteFailedKeeps DEF OutboxInv, CopyInv
<1>2. Apart'
  BY <1>1, OutboxAssumption DEF CoreType, InHand, AtLoop, Apart, workerVars, rowVars, Done, WriteFailed
<1>3. ASSUME NEW m \in Messages
      PROVE  Paced(m)'
  <2>1. row'[m] = "none" => copies'[m] = 0 /\ \A w \in Workers : ~Holds(w, m)'
    BY <1>1, OutboxAssumption DEF CoreType, InHand, AtLoop, Paced, Holds, workerVars, rowVars, Done, WriteFailed
  <2>2. CASE m # current[u]
    <3>1. Falls(m)
      BY <1>1, <2>2, OutboxAssumption, SMTT(30) DEF Falls, CoreType, InHand, AtLoop, Apart, Paced, Holds, Senders, MaySend, Base, Once, Waiting, Settles, workerVars, rowVars, Done, WriteFailed
    <3> QED BY <1>1, <2>1, <3>1, Pacing
  <2>3. CASE m = current[u]
    <3>1. Falls(m)
      BY <1>1, <2>3, OutboxAssumption, SMTT(30) DEF Falls, CoreType, InHand, AtLoop, Apart, Paced, Holds, Senders, MaySend, Base, Once, Waiting, Settles, workerVars, rowVars, Done, WriteFailed
    <3> QED BY <1>1, <2>1, <3>1, Pacing
  <2> QED BY <2>2, <2>3
<1> QED BY <1>2, <1>3 DEF CopyInv

\* The worker lets a row go that it has settled.
LEMMA MarkMessageFailedPaces ==
    ASSUME OutboxInv, CopyInv, NEW u \in Workers, MarkMessageFailed(u)
    PROVE  CopyInv'
<1>1. CoreType /\ CoreType' /\ InHand /\ Apart /\ \A m \in Messages : Paced(m)
  BY MarkMessageFailedKeeps DEF OutboxInv, CopyInv
<1>2. Apart'
  BY <1>1, OutboxAssumption DEF CoreType, InHand, AtLoop, Apart, workerVars, rowVars, Done, MarkMessageFailed
<1>3. ASSUME NEW m \in Messages
      PROVE  Paced(m)'
  <2>1. row'[m] = "none" => copies'[m] = 0 /\ \A w \in Workers : ~Holds(w, m)'
    BY <1>1, OutboxAssumption DEF CoreType, InHand, AtLoop, Paced, Holds, workerVars, rowVars, Done, MarkMessageFailed
  <2>2. CASE m # current[u]
    <3>1. Falls(m)
      BY <1>1, <2>2, OutboxAssumption, SMTT(30) DEF Falls, CoreType, InHand, AtLoop, Apart, Paced, Holds, Senders, MaySend, Base, Once, Waiting, Settles, workerVars, rowVars, Done, MarkMessageFailed
    <3> QED BY <1>1, <2>1, <3>1, Pacing
  <2>3. CASE m = current[u]
    <3>1. Falls(m)
      BY <1>1, <2>3, OutboxAssumption, SMTT(30) DEF Falls, CoreType, InHand, AtLoop, Apart, Paced, Holds, Senders, MaySend, Base, Once, Waiting, Settles, workerVars, rowVars, Done, MarkMessageFailed
    <3> QED BY <1>1, <2>1, <3>1, Pacing
  <2> QED BY <2>2, <2>3
<1> QED BY <1>2, <1>3 DEF CopyInv

\* An error before the send leaves the sender one.
LEMMA ThrowEarlyPaces ==
    ASSUME OutboxInv, CopyInv, NEW u \in Workers, NEW x \in Messages, ThrowEarly(u, x)
    PROVE  CopyInv'
<1>1. CoreType /\ CoreType' /\ InHand /\ Apart /\ \A m \in Messages : Paced(m)
  BY ThrowEarlyKeeps DEF OutboxInv, CopyInv
<1>2. Apart'
  BY <1>1, OutboxAssumption DEF CoreType, InHand, AtLoop, Apart, workerVars, rowVars, Take, Fault, ThrowEarly
<1>3. ASSUME NEW m \in Messages
      PROVE  Paced(m)'
  <2>1. row'[m] = "none" => copies'[m] = 0 /\ \A w \in Workers : ~Holds(w, m)'
    BY <1>1, OutboxAssumption DEF CoreType, InHand, AtLoop, Paced, Holds, workerVars, rowVars, Take, Fault, ThrowEarly
  <2>2. CASE m # x
    <3>1. Falls(m)
      BY <1>1, <2>2, OutboxAssumption, SMTT(30) DEF Falls, CoreType, InHand, AtLoop, Apart, Paced, Holds, Senders, MaySend, Base, Once, Waiting, Settles, workerVars, rowVars, Take, Fault, ThrowEarly
    <3> QED BY <1>1, <2>1, <3>1, Pacing
  <2>3. CASE m = x
    <3>1. Falls(m)
      BY <1>1, <2>3, OutboxAssumption, SMTT(30) DEF Falls, CoreType, InHand, AtLoop, Apart, Paced, Holds, Senders, MaySend, Base, Once, Waiting, Settles, workerVars, rowVars, Take, Fault, ThrowEarly
    <3> QED BY <1>1, <2>1, <3>1, Pacing
  <2> QED BY <2>2, <2>3
<1> QED BY <1>2, <1>3 DEF CopyInv

\* A late error is a fault, and may make a sender of a worker that was none.
LEMMA ThrowPaces ==
    ASSUME OutboxInv, CopyInv, NEW u \in Workers, Throw(u)
    PROVE  CopyInv'
<1>1. CoreType /\ CoreType' /\ InHand /\ Apart /\ \A m \in Messages : Paced(m)
  BY ThrowKeeps DEF OutboxInv, CopyInv
<1>2. Apart'
  BY <1>1, OutboxAssumption DEF CoreType, InHand, AtLoop, Apart, workerVars, rowVars, Fault, Throw
<1>3. ASSUME NEW m \in Messages
      PROVE  Paced(m)'
  <2>1. row'[m] = "none" => copies'[m] = 0 /\ \A w \in Workers : ~Holds(w, m)'
    BY <1>1, OutboxAssumption DEF CoreType, InHand, AtLoop, Paced, Holds, workerVars, rowVars, Fault, Throw
  <2>2. CASE m # current[u]
    <3>1. Falls(m)
      BY <1>1, <2>2, OutboxAssumption, SMTT(30) DEF Falls, CoreType, InHand, AtLoop, Apart, Paced, Holds, Senders, MaySend, Base, Once, Waiting, Settles, workerVars, rowVars, Fault, Throw
    <3> QED BY <1>1, <2>1, <3>1, Pacing
  <2>3. CASE m = current[u]
    <3>1. Grows(m)
      BY <1>1, <2>3, OutboxAssumption, SMTT(30) DEF Grows, CoreType, InHand, AtLoop, Apart, Paced, Holds, Senders, MaySend, Base, Once, Waiting, Settles, workerVars, rowVars, Fault, Throw
    <3> QED BY <1>1, <2>1, <3>1, Pacing
  <2> QED BY <2>2, <2>3
<1> QED BY <1>2, <1>3 DEF CopyInv

\* A swallowed error is a fault, and leaves a claim that waits to be taken back.
LEMMA SwallowPaces ==
    ASSUME OutboxInv, CopyInv, NEW u \in Workers, Swallow(u)
    PROVE  CopyInv'
<1>1. CoreType /\ CoreType' /\ InHand /\ Apart /\ \A m \in Messages : Paced(m)
  BY SwallowKeeps DEF OutboxInv, CopyInv
<1>2. Apart'
  BY <1>1, OutboxAssumption DEF CoreType, InHand, AtLoop, Apart, workerVars, rowVars, Done, Fault, Swallow
<1>3. ASSUME NEW m \in Messages
      PROVE  Paced(m)'
  <2>1. row'[m] = "none" => copies'[m] = 0 /\ \A w \in Workers : ~Holds(w, m)'
    BY <1>1, OutboxAssumption DEF CoreType, InHand, AtLoop, Paced, Holds, workerVars, rowVars, Done, Fault, Swallow
  <2>2. CASE m # current[u]
    <3>1. Falls(m)
      BY <1>1, <2>2, OutboxAssumption, SMTT(30) DEF Falls, CoreType, InHand, AtLoop, Apart, Paced, Holds, Senders, MaySend, Base, Once, Waiting, Settles, workerVars, rowVars, Done, Fault, Swallow
    <3> QED BY <1>1, <2>1, <3>1, Pacing
  <2>3. CASE m = current[u]
    <3>1. Falls(m)
      BY <1>1, <2>3, OutboxAssumption, SMTT(30) DEF Falls, CoreType, InHand, AtLoop, Apart, Paced, Holds, Senders, MaySend, Base, Once, Waiting, Settles, workerVars, rowVars, Done, Fault, Swallow
    <3> QED BY <1>1, <2>1, <3>1, Pacing
  <2> QED BY <2>2, <2>3
<1> QED BY <1>2, <1>3 DEF CopyInv

\* A crash is a fault of every message the worker held, and leaves their claims waiting.
LEMMA CrashPaces ==
    ASSUME OutboxInv, CopyInv, NEW u \in Workers, Crash(u)
    PROVE  CopyInv'
<1>1. CoreType /\ CoreType' /\ InHand /\ Apart /\ \A m \in Messages : Paced(m)
  BY CrashKeeps DEF OutboxInv, CopyInv
<1>2. Apart'
  BY <1>1, OutboxAssumption DEF CoreType, InHand, AtLoop, Apart, workerVars, rowVars, Done, Crash
<1>3. ASSUME NEW m \in Messages
      PROVE  Paced(m)'
  <2>1. row'[m] = "none" => copies'[m] = 0 /\ \A w \in Workers : ~Holds(w, m)'
    BY <1>1, OutboxAssumption DEF CoreType, InHand, AtLoop, Paced, Holds, workerVars, rowVars, Done, Crash
  <2>2. Falls(m)
    BY <1>1, OutboxAssumption, SMTT(30) DEF Falls, CoreType, InHand, AtLoop, Apart, Paced, Holds, Senders, MaySend, Base, Once, Waiting, Settles, workerVars, rowVars, Done, Crash
  <2> QED BY <1>1, <2>1, <2>2, Pacing
<1> QED BY <1>2, <1>3 DEF CopyInv

\* Age changes no status.
LEMMA DeadClaimAgesPaces ==
    ASSUME OutboxInv, CopyInv, NEW x \in Messages, DeadClaimAges(x)
    PROVE  CopyInv'
<1>1. CoreType /\ CoreType' /\ InHand /\ Apart /\ \A m \in Messages : Paced(m)
  BY DeadClaimAgesKeeps DEF OutboxInv, CopyInv
<1>2. Apart'
  BY <1>1, OutboxAssumption DEF CoreType, InHand, AtLoop, Apart, workerVars, rowVars, DeadClaimAges
<1>3. ASSUME NEW m \in Messages
      PROVE  Paced(m)'
  <2>1. row'[m] = "none" => copies'[m] = 0 /\ \A w \in Workers : ~Holds(w, m)'
    BY <1>1, OutboxAssumption DEF CoreType, InHand, AtLoop, Paced, Holds, workerVars, rowVars, DeadClaimAges
  <2>2. CASE m # x
    <3>1. Falls(m)
      BY <1>1, <2>2, OutboxAssumption, SMTT(30) DEF Falls, CoreType, InHand, AtLoop, Apart, Paced, Holds, Senders, MaySend, Base, Once, Waiting, Settles, workerVars, rowVars, DeadClaimAges
    <3> QED BY <1>1, <2>1, <3>1, Pacing
  <2>3. CASE m = x
    <3>1. Falls(m)
      BY <1>1, <2>3, OutboxAssumption, SMTT(30) DEF Falls, CoreType, InHand, AtLoop, Apart, Paced, Holds, Senders, MaySend, Base, Once, Waiting, Settles, workerVars, rowVars, DeadClaimAges
    <3> QED BY <1>1, <2>1, <3>1, Pacing
  <2> QED BY <2>2, <2>3
<1> QED BY <1>2, <1>3 DEF CopyInv

\* Age changes no status.
LEMMA LiveClaimAgesPaces ==
    ASSUME OutboxInv, CopyInv, NEW x \in Messages, LiveClaimAges(x)
    PROVE  CopyInv'
<1>1. CoreType /\ CoreType' /\ InHand /\ Apart /\ \A m \in Messages : Paced(m)
  BY LiveClaimAgesKeeps DEF OutboxInv, CopyInv
<1>2. Apart'
  BY <1>1, OutboxAssumption DEF CoreType, InHand, AtLoop, Apart, workerVars, rowVars, LiveClaimAges
<1>3. ASSUME NEW m \in Messages
      PROVE  Paced(m)'
  <2>1. row'[m] = "none" => copies'[m] = 0 /\ \A w \in Workers : ~Holds(w, m)'
    BY <1>1, OutboxAssumption DEF CoreType, InHand, AtLoop, Paced, Holds, workerVars, rowVars, LiveClaimAges
  <2>2. CASE m # x
    <3>1. Falls(m)
      BY <1>1, <2>2, OutboxAssumption, SMTT(30) DEF Falls, CoreType, InHand, AtLoop, Apart, Paced, Holds, Senders, MaySend, Base, Once, Waiting, Settles, workerVars, rowVars, LiveClaimAges
    <3> QED BY <1>1, <2>1, <3>1, Pacing
  <2>3. CASE m = x
    <3>1. Falls(m)
      BY <1>1, <2>3, OutboxAssumption, SMTT(30) DEF Falls, CoreType, InHand, AtLoop, Apart, Paced, Holds, Senders, MaySend, Base, Once, Waiting, Settles, workerVars, rowVars, LiveClaimAges
    <3> QED BY <1>1, <2>1, <3>1, Pacing
  <2> QED BY <2>2, <2>3
<1> QED BY <1>2, <1>3 DEF CopyInv

\* What the workers do not read may change.
LEMMA CopyKept ==
    ASSUME CopyInv, UNCHANGED core
    PROVE  CopyInv'
  BY DEF CopyInv, Apart, Paced, Senders, MaySend, Base, Once, Waiting, Settles, Holds, core

\* Every step of the messaging system keeps it.
LEMMA CopyStep ==
    ASSUME OutboxInv, CopyInv, Next
    PROVE  CopyInv'
<1>1. CASE \E w \in Workers : WorkerStep(w)
  BY <1>1, TickPaces, FindDuePaces, EndClaimsPaces, EndTickPaces, ClaimPaces, LoseClaimPaces,
     SendAcceptedPaces, SendRefusedPaces, MarkOutboxSentPaces, MarkMessageSentPaces,
     ReadAttemptsPaces, WriteRetryPaces, WriteFailedPaces, MarkMessageFailedPaces DEF WorkerStep
<1>2. CASE \E m \in Messages : DeadClaimAges(m)
  BY <1>2, DeadClaimAgesPaces
<1>3. CASE FaultStep
  BY <1>3, ThrowPaces, SwallowPaces, CrashPaces, ThrowEarlyPaces, SendUnacknowledgedPaces,
     LiveClaimAgesPaces DEF FaultStep
<1>4. CASE \E m \in Messages : Cancel(m)
  BY <1>4, CancelPaces
<1>5. ASSUME NEW m, Enqueue(m)
      PROVE  CopyInv'
  <2>1. CASE m \in Messages
    BY <1>5, <2>1, EnqueuePaces
  <2>2. CASE m \notin Messages
    <3>1. row' = row
      BY <1>5, <2>2 DEF OutboxInv, CoreType, Enqueue
    <3> QED BY <1>5, <3>1, CopyKept DEF Enqueue, core, workerVars
  <2> QED BY <2>1, <2>2
<1>6. CASE UNCHANGED core
  BY <1>6, CopyKept
<1> QED BY <1>1, <1>2, <1>3, <1>4, <1>5, <1>6, StepCases DEF OutboxRuns

\* The pace of every message holds of every behaviour of the messaging system.
LEMMA CopyInvariant == Spec => []CopyInv
<1>1. Init => CopyInv
  <2> SUFFICES ASSUME Init PROVE CopyInv
    OBVIOUS
  <2>1. /\ \A m \in Messages : row[m] = "none" /\ copies[m] = 0 /\ faults[m] = 0
        /\ \A w \in Workers : batch[w] = {} /\ current[w] = NoMessage
    BY DEF Init, OutboxInit
  <2>2. ASSUME NEW m \in Messages
        PROVE  Paced(m)
    <3>1. Senders(m) = {} /\ Base(m) = 0
      BY <2>1, OutboxAssumption DEF Senders, MaySend, Base, Once, Waiting
    <3>2. IsFiniteSet({}) /\ Cardinality({}) = 0
      BY FS_EmptySet
    <3>3. \A w \in Workers : ~Holds(w, m)
      BY <2>1, OutboxAssumption DEF Holds
    <3> QED BY <2>1, <3>1, <3>2, <3>3 DEF Paced
  <2> QED BY <2>1, <2>2 DEF CopyInv, Apart
<1>2. OutboxInv /\ CopyInv /\ [Next]_vars => CopyInv'
  BY CopyStep, CopyKept DEF vars, outboxVars, rowVars, workerVars, core
<1> QED BY <1>1, <1>2, OutboxInvariant, PTL DEF Spec

\* Each fault costs the customer at most one more copy: the retry loop, the claims taken
\* back and the restarts, in any number and order, multiply nothing.
THEOREM OneCopyForEachFault == Spec => []OneCopyPerFault
<1>1. OutboxInv /\ CopyInv => OneCopyPerFault
  <2> SUFFICES ASSUME OutboxInv, CopyInv, NEW m \in Messages
               PROVE  copies[m] <= 1 + faults[m]
    BY DEF OneCopyPerFault
  <2>1. copies[m] \in Nat /\ faults[m] \in Nat /\ Once(Waiting(m)) \in Nat
    BY DEF OutboxInv, CoreType, Once
  <2>2. IsFiniteSet(Senders(m)) /\ Base(m) + Cardinality(Senders(m)) <= 1 + faults[m]
    BY DEF CopyInv, Paced
  <2>3. Cardinality(Senders(m)) \in Nat
    BY <2>2, FS_CardinalityType
  <2> QED BY <2>1, <2>2, <2>3 DEF Base
<1> QED BY <1>1, OutboxInvariant, CopyInvariant, PTL

------------------------------------------------------------------------------
(* The ledger of sent messages *)

\* Once the ledger names a send of a message without fault, nobody has the row in hand;
\* and a row marked Sent has left the Pending state of the ledger, or is about to.
Settled(m) ==
    faults[m] = 0 =>
        /\ wamid[m] # 0 => row[m] = "Sent" /\ \A w \in Workers : ~Holds(w, m)
        /\ row[m] = "Sent" => \/ entry[m] # "Pending"
                              \/ \E w \in Workers : current[w] = m /\ pc[w] = "marked"

AllSettled == \A m \in Messages : Settled(m)

\* What the workers leave of a message: its row, and, once the ledger names its send and
\* unless a fault hits it, its entry in the ledger.
LedgerStays(m) ==
    /\ row[m] # "none" => row'[m] # "none"
    /\ faults'[m] = 0 =>
          faults[m] = 0 /\ (wamid[m] # 0 => wamid'[m] = wamid[m] /\ entry'[m] = entry[m])

LedgerMoves == AllSettled' /\ \A m \in Messages : LedgerStays(m)

\* A fault spends the budget, and nothing gives it back.
BudgetMoves == budget' \in {budget, budget - 1}

\* A new row is not sent yet.
LEMMA EnqueueSettles ==
    ASSUME OutboxInv, HandlerInv, AllSettled, NEW x \in Messages, Enqueue(x)
    PROVE  LedgerMoves /\ BudgetMoves
<1>1. /\ CoreType /\ InHand /\ AllSettled
      /\ entry \in [Messages -> EntryStatus] /\ wamid \in [Messages -> Nat]
      /\ \A m \in Messages : faults[m] = 0 => Orderly(m)
  BY DEF OutboxInv, HandlerInv, HookType
<1>2. ASSUME NEW m \in Messages
      PROVE  LedgerStays(m)
  BY <1>1, OutboxAssumption, SMTT(30) DEF CoreType, InHand, AtLoop, Orderly, Phase, AllSettled, Settled,
     LedgerStays, Holds, workerVars, rowVars, ledgerVars, Enqueue
<1>3. ASSUME NEW m \in Messages
      PROVE  Settled(m)'
  BY <1>1, <1>2, OutboxAssumption, SMTT(30) DEF CoreType, InHand, AtLoop, Orderly, Phase, AllSettled, Settled,
     LedgerStays, Holds, workerVars, rowVars, ledgerVars, Enqueue
<1>4. BudgetMoves
  BY DEF BudgetMoves, workerVars, rowVars, ledgerVars, Enqueue
<1> QED BY <1>2, <1>3, <1>4 DEF LedgerMoves, AllSettled

\* A cancelled row was not sent.
LEMMA CancelSettles ==
    ASSUME OutboxInv, HandlerInv, AllSettled, NEW x \in Messages, Cancel(x)
    PROVE  LedgerMoves /\ BudgetMoves
<1>1. /\ CoreType /\ InHand /\ AllSettled
      /\ entry \in [Messages -> EntryStatus] /\ wamid \in [Messages -> Nat]
      /\ \A m \in Messages : faults[m] = 0 => Orderly(m)
  BY DEF OutboxInv, HandlerInv, HookType
<1>2. ASSUME NEW m \in Messages
      PROVE  LedgerStays(m)
  BY <1>1, OutboxAssumption, SMTT(30) DEF CoreType, InHand, AtLoop, Orderly, Phase, AllSettled, Settled,
     LedgerStays, Holds, workerVars, rowVars, ledgerVars, Cancel
<1>3. ASSUME NEW m \in Messages
      PROVE  Settled(m)'
  BY <1>1, <1>2, OutboxAssumption, SMTT(30) DEF CoreType, InHand, AtLoop, Orderly, Phase, AllSettled, Settled,
     LedgerStays, Holds, workerVars, rowVars, ledgerVars, Cancel
<1>4. BudgetMoves
  BY DEF BudgetMoves, workerVars, rowVars, ledgerVars, Cancel
<1> QED BY <1>2, <1>3, <1>4 DEF LedgerMoves, AllSettled

\* A row that was sent has no claim to take back.
LEMMA TickSettles ==
    ASSUME OutboxInv, HandlerInv, AllSettled, NEW u \in Workers, Tick(u)
    PROVE  LedgerMoves /\ BudgetMoves
<1>1. /\ CoreType /\ InHand /\ AllSettled
      /\ entry \in [Messages -> EntryStatus] /\ wamid \in [Messages -> Nat]
      /\ \A m \in Messages : faults[m] = 0 => Orderly(m)
  BY DEF OutboxInv, HandlerInv, HookType
<1>2. ASSUME NEW m \in Messages
      PROVE  LedgerStays(m)
  BY <1>1, OutboxAssumption, SMTT(30) DEF CoreType, InHand, AtLoop, Orderly, Phase, AllSettled, Settled,
     LedgerStays, Holds, workerVars, rowVars, ledgerVars, Stale, Held, Tick
<1>3. ASSUME NEW m \in Messages
      PROVE  Settled(m)'
  BY <1>1, <1>2, OutboxAssumption, SMTT(30) DEF CoreType, InHand, AtLoop, Orderly, Phase, AllSettled, Settled,
     LedgerStays, Holds, workerVars, rowVars, ledgerVars, Stale, Held, Tick
<1>4. BudgetMoves
  BY DEF BudgetMoves, workerVars, rowVars, ledgerVars, Stale, Held, Tick
<1> QED BY <1>2, <1>3, <1>4 DEF LedgerMoves, AllSettled

\* Listing changes no row.
LEMMA FindDueSettles ==
    ASSUME OutboxInv, HandlerInv, AllSettled, NEW u \in Workers, FindDue(u)
    PROVE  LedgerMoves /\ BudgetMoves
<1>1. /\ CoreType /\ InHand /\ AllSettled
      /\ entry \in [Messages -> EntryStatus] /\ wamid \in [Messages -> Nat]
      /\ \A m \in Messages : faults[m] = 0 => Orderly(m)
  BY DEF OutboxInv, HandlerInv, HookType
<1>2. ASSUME NEW m \in Messages
      PROVE  LedgerStays(m)
  BY <1>1, OutboxAssumption, SMTT(30) DEF CoreType, InHand, AtLoop, Orderly, Phase, AllSettled, Settled,
     LedgerStays, Holds, workerVars, rowVars, ledgerVars, FindDue
<1>3. ASSUME NEW m \in Messages
      PROVE  Settled(m)'
  BY <1>1, <1>2, OutboxAssumption, SMTT(30) DEF CoreType, InHand, AtLoop, Orderly, Phase, AllSettled, Settled,
     LedgerStays, Holds, workerVars, rowVars, ledgerVars, FindDue
<1>4. BudgetMoves
  BY DEF BudgetMoves, workerVars, rowVars, ledgerVars, FindDue
<1> QED BY <1>2, <1>3, <1>4 DEF LedgerMoves, AllSettled

\* A claimed row was not sent.
LEMMA ClaimSettles ==
    ASSUME OutboxInv, HandlerInv, AllSettled, NEW u \in Workers, NEW x \in Messages, Claim(u, x)
    PROVE  LedgerMoves /\ BudgetMoves
<1>1. /\ CoreType /\ InHand /\ AllSettled
      /\ entry \in [Messages -> EntryStatus] /\ wamid \in [Messages -> Nat]
      /\ \A m \in Messages : faults[m] = 0 => Orderly(m)
  BY DEF OutboxInv, HandlerInv, HookType
<1>2. ASSUME NEW m \in Messages
      PROVE  LedgerStays(m)
  BY <1>1, OutboxAssumption, SMTT(30) DEF CoreType, InHand, AtLoop, Orderly, Phase, AllSettled, Settled,
     LedgerStays, Holds, workerVars, rowVars, ledgerVars, Claimable, Claim
<1>3. ASSUME NEW m \in Messages
      PROVE  Settled(m)'
  BY <1>1, <1>2, OutboxAssumption, SMTT(30) DEF CoreType, InHand, AtLoop, Orderly, Phase, AllSettled, Settled,
     LedgerStays, Holds, workerVars, rowVars, ledgerVars, Claimable, Claim
<1>4. BudgetMoves
  BY DEF BudgetMoves, workerVars, rowVars, ledgerVars, Claimable, Claim
<1> QED BY <1>2, <1>3, <1>4 DEF LedgerMoves, AllSettled

\* A lost claim changes no row.
LEMMA LoseClaimSettles ==
    ASSUME OutboxInv, HandlerInv, AllSettled, NEW u \in Workers, NEW x \in Messages, LoseClaim(u, x)
    PROVE  LedgerMoves /\ BudgetMoves
<1>1. /\ CoreType /\ InHand /\ AllSettled
      /\ entry \in [Messages -> EntryStatus] /\ wamid \in [Messages -> Nat]
      /\ \A m \in Messages : faults[m] = 0 => Orderly(m)
  BY DEF OutboxInv, HandlerInv, HookType
<1>2. ASSUME NEW m \in Messages
      PROVE  LedgerStays(m)
  BY <1>1, OutboxAssumption, SMTT(30) DEF CoreType, InHand, AtLoop, Orderly, Phase, AllSettled, Settled,
     LedgerStays, Holds, workerVars, rowVars, ledgerVars, LoseClaim
<1>3. ASSUME NEW m \in Messages
      PROVE  Settled(m)'
  BY <1>1, <1>2, OutboxAssumption, SMTT(30) DEF CoreType, InHand, AtLoop, Orderly, Phase, AllSettled, Settled,
     LedgerStays, Holds, workerVars, rowVars, ledgerVars, LoseClaim
<1>4. BudgetMoves
  BY DEF BudgetMoves, workerVars, rowVars, ledgerVars, LoseClaim
<1> QED BY <1>2, <1>3, <1>4 DEF LedgerMoves, AllSettled

\* The end of the claims changes no row.
LEMMA EndClaimsSettles ==
    ASSUME OutboxInv, HandlerInv, AllSettled, NEW u \in Workers, EndClaims(u)
    PROVE  LedgerMoves /\ BudgetMoves
<1>1. /\ CoreType /\ InHand /\ AllSettled
      /\ entry \in [Messages -> EntryStatus] /\ wamid \in [Messages -> Nat]
      /\ \A m \in Messages : faults[m] = 0 => Orderly(m)
  BY DEF OutboxInv, HandlerInv, HookType
<1>2. ASSUME NEW m \in Messages
      PROVE  LedgerStays(m)
  BY <1>1, OutboxAssumption, SMTT(30) DEF CoreType, InHand, AtLoop, Orderly, Phase, AllSettled, Settled,
     LedgerStays, Holds, workerVars, rowVars, ledgerVars, EndClaims
<1>3. ASSUME NEW m \in Messages
      PROVE  Settled(m)'
  BY <1>1, <1>2, OutboxAssumption, SMTT(30) DEF CoreType, InHand, AtLoop, Orderly, Phase, AllSettled, Settled,
     LedgerStays, Holds, workerVars, rowVars, ledgerVars, EndClaims
<1>4. BudgetMoves
  BY DEF BudgetMoves, workerVars, rowVars, ledgerVars, EndClaims
<1> QED BY <1>2, <1>3, <1>4 DEF LedgerMoves, AllSettled

\* The end of a tick changes no row.
LEMMA EndTickSettles ==
    ASSUME OutboxInv, HandlerInv, AllSettled, NEW u \in Workers, EndTick(u)
    PROVE  LedgerMoves /\ BudgetMoves
<1>1. /\ CoreType /\ InHand /\ AllSettled
      /\ entry \in [Messages -> EntryStatus] /\ wamid \in [Messages -> Nat]
      /\ \A m \in Messages : faults[m] = 0 => Orderly(m)
  BY DEF OutboxInv, HandlerInv, HookType
<1>2. ASSUME NEW m \in Messages
      PROVE  LedgerStays(m)
  BY <1>1, OutboxAssumption, SMTT(30) DEF CoreType, InHand, AtLoop, Orderly, Phase, AllSettled, Settled,
     LedgerStays, Holds, workerVars, rowVars, ledgerVars, EndTick
<1>3. ASSUME NEW m \in Messages
      PROVE  Settled(m)'
  BY <1>1, <1>2, OutboxAssumption, SMTT(30) DEF CoreType, InHand, AtLoop, Orderly, Phase, AllSettled, Settled,
     LedgerStays, Holds, workerVars, rowVars, ledgerVars, EndTick
<1>4. BudgetMoves
  BY DEF BudgetMoves, workerVars, rowVars, ledgerVars, EndTick
<1> QED BY <1>2, <1>3, <1>4 DEF LedgerMoves, AllSettled

\* A send that is accepted is of a row that the ledger does not name yet.
LEMMA SendAcceptedSettles ==
    ASSUME OutboxInv, HandlerInv, AllSettled, NEW u \in Workers, NEW x \in Messages, SendAccepted(u, x)
    PROVE  LedgerMoves /\ BudgetMoves
<1>1. /\ CoreType /\ InHand /\ AllSettled
      /\ entry \in [Messages -> EntryStatus] /\ wamid \in [Messages -> Nat]
      /\ \A m \in Messages : faults[m] = 0 => Orderly(m)
  BY DEF OutboxInv, HandlerInv, HookType
<1>2. ASSUME NEW m \in Messages
      PROVE  LedgerStays(m)
  BY <1>1, OutboxAssumption, SMTT(30) DEF CoreType, InHand, AtLoop, Orderly, Phase, AllSettled, Settled,
     LedgerStays, Holds, workerVars, rowVars, ledgerVars, Take, NoFault, SendAccepted
<1>3. ASSUME NEW m \in Messages
      PROVE  Settled(m)'
  BY <1>1, <1>2, OutboxAssumption, SMTT(30) DEF CoreType, InHand, AtLoop, Orderly, Phase, AllSettled, Settled,
     LedgerStays, Holds, workerVars, rowVars, ledgerVars, Take, NoFault, SendAccepted
<1>4. BudgetMoves
  BY DEF BudgetMoves, workerVars, rowVars, ledgerVars, Take, NoFault, SendAccepted
<1> QED BY <1>2, <1>3, <1>4 DEF LedgerMoves, AllSettled

\* A refused send changes no row.
LEMMA SendRefusedSettles ==
    ASSUME OutboxInv, HandlerInv, AllSettled, NEW u \in Workers, NEW x \in Messages, NEW retryable \in BOOLEAN, SendRefused(u, x, retryable)
    PROVE  LedgerMoves /\ BudgetMoves
<1>1. /\ CoreType /\ InHand /\ AllSettled
      /\ entry \in [Messages -> EntryStatus] /\ wamid \in [Messages -> Nat]
      /\ \A m \in Messages : faults[m] = 0 => Orderly(m)
  BY DEF OutboxInv, HandlerInv, HookType
<1>2. ASSUME NEW m \in Messages
      PROVE  LedgerStays(m)
  BY <1>1, OutboxAssumption, SMTT(30) DEF CoreType, InHand, AtLoop, Orderly, Phase, AllSettled, Settled,
     LedgerStays, Holds, workerVars, rowVars, ledgerVars, Take, NoFault, SendRefused
<1>3. ASSUME NEW m \in Messages
      PROVE  Settled(m)'
  BY <1>1, <1>2, OutboxAssumption, SMTT(30) DEF CoreType, InHand, AtLoop, Orderly, Phase, AllSettled, Settled,
     LedgerStays, Holds, workerVars, rowVars, ledgerVars, Take, NoFault, SendRefused
<1>4. BudgetMoves
  BY DEF BudgetMoves, workerVars, rowVars, ledgerVars, Take, NoFault, SendRefused
<1> QED BY <1>2, <1>3, <1>4 DEF LedgerMoves, AllSettled

\* A lost reply is a fault of its message.
LEMMA SendUnacknowledgedSettles ==
    ASSUME OutboxInv, HandlerInv, AllSettled, NEW u \in Workers, NEW x \in Messages, NEW retryable \in BOOLEAN, SendUnacknowledged(u, x, retryable)
    PROVE  LedgerMoves /\ BudgetMoves
<1>1. /\ CoreType /\ InHand /\ AllSettled
      /\ entry \in [Messages -> EntryStatus] /\ wamid \in [Messages -> Nat]
      /\ \A m \in Messages : faults[m] = 0 => Orderly(m)
  BY DEF OutboxInv, HandlerInv, HookType
<1>2. ASSUME NEW m \in Messages
      PROVE  LedgerStays(m)
  BY <1>1, OutboxAssumption, SMTT(30) DEF CoreType, InHand, AtLoop, Orderly, Phase, AllSettled, Settled,
     LedgerStays, Holds, workerVars, rowVars, ledgerVars, Take, Fault, SendUnacknowledged
<1>3. ASSUME NEW m \in Messages
      PROVE  Settled(m)'
  BY <1>1, <1>2, OutboxAssumption, SMTT(30) DEF CoreType, InHand, AtLoop, Orderly, Phase, AllSettled, Settled,
     LedgerStays, Holds, workerVars, rowVars, ledgerVars, Take, Fault, SendUnacknowledged
<1>4. BudgetMoves
  BY DEF BudgetMoves, workerVars, rowVars, ledgerVars, Take, Fault, SendUnacknowledged
<1> QED BY <1>2, <1>3, <1>4 DEF LedgerMoves, AllSettled

\* The worker that marks the row goes on to the ledger.
LEMMA MarkOutboxSentSettles ==
    ASSUME OutboxInv, HandlerInv, AllSettled, NEW u \in Workers, MarkOutboxSent(u)
    PROVE  LedgerMoves /\ BudgetMoves
<1>1. /\ CoreType /\ InHand /\ AllSettled
      /\ entry \in [Messages -> EntryStatus] /\ wamid \in [Messages -> Nat]
      /\ \A m \in Messages : faults[m] = 0 => Orderly(m)
  BY DEF OutboxInv, HandlerInv, HookType
<1>2. ASSUME NEW m \in Messages
      PROVE  LedgerStays(m)
  BY <1>1, OutboxAssumption, SMTT(30) DEF CoreType, InHand, AtLoop, Orderly, Phase, AllSettled, Settled,
     LedgerStays, Holds, workerVars, rowVars, ledgerVars, MarkOutboxSent
<1>3. ASSUME NEW m \in Messages
      PROVE  Settled(m)'
  BY <1>1, <1>2, OutboxAssumption, SMTT(30) DEF CoreType, InHand, AtLoop, Orderly, Phase, AllSettled, Settled,
     LedgerStays, Holds, workerVars, rowVars, ledgerVars, MarkOutboxSent
<1>4. BudgetMoves
  BY DEF BudgetMoves, workerVars, rowVars, ledgerVars, MarkOutboxSent
<1> QED BY <1>2, <1>3, <1>4 DEF LedgerMoves, AllSettled

\* The ledger learns of the send, and the worker lets the row go.
LEMMA MarkMessageSentSettles ==
    ASSUME OutboxInv, HandlerInv, AllSettled, NEW u \in Workers, MarkMessageSent(u)
    PROVE  LedgerMoves /\ BudgetMoves
<1>1. /\ CoreType /\ InHand /\ AllSettled
      /\ entry \in [Messages -> EntryStatus] /\ wamid \in [Messages -> Nat]
      /\ \A m \in Messages : faults[m] = 0 => Orderly(m)
  BY DEF OutboxInv, HandlerInv, HookType
<1>2. ASSUME NEW m \in Messages
      PROVE  LedgerStays(m)
  BY <1>1, OutboxAssumption, SMTT(30) DEF CoreType, InHand, AtLoop, Orderly, Phase, AllSettled, Settled,
     LedgerStays, Holds, workerVars, rowVars, ledgerVars, Done, MarkMessageSent
<1>3. ASSUME NEW m \in Messages
      PROVE  Settled(m)'
  BY <1>1, <1>2, OutboxAssumption, SMTT(30) DEF CoreType, InHand, AtLoop, Orderly, Phase, AllSettled, Settled,
     LedgerStays, Holds, workerVars, rowVars, ledgerVars, Done, MarkMessageSent
<1>4. BudgetMoves
  BY DEF BudgetMoves, workerVars, rowVars, ledgerVars, Done, MarkMessageSent
<1> QED BY <1>2, <1>3, <1>4 DEF LedgerMoves, AllSettled

\* The verdict is read before it is written.
LEMMA ReadAttemptsSettles ==
    ASSUME OutboxInv, HandlerInv, AllSettled, NEW u \in Workers, ReadAttempts(u)
    PROVE  LedgerMoves /\ BudgetMoves
<1>1. /\ CoreType /\ InHand /\ AllSettled
      /\ entry \in [Messages -> EntryStatus] /\ wamid \in [Messages -> Nat]
      /\ \A m \in Messages : faults[m] = 0 => Orderly(m)
  BY DEF OutboxInv, HandlerInv, HookType
<1>2. ASSUME NEW m \in Messages
      PROVE  LedgerStays(m)
  BY <1>1, OutboxAssumption, SMTT(30) DEF CoreType, InHand, AtLoop, Orderly, Phase, AllSettled, Settled,
     LedgerStays, Holds, workerVars, rowVars, ledgerVars, Exhausted, ReadAttempts
<1>3. ASSUME NEW m \in Messages
      PROVE  Settled(m)'
  BY <1>1, <1>2, OutboxAssumption, SMTT(30) DEF CoreType, InHand, AtLoop, Orderly, Phase, AllSettled, Settled,
     LedgerStays, Holds, workerVars, rowVars, ledgerVars, Exhausted, ReadAttempts
<1>4. BudgetMoves
  BY DEF BudgetMoves, workerVars, rowVars, ledgerVars, Exhausted, ReadAttempts
<1> QED BY <1>2, <1>3, <1>4 DEF LedgerMoves, AllSettled

\* A row to be tried again was not sent.
LEMMA WriteRetrySettles ==
    ASSUME OutboxInv, HandlerInv, AllSettled, NEW u \in Workers, WriteRetry(u)
    PROVE  LedgerMoves /\ BudgetMoves
<1>1. /\ CoreType /\ InHand /\ AllSettled
      /\ entry \in [Messages -> EntryStatus] /\ wamid \in [Messages -> Nat]
      /\ \A m \in Messages : faults[m] = 0 => Orderly(m)
  BY DEF OutboxInv, HandlerInv, HookType
<1>2. ASSUME NEW m \in Messages
      PROVE  LedgerStays(m)
  BY <1>1, OutboxAssumption, SMTT(30) DEF CoreType, InHand, AtLoop, Orderly, Phase, AllSettled, Settled,
     LedgerStays, Holds, workerVars, rowVars, ledgerVars, Done, WriteRetry
<1>3. ASSUME NEW m \in Messages
      PROVE  Settled(m)'
  BY <1>1, <1>2, OutboxAssumption, SMTT(30) DEF CoreType, InHand, AtLoop, Orderly, Phase, AllSettled, Settled,
     LedgerStays, Holds, workerVars, rowVars, ledgerVars, Done, WriteRetry
<1>4. BudgetMoves
  BY DEF BudgetMoves, workerVars, rowVars, ledgerVars, Done, WriteRetry
<1> QED BY <1>2, <1>3, <1>4 DEF LedgerMoves, AllSettled

\* A row given up was not sent.
LEMMA WriteFailedSettles ==
    ASSUME OutboxInv, HandlerInv, AllSettled, NEW u \in Workers, WriteFailed(u)
    PROVE  LedgerMoves /\ BudgetMoves
<1>1. /\ CoreType /\ InHand /\ AllSettled
      /\ entry \in [Messages -> EntryStatus] /\ wamid \in [Messages -> Nat]
      /\ \A m \in Messages : faults[m] = 0 => Orderly(m)
  BY DEF OutboxInv, HandlerInv, HookType
<1>2. ASSUME NEW m \in Messages
      PROVE  LedgerStays(m)
  BY <1>1, OutboxAssumption, SMTT(30) DEF CoreType, InHand, AtLoop, Orderly, Phase, AllSettled, Settled,
     LedgerStays, Holds, workerVars, rowVars, ledgerVars, Done, WriteFailed
<1>3. ASSUME NEW m \in Messages
      PROVE  Settled(m)'
  BY <1>1, <1>2, OutboxAssumption, SMTT(30) DEF CoreType, InHand, AtLoop, Orderly, Phase, AllSettled, Settled,
     LedgerStays, Holds, workerVars, rowVars, ledgerVars, Done, WriteFailed
<1>4. BudgetMoves
  BY DEF BudgetMoves, workerVars, rowVars, ledgerVars, Done, WriteFailed
<1> QED BY <1>2, <1>3, <1>4 DEF LedgerMoves, AllSettled

\* An entry marked failed is of a message that was not sent.
LEMMA MarkMessageFailedSettles ==
    ASSUME OutboxInv, HandlerInv, AllSettled, NEW u \in Workers, MarkMessageFailed(u)
    PROVE  LedgerMoves /\ BudgetMoves
<1>1. /\ CoreType /\ InHand /\ AllSettled
      /\ entry \in [Messages -> EntryStatus] /\ wamid \in [Messages -> Nat]
      /\ \A m \in Messages : faults[m] = 0 => Orderly(m)
  BY DEF OutboxInv, HandlerInv, HookType
<1>2. ASSUME NEW m \in Messages
      PROVE  LedgerStays(m)
  BY <1>1, OutboxAssumption, SMTT(30) DEF CoreType, InHand, AtLoop, Orderly, Phase, AllSettled, Settled,
     LedgerStays, Holds, workerVars, rowVars, ledgerVars, Done, MarkMessageFailed
<1>3. ASSUME NEW m \in Messages
      PROVE  Settled(m)'
  BY <1>1, <1>2, OutboxAssumption, SMTT(30) DEF CoreType, InHand, AtLoop, Orderly, Phase, AllSettled, Settled,
     LedgerStays, Holds, workerVars, rowVars, ledgerVars, Done, MarkMessageFailed
<1>4. BudgetMoves
  BY DEF BudgetMoves, workerVars, rowVars, ledgerVars, Done, MarkMessageFailed
<1> QED BY <1>2, <1>3, <1>4 DEF LedgerMoves, AllSettled

\* An error before the send is a fault of its message.
LEMMA ThrowEarlySettles ==
    ASSUME OutboxInv, HandlerInv, AllSettled, NEW u \in Workers, NEW x \in Messages, ThrowEarly(u, x)
    PROVE  LedgerMoves /\ BudgetMoves
<1>1. /\ CoreType /\ InHand /\ AllSettled
      /\ entry \in [Messages -> EntryStatus] /\ wamid \in [Messages -> Nat]
      /\ \A m \in Messages : faults[m] = 0 => Orderly(m)
  BY DEF OutboxInv, HandlerInv, HookType
<1>2. ASSUME NEW m \in Messages
      PROVE  LedgerStays(m)
  BY <1>1, OutboxAssumption, SMTT(30) DEF CoreType, InHand, AtLoop, Orderly, Phase, AllSettled, Settled,
     LedgerStays, Holds, workerVars, rowVars, ledgerVars, Take, Fault, ThrowEarly
<1>3. ASSUME NEW m \in Messages
      PROVE  Settled(m)'
  BY <1>1, <1>2, OutboxAssumption, SMTT(30) DEF CoreType, InHand, AtLoop, Orderly, Phase, AllSettled, Settled,
     LedgerStays, Holds, workerVars, rowVars, ledgerVars, Take, Fault, ThrowEarly
<1>4. BudgetMoves
  BY DEF BudgetMoves, workerVars, rowVars, ledgerVars, Take, Fault, ThrowEarly
<1> QED BY <1>2, <1>3, <1>4 DEF LedgerMoves, AllSettled

\* A late error is a fault of its message.
LEMMA ThrowSettles ==
    ASSUME OutboxInv, HandlerInv, AllSettled, NEW u \in Workers, Throw(u)
    PROVE  LedgerMoves /\ BudgetMoves
<1>1. /\ CoreType /\ InHand /\ AllSettled
      /\ entry \in [Messages -> EntryStatus] /\ wamid \in [Messages -> Nat]
      /\ \A m \in Messages : faults[m] = 0 => Orderly(m)
  BY DEF OutboxInv, HandlerInv, HookType
<1>2. ASSUME NEW m \in Messages
      PROVE  LedgerStays(m)
  BY <1>1, OutboxAssumption, SMTT(30) DEF CoreType, InHand, AtLoop, Orderly, Phase, AllSettled, Settled,
     LedgerStays, Holds, workerVars, rowVars, ledgerVars, Fault, Throw
<1>3. ASSUME NEW m \in Messages
      PROVE  Settled(m)'
  BY <1>1, <1>2, OutboxAssumption, SMTT(30) DEF CoreType, InHand, AtLoop, Orderly, Phase, AllSettled, Settled,
     LedgerStays, Holds, workerVars, rowVars, ledgerVars, Fault, Throw
<1>4. BudgetMoves
  BY DEF BudgetMoves, workerVars, rowVars, ledgerVars, Fault, Throw
<1> QED BY <1>2, <1>3, <1>4 DEF LedgerMoves, AllSettled

\* A swallowed error is a fault of its message.
LEMMA SwallowSettles ==
    ASSUME OutboxInv, HandlerInv, AllSettled, NEW u \in Workers, Swallow(u)
    PROVE  LedgerMoves /\ BudgetMoves
<1>1. /\ CoreType /\ InHand /\ AllSettled
      /\ entry \in [Messages -> EntryStatus] /\ wamid \in [Messages -> Nat]
      /\ \A m \in Messages : faults[m] = 0 => Orderly(m)
  BY DEF OutboxInv, HandlerInv, HookType
<1>2. ASSUME NEW m \in Messages
      PROVE  LedgerStays(m)
  BY <1>1, OutboxAssumption, SMTT(30) DEF CoreType, InHand, AtLoop, Orderly, Phase, AllSettled, Settled,
     LedgerStays, Holds, workerVars, rowVars, ledgerVars, Done, Fault, Swallow
<1>3. ASSUME NEW m \in Messages
      PROVE  Settled(m)'
  BY <1>1, <1>2, OutboxAssumption, SMTT(30) DEF CoreType, InHand, AtLoop, Orderly, Phase, AllSettled, Settled,
     LedgerStays, Holds, workerVars, rowVars, ledgerVars, Done, Fault, Swallow
<1>4. BudgetMoves
  BY DEF BudgetMoves, workerVars, rowVars, ledgerVars, Done, Fault, Swallow
<1> QED BY <1>2, <1>3, <1>4 DEF LedgerMoves, AllSettled

\* A crash is a fault of every message the worker held.
LEMMA CrashSettles ==
    ASSUME OutboxInv, HandlerInv, AllSettled, NEW u \in Workers, Crash(u)
    PROVE  LedgerMoves /\ BudgetMoves
<1>1. /\ CoreType /\ InHand /\ AllSettled
      /\ entry \in [Messages -> EntryStatus] /\ wamid \in [Messages -> Nat]
      /\ \A m \in Messages : faults[m] = 0 => Orderly(m)
  BY DEF OutboxInv, HandlerInv, HookType
<1>2. ASSUME NEW m \in Messages
      PROVE  LedgerStays(m)
  BY <1>1, OutboxAssumption, SMTT(30) DEF CoreType, InHand, AtLoop, Orderly, Phase, AllSettled, Settled,
     LedgerStays, Holds, workerVars, rowVars, ledgerVars, Done, Crash
<1>3. ASSUME NEW m \in Messages
      PROVE  Settled(m)'
  BY <1>1, <1>2, OutboxAssumption, SMTT(30) DEF CoreType, InHand, AtLoop, Orderly, Phase, AllSettled, Settled,
     LedgerStays, Holds, workerVars, rowVars, ledgerVars, Done, Crash
<1>4. BudgetMoves
  BY DEF BudgetMoves, workerVars, rowVars, ledgerVars, Done, Crash
<1> QED BY <1>2, <1>3, <1>4 DEF LedgerMoves, AllSettled

\* Age changes no status.
LEMMA DeadClaimAgesSettles ==
    ASSUME OutboxInv, HandlerInv, AllSettled, NEW x \in Messages, DeadClaimAges(x)
    PROVE  LedgerMoves /\ BudgetMoves
<1>1. /\ CoreType /\ InHand /\ AllSettled
      /\ entry \in [Messages -> EntryStatus] /\ wamid \in [Messages -> Nat]
      /\ \A m \in Messages : faults[m] = 0 => Orderly(m)
  BY DEF OutboxInv, HandlerInv, HookType
<1>2. ASSUME NEW m \in Messages
      PROVE  LedgerStays(m)
  BY <1>1, OutboxAssumption, SMTT(30) DEF CoreType, InHand, AtLoop, Orderly, Phase, AllSettled, Settled,
     LedgerStays, Holds, workerVars, rowVars, ledgerVars, DeadClaimAges
<1>3. ASSUME NEW m \in Messages
      PROVE  Settled(m)'
  BY <1>1, <1>2, OutboxAssumption, SMTT(30) DEF CoreType, InHand, AtLoop, Orderly, Phase, AllSettled, Settled,
     LedgerStays, Holds, workerVars, rowVars, ledgerVars, DeadClaimAges
<1>4. BudgetMoves
  BY DEF BudgetMoves, workerVars, rowVars, ledgerVars, DeadClaimAges
<1> QED BY <1>2, <1>3, <1>4 DEF LedgerMoves, AllSettled

\* Age changes no status.
LEMMA LiveClaimAgesSettles ==
    ASSUME OutboxInv, HandlerInv, AllSettled, NEW x \in Messages, LiveClaimAges(x)
    PROVE  LedgerMoves /\ BudgetMoves
<1>1. /\ CoreType /\ InHand /\ AllSettled
      /\ entry \in [Messages -> EntryStatus] /\ wamid \in [Messages -> Nat]
      /\ \A m \in Messages : faults[m] = 0 => Orderly(m)
  BY DEF OutboxInv, HandlerInv, HookType
<1>2. ASSUME NEW m \in Messages
      PROVE  LedgerStays(m)
  BY <1>1, OutboxAssumption, SMTT(30) DEF CoreType, InHand, AtLoop, Orderly, Phase, AllSettled, Settled,
     LedgerStays, Holds, workerVars, rowVars, ledgerVars, LiveClaimAges
<1>3. ASSUME NEW m \in Messages
      PROVE  Settled(m)'
  BY <1>1, <1>2, OutboxAssumption, SMTT(30) DEF CoreType, InHand, AtLoop, Orderly, Phase, AllSettled, Settled,
     LedgerStays, Holds, workerVars, rowVars, ledgerVars, LiveClaimAges
<1>4. BudgetMoves
  BY DEF BudgetMoves, workerVars, rowVars, ledgerVars, LiveClaimAges
<1> QED BY <1>2, <1>3, <1>4 DEF LedgerMoves, AllSettled

\* What the workers do not read may change, except that nothing becomes Pending again.
LEMMA HandlersSettle ==
    ASSUME AllSettled, UNCHANGED core, wamid' = wamid,
           \A m \in Messages : entry'[m] # entry[m] => entry'[m] # "Pending"
    PROVE  AllSettled'
  BY DEF AllSettled, Settled, Holds, core

\* Every step of the workers.
LEMMA OutboxRunsSettles ==
    ASSUME OutboxInv, HandlerInv, AllSettled, OutboxRuns
    PROVE  LedgerMoves /\ BudgetMoves
<1>1. CASE \E w \in Workers : WorkerStep(w)
  BY <1>1, TickSettles, FindDueSettles, EndClaimsSettles, EndTickSettles, ClaimSettles, LoseClaimSettles,
     SendAcceptedSettles, SendRefusedSettles, MarkOutboxSentSettles, MarkMessageSentSettles,
     ReadAttemptsSettles, WriteRetrySettles, WriteFailedSettles, MarkMessageFailedSettles DEF WorkerStep
<1>2. CASE \E m \in Messages : DeadClaimAges(m)
  BY <1>2, DeadClaimAgesSettles
<1>3. CASE FaultStep
  BY <1>3, ThrowSettles, SwallowSettles, CrashSettles, ThrowEarlySettles, SendUnacknowledgedSettles,
     LiveClaimAgesSettles DEF FaultStep
<1> QED BY <1>1, <1>2, <1>3 DEF OutboxRuns

------------------------------------------------------------------------------
(* What the webhook events leave behind *)

\* No statement failed and no process died so far.
Calm == budget = traffic.faults

AtWork(h, e, places) == job[h] = e /\ hpc[h] \in places
SomeAtWork(e, places) == \E h \in Handlers : AtWork(h, e, places)

Within == traffic.faults \in Nat /\ budget \in Nat /\ budget <= traffic.faults

\* An inbound message that is past its insert, or handled, is in the ledger.
Recorded ==
    /\ \A h \in Handlers :
          hpc[h] \in {"count", "notify", "notice", "reply", "answer", "handled"}
             /\ job[h] \in InboundEvents => job[h] \in recorded
    /\ \A e \in InboundEvents : event[e] = "Processed" => e \in recorded

\* Without faults, what was begun for a message is done or somebody is at it.
Reached ==
    Calm =>
        /\ \A e \in recorded : e \in counted \/ SomeAtWork(e, {"count"})
        /\ traffic.automation => \A e \in counted :
              row[Notice(e)] # "none" \/ SomeAtWork(e, {"notify", "notice"})
        /\ \A e \in stored : e \in notes \/ e.from \in raced \/ SomeAtWork(e, {"note"})

\* An event that never came, and cannot have been dropped by the retention.
Absent(e) == event[e] = "none" /\ (traffic.cleanup => e \notin traffic.events)

\* Nobody handles an event that never came.
Arrived ==
    /\ \A e \in Events : event[e] # "none" => e \in traffic.events
    /\ \A h \in Handlers, e \in Events : Absent(e) =>
          job[h] # e /\ e \notin mine[h] /\ (hpc[h] = "claiming" => e \notin seen[h])

\* Messages of which HandledUncrossed speaks.
Unfailed(m) == \A f \in StatusEvents : f.m = m /\ f.s = "Failed" => Absent(f)
Clear(m) == faults[m] = 0 /\ m \notin raced /\ Unfailed(m)

\* A status about to be written is higher than the one that was read.
Rising ==
    \A h \in Handlers : hpc[h] = "write" /\ job[h].s # "Failed" =>
        \E s \in EntryStatus : seen[h] = {EntryRead(s)} /\ Rank(job[h].s) > Rank(s)

\* A status that was handled, or is about to be, is of the send the ledger names, and is
\* not above the ledger.
Shown(e) == event[e] = "Processed" \/ SomeAtWork(e, {"handled"})
Matched ==
    \A e \in StatusEvents :
        faults[e.m] = 0 /\ (Shown(e) \/ SomeAtWork(e, {"write"})) => wamid[e.m] = e.k
Ranked ==
    \A e \in StatusEvents :
        Clear(e.m) /\ e.s # "Failed" /\ Shown(e) => Rank(entry[e.m]) >= Rank(e.s)

FlowInv == /\ Within /\ Recorded /\ Reached /\ Arrived /\ Rising /\ Matched /\ Ranked

\* Ranks are numbers.
LEMMA RankType == \A s : Rank(s) \in Nat
  BY DEF Rank

\* The outbox keeps what the handlers have reached.
LEMMA OutboxFlows ==
    ASSUME HandlerInv, FlowInv, LedgerMoves, BudgetMoves, budget' \in Nat,
           UNCHANGED <<traffic, hookVars, handlerVars, legacyVars>>
    PROVE  FlowInv'
<1> USE DEF hookVars, handlerVars, legacyVars
<1>1. Within' /\ (Calm' => Calm)
  BY DEF FlowInv, Within, BudgetMoves, Calm
<1>2. Recorded' /\ Arrived' /\ Rising'
  BY DEF FlowInv, Recorded, Arrived, Absent, Rising
<1>3. Reached'
  <2>1. \A e \in counted : row[Notice(e)] # "none" => row'[Notice(e)] # "none"
    BY WhatsAppAssumption DEF HandlerInv, HookType, Counting, LedgerMoves, LedgerStays
  <2> QED BY <1>1, <2>1 DEF FlowInv, Reached, SomeAtWork, AtWork
<1>4. \A e \in StatusEvents : faults'[e.m] = 0 /\ wamid[e.m] = e.k =>
          faults[e.m] = 0 /\ wamid'[e.m] = e.k /\ entry'[e.m] = entry[e.m]
  BY WhatsAppAssumption DEF LedgerMoves, LedgerStays
<1>5. \A e \in StatusEvents : faults'[e.m] = 0 => faults[e.m] = 0
  BY WhatsAppAssumption DEF LedgerMoves, LedgerStays
<1>6. Matched'
  BY <1>4, <1>5 DEF FlowInv, Matched, Shown, SomeAtWork, AtWork
<1>7. Ranked'
  <2>1. \A e \in StatusEvents : Clear(e.m)' => Clear(e.m)
    BY <1>5 DEF Clear, Unfailed, Absent
  <2> QED BY <1>4, <1>5, <2>1 DEF FlowInv, Matched, Ranked, Shown, SomeAtWork, AtWork, Clear
<1> QED BY <1>1, <1>2, <1>3, <1>6, <1>7 DEF FlowInv

\* A first delivery is of an event that is sent to the system.
LEMMA PostFlows ==
    ASSUME HandlerInv, FlowInv, NEW u \in Handlers, NEW x \in Events, Post(u, x)
    PROVE  FlowInv'
<1> USE DEF outboxVars, rowVars, ledgerVars, workerVars, hookVars, handlerVars, legacyVars
<1>0. /\ HookType /\ (\A h \in Handlers : JobFits(h)) /\ Counting
      /\ Within /\ Recorded /\ Reached /\ Arrived /\ Rising /\ Matched /\ Ranked
  BY DEF HandlerInv, FlowInv
<1>1. Within' /\ (Calm' => Calm)
  BY <1>0 DEF Within, Calm, Go, CanArrive, FirstStep, AfterIngest, Post
<1>2. Recorded'
  BY <1>0, WhatsAppAssumption, SMTT(30) DEF HookType, JobFits, InboundEvents, StatusEvents, Recorded, Go, CanArrive, FirstStep, AfterIngest, Post
<1>3. Reached'
  BY <1>0, <1>1, WhatsAppAssumption, SMTT(30) DEF HookType, JobFits, Counting, InboundEvents, Reached, SomeAtWork, AtWork, Go, CanArrive, FirstStep, AfterIngest, Post
<1>4. Arrived'
  BY <1>0, WhatsAppAssumption, SMTT(30) DEF HookType, JobFits, Arrived, Absent, Go, CanArrive, FirstStep, AfterIngest, Post
<1>5. Rising'
  BY <1>0, WhatsAppAssumption, RankType, SMTT(30) DEF HookType, JobFits, Rising, Go, CanArrive, FirstStep, AfterIngest, Post
<1>6. Matched'
  BY <1>0, WhatsAppAssumption, SMTT(30) DEF HookType, JobFits, InboundEvents, StatusEvents, Matched, Shown, SomeAtWork, AtWork, Go, CanArrive, FirstStep, AfterIngest, Post
<1>7. \A m : Clear(m)' => Clear(m)
  BY <1>0, WhatsAppAssumption, SMTT(30) DEF HookType, JobFits, StatusEvents, Clear, Unfailed, Arrived, Absent, Go, CanArrive, FirstStep, AfterIngest, Post
<1>8. Ranked'
  BY <1>0, <1>7, WhatsAppAssumption, RankType, SMTT(30) DEF HookType, JobFits, InboundEvents, StatusEvents, Ranked, Shown, SomeAtWork, AtWork, Go, CanArrive, FirstStep, AfterIngest, Post
<1> QED BY <1>1, <1>2, <1>3, <1>4, <1>5, <1>6, <1>8 DEF FlowInv

\* A redelivery is of an event that came before.
LEMMA PostAgainFlows ==
    ASSUME HandlerInv, FlowInv, NEW u \in Handlers, NEW x \in Events, PostAgain(u, x)
    PROVE  FlowInv'
<1> USE DEF outboxVars, rowVars, ledgerVars, workerVars, hookVars, handlerVars, legacyVars
<1>0. /\ HookType /\ (\A h \in Handlers : JobFits(h)) /\ Counting
      /\ Within /\ Recorded /\ Reached /\ Arrived /\ Rising /\ Matched /\ Ranked
  BY DEF HandlerInv, FlowInv
<1>1. Within' /\ (Calm' => Calm)
  BY <1>0 DEF Within, Calm, Go, CanArrive, AfterIngest, PostAgain
<1>2. Recorded'
  BY <1>0, WhatsAppAssumption, SMTT(30) DEF HookType, JobFits, InboundEvents, StatusEvents, Recorded, Go, CanArrive, AfterIngest, PostAgain
<1>3. Reached'
  BY <1>0, <1>1, WhatsAppAssumption, SMTT(30) DEF HookType, JobFits, Counting, InboundEvents, Reached, SomeAtWork, AtWork, Go, CanArrive, AfterIngest, PostAgain
<1>4. Arrived'
  BY <1>0, WhatsAppAssumption, SMTT(30) DEF HookType, JobFits, Arrived, Absent, Go, CanArrive, AfterIngest, PostAgain
<1>5. Rising'
  BY <1>0, WhatsAppAssumption, RankType, SMTT(30) DEF HookType, JobFits, Rising, Go, CanArrive, AfterIngest, PostAgain
<1>6. Matched'
  BY <1>0, WhatsAppAssumption, SMTT(30) DEF HookType, JobFits, InboundEvents, StatusEvents, Matched, Shown, SomeAtWork, AtWork, Go, CanArrive, AfterIngest, PostAgain
<1>7. \A m : Clear(m)' => Clear(m)
  BY <1>0, WhatsAppAssumption, SMTT(30) DEF HookType, JobFits, StatusEvents, Clear, Unfailed, Arrived, Absent, Go, CanArrive, AfterIngest, PostAgain
<1>8. Ranked'
  BY <1>0, <1>7, WhatsAppAssumption, RankType, SMTT(30) DEF HookType, JobFits, InboundEvents, StatusEvents, Ranked, Shown, SomeAtWork, AtWork, Go, CanArrive, AfterIngest, PostAgain
<1> QED BY <1>1, <1>2, <1>3, <1>4, <1>5, <1>6, <1>8 DEF FlowInv

\* The job lists events that came.
LEMMA StartJobFlows ==
    ASSUME HandlerInv, FlowInv, NEW u \in Handlers, StartJob(u)
    PROVE  FlowInv'
<1> USE DEF outboxVars, rowVars, ledgerVars, workerVars, hookVars, handlerVars, legacyVars
<1>0. /\ HookType /\ (\A h \in Handlers : JobFits(h)) /\ Counting
      /\ Within /\ Recorded /\ Reached /\ Arrived /\ Rising /\ Matched /\ Ranked
  BY DEF HandlerInv, FlowInv
<1>1. Within' /\ (Calm' => Calm)
  BY <1>0 DEF Within, Calm, Go, Retriable, StartJob
<1>2. Recorded'
  BY <1>0, WhatsAppAssumption, SMTT(30) DEF HookType, JobFits, InboundEvents, StatusEvents, Recorded, Go, Retriable, StartJob
<1>3. Reached'
  BY <1>0, <1>1, WhatsAppAssumption, SMTT(30) DEF HookType, JobFits, Counting, InboundEvents, Reached, SomeAtWork, AtWork, Go, Retriable, StartJob
<1>4. Arrived'
  BY <1>0, WhatsAppAssumption, SMTT(30) DEF HookType, JobFits, Arrived, Absent, Go, Retriable, StartJob
<1>5. Rising'
  BY <1>0, WhatsAppAssumption, RankType, SMTT(30) DEF HookType, JobFits, Rising, Go, Retriable, StartJob
<1>6. Matched'
  BY <1>0, WhatsAppAssumption, SMTT(30) DEF HookType, JobFits, InboundEvents, StatusEvents, Matched, Shown, SomeAtWork, AtWork, Go, Retriable, StartJob
<1>7. \A m : Clear(m)' => Clear(m)
  BY <1>0, WhatsAppAssumption, SMTT(30) DEF HookType, JobFits, StatusEvents, Clear, Unfailed, Arrived, Absent, Go, Retriable, StartJob
<1>8. Ranked'
  BY <1>0, <1>7, WhatsAppAssumption, RankType, SMTT(30) DEF HookType, JobFits, InboundEvents, StatusEvents, Ranked, Shown, SomeAtWork, AtWork, Go, Retriable, StartJob
<1> QED BY <1>1, <1>2, <1>3, <1>4, <1>5, <1>6, <1>8 DEF FlowInv

\* The job claims events that came.
LEMMA ClaimEventFlows ==
    ASSUME HandlerInv, FlowInv, NEW u \in Handlers, NEW x \in Events, ClaimEvent(u, x)
    PROVE  FlowInv'
<1> USE DEF outboxVars, rowVars, ledgerVars, workerVars, hookVars, handlerVars, legacyVars
<1>0. /\ HookType /\ (\A h \in Handlers : JobFits(h)) /\ Counting
      /\ Within /\ Recorded /\ Reached /\ Arrived /\ Rising /\ Matched /\ Ranked
  BY DEF HandlerInv, FlowInv
<1>1. Within' /\ (Calm' => Calm)
  BY <1>0 DEF Within, Calm, ClaimEvent
<1>2. Recorded'
  BY <1>0, WhatsAppAssumption, SMTT(30) DEF HookType, JobFits, InboundEvents, StatusEvents, Recorded, ClaimEvent
<1>3. Reached'
  BY <1>0, <1>1, WhatsAppAssumption, SMTT(30) DEF HookType, JobFits, Counting, InboundEvents, Reached, SomeAtWork, AtWork, ClaimEvent
<1>4. Arrived'
  BY <1>0, WhatsAppAssumption, SMTT(30) DEF HookType, JobFits, Arrived, Absent, ClaimEvent
<1>5. Rising'
  BY <1>0, WhatsAppAssumption, RankType, SMTT(30) DEF HookType, JobFits, Rising, ClaimEvent
<1>6. Matched'
  BY <1>0, WhatsAppAssumption, SMTT(30) DEF HookType, JobFits, InboundEvents, StatusEvents, Matched, Shown, SomeAtWork, AtWork, ClaimEvent
<1>7. \A m : Clear(m)' => Clear(m)
  BY <1>0, WhatsAppAssumption, SMTT(30) DEF HookType, JobFits, StatusEvents, Clear, Unfailed, Arrived, Absent, ClaimEvent
<1>8. Ranked'
  BY <1>0, <1>7, WhatsAppAssumption, RankType, SMTT(30) DEF HookType, JobFits, InboundEvents, StatusEvents, Ranked, Shown, SomeAtWork, AtWork, ClaimEvent
<1> QED BY <1>1, <1>2, <1>3, <1>4, <1>5, <1>6, <1>8 DEF FlowInv

\* The end of the claims changes no event.
LEMMA EndEventClaimsFlows ==
    ASSUME HandlerInv, FlowInv, NEW u \in Handlers, EndEventClaims(u)
    PROVE  FlowInv'
<1> USE DEF outboxVars, rowVars, ledgerVars, workerVars, hookVars, handlerVars, legacyVars
<1>0. /\ HookType /\ (\A h \in Handlers : JobFits(h)) /\ Counting
      /\ Within /\ Recorded /\ Reached /\ Arrived /\ Rising /\ Matched /\ Ranked
  BY DEF HandlerInv, FlowInv
<1>1. Within' /\ (Calm' => Calm)
  BY <1>0 DEF Within, Calm, Go, EndEventClaims
<1>2. Recorded'
  BY <1>0, WhatsAppAssumption, SMTT(30) DEF HookType, JobFits, InboundEvents, StatusEvents, Recorded, Go, EndEventClaims
<1>3. Reached'
  BY <1>0, <1>1, WhatsAppAssumption, SMTT(30) DEF HookType, JobFits, Counting, InboundEvents, Reached, SomeAtWork, AtWork, Go, EndEventClaims
<1>4. Arrived'
  BY <1>0, WhatsAppAssumption, SMTT(30) DEF HookType, JobFits, Arrived, Absent, Go, EndEventClaims
<1>5. Rising'
  BY <1>0, WhatsAppAssumption, RankType, SMTT(30) DEF HookType, JobFits, Rising, Go, EndEventClaims
<1>6. Matched'
  BY <1>0, WhatsAppAssumption, SMTT(30) DEF HookType, JobFits, InboundEvents, StatusEvents, Matched, Shown, SomeAtWork, AtWork, Go, EndEventClaims
<1>7. \A m : Clear(m)' => Clear(m)
  BY <1>0, WhatsAppAssumption, SMTT(30) DEF HookType, JobFits, StatusEvents, Clear, Unfailed, Arrived, Absent, Go, EndEventClaims
<1>8. Ranked'
  BY <1>0, <1>7, WhatsAppAssumption, RankType, SMTT(30) DEF HookType, JobFits, InboundEvents, StatusEvents, Ranked, Shown, SomeAtWork, AtWork, Go, EndEventClaims
<1> QED BY <1>1, <1>2, <1>3, <1>4, <1>5, <1>6, <1>8 DEF FlowInv

\* The handler takes an event that it claimed.
LEMMA NextEventFlows ==
    ASSUME HandlerInv, FlowInv, NEW u \in Handlers, NextEvent(u)
    PROVE  FlowInv'
<1> USE DEF outboxVars, rowVars, ledgerVars, workerVars, hookVars, handlerVars, legacyVars
<1>0. /\ HookType /\ (\A h \in Handlers : JobFits(h)) /\ Counting
      /\ Within /\ Recorded /\ Reached /\ Arrived /\ Rising /\ Matched /\ Ranked
  BY DEF HandlerInv, FlowInv
<1>1. Within' /\ (Calm' => Calm)
  BY <1>0 DEF Within, Calm, Go, FirstStep, NextEvent
<1>2. Recorded'
  BY <1>0, WhatsAppAssumption, SMTT(30) DEF HookType, JobFits, InboundEvents, StatusEvents, Recorded, Go, FirstStep, NextEvent
<1>3. Reached'
  BY <1>0, <1>1, WhatsAppAssumption, SMTT(30) DEF HookType, JobFits, Counting, InboundEvents, Reached, SomeAtWork, AtWork, Go, FirstStep, NextEvent
<1>4. Arrived'
  BY <1>0, WhatsAppAssumption, SMTT(30) DEF HookType, JobFits, Arrived, Absent, Go, FirstStep, NextEvent
<1>5. Rising'
  BY <1>0, WhatsAppAssumption, RankType, SMTT(30) DEF HookType, JobFits, Rising, Go, FirstStep, NextEvent
<1>6. Matched'
  BY <1>0, WhatsAppAssumption, SMTT(30) DEF HookType, JobFits, InboundEvents, StatusEvents, Matched, Shown, SomeAtWork, AtWork, Go, FirstStep, NextEvent
<1>7. \A m : Clear(m)' => Clear(m)
  BY <1>0, WhatsAppAssumption, SMTT(30) DEF HookType, JobFits, StatusEvents, Clear, Unfailed, Arrived, Absent, Go, FirstStep, NextEvent
<1>8. Ranked'
  BY <1>0, <1>7, WhatsAppAssumption, RankType, SMTT(30) DEF HookType, JobFits, InboundEvents, StatusEvents, Ranked, Shown, SomeAtWork, AtWork, Go, FirstStep, NextEvent
<1> QED BY <1>1, <1>2, <1>3, <1>4, <1>5, <1>6, <1>8 DEF FlowInv

\* A status that is not written is of another send, or not above the ledger.
LEMMA ReadEntryFlows ==
    ASSUME HandlerInv, FlowInv, NEW u \in Handlers, ReadEntry(u)
    PROVE  FlowInv'
<1> USE DEF outboxVars, rowVars, ledgerVars, workerVars, hookVars, handlerVars, legacyVars
<1>0. /\ HookType /\ (\A h \in Handlers : JobFits(h)) /\ Counting
      /\ Within /\ Recorded /\ Reached /\ Arrived /\ Rising /\ Matched /\ Ranked
  BY DEF HandlerInv, FlowInv
<1>1. Within' /\ (Calm' => Calm)
  BY <1>0 DEF Within, Calm, Go, StaleStatus, ReadEntry
<1>2. Recorded'
  BY <1>0, WhatsAppAssumption, SMTT(30) DEF HookType, JobFits, InboundEvents, StatusEvents, Recorded, Go, StaleStatus, ReadEntry
<1>3. Reached'
  BY <1>0, <1>1, WhatsAppAssumption, SMTT(30) DEF HookType, JobFits, Counting, InboundEvents, Reached, SomeAtWork, AtWork, Go, StaleStatus, ReadEntry
<1>4. Arrived'
  BY <1>0, WhatsAppAssumption, SMTT(30) DEF HookType, JobFits, Arrived, Absent, Go, StaleStatus, ReadEntry
<1>5. Rising'
  BY <1>0, WhatsAppAssumption, RankType, SMTT(30) DEF HookType, JobFits, Rising, Go, StaleStatus, EntryRead, ReadEntry
<1>6. Matched'
  BY <1>0, WhatsAppAssumption, SMTT(30) DEF HookType, JobFits, InboundEvents, StatusEvents, Matched, Shown, SomeAtWork, AtWork, Go, StaleStatus, ReadEntry
<1>7. \A m : Clear(m)' => Clear(m)
  BY <1>0, WhatsAppAssumption, SMTT(30) DEF HookType, JobFits, StatusEvents, Clear, Unfailed, Arrived, Absent, Go, StaleStatus, ReadEntry
<1>8. Ranked'
  BY <1>0, <1>7, WhatsAppAssumption, RankType, SMTT(30) DEF HookType, JobFits, InboundEvents, StatusEvents, Ranked, Shown, SomeAtWork, AtWork, Go, StaleStatus, ReadEntry
<1> QED BY <1>1, <1>2, <1>3, <1>4, <1>5, <1>6, <1>8 DEF FlowInv

\* A status is written above the one that was read, or the handlers crossed.
LEMMA WriteEntryFlows ==
    ASSUME HandlerInv, FlowInv, NEW u \in Handlers, WriteEntry(u)
    PROVE  FlowInv'
<1> USE DEF outboxVars, rowVars, ledgerVars, workerVars, hookVars, handlerVars, legacyVars
<1>0. /\ HookType /\ (\A h \in Handlers : JobFits(h)) /\ Counting
      /\ Within /\ Recorded /\ Reached /\ Arrived /\ Rising /\ Matched /\ Ranked
  BY DEF HandlerInv, FlowInv
<1>1. Within' /\ (Calm' => Calm)
  BY <1>0 DEF Within, Calm, Go, WriteEntry
<1>2. Recorded'
  BY <1>0, WhatsAppAssumption, SMTT(30) DEF HookType, JobFits, InboundEvents, StatusEvents, Recorded, Go, WriteEntry
<1>3. Reached'
  BY <1>0, <1>1, WhatsAppAssumption, SMTT(30) DEF HookType, JobFits, Counting, InboundEvents, Reached, SomeAtWork, AtWork, Go, WriteEntry
<1>4. Arrived'
  BY <1>0, WhatsAppAssumption, SMTT(30) DEF HookType, JobFits, Arrived, Absent, Go, WriteEntry
<1>5. Rising'
  BY <1>0, WhatsAppAssumption, RankType, SMTT(30) DEF HookType, JobFits, Rising, Go, WriteEntry
<1>6. Matched'
  BY <1>0, WhatsAppAssumption, SMTT(30) DEF HookType, JobFits, InboundEvents, StatusEvents, Matched, Shown, SomeAtWork, AtWork, Go, WriteEntry
<1>7. \A m : Clear(m)' => Clear(m)
  BY <1>0, WhatsAppAssumption, SMTT(30) DEF HookType, JobFits, StatusEvents, Clear, Unfailed, Arrived, Absent, Go, WriteEntry
<1>8. Ranked'
  <2> DEFINE e == job[u]
  <2>1. /\ e \in StatusEvents /\ e.m \in Messages /\ entry'[e.m] = e.s
        /\ \A m \in Messages : m # e.m => entry'[m] = entry[m]
    BY <1>0, WhatsAppAssumption DEF HookType, JobFits, WriteEntry
  <2>2. ASSUME NEW f \in StatusEvents, Clear(f.m)', f.s # "Failed", Shown(f)', f # e
        PROVE  Rank(entry'[f.m]) >= Rank(f.s)
    <3>1. Shown(f)
      BY <1>0, <2>2 DEF HookType, Shown, SomeAtWork, AtWork, Go, WriteEntry
    <3>2. Clear(f.m) /\ f.m \in Messages
      BY <1>7, <2>2, WhatsAppAssumption
    <3>3. Rank(entry[f.m]) >= Rank(f.s)
      BY <1>0, <2>2, <3>1, <3>2 DEF Ranked
    <3>4. CASE f.m # e.m
      BY <2>1, <3>2, <3>3, <3>4
    <3>5. CASE f.m = e.m
      <4>1. seen[u] = {EntryRead(entry[e.m])}
        BY <2>2, <3>5 DEF Clear, WriteEntry
      <4>2. ~ Absent(e)
        BY <1>0, WhatsAppAssumption, <2>1 DEF Arrived
      <4>3. e.s # "Failed"
        BY <2>1, <3>2, <3>5, <4>2 DEF Clear, Unfailed
      <4>4. Rank(e.s) > Rank(entry[e.m])
        <5>1. PICK s \in EntryStatus : seen[u] = {EntryRead(s)} /\ Rank(e.s) > Rank(s)
          BY <1>0, <4>3 DEF Rising, WriteEntry
        <5>2. EntryRead(s) = EntryRead(entry[e.m])
          BY <4>1, <5>1
        <5>3. s = entry[e.m]
          BY <5>2 DEF EntryRead
        <5> QED BY <5>1, <5>3
      <4> QED BY <2>1, <3>3, <3>5, <4>4, RankType
    <3> QED BY <3>4, <3>5
  <2>3. Rank(entry'[e.m]) >= Rank(e.s)
    BY <2>1, RankType
  <2> QED BY <2>2, <2>3 DEF Ranked
<1> QED BY <1>1, <1>2, <1>3, <1>4, <1>5, <1>6, <1>8 DEF FlowInv

\* A message found in the ledger is recorded.
LEMMA FindRecordedFlows ==
    ASSUME HandlerInv, FlowInv, NEW u \in Handlers, FindRecorded(u)
    PROVE  FlowInv'
<1> USE DEF outboxVars, rowVars, ledgerVars, workerVars, hookVars, handlerVars, legacyVars
<1>0. /\ HookType /\ (\A h \in Handlers : JobFits(h)) /\ Counting
      /\ Within /\ Recorded /\ Reached /\ Arrived /\ Rising /\ Matched /\ Ranked
  BY DEF HandlerInv, FlowInv
<1>1. Within' /\ (Calm' => Calm)
  BY <1>0 DEF Within, Calm, Go, FindRecorded
<1>2. Recorded'
  BY <1>0, WhatsAppAssumption, SMTT(30) DEF HookType, JobFits, InboundEvents, StatusEvents, Recorded, Go, FindRecorded
<1>3. Reached'
  BY <1>0, <1>1, WhatsAppAssumption, SMTT(30) DEF HookType, JobFits, Counting, InboundEvents, Reached, SomeAtWork, AtWork, Go, FindRecorded
<1>4. Arrived'
  BY <1>0, WhatsAppAssumption, SMTT(30) DEF HookType, JobFits, Arrived, Absent, Go, FindRecorded
<1>5. Rising'
  BY <1>0, WhatsAppAssumption, RankType, SMTT(30) DEF HookType, JobFits, Rising, Go, FindRecorded
<1>6. Matched'
  BY <1>0, WhatsAppAssumption, SMTT(30) DEF HookType, JobFits, InboundEvents, StatusEvents, Matched, Shown, SomeAtWork, AtWork, Go, FindRecorded
<1>7. \A m : Clear(m)' => Clear(m)
  BY <1>0, WhatsAppAssumption, SMTT(30) DEF HookType, JobFits, StatusEvents, Clear, Unfailed, Arrived, Absent, Go, FindRecorded
<1>8. Ranked'
  BY <1>0, <1>7, WhatsAppAssumption, RankType, SMTT(30) DEF HookType, JobFits, InboundEvents, StatusEvents, Ranked, Shown, SomeAtWork, AtWork, Go, FindRecorded
<1> QED BY <1>1, <1>2, <1>3, <1>4, <1>5, <1>6, <1>8 DEF FlowInv

\* The handler whose insert succeeds counts the message.
LEMMA InsertInboundFlows ==
    ASSUME HandlerInv, FlowInv, NEW u \in Handlers, InsertInbound(u)
    PROVE  FlowInv'
<1> USE DEF outboxVars, rowVars, ledgerVars, workerVars, hookVars, handlerVars, legacyVars
<1>0. /\ HookType /\ (\A h \in Handlers : JobFits(h)) /\ Counting
      /\ Within /\ Recorded /\ Reached /\ Arrived /\ Rising /\ Matched /\ Ranked
  BY DEF HandlerInv, FlowInv
<1>1. Within' /\ (Calm' => Calm)
  BY <1>0 DEF Within, Calm, Go, AfterInsert, InsertInbound
<1>2. Recorded'
  BY <1>0, WhatsAppAssumption, SMTT(30) DEF HookType, JobFits, InboundEvents, StatusEvents, Recorded, Go, AfterInsert, InsertInbound
<1>3. Reached'
  BY <1>0, <1>1, WhatsAppAssumption, SMTT(30) DEF HookType, JobFits, Counting, InboundEvents, Reached, SomeAtWork, AtWork, Go, AfterInsert, InsertInbound
<1>4. Arrived'
  BY <1>0, WhatsAppAssumption, SMTT(30) DEF HookType, JobFits, Arrived, Absent, Go, AfterInsert, InsertInbound
<1>5. Rising'
  BY <1>0, WhatsAppAssumption, RankType, SMTT(30) DEF HookType, JobFits, Rising, Go, AfterInsert, InsertInbound
<1>6. Matched'
  BY <1>0, WhatsAppAssumption, SMTT(30) DEF HookType, JobFits, InboundEvents, StatusEvents, Matched, Shown, SomeAtWork, AtWork, Go, AfterInsert, InsertInbound
<1>7. \A m : Clear(m)' => Clear(m)
  BY <1>0, WhatsAppAssumption, SMTT(30) DEF HookType, JobFits, StatusEvents, Clear, Unfailed, Arrived, Absent, Go, AfterInsert, InsertInbound
<1>8. Ranked'
  BY <1>0, <1>7, WhatsAppAssumption, RankType, SMTT(30) DEF HookType, JobFits, InboundEvents, StatusEvents, Ranked, Shown, SomeAtWork, AtWork, Go, AfterInsert, InsertInbound
<1> QED BY <1>1, <1>2, <1>3, <1>4, <1>5, <1>6, <1>8 DEF FlowInv

\* The handler that counted the message goes on to its notice.
LEMMA CountInboundFlows ==
    ASSUME HandlerInv, FlowInv, NEW u \in Handlers, CountInbound(u)
    PROVE  FlowInv'
<1> USE DEF outboxVars, rowVars, ledgerVars, workerVars, hookVars, handlerVars, legacyVars
<1>0. /\ HookType /\ (\A h \in Handlers : JobFits(h)) /\ Counting
      /\ Within /\ Recorded /\ Reached /\ Arrived /\ Rising /\ Matched /\ Ranked
  BY DEF HandlerInv, FlowInv
<1>1. Within' /\ (Calm' => Calm)
  BY <1>0 DEF Within, Calm, Go, CountInbound
<1>2. Recorded'
  BY <1>0, WhatsAppAssumption, SMTT(30) DEF HookType, JobFits, InboundEvents, StatusEvents, Recorded, Go, CountInbound
<1>3. Reached'
  BY <1>0, <1>1, WhatsAppAssumption, SMTT(30) DEF HookType, JobFits, Counting, InboundEvents, Reached, SomeAtWork, AtWork, Go, CountInbound
<1>4. Arrived'
  BY <1>0, WhatsAppAssumption, SMTT(30) DEF HookType, JobFits, Arrived, Absent, Go, CountInbound
<1>5. Rising'
  BY <1>0, WhatsAppAssumption, RankType, SMTT(30) DEF HookType, JobFits, Rising, Go, CountInbound
<1>6. Matched'
  BY <1>0, WhatsAppAssumption, SMTT(30) DEF HookType, JobFits, InboundEvents, StatusEvents, Matched, Shown, SomeAtWork, AtWork, Go, CountInbound
<1>7. \A m : Clear(m)' => Clear(m)
  BY <1>0, WhatsAppAssumption, SMTT(30) DEF HookType, JobFits, StatusEvents, Clear, Unfailed, Arrived, Absent, Go, CountInbound
<1>8. Ranked'
  BY <1>0, <1>7, WhatsAppAssumption, RankType, SMTT(30) DEF HookType, JobFits, InboundEvents, StatusEvents, Ranked, Shown, SomeAtWork, AtWork, Go, CountInbound
<1> QED BY <1>1, <1>2, <1>3, <1>4, <1>5, <1>6, <1>8 DEF FlowInv

\* The notice is no free text and always passes.
LEMMA CheckNoticeFlows ==
    ASSUME HandlerInv, FlowInv, NEW u \in Handlers, CheckNotice(u)
    PROVE  FlowInv'
<1> USE DEF outboxVars, rowVars, ledgerVars, workerVars, hookVars, handlerVars, legacyVars
<1>0. /\ HookType /\ (\A h \in Handlers : JobFits(h)) /\ Counting
      /\ Within /\ Recorded /\ Reached /\ Arrived /\ Rising /\ Matched /\ Ranked
  BY DEF HandlerInv, FlowInv
<1>1. Within' /\ (Calm' => Calm)
  BY <1>0 DEF Within, Calm, Go, Sendable, Notice, CheckNotice
<1>2. Recorded'
  BY <1>0, WhatsAppAssumption, SMTT(30) DEF HookType, JobFits, InboundEvents, StatusEvents, Recorded, Go, Sendable, Notice, CheckNotice
<1>3. Reached'
  BY <1>0, <1>1, WhatsAppAssumption, SMTT(30) DEF HookType, JobFits, Counting, InboundEvents, Reached, SomeAtWork, AtWork, Go, Sendable, Notice, CheckNotice
<1>4. Arrived'
  BY <1>0, WhatsAppAssumption, SMTT(30) DEF HookType, JobFits, Arrived, Absent, Go, Sendable, Notice, CheckNotice
<1>5. Rising'
  BY <1>0, WhatsAppAssumption, RankType, SMTT(30) DEF HookType, JobFits, Rising, Go, Sendable, Notice, CheckNotice
<1>6. Matched'
  BY <1>0, WhatsAppAssumption, SMTT(30) DEF HookType, JobFits, InboundEvents, StatusEvents, Matched, Shown, SomeAtWork, AtWork, Go, Sendable, Notice, CheckNotice
<1>7. \A m : Clear(m)' => Clear(m)
  BY <1>0, WhatsAppAssumption, SMTT(30) DEF HookType, JobFits, StatusEvents, Clear, Unfailed, Arrived, Absent, Go, Sendable, Notice, CheckNotice
<1>8. Ranked'
  BY <1>0, <1>7, WhatsAppAssumption, RankType, SMTT(30) DEF HookType, JobFits, InboundEvents, StatusEvents, Ranked, Shown, SomeAtWork, AtWork, Go, Sendable, Notice, CheckNotice
<1> QED BY <1>1, <1>2, <1>3, <1>4, <1>5, <1>6, <1>8 DEF FlowInv

\* The notice is done.
LEMMA CheckReplyFlows ==
    ASSUME HandlerInv, FlowInv, NEW u \in Handlers, CheckReply(u)
    PROVE  FlowInv'
<1> USE DEF outboxVars, rowVars, ledgerVars, workerVars, hookVars, handlerVars, legacyVars
<1>0. /\ HookType /\ (\A h \in Handlers : JobFits(h)) /\ Counting
      /\ Within /\ Recorded /\ Reached /\ Arrived /\ Rising /\ Matched /\ Ranked
  BY DEF HandlerInv, FlowInv
<1>1. Within' /\ (Calm' => Calm)
  BY <1>0 DEF Within, Calm, Go, CheckReply
<1>2. Recorded'
  BY <1>0, WhatsAppAssumption, SMTT(30) DEF HookType, JobFits, InboundEvents, StatusEvents, Recorded, Go, CheckReply
<1>3. Reached'
  BY <1>0, <1>1, WhatsAppAssumption, SMTT(30) DEF HookType, JobFits, Counting, InboundEvents, Reached, SomeAtWork, AtWork, Go, CheckReply
<1>4. Arrived'
  BY <1>0, WhatsAppAssumption, SMTT(30) DEF HookType, JobFits, Arrived, Absent, Go, CheckReply
<1>5. Rising'
  BY <1>0, WhatsAppAssumption, RankType, SMTT(30) DEF HookType, JobFits, Rising, Go, CheckReply
<1>6. Matched'
  BY <1>0, WhatsAppAssumption, SMTT(30) DEF HookType, JobFits, InboundEvents, StatusEvents, Matched, Shown, SomeAtWork, AtWork, Go, CheckReply
<1>7. \A m : Clear(m)' => Clear(m)
  BY <1>0, WhatsAppAssumption, SMTT(30) DEF HookType, JobFits, StatusEvents, Clear, Unfailed, Arrived, Absent, Go, CheckReply
<1>8. Ranked'
  BY <1>0, <1>7, WhatsAppAssumption, RankType, SMTT(30) DEF HookType, JobFits, InboundEvents, StatusEvents, Ranked, Shown, SomeAtWork, AtWork, Go, CheckReply
<1> QED BY <1>1, <1>2, <1>3, <1>4, <1>5, <1>6, <1>8 DEF FlowInv

\* An event is put away as it was handled.
LEMMA MarkEventFlows ==
    ASSUME HandlerInv, FlowInv, NEW u \in Handlers, MarkEvent(u)
    PROVE  FlowInv'
<1> USE DEF outboxVars, rowVars, ledgerVars, workerVars, hookVars, handlerVars, legacyVars
<1>0. /\ HookType /\ (\A h \in Handlers : JobFits(h)) /\ Counting
      /\ Within /\ Recorded /\ Reached /\ Arrived /\ Rising /\ Matched /\ Ranked
  BY DEF HandlerInv, FlowInv
<1>1. Within' /\ (Calm' => Calm)
  BY <1>0 DEF Within, Calm, Go, Finish, AfterIngest, MarkEvent
<1>2. Recorded'
  BY <1>0, WhatsAppAssumption, SMTT(30) DEF HookType, JobFits, InboundEvents, StatusEvents, Recorded, Go, Finish, AfterIngest, MarkEvent
<1>3. Reached'
  BY <1>0, <1>1, WhatsAppAssumption, SMTT(30) DEF HookType, JobFits, Counting, InboundEvents, Reached, SomeAtWork, AtWork, Go, Finish, AfterIngest, MarkEvent
<1>4. Arrived'
  BY <1>0, WhatsAppAssumption, SMTT(30) DEF HookType, JobFits, Arrived, Absent, Go, Finish, AfterIngest, MarkEvent
<1>5. Rising'
  BY <1>0, WhatsAppAssumption, RankType, SMTT(30) DEF HookType, JobFits, Rising, Go, Finish, AfterIngest, MarkEvent
<1>6. Matched'
  BY <1>0, WhatsAppAssumption, SMTT(30) DEF HookType, JobFits, InboundEvents, StatusEvents, Matched, Shown, SomeAtWork, AtWork, Go, Finish, AfterIngest, MarkEvent
<1>7. \A m : Clear(m)' => Clear(m)
  BY <1>0, WhatsAppAssumption, SMTT(30) DEF HookType, JobFits, StatusEvents, Clear, Unfailed, Arrived, Absent, Go, Finish, AfterIngest, MarkEvent
<1>8. Ranked'
  BY <1>0, <1>7, WhatsAppAssumption, RankType, SMTT(30) DEF HookType, JobFits, InboundEvents, StatusEvents, Ranked, Shown, SomeAtWork, AtWork, Go, Finish, AfterIngest, MarkEvent
<1> QED BY <1>1, <1>2, <1>3, <1>4, <1>5, <1>6, <1>8 DEF FlowInv

\* A failed event is not handled yet.
LEMMA MarkEventFailedFlows ==
    ASSUME HandlerInv, FlowInv, NEW u \in Handlers, MarkEventFailed(u)
    PROVE  FlowInv'
<1> USE DEF outboxVars, rowVars, ledgerVars, workerVars, hookVars, handlerVars, legacyVars
<1>0. /\ HookType /\ (\A h \in Handlers : JobFits(h)) /\ Counting
      /\ Within /\ Recorded /\ Reached /\ Arrived /\ Rising /\ Matched /\ Ranked
  BY DEF HandlerInv, FlowInv
<1>1. Within' /\ (Calm' => Calm)
  BY <1>0 DEF Within, Calm, Go, Finish, AfterIngest, MarkEventFailed
<1>2. Recorded'
  BY <1>0, WhatsAppAssumption, SMTT(30) DEF HookType, JobFits, InboundEvents, StatusEvents, Recorded, Go, Finish, AfterIngest, MarkEventFailed
<1>3. Reached'
  BY <1>0, <1>1, WhatsAppAssumption, SMTT(30) DEF HookType, JobFits, Counting, InboundEvents, Reached, SomeAtWork, AtWork, Go, Finish, AfterIngest, MarkEventFailed
<1>4. Arrived'
  BY <1>0, WhatsAppAssumption, SMTT(30) DEF HookType, JobFits, Arrived, Absent, Go, Finish, AfterIngest, MarkEventFailed
<1>5. Rising'
  BY <1>0, WhatsAppAssumption, RankType, SMTT(30) DEF HookType, JobFits, Rising, Go, Finish, AfterIngest, MarkEventFailed
<1>6. Matched'
  BY <1>0, WhatsAppAssumption, SMTT(30) DEF HookType, JobFits, InboundEvents, StatusEvents, Matched, Shown, SomeAtWork, AtWork, Go, Finish, AfterIngest, MarkEventFailed
<1>7. \A m : Clear(m)' => Clear(m)
  BY <1>0, WhatsAppAssumption, SMTT(30) DEF HookType, JobFits, StatusEvents, Clear, Unfailed, Arrived, Absent, Go, Finish, AfterIngest, MarkEventFailed
<1>8. Ranked'
  BY <1>0, <1>7, WhatsAppAssumption, RankType, SMTT(30) DEF HookType, JobFits, InboundEvents, StatusEvents, Ranked, Shown, SomeAtWork, AtWork, Go, Finish, AfterIngest, MarkEventFailed
<1> QED BY <1>1, <1>2, <1>3, <1>4, <1>5, <1>6, <1>8 DEF FlowInv

\* A failed statement is a fault.
LEMMA HandlerThrowsFlows ==
    ASSUME HandlerInv, FlowInv, NEW u \in Handlers, HandlerThrows(u)
    PROVE  FlowInv'
<1> USE DEF outboxVars, rowVars, ledgerVars, workerVars, hookVars, handlerVars, legacyVars
<1>0. /\ HookType /\ (\A h \in Handlers : JobFits(h)) /\ Counting
      /\ Within /\ Recorded /\ Reached /\ Arrived /\ Rising /\ Matched /\ Ranked
  BY DEF HandlerInv, FlowInv
<1>1. Within' /\ ~ Calm'
  <2>1. traffic' = traffic /\ budget > 0 /\ budget' = budget - 1
    BY DEF HandlerThrows, SpendFault
  <2> QED BY <1>0, <2>1 DEF Within, Calm
<1>2. Recorded'
  BY <1>0, WhatsAppAssumption, SMTT(30) DEF HookType, JobFits, InboundEvents, StatusEvents, Recorded, Go, SpendFault, OutboxButBudget, HandlerThrows
<1>3. Reached'
  BY <1>1 DEF Reached
<1>4. Arrived'
  BY <1>0, WhatsAppAssumption, SMTT(30) DEF HookType, JobFits, Arrived, Absent, Go, SpendFault, OutboxButBudget, HandlerThrows
<1>5. Rising'
  BY <1>0, WhatsAppAssumption, RankType, SMTT(30) DEF HookType, JobFits, Rising, Go, SpendFault, OutboxButBudget, HandlerThrows
<1>6. Matched'
  BY <1>0, WhatsAppAssumption, SMTT(30) DEF HookType, JobFits, InboundEvents, StatusEvents, Matched, Shown, SomeAtWork, AtWork, Go, SpendFault, OutboxButBudget, HandlerThrows
<1>7. \A m : Clear(m)' => Clear(m)
  BY <1>0, WhatsAppAssumption, SMTT(30) DEF HookType, JobFits, StatusEvents, Clear, Unfailed, Arrived, Absent, Go, SpendFault, OutboxButBudget, HandlerThrows
<1>8. Ranked'
  BY <1>0, <1>7, WhatsAppAssumption, RankType, SMTT(30) DEF HookType, JobFits, InboundEvents, StatusEvents, Ranked, Shown, SomeAtWork, AtWork, Go, SpendFault, OutboxButBudget, HandlerThrows
<1> QED BY <1>1, <1>2, <1>3, <1>4, <1>5, <1>6, <1>8 DEF FlowInv

\* A notice that cannot be queued is a fault.
LEMMA QueueingFailsFlows ==
    ASSUME HandlerInv, FlowInv, NEW u \in Handlers, QueueingFails(u)
    PROVE  FlowInv'
<1> USE DEF outboxVars, rowVars, ledgerVars, workerVars, hookVars, handlerVars, legacyVars
<1>0. /\ HookType /\ (\A h \in Handlers : JobFits(h)) /\ Counting
      /\ Within /\ Recorded /\ Reached /\ Arrived /\ Rising /\ Matched /\ Ranked
  BY DEF HandlerInv, FlowInv
<1>1. Within' /\ ~ Calm'
  <2>1. traffic' = traffic /\ budget > 0 /\ budget' = budget - 1
    BY DEF QueueingFails, SpendFault
  <2> QED BY <1>0, <2>1 DEF Within, Calm
<1>2. Recorded'
  BY <1>0, WhatsAppAssumption, SMTT(30) DEF HookType, JobFits, InboundEvents, StatusEvents, Recorded, Go, SpendFault, OutboxButBudget, QueueingFails
<1>3. Reached'
  BY <1>1 DEF Reached
<1>4. Arrived'
  BY <1>0, WhatsAppAssumption, SMTT(30) DEF HookType, JobFits, Arrived, Absent, Go, SpendFault, OutboxButBudget, QueueingFails
<1>5. Rising'
  BY <1>0, WhatsAppAssumption, RankType, SMTT(30) DEF HookType, JobFits, Rising, Go, SpendFault, OutboxButBudget, QueueingFails
<1>6. Matched'
  BY <1>0, WhatsAppAssumption, SMTT(30) DEF HookType, JobFits, InboundEvents, StatusEvents, Matched, Shown, SomeAtWork, AtWork, Go, SpendFault, OutboxButBudget, QueueingFails
<1>7. \A m : Clear(m)' => Clear(m)
  BY <1>0, WhatsAppAssumption, SMTT(30) DEF HookType, JobFits, StatusEvents, Clear, Unfailed, Arrived, Absent, Go, SpendFault, OutboxButBudget, QueueingFails
<1>8. Ranked'
  BY <1>0, <1>7, WhatsAppAssumption, RankType, SMTT(30) DEF HookType, JobFits, InboundEvents, StatusEvents, Ranked, Shown, SomeAtWork, AtWork, Go, SpendFault, OutboxButBudget, QueueingFails
<1> QED BY <1>1, <1>2, <1>3, <1>4, <1>5, <1>6, <1>8 DEF FlowInv

\* A crash is a fault.
LEMMA HandlerCrashesFlows ==
    ASSUME HandlerInv, FlowInv, NEW u \in Handlers, HandlerCrashes(u)
    PROVE  FlowInv'
<1> USE DEF outboxVars, rowVars, ledgerVars, workerVars, hookVars, handlerVars, legacyVars
<1>0. /\ HookType /\ (\A h \in Handlers : JobFits(h)) /\ Counting
      /\ Within /\ Recorded /\ Reached /\ Arrived /\ Rising /\ Matched /\ Ranked
  BY DEF HandlerInv, FlowInv
<1>1. Within' /\ ~ Calm'
  <2>1. traffic' = traffic /\ budget > 0 /\ budget' = budget - 1
    BY DEF HandlerCrashes, SpendFault
  <2> QED BY <1>0, <2>1 DEF Within, Calm
<1>2. Recorded'
  BY <1>0, WhatsAppAssumption, SMTT(30) DEF HookType, JobFits, InboundEvents, StatusEvents, Recorded, Go, SpendFault, OutboxButBudget, HandlerCrashes
<1>3. Reached'
  BY <1>1 DEF Reached
<1>4. Arrived'
  BY <1>0, WhatsAppAssumption, SMTT(30) DEF HookType, JobFits, Arrived, Absent, Go, SpendFault, OutboxButBudget, HandlerCrashes
<1>5. Rising'
  BY <1>0, WhatsAppAssumption, RankType, SMTT(30) DEF HookType, JobFits, Rising, Go, SpendFault, OutboxButBudget, HandlerCrashes
<1>6. Matched'
  BY <1>0, WhatsAppAssumption, SMTT(30) DEF HookType, JobFits, InboundEvents, StatusEvents, Matched, Shown, SomeAtWork, AtWork, Go, SpendFault, OutboxButBudget, HandlerCrashes
<1>7. \A m : Clear(m)' => Clear(m)
  BY <1>0, WhatsAppAssumption, SMTT(30) DEF HookType, JobFits, StatusEvents, Clear, Unfailed, Arrived, Absent, Go, SpendFault, OutboxButBudget, HandlerCrashes
<1>8. Ranked'
  BY <1>0, <1>7, WhatsAppAssumption, RankType, SMTT(30) DEF HookType, JobFits, InboundEvents, StatusEvents, Ranked, Shown, SomeAtWork, AtWork, Go, SpendFault, OutboxButBudget, HandlerCrashes
<1> QED BY <1>1, <1>2, <1>3, <1>4, <1>5, <1>6, <1>8 DEF FlowInv

\* The retention drops events that came.
LEMMA CleanupFlows ==
    ASSUME HandlerInv, FlowInv, NEW x \in Events, Cleanup(x)
    PROVE  FlowInv'
<1> USE DEF outboxVars, rowVars, ledgerVars, workerVars, hookVars, handlerVars, legacyVars
<1>0. /\ HookType /\ (\A h \in Handlers : JobFits(h)) /\ Counting
      /\ Within /\ Recorded /\ Reached /\ Arrived /\ Rising /\ Matched /\ Ranked
  BY DEF HandlerInv, FlowInv
<1>1. Within' /\ (Calm' => Calm)
  BY <1>0 DEF Within, Calm, Cleanup
<1>2. Recorded'
  BY <1>0, WhatsAppAssumption, SMTT(30) DEF HookType, JobFits, InboundEvents, StatusEvents, Recorded, Cleanup
<1>3. Reached'
  BY <1>0, <1>1, WhatsAppAssumption, SMTT(30) DEF HookType, JobFits, Counting, InboundEvents, Reached, SomeAtWork, AtWork, Cleanup
<1>4. Arrived'
  BY <1>0, WhatsAppAssumption, SMTT(30) DEF HookType, JobFits, Arrived, Absent, Cleanup
<1>5. Rising'
  BY <1>0, WhatsAppAssumption, RankType, SMTT(30) DEF HookType, JobFits, Rising, Cleanup
<1>6. Matched'
  BY <1>0, WhatsAppAssumption, SMTT(30) DEF HookType, JobFits, InboundEvents, StatusEvents, Matched, Shown, SomeAtWork, AtWork, Cleanup
<1>7. \A m : Clear(m)' => Clear(m)
  BY <1>0, WhatsAppAssumption, SMTT(30) DEF HookType, JobFits, StatusEvents, Clear, Unfailed, Arrived, Absent, Cleanup
<1>8. Ranked'
  BY <1>0, <1>7, WhatsAppAssumption, RankType, SMTT(30) DEF HookType, JobFits, InboundEvents, StatusEvents, Ranked, Shown, SomeAtWork, AtWork, Cleanup
<1> QED BY <1>1, <1>2, <1>3, <1>4, <1>5, <1>6, <1>8 DEF FlowInv

\* Reading changes nothing.
LEMMA LegacyReadFlows ==
    ASSUME HandlerInv, FlowInv, NEW u \in Handlers, LegacyRead(u)
    PROVE  FlowInv'
<1> USE DEF outboxVars, rowVars, ledgerVars, workerVars, hookVars, handlerVars, legacyVars
<1>0. /\ HookType /\ (\A h \in Handlers : JobFits(h)) /\ Counting
      /\ Within /\ Recorded /\ Reached /\ Arrived /\ Rising /\ Matched /\ Ranked
  BY DEF HandlerInv, FlowInv
<1>1. Within' /\ (Calm' => Calm)
  BY <1>0 DEF Within, Calm, Go, NotesOf, LegacyRead
<1>2. Recorded'
  BY <1>0, WhatsAppAssumption, SMTT(30) DEF HookType, JobFits, InboundEvents, StatusEvents, Recorded, Go, NotesOf, LegacyRead
<1>3. Reached'
  BY <1>0, <1>1, WhatsAppAssumption, SMTT(30) DEF HookType, JobFits, Counting, InboundEvents, Reached, SomeAtWork, AtWork, Go, NotesOf, LegacyRead
<1>4. Arrived'
  BY <1>0, WhatsAppAssumption, SMTT(30) DEF HookType, JobFits, Arrived, Absent, Go, NotesOf, LegacyRead
<1>5. Rising'
  BY <1>0, WhatsAppAssumption, RankType, SMTT(30) DEF HookType, JobFits, Rising, Go, NotesOf, LegacyRead
<1>6. Matched'
  BY <1>0, WhatsAppAssumption, SMTT(30) DEF HookType, JobFits, InboundEvents, StatusEvents, Matched, Shown, SomeAtWork, AtWork, Go, NotesOf, LegacyRead
<1>7. \A m : Clear(m)' => Clear(m)
  BY <1>0, WhatsAppAssumption, SMTT(30) DEF HookType, JobFits, StatusEvents, Clear, Unfailed, Arrived, Absent, Go, NotesOf, LegacyRead
<1>8. Ranked'
  BY <1>0, <1>7, WhatsAppAssumption, RankType, SMTT(30) DEF HookType, JobFits, InboundEvents, StatusEvents, Ranked, Shown, SomeAtWork, AtWork, Go, NotesOf, LegacyRead
<1> QED BY <1>1, <1>2, <1>3, <1>4, <1>5, <1>6, <1>8 DEF FlowInv

\* The handler that stores the message goes on to its note.
LEMMA LegacyStoreFlows ==
    ASSUME HandlerInv, FlowInv, NEW u \in Handlers, LegacyStore(u)
    PROVE  FlowInv'
<1> USE DEF outboxVars, rowVars, ledgerVars, workerVars, hookVars, handlerVars, legacyVars
<1>0. /\ HookType /\ (\A h \in Handlers : JobFits(h)) /\ Counting
      /\ Within /\ Recorded /\ Reached /\ Arrived /\ Rising /\ Matched /\ Ranked
  BY DEF HandlerInv, FlowInv
<1>1. Within' /\ (Calm' => Calm)
  BY <1>0 DEF Within, Calm, Go, LegacyStore
<1>2. Recorded'
  BY <1>0, WhatsAppAssumption, SMTT(30) DEF HookType, JobFits, InboundEvents, StatusEvents, Recorded, Go, LegacyStore
<1>3. Reached'
  BY <1>0, <1>1, WhatsAppAssumption, SMTT(30) DEF HookType, JobFits, Counting, InboundEvents, Reached, SomeAtWork, AtWork, Go, LegacyStore
<1>4. Arrived'
  BY <1>0, WhatsAppAssumption, SMTT(30) DEF HookType, JobFits, Arrived, Absent, Go, LegacyStore
<1>5. Rising'
  BY <1>0, WhatsAppAssumption, RankType, SMTT(30) DEF HookType, JobFits, Rising, Go, LegacyStore
<1>6. Matched'
  BY <1>0, WhatsAppAssumption, SMTT(30) DEF HookType, JobFits, InboundEvents, StatusEvents, Matched, Shown, SomeAtWork, AtWork, Go, LegacyStore
<1>7. \A m : Clear(m)' => Clear(m)
  BY <1>0, WhatsAppAssumption, SMTT(30) DEF HookType, JobFits, StatusEvents, Clear, Unfailed, Arrived, Absent, Go, LegacyStore
<1>8. Ranked'
  BY <1>0, <1>7, WhatsAppAssumption, RankType, SMTT(30) DEF HookType, JobFits, InboundEvents, StatusEvents, Ranked, Shown, SomeAtWork, AtWork, Go, LegacyStore
<1> QED BY <1>1, <1>2, <1>3, <1>4, <1>5, <1>6, <1>8 DEF FlowInv

\* The note is added, or the customer's comments were written meanwhile.
LEMMA LegacyNoteFlows ==
    ASSUME HandlerInv, FlowInv, NEW u \in Handlers, LegacyNote(u)
    PROVE  FlowInv'
<1> USE DEF outboxVars, rowVars, ledgerVars, workerVars, hookVars, handlerVars, legacyVars
<1>0. /\ HookType /\ (\A h \in Handlers : JobFits(h)) /\ Counting
      /\ Within /\ Recorded /\ Reached /\ Arrived /\ Rising /\ Matched /\ Ranked
  BY DEF HandlerInv, FlowInv
<1>1. Within' /\ (Calm' => Calm)
  BY <1>0 DEF Within, Calm, Go, NotesOf, NotesWritten, LegacyNote
<1>2. Recorded'
  BY <1>0, WhatsAppAssumption, SMTT(30) DEF HookType, JobFits, InboundEvents, StatusEvents, Recorded, Go, NotesOf, NotesWritten, LegacyNote
<1>3. Reached'
  BY <1>0, <1>1, WhatsAppAssumption, SMTT(30) DEF HookType, JobFits, Counting, InboundEvents, Reached, SomeAtWork, AtWork, Go, NotesOf, NotesWritten, LegacyNote
<1>4. Arrived'
  BY <1>0, WhatsAppAssumption, SMTT(30) DEF HookType, JobFits, Arrived, Absent, Go, NotesOf, NotesWritten, LegacyNote
<1>5. Rising'
  BY <1>0, WhatsAppAssumption, RankType, SMTT(30) DEF HookType, JobFits, Rising, Go, NotesOf, NotesWritten, LegacyNote
<1>6. Matched'
  BY <1>0, WhatsAppAssumption, SMTT(30) DEF HookType, JobFits, InboundEvents, StatusEvents, Matched, Shown, SomeAtWork, AtWork, Go, NotesOf, NotesWritten, LegacyNote
<1>7. \A m : Clear(m)' => Clear(m)
  BY <1>0, WhatsAppAssumption, SMTT(30) DEF HookType, JobFits, StatusEvents, Clear, Unfailed, Arrived, Absent, Go, NotesOf, NotesWritten, LegacyNote
<1>8. Ranked'
  BY <1>0, <1>7, WhatsAppAssumption, RankType, SMTT(30) DEF HookType, JobFits, InboundEvents, StatusEvents, Ranked, Shown, SomeAtWork, AtWork, Go, NotesOf, NotesWritten, LegacyNote
<1> QED BY <1>1, <1>2, <1>3, <1>4, <1>5, <1>6, <1>8 DEF FlowInv

\* A request changes no event.
LEMMA RequestPassesFlows ==
    ASSUME HandlerInv, FlowInv, NEW x \in Messages, RequestPasses(x)
    PROVE  FlowInv'
<1> USE DEF outboxVars, rowVars, ledgerVars, workerVars, hookVars, handlerVars, legacyVars
<1>0. /\ HookType /\ (\A h \in Handlers : JobFits(h)) /\ Counting
      /\ Within /\ Recorded /\ Reached /\ Arrived /\ Rising /\ Matched /\ Ranked
  BY DEF HandlerInv, FlowInv
<1>1. Within' /\ (Calm' => Calm)
  BY <1>0 DEF Within, Calm, RequestPasses
<1>2. Recorded'
  BY <1>0, WhatsAppAssumption, SMTT(30) DEF HookType, JobFits, InboundEvents, StatusEvents, Recorded, RequestPasses
<1>3. Reached'
  BY <1>0, <1>1, WhatsAppAssumption, SMTT(30) DEF HookType, JobFits, Counting, InboundEvents, Reached, SomeAtWork, AtWork, RequestPasses
<1>4. Arrived'
  BY <1>0, WhatsAppAssumption, SMTT(30) DEF HookType, JobFits, Arrived, Absent, RequestPasses
<1>5. Rising'
  BY <1>0, WhatsAppAssumption, RankType, SMTT(30) DEF HookType, JobFits, Rising, RequestPasses
<1>6. Matched'
  BY <1>0, WhatsAppAssumption, SMTT(30) DEF HookType, JobFits, InboundEvents, StatusEvents, Matched, Shown, SomeAtWork, AtWork, RequestPasses
<1>7. \A m : Clear(m)' => Clear(m)
  BY <1>0, WhatsAppAssumption, SMTT(30) DEF HookType, JobFits, StatusEvents, Clear, Unfailed, Arrived, Absent, RequestPasses
<1>8. Ranked'
  BY <1>0, <1>7, WhatsAppAssumption, RankType, SMTT(30) DEF HookType, JobFits, InboundEvents, StatusEvents, Ranked, Shown, SomeAtWork, AtWork, RequestPasses
<1> QED BY <1>1, <1>2, <1>3, <1>4, <1>5, <1>6, <1>8 DEF FlowInv

\* The window changes no event.
LEMMA WindowClosesFlows ==
    ASSUME HandlerInv, FlowInv, NEW x \in Customers, WindowCloses(x)
    PROVE  FlowInv'
<1> USE DEF outboxVars, rowVars, ledgerVars, workerVars, hookVars, handlerVars, legacyVars
<1>0. /\ HookType /\ (\A h \in Handlers : JobFits(h)) /\ Counting
      /\ Within /\ Recorded /\ Reached /\ Arrived /\ Rising /\ Matched /\ Ranked
  BY DEF HandlerInv, FlowInv
<1>1. Within' /\ (Calm' => Calm)
  BY <1>0 DEF Within, Calm, WindowCloses
<1>2. Recorded'
  BY <1>0, WhatsAppAssumption, SMTT(30) DEF HookType, JobFits, InboundEvents, StatusEvents, Recorded, WindowCloses
<1>3. Reached'
  BY <1>0, <1>1, WhatsAppAssumption, SMTT(30) DEF HookType, JobFits, Counting, InboundEvents, Reached, SomeAtWork, AtWork, WindowCloses
<1>4. Arrived'
  BY <1>0, WhatsAppAssumption, SMTT(30) DEF HookType, JobFits, Arrived, Absent, WindowCloses
<1>5. Rising'
  BY <1>0, WhatsAppAssumption, RankType, SMTT(30) DEF HookType, JobFits, Rising, WindowCloses
<1>6. Matched'
  BY <1>0, WhatsAppAssumption, SMTT(30) DEF HookType, JobFits, InboundEvents, StatusEvents, Matched, Shown, SomeAtWork, AtWork, WindowCloses
<1>7. \A m : Clear(m)' => Clear(m)
  BY <1>0, WhatsAppAssumption, SMTT(30) DEF HookType, JobFits, StatusEvents, Clear, Unfailed, Arrived, Absent, WindowCloses
<1>8. Ranked'
  BY <1>0, <1>7, WhatsAppAssumption, RankType, SMTT(30) DEF HookType, JobFits, InboundEvents, StatusEvents, Ranked, Shown, SomeAtWork, AtWork, WindowCloses
<1> QED BY <1>1, <1>2, <1>3, <1>4, <1>5, <1>6, <1>8 DEF FlowInv

\* Queueing from the automation: the notice is there, and the handler goes on.
LEMMA QueueingFlows ==
    ASSUME OutboxInv, HandlerInv, AllSettled, FlowInv, NEW u \in Handlers,
           QueueNotice(u) \/ QueueReply(u)
    PROVE  AllSettled' /\ FlowInv'
<1> USE DEF outboxVars, rowVars, ledgerVars, workerVars, hookVars, legacyVars
<1>0. /\ HookType /\ (\A h \in Handlers : JobFits(h)) /\ Counting /\ CoreType
      /\ Within /\ Recorded /\ Reached /\ Arrived /\ Rising /\ Matched /\ Ranked
  BY DEF HandlerInv, OutboxInv, FlowInv
<1>1. LedgerMoves /\ budget' = budget
  <2>1. CASE UNCHANGED outboxVars
    <3>1. UNCHANGED core /\ UNCHANGED <<entry, wamid, budget>>
      BY <2>1 DEF core
    <3>2. AllSettled'
      BY <3>1, HandlersSettle
    <3> QED BY <2>1, <3>1, <3>2 DEF LedgerMoves, LedgerStays
  <2>2. ASSUME NEW x \in Messages, Enqueue(x)
        PROVE  LedgerMoves /\ budget' = budget
    BY <2>2, EnqueueSettles, EnqueueTypes
  <2>3. UNCHANGED outboxVars \/ \E x \in Messages : Enqueue(x)
    <3>1. CASE QueueNotice(u)
      <4>1. Notice(job[u]) \in Messages
        BY <1>0, <3>1, WhatsAppAssumption DEF QueueNotice, JobFits, HookType
      <4> QED BY <3>1, <4>1, Zenon DEF QueueNotice
    <3>2. CASE QueueReply(u)
      <4> DEFINE m == AutoReply(job[u].from)
      <4>1. UNCHANGED outboxVars \/ Enqueue(m)
        BY <3>2, Zenon DEF QueueReply
      <4>2. CASE m \in Messages
        BY <4>1, <4>2, Zenon
      <4>3. CASE m \notin Messages /\ Enqueue(m)
        <5>1. row' = row /\ entry' = entry
          BY <1>0, <4>3 DEF Enqueue, CoreType, HookType
        <5> QED BY <4>3, <5>1 DEF Enqueue
      <4> QED BY <4>1, <4>2, <4>3
    <3> QED BY <3>1, <3>2
  <2> QED BY <2>1, <2>2, <2>3
<1>2. /\ hpc[u] \in {"notice", "answer"}
      /\ hpc' = [hpc EXCEPT ![u] = IF hpc[u] = "notice" THEN "reply" ELSE "handled"]
      /\ traffic' = traffic /\ event' = event /\ recorded' = recorded /\ counted' = counted
      /\ raced' = raced /\ job' = job /\ mine' = mine /\ seen' = seen
      /\ stored' = stored /\ notes' = notes
  BY DEF QueueNotice, QueueReply, Go
<1>3. hpc[u] = "notice" => row'[Notice(job[u])] # "none"
  BY <1>0, WhatsAppAssumption DEF HookType, JobFits, CoreType, QueueNotice, QueueReply, Enqueue
<1>4. job[u] \in InboundEvents
  BY <1>0, <1>2 DEF JobFits
<1>5. Within' /\ (Calm' => Calm)
  BY <1>0, <1>1, <1>2 DEF Within, Calm
<1>6. Recorded'
  BY <1>0, <1>2, SMTT(30) DEF HookType, Recorded
<1>7. Reached'
  <2>1. \A e \in counted : row[Notice(e)] # "none" => row'[Notice(e)] # "none"
    BY <1>0, <1>1, WhatsAppAssumption DEF HookType, Counting, LedgerMoves, LedgerStays
  <2> QED BY <1>0, <1>2, <1>3, <1>5, <2>1, SMTT(30) DEF HookType, Reached, SomeAtWork, AtWork
<1>8. Arrived'
  BY <1>0, <1>2, SMTT(30) DEF HookType, Arrived, Absent
<1>9. Rising'
  BY <1>0, <1>2, SMTT(30) DEF HookType, Rising
<1>10. \A e \in StatusEvents : /\ Shown(e)' => Shown(e)
                               /\ SomeAtWork(e, {"write"})' => SomeAtWork(e, {"write"})
                               /\ e.m \in Messages /\ e.k # 0
  BY <1>0, <1>2, <1>4, WhatsAppAssumption, SMTT(30) DEF HookType, Shown, SomeAtWork, AtWork, InboundEvents, StatusEvents
<1>11. Matched'
  BY <1>0, <1>1, <1>10 DEF Matched, LedgerMoves, LedgerStays
<1>12. \A e \in StatusEvents : Clear(e.m)' => Clear(e.m)
  BY <1>1, <1>2, <1>10 DEF Clear, Unfailed, Absent, LedgerMoves, LedgerStays
<1>13. Ranked'
  BY <1>0, <1>1, <1>10, <1>12 DEF Matched, Ranked, LedgerMoves, LedgerStays, Clear
<1> QED BY <1>1, <1>5, <1>6, <1>7, <1>8, <1>9, <1>11, <1>13 DEF FlowInv, LedgerMoves

\* What the ledger shows and what the events leave behind, together.
LedgerInv == AllSettled /\ FlowInv

\* Every step keeps the ledger and the events in order.
LEMMA NextFlows ==
    ASSUME OutboxInv, HandlerInv, HandlerInv', LedgerInv, Next
    PROVE  LedgerInv'
<1> USE DEF LedgerInv
<1>0. budget' \in Nat
  BY DEF HandlerInv, HookType
<1>1. CASE OutboxRuns
  <2>1. UNCHANGED <<traffic, hookVars, handlerVars, legacyVars>>
    BY <1>1 DEF OutboxRuns
  <2>2. LedgerMoves /\ BudgetMoves
    BY <1>1, OutboxRunsSettles
  <2> QED BY <1>0, <2>1, <2>2, OutboxFlows DEF LedgerMoves
<1>2. ASSUME NEW m \in Messages, QueueRequest(m) \/ OperatorCancels(m) PROVE LedgerInv'
  <2>1. UNCHANGED <<traffic, hookVars, handlerVars, legacyVars>>
    BY <1>2 DEF QueueRequest, OperatorCancels
  <2>2. LedgerMoves /\ BudgetMoves
    BY <1>2, EnqueueSettles, CancelSettles DEF QueueRequest, OperatorCancels
  <2> QED BY <1>0, <2>1, <2>2, OutboxFlows DEF LedgerMoves
<1>3. ASSUME NEW m \in Messages, RequestPasses(m) PROVE LedgerInv'
  <2>1. UNCHANGED <<core, entry, wamid>>
    BY <1>3 DEF RequestPasses, core, outboxVars, rowVars, ledgerVars, workerVars
  <2> QED BY <1>3, <2>1, HandlersSettle, RequestPassesFlows
<1>4. ASSUME NEW c \in Customers, WindowCloses(c) PROVE LedgerInv'
  <2>1. UNCHANGED <<core, entry, wamid>>
    BY <1>4 DEF WindowCloses, core, outboxVars, rowVars, ledgerVars, workerVars
  <2> QED BY <1>4, <2>1, HandlersSettle, WindowClosesFlows
<1>5. ASSUME NEW e \in Events, Cleanup(e) PROVE LedgerInv'
  <2>1. UNCHANGED <<core, entry, wamid>>
    BY <1>5 DEF Cleanup, core, outboxVars, rowVars, ledgerVars, workerVars
  <2> QED BY <1>5, <2>1, HandlersSettle, CleanupFlows
<1>6. ASSUME NEW h \in Handlers, NEW e \in Events, Post(h, e) \/ PostAgain(h, e) PROVE LedgerInv'
  <2>1. UNCHANGED <<core, entry, wamid>>
    BY <1>6 DEF Post, PostAgain, core, outboxVars, rowVars, ledgerVars, workerVars
  <2> QED BY <1>6, <2>1, HandlersSettle, PostFlows, PostAgainFlows
<1>7. ASSUME NEW h \in Handlers, HandlerThrows(h) \/ QueueingFails(h) \/ HandlerCrashes(h)
      PROVE LedgerInv'
  <2>1. UNCHANGED <<core, entry, wamid>>
    BY <1>7 DEF HandlerThrows, QueueingFails, HandlerCrashes, OutboxButBudget, core, rowVars,
                ledgerVars, workerVars
  <2> QED BY <1>7, <2>1, HandlersSettle, HandlerThrowsFlows, QueueingFailsFlows, HandlerCrashesFlows
<1>8. ASSUME NEW h \in Handlers, StartJob(h) PROVE LedgerInv'
  <2>1. UNCHANGED <<core, entry, wamid>>
    BY <1>8 DEF StartJob, core, outboxVars, rowVars, ledgerVars, workerVars
  <2> QED BY <1>8, <2>1, HandlersSettle, StartJobFlows
<1>9. ASSUME NEW h \in Handlers, HandlerStep(h) PROVE LedgerInv'
  <2>1. CASE QueueNotice(h) \/ QueueReply(h)
    BY <2>1, QueueingFlows
  <2>2. CASE WriteEntry(h)
    <3>1. UNCHANGED <<core, wamid>>
      BY <2>2 DEF WriteEntry, core, rowVars, workerVars
    <3>2. \A m \in Messages : entry'[m] # entry[m] => entry'[m] # "Pending"
      BY <2>2, WhatsAppAssumption DEF WriteEntry, HandlerInv, HookType, JobFits
    <3> QED BY <2>2, <3>1, <3>2, HandlersSettle, WriteEntryFlows
  <2>3. CASE ~ WriteEntry(h) /\ ~ QueueNotice(h) /\ ~ QueueReply(h)
    <3>1. UNCHANGED <<core, entry, wamid>>
      BY <1>9, <2>3 DEF HandlerStep, ClaimEvent, EndEventClaims, NextEvent, ReadEntry, FindRecorded,
            InsertInbound, CountInbound, CheckNotice, CheckReply, MarkEvent, MarkEventFailed, LegacyRead,
            LegacyStore, LegacyNote, core, outboxVars, rowVars, ledgerVars, workerVars
    <3>2. FlowInv'
      BY <1>9, <2>3, ClaimEventFlows, EndEventClaimsFlows, NextEventFlows, ReadEntryFlows,
         FindRecordedFlows, InsertInboundFlows, CountInboundFlows, CheckNoticeFlows, CheckReplyFlows,
         MarkEventFlows, MarkEventFailedFlows, LegacyReadFlows, LegacyStoreFlows, LegacyNoteFlows
         DEF HandlerStep
    <3> QED BY <3>1, <3>2, HandlersSettle
  <2> QED BY <2>1, <2>2, <2>3
<1> QED BY <1>1, <1>2, <1>3, <1>4, <1>5, <1>6, <1>7, <1>8, <1>9 DEF Next

\* The invariant of the ledger and the events holds of every behaviour.
LEMMA LedgerInvariant == Spec => []LedgerInv
<1>1. Init => LedgerInv
  <2> SUFFICES ASSUME Init PROVE LedgerInv
    OBVIOUS
  <2>1. AllSettled
    BY DEF Init, OutboxInit, AllSettled, Settled
  <2>2. Within
    BY OutboxAssumption DEF Init, OutboxInit, Within
  <2>3. /\ Recorded /\ Reached /\ Arrived /\ Rising /\ Matched /\ Ranked
    BY WhatsAppAssumption DEF Init, Recorded, Reached, Arrived, Absent, Rising, Matched, Ranked, Shown,
          SomeAtWork, AtWork, StatusEvents, InboundEvents
  <2> QED BY <2>1, <2>2, <2>3 DEF LedgerInv, FlowInv
<1>2. OutboxInv /\ HandlerInv /\ HandlerInv' /\ LedgerInv /\ [Next]_vars => LedgerInv'
  <2> SUFFICES ASSUME OutboxInv, HandlerInv, HandlerInv', LedgerInv, [Next]_vars PROVE LedgerInv'
    OBVIOUS
  <2>1. CASE UNCHANGED vars
    <3>1. UNCHANGED <<core, entry, wamid, budget, traffic, hookVars, handlerVars, legacyVars>>
      BY <2>1 DEF vars, core, outboxVars, rowVars, ledgerVars, workerVars
    <3>2. AllSettled'
      BY <3>1, HandlersSettle DEF LedgerInv
    <3>3. LedgerMoves /\ BudgetMoves
      BY <3>1, <3>2 DEF LedgerMoves, LedgerStays, BudgetMoves, core
    <3>4. budget' \in Nat
      BY DEF HandlerInv, HookType
    <3>5. FlowInv'
      BY <3>1, <3>3, <3>4, OutboxFlows DEF LedgerInv
    <3> QED BY <3>2, <3>5 DEF LedgerInv
  <2> QED BY <2>1, NextFlows
<1> QED BY <1>1, <1>2, OutboxInvariant, HandlerInvariant, PTL DEF Spec

\* A handled inbound message reached its conversation and its notice was queued, and what
\* the older flow kept is in the manager's comments, for any number of handlers that share
\* an event, lose an insert or read the comments before another one writes them
\* (webhookProcessor.ts, message.service.ts, automation/handlers/incomingMessage.ts).
THEOREM HandledReaches == Spec => []HandledReachesManager
<1>1. HandlerInv /\ LedgerInv => HandledReachesManager
  <2> SUFFICES ASSUME HandlerInv, LedgerInv PROVE HandledReachesManager
    OBVIOUS
  <2>1. ASSUME NEW e \in InboundEvents, event[e] = "Processed", Calm,
               ~ \E h \in Handlers : Handles(h, e)
        PROVE  e \in counted /\ (traffic.automation => row[Notice(e)] # "none")
    <3>1. e \in recorded
      BY <2>1 DEF LedgerInv, FlowInv, Recorded
    <3>2. e \in counted
      BY <2>1, <3>1 DEF LedgerInv, FlowInv, Reached, SomeAtWork, AtWork, Handles
    <3> QED BY <2>1, <3>2 DEF LedgerInv, FlowInv, Reached, SomeAtWork, AtWork, Handles
  <2>2. StoredIsNoted
    BY DEF LedgerInv, FlowInv, Reached, SomeAtWork, AtWork, StoredIsNoted, Calm
  <2> QED BY <2>1, <2>2 DEF HandledReachesManager, Calm
<1> QED BY <1>1, HandlerInvariant, LedgerInvariant, PTL

\* What the ledger's statuses can be, as a formula over a state.
LedgerStatus ==
    /\ LedgerFollowsOutbox
    /\ \A e \in StatusEvents : HandledUncrossed(e) => Rank(entry[e.m]) >= Rank(e.s)

\* Only a handler that writes what it decided from an older status lowers the ledger.
LEMMA LoweringStep ==
    ASSUME OutboxInv, HandlerInv, LedgerInv, [Next]_vars,
           NEW m \in Messages, Lowered(m)
    PROVE  \E h \in Handlers : WritesStale(h, m)
<1>0. Rank(entry'[m]) < Rank(entry[m]) /\ entry'[m] # "Failed" /\ entry'[m] # entry[m]
  BY RankType DEF Lowered
<1>1. LedgerStays(m) => FALSE
  BY <1>0 DEF LedgerStays, Lowered
<1>2. UNCHANGED entry => FALSE
  BY <1>0
<1>3. OutboxRuns => FALSE
  BY <1>1, OutboxRunsSettles DEF LedgerInv, LedgerMoves
<1>4. \A x \in Messages : ~QueueRequest(x) /\ ~OperatorCancels(x)
  BY <1>1, EnqueueSettles, CancelSettles DEF QueueRequest, OperatorCancels, LedgerMoves, LedgerInv
<1>5. ASSUME NEW h \in Handlers, WriteEntry(h)
      PROVE  \E u \in Handlers : WritesStale(u, m)
  <2> DEFINE e == job[h]
  <2>1. e \in StatusEvents /\ hpc[h] = "write" /\ entry' = [entry EXCEPT ![e.m] = e.s]
    BY <1>5 DEF HandlerInv, JobFits, WriteEntry
  <2>2. e.m \in Messages
    BY <2>1, WhatsAppAssumption
  <2>3. e.m = m /\ entry'[m] = e.s
    BY <1>0, <2>1, <2>2 DEF HandlerInv, HookType, OutboxInv, CoreType
  <2>4. PICK s \in EntryStatus : seen[h] = {EntryRead(s)} /\ Rank(e.s) > Rank(s)
    BY <1>0, <2>1, <2>3 DEF LedgerInv, FlowInv, Rising
  <2>5. s # entry[m]
    BY <1>0, <2>3, <2>4, RankType
  <2> QED BY <2>1, <2>3, <2>4, <2>5 DEF WritesStale
<1>6. ASSUME NEW h \in Handlers, QueueNotice(h) \/ QueueReply(h)
      PROVE  FALSE
  <2>1. \A x \in Messages : ~Enqueue(x)
    BY <1>1, EnqueueSettles DEF LedgerMoves, LedgerInv
  <2>2. CASE QueueNotice(h)
    <3>1. Notice(job[h]) \in Messages
      BY <2>2, WhatsAppAssumption DEF QueueNotice, HandlerInv, JobFits, HookType
    <3>2. UNCHANGED outboxVars
      BY <2>1, <2>2, <3>1, Zenon DEF QueueNotice
    <3> QED BY <1>2, <3>2 DEF outboxVars, ledgerVars
  <2>3. CASE QueueReply(h)
    <3> DEFINE x == AutoReply(job[h].from)
    <3>1. UNCHANGED outboxVars \/ Enqueue(x)
      BY <2>3, Zenon DEF QueueReply
    <3>2. Enqueue(x) /\ x \notin Messages => UNCHANGED entry
      BY DEF Enqueue, HandlerInv, HookType, OutboxInv, CoreType
    <3> QED BY <1>2, <2>1, <3>1, <3>2 DEF outboxVars, ledgerVars
  <2> QED BY <1>6, <2>2, <2>3
<1>7. \A h \in Handlers : HandlerStep(h) =>
          WriteEntry(h) \/ QueueNotice(h) \/ QueueReply(h) \/ UNCHANGED entry
  BY DEF HandlerStep, ClaimEvent, EndEventClaims, NextEvent, ReadEntry, FindRecorded,
        InsertInbound, CountInbound, CheckNotice, CheckReply, MarkEvent, MarkEventFailed, LegacyRead,
        LegacyStore, LegacyNote, outboxVars, ledgerVars
<1>8. /\ \A x \in Messages : ~RequestPasses(x)
      /\ \A c \in Customers : ~WindowCloses(c)
      /\ \A e \in Events : ~Cleanup(e)
      /\ \A h \in Handlers : ~StartJob(h) /\ \A e \in Events : ~Post(h, e) /\ ~PostAgain(h, e)
  BY <1>2 DEF RequestPasses, WindowCloses, Post, PostAgain, StartJob, Cleanup, outboxVars, ledgerVars
<1>9. \A h \in Handlers :
          HandlerThrows(h) \/ QueueingFails(h) \/ HandlerCrashes(h) => UNCHANGED entry
  BY DEF HandlerThrows, QueueingFails, HandlerCrashes, OutboxButBudget, ledgerVars
<1>10. UNCHANGED vars => UNCHANGED entry
  BY DEF vars, outboxVars, ledgerVars
<1> QED BY <1>2, <1>3, <1>4, <1>5, <1>6, <1>7, <1>8, <1>9, <1>10 DEF Next

\* The ledger falls only in the write of a handler that decided from a lower status, which
\* another one has replaced since; where no handler wrote so, it shows each handled status
\* or a later one; and the outbox does not leave it behind.  For any number of workers,
\* handlers, redeliveries and reports out of order (message.service.ts:196-226).
THEOREM LoweringIsCrossing == Spec => StatusFallsOnlyByCrossing
<1>1. OutboxInv /\ HandlerInv /\ LedgerInv => LedgerStatus
  <2> SUFFICES ASSUME OutboxInv, HandlerInv, LedgerInv PROVE LedgerStatus
    OBVIOUS
  <2>1. LedgerFollowsOutbox
    BY DEF LedgerInv, AllSettled, Settled, LedgerFollowsOutbox, Held, Holds
  <2>2. ASSUME NEW e \in StatusEvents, HandledUncrossed(e)
        PROVE  Rank(entry[e.m]) >= Rank(e.s)
    BY <2>2 DEF HandledUncrossed, LedgerInv, FlowInv, Ranked, Clear, Unfailed, Absent, Shown
  <2> QED BY <2>1, <2>2 DEF LedgerStatus
<1>2. OutboxInv /\ HandlerInv /\ LedgerInv /\ [Next]_vars
         => [\A m \in Messages : Lowered(m) => \E h \in Handlers : WritesStale(h, m)]_vars
  BY LoweringStep
<1> QED BY <1>1, <1>2, OutboxInvariant, HandlerInvariant, LedgerInvariant, PTL
       DEF Spec, StatusFallsOnlyByCrossing, LedgerStatus

------------------------------------------------------------------------------
(* The outbox implements the delivery of messages *)

\* What a step makes of a message, by its row.  Without a fault it is left as it is,
\* queued, sent for the first time, closed by what the customer has or withdrawn unsent.
Calmly(m) ==
    \/ copies'[m] = copies[m] /\ (row'[m] = row[m] \/ {row[m], row'[m]} \subseteq {"Pending", "Processing"})
    \/ row[m] = "none" /\ row'[m] = "Pending" /\ copies'[m] = copies[m]
    \/ row[m] = "Processing" /\ row'[m] = "Processing" /\ copies[m] = 0 /\ copies'[m] = 1
    \/ row[m] = "Processing" /\ row'[m] = "Sent" /\ copies[m] = 1 /\ copies'[m] = 1
    \/ row[m] = "Processing" /\ row'[m] = "Failed" /\ copies[m] = 0 /\ copies'[m] = 0
    \/ row[m] \in {"Pending", "Failed"} /\ row'[m] = "Cancelled" /\ copies[m] = 0 /\ copies'[m] = 0

\* A disturbed message stays asked for, and a step sends it once at most.
Roughly(m) ==
    /\ faults'[m] > 0 /\ faults'[m] >= faults[m]
    /\ row[m] # "none" /\ row'[m] # "none"
    /\ copies'[m] \in {copies[m], copies[m] + 1}

Delivers(m) == (faults'[m] = faults[m] /\ Calmly(m)) \/ Roughly(m)

\* What the lemmas on the steps use of the invariants, for one message.
LEMMA DeliveryFacts ==
    ASSUME OutboxInv, CopyInv, NEW m \in Messages
    PROVE  /\ CoreType /\ InHand
           /\ faults[m] = 0 => Orderly(m)
           /\ row[m] = "none" => \A w \in Workers : ~Holds(w, m)
  BY DEF OutboxInv, CopyInv, Paced

\* A new row waits to be sent.
LEMMA EnqueueDelivers ==
    ASSUME OutboxInv, CopyInv, NEW x \in Messages, Enqueue(x), NEW m \in Messages
    PROVE  Delivers(m)
  BY DeliveryFacts, OutboxAssumption, SMTT(30) DEF CoreType, InHand, AtLoop, Orderly, Phase, Holds, RowStatus,
        Delivers, Calmly, Roughly, workerVars, rowVars, ledgerVars, Enqueue

\* A withdrawn message was not sent, unless a fault hit it.
LEMMA CancelDelivers ==
    ASSUME OutboxInv, CopyInv, NEW x \in Messages, Cancel(x), NEW m \in Messages
    PROVE  Delivers(m)
  BY DeliveryFacts, OutboxAssumption, SMTT(30) DEF CoreType, InHand, AtLoop, Orderly, Phase, Holds, RowStatus,
        Delivers, Calmly, Roughly, workerVars, rowVars, ledgerVars, Cancel

\* A claim taken back leaves its message open.
LEMMA TickDelivers ==
    ASSUME OutboxInv, CopyInv, NEW u \in Workers, Tick(u), NEW m \in Messages
    PROVE  Delivers(m)
  BY DeliveryFacts, OutboxAssumption, SMTT(30) DEF CoreType, InHand, AtLoop, Orderly, Phase, Holds, RowStatus,
        Delivers, Calmly, Roughly, workerVars, rowVars, ledgerVars, Stale, Held, Tick

\* Listing the due rows changes none.
LEMMA FindDueDelivers ==
    ASSUME OutboxInv, CopyInv, NEW u \in Workers, FindDue(u), NEW m \in Messages
    PROVE  Delivers(m)
  BY DeliveryFacts, OutboxAssumption, SMTT(30) DEF CoreType, InHand, AtLoop, Orderly, Phase, Holds, RowStatus,
        Delivers, Calmly, Roughly, workerVars, rowVars, ledgerVars, FindDue

\* A claimed message stays open.
LEMMA ClaimDelivers ==
    ASSUME OutboxInv, CopyInv, NEW u \in Workers, NEW x \in Messages, Claim(u, x), NEW m \in Messages
    PROVE  Delivers(m)
  BY DeliveryFacts, OutboxAssumption, SMTT(30) DEF CoreType, InHand, AtLoop, Orderly, Phase, Holds, RowStatus,
        Delivers, Calmly, Roughly, workerVars, rowVars, ledgerVars, Claimable, Claim

\* A claim that is lost changes no row.
LEMMA LoseClaimDelivers ==
    ASSUME OutboxInv, CopyInv, NEW u \in Workers, NEW x \in Messages, LoseClaim(u, x), NEW m \in Messages
    PROVE  Delivers(m)
  BY DeliveryFacts, OutboxAssumption, SMTT(30) DEF CoreType, InHand, AtLoop, Orderly, Phase, Holds, RowStatus,
        Delivers, Calmly, Roughly, workerVars, rowVars, ledgerVars, Claimable, LoseClaim

\* The end of the claims changes no row.
LEMMA EndClaimsDelivers ==
    ASSUME OutboxInv, CopyInv, NEW u \in Workers, EndClaims(u), NEW m \in Messages
    PROVE  Delivers(m)
  BY DeliveryFacts, OutboxAssumption, SMTT(30) DEF CoreType, InHand, AtLoop, Orderly, Phase, Holds, RowStatus,
        Delivers, Calmly, Roughly, workerVars, rowVars, ledgerVars, EndClaims

\* The end of a tick changes no row.
LEMMA EndTickDelivers ==
    ASSUME OutboxInv, CopyInv, NEW u \in Workers, EndTick(u), NEW m \in Messages
    PROVE  Delivers(m)
  BY DeliveryFacts, OutboxAssumption, SMTT(30) DEF CoreType, InHand, AtLoop, Orderly, Phase, Holds, RowStatus,
        Delivers, Calmly, Roughly, workerVars, rowVars, ledgerVars, EndTick

\* The accepted send of an open message is its first, unless a fault hit it.
LEMMA SendAcceptedDelivers ==
    ASSUME OutboxInv, CopyInv, NEW u \in Workers, NEW x \in Messages, SendAccepted(u, x), NEW m \in Messages
    PROVE  Delivers(m)
  BY DeliveryFacts, OutboxAssumption, SMTT(30) DEF CoreType, InHand, AtLoop, Orderly, Phase, Holds, RowStatus,
        Delivers, Calmly, Roughly, workerVars, rowVars, ledgerVars, Take, NoFault, SendAccepted

\* A refused send changes no row.
LEMMA SendRefusedDelivers ==
    ASSUME OutboxInv, CopyInv, NEW u \in Workers, NEW x \in Messages, NEW b \in BOOLEAN, SendRefused(u, x, b), NEW m \in Messages
    PROVE  Delivers(m)
  BY DeliveryFacts, OutboxAssumption, SMTT(30) DEF CoreType, InHand, AtLoop, Orderly, Phase, Holds, RowStatus,
        Delivers, Calmly, Roughly, workerVars, rowVars, ledgerVars, Take, NoFault, SendRefused

\* An unacknowledged send disturbs its message.
LEMMA SendUnacknowledgedDelivers ==
    ASSUME OutboxInv, CopyInv, NEW u \in Workers, NEW x \in Messages, NEW b \in BOOLEAN, SendUnacknowledged(u, x, b), NEW m \in Messages
    PROVE  Delivers(m)
  BY DeliveryFacts, OutboxAssumption, SMTT(30) DEF CoreType, InHand, AtLoop, Orderly, Phase, Holds, RowStatus,
        Delivers, Calmly, Roughly, workerVars, rowVars, ledgerVars, Take, Fault, SendUnacknowledged

\* The row is closed as sent once the customer has the message.
LEMMA MarkOutboxSentDelivers ==
    ASSUME OutboxInv, CopyInv, NEW u \in Workers, MarkOutboxSent(u), NEW m \in Messages
    PROVE  Delivers(m)
  BY DeliveryFacts, OutboxAssumption, SMTT(30) DEF CoreType, InHand, AtLoop, Orderly, Phase, Holds, RowStatus,
        Delivers, Calmly, Roughly, workerVars, rowVars, ledgerVars, MarkOutboxSent

\* The ledger is not part of the promise.
LEMMA MarkMessageSentDelivers ==
    ASSUME OutboxInv, CopyInv, NEW u \in Workers, MarkMessageSent(u), NEW m \in Messages
    PROVE  Delivers(m)
  BY DeliveryFacts, OutboxAssumption, SMTT(30) DEF CoreType, InHand, AtLoop, Orderly, Phase, Holds, RowStatus,
        Delivers, Calmly, Roughly, workerVars, rowVars, ledgerVars, Done, MarkMessageSent

\* The verdict on an attempt is read before the row changes.
LEMMA ReadAttemptsDelivers ==
    ASSUME OutboxInv, CopyInv, NEW u \in Workers, ReadAttempts(u), NEW m \in Messages
    PROVE  Delivers(m)
  BY DeliveryFacts, OutboxAssumption, SMTT(30) DEF CoreType, InHand, AtLoop, Orderly, Phase, Holds, RowStatus,
        Delivers, Calmly, Roughly, workerVars, rowVars, ledgerVars, Exhausted, ReadAttempts

\* A retry leaves the message open.
LEMMA WriteRetryDelivers ==
    ASSUME OutboxInv, CopyInv, NEW u \in Workers, WriteRetry(u), NEW m \in Messages
    PROVE  Delivers(m)
  BY DeliveryFacts, OutboxAssumption, SMTT(30) DEF CoreType, InHand, AtLoop, Orderly, Phase, Holds, RowStatus,
        Delivers, Calmly, Roughly, workerVars, rowVars, ledgerVars, Done, WriteRetry

\* A message that is given up was not sent, unless a fault hit it.
LEMMA WriteFailedDelivers ==
    ASSUME OutboxInv, CopyInv, NEW u \in Workers, WriteFailed(u), NEW m \in Messages
    PROVE  Delivers(m)
  BY DeliveryFacts, OutboxAssumption, SMTT(30) DEF CoreType, InHand, AtLoop, Orderly, Phase, Holds, RowStatus,
        Delivers, Calmly, Roughly, workerVars, rowVars, ledgerVars, Done, WriteFailed

\* The ledger is not part of the promise, after a refusal either.
LEMMA MarkMessageFailedDelivers ==
    ASSUME OutboxInv, CopyInv, NEW u \in Workers, MarkMessageFailed(u), NEW m \in Messages
    PROVE  Delivers(m)
  BY DeliveryFacts, OutboxAssumption, SMTT(30) DEF CoreType, InHand, AtLoop, Orderly, Phase, Holds, RowStatus,
        Delivers, Calmly, Roughly, workerVars, rowVars, ledgerVars, Done, MarkMessageFailed

\* A statement that fails before the call disturbs its message.
LEMMA ThrowEarlyDelivers ==
    ASSUME OutboxInv, CopyInv, NEW u \in Workers, NEW x \in Messages, ThrowEarly(u, x), NEW m \in Messages
    PROVE  Delivers(m)
  BY DeliveryFacts, OutboxAssumption, SMTT(30) DEF CoreType, InHand, AtLoop, Orderly, Phase, Holds, RowStatus,
        Delivers, Calmly, Roughly, workerVars, rowVars, ledgerVars, Take, Fault, ThrowEarly

\* A statement that fails after the call disturbs its message.
LEMMA ThrowDelivers ==
    ASSUME OutboxInv, CopyInv, NEW u \in Workers, Throw(u), NEW m \in Messages
    PROVE  Delivers(m)
  BY DeliveryFacts, OutboxAssumption, SMTT(30) DEF CoreType, InHand, AtLoop, Orderly, Phase, Holds, RowStatus,
        Delivers, Calmly, Roughly, workerVars, rowVars, ledgerVars, Fault, Throw

\* A write that is given up disturbs its message.
LEMMA SwallowDelivers ==
    ASSUME OutboxInv, CopyInv, NEW u \in Workers, Swallow(u), NEW m \in Messages
    PROVE  Delivers(m)
  BY DeliveryFacts, OutboxAssumption, SMTT(30) DEF CoreType, InHand, AtLoop, Orderly, Phase, Holds, RowStatus,
        Delivers, Calmly, Roughly, workerVars, rowVars, ledgerVars, Fault, Done, Swallow

\* A crash disturbs what the worker held and nothing else.
LEMMA CrashDelivers ==
    ASSUME OutboxInv, CopyInv, NEW u \in Workers, Crash(u), NEW m \in Messages
    PROVE  Delivers(m)
  BY DeliveryFacts, OutboxAssumption, SMTT(30) DEF CoreType, InHand, AtLoop, Orderly, Phase, Holds, RowStatus,
        Delivers, Calmly, Roughly, workerVars, rowVars, ledgerVars, Done, Crash

\* The age of a claim is not part of the promise.
LEMMA DeadClaimAgesDelivers ==
    ASSUME OutboxInv, CopyInv, NEW x \in Messages, DeadClaimAges(x), NEW m \in Messages
    PROVE  Delivers(m)
  BY DeliveryFacts, OutboxAssumption, SMTT(30) DEF CoreType, InHand, AtLoop, Orderly, Phase, Holds, RowStatus,
        Delivers, Calmly, Roughly, workerVars, rowVars, ledgerVars, Held, DeadClaimAges

\* Nor is the age of a claim that a slow worker holds.
LEMMA LiveClaimAgesDelivers ==
    ASSUME OutboxInv, CopyInv, NEW x \in Messages, LiveClaimAges(x), NEW m \in Messages
    PROVE  Delivers(m)
  BY DeliveryFacts, OutboxAssumption, SMTT(30) DEF CoreType, InHand, AtLoop, Orderly, Phase, Holds, RowStatus,
        Delivers, Calmly, Roughly, workerVars, rowVars, ledgerVars, Held, LiveClaimAges

\* What the workers do not read is no step of a message.
LEMMA CoreDelivers ==
    ASSUME OutboxInv, UNCHANGED core, NEW m \in Messages
    PROVE  Delivers(m)
  BY DEF core, Delivers, Calmly

\* Every step of the messaging system serves or disturbs each message.
LEMMA StepDelivers ==
    ASSUME OutboxInv, CopyInv, Next, NEW m \in Messages
    PROVE  Delivers(m)
<1>1. CASE \E w \in Workers : WorkerStep(w)
  BY <1>1, TickDelivers, FindDueDelivers, EndClaimsDelivers, EndTickDelivers, ClaimDelivers,
     LoseClaimDelivers, SendAcceptedDelivers, SendRefusedDelivers, MarkOutboxSentDelivers,
     MarkMessageSentDelivers, ReadAttemptsDelivers, WriteRetryDelivers, WriteFailedDelivers,
     MarkMessageFailedDelivers DEF WorkerStep
<1>2. CASE \E x \in Messages : DeadClaimAges(x)
  BY <1>2, DeadClaimAgesDelivers
<1>3. CASE FaultStep
  BY <1>3, ThrowDelivers, SwallowDelivers, CrashDelivers, ThrowEarlyDelivers,
     SendUnacknowledgedDelivers, LiveClaimAgesDelivers DEF FaultStep
<1>4. CASE \E x \in Messages : Cancel(x)
  BY <1>4, CancelDelivers
<1>5. ASSUME NEW x, Enqueue(x)
      PROVE  Delivers(m)
  <2>1. CASE x \in Messages
    BY <1>5, <2>1, EnqueueDelivers
  <2>2. CASE x \notin Messages
    <3>1. row' = row
      BY <1>5, <2>2 DEF OutboxInv, CoreType, Enqueue
    <3> QED BY <1>5, <3>1 DEF Enqueue, Delivers, Calmly
  <2> QED BY <2>1, <2>2
<1>6. CASE UNCHANGED core
  BY <1>6, CoreDelivers
<1> QED BY <1>1, <1>2, <1>3, <1>4, <1>5, <1>6, StepCases DEF OutboxRuns

\* How a row stands, status by status.
LEMMA Standings ==
    /\ Standing("none") = "none"
    /\ Standing("Pending") = "open" /\ Standing("Processing") = "open"
    /\ Standing("Sent") = "sent" /\ Standing("Failed") = "failed"
    /\ Standing("Cancelled") = "cancelled"
    /\ \A s \in RowStatus : /\ Standing(s) \in Service!States
                            /\ s # "none" => Standing(s) # "none"
  BY DEF Standing, RowStatus, Service!States

\* An empty outbox is asked for nothing.
LEMMA DeliveryInit ==
    ASSUME Init
    PROVE  Service!Init
<1>1. [m \in Messages |-> Standing(row[m])] = [m \in Messages |-> "none"]
  BY Standings DEF Init, OutboxInit
<1> QED BY <1>1 DEF Init, OutboxInit, Service!Init

\* What serves or disturbs each row is a step of the delivery.
LEMMA DeliveryStep ==
    ASSUME OutboxInv, CopyInv, OutboxInv', OneCopyPerFault', \A m \in Messages : Delivers(m)
    PROVE  Service!Next
<1> DEFINE state == [m \in Messages |-> Standing(row[m])]
           Serves(m) ==
              \/ state'[m] = state[m] /\ copies'[m] = copies[m]
              \/ state[m] = "none" /\ state'[m] = "open" /\ copies'[m] = copies[m]
              \/ /\ state[m] = "open" /\ state'[m] = "open"
                 /\ copies[m] = 0 /\ copies'[m] = 1
              \/ /\ state[m] = "open"
                 /\ state'[m] = IF copies[m] = 0 THEN "failed" ELSE "sent"
                 /\ copies'[m] = copies[m]
              \/ /\ state[m] \in {"open", "failed"} /\ state'[m] = "cancelled"
                 /\ copies[m] = 0 /\ copies'[m] = 0
           Upsets(m) ==
              /\ faults'[m] > 0 /\ faults'[m] >= faults[m]
              /\ state[m] # "none" /\ state'[m] # "none"
              /\ copies'[m] \in {copies[m], copies[m] + 1} /\ copies'[m] <= 1 + faults'[m]
<1>1. \A m \in Messages : /\ state[m] = Standing(row[m]) /\ state'[m] = Standing(row'[m])
                          /\ row[m] \in RowStatus /\ row'[m] \in RowStatus
  BY DEF OutboxInv, CoreType
<1>2. state' \in [Messages -> Service!States]
  <2>1. \A m \in Messages : Standing(row'[m]) \in Service!States
    BY <1>1, Standings
  <2> QED BY <2>1
<1> HIDE DEF state
<1>3. ASSUME NEW m \in Messages
      PROVE  (faults'[m] = faults[m] /\ Serves(m)) \/ Upsets(m)
  <2>1. CASE faults'[m] = faults[m] /\ Calmly(m)
    <3>1. Serves(m)
      <4>1. CASE copies'[m] = copies[m] /\ (row'[m] = row[m] \/ {row[m], row'[m]} \subseteq {"Pending", "Processing"})
        BY <1>1, <4>1, Standings
      <4>2. CASE ~(copies'[m] = copies[m] /\ (row'[m] = row[m] \/ {row[m], row'[m]} \subseteq {"Pending", "Processing"}))
        BY <1>1, <2>1, <4>2, Standings DEF Calmly
      <4> QED BY <4>1, <4>2
    <3> QED BY <2>1, <3>1
  <2>2. CASE Roughly(m)
    <3>1. copies'[m] <= 1 + faults'[m]
      BY DEF OneCopyPerFault
    <3>2. state[m] # "none" /\ state'[m] # "none"
      BY <1>1, <2>2, Standings DEF Roughly
    <3> QED BY <2>2, <3>1, <3>2 DEF Roughly
  <2> QED BY <2>1, <2>2 DEF Delivers
<1> QED BY <1>2, <1>3 DEF state, Service!Next, Service!Stands, Service!Asked, Service!Delivered,
             Service!Closed, Service!Withdrawn, Service!Disturbed

\* The outbox implements the delivery of messages: any number of workers, of ticks and of
\* crashes adds nothing that those who queue a message could tell but a delivery that
\* happens once, is closed by what the customer has, or is withdrawn unsent; and what a
\* fault disturbs costs one more copy for each fault (outboxWorker.ts:4-5,
\* outbox.service.ts:260).
THEOREM ImplementsDelivery == Spec => IsDelivery
<1>1. Init => Service!Init
  BY DeliveryInit
<1>2. OutboxInv /\ OutboxInv' /\ CopyInv /\ OneCopyPerFault' /\ [Next]_vars
        => [Service!Next]_Service!vars
  <2> SUFFICES ASSUME OutboxInv, OutboxInv', CopyInv, OneCopyPerFault', [Next]_vars
               PROVE  [Service!Next]_Service!vars
    OBVIOUS
  <2>1. CASE Next
    BY <2>1, StepDelivers, DeliveryStep
  <2>2. CASE UNCHANGED vars
    BY <2>2 DEF vars, outboxVars, rowVars, Service!vars
  <2> QED BY <2>1, <2>2
<1> QED BY <1>1, <1>2, OutboxInvariant, CopyInvariant, OneCopyForEachFault, PTL
     DEF Spec, IsDelivery, Service!Spec
==============================================================================
