---------------------------- MODULE FeedbackProofs ----------------------------
(***************************************************************************)
(* Theorems about Feedback for every number of sweeps, requests and        *)
(* answers, every limit of attempts, every backoff and every threshold.    *)
(***************************************************************************)
EXTENDS Feedback, FiniteSetTheorems, TLAPS

SenderRow == [step : {"idle", "ensure", "pick", "send", "store"}, auto : BOOLEAN, now : Nat,
              asked : SUBSET Sides, left : SUBSET Sides, at : SUBSET Sides, sent : BOOLEAN]

\* The types this argument needs.
SurveyShape ==
    /\ hour \in Nat \ {0}
    /\ rows \in [Sides -> RowType]
    /\ sender \in [Senders -> SenderRow]
    /\ copies \in [Sides -> Nat] /\ excused \in [Sides -> Nat]

\* A sweep has claimed the row and not called the transports yet, or was told
\* that one of them accepted and has not recorded it.
InSend(p, s) == sender[p].auto /\ sender[p].step = "send" /\ sender[p].at = {s}
InStore(p, s) ==
    sender[p].auto /\ sender[p].step = "store" /\ sender[p].sent /\ sender[p].at = {s}
Unsent(s) == {p \in Senders : InSend(p, s)}

\* A link is recorded, on its way, or about to be recorded.
Underway(s) == rows[s].notified \/ \E p \in Senders : InSend(p, s) \/ InStore(p, s)

\* A sweep that holds a row has stamped it with its start, which is not 0.
Stamped ==
    /\ \A p \in Senders : sender[p].auto => sender[p].now > 0
    /\ \A p \in Senders : \A s \in Sides :
          sender[p].auto /\ sender[p].at = {s} => rows[s].stamp # 0

\* Every copy sent or claimed is the one that counts or has its excuse; with
\* nothing recorded or underway all of them have.  Each was claimed, as often as
\* attempts are allowed.
CopiesCounted(s) ==
    /\ IsFiniteSet(Unsent(s))
    /\ copies[s] + Cardinality(Unsent(s)) <= excused[s] + 1
    /\ ~Underway(s) => copies[s] <= excused[s]
    /\ copies[s] + Cardinality(Unsent(s)) <= rows[s].attempts
    /\ rows[s].attempts <= MaxAttempts

FeedbackInv == SurveyShape /\ Stamped /\ \A s \in Sides : CopiesCounted(s)

LEMMA FeedbackInitial == FeedbackInit => FeedbackInv
<1> SUFFICES ASSUME FeedbackInit PROVE FeedbackInv
  OBVIOUS
<1>1. NewRow \in RowType /\ ~NewRow.notified
  BY DEF NewRow, RowType
<1>2. Resting \in SenderRow /\ ~Resting.auto
  BY DEF Resting, SenderRow
<1>3. SurveyShape
  BY <1>1, <1>2 DEF FeedbackInit, SurveyShape
<1>4. Stamped
  BY <1>2 DEF FeedbackInit, Stamped
<1>5. ASSUME NEW s \in Sides
      PROVE  CopiesCounted(s)
  <2>1. Unsent(s) = {}
    BY <1>2 DEF FeedbackInit, Unsent, InSend
  <2>2. IsFiniteSet({}) /\ Cardinality({}) = 0
    BY FS_EmptySet
  <2>3. copies[s] = 0 /\ excused[s] = 0 /\ rows[s].attempts = 0
    BY DEF FeedbackInit, NewRow
  <2> QED BY <2>1, <2>2, <2>3, FeedbackAssumption DEF CopiesCounted
<1> QED BY <1>3, <1>4, <1>5 DEF FeedbackInv

\* A sender that moves leaves the others where they are.
LEMMA SenderMoves ==
    ASSUME SurveyShape, NEW p \in Senders, NEW r \in SenderRow, sender' = [sender EXCEPT ![p] = r]
    PROVE  /\ sender' \in [Senders -> SenderRow]
           /\ sender'[p] = r
           /\ \A q \in Senders \ {p} : sender'[q] = sender[q]
BY DEF SurveyShape

\* What a sender goes on with after a row.
LEMMA WithRow ==
    ASSUME NEW r \in SenderRow, NEW left \in SUBSET Sides
    PROVE  /\ With(r, left) \in SenderRow
           /\ With(r, left).at = {} /\ With(r, left).step \in {"idle", "pick"}
           /\ With(r, left).auto => r.auto /\ With(r, left).now = r.now
BY DEF With, Resting, SenderRow

\* A step that touches no sending of a sweep keeps the balance.
LEMMA AsideKeeps ==
    ASSUME FeedbackInv, NEW p \in Senders, NEW r \in SenderRow,
           sender' = [sender EXCEPT ![p] = r],
           ~sender[p].auto \/ sender[p].step \notin {"send", "store"},
           r.auto => r.now > 0 /\ r.at = {} /\ r.step \notin {"send", "store"},
           UNCHANGED <<hour, copies, excused>>,
           rows' \in [Sides -> RowType],
           \A s \in Sides : /\ rows[s].notified => rows'[s].notified
                            /\ rows'[s].stamp = rows[s].stamp
                            /\ rows'[s].attempts = rows[s].attempts
    PROVE  FeedbackInv'
<1>1. SurveyShape /\ Stamped
  BY DEF FeedbackInv
<1>2. /\ sender' \in [Senders -> SenderRow] /\ sender'[p] = r
      /\ \A q \in Senders \ {p} : sender'[q] = sender[q]
  BY <1>1, SenderMoves
<1>3. SurveyShape'
  BY <1>1, <1>2 DEF SurveyShape
<1>4. Stamped'
  BY <1>1, <1>2 DEF Stamped
<1>5. ASSUME NEW s \in Sides
      PROVE  CopiesCounted(s)'
  <2>1. \A q \in Senders : (InSend(q, s)' <=> InSend(q, s)) /\ (InStore(q, s)' <=> InStore(q, s))
    BY <1>2 DEF InSend, InStore
  <2>2. Unsent(s)' = Unsent(s)
    BY <2>1 DEF Unsent
  <2>3. Underway(s) => Underway(s)'
    BY <2>1 DEF Underway
  <2> QED BY <2>2, <2>3 DEF FeedbackInv, CopiesCounted
<1> QED BY <1>3, <1>4, <1>5 DEF FeedbackInv

\* Starting a sender, listing its rows, losing a claim, picking by hand.
LEMMA StartKeeps ==
    ASSUME FeedbackInv, NEW p \in Senders, StartSweep(p) \/ \E asked \in SUBSET Sides : StartManual(p, asked)
    PROVE  FeedbackInv'
<1>1. SurveyShape
  BY DEF FeedbackInv
<1>2. CASE StartSweep(p)
  <2> DEFINE r == [Resting EXCEPT !.step = "ensure", !.auto = TRUE, !.now = hour]
  <2>1. r \in SenderRow /\ r.now > 0 /\ r.at = {} /\ r.step = "ensure"
    <3>1. hour \in Nat /\ hour > 0
      BY <1>1 DEF SurveyShape
    <3>2. Resting \in SenderRow /\ Resting.at = {}
      BY DEF Resting, SenderRow
    <3> QED BY <3>1, <3>2 DEF SenderRow
  <2>2. sender' = [sender EXCEPT ![p] = r] /\ sender[p].step = "idle"
    BY <1>2 DEF StartSweep, Start
  <2>3. UNCHANGED <<hour, copies, excused, rows>>
    BY <1>2 DEF StartSweep, Start, NothingSent
  <2> HIDE DEF r
  <2> QED BY <1>1, <2>1, <2>2, <2>3, AsideKeeps DEF SurveyShape
<1>3. ASSUME NEW asked \in SUBSET Sides, StartManual(p, asked)
      PROVE  FeedbackInv'
  <2> DEFINE r == [Resting EXCEPT !.step = "ensure", !.asked = asked]
  <2>1. r \in SenderRow /\ ~r.auto
    BY DEF Resting, SenderRow
  <2>2. sender' = [sender EXCEPT ![p] = r] /\ sender[p].step = "idle"
    BY <1>3 DEF StartManual, Start
  <2>3. UNCHANGED <<hour, copies, excused, rows>>
    BY <1>3 DEF StartManual, Start, NothingSent
  <2> HIDE DEF r
  <2> QED BY <1>1, <2>1, <2>2, <2>3, AsideKeeps DEF SurveyShape
<1> QED BY <1>2, <1>3

LEMMA EnsureKeeps ==
    ASSUME FeedbackInv, NEW p \in Senders, Ensure(p)
    PROVE  FeedbackInv'
<1>1. SurveyShape /\ Stamped /\ sender[p] \in SenderRow
  BY DEF FeedbackInv, SurveyShape
<1>2. PICK left \in SUBSET Sides : sender' = [sender EXCEPT ![p] = With(sender[p], left)]
  BY DEF Ensure
<1>3. /\ With(sender[p], left) \in SenderRow
      /\ With(sender[p], left).at = {} /\ With(sender[p], left).step \in {"idle", "pick"}
      /\ With(sender[p], left).auto => With(sender[p], left).now > 0
  BY <1>1, WithRow DEF Stamped
<1>4. \A s \in Sides : rows[s] \in RowType
  BY <1>1 DEF SurveyShape
<1>5. /\ rows' \in [Sides -> RowType]
      /\ \A s \in Sides : /\ rows'[s].notified = rows[s].notified
                           /\ rows'[s].stamp = rows[s].stamp
                           /\ rows'[s].attempts = rows[s].attempts
  BY <1>4 DEF Ensure, RowType
<1>6. UNCHANGED <<hour, copies, excused>> /\ sender[p].step = "ensure"
  BY DEF Ensure, NothingSent
<1> QED BY <1>2, <1>3, <1>5, <1>6, AsideKeeps

LEMMA PickManualKeeps ==
    ASSUME FeedbackInv, NEW p \in Senders, NEW s \in Sides, PickManual(p, s)
    PROVE  FeedbackInv'
<1> DEFINE r == [sender[p] EXCEPT !.step = "send", !.at = {s}]
<1>1. SurveyShape /\ sender[p] \in SenderRow /\ ~sender[p].auto
  BY DEF FeedbackInv, SurveyShape, PickManual
<1>2. r \in SenderRow /\ ~r.auto
  BY <1>1 DEF SenderRow
<1>3. sender' = [sender EXCEPT ![p] = r] /\ UNCHANGED <<hour, copies, excused, rows>>
  BY DEF PickManual, NothingSent
<1> HIDE DEF r
<1> QED BY <1>1, <1>2, <1>3, AsideKeeps DEF SurveyShape

\* A claim that is not excused finds nothing recorded and nothing underway.
LEMMA ClaimKeepsLinks ==
    ASSUME FeedbackInv, NEW p \in Senders, NEW s \in Sides, Claim(p, s)
    PROVE  FeedbackInv'
<1>1. /\ SurveyShape /\ Stamped /\ sender[p] \in SenderRow /\ rows[s] \in RowType
      /\ sender[p].auto /\ sender[p].step = "pick" /\ sender[p].now > 0
      /\ UNCHANGED <<hour, copies>>
  BY DEF FeedbackInv, SurveyShape, Stamped, Claim, NothingSent
<1>2. CASE ~Claimable(p, s)
  <2> DEFINE r == With(sender[p], sender[p].left \ {s})
  <2>1. sender' = [sender EXCEPT ![p] = r] /\ UNCHANGED <<rows, excused>>
    BY <1>2 DEF Claim
  <2>2. sender[p].left \ {s} \in SUBSET Sides
    BY <1>1 DEF SenderRow
  <2>3. r \in SenderRow /\ r.at = {} /\ r.step \in {"idle", "pick"} /\ (r.auto => r.now > 0)
    BY <1>1, <2>2, WithRow
  <2> HIDE DEF r
  <2> QED BY <1>1, <2>1, <2>3, AsideKeeps DEF SurveyShape
<1>3. CASE Claimable(p, s)
  <2> DEFINE r == [sender[p] EXCEPT !.step = "send", !.at = {s}]
             n == [rows[s] EXCEPT !.stamp = sender[p].now, !.attempts = @ + 1]
  <2>1. /\ sender' = [sender EXCEPT ![p] = r] /\ rows' = [rows EXCEPT ![s] = n]
        /\ excused' = [excused EXCEPT ![s] = IF Lapsed(p, s) THEN @ + 1 ELSE @]
    BY <1>3 DEF Claim
  <2>2. r \in SenderRow /\ r.auto /\ r.now > 0 /\ r.at = {s} /\ r.step = "send"
    BY <1>1 DEF SenderRow
  <2>3. /\ n \in RowType /\ n.stamp # 0 /\ n.notified = rows[s].notified
        /\ n.attempts = rows[s].attempts + 1
    <3>1. rows[s].attempts + 1 \in Nat /\ sender[p].now \in Nat /\ sender[p].now # 0
      BY <1>1 DEF RowType, SenderRow
    <3>2. \A a, b \in Nat : [rows[s] EXCEPT !.stamp = a, !.attempts = b] \in RowType
      BY <1>1 DEF RowType
    <3>3. n = [rows[s] EXCEPT !.stamp = sender[p].now, !.attempts = rows[s].attempts + 1]
      BY <1>1 DEF RowType
    <3>4. /\ n.stamp = sender[p].now /\ n.notified = rows[s].notified
          /\ n.attempts = rows[s].attempts + 1
      BY <1>1 DEF RowType
    <3> QED BY <3>1, <3>2, <3>3, <3>4
  <2> HIDE DEF r, n
  <2>4. /\ sender' \in [Senders -> SenderRow] /\ sender'[p] = r
        /\ \A q \in Senders \ {p} : sender'[q] = sender[q]
    BY <1>1, <2>1, <2>2, SenderMoves
  <2>5. /\ rows' \in [Sides -> RowType] /\ rows'[s] = n
        /\ \A t \in Sides \ {s} : rows'[t] = rows[t]
    BY <1>1, <2>1, <2>3 DEF SurveyShape
  <2>6. /\ excused' \in [Sides -> Nat]
        /\ excused'[s] = IF Lapsed(p, s) THEN excused[s] + 1 ELSE excused[s]
        /\ \A t \in Sides \ {s} : excused'[t] = excused[t]
    BY <1>1, <2>1 DEF SurveyShape
  <2>7. SurveyShape'
    BY <1>1, <2>4, <2>5, <2>6 DEF SurveyShape
  <2>8. Stamped'
    BY <1>1, <2>2, <2>3, <2>4, <2>5 DEF Stamped
  <2>9. ASSUME NEW t \in Sides, t # s
        PROVE  CopiesCounted(t)'
    <3>1. \A q \in Senders : (InSend(q, t)' <=> InSend(q, t)) /\ (InStore(q, t)' <=> InStore(q, t))
      BY <1>1, <2>2, <2>4, <2>9 DEF InSend, InStore
    <3>2. Unsent(t)' = Unsent(t) /\ (Underway(t) <=> Underway(t)')
      BY <2>5, <2>9, <3>1 DEF Unsent, Underway
    <3> QED BY <1>1, <2>5, <2>6, <2>9, <3>2 DEF FeedbackInv, CopiesCounted
  <2>10. CopiesCounted(s)'
    <3>1. Unsent(s)' = Unsent(s) \cup {p} /\ p \notin Unsent(s) /\ InSend(p, s)'
      BY <1>1, <2>2, <2>4 DEF Unsent, InSend
    <3>2. IsFiniteSet(Unsent(s)) /\ Cardinality(Unsent(s)) \in Nat
      BY FS_CardinalityType DEF FeedbackInv, CopiesCounted
    <3>3. IsFiniteSet(Unsent(s)') /\ Cardinality(Unsent(s)') = Cardinality(Unsent(s)) + 1
      BY <3>1, <3>2, FS_AddElement
    <3>4. Underway(s)'
      BY <3>1 DEF Underway
    <3>5. /\ copies[s] \in Nat /\ excused[s] \in Nat
          /\ copies[s] + Cardinality(Unsent(s)) <= excused[s] + 1
      BY <1>1 DEF FeedbackInv, CopiesCounted, SurveyShape
    <3>8. /\ copies[s] + Cardinality(Unsent(s)') <= rows'[s].attempts
          /\ rows'[s].attempts <= MaxAttempts
      <4>1. /\ rows[s].attempts \in Nat /\ rows[s].attempts < MaxAttempts
            /\ copies[s] + Cardinality(Unsent(s)) <= rows[s].attempts
        BY <1>1, <1>3 DEF FeedbackInv, CopiesCounted, RowType, Claimable
      <4>2. rows'[s].attempts = rows[s].attempts + 1
        BY <2>3, <2>5
      <4> QED BY <3>2, <3>3, <3>5, <4>1, <4>2, FeedbackAssumption
    <3>6. CASE Lapsed(p, s)
      BY <1>1, <2>6, <3>2, <3>3, <3>4, <3>5, <3>6, <3>8 DEF CopiesCounted
    <3>7. CASE ~Lapsed(p, s)
      <4>1. ~rows[s].notified
        BY <1>3 DEF Claimable
      <4>2. \A q \in Senders \ {p} : ~(sender[q].auto /\ sender[q].at = {s})
        <5>1. CASE rows[s].stamp = 0
          BY <1>1, <5>1 DEF Stamped
        <5>2. CASE rows[s].stamp # 0
          BY <1>3, <3>7, <5>2 DEF Claimable, Lapsed
        <5> QED BY <5>1, <5>2
      <4>3. \A q \in Senders : ~InSend(q, s) /\ ~InStore(q, s)
        BY <1>1, <4>2 DEF InSend, InStore
      <4>4. Unsent(s) = {} /\ ~Underway(s)
        BY <4>1, <4>3 DEF Unsent, Underway
      <4>5. Cardinality(Unsent(s)) = 0 /\ copies[s] <= excused[s]
        BY <4>4, FS_EmptySet DEF FeedbackInv, CopiesCounted
      <4> QED BY <1>1, <2>6, <3>3, <3>4, <3>5, <3>7, <3>8, <4>5 DEF CopiesCounted
    <3> QED BY <3>6, <3>7
  <2> QED BY <2>7, <2>8, <2>9, <2>10 DEF FeedbackInv
<1> QED BY <1>2, <1>3

\* A delivery turns a claimed copy into a sent one.
LEMMA SendKeepsLinks ==
    ASSUME FeedbackInv, NEW p \in Senders, NEW s \in Sides, NEW delivered \in BOOLEAN,
           Send(p, s, delivered)
    PROVE  FeedbackInv'
<1> DEFINE r == [sender[p] EXCEPT !.step = "store", !.sent = delivered]
<1>1. /\ SurveyShape /\ Stamped /\ sender[p] \in SenderRow
      /\ sender[p].step = "send" /\ sender[p].at = {s}
      /\ UNCHANGED <<hour, rows, excused>>
  BY DEF FeedbackInv, SurveyShape, Send
<1>2. /\ r \in SenderRow /\ r.auto = sender[p].auto /\ r.step = "store" /\ r.sent = delivered
      /\ r.at = {s} /\ r.now = sender[p].now
  BY <1>1 DEF SenderRow
<1>3. /\ sender' = [sender EXCEPT ![p] = r]
      /\ copies' = [copies EXCEPT ![s] = IF delivered /\ sender[p].auto THEN @ + 1 ELSE @]
  BY DEF Send
<1> HIDE DEF r
<1>4. CASE ~sender[p].auto
  <2>1. UNCHANGED copies
    BY <1>1, <1>3, <1>4 DEF SurveyShape
  <2> QED BY <1>1, <1>2, <1>3, <1>4, <2>1, AsideKeeps DEF SurveyShape
<1>5. CASE sender[p].auto
  <2>1. /\ sender' \in [Senders -> SenderRow] /\ sender'[p] = r
        /\ \A q \in Senders \ {p} : sender'[q] = sender[q]
    BY <1>1, <1>2, <1>3, SenderMoves
  <2>2. /\ copies' \in [Sides -> Nat]
        /\ copies'[s] = IF delivered THEN copies[s] + 1 ELSE copies[s]
        /\ \A t \in Sides \ {s} : copies'[t] = copies[t]
    BY <1>1, <1>3, <1>5 DEF SurveyShape
  <2>3. SurveyShape'
    BY <1>1, <1>2, <2>1, <2>2 DEF SurveyShape
  <2>6. \A q \in Senders : /\ sender'[q].auto = sender[q].auto
                            /\ sender'[q].now = sender[q].now
                            /\ sender'[q].at = sender[q].at
    BY <1>1, <1>2, <2>1
  <2>7. Stamped'
    BY <1>1, <2>6 DEF Stamped
  <2>4. ASSUME NEW t \in Sides, t # s
        PROVE  CopiesCounted(t)'
    <3>1. \A q \in Senders : (InSend(q, t)' <=> InSend(q, t)) /\ (InStore(q, t)' <=> InStore(q, t))
      BY <1>1, <1>2, <2>1, <2>4 DEF InSend, InStore
    <3>2. Unsent(t)' = Unsent(t) /\ (Underway(t) <=> Underway(t)')
      BY <1>1, <3>1 DEF Unsent, Underway
    <3> QED BY <1>1, <2>2, <2>4, <3>2 DEF FeedbackInv, CopiesCounted
  <2>5. CopiesCounted(s)'
    <3>1. Unsent(s)' = Unsent(s) \ {p} /\ p \in Unsent(s)
      BY <1>1, <1>2, <1>5, <2>1 DEF Unsent, InSend
    <3>2. IsFiniteSet(Unsent(s)) /\ Cardinality(Unsent(s)) \in Nat
      BY FS_CardinalityType DEF FeedbackInv, CopiesCounted
    <3>3. IsFiniteSet(Unsent(s)') /\ Cardinality(Unsent(s)') = Cardinality(Unsent(s)) - 1
      BY <3>1, <3>2, FS_RemoveElement
    <3>4. /\ copies[s] \in Nat /\ excused[s] \in Nat
          /\ copies[s] + Cardinality(Unsent(s)) <= excused[s] + 1
          /\ copies[s] + Cardinality(Unsent(s)) <= rows[s].attempts
          /\ rows[s].attempts \in Nat /\ rows[s].attempts <= MaxAttempts
      BY <1>1 DEF FeedbackInv, CopiesCounted, SurveyShape, RowType
    <3>5. Cardinality(Unsent(s)') \in Nat
      BY <3>3, FS_CardinalityType
    <3>6. delivered => Underway(s)'
      BY <1>2, <1>5, <2>1 DEF Underway, InStore
    <3>7. CASE delivered
      BY <1>1, <2>2, <3>2, <3>3, <3>4, <3>6, <3>7 DEF CopiesCounted
    <3>8. CASE ~delivered
      BY <1>1, <2>2, <3>2, <3>3, <3>4, <3>5, <3>8 DEF CopiesCounted
    <3> QED BY <3>7, <3>8
  <2> QED BY <2>3, <2>7, <2>4, <2>5 DEF FeedbackInv
<1> QED BY <1>4, <1>5

\* A sweep lets the row go: recorded, failed or with an excuse.
LEMMA LetGoKeeps ==
    ASSUME FeedbackInv, NEW p \in Senders, NEW s \in Sides, NEW r \in SenderRow,
           sender[p].step = "store", sender[p].at = {s}, sender[p].auto,
           sender' = [sender EXCEPT ![p] = r],
           r.at = {}, r.step \notin {"send", "store"}, r.auto => r.now > 0,
           UNCHANGED <<hour, copies>>,
           rows' \in [Sides -> RowType],
           \A t \in Sides : /\ rows[t].notified => rows'[t].notified
                            /\ rows'[t].stamp = rows[t].stamp
                            /\ rows'[t].attempts = rows[t].attempts,
           excused' \in [Sides -> Nat],
           \A t \in Sides \ {s} : excused'[t] = excused[t],
           \/ sender[p].sent /\ rows'[s].notified /\ excused'[s] = excused[s]
           \/ sender[p].sent /\ excused'[s] = excused[s] + 1
           \/ ~sender[p].sent /\ excused'[s] = excused[s]
    PROVE  FeedbackInv'
<1>1. SurveyShape /\ Stamped
  BY DEF FeedbackInv
<1>2. /\ sender' \in [Senders -> SenderRow] /\ sender'[p] = r
      /\ \A q \in Senders \ {p} : sender'[q] = sender[q]
  BY <1>1, SenderMoves
<1>3. SurveyShape' /\ Stamped'
  BY <1>1, <1>2 DEF SurveyShape, Stamped
<1>4. ASSUME NEW t \in Sides
      PROVE  CopiesCounted(t)'
  <2>1. \A q \in Senders : InSend(q, t)' <=> InSend(q, t)
    BY <1>2 DEF InSend
  <2>2. Unsent(t)' = Unsent(t)
    BY <2>1 DEF Unsent
  <2>3. /\ IsFiniteSet(Unsent(t)) /\ Cardinality(Unsent(t)) \in Nat
        /\ copies[t] \in Nat /\ excused[t] \in Nat
        /\ copies[t] + Cardinality(Unsent(t)) <= excused[t] + 1
        /\ copies[t] + Cardinality(Unsent(t)) <= rows'[t].attempts
        /\ rows'[t].attempts <= MaxAttempts
    BY <1>1, FS_CardinalityType DEF FeedbackInv, CopiesCounted, SurveyShape
  <2>4. \A q \in Senders : InStore(q, t) => InStore(q, t)' \/ (q = p /\ t = s /\ sender[p].sent)
    BY <1>2 DEF InStore
  <2>5. CASE t # s \/ ~sender[p].sent
    <3>1. Underway(t) => Underway(t)'
      BY <2>1, <2>4, <2>5 DEF Underway
    <3>2. excused'[t] = excused[t]
      BY <2>5
    <3> QED BY <2>2, <2>3, <3>1, <3>2 DEF FeedbackInv, CopiesCounted
  <2>6. CASE t = s /\ sender[p].sent /\ rows'[s].notified /\ excused'[s] = excused[s]
    BY <2>2, <2>3, <2>6 DEF CopiesCounted, Underway
  <2>7. CASE t = s /\ excused'[s] = excused[s] + 1
    BY <2>2, <2>3, <2>7 DEF CopiesCounted
  <2> QED BY <2>5, <2>6, <2>7
<1> QED BY <1>3, <1>4 DEF FeedbackInv

LEMMA StoreKeepsLinks ==
    ASSUME FeedbackInv, NEW p \in Senders, NEW s \in Sides, Store(p, s)
    PROVE  FeedbackInv'
<1> DEFINE r == With(sender[p], sender[p].left \ {s})
           n == [rows[s] EXCEPT !.notified = @ \/ sender[p].sent]
<1>1. /\ SurveyShape /\ Stamped /\ sender[p] \in SenderRow /\ rows[s] \in RowType
      /\ sender[p].step = "store" /\ sender[p].at = {s}
      /\ UNCHANGED <<hour, copies, excused>>
  BY DEF FeedbackInv, SurveyShape, Store, NothingSent
<1>2. sender[p].left \ {s} \in SUBSET Sides
  BY <1>1 DEF SenderRow
<1>3. r \in SenderRow /\ r.at = {} /\ r.step \in {"idle", "pick"} /\ (r.auto => r.now > 0)
  BY <1>1, <1>2, WithRow DEF Stamped
<1>4. sender' = [sender EXCEPT ![p] = r] /\ rows' = [rows EXCEPT ![s] = n]
  BY DEF Store
<1>5. /\ n \in RowType /\ n.stamp = rows[s].stamp /\ n.attempts = rows[s].attempts
      /\ n.notified <=> rows[s].notified \/ sender[p].sent
  BY <1>1 DEF RowType, SenderRow
<1> HIDE DEF r, n
<1>6. /\ rows' \in [Sides -> RowType] /\ rows'[s] = n
      /\ \A t \in Sides \ {s} : rows'[t] = rows[t]
  BY <1>1, <1>4, <1>5 DEF SurveyShape
<1>7. \A t \in Sides : /\ rows[t].notified => rows'[t].notified
                       /\ rows'[t].stamp = rows[t].stamp
                       /\ rows'[t].attempts = rows[t].attempts
  BY <1>5, <1>6
<1>8. CASE ~sender[p].auto
  <2>1. ~r.auto
    BY <1>1, <1>2, <1>8, WithRow DEF r
  <2> QED BY <1>1, <1>3, <1>4, <1>6, <1>7, <1>8, <2>1, AsideKeeps
<1>9. CASE sender[p].auto
  <2>1. excused' \in [Sides -> Nat] /\ \A t \in Sides : excused'[t] = excused[t]
    BY <1>1 DEF SurveyShape
  <2>2. sender[p].sent => rows'[s].notified
    BY <1>5, <1>6
  <2>3. r.step \notin {"send", "store"}
    BY <1>3
  <2>4. \/ sender[p].sent /\ rows'[s].notified /\ excused'[s] = excused[s]
        \/ sender[p].sent /\ excused'[s] = excused[s] + 1
        \/ ~sender[p].sent /\ excused'[s] = excused[s]
    BY <2>1, <2>2
  <2>5. /\ sender[p].step = "store" /\ sender[p].at = {s} /\ UNCHANGED <<hour, copies>>
        /\ \A t \in Sides \ {s} : excused'[t] = excused[t]
    BY <1>1, <2>1
  <2>6. /\ r \in SenderRow /\ r.at = {} /\ (r.auto => r.now > 0)
        /\ sender' = [sender EXCEPT ![p] = r] /\ rows' \in [Sides -> RowType]
        /\ excused' \in [Sides -> Nat]
    BY <1>3, <1>4, <1>6, <2>1
  <2>7. \A t \in Sides : /\ rows[t].notified => rows'[t].notified
                         /\ rows'[t].stamp = rows[t].stamp
                         /\ rows'[t].attempts = rows[t].attempts
    BY <1>7
  <2> QED BY <1>9, <2>3, <2>4, <2>5, <2>6, <2>7, LetGoKeeps
<1> QED BY <1>8, <1>9

LEMMA SendingFailsKeeps ==
    ASSUME FeedbackInv, NEW p \in Senders, NEW s \in Sides, NEW stops \in BOOLEAN,
           SendingFails(p, s, stops)
    PROVE  FeedbackInv'
<1> DEFINE r == IF stops \/ ~sender[p].auto THEN Resting
                ELSE With(sender[p], sender[p].left \ {s})
<1>1. /\ SurveyShape /\ Stamped /\ sender[p] \in SenderRow
      /\ sender[p].step = "store" /\ sender[p].at = {s}
      /\ UNCHANGED <<hour, copies, rows>>
  BY DEF FeedbackInv, SurveyShape, SendingFails, NothingSent
<1>2. sender[p].left \ {s} \in SUBSET Sides
  BY <1>1 DEF SenderRow
<1>3. Resting \in SenderRow /\ Resting.at = {} /\ Resting.step = "idle" /\ ~Resting.auto
  BY DEF Resting, SenderRow
<1>4. r \in SenderRow /\ r.at = {} /\ r.step \in {"idle", "pick"} /\ (r.auto => r.now > 0)
  BY <1>1, <1>2, <1>3, WithRow DEF Stamped
<1>5. /\ sender' = [sender EXCEPT ![p] = r]
      /\ excused' = [excused EXCEPT ![s] = IF sender[p].sent /\ sender[p].auto THEN @ + 1 ELSE @]
  BY DEF SendingFails
<1>6. CASE ~sender[p].auto
  <2>1. r = Resting /\ UNCHANGED excused
    BY <1>1, <1>5, <1>6 DEF SurveyShape
  <2> HIDE DEF r
  <2> QED BY <1>1, <1>3, <1>4, <1>5, <1>6, <2>1, AsideKeeps DEF SurveyShape
<1>7. CASE sender[p].auto
  <2> HIDE DEF r
  <2>1. /\ excused' \in [Sides -> Nat]
        /\ \A t \in Sides \ {s} : excused'[t] = excused[t]
        /\ excused'[s] = IF sender[p].sent THEN excused[s] + 1 ELSE excused[s]
    BY <1>1, <1>5, <1>7 DEF SurveyShape
  <2>2. r.step \notin {"send", "store"}
    BY <1>4
  <2> QED BY <1>1, <1>4, <1>5, <1>7, <2>1, <2>2, LetGoKeeps DEF SurveyShape
<1> QED BY <1>6, <1>7

\* Answers and the clock touch no claim, no stamp and no delivery.
LEMMA GuestsKeep ==
    ASSUME FeedbackInv, UNCHANGED <<sender, copies, excused>>, hour' \in Nat \ {0},
           rows' \in [Sides -> RowType],
           \A s \in Sides : /\ rows'[s].notified = rows[s].notified
                            /\ rows'[s].stamp = rows[s].stamp
                            /\ rows'[s].attempts = rows[s].attempts
    PROVE  FeedbackInv'
<1>1. SurveyShape'
  BY DEF FeedbackInv, SurveyShape
<1>2. Stamped'
  BY DEF FeedbackInv, Stamped
<1>3. ASSUME NEW s \in Sides
      PROVE  CopiesCounted(s)'
  BY DEF FeedbackInv, CopiesCounted, Underway, Unsent, InSend, InStore
<1> QED BY <1>1, <1>2, <1>3 DEF FeedbackInv

LEMMA CommitAnswerKeeps ==
    ASSUME FeedbackInv, NEW g \in Guests, NEW s \in Sides, CommitAnswer(g, s),
           guest[g].rating \in Ratings \cup {0}
    PROVE  FeedbackInv'
<1> DEFINE n == [rows[s] EXCEPT !.done = TRUE, !.rating = guest[g].rating]
<1>1. SurveyShape /\ rows[s] \in RowType
  BY DEF FeedbackInv, SurveyShape
<1>2. /\ n \in RowType /\ n.notified = rows[s].notified /\ n.stamp = rows[s].stamp
      /\ n.attempts = rows[s].attempts
  BY <1>1 DEF RowType
<1>3. rows' = [rows EXCEPT ![s] = n] /\ UNCHANGED <<hour, sender, copies, excused>>
  BY DEF CommitAnswer
<1> HIDE DEF n
<1>4. /\ rows' \in [Sides -> RowType]
      /\ \A t \in Sides : /\ rows'[t].notified = rows[t].notified
                           /\ rows'[t].stamp = rows[t].stamp
                           /\ rows'[t].attempts = rows[t].attempts
  BY <1>1, <1>2, <1>3 DEF SurveyShape
<1> QED BY <1>1, <1>3, <1>4, GuestsKeep DEF SurveyShape

GuestRow == [step : {"idle", "commit", "tell"}, at : SUBSET Sides, rating : Ratings \cup {0},
             others : SUBSET (Ratings \cup {0})]

\* What a guest is about to write is a rating.
Rated == guest \in [Guests -> GuestRow]

LEMMA RatedInitial == FeedbackInit => Rated
<1>1. Away \in GuestRow
  BY DEF Away, GuestRow
<1> QED BY <1>1 DEF FeedbackInit, Rated

LEMMA SubmitRates ==
    ASSUME SurveyShape, Rated, NEW g \in Guests, NEW s \in Sides, NEW rating \in Ratings,
           Submit(g, s, rating)
    PROVE  Rated'
<1> DEFINE others == {rows[o].rating : o \in {o \in OtherSides(s) : rows[o].done}}
           n == [step |-> "commit", at |-> {s}, rating |-> rating, others |-> others]
<1>1. \A o \in Sides : rows[o].rating \in Ratings \cup {0}
  BY DEF SurveyShape, RowType
<1>2. others \in SUBSET (Ratings \cup {0})
  BY <1>1 DEF OtherSides
<1>3. guest' = [guest EXCEPT ![g] = n]
  BY DEF Submit
<1> HIDE DEF others
<1>4. n \in GuestRow
  BY <1>2 DEF GuestRow
<1> QED BY <1>3, <1>4 DEF Rated

LEMMA AnswersKeepRated ==
    ASSUME Rated, NEW g \in Guests,
           TellManager(g) \/ TellingFails(g) \/ \E s \in Sides : CommitAnswer(g, s)
    PROVE  Rated'
<1>1. Away \in GuestRow
  BY DEF Away, GuestRow
<1>2. [guest[g] EXCEPT !.step = "tell"] \in GuestRow
  BY DEF Rated, GuestRow
<1>3. guest' = [guest EXCEPT ![g] = Away] \/ guest' = [guest EXCEPT ![g] = [guest[g] EXCEPT !.step = "tell"]]
  BY DEF TellManager, TellingFails, CommitAnswer
<1> QED BY <1>1, <1>2, <1>3 DEF Rated

\* One step of a sender.
LEMMA SenderStep ==
    ASSUME FeedbackInv, Rated, NEW p \in Senders,
           \/ StartSweep(p) \/ Ensure(p)
           \/ \E s \in Sides : StartManual(p, {s})
           \/ StartManual(p, {})
           \/ \E s \in Sides :
                 \/ Claim(p, s) \/ PickManual(p, s) \/ Store(p, s)
                 \/ \E delivered \in BOOLEAN : Send(p, s, delivered)
                 \/ \E stops \in BOOLEAN : SendingFails(p, s, stops)
    PROVE  FeedbackInv' /\ Rated'
<1>1. UNCHANGED guest
  BY DEF StartSweep, StartManual, Start, Ensure, Claim, PickManual, Store, Send, SendingFails,
         NothingSent
<1>2. ASSUME StartSweep(p) PROVE FeedbackInv'
  BY <1>2, StartKeeps
<1>3. ASSUME StartManual(p, {}) \/ \E s \in Sides : StartManual(p, {s})
      PROVE  FeedbackInv'
  <2>1. \E asked \in SUBSET Sides : StartManual(p, asked)
    BY <1>3
  <2> QED BY <2>1, StartKeeps
<1>4. ASSUME Ensure(p) PROVE FeedbackInv'
  BY <1>4, EnsureKeeps
<1>5. ASSUME NEW s \in Sides, Claim(p, s) \/ PickManual(p, s) \/ Store(p, s)
      PROVE  FeedbackInv'
  BY <1>5, ClaimKeepsLinks, PickManualKeeps, StoreKeepsLinks
<1>6. ASSUME NEW s \in Sides, NEW delivered \in BOOLEAN, Send(p, s, delivered)
      PROVE  FeedbackInv'
  BY <1>6, SendKeepsLinks
<1>7. ASSUME NEW s \in Sides, NEW stops \in BOOLEAN, SendingFails(p, s, stops)
      PROVE  FeedbackInv'
  BY <1>7, SendingFailsKeeps
<1>8. FeedbackInv'
  BY <1>2, <1>3, <1>4, <1>5, <1>6, <1>7
<1> QED BY <1>1, <1>8 DEF Rated

\* One step of a guest.
LEMMA GuestStep ==
    ASSUME FeedbackInv, Rated, NEW g \in Guests,
           \/ TellManager(g) \/ TellingFails(g)
           \/ \E s \in Sides :
                 \/ CommitAnswer(g, s)
                 \/ \E rating \in Ratings : Submit(g, s, rating)
    PROVE  FeedbackInv' /\ Rated'
<1>1. SurveyShape /\ guest[g].rating \in Ratings \cup {0}
  BY DEF FeedbackInv, Rated, GuestRow
<1>2. CASE TellManager(g) \/ TellingFails(g)
  <2>1. UNCHANGED <<hour, rows, sender, copies, excused>>
    BY <1>2 DEF TellManager, TellingFails
  <2>2. FeedbackInv'
    BY <1>1, <2>1, GuestsKeep DEF SurveyShape
  <2> QED BY <1>2, <2>2, AnswersKeepRated
<1>3. ASSUME NEW s \in Sides, CommitAnswer(g, s)
      PROVE  FeedbackInv' /\ Rated'
  BY <1>1, <1>3, CommitAnswerKeeps, AnswersKeepRated
<1>4. ASSUME NEW s \in Sides, NEW rating \in Ratings, Submit(g, s, rating)
      PROVE  FeedbackInv' /\ Rated'
  <2>1. UNCHANGED <<hour, rows, sender, copies, excused>>
    BY <1>4 DEF Submit
  <2>2. FeedbackInv'
    BY <1>1, <2>1, GuestsKeep DEF SurveyShape
  <2> QED BY <1>1, <1>4, <2>2, SubmitRates
<1> QED BY <1>2, <1>3, <1>4

LEMMA FeedbackStep == FeedbackInv /\ Rated /\ [FeedbackNext]_feedbackVars => FeedbackInv' /\ Rated'
<1> SUFFICES ASSUME FeedbackInv, Rated, [FeedbackNext]_feedbackVars PROVE FeedbackInv' /\ Rated'
  OBVIOUS
<1>1. SurveyShape
  BY DEF FeedbackInv
<1>2. CASE Tick
  <2>1. UNCHANGED <<rows, sender, guest, copies, excused>> /\ hour' = hour + 1
    BY <1>2 DEF Tick
  <2>2. hour' \in Nat \ {0}
    BY <1>1, <2>1 DEF SurveyShape
  <2>3. FeedbackInv'
    BY <1>1, <2>1, <2>2, GuestsKeep DEF SurveyShape
  <2> QED BY <2>1, <2>3 DEF Rated
<1>3. CASE UNCHANGED feedbackVars
  <2>1. UNCHANGED <<hour, rows, sender, guest, copies, excused>>
    BY <1>3 DEF feedbackVars
  <2>2. FeedbackInv'
    BY <1>1, <2>1, GuestsKeep DEF SurveyShape
  <2> QED BY <2>1, <2>2 DEF Rated
<1> QED BY <1>2, <1>3, SenderStep, GuestStep DEF FeedbackNext

LEMMA FeedbackInvariant == FeedbackSpec => []FeedbackInv
<1>1. FeedbackInit => FeedbackInv /\ Rated
  BY FeedbackInitial, RatedInitial
<1>2. FeedbackSpec => [](FeedbackInv /\ Rated)
  BY <1>1, FeedbackStep, PTL DEF FeedbackSpec
<1> QED BY <1>2, PTL

\* Each link the sweeps of all instances deliver was claimed, as often as attempts are
\* allowed, and one is delivered to a side, and one more for each delivery nobody recorded
\* and each claim that was taken over after the backoff (dispatchFeedbackForBooking's
\* compare-and-set): for every number of sweeps, every backoff and every limit of attempts.
THEOREM OneLinkPerClaim == FeedbackSpec => []LinkOncePerClaim
<1>1. FeedbackInv => LinkOncePerClaim
  <2> SUFFICES ASSUME FeedbackInv, NEW s \in Sides
               PROVE  /\ copies[s] <= rows[s].attempts /\ rows[s].attempts <= MaxAttempts
                      /\ copies[s] <= 1 + excused[s]
    BY DEF LinkOncePerClaim
  <2>1. /\ copies[s] \in Nat /\ excused[s] \in Nat /\ Cardinality(Unsent(s)) \in Nat
        /\ copies[s] + Cardinality(Unsent(s)) <= excused[s] + 1
        /\ copies[s] + Cardinality(Unsent(s)) <= rows[s].attempts
        /\ rows[s].attempts \in Nat /\ rows[s].attempts <= MaxAttempts
    BY FS_CardinalityType DEF FeedbackInv, CopiesCounted, SurveyShape, RowType
  <2> QED BY <2>1
<1> QED BY <1>1, FeedbackInvariant, PTL

(***************************************************************************)
(* The alert.                                                              *)
(***************************************************************************)

Made == rows \in [Sides -> RowType] /\ Rated

\* Unless two sides answer at once, one answer is being written at a time: its
\* row is open and it has seen every other answer.
AnswersSeen(g, s) ==
    /\ guest[g].at = {s} /\ ~rows[s].done
    /\ \A o \in Sides \ {s} : rows[o].done => rows[o].rating \in guest[g].others
Alone ==
    /\ \A g, h \in Guests : guest[g].step = "commit" /\ guest[h].step = "commit" => g = h
    /\ \A g \in Guests : guest[g].step = "commit" => \E s \in Sides : AnswersSeen(g, s)

\* A discrepancy between two answers has been told, or the second one is about
\* to tell it.
Telling(a, b) ==
    \E g \in Guests : /\ guest[g].step = "tell"
                      /\ \/ guest[g].rating = rows[a].rating /\ rows[b].rating \in guest[g].others
                         \/ guest[g].rating = rows[b].rating /\ rows[a].rating \in guest[g].others
AnswersPending ==
    \A a, b \in Sides :
        a # b /\ rows[a].done /\ rows[b].done /\ Discrepant(rows[a].rating, rows[b].rating)
        => "discrepancy" \in told \/ Telling(a, b)

AlertInv == Made /\ (~missed => Alone /\ AnswersPending)

LEMMA AlertInitial == FeedbackInit => AlertInv
<1> SUFFICES ASSUME FeedbackInit PROVE AlertInv
  OBVIOUS
<1>1. NewRow \in RowType /\ ~NewRow.done /\ Away.step = "idle"
  BY DEF NewRow, RowType, Away
<1>2. Made
  BY <1>1, RatedInitial DEF FeedbackInit, Made
<1>3. Alone /\ AnswersPending
  BY <1>1 DEF FeedbackInit, Alone, AnswersPending
<1> QED BY <1>2, <1>3 DEF AlertInv

\* Steps that touch no answer.
LEMMA AlertAside ==
    ASSUME AlertInv, UNCHANGED <<guest, told, missed>>, rows' \in [Sides -> RowType],
           \A s \in Sides : rows'[s].done = rows[s].done /\ rows'[s].rating = rows[s].rating
    PROVE  AlertInv'
<1>1. Made'
  BY DEF AlertInv, Made, Rated
<1>2. Alone => Alone'
  BY DEF Alone, AnswersSeen
<1>3. AnswersPending => AnswersPending'
  BY DEF AnswersPending, Telling
<1> QED BY <1>1, <1>2, <1>3 DEF AlertInv

LEMMA SendersAlert ==
    ASSUME AlertInv, FeedbackInv, FeedbackInv', NEW p \in Senders,
           \/ StartSweep(p) \/ Ensure(p)
           \/ \E s \in Sides : StartManual(p, {s})
           \/ StartManual(p, {})
           \/ \E s \in Sides :
                 \/ Claim(p, s) \/ PickManual(p, s) \/ Store(p, s)
                 \/ \E delivered \in BOOLEAN : Send(p, s, delivered)
                 \/ \E stops \in BOOLEAN : SendingFails(p, s, stops)
    PROVE  AlertInv'
<1>1. rows \in [Sides -> RowType] /\ rows' \in [Sides -> RowType]
  BY DEF FeedbackInv, SurveyShape
<1>2. UNCHANGED <<guest, told, missed>>
  BY DEF StartSweep, StartManual, Start, Ensure, Claim, PickManual, Store, Send, SendingFails,
         NothingSent
<1>3. \A s \in Sides : rows'[s].done = rows[s].done /\ rows'[s].rating = rows[s].rating
  <2>1. CASE UNCHANGED rows
    BY <2>1
  <2>2. CASE Ensure(p)
    BY <1>1, <2>2 DEF Ensure, RowType
  <2>3. CASE \E s \in Sides : Claim(p, s) \/ Store(p, s)
    BY <1>1, <2>3 DEF Claim, Store, RowType
  <2> QED BY <2>1, <2>2, <2>3 DEF StartSweep, StartManual, Start, PickManual, Send, SendingFails
<1> QED BY <1>1, <1>2, <1>3, AlertAside

LEMMA SubmitAlert ==
    ASSUME AlertInv, FeedbackInv, Rated', NEW g \in Guests, NEW s \in Sides,
           NEW rating \in Ratings, Submit(g, s, rating)
    PROVE  AlertInv'
<1> DEFINE others == {rows[o].rating : o \in {o \in OtherSides(s) : rows[o].done}}
           n == [step |-> "commit", at |-> {s}, rating |-> rating, others |-> others]
<1>1. Made'
  BY DEF AlertInv, Made, Submit
<1>2. /\ guest'[g] = n /\ guest[g].step = "idle" /\ ~rows[s].done
      /\ \A h \in Guests \ {g} : guest'[h] = guest[h]
      /\ UNCHANGED <<rows, told>>
  BY DEF AlertInv, Made, Rated, Submit, OpenLink
<1>3. ASSUME ~missed'
      PROVE  Alone' /\ AnswersPending'
  <2>1. ~missed /\ \A h \in Guests : guest[h].step # "commit"
    BY <1>3 DEF Submit
  <2>2. Alone'
    BY <1>2, <2>1 DEF Alone, AnswersSeen, OtherSides
  <2>3. AnswersPending'
    BY <1>2, <2>1 DEF AlertInv, AnswersPending, Telling
  <2> QED BY <2>2, <2>3
<1> QED BY <1>1, <1>3 DEF AlertInv

LEMMA CommitAnswerAlert ==
    ASSUME AlertInv, FeedbackInv', Rated', NEW g \in Guests, NEW s \in Sides, CommitAnswer(g, s)
    PROVE  AlertInv'
<1>1. rows \in [Sides -> RowType] /\ Rated
  BY DEF AlertInv, Made
<1>2. Made'
  BY DEF FeedbackInv, SurveyShape, Made
<1>3. /\ guest[g].step = "commit" /\ guest[g].at = {s} /\ UNCHANGED <<told, missed>>
      /\ rows'[s].done /\ rows'[s].rating = guest[g].rating
      /\ \A o \in Sides \ {s} : rows'[o] = rows[o]
      /\ \A h \in Guests \ {g} : guest'[h] = guest[h]
      /\ guest'[g].step = "tell" /\ guest'[g].rating = guest[g].rating
      /\ guest'[g].others = guest[g].others
  BY <1>1 DEF CommitAnswer, Rated, GuestRow, RowType
<1>4. ASSUME ~missed'
      PROVE  Alone' /\ AnswersPending'
  <2>1. Alone /\ AnswersPending
    BY <1>3, <1>4 DEF AlertInv
  <2>2. /\ ~rows[s].done
        /\ \A o \in Sides \ {s} : rows[o].done => rows[o].rating \in guest[g].others
    BY <1>3, <2>1 DEF Alone, AnswersSeen
  <2>3. \A h \in Guests : guest'[h].step # "commit"
    BY <1>3, <2>1 DEF Alone
  <2>4. Alone'
    BY <2>3 DEF Alone
  <2>5. ASSUME NEW a \in Sides, NEW b \in Sides, a # b, rows'[a].done, rows'[b].done,
               Discrepant(rows'[a].rating, rows'[b].rating)
        PROVE  "discrepancy" \in told' \/ Telling(a, b)'
    <3>1. CASE a = s
      <4>1. rows'[b].rating \in guest'[g].others
        BY <1>3, <2>2, <2>5, <3>1
      <4> QED BY <1>3, <3>1, <4>1 DEF Telling
    <3>2. CASE b = s
      <4>1. rows'[a].rating \in guest'[g].others
        BY <1>3, <2>2, <2>5, <3>2
      <4> QED BY <1>3, <3>2, <4>1 DEF Telling
    <3>3. CASE a # s /\ b # s
      <4>1. "discrepancy" \in told \/ Telling(a, b)
        BY <1>3, <2>1, <2>5, <3>3 DEF AnswersPending
      <4>2. Telling(a, b) => Telling(a, b)'
        BY <1>3, <3>3 DEF Telling
      <4> QED BY <1>3, <4>1, <4>2
    <3> QED BY <3>1, <3>2, <3>3
  <2>6. AnswersPending'
    BY <2>5 DEF AnswersPending
  <2> QED BY <2>4, <2>6
<1> QED BY <1>2, <1>4 DEF AlertInv

LEMMA TellManagerAlert ==
    ASSUME AlertInv, Rated', NEW g \in Guests, TellManager(g) \/ TellingFails(g)
    PROVE  AlertInv'
<1>1. /\ rows \in [Sides -> RowType] /\ Rated /\ UNCHANGED rows /\ Away.step = "idle"
      /\ guest[g].step = "tell" /\ guest'[g] = Away
      /\ \A h \in Guests \ {g} : guest'[h] = guest[h]
  BY DEF AlertInv, Made, Rated, TellManager, TellingFails, Away
<1>2. Made'
  BY <1>1 DEF Made
<1>3. ASSUME ~missed'
      PROVE  Alone' /\ AnswersPending'
  <2>1. TellManager(g) /\ ~missed
    BY <1>3 DEF TellManager, TellingFails
  <2>2. Alone /\ AnswersPending
    BY <2>1 DEF AlertInv
  <2>3. Alone'
    BY <1>1, <2>2 DEF Alone, AnswersSeen
  <2>4. told' = told \cup AlertFor(guest[g].rating, guest[g].others)
    BY <2>1 DEF TellManager
  <2>5. ASSUME NEW a \in Sides, NEW b \in Sides, a # b, rows[a].done, rows[b].done,
               Discrepant(rows[a].rating, rows[b].rating)
        PROVE  "discrepancy" \in told' \/ Telling(a, b)'
    <3>1. CASE "discrepancy" \in told
      BY <2>4, <3>1
    <3>2. CASE "discrepancy" \notin told
      <4>1. PICK h \in Guests :
               /\ guest[h].step = "tell"
               /\ \/ guest[h].rating = rows[a].rating /\ rows[b].rating \in guest[h].others
                  \/ guest[h].rating = rows[b].rating /\ rows[a].rating \in guest[h].others
        BY <2>2, <2>5, <3>2 DEF AnswersPending, Telling
      <4>2. CASE h # g
        BY <1>1, <4>1, <4>2 DEF Telling
      <4>3. CASE h = g
        <5>1. Discrepant(rows[b].rating, rows[a].rating)
          BY <2>5 DEF Discrepant, Apart
        <5>2. \E o \in guest[g].others : Discrepant(guest[g].rating, o)
          BY <2>5, <4>1, <4>3, <5>1
        <5>3. "discrepancy" \in AlertFor(guest[g].rating, guest[g].others)
          BY <5>2 DEF AlertFor
        <5> QED BY <2>4, <5>3
      <4> QED BY <4>2, <4>3
    <3> QED BY <3>1, <3>2
  <2>6. AnswersPending'
    BY <1>1, <2>5 DEF AnswersPending
  <2> QED BY <2>3, <2>6
<1> QED BY <1>2, <1>3 DEF AlertInv

LEMMA AlertStep ==
    FeedbackInv /\ FeedbackInv' /\ Rated' /\ AlertInv /\ [FeedbackNext]_feedbackVars => AlertInv'
<1> SUFFICES ASSUME FeedbackInv, FeedbackInv', Rated', AlertInv, [FeedbackNext]_feedbackVars
             PROVE  AlertInv'
  OBVIOUS
<1>1. rows \in [Sides -> RowType]
  BY DEF AlertInv, Made
<1>2. CASE Tick \/ UNCHANGED feedbackVars
  BY <1>1, <1>2, AlertAside DEF Tick, feedbackVars
<1>3. ASSUME NEW g \in Guests,
             \/ TellManager(g) \/ TellingFails(g)
             \/ \E s \in Sides :
                   \/ CommitAnswer(g, s)
                   \/ \E rating \in Ratings : Submit(g, s, rating)
      PROVE  AlertInv'
  BY <1>3, TellManagerAlert, CommitAnswerAlert, SubmitAlert
<1> QED BY <1>2, <1>3, SendersAlert DEF FeedbackNext

\* When two sides have answered and differ, or one is low, the manager has heard
\* of the discrepancy, unless they answered at once or a process stopped
\* (submitFeedback and detectFeedbackDiscrepancy): for every number of guests
\* and every pair of thresholds.
THEOREM DiscrepancyReachesManager == FeedbackSpec => []DiscrepancyIsTold
<1>1. FeedbackInit => FeedbackInv /\ Rated /\ AlertInv
  BY FeedbackInitial, RatedInitial, AlertInitial
<1>2. FeedbackInv /\ Rated /\ AlertInv /\ [FeedbackNext]_feedbackVars
         => FeedbackInv' /\ Rated' /\ AlertInv'
  BY FeedbackStep, AlertStep
<1>3. AlertInv => DiscrepancyIsTold
  BY DEF AlertInv, AnswersPending, Telling, DiscrepancyIsTold
<1> QED BY <1>1, <1>2, <1>3, PTL DEF FeedbackSpec

(***************************************************************************)
(* Types.                                                                  *)
(***************************************************************************)

\* Only rows that were made are claimed, stored or answered, so that a row which was
\* never made holds nothing.
MadeFirst ==
    /\ \A s \in Sides : ~rows[s].made => rows[s] = NewRow
    /\ \A p \in Senders : sender[p].step \in {"pick", "send", "store"} =>
          \A s \in Sides : rows[s].made
    /\ \A g \in Guests, s \in Sides : guest[g].step = "commit" /\ guest[g].at = {s} => rows[s].made

\* The rest of the type invariant.
SparesTyped ==
    /\ survey \in Surveys
    /\ spare \in [starts : Nat, faults : Nat]
    /\ told \subseteq {"low", "discrepancy"}
    /\ missed \in BOOLEAN

\* Starts and faults are used up while there are some; alerts are of two kinds.
LEMMA SparesStep ==
    ASSUME SparesTyped, [FeedbackNext]_feedbackVars
    PROVE  SparesTyped'
<1>1. CASE UNCHANGED feedbackVars \/ Tick
  BY <1>1 DEF feedbackVars, Tick, SparesTyped
<1>2. ASSUME NEW p \in Senders, StartSweep(p) \/ \E asked \in SUBSET Sides : StartManual(p, asked)
      PROVE  SparesTyped'
  <2>1. spare.starts > 0 /\ spare' = [spare EXCEPT !.starts = @ - 1]
    BY <1>2 DEF StartSweep, StartManual, Start
  <2>2. spare' \in [starts : Nat, faults : Nat]
    BY <2>1 DEF SparesTyped
  <2>3. UNCHANGED <<survey, told, missed>>
    BY <1>2 DEF StartSweep, StartManual, Start, NothingSent
  <2> QED BY <2>2, <2>3 DEF SparesTyped
<1>3. ASSUME NEW p \in Senders, NEW s \in Sides,
             Ensure(p) \/ Claim(p, s) \/ PickManual(p, s) \/ Store(p, s)
      PROVE  SparesTyped'
  BY <1>3 DEF Ensure, Claim, PickManual, Store, NothingSent, SparesTyped
<1>4. ASSUME NEW p \in Senders, NEW s \in Sides, NEW b \in BOOLEAN,
             Send(p, s, b) \/ SendingFails(p, s, b)
      PROVE  SparesTyped'
  BY <1>4 DEF Send, SendingFails, NothingSent, SparesTyped
<1>5. ASSUME NEW g \in Guests, TellManager(g) \/ TellingFails(g)
      PROVE  SparesTyped'
  <2>1. CASE TellManager(g)
    BY <2>1 DEF TellManager, AlertFor, SparesTyped
  <2>2. CASE TellingFails(g)
    BY <2>2 DEF TellingFails, SparesTyped
  <2> QED BY <1>5, <2>1, <2>2
<1>6. ASSUME NEW g \in Guests, NEW s \in Sides,
             CommitAnswer(g, s) \/ \E rating \in Ratings : Submit(g, s, rating)
      PROVE  SparesTyped'
  BY <1>6 DEF CommitAnswer, Submit, SparesTyped
<1>7. ASSUME NEW p \in Senders, Ensure(p)
      PROVE  SparesTyped'
  BY <1>7 DEF Ensure, NothingSent, SparesTyped
<1> QED BY <1>1, <1>2, <1>3, <1>4, <1>5, <1>6, <1>7 DEF FeedbackNext

\* Sweeps and managers make the rows before they take one.
LEMMA MadeFirstBySender ==
    ASSUME FeedbackInv, MadeFirst, NEW p \in Senders,
           \/ StartSweep(p) \/ Ensure(p)
           \/ \E asked \in SUBSET Sides : StartManual(p, asked)
           \/ \E s \in Sides :
                 \/ Claim(p, s) \/ PickManual(p, s) \/ Store(p, s)
                 \/ \E delivered \in BOOLEAN : Send(p, s, delivered)
                 \/ \E stops \in BOOLEAN : SendingFails(p, s, stops)
    PROVE  MadeFirst'
<1>0. SurveyShape /\ sender[p] \in SenderRow /\ Resting \in SenderRow /\ Resting.step = "idle"
  BY DEF FeedbackInv, SurveyShape, Resting, SenderRow
<1>1. ASSUME StartSweep(p) \/ \E asked \in SUBSET Sides : StartManual(p, asked)
      PROVE  MadeFirst'
  <2>1. PICK r : r.step = "ensure" /\ sender' = [sender EXCEPT ![p] = r]
    BY <1>1 DEF StartSweep, StartManual, Start, Resting
  <2>2. UNCHANGED <<rows, guest>>
    BY <1>1 DEF StartSweep, StartManual, Start, NothingSent
  <2> QED BY <1>0, <2>1, <2>2 DEF MadeFirst, SurveyShape
<1>2. ASSUME Ensure(p) PROVE MadeFirst'
  <2>1. rows' = [s \in Sides |-> [rows[s] EXCEPT !.made = TRUE]] /\ guest' = guest
    BY <1>2 DEF Ensure, NothingSent
  <2>2. \A s \in Sides : rows'[s].made
    BY <1>0, <2>1 DEF SurveyShape, RowType
  <2> QED BY <2>1, <2>2 DEF MadeFirst
<1>3. ASSUME NEW s \in Sides, Claim(p, s)
      PROVE  MadeFirst'
  <2>1. \A t \in Sides : rows[t].made
    BY <1>3 DEF Claim, MadeFirst
  <2>2. \A t \in Sides : rows'[t].made
    BY <1>0, <1>3, <2>1 DEF Claim, SurveyShape, RowType
  <2> QED BY <1>3, <2>2 DEF MadeFirst, Claim, NothingSent
<1>4. ASSUME NEW s \in Sides, Store(p, s)
      PROVE  MadeFirst'
  <2>1. \A t \in Sides : rows[t].made
    BY <1>4 DEF Store, MadeFirst
  <2>2. \A t \in Sides : rows'[t].made
    BY <1>0, <1>4, <2>1 DEF Store, SurveyShape, RowType
  <2> QED BY <1>4, <2>2 DEF MadeFirst, Store, NothingSent
<1>5. ASSUME NEW s \in Sides,
             \/ PickManual(p, s) \/ \E delivered \in BOOLEAN : Send(p, s, delivered)
             \/ \E stops \in BOOLEAN : SendingFails(p, s, stops)
      PROVE  MadeFirst'
  <2>1. \A t \in Sides : rows[t].made
    BY <1>5 DEF PickManual, Send, SendingFails, MadeFirst
  <2> QED BY <1>5, <2>1 DEF MadeFirst, PickManual, Send, SendingFails, NothingSent
<1> QED BY <1>1, <1>2, <1>3, <1>4, <1>5

\* A guest answers on a row that was made.
LEMMA MadeFirstByGuest ==
    ASSUME FeedbackInv, Rated, MadeFirst, NEW g \in Guests,
           \/ TellManager(g) \/ TellingFails(g)
           \/ \E s \in Sides :
                 \/ CommitAnswer(g, s)
                 \/ \E rating \in Ratings : Submit(g, s, rating)
    PROVE  MadeFirst'
<1>0. SurveyShape /\ guest \in [Guests -> GuestRow] /\ guest[g] \in GuestRow
  BY DEF FeedbackInv, Rated
<1>1. CASE TellManager(g) \/ TellingFails(g)
  <2>1. guest' = [guest EXCEPT ![g] = Away] /\ UNCHANGED <<rows, sender>> /\ Away.step = "idle"
    BY <1>1 DEF TellManager, TellingFails, Away
  <2> QED BY <1>0, <2>1 DEF MadeFirst
<1>2. ASSUME NEW s \in Sides, CommitAnswer(g, s)
      PROVE  MadeFirst'
  <2>1. rows[s].made
    BY <1>2 DEF CommitAnswer, MadeFirst
  <2>2. rows'[s].made /\ \A t \in Sides \ {s} : rows'[t] = rows[t]
    BY <1>0, <1>2, <2>1 DEF CommitAnswer, SurveyShape, RowType
  <2>3. /\ guest'[g].step = "tell" /\ sender' = sender
        /\ \A h \in Guests \ {g} : guest'[h] = guest[h]
    BY <1>0, <1>2 DEF CommitAnswer, GuestRow
  <2> QED BY <2>2, <2>3 DEF MadeFirst
<1>3. ASSUME NEW s \in Sides, NEW rating \in Ratings, Submit(g, s, rating)
      PROVE  MadeFirst'
  <2>1. rows[s].made /\ UNCHANGED <<rows, sender>>
    BY <1>3 DEF Submit, OpenLink
  <2>2. guest'[g].at = {s} /\ \A h \in Guests \ {g} : guest'[h] = guest[h]
    BY <1>0, <1>3 DEF Submit
  <2>3. \A t \in Sides : guest'[g].at = {t} => t = s
    BY <2>2
  <2> QED BY <2>1, <2>2, <2>3 DEF MadeFirst
<1> QED BY <1>1, <1>2, <1>3

\* Rows are made first, whoever takes a step.
LEMMA MadeFirstStep ==
    ASSUME FeedbackInv, Rated, MadeFirst, [FeedbackNext]_feedbackVars
    PROVE  MadeFirst'
<1>1. CASE Tick \/ UNCHANGED feedbackVars
  <2>1. UNCHANGED <<rows, sender, guest>>
    BY <1>1 DEF Tick, feedbackVars
  <2> QED BY <2>1 DEF MadeFirst
<1>2. ASSUME NEW p \in Senders,
             \/ StartSweep(p) \/ Ensure(p)
             \/ \E s \in Sides : StartManual(p, {s})
             \/ StartManual(p, {})
             \/ \E s \in Sides :
                   \/ Claim(p, s) \/ PickManual(p, s) \/ Store(p, s)
                   \/ \E delivered \in BOOLEAN : Send(p, s, delivered)
                   \/ \E stops \in BOOLEAN : SendingFails(p, s, stops)
      PROVE  MadeFirst'
  <2>1. StartManual(p, {}) \/ (\E s \in Sides : StartManual(p, {s})) =>
           \E asked \in SUBSET Sides : StartManual(p, asked)
    OBVIOUS
  <2> QED BY <1>2, <2>1, MadeFirstBySender
<1> QED BY <1>1, <1>2, MadeFirstByGuest DEF FeedbackNext

\* The rows and whatever is in the hands of sweeps, managers and guests are of
\* their types, and a row that was never made holds nothing.
THEOREM FeedbackTypes == FeedbackSpec => []FeedbackTypeOK
<1> DEFINE I == FeedbackInv /\ Rated /\ MadeFirst /\ SparesTyped
<1>1. FeedbackInit => I
  <2> SUFFICES ASSUME FeedbackInit PROVE I
    OBVIOUS
  <2>1. MadeFirst
    BY DEF FeedbackInit, MadeFirst, Resting, Away
  <2>2. SparesTyped
    BY FeedbackAssumption DEF FeedbackInit, SparesTyped
  <2> QED BY <2>1, <2>2, FeedbackInitial, RatedInitial
<1>2. I /\ [FeedbackNext]_feedbackVars => I'
  <2> SUFFICES ASSUME I, [FeedbackNext]_feedbackVars PROVE I'
    OBVIOUS
  <2>1. FeedbackInv' /\ Rated' /\ SparesTyped'
    BY FeedbackStep, SparesStep
  <2>2. MadeFirst'
    BY MadeFirstStep
  <2> QED BY <2>1, <2>2
<1>3. I => FeedbackTypeOK
  BY DEF FeedbackInv, SurveyShape, Rated, MadeFirst, SparesTyped, FeedbackTypeOK, SenderRow, GuestRow
<1> QED BY <1>1, <1>2, <1>3, PTL DEF FeedbackSpec
=============================================================================
