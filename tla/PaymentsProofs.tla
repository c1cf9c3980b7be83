--------------------------- MODULE PaymentsProofs ---------------------------
(***************************************************************************)
(* Proofs about the payout pipeline, for any number of handlers, keys,     *)
(* payouts, retries and crashes, and any order the network delivers in.    *)
(***************************************************************************)
EXTENDS Payments, FiniteSums, SequenceTheorems

-----------------------------------------------------------------------------
\* The invariant

\* The keys with a record; no record is ever removed.
Known == {k \in Keys : db[k] # None}

Item(known) ==
    [key : known, status : StoredStatuses, signed : Keys \cup {None}, attempts : 0..MaxAttempts]

Answers == {"ERROR", "TRY_AGAIN_LATER", "DUPLICATE", "PENDING", "exception"}

\* What a handler, and the confirmation worker, can be doing once the keys in known have
\* a record.
HandlerStep(known) ==
    {Idle}
    \cup [at : {"building"}, request : Requests]
    \cup [at : {"inserting"}, request : Requests, sequence : Nat \ {0}]
    \cup [at : {"queueing"}, key : known, tx : known]
    \cup [at : {"working"}, todo : Seq(Item(known)) \ {<<>>}]
    \cup [at : {"giving_up", "enqueueing"}, key : known, rest : Seq(Item(known))]
    \cup [at : {"sending"}, key : known, rest : Seq(Item(known)), batch : BOOLEAN,
          tx : known, attempts : 1..MaxAttempts]
    \cup [at : {"recording"}, key : known, rest : Seq(Item(known)), batch : BOOLEAN,
          tx : known, attempts : 1..MaxAttempts, answer : Answers]

Job(known) == [key : known, made : Nat]
ReconcilerStep(known) ==
    {Idle}
    \cup [at : {"asking"}, job : Job(known), tx : known]
    \cup [at : {"settling"}, job : Job(known), status : {"confirmed", "failed"}]
    \cup [at : {"burying"}, job : Job(known)]

PaymentsTypeOK ==
    /\ mode \in Modes
    /\ db \in [Keys -> Record \cup {None}]
    /\ created \in Seq(Known)
    /\ handler \in [Handlers -> HandlerStep(Known)]
    /\ DOMAIN jobs \subseteq Job(Known)
    /\ reconciler \in ReconcilerStep(Known)
    /\ account \in Nat
    /\ mempool \subseteq Known /\ delayed \subseteq Known
    /\ outcome \in [Keys -> {"SUCCESS", "FAILED", None}]

\* A transaction pays whom the record's own would: assertSignedTransactionMatches.
Matches(tx, k) == RecipientOf(tx) = RecipientOf(k)
PaidFor(k) == \E tx \in Keys : outcome[tx] = "SUCCESS" /\ Matches(tx, k)

RecordFits(k, record) ==
    /\ record.signed # None => record.signed \in Known /\ Matches(record.signed, k)
    /\ record.hash # None => record.hash \in Known /\ Matches(record.hash, k)
    /\ record.status = "submitted" => record.hash # None
    /\ record.status = "confirmed" => PaidFor(k)

StepFits(step) == step.at \in {"queueing", "sending", "recording"} => Matches(step.tx, step.key)

ReconcilerFits(step) ==
    /\ step.at = "asking" => Matches(step.tx, step.job.key)
    /\ step.at = "settling" /\ step.status = "confirmed" => PaidFor(step.job.key)

\* A transaction is applied once: the account is past its sequence number.
AppliedOnce ==
    \A tx \in Keys : outcome[tx] # None => tx \in Known /\ db[tx].sequence <= account

PaymentsSound ==
    /\ PaymentsTypeOK
    /\ \A k \in Known : RecordFits(k, db[k])
    /\ \A h \in Handlers : StepFits(handler[h])
    /\ ReconcilerFits(reconciler)
    /\ AppliedOnce

LEMMA PaymentsSoundInit == ASSUME Init PROVE PaymentsSound
<1> USE DEF Init
<1>1. Known = {}
  BY DEF Known
<1>2. DOMAIN jobs = {}
  BY DEF EmptyBag, SetToBag
<1>3. PaymentsTypeOK
  BY <1>1, <1>2 DEF PaymentsTypeOK, HandlerStep, ReconcilerStep
<1>4. StepFits(Idle) /\ ReconcilerFits(Idle)
  BY DEF StepFits, ReconcilerFits, Idle
<1>5. AppliedOnce
  BY DEF AppliedOnce
<1> QED BY <1>1, <1>3, <1>4, <1>5 DEF PaymentsSound

-----------------------------------------------------------------------------
\* What stays true when records are added and changed

\* Records keep whom they pay, and what succeeded has succeeded.
Grows ==
    /\ Known \subseteq Known'
    /\ \A k \in Known : db'[k].payout = db[k].payout /\ db'[k].sequence = db[k].sequence
    /\ \A tx \in Keys : outcome[tx] = "SUCCESS" => outcome'[tx] = "SUCCESS"

LEMMA GrowingKeeps ==
    ASSUME Grows
    PROVE  /\ \A k \in Known : RecipientOf(k)' = RecipientOf(k)
           /\ \A k \in Known : PaidFor(k) /\ AppliedOnce => PaidFor(k)'
<1>1. \A k \in Known : RecipientOf(k)' = RecipientOf(k)
  BY DEF Grows, RecipientOf
<1>2. \A k \in Known : PaidFor(k) /\ AppliedOnce => PaidFor(k)'
  <2> SUFFICES ASSUME NEW k \in Known, AppliedOnce,
                      NEW tx \in Keys, outcome[tx] = "SUCCESS", Matches(tx, k)
               PROVE  PaidFor(k)'
    BY DEF PaidFor
  <2>1. tx \in Known
    BY NoneIsNothing DEF AppliedOnce
  <2>2. Matches(tx, k)'
    BY <1>1, <2>1 DEF Matches
  <2> QED BY <2>2 DEF PaidFor, Grows
<1> QED BY <1>1, <1>2

LEMMA StepsGrow ==
    ASSUME NEW known, NEW more, known \subseteq more
    PROVE  /\ Seq(Item(known)) \subseteq Seq(Item(more)) /\ Job(known) \subseteq Job(more)
           /\ HandlerStep(known) \subseteq HandlerStep(more)
           /\ ReconcilerStep(known) \subseteq ReconcilerStep(more)
<1>1. Seq(Item(known)) \subseteq Seq(Item(more)) /\ Job(known) \subseteq Job(more)
  <2>1. Item(known) \subseteq Item(more)
    BY DEF Item
  <2> QED BY <2>1 DEF Job
<1>2. HandlerStep(known) \subseteq HandlerStep(more)
  BY <1>1 DEF HandlerStep
<1>3. ReconcilerStep(known) \subseteq ReconcilerStep(more)
  BY <1>1 DEF ReconcilerStep
<1> QED BY <1>1, <1>2, <1>3

-----------------------------------------------------------------------------
\* Every step keeps it

\* What handlers and the worker go on to was fit before the records grew.
LEMMA Keeps ==
    ASSUME PaymentsSound, Grows, mode' = mode,
           db' \in [Keys -> Record \cup {None}], \A k \in Known' : RecordFits(k, db[k])',
           created' \in Seq(Known'),
           handler' \in [Handlers -> HandlerStep(Known)], \A h \in Handlers : StepFits(handler'[h]),
           reconciler' \in ReconcilerStep(Known), ReconcilerFits(reconciler'),
           DOMAIN jobs' \subseteq Job(Known), mempool' \subseteq Known, delayed' \subseteq Known,
           account' \in Nat, outcome' \in [Keys -> {"SUCCESS", "FAILED", None}], AppliedOnce'
    PROVE  PaymentsSound'
<1>1. Known \subseteq Known'
  BY DEF Grows
<1>2. /\ Job(Known) \subseteq Job(Known)' /\ HandlerStep(Known) \subseteq HandlerStep(Known)'
      /\ ReconcilerStep(Known) \subseteq ReconcilerStep(Known)'
  <2>1. /\ Job(Known) \subseteq Job(Known') /\ HandlerStep(Known) \subseteq HandlerStep(Known')
        /\ ReconcilerStep(Known) \subseteq ReconcilerStep(Known')
    BY <1>1, StepsGrow
  <2> QED BY <2>1 DEF Job, HandlerStep, ReconcilerStep, Item, Idle
<1>3. PaymentsTypeOK'
  BY <1>1, <1>2 DEF PaymentsSound, PaymentsTypeOK
<1>4. \A h \in Handlers : StepFits(handler[h])'
  <2> SUFFICES ASSUME NEW h \in Handlers PROVE StepFits(handler[h])'
    OBVIOUS
  <2> DEFINE step == handler'[h]
  <2>1. step \in HandlerStep(Known) /\ StepFits(step)
    OBVIOUS
  <2>2. step.at \in {"queueing", "sending", "recording"} => step.key \in Known /\ step.tx \in Known
    BY <2>1 DEF HandlerStep, Idle
  <2>3. \A k \in Known : RecipientOf(k)' = RecipientOf(k)
    BY GrowingKeeps
  <2> QED BY <2>1, <2>2, <2>3 DEF StepFits, Matches
<1>5. ReconcilerFits(reconciler)'
  <2> DEFINE step == reconciler'
  <2>1. /\ step.at \in {"asking", "settling"} => step.job.key \in Known
        /\ step.at = "asking" => step.tx \in Known
    BY DEF ReconcilerStep, Job, Idle
  <2>2. /\ \A k \in Known : RecipientOf(k)' = RecipientOf(k)
        /\ \A k \in Known : PaidFor(k) => PaidFor(k)'
    BY GrowingKeeps DEF PaymentsSound
  <2> QED BY <2>1, <2>2 DEF ReconcilerFits, Matches
<1> QED BY <1>3, <1>4, <1>5 DEF PaymentsSound

LEMMA NoRecordChanges ==
    ASSUME PaymentsSound, UNCHANGED <<db, outcome>>
    PROVE  /\ Grows /\ Known' = Known /\ db' \in [Keys -> Record \cup {None}]
           /\ \A k \in Known' : RecordFits(k, db[k])'
           /\ outcome' \in [Keys -> {"SUCCESS", "FAILED", None}]
<1>1. Known' = Known
  BY DEF Known
<1> QED BY <1>1 DEF Grows, PaymentsSound, PaymentsTypeOK, RecordFits, PaidFor, Matches, RecipientOf

\* A handler goes on, and at most the queue and the network hear of it.
LEMMA HandlerMoves ==
    ASSUME PaymentsSound, NEW h \in Handlers, NEW step \in HandlerStep(Known), StepFits(step),
           Goto(h, step), UNCHANGED <<mode, db, created, reconciler, account, outcome>>,
           DOMAIN jobs' \subseteq Job(Known), mempool' \subseteq Known, delayed' \subseteq Known
    PROVE  PaymentsSound'
<1>1. handler' \in [Handlers -> HandlerStep(Known)] /\ \A g \in Handlers : StepFits(handler'[g])
  BY DEF Goto, PaymentsSound, PaymentsTypeOK
<1>2. AppliedOnce'
  BY NoRecordChanges DEF PaymentsSound, AppliedOnce
<1>3. /\ created' \in Seq(Known') /\ reconciler' \in ReconcilerStep(Known)
      /\ ReconcilerFits(reconciler') /\ account' \in Nat
  BY NoRecordChanges DEF PaymentsSound, PaymentsTypeOK
<1> QED BY <1>1, <1>2, <1>3, NoRecordChanges, Keeps

\* Only a handler goes on.
LEMMA HandlerOnly ==
    ASSUME PaymentsSound, NEW h \in Handlers, NEW step \in HandlerStep(Known), StepFits(step),
           Goto(h, step), UNCHANGED <<mode, db, created, jobs, reconciler, network, crashes>>
    PROVE  PaymentsSound'
<1>1. UNCHANGED <<account, outcome, mempool, delayed>>
  BY DEF network
<1>2. DOMAIN jobs' \subseteq Job(Known) /\ mempool' \subseteq Known /\ delayed' \subseteq Known
  BY <1>1 DEF PaymentsSound, PaymentsTypeOK
<1> QED BY <1>1, <1>2, HandlerMoves

\* The record of a key that has one changes, but not whom it pays.
LEMMA RecordMoves ==
    ASSUME PaymentsSound, NEW k \in Known, NEW record \in Record,
           record.payout = db[k].payout, record.sequence = db[k].sequence, RecordFits(k, record),
           db' = [db EXCEPT ![k] = record],
           UNCHANGED <<mode, created, jobs, network, crashes>>,
           handler' \in [Handlers -> HandlerStep(Known)], \A h \in Handlers : StepFits(handler'[h]),
           reconciler' \in ReconcilerStep(Known), ReconcilerFits(reconciler')
    PROVE  PaymentsSound'
<1> USE DEF PaymentsSound, PaymentsTypeOK
<1>1. /\ db \in [Keys -> Record \cup {None}] /\ k \in Keys /\ record # None
      /\ UNCHANGED <<account, outcome, mempool, delayed>>
  BY NoneIsNothing DEF Known, network
<1>2. db' \in [Keys -> Record \cup {None}]
  BY <1>1
<1>3. Known' = Known
  BY <1>1 DEF Known
<1>4. Grows
  BY <1>1, <1>3 DEF Grows, Known
<1>5. \A j \in Known' : RecordFits(j, db[j])'
  <2> SUFFICES ASSUME NEW j \in Known PROVE RecordFits(j, db[j])'
    BY <1>3
  <2>1. RecordFits(j, db'[j])
    BY <1>1 DEF Known
  <2>2. /\ \A i \in Known : RecipientOf(i)' = RecipientOf(i)
        /\ \A i \in Known : PaidFor(i) => PaidFor(i)'
    BY <1>4, GrowingKeeps
  <2> QED BY <1>3, <2>1, <2>2 DEF RecordFits, Matches
<1>6. AppliedOnce'
  BY <1>1, <1>3, <1>4 DEF AppliedOnce, Grows
<1>7. /\ created' \in Seq(Known') /\ DOMAIN jobs' \subseteq Job(Known)
      /\ mempool' \subseteq Known /\ delayed' \subseteq Known /\ account' \in Nat
      /\ outcome' \in [Keys -> {"SUCCESS", "FAILED", None}]
  BY <1>1, <1>3
<1> QED BY <1>2, <1>4, <1>5, <1>6, <1>7, Keeps

\* What a request goes on with has its record.
LEMMA HandlerKnows ==
    ASSUME PaymentsSound, NEW h \in Handlers
    PROVE  /\ handler[h].at \in {"building", "inserting"} => handler[h].request \in Requests
           /\ handler[h].at = "inserting" => handler[h].sequence \in Nat \ {0}
           /\ handler[h].at = "queueing" => handler[h].key \in Known /\ handler[h].tx \in Known
           /\ handler[h].at = "working" =>
                  handler[h].todo \in Seq(Item(Known)) /\ handler[h].todo # <<>>
           /\ handler[h].at \in {"giving_up", "enqueueing"} =>
                  handler[h].key \in Known /\ handler[h].rest \in Seq(Item(Known))
           /\ handler[h].at \in {"sending", "recording"} =>
                  /\ handler[h].key \in Known /\ handler[h].rest \in Seq(Item(Known))
                  /\ handler[h].batch \in BOOLEAN /\ handler[h].tx \in Known
                  /\ handler[h].attempts \in 1..MaxAttempts
           /\ handler[h].at = "recording" => handler[h].answer \in Answers
<1>1. handler[h] \in HandlerStep(Known)
  BY DEF PaymentsSound, PaymentsTypeOK
<1> QED BY <1>1 DEF HandlerStep, Idle

LEMMA KnownRecord ==
    ASSUME PaymentsSound, NEW k \in Known
    PROVE  /\ k \in Keys /\ db[k] \in Record /\ RecordFits(k, db[k])
           /\ db[k].status \in StoredStatuses /\ db[k].signed \in Keys \cup {None}
           /\ db[k].hash \in Keys \cup {None} /\ db[k].attempts \in 0..MaxAttempts
BY DEF PaymentsSound, PaymentsTypeOK, Known, Record

LEMMA RestFits ==
    ASSUME PaymentsSound, NEW todo \in Seq(Item(Known))
    PROVE  Rest(todo) \in HandlerStep(Known) /\ StepFits(Rest(todo))
BY DEF Rest, HandlerStep, StepFits, Idle

LEMMA TodoFits ==
    ASSUME PaymentsSound, NEW h \in Handlers, handler[h].at = "working"
    PROVE  /\ Head(handler[h].todo) \in Item(Known)
           /\ Tail(handler[h].todo) \in Seq(Item(Known))
<1>1. handler[h].todo \in Seq(Item(Known)) /\ handler[h].todo # <<>>
  BY HandlerKnows
<1> QED BY <1>1

LEMMA LookupStep ==
    ASSUME PaymentsSound, NEW h \in Handlers, NEW r \in Requests, Lookup(h, r)
    PROVE  PaymentsSound'
<1> DEFINE step == [at |-> "building", request |-> r]
<1>1. step \in HandlerStep(Known) /\ StepFits(step)
  BY DEF HandlerStep, StepFits
<1> HIDE DEF step
<1> QED BY <1>1, HandlerOnly DEF Lookup, step

LEMMA BuildStep ==
    ASSUME PaymentsSound, NEW h \in Handlers, Build(h) PROVE PaymentsSound'
<1> DEFINE step == [at |-> "inserting", request |-> handler[h].request, sequence |-> account + 1]
<1>1. handler[h].request \in Requests /\ account + 1 \in Nat \ {0}
  BY HandlerKnows DEF Build, PaymentsSound, PaymentsTypeOK
<1>2. step \in HandlerStep(Known) /\ StepFits(step)
  BY <1>1 DEF HandlerStep, StepFits
<1>3. Idle \in HandlerStep(Known) /\ StepFits(Idle)
  BY DEF HandlerStep, StepFits, Idle
<1> HIDE DEF step
<1> QED BY <1>2, <1>3, HandlerOnly DEF Build, step

\* A record that is new has no signature but its own, and nobody's hash.
LEMMA InsertStep ==
    ASSUME PaymentsSound, NEW h \in Handlers, Insert(h) PROVE PaymentsSound'
<1> USE DEF PaymentsSound, PaymentsTypeOK
<1> DEFINE r == handler[h].request
           record == [payout |-> r.payout, sequence |-> handler[h].sequence,
                      status |-> FirstStatus[mode], signed |-> IF mode = "hot" THEN r.key ELSE None,
                      hash |-> None, attempts |-> 0]
<1>1. /\ r \in Requests /\ r.key \in Keys /\ r.payout \in PayoutIds
      /\ handler[h].sequence \in Nat \ {0}
      /\ Goto(h, Idle) /\ UNCHANGED <<mode, jobs, reconciler, network, crashes>>
  BY HandlerKnows, PaymentConstants DEF Insert
<1>2. Idle \in HandlerStep(Known) /\ StepFits(Idle)
  BY DEF HandlerStep, StepFits, Idle
<1>3. CASE db[r.key] # None
  <2>1. UNCHANGED <<db, created>>
    BY <1>3 DEF Insert
  <2> QED BY <1>1, <1>2, <2>1, HandlerOnly
<1>4. CASE db[r.key] = None
  <2>1. db' = [db EXCEPT ![r.key] = record] /\ created' = Append(created, r.key)
    BY <1>4 DEF Insert
  <2>2. /\ record \in Record /\ record # None
        /\ record.status \notin {"submitted", "confirmed"} /\ record.signed \in {r.key, None}
        /\ record.hash = None
    <3>1. FirstStatus[mode] \in {"queued", "awaiting_signature", "built"}
      BY PaymentConstants DEF FirstStatus
    <3>2. record \in Record
      BY <1>1, <3>1, PaymentConstants DEF Record, StoredStatuses
    <3> QED BY <3>1, <3>2, NoneIsNothing
  <2> HIDE DEF record
  <2>3. Known' = Known \cup {r.key} /\ r.key \notin Known
    BY <1>1, <1>4, <2>1, <2>2 DEF Known
  <2>4. /\ db' \in [Keys -> Record \cup {None}] /\ db'[r.key] = record
        /\ \A k \in Known : db'[k] = db[k]
    BY <1>1, <2>1, <2>2, <2>3
  <2>5. UNCHANGED <<account, outcome, mempool, delayed>>
    BY <1>1 DEF network
  <2>6. Grows
    BY <2>3, <2>4, <2>5 DEF Grows
  <2>7. \A k \in Known' : RecordFits(k, db[k])'
    <3> SUFFICES ASSUME NEW k \in Known' PROVE RecordFits(k, db[k])'
      OBVIOUS
    <3>1. CASE k = r.key
      BY <2>2, <2>3, <2>4, <3>1 DEF RecordFits, Matches
    <3>2. CASE k \in Known
      <4>1. /\ \A i \in Known : RecipientOf(i)' = RecipientOf(i)
            /\ \A i \in Known : PaidFor(i) => PaidFor(i)'
        BY <2>6, GrowingKeeps
      <4> QED BY <2>3, <2>4, <3>2, <4>1 DEF RecordFits, Matches
    <3> QED BY <2>3, <3>1, <3>2
  <2>8. AppliedOnce'
    BY <2>3, <2>4, <2>5 DEF AppliedOnce
  <2>9. created' \in Seq(Known')
    BY <2>1, <2>3
  <2>10. handler' \in [Handlers -> HandlerStep(Known)] /\ \A g \in Handlers : StepFits(handler'[g])
    BY <1>1, <1>2 DEF Goto
  <2> QED BY <1>1, <2>4, <2>5, <2>6, <2>7, <2>8, <2>9, <2>10, Keeps
<1> QED BY <1>3, <1>4

\* The audit: the signature is of a transaction with the same recipient and amount.
LEMMA SignStep ==
    ASSUME PaymentsSound, NEW h \in Handlers, NEW k \in Keys, NEW tx \in Keys, Sign(h, k, tx)
    PROVE  PaymentsSound'
<1> DEFINE step == [at |-> "queueing", key |-> k, tx |-> tx]
<1>1. step \in HandlerStep(Known)
  BY DEF Sign, HandlerStep, Known
<1>2. StepFits(step)
  BY DEF Sign, SignedMatches, StepFits, Matches
<1> HIDE DEF step
<1> QED BY <1>1, <1>2, HandlerOnly DEF Sign, step

LEMMA QueueSignedStep ==
    ASSUME PaymentsSound, NEW h \in Handlers, QueueSigned(h) PROVE PaymentsSound'
<1>1. PICK k \in Known, tx \in Known : k = handler[h].key /\ tx = handler[h].tx /\ Matches(tx, k)
  BY HandlerKnows DEF QueueSigned, PaymentsSound, StepFits
<1> DEFINE record == [db[k] EXCEPT !.signed = tx, !.status = "queued"]
<1>2. /\ db[k] \in Record /\ RecordFits(k, db[k]) /\ tx \in Keys /\ k \in Keys
  BY KnownRecord DEF Known
<1>3. record \in Record /\ record.payout = db[k].payout /\ record.sequence = db[k].sequence
  BY <1>2 DEF Record, StoredStatuses
<1>4. RecordFits(k, record)
  BY <1>1, <1>2 DEF RecordFits, Record
<1>5. db' = [db EXCEPT ![k] = record]
  BY <1>1, <1>2 DEF QueueSigned, PaymentsSound, PaymentsTypeOK, Record
<1>6. Idle \in HandlerStep(Known) /\ StepFits(Idle)
  BY DEF HandlerStep, StepFits, Idle
<1>7. handler' \in [Handlers -> HandlerStep(Known)] /\ \A g \in Handlers : StepFits(handler'[g])
  BY <1>6 DEF QueueSigned, Goto, PaymentsSound, PaymentsTypeOK
<1>8. reconciler' \in ReconcilerStep(Known) /\ ReconcilerFits(reconciler')
  BY DEF QueueSigned, PaymentsSound, PaymentsTypeOK
<1> HIDE DEF record
<1> QED BY <1>3, <1>4, <1>5, <1>7, <1>8, RecordMoves DEF QueueSigned

\* A status is stored, or refused, and nothing else of the records changes.
LEMMA StatusMoves ==
    ASSUME PaymentsSound, NEW k \in Known, NEW status \in {"queued", "failed", "dead", "confirmed"},
           status = "confirmed" => PaidFor(k),
           SetStatus(k, status) \/ UNCHANGED db,
           UNCHANGED <<mode, created, jobs, network, crashes>>,
           handler' \in [Handlers -> HandlerStep(Known)], \A h \in Handlers : StepFits(handler'[h]),
           reconciler' \in ReconcilerStep(Known), ReconcilerFits(reconciler')
    PROVE  PaymentsSound'
<1>1. db[k] \in Record /\ RecordFits(k, db[k]) /\ k \in Keys
  BY KnownRecord
<1>2. db \in [Keys -> Record \cup {None}]
  BY DEF PaymentsSound, PaymentsTypeOK
<1>3. CASE UNCHANGED db
  <2>1. db' = [db EXCEPT ![k] = db[k]]
    BY <1>2, <1>3
  <2> QED BY <1>1, <2>1, RecordMoves
<1>4. CASE status \in StoredStatuses /\ db' = [db EXCEPT ![k].status = status]
  <2> DEFINE record == [db[k] EXCEPT !.status = status]
  <2>1. record \in Record /\ record.payout = db[k].payout /\ record.sequence = db[k].sequence
    BY <1>1, <1>4 DEF Record
  <2>2. RecordFits(k, record)
    BY <1>1 DEF RecordFits, Record
  <2>3. db' = [db EXCEPT ![k] = record]
    BY <1>2, <1>4
  <2> HIDE DEF record
  <2> QED BY <2>1, <2>2, <2>3, RecordMoves
<1> QED BY <1>3, <1>4 DEF SetStatus

LEMMA HandlerSetsStatus ==
    ASSUME PaymentsSound, NEW h \in Handlers, NEW k \in Known,
           NEW status \in {"queued", "failed", "dead"}, SetStatus(k, status) \/ UNCHANGED db,
           NEW todo \in Seq(Item(Known)), Goto(h, Rest(todo)),
           UNCHANGED <<mode, created, jobs, reconciler, network, crashes>>
    PROVE  PaymentsSound'
<1>1. Rest(todo) \in HandlerStep(Known) /\ StepFits(Rest(todo))
  BY RestFits
<1>2. handler' \in [Handlers -> HandlerStep(Known)] /\ \A g \in Handlers : StepFits(handler'[g])
  BY <1>1 DEF Goto, PaymentsSound, PaymentsTypeOK
<1>3. reconciler' \in ReconcilerStep(Known) /\ ReconcilerFits(reconciler')
  BY DEF PaymentsSound, PaymentsTypeOK
<1> QED BY <1>2, <1>3, StatusMoves

LEMMA LeastOfTwo == ASSUME NEW a \in Nat, NEW b \in Nat PROVE Min({a, b}) \in Nat
<1>1. \E x \in {a, b} : \A y \in {a, b} : x <= y
  OBVIOUS
<1> QED BY <1>1 DEF Min

LEMMA PositionsCount ==
    ASSUME NEW S, NEW seq \in Seq(S), NEW P \in SUBSET DOMAIN seq
    PROVE  Cardinality(P) \in Nat
<1>1. DOMAIN seq = 1..Len(seq) /\ Len(seq) \in Nat
  OBVIOUS
<1>2. IsFiniteSet(1..Len(seq))
  BY <1>1, FS_Interval
<1>3. IsFiniteSet(P)
  BY <1>1, <1>2, FS_Subset
<1> QED BY <1>3, FS_CardinalityType

\* A batch copies what the records hold now.
LEMMA RunBatchStep ==
    ASSUME PaymentsSound, NEW h \in Handlers, RunBatch(h) PROVE PaymentsSound'
<1> DEFINE pending == {i \in DOMAIN created : db[created[i]].status \in Pending}
           n == Min({BatchLimit, Cardinality(pending)})
<1>1. PICK oldest \in [1..n -> pending] : Goto(h, Rest([i \in 1..n |-> Copy(created[oldest[i]])]))
  BY DEF RunBatch
<1>2. created \in Seq(Known)
  BY DEF PaymentsSound, PaymentsTypeOK
<1>3. n \in Nat
  <2>1. pending \in SUBSET DOMAIN created
    OBVIOUS
  <2> HIDE DEF pending
  <2>2. Cardinality(pending) \in Nat
    BY <1>2, <2>1, PositionsCount
  <2> QED BY <2>2, LeastOfTwo, PaymentConstants
<1>4. \A k \in Known : Copy(k) \in Item(Known)
  BY KnownRecord DEF Copy, Item
<1> DEFINE todo == [i \in 1..n |-> Copy(created[oldest[i]])]
<1>5. todo \in Seq(Item(Known))
  <2>1. pending \subseteq DOMAIN created
    OBVIOUS
  <2> HIDE DEF n, pending
  <2>2. ASSUME NEW i \in 1..n PROVE created[oldest[i]] \in Known
    BY <1>2, <2>1
  <2>3. todo \in [1..n -> Item(Known)]
    BY <1>4, <2>2
  <2> QED BY <1>3, <2>3
<1> HIDE DEF todo
<1>6. Goto(h, Rest(todo))
  BY <1>1 DEF todo
<1> QED BY <1>5, <1>6, RestFits, HandlerOnly DEF RunBatch

LEMMA SkipSubmittedStep ==
    ASSUME PaymentsSound, NEW h \in Handlers, SkipSubmitted(h) PROVE PaymentsSound'
<1>1. Tail(handler[h].todo) \in Seq(Item(Known))
  BY TodoFits DEF SkipSubmitted
<1> QED BY <1>1, RestFits, HandlerOnly DEF SkipSubmitted

LEMMA BuryFailedStep ==
    ASSUME PaymentsSound, NEW h \in Handlers, BuryFailed(h) PROVE PaymentsSound'
<1>1. Tail(handler[h].todo) \in Seq(Item(Known)) /\ Head(handler[h].todo).key \in Known
  BY TodoFits DEF BuryFailed, Item
<1> QED BY <1>1, HandlerSetsStatus DEF BuryFailed

LEMMA RetryFailedStep ==
    ASSUME PaymentsSound, NEW h \in Handlers, RetryFailed(h) PROVE PaymentsSound'
<1>1. Tail(handler[h].todo) \in Seq(Item(Known)) /\ Head(handler[h].todo).key \in Known
  BY TodoFits DEF RetryFailed, Item
<1> QED BY <1>1, HandlerSetsStatus DEF RetryFailed

LEMMA GiveUpStep ==
    ASSUME PaymentsSound, NEW h \in Handlers, GiveUp(h) PROVE PaymentsSound'
<1>1. handler[h].rest \in Seq(Item(Known)) /\ handler[h].key \in Known
  BY HandlerKnows DEF GiveUp
<1> QED BY <1>1, HandlerSetsStatus DEF GiveUp

\* What is sent for a record is what was signed for it.
LEMMA BeginSubmitStep ==
    ASSUME PaymentsSound, NEW h \in Handlers, NEW k \in Known, NEW rest \in Seq(Item(Known)),
           NEW batch \in BOOLEAN, BeginSubmit(h, k, rest, batch),
           UNCHANGED <<mode, db, created, jobs, reconciler, network, crashes>>
    PROVE  PaymentsSound'
<1>1. CASE Goto(h, Rest(rest))
  BY <1>1, RestFits, HandlerOnly
<1>2. CASE Goto(h, [at |-> "giving_up", key |-> k, rest |-> rest])
  <2> DEFINE step == [at |-> "giving_up", key |-> k, rest |-> rest]
  <2>1. step \in HandlerStep(Known) /\ StepFits(step)
    BY DEF HandlerStep, StepFits
  <2> HIDE DEF step
  <2> QED BY <1>2, <2>1, HandlerOnly DEF step
<1>3. CASE /\ MaySend(db[k])
           /\ Goto(h, [at |-> "sending", key |-> k, rest |-> rest, batch |-> batch,
                       tx |-> db[k].signed, attempts |-> db[k].attempts + 1])
  <2> DEFINE step == [at |-> "sending", key |-> k, rest |-> rest, batch |-> batch,
                      tx |-> db[k].signed, attempts |-> db[k].attempts + 1]
  <2>1. /\ db[k].signed \in Known /\ Matches(db[k].signed, k)
        /\ db[k].attempts + 1 \in 1..MaxAttempts
    BY <1>3, KnownRecord, PaymentConstants DEF MaySend, RecordFits
  <2>2. step \in HandlerStep(Known) /\ StepFits(step)
    BY <2>1 DEF HandlerStep, StepFits
  <2> HIDE DEF step
  <2> QED BY <1>3, <2>2, HandlerOnly DEF step
<1> QED BY <1>1, <1>2, <1>3 DEF BeginSubmit

LEMMA SubmitStep ==
    ASSUME PaymentsSound, NEW h \in Handlers, NEW k \in Keys, Submit(h, k) PROVE PaymentsSound'
<1>1. k \in Known /\ <<>> \in Seq(Item(Known))
  BY DEF Submit, Known
<1> QED BY <1>1, BeginSubmitStep DEF Submit

LEMMA SubmitListedStep ==
    ASSUME PaymentsSound, NEW h \in Handlers, SubmitListed(h) PROVE PaymentsSound'
<1>1. Tail(handler[h].todo) \in Seq(Item(Known)) /\ Head(handler[h].todo).key \in Known
  BY TodoFits DEF SubmitListed, Item
<1> QED BY <1>1, BeginSubmitStep DEF SubmitListed

LEMMA SendStep == ASSUME PaymentsSound, NEW h \in Handlers, Send(h) PROVE PaymentsSound'
<1>1. /\ handler[h].key \in Known /\ handler[h].rest \in Seq(Item(Known))
      /\ handler[h].batch \in BOOLEAN /\ handler[h].tx \in Known
      /\ handler[h].attempts \in 1..MaxAttempts /\ Matches(handler[h].tx, handler[h].key)
  BY HandlerKnows DEF Send, PaymentsSound, StepFits
<1>2. /\ mempool' \subseteq Known /\ delayed' \subseteq Known
      /\ UNCHANGED <<mode, db, created, jobs, reconciler, account, outcome>>
      /\ DOMAIN jobs' \subseteq Job(Known)
  BY <1>1 DEF Send, PaymentsSound, PaymentsTypeOK
<1> DEFINE step(answer) ==
        [at |-> "recording", key |-> handler[h].key, rest |-> handler[h].rest,
         batch |-> handler[h].batch, tx |-> handler[h].tx,
         attempts |-> handler[h].attempts, answer |-> answer]
<1>3. CASE Goto(h, Rest(handler[h].rest))
  BY <1>1, <1>2, <1>3, RestFits, HandlerMoves
<1>4. ASSUME NEW answer \in Answers, Goto(h, step(answer)) PROVE PaymentsSound'
  <2>1. step(answer) \in HandlerStep(Known) /\ StepFits(step(answer))
    BY <1>1 DEF HandlerStep, StepFits
  <2> HIDE DEF step
  <2> QED BY <1>2, <1>4, <2>1, HandlerMoves
<1>5. \/ Goto(h, Rest(handler[h].rest))
      \/ \E answer \in Answers : Goto(h, step(answer))
  BY DEF Send, Answers
<1> QED BY <1>3, <1>4, <1>5

\* The answer is recorded on the record as it is, with the hash of what was sent for it.
LEMMA RecordAnswerStep ==
    ASSUME PaymentsSound, NEW h \in Handlers, RecordAnswer(h) PROVE PaymentsSound'
<1>1. /\ handler[h].key \in Known /\ handler[h].rest \in Seq(Item(Known))
      /\ handler[h].tx \in Known /\ handler[h].attempts \in 1..MaxAttempts
      /\ Matches(handler[h].tx, handler[h].key)
  BY HandlerKnows DEF RecordAnswer, PaymentsSound, StepFits
<1> DEFINE k == handler[h].key
           sent == handler[h].answer \in {"PENDING", "DUPLICATE"}
           status == CASE sent -> "submitted"
                       [] handler[h].answer = "TRY_AGAIN_LATER" -> db[k].status
                       [] OTHER -> "failed"
           hash == IF sent \/ handler[h].answer = "ERROR" THEN handler[h].tx ELSE db[k].hash
           record == [db[k] EXCEPT !.status = status, !.hash = hash,
                                   !.attempts = handler[h].attempts]
<1>2. /\ db[k] \in Record /\ RecordFits(k, db[k]) /\ k \in Keys /\ handler[h].tx \in Keys
      /\ db[k].status \in StoredStatuses /\ db[k].hash \in Keys \cup {None}
      /\ handler[h].attempts \in 0..MaxAttempts
  BY <1>1, KnownRecord DEF Known
<1>3. /\ status \in StoredStatuses /\ hash \in Keys \cup {None}
      /\ hash # None => hash \in Known /\ Matches(hash, k)
      /\ status = "submitted" => hash # None
      /\ status = "confirmed" => PaidFor(k)
  BY <1>1, <1>2, NoneIsNothing DEF RecordFits, StoredStatuses
<1>4. db' = [db EXCEPT ![k] = record]
  BY <1>2 DEF RecordAnswer, PaymentsSound, PaymentsTypeOK
<1> HIDE DEF status, hash
<1>5. record \in Record /\ record.payout = db[k].payout /\ record.sequence = db[k].sequence
  BY <1>2, <1>3 DEF Record
<1>6. RecordFits(k, record)
  BY <1>2, <1>3 DEF RecordFits, Record
<1>7. PICK step \in HandlerStep(Known) : StepFits(step) /\ Goto(h, step)
  <2> DEFINE queueing == [at |-> "enqueueing", key |-> k, rest |-> handler[h].rest]
  <2>1. queueing \in HandlerStep(Known) /\ StepFits(queueing)
    BY <1>1 DEF HandlerStep, StepFits
  <2> HIDE DEF queueing
  <2>2. Goto(h, queueing) \/ Goto(h, Rest(handler[h].rest))
    BY DEF RecordAnswer, queueing
  <2> QED BY <1>1, <2>1, <2>2, RestFits
<1>8. handler' \in [Handlers -> HandlerStep(Known)] /\ \A g \in Handlers : StepFits(handler'[g])
  BY <1>7 DEF Goto, PaymentsSound, PaymentsTypeOK
<1>9. /\ reconciler' \in ReconcilerStep(Known) /\ ReconcilerFits(reconciler')
      /\ UNCHANGED <<mode, created, jobs, network, crashes>>
  BY DEF RecordAnswer, PaymentsSound, PaymentsTypeOK
<1> HIDE DEF record, k
<1>10. k \in Known
  BY <1>1 DEF k
<1> QED BY <1>4, <1>5, <1>6, <1>8, <1>9, <1>10, RecordMoves

\* Adding a job to the queue, and taking one, leaves the others.
LEMMA JobsStay ==
    ASSUME NEW bag, NEW S, NEW job \in S, DOMAIN bag \subseteq S
    PROVE  /\ DOMAIN (bag (+) SetToBag({job})) \subseteq S
           /\ DOMAIN (bag (-) SetToBag({job})) \subseteq S
<1>1. DOMAIN (bag (+) SetToBag({job})) \subseteq S
  BY DEF (+), SetToBag
<1>2. DOMAIN (bag (-) SetToBag({job})) \subseteq S
  BY DEF (-)
<1> QED BY <1>1, <1>2

LEMMA EnqueueStep == ASSUME PaymentsSound, NEW h \in Handlers, Enqueue(h) PROVE PaymentsSound'
<1>1. handler[h].key \in Known /\ handler[h].rest \in Seq(Item(Known))
  BY HandlerKnows DEF Enqueue
<1>2. DOMAIN jobs \subseteq Job(Known)
  BY DEF PaymentsSound, PaymentsTypeOK
<1> DEFINE job == [key |-> handler[h].key, made |-> 0]
<1>3. job \in Job(Known)
  BY <1>1 DEF Job
<1> HIDE DEF job
<1>4. DOMAIN jobs' \subseteq Job(Known)
  BY <1>2, <1>3, JobsStay DEF Enqueue, job
<1>5. /\ UNCHANGED <<mode, db, created, reconciler, account, outcome, mempool, delayed>>
      /\ mempool' \subseteq Known /\ delayed' \subseteq Known /\ Goto(h, Rest(handler[h].rest))
  BY DEF Enqueue, network, PaymentsSound, PaymentsTypeOK
<1> QED BY <1>1, <1>4, <1>5, RestFits, HandlerMoves

\* The confirmation worker goes on, and at most the queue hears of it.
LEMMA ReconcilerMoves ==
    ASSUME PaymentsSound, reconciler' \in ReconcilerStep(Known), ReconcilerFits(reconciler'),
           DOMAIN jobs' \subseteq Job(Known), UNCHANGED <<mode, db, created, network>>,
           handler' \in [Handlers -> HandlerStep(Known)], \A h \in Handlers : StepFits(handler'[h])
    PROVE  PaymentsSound'
<1>1. UNCHANGED <<account, outcome, mempool, delayed>>
  BY DEF network
<1>2. AppliedOnce'
  BY <1>1, NoRecordChanges DEF PaymentsSound, AppliedOnce
<1>3. /\ created' \in Seq(Known') /\ account' \in Nat
      /\ mempool' \subseteq Known /\ delayed' \subseteq Known
  BY <1>1, NoRecordChanges DEF PaymentsSound, PaymentsTypeOK
<1> QED BY <1>1, <1>2, <1>3, NoRecordChanges, Keeps

LEMMA IdleFits == Idle \in ReconcilerStep(Known) /\ ReconcilerFits(Idle)
BY DEF ReconcilerStep, ReconcilerFits, Idle

LEMMA ReconcilerKnows ==
    ASSUME PaymentsSound
    PROVE  /\ reconciler.at \in {"asking", "settling", "burying"} => reconciler.job \in Job(Known)
           /\ reconciler.at = "asking" =>
                  reconciler.tx \in Known /\ Matches(reconciler.tx, reconciler.job.key)
           /\ reconciler.at = "settling" => reconciler.status \in {"confirmed", "failed"}
           /\ reconciler = Idle \/ reconciler.at \in {"asking", "settling", "burying"}
           /\ handler \in [Handlers -> HandlerStep(Known)]
           /\ \A h \in Handlers : StepFits(handler[h])
           /\ DOMAIN jobs \subseteq Job(Known)
<1>1. reconciler \in ReconcilerStep(Known) /\ ReconcilerFits(reconciler)
  BY DEF PaymentsSound, PaymentsTypeOK
<1>2. /\ handler \in [Handlers -> HandlerStep(Known)] /\ \A h \in Handlers : StepFits(handler[h])
      /\ DOMAIN jobs \subseteq Job(Known)
  BY DEF PaymentsSound, PaymentsTypeOK
<1> QED BY <1>1, <1>2 DEF ReconcilerStep, ReconcilerFits, Idle

\* A submitted record has the hash of what was sent for it.
LEMMA TakeJobStep ==
    ASSUME PaymentsSound, NEW job \in DOMAIN jobs, TakeJob(job) PROVE PaymentsSound'
<1>1. job \in Job(Known) /\ job.key \in Known
  BY DEF PaymentsSound, PaymentsTypeOK, Job
<1>2. DOMAIN jobs' \subseteq Job(Known)
  BY <1>1, JobsStay, ReconcilerKnows DEF TakeJob
<1> DEFINE step == [at |-> "asking", job |-> job, tx |-> db[job.key].hash]
<1>3. ASSUME db[job.key].status = "submitted"
      PROVE  step \in ReconcilerStep(Known) /\ ReconcilerFits(step)
  <2>1. db[job.key].hash \in Known /\ Matches(db[job.key].hash, job.key)
    BY <1>1, <1>3, KnownRecord DEF RecordFits
  <2> QED BY <1>1, <2>1 DEF ReconcilerStep, ReconcilerFits
<1> HIDE DEF step
<1>4. reconciler' \in ReconcilerStep(Known) /\ ReconcilerFits(reconciler')
  BY <1>3, IdleFits DEF TakeJob, step
<1>5. UNCHANGED <<mode, db, created, handler, network>>
  BY DEF TakeJob
<1> QED BY <1>2, <1>4, <1>5, ReconcilerKnows, ReconcilerMoves

LEMMA AskStep == ASSUME PaymentsSound, Ask PROVE PaymentsSound'
<1>1. /\ reconciler.job \in Job(Known) /\ reconciler.tx \in Known
      /\ Matches(reconciler.tx, reconciler.job.key)
      /\ UNCHANGED <<mode, db, created, handler, jobs, network>>
  BY ReconcilerKnows DEF Ask
<1> DEFINE step(status) == [at |-> "settling", job |-> reconciler.job, status |-> status]
<1>2. step("failed") \in ReconcilerStep(Known) /\ ReconcilerFits(step("failed"))
  BY <1>1 DEF ReconcilerStep, ReconcilerFits
<1>3. ASSUME outcome[reconciler.tx] = "SUCCESS"
      PROVE  step("confirmed") \in ReconcilerStep(Known) /\ ReconcilerFits(step("confirmed"))
  BY <1>1, <1>3 DEF ReconcilerStep, ReconcilerFits, PaidFor, Known
<1> HIDE DEF step
<1>4. \/ reconciler' = step("failed")
      \/ outcome[reconciler.tx] = "SUCCESS" /\ reconciler' = step("confirmed")
  BY DEF Ask, LedgerAnswer, step
<1>5. reconciler' \in ReconcilerStep(Known) /\ ReconcilerFits(reconciler')
  BY <1>2, <1>3, <1>4
<1> QED BY <1>1, <1>5, ReconcilerKnows, ReconcilerMoves

LEMMA AskInVainStep == ASSUME PaymentsSound, AskInVain PROVE PaymentsSound'
<1>1. reconciler.job \in Job(Known) /\ UNCHANGED <<mode, db, created, handler, network>>
  BY ReconcilerKnows DEF AskInVain
<1> DEFINE job == [reconciler.job EXCEPT !.made = @ + 1]
           step == [at |-> "burying", job |-> reconciler.job]
<1>2. job \in Job(Known) /\ step \in ReconcilerStep(Known) /\ ReconcilerFits(step)
  BY <1>1 DEF Job, ReconcilerStep, ReconcilerFits
<1> HIDE DEF job, step
<1>3. \/ jobs' = jobs (+) SetToBag({job}) /\ reconciler' = Idle
      \/ UNCHANGED jobs /\ reconciler' = step
  BY DEF AskInVain, job, step
<1>4. /\ DOMAIN jobs' \subseteq Job(Known)
      /\ reconciler' \in ReconcilerStep(Known) /\ ReconcilerFits(reconciler')
  BY <1>2, <1>3, IdleFits, JobsStay, ReconcilerKnows
<1> QED BY <1>1, <1>4, ReconcilerKnows, ReconcilerMoves

LEMMA SettleStep == ASSUME PaymentsSound, Settle PROVE PaymentsSound'
<1>1. /\ reconciler.job.key \in Known /\ reconciler.status \in {"confirmed", "failed"}
      /\ reconciler.status = "confirmed" => PaidFor(reconciler.job.key)
  BY ReconcilerKnows DEF Settle, PaymentsSound, ReconcilerFits, Job
<1>2. /\ handler' = handler /\ reconciler' = Idle
      /\ UNCHANGED <<mode, created, jobs, network, crashes>>
  BY DEF Settle
<1> QED BY <1>1, <1>2, IdleFits, ReconcilerKnows, StatusMoves DEF Settle

LEMMA BurySubmittedStep == ASSUME PaymentsSound, BurySubmitted PROVE PaymentsSound'
<1>1. reconciler.job.key \in Known
  BY ReconcilerKnows DEF BurySubmitted, Job
<1>2. /\ handler' = handler /\ reconciler' = Idle
      /\ UNCHANGED <<mode, created, jobs, network, crashes>>
  BY DEF BurySubmitted
<1> QED BY <1>1, <1>2, IdleFits, ReconcilerKnows, StatusMoves DEF BurySubmitted

LEMMA CrashStep == ASSUME PaymentsSound, Crash PROVE PaymentsSound'
<1>1. /\ handler' \in [Handlers -> HandlerStep(Known)] /\ \A h \in Handlers : StepFits(handler'[h])
      /\ reconciler' = Idle /\ UNCHANGED <<mode, db, created, network>>
  BY DEF Crash, HandlerStep, StepFits, Idle
<1>2. DOMAIN jobs' \subseteq Job(Known)
  BY ReconcilerKnows, JobsStay DEF Crash
<1> QED BY <1>1, <1>2, IdleFits, ReconcilerMoves

-----------------------------------------------------------------------------
\* The network

LEMMA NetworkMoves ==
    ASSUME PaymentsSound, UNCHANGED <<backend, db, jobs>>, mempool' \subseteq Known,
           delayed' \subseteq Known, account' \in Nat, account' >= account,
           \A tx \in Keys :
               \/ outcome'[tx] = outcome[tx]
               \/ outcome[tx] = None /\ tx \in Known /\ db[tx].sequence <= account',
           outcome' \in [Keys -> {"SUCCESS", "FAILED", None}]
    PROVE  PaymentsSound'
<1>1. UNCHANGED <<mode, created, handler, reconciler>>
  BY DEF backend
<1>2. Known' = Known
  BY DEF Known
<1>3. Grows
  BY <1>2, NoneIsNothing DEF Grows
<1>4. \A k \in Known' : RecordFits(k, db[k])'
  <2> SUFFICES ASSUME NEW k \in Known PROVE RecordFits(k, db[k])'
    BY <1>2
  <2>1. /\ \A i \in Known : RecipientOf(i)' = RecipientOf(i)
        /\ \A i \in Known : PaidFor(i) => PaidFor(i)'
    BY <1>3, GrowingKeeps DEF PaymentsSound
  <2>2. RecordFits(k, db[k])
    BY KnownRecord
  <2> QED BY <1>2, <2>1, <2>2 DEF RecordFits, Matches
<1>5. AppliedOnce'
  <2> SUFFICES ASSUME NEW tx \in Keys, outcome'[tx] # None
               PROVE  tx \in Known /\ db[tx].sequence <= account'
    BY <1>2 DEF AppliedOnce
  <2>1. CASE outcome[tx] # None
    <3>1. tx \in Known /\ db[tx].sequence <= account
      BY <2>1 DEF PaymentsSound, AppliedOnce
    <3>2. db[tx].sequence \in Nat /\ account \in Nat
      BY <3>1, KnownRecord DEF Record, PaymentsSound, PaymentsTypeOK
    <3> QED BY <3>1, <3>2
  <2> QED BY <2>1
<1>6. /\ created' \in Seq(Known') /\ db' \in [Keys -> Record \cup {None}]
      /\ reconciler' \in ReconcilerStep(Known) /\ ReconcilerFits(reconciler')
  BY <1>1, <1>2 DEF PaymentsSound, PaymentsTypeOK
<1>7. /\ DOMAIN jobs' \subseteq Job(Known) /\ handler' \in [Handlers -> HandlerStep(Known)]
      /\ \A h \in Handlers : StepFits(handler'[h])
  BY <1>1, ReconcilerKnows
<1> QED BY <1>1, <1>3, <1>4, <1>5, <1>6, <1>7, Keeps

LEMMA NetworkKnows ==
    ASSUME PaymentsSound
    PROVE  /\ mempool \subseteq Known /\ delayed \subseteq Known /\ account \in Nat
           /\ outcome \in [Keys -> {"SUCCESS", "FAILED", None}]
BY DEF PaymentsSound, PaymentsTypeOK

LEMMA ArriveStep ==
    ASSUME PaymentsSound, NEW tx \in Keys, Arrive(tx) PROVE PaymentsSound'
<1>1. mempool' \subseteq Known /\ delayed' \subseteq Known
  BY NetworkKnows DEF Arrive
<1>2. account' = account /\ outcome' = outcome /\ UNCHANGED <<backend, db, jobs>>
  BY DEF Arrive
<1> QED BY <1>1, <1>2, NetworkKnows, NetworkMoves

\* The ledger applies a transaction when the account is just behind it, and only then.
LEMMA ApplyStep ==
    ASSUME PaymentsSound, NEW tx \in Keys, Apply(tx) PROVE PaymentsSound'
<1>1. /\ tx \in Known /\ mempool' \subseteq Known /\ delayed' \subseteq Known
      /\ account' = account + 1 /\ UNCHANGED <<backend, db, jobs>>
      /\ \E result \in {"SUCCESS", "FAILED"} : outcome' = [outcome EXCEPT ![tx] = result]
  BY NetworkKnows DEF Apply
<1>2. db[tx].sequence = account + 1 /\ account \in Nat
  BY NetworkKnows DEF Apply, Valid
<1>3. outcome[tx] = None
  BY <1>1, <1>2 DEF PaymentsSound, AppliedOnce
<1>4. account' \in Nat /\ account' >= account /\ db[tx].sequence <= account'
  BY <1>1, <1>2
<1>5. /\ outcome' \in [Keys -> {"SUCCESS", "FAILED", None}]
      /\ \A other \in Keys : other # tx => outcome'[other] = outcome[other]
  BY <1>1, NetworkKnows
<1> QED BY <1>1, <1>3, <1>4, <1>5, NetworkMoves

LEMMA ExpireStep ==
    ASSUME PaymentsSound, NEW tx \in Keys, Expire(tx) PROVE PaymentsSound'
<1>1. mempool' \subseteq Known /\ delayed' \subseteq Known
  BY NetworkKnows DEF Expire
<1>2. account' = account /\ outcome' = outcome /\ UNCHANGED <<backend, db, jobs>>
  BY DEF Expire
<1> QED BY <1>1, <1>2, NetworkKnows, NetworkMoves

LEMMA PayByHandStep ==
    ASSUME PaymentsSound, NEW id \in HandPaid, PayByHand(id) PROVE PaymentsSound'
<1>1. /\ account' = account + 1 /\ outcome' = outcome /\ mempool' = mempool /\ delayed' = delayed
      /\ UNCHANGED <<backend, db, jobs>>
  BY DEF PayByHand
<1>2. account' \in Nat /\ account' >= account
  BY <1>1, NetworkKnows
<1> QED BY <1>1, <1>2, NetworkKnows, NetworkMoves

LEMMA PaymentsStutter == ASSUME PaymentsSound, UNCHANGED vars PROVE PaymentsSound'
<1>1. UNCHANGED <<backend, db, jobs, mempool, delayed, account, outcome>>
  BY DEF vars, backend, network
<1> QED BY <1>1, NetworkKnows, NetworkMoves

-----------------------------------------------------------------------------
LEMMA PaymentsSoundStep == ASSUME PaymentsSound, [Next]_vars PROVE PaymentsSound'
<1>1. ASSUME NEW h \in Handlers, Handle(h) PROVE PaymentsSound'
  BY <1>1, BuildStep, InsertStep, QueueSignedStep, SkipSubmittedStep, BuryFailedStep,
     RetryFailedStep, SubmitListedStep, GiveUpStep, SendStep, RecordAnswerStep, EnqueueStep
     DEF Handle
<1>2. ASSUME NEW h \in Handlers, Receive(h) PROVE PaymentsSound'
  BY <1>2, LookupStep, SignStep, SubmitStep, RunBatchStep DEF Receive
<1>3. CASE Reconcile
  BY <1>3, TakeJobStep, AskStep, AskInVainStep, SettleStep, BurySubmittedStep
     DEF Reconcile, BagToSet
<1>4. CASE Network
  BY <1>4, ArriveStep, ApplyStep, ExpireStep, PayByHandStep DEF Network
<1> QED BY <1>1, <1>2, <1>3, <1>4, CrashStep, PaymentsStutter DEF Next

THEOREM PaymentsStaySound == Spec => []PaymentsSound
<1> QED BY PaymentsSoundInit, PaymentsSoundStep, PTL DEF Spec

\* No record says confirmed but that a transaction to its recipient, of its amount,
\* succeeded on the ledger: whichever of the confirmation worker and the handlers wrote the
\* status, whatever was retried, sent twice or signed with another's transaction, and
\* wherever the backend crashed.
THEOREM ConfirmedWerePaid == Spec => []ConfirmedWasPaid
<1>1. PaymentsSound => ConfirmedWasPaid
  BY KnownRecord DEF Known, RecordFits, PaidFor, Matches, ConfirmedWasPaid
<1> QED BY <1>1, PaymentsStaySound, PTL

-----------------------------------------------------------------------------
\* What the winners receive

Amounts(recipients, w) ==
    [i \in DOMAIN recipients |-> IF recipients[i].to = w THEN recipients[i].amount ELSE 0]

\* The contract adds up as the model does.
LEMMA DueIsASum ==
    ASSUME NEW w, NEW recipients
    PROVE  Contract!DueTo(w, recipients) =
               SumFunctionOnSet(Amounts(recipients, w), DOMAIN recipients)
BY DEF Contract!DueTo, Contract!SumFunction, Contract!SumFunctionOnSet,
       Contract!FoldFunctionOnSet, Contract!MapThenFoldSet,
       SumFunctionOnSet, FoldFunctionOnSet, MapThenFoldSet, Amounts

\* The first of several recipients gets no more than all of them.
LEMMA DueToRecipients ==
    ASSUME NEW w, NEW recipients \in Seq(Share) \ {<<>>}
    PROVE  /\ Contract!DueTo(w, recipients) \in Nat
           /\ Contract!DueTo(w, <<recipients[1]>>) \in Nat
           /\ Contract!DueTo(w, <<recipients[1]>>) <= Contract!DueTo(w, recipients)
<1> DEFINE D == DOMAIN recipients
           f == Amounts(recipients, w)
           first == <<recipients[1]>>
           e == Amounts(first, w)
<1>1. D = 1..Len(recipients) /\ Len(recipients) \in Nat /\ 1 \in D
  OBVIOUS
<1>2. IsFiniteSet(D)
  <2>1. 1 \in Int /\ Len(recipients) \in Int
    BY <1>1
  <2> QED
    BY <1>1, <2>1, FS_Interval
<1>3. \A i \in D : f[i] \in Nat
  <2>1. \A i \in D : recipients[i] \in Share
    BY <1>1, ElementOfSeq
  <2>2. \A i \in D : recipients[i].amount \in Nat
    BY <2>1 DEF Share
  <2> QED
    BY <2>2 DEF Amounts
<1>4. DOMAIN first = {1} /\ e[1] = f[1]
  BY <1>1 DEF Amounts
<1>5. /\ Contract!DueTo(w, recipients) = SumFunctionOnSet(f, D)
      /\ Contract!DueTo(w, first) = SumFunctionOnSet(e, DOMAIN first)
  BY DueIsASum
<1> HIDE DEF D, f, e, first
<1>6. SumFunctionOnSet(f, D) \in Nat /\ f[1] <= SumFunctionOnSet(f, D)
  BY <1>1, <1>2, <1>3, SumIsNat, ValueWithinSum
<1>7. SumFunctionOnSet(e, {1}) = e[1]
  <2>1. IsFiniteSet({1}) /\ \A y \in {1} : e[y] \in Int
    <3>1. IsFiniteSet({1})
      BY FS_Singleton
    <3>2. e[1] \in Int
      BY <1>1, <1>3, <1>4
    <3> QED
      BY <3>1, <3>2
  <2>2. SumFunctionOnSet(e, {1}) = e[1] + SumFunctionOnSet(e, {1} \ {1})
    BY <2>1, SumWith
  <2>3. SumFunctionOnSet(e, {}) = 0 /\ {1} \ {1} = {}
    BY SumOfNone
  <2>4. SumFunctionOnSet(e, {1}) = e[1] + 0
    BY <2>2, <2>3, Zenon
  <2> QED
    BY <2>1, <2>4
<1>8. /\ Contract!DueTo(w, first) \in Nat
      /\ Contract!DueTo(w, first) <= Contract!DueTo(w, recipients)
  BY <1>1, <1>3, <1>4, <1>5, <1>6, <1>7
<1> QED
  BY <1>5, <1>6, <1>8 DEF first

\* What the ids paid so far name for a winner
SettledFor(w) == [id \in PayoutIds |-> IF id \in paid THEN Contract!DueTo(w, Terms[id]) ELSE 0]

WithinSettled ==
    /\ received \in [Winners -> Nat]
    /\ \A w \in Winners : received[w] <= SumFunctionOnSet(SettledFor(w), PayoutIds)

LEMMA SettledValues ==
    ASSUME NEW w, NEW id \in PayoutIds
    PROVE  /\ Contract!DueTo(w, Terms[id]) \in Nat
           /\ SettledFor(w)[id] \in Nat
           /\ SettledFor(w)[id] = IF id \in paid THEN Contract!DueTo(w, Terms[id]) ELSE 0
<1>1. Contract!DueTo(w, Terms[id]) \in Nat
  BY PaymentConstants, DueToRecipients
<1> QED
  BY <1>1 DEF SettledFor

LEMMA WithinSettledInit == ASSUME Init PROVE WithinSettled
<1>1. received = [w \in Winners |-> 0]
  BY DEF Init, Contract!ContractInit
<1>2. \A w \in Winners : SumFunctionOnSet(SettledFor(w), PayoutIds) \in Nat
  BY SettledValues, SumIsNat, PaymentConstants
<1> QED
  BY <1>1, <1>2 DEF WithinSettled

\* An id is paid once, and no recipient gets more than the id names for it.
LEMMA PayingStep ==
    ASSUME WithinSettled, NEW id \in PayoutIds, id \notin paid, NEW recipients,
           Contract!Pay(id, recipients),
           \A w \in Winners : /\ Contract!DueTo(w, recipients) \in Nat
                              /\ Contract!DueTo(w, recipients) <= Contract!DueTo(w, Terms[id])
    PROVE  WithinSettled'
<1>1. /\ paid' = paid \cup {id}
      /\ received' = [w \in Winners |-> received[w] + Contract!DueTo(w, recipients)]
  BY DEF Contract!Pay
<1>2. received' \in [Winners -> Nat]
  BY <1>1 DEF WithinSettled
<1>3. ASSUME NEW w \in Winners
      PROVE  received'[w] <= SumFunctionOnSet(SettledFor(w)', PayoutIds)
  <2> DEFINE f == SettledFor(w)
             e == SettledFor(w)'
             due == Contract!DueTo(w, Terms[id])
  <2>1. due \in Nat /\ \A i \in PayoutIds : f[i] \in Int
    BY SettledValues
  <2>2. f[id] = 0 /\ e[id] = due /\ \A i \in PayoutIds \ {id} : e[i] = f[i]
    BY <1>1 DEF SettledFor
  <2>3. /\ received'[w] = received[w] + Contract!DueTo(w, recipients)
        /\ received[w] \in Nat /\ received[w] <= SumFunctionOnSet(f, PayoutIds)
        /\ Contract!DueTo(w, recipients) \in Nat /\ Contract!DueTo(w, recipients) <= due
    BY <1>1 DEF WithinSettled
  <2> HIDE DEF f, e, due
  <2>4. SumFunctionOnSet(e, PayoutIds) = SumFunctionOnSet(f, PayoutIds) - f[id] + e[id]
    BY <2>1, <2>2, SumChanges, PaymentConstants
  <2>5. SumFunctionOnSet(f, PayoutIds) \in Int
    BY <2>1, SumIsInt, PaymentConstants
  <2>6. received'[w] <= SumFunctionOnSet(e, PayoutIds)
    BY <2>1, <2>2, <2>3, <2>4, <2>5
  <2> QED
    BY <2>6 DEF e
<1> QED
  BY <1>2, <1>3 DEF WithinSettled

LEMMA WithinSettledStep ==
    ASSUME PaymentsSound, WithinSettled, [Next]_vars PROVE WithinSettled'
<1>1. ASSUME UNCHANGED contractVars PROVE WithinSettled'
  BY <1>1 DEF WithinSettled, SettledFor, contractVars
<1>2. ASSUME NEW tx \in Keys, Apply(tx) PROVE WithinSettled'
  <2> DEFINE id == db[tx].payout
             to == Terms[id][1]
  <2>1. id \in PayoutIds
    BY <1>2, NetworkKnows, KnownRecord DEF Apply, Record
  <2>2. CASE UNCHANGED contractVars
    BY <1>1, <2>2
  <2>3. CASE Contract!Payable(id, <<to>>) /\ Contract!DistributeWinnings(id, to.to, to.amount)
    <3>1. Terms[id] \in Seq(Share) \ {<<>>}
      BY <2>1, PaymentConstants
    <3>2. [to |-> to.to, amount |-> to.amount] = to
      <4>1. to \in Share
        BY <3>1, ElementOfSeq, LenProperties
      <4> HIDE DEF to
      <4> QED
        BY <4>1 DEF Share
    <3>3. id \notin paid /\ Contract!Pay(id, <<to>>)
      BY <2>3, <3>2 DEF Contract!DistributeWinnings, Contract!Payable
    <3>4. \A w \in Winners : /\ Contract!DueTo(w, <<to>>) \in Nat
                             /\ Contract!DueTo(w, <<to>>) <= Contract!DueTo(w, Terms[id])
      BY <3>1, DueToRecipients
    <3> QED
      BY <2>1, <3>3, <3>4, PayingStep
  <2> QED
    BY <1>2, <2>2, <2>3 DEF Apply
<1>3. ASSUME NEW id \in HandPaid, PayByHand(id) PROVE WithinSettled'
  <2>1. id \in PayoutIds /\ id \notin paid /\ Contract!Pay(id, Terms[id])
    BY <1>3, PaymentConstants DEF PayByHand, Contract!DistributeBatch, Contract!Payable
  <2>2. \A w \in Winners : /\ Contract!DueTo(w, Terms[id]) \in Nat
                           /\ Contract!DueTo(w, Terms[id]) <= Contract!DueTo(w, Terms[id])
    BY <2>1, SettledValues
  <2> QED
    BY <2>1, <2>2, PayingStep
<1>4. ASSUME NEW h \in Handlers, Handle(h) \/ Receive(h) PROVE UNCHANGED contractVars
  BY <1>4 DEF Handle, Receive, Lookup, Build, Insert, Sign, QueueSigned, Submit, RunBatch,
     SkipSubmitted, BuryFailed, RetryFailed, SubmitListed, BeginSubmit, GiveUp, Send,
     RecordAnswer, Enqueue, network
<1>5. ASSUME Reconcile \/ Crash PROVE UNCHANGED contractVars
  BY <1>5 DEF Reconcile, TakeJob, Ask, AskInVain, Settle, BurySubmitted, Crash, network
<1>6. ASSUME NEW tx \in Keys, Arrive(tx) \/ Expire(tx) PROVE UNCHANGED contractVars
  BY <1>6 DEF Arrive, Expire
<1> QED
  BY <1>1, <1>2, <1>3, <1>4, <1>5, <1>6 DEF Next, Network, vars, network

\* No winner receives more than the payouts name for it, in any number of requests,
\* retries and transactions and whatever the operator pays by hand: the contract pays an
\* id once, and what the backend sends of an id is the share of one of its recipients.
THEOREM WinnersNeverOverpaid == Spec => []NeverOverpaid
<1>1. WithinSettled => NeverOverpaid
  <2> SUFFICES ASSUME WithinSettled, NEW w \in Winners
               PROVE  received[w] <=
                          SumFunction([id \in PayoutIds |-> Contract!DueTo(w, Terms[id])])
    BY DEF NeverOverpaid
  <2> DEFINE f == SettledFor(w)
             e == [id \in PayoutIds |-> Contract!DueTo(w, Terms[id])]
  <2>1. \A id \in PayoutIds : f[id] \in Int /\ e[id] \in Int /\ f[id] <= e[id]
    BY SettledValues
  <2>2. DOMAIN e = PayoutIds /\ received[w] \in Nat /\ received[w] <= SumFunctionOnSet(f, PayoutIds)
    BY DEF WithinSettled
  <2> HIDE DEF f, e
  <2>3. /\ SumFunctionOnSet(f, PayoutIds) <= SumFunctionOnSet(e, PayoutIds)
        /\ SumFunctionOnSet(f, PayoutIds) \in Int /\ SumFunctionOnSet(e, PayoutIds) \in Int
    BY <2>1, SumsMonotone, SumIsInt, PaymentConstants
  <2>4. SumFunction(e) = SumFunctionOnSet(e, PayoutIds)
    BY <2>2 DEF SumFunction
  <2>5. received[w] <= SumFunction(e)
    BY <2>2, <2>3, <2>4
  <2> QED
    BY <2>5 DEF e
<1>2. Init => WithinSettled
  BY WithinSettledInit
<1>3. PaymentsSound /\ WithinSettled /\ [Next]_vars => WithinSettled'
  BY WithinSettledStep
<1> QED
  BY <1>1, <1>2, <1>3, PaymentsStaySound, PTL DEF Spec
=============================================================================
