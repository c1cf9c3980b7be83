------------------------------ MODULE Payments ------------------------------
(***************************************************************************)
(* The backend's payout pipeline: PaymentService, PaymentWorker and the    *)
(* confirmation worker of txReconciler.ts, over the Mongo repository, the  *)
(* BullMQ queue, the Soroban RPC and the payout contract.                  *)
(*                                                                         *)
(* Requests are handled concurrently and interleave wherever the code      *)
(* awaits: one action is what a handler does from one await to the next.   *)
(* A transaction is named by the idempotency key of the record it was      *)
(* built for. Nonces are left out: they are stored and read by nothing.    *)
(***************************************************************************)
EXTENDS Integers, Sequences, FiniteSets, FiniteSetsExt, Bags

CONSTANTS
    Handlers,           \* requests the backend serves at a time
    Keys,               \* idempotency keys
    Requests,           \* bodies of POST /payouts: [key, payout]
    PayoutIds, Winners, Funding, MaxBatchSize,  \* the contract's
    HandPaid,           \* ids the operator may pay by hand
    Terms,              \* whom each payout id pays: a sequence of [to, amount]
    Modes,              \* signing modes the backend may be configured for
    MaxAttempts,        \* PAYOUTS_MAX_ATTEMPTS
    FailedRetryMax,     \* PAYOUTS_FAILED_RETRY_MAX
    JobAttempts,        \* attempts of a confirmation job
    BatchLimit,         \* the limit passed to POST /worker/run
    MaxCrashes,         \* bound of the model: crashes of the backend
    MaxLoad,            \* bound of the model: records and requests at work
    None                \* no record, no transaction

Share == [to : Winners, amount : Nat]

ASSUME PaymentConstants ==
    /\ IsFiniteSet(Keys)
    /\ Requests \subseteq [key : Keys, payout : PayoutIds]
    /\ Modes \subseteq {"hot", "external", "build_only"}
    /\ MaxAttempts \in Nat \ {0} /\ FailedRetryMax \in Nat
    /\ JobAttempts \in Nat \ {0} /\ BatchLimit \in Nat \ {0}
    /\ MaxCrashes \in Nat /\ MaxLoad \in Nat
    /\ Funding \in Nat /\ MaxBatchSize \in Nat
    /\ HandPaid \subseteq PayoutIds
    /\ IsFiniteSet(PayoutIds)
    /\ \A id \in PayoutIds : Terms[id] \in Seq(Share) \ {<<>>}

VARIABLES
    mode,               \* hot key, external signer, or no live execution
    db,                 \* the transactions collection, by idempotency key
    created,            \* the keys in it, oldest first
    handler,            \* what each handler is doing
    jobs,               \* the tx-confirm queue, a bag of [key, made]
    reconciler,         \* what the confirmation worker is doing
    account,            \* the source account's sequence number
    mempool,            \* transactions the network holds
    delayed,            \* sends that timed out and may still arrive
    expired,            \* transactions past their time bound
    outcome,            \* result of each transaction on the ledger, or None
    paid, treasury, received,   \* the payout contract
    crashes

Contract == INSTANCE PayoutContract

backend == <<mode, created, handler, reconciler>>
contractVars == <<paid, treasury, received>>
network == <<account, mempool, delayed, expired, outcome, contractVars>>
vars == <<mode, db, created, handler, jobs, reconciler, network, crashes>>

Idle == [at |-> "idle"]

\* The statuses transaction.model.ts lets the collection store: update runs the
\* validators, and "dead" is not in the enumeration.
StoredStatuses ==
    {"built", "queued", "awaiting_signature", "submitted", "confirmed", "failed"}

Record ==
    [payout : PayoutIds, sequence : Nat \ {0}, status : StoredStatuses,
     signed : Keys \cup {None}, hash : Keys \cup {None},
     attempts : 0..MaxAttempts]

ASSUME NoneIsNothing == None \notin Record \cup Keys \cup {"SUCCESS", "FAILED"}

\* update of a record's status; the call throws if the validator rejects it.
SetStatus(k, status) ==
    IF status \in StoredStatuses
    THEN db' = [db EXCEPT ![k].status = status]
    ELSE UNCHANGED db

RecipientOf(k) == Terms[db[k].payout][1]

Init ==
    /\ mode \in Modes
    /\ db = [k \in Keys |-> None]
    /\ created = <<>>
    /\ handler = [h \in Handlers |-> Idle]
    /\ jobs = EmptyBag
    /\ reconciler = Idle
    /\ account = 0
    /\ mempool = {} /\ delayed = {} /\ expired = {}
    /\ outcome = [k \in Keys |-> None]
    /\ Contract!ContractInit
    /\ crashes = 0

Goto(h, next) == handler' = [handler EXCEPT ![h] = next]

-----------------------------------------------------------------------------
\* POST /payouts: createPayoutTransaction. A record found under the key is the
\* answer; otherwise one is built and, if the key is still free (the collection's
\* unique index), inserted.
Lookup(h, r) ==
    /\ handler[h] = Idle
    /\ db[r.key] = None
    /\ Goto(h, [at |-> "building", request |-> r])
    /\ UNCHANGED <<mode, db, created, jobs, reconciler, network, crashes>>

\* getAccount and prepareTransaction: the next sequence number of the account,
\* and a simulation of the call. Either may fail, and with it the request.
Build(h) ==
    /\ handler[h].at = "building"
    /\ LET r == handler[h].request
       IN  \/ /\ Contract!Payable(r.payout, Terms[r.payout])
              /\ Goto(h, [at |-> "inserting", request |-> r,
                          sequence |-> account + 1])
           \/ Goto(h, Idle)
    /\ UNCHANGED <<mode, db, created, jobs, reconciler, network, crashes>>

FirstStatus ==
    [hot |-> "queued", external |-> "awaiting_signature", build_only |-> "built"]

Insert(h) ==
    /\ handler[h].at = "inserting"
    /\ LET r == handler[h].request
           record == [payout   |-> r.payout,
                      sequence |-> handler[h].sequence,
                      status   |-> FirstStatus[mode],
                      signed   |-> IF mode = "hot" THEN r.key ELSE None,
                      hash     |-> None,
                      attempts |-> 0]
       IN  IF db[r.key] = None
           THEN /\ db' = [db EXCEPT ![r.key] = record]
                /\ created' = Append(created, r.key)
           ELSE UNCHANGED <<db, created>>
    /\ Goto(h, Idle)
    /\ UNCHANGED <<mode, jobs, reconciler, network, crashes>>

\* Mutant: no audit.
AuditSkipped(k, tx) == TRUE

\* assertSignedTransactionMatches: recipient and amount, not the payout id.
SignedMatches(k, tx) == RecipientOf(tx) = RecipientOf(k)

\* POST /payouts/:id/sign: queueSignedTransaction, with the signature of any
\* transaction ever built.
Sign(h, k, tx) ==
    /\ handler[h] = Idle
    /\ db[k] # None /\ db[tx] # None
    /\ db[k].status \in {"awaiting_signature", "built"}
    /\ SignedMatches(k, tx)
    /\ Goto(h, [at |-> "queueing", key |-> k, tx |-> tx])
    /\ UNCHANGED <<mode, db, created, jobs, reconciler, network, crashes>>

QueueSigned(h) ==
    /\ handler[h].at = "queueing"
    /\ LET k == handler[h].key
       IN  db' = [db EXCEPT ![k].signed = handler[h].tx, ![k].status = "queued"]
    /\ Goto(h, Idle)
    /\ UNCHANGED <<mode, created, jobs, reconciler, network, crashes>>

-----------------------------------------------------------------------------
\* Submission, by POST /payouts/:id/submit or by a batch of the worker, which
\* works through a list of the records as they were when the batch began.

\* What a handler does after one item: the rest of its batch, if any.
Rest(todo) == IF todo = <<>> THEN Idle ELSE [at |-> "working", todo |-> todo]

Pending == {"queued", "submitted", "failed"}

\* What a batch goes by.
Copy(k) ==
    [key |-> k, status |-> db[k].status, signed |-> db[k].signed, attempts |-> db[k].attempts]

\* processBatch: listByStatus, oldest first.
RunBatch(h) ==
    /\ handler[h] = Idle
    /\ LET pending == {i \in DOMAIN created : db[created[i]].status \in Pending}
           n == Min({BatchLimit, Cardinality(pending)})
       IN  \E oldest \in [1..n -> pending] :
               /\ \A i, j \in 1..n : i < j => oldest[i] < oldest[j]
               /\ \A p \in pending, i \in 1..n : p < oldest[i] => \E j \in 1..n : p = oldest[j]
               /\ Goto(h, Rest([i \in 1..n |-> Copy(created[oldest[i]])]))
    /\ UNCHANGED <<mode, db, created, jobs, reconciler, network, crashes>>

\* With a confirmation queue, the worker leaves submitted records to it.
SkipSubmitted(h) ==
    /\ handler[h].at = "working"
    /\ Head(handler[h].todo).status = "submitted"
    /\ Goto(h, Rest(Tail(handler[h].todo)))
    /\ UNCHANGED <<mode, db, created, jobs, reconciler, network, crashes>>

\* handleFailedTransaction: everything it decides, it decides on the listed copy.
OutOfRetries(item) == item.signed = None \/ item.attempts >= FailedRetryMax

BuryFailed(h) ==
    /\ handler[h].at = "working"
    /\ LET item == Head(handler[h].todo)
       IN  /\ item.status = "failed" /\ OutOfRetries(item)
           /\ SetStatus(item.key, "dead")
    /\ Goto(h, Rest(Tail(handler[h].todo)))
    /\ UNCHANGED <<mode, created, jobs, reconciler, network, crashes>>

\* Queued again once its backoff is over, and left alone until then.
RetryFailed(h) ==
    /\ handler[h].at = "working"
    /\ LET item == Head(handler[h].todo)
       IN  /\ item.status = "failed" /\ ~OutOfRetries(item)
           /\ SetStatus(item.key, "queued") \/ UNCHANGED db
    /\ Goto(h, Rest(Tail(handler[h].todo)))
    /\ UNCHANGED <<mode, created, jobs, reconciler, network, crashes>>

MaySend(record) == record.signed # None /\ record.attempts < MaxAttempts

\* submitQueuedTransaction up to its first await after reading the record.
BeginSubmit(h, k, rest, batch) ==
    LET record == db[k]
        ready == record.status = "queued" /\ mode # "build_only"
    IN  \/ ~ready /\ Goto(h, Rest(rest))
        \/ /\ ready /\ ~MaySend(record)
           /\ Goto(h, [at |-> "giving_up", key |-> k, rest |-> rest])
        \/ /\ ready /\ MaySend(record)
           /\ Goto(h, [at |-> "sending", key |-> k, rest |-> rest,
                       batch |-> batch, tx |-> record.signed,
                       attempts |-> record.attempts + 1])

Submit(h, k) ==
    /\ handler[h] = Idle
    /\ db[k] # None
    /\ BeginSubmit(h, k, <<>>, FALSE)
    /\ UNCHANGED <<mode, db, created, jobs, reconciler, network, crashes>>

SubmitListed(h) ==
    /\ handler[h].at = "working"
    /\ LET item == Head(handler[h].todo)
       IN  /\ item.status = "queued"
           /\ BeginSubmit(h, item.key, Tail(handler[h].todo), TRUE)
    /\ UNCHANGED <<mode, db, created, jobs, reconciler, network, crashes>>

GiveUp(h) ==
    /\ handler[h].at = "giving_up"
    /\ SetStatus(handler[h].key, "failed")
    /\ Goto(h, Rest(handler[h].rest))
    /\ UNCHANGED <<mode, created, jobs, reconciler, network, crashes>>

\* sendTransaction through the circuit breaker. With the circuit open nothing is
\* sent or written; an answer that comes too late is an exception here, and the
\* transaction may still arrive.
Valid(tx) == db[tx].sequence = account + 1 /\ tx \notin expired

Send(h) ==
    /\ handler[h].at = "sending"
    /\ LET step == handler[h]
           answered(answer) ==
               Goto(h, [at |-> "recording", key |-> step.key, rest |-> step.rest,
                        batch |-> step.batch, tx |-> step.tx,
                        attempts |-> step.attempts, answer |-> answer])
       IN  \/ /\ Goto(h, Rest(step.rest))
              /\ UNCHANGED <<mempool, delayed>>
           \/ /\ \/ \E answer \in {"ERROR", "TRY_AGAIN_LATER"} : answered(answer)
                 \/ step.tx \in mempool /\ answered("DUPLICATE")
              /\ UNCHANGED <<mempool, delayed>>
           \/ /\ Valid(step.tx) /\ step.tx \notin mempool
              /\ answered("PENDING")
              /\ mempool' = mempool \cup {step.tx}
              /\ UNCHANGED delayed
           \/ /\ answered("exception")
              /\ delayed' = delayed \cup {step.tx}
              /\ UNCHANGED mempool
    /\ UNCHANGED <<mode, db, created, jobs, reconciler, account, expired,
                   outcome, contractVars, crashes>>

\* The update that follows: of the record as it is by now, not as it was read.
RecordAnswer(h) ==
    /\ handler[h].at = "recording"
    /\ LET step == handler[h]
           sent == step.answer \in {"PENDING", "DUPLICATE"}
           status == CASE sent -> "submitted"
                       [] step.answer = "TRY_AGAIN_LATER" -> db[step.key].status
                       [] OTHER -> "failed"
           hash == IF sent \/ step.answer = "ERROR"
                   THEN step.tx ELSE db[step.key].hash
       IN  /\ db' = [db EXCEPT ![step.key].status = status,
                               ![step.key].hash = hash,
                               ![step.key].attempts = step.attempts]
           /\ IF sent /\ step.batch
              THEN Goto(h, [at |-> "enqueueing", key |-> step.key,
                            rest |-> step.rest])
              ELSE Goto(h, Rest(step.rest))
    /\ UNCHANGED <<mode, created, jobs, reconciler, network, crashes>>

\* The worker, not POST /payouts/:id/submit, asks for the confirmation. The queue
\* may be out of reach, which is logged.
Enqueue(h) ==
    /\ handler[h].at = "enqueueing"
    /\ \/ jobs' = jobs (+) SetToBag({[key |-> handler[h].key, made |-> 0]})
       \/ UNCHANGED jobs
    /\ Goto(h, Rest(handler[h].rest))
    /\ UNCHANGED <<mode, db, created, reconciler, network, crashes>>

-----------------------------------------------------------------------------
\* The confirmation worker: confirmSubmittedTransaction, once per attempt of a
\* job, and the "failed" listener once a job has no attempts left.
TakeJob(job) ==
    /\ reconciler = Idle
    /\ BagIn(job, jobs)
    /\ jobs' = jobs (-) SetToBag({job})
    /\ reconciler' = IF db[job.key].status = "submitted"
                     THEN [at |-> "asking", job |-> job, tx |-> db[job.key].hash]
                     ELSE Idle
    /\ UNCHANGED <<mode, db, created, handler, network, crashes>>

\* Mutant: takes a transaction the network does not know for a success.
AnswerOptimistic(tx) == IF outcome[tx] = None THEN "SUCCESS" ELSE outcome[tx]

\* getTransaction's answer once it is found.
LedgerAnswer(tx) == outcome[tx]

Ask ==
    /\ reconciler.at = "asking"
    /\ LedgerAnswer(reconciler.tx) # None
    /\ reconciler' = [at |-> "settling", job |-> reconciler.job,
                      status |-> IF LedgerAnswer(reconciler.tx) = "SUCCESS"
                                 THEN "confirmed" ELSE "failed"]
    /\ UNCHANGED <<mode, db, created, handler, jobs, network, crashes>>

\* Not found yet, an exception, or an open circuit: the attempt fails.
AskInVain ==
    /\ reconciler.at = "asking"
    /\ LET job == reconciler.job
       IN  IF job.made + 1 < JobAttempts
           THEN /\ jobs' = jobs (+) SetToBag({[job EXCEPT !.made = @ + 1]})
                /\ reconciler' = Idle
           ELSE /\ reconciler' = [at |-> "burying", job |-> job]
                /\ UNCHANGED jobs
    /\ UNCHANGED <<mode, db, created, handler, network, crashes>>

Settle ==
    /\ reconciler.at = "settling"
    /\ SetStatus(reconciler.job.key, reconciler.status)
    /\ reconciler' = Idle
    /\ UNCHANGED <<mode, created, handler, jobs, network, crashes>>

BurySubmitted ==
    /\ reconciler.at = "burying"
    /\ SetStatus(reconciler.job.key, "dead")
    /\ reconciler' = Idle
    /\ UNCHANGED <<mode, created, handler, jobs, network, crashes>>

\* The process stops and starts again: requests are lost, the job in hand is found
\* stalled and runs again, the database and the queue keep what they hold.
Crash ==
    /\ crashes < MaxCrashes
    /\ crashes' = crashes + 1
    /\ handler' = [h \in Handlers |-> Idle]
    /\ jobs' = IF reconciler = Idle THEN jobs ELSE jobs (+) SetToBag({reconciler.job})
    /\ reconciler' = Idle
    /\ UNCHANGED <<mode, db, created, network>>

-----------------------------------------------------------------------------
\* The network.

Arrive(tx) ==
    /\ tx \in delayed
    /\ Valid(tx)
    /\ delayed' = delayed \ {tx}
    /\ mempool' = mempool \cup {tx}
    /\ UNCHANGED <<backend, db, jobs, account, expired, outcome, contractVars,
                   crashes>>

\* A ledger includes the transaction, which pays or fails.
Apply(tx) ==
    /\ tx \in mempool
    /\ Valid(tx)
    /\ account' = account + 1
    /\ mempool' = mempool \ {tx}
    /\ LET id == db[tx].payout
           to == Terms[id][1]
       IN  IF Contract!Payable(id, <<to>>)
           THEN /\ Contract!DistributeWinnings(id, to.to, to.amount)
                /\ outcome' = [outcome EXCEPT ![tx] = "SUCCESS"]
           ELSE /\ outcome' = [outcome EXCEPT ![tx] = "FAILED"]
                /\ UNCHANGED contractVars
    /\ UNCHANGED <<backend, db, jobs, delayed, expired, crashes>>

\* Sixty seconds after it was built nobody includes it any more.
Expire(tx) ==
    /\ db[tx] # None
    /\ tx \notin expired
    /\ outcome[tx] = None
    /\ expired' = expired \cup {tx}
    /\ mempool' = mempool \ {tx}
    /\ UNCHANGED <<backend, db, jobs, account, delayed, outcome, contractVars,
                   crashes>>

\* The operator pays an id by hand, from the same account.
PayByHand(id) ==
    /\ Contract!DistributeBatch(id, Terms[id])
    /\ account' = account + 1
    /\ UNCHANGED <<backend, db, jobs, mempool, delayed, expired, outcome, crashes>>

-----------------------------------------------------------------------------
Handle(h) ==
    \/ Build(h) \/ Insert(h)
    \/ QueueSigned(h)
    \/ SkipSubmitted(h) \/ BuryFailed(h) \/ RetryFailed(h) \/ SubmitListed(h)
    \/ GiveUp(h) \/ Send(h) \/ RecordAnswer(h) \/ Enqueue(h)

\* The bound on what goes on at a time.
MayReceive ==
    Len(created) + Cardinality({h \in Handlers : handler[h] # Idle}) + crashes
        < MaxLoad

Receive(h) ==
    \/ \E r \in Requests : Lookup(h, r)
    \/ \E k, tx \in Keys : Sign(h, k, tx)
    \/ \E k \in Keys : Submit(h, k)
    \/ RunBatch(h)

Reconcile ==
    \/ \E job \in BagToSet(jobs) : TakeJob(job)
    \/ Ask \/ AskInVain \/ Settle \/ BurySubmitted

Network ==
    \/ \E tx \in Keys : Arrive(tx) \/ Apply(tx) \/ Expire(tx)
    \/ \E id \in HandPaid : PayByHand(id)

Next ==
    \/ \E h \in Handlers : Handle(h) \/ (MayReceive /\ Receive(h))
    \/ Reconcile \/ Crash
    \/ Network

Spec == Init /\ [][Next]_vars

-----------------------------------------------------------------------------
\* Properties

\* No winner gets more than the payouts name for it, whatever is retried, sent
\* twice, sent too late or paid by hand meanwhile: the payout id sees to it.
NeverOverpaid ==
    \A w \in Winners :
        received[w] <= SumFunction([id \in PayoutIds |-> Contract!DueTo(w, Terms[id])])

\* A confirmed record was paid: its recipient, its amount, by a transaction the
\* ledger included, whichever handler wrote the status and whoever signed what.
ConfirmedWasPaid ==
    \A k \in Keys :
        db[k] # None /\ db[k].status = "confirmed" =>
            \E tx \in Keys : /\ outcome[tx] = "SUCCESS"
                             /\ RecipientOf(tx) = RecipientOf(k)

=============================================================================
