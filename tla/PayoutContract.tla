--------------------------- MODULE PayoutContract ---------------------------
(***************************************************************************)
(* The payout contract, contract/payout/src: the admin pays winners out of *)
(* the tokens the contract holds, at most once for each payout id. A call  *)
(* that returns an error changes nothing, the mark on the id included.     *)
(***************************************************************************)
EXTENDS Integers, Sequences, Functions

CONSTANTS
    PayoutIds,          \* u64 ids passed by the caller
    Winners,            \* recipients
    Funding,            \* tokens the contract was funded with
    MaxBatchSize        \* MAX_BATCH_SIZE

VARIABLES
    paid,               \* ids with a Paid(id) entry
    treasury,           \* the contract's own token balance
    received            \* tokens each winner was paid

contractVars == <<paid, treasury, received>>

-----------------------------------------------------------------------------
ContractInit ==
    /\ paid = {}
    /\ treasury = Funding
    /\ received = [w \in Winners |-> 0]

\* What a list of recipients, a sequence of [to, amount], comes to.
TotalOf(recipients) == SumFunction([i \in DOMAIN recipients |-> recipients[i].amount])
DueTo(w, recipients) ==
    SumFunction([i \in DOMAIN recipients |->
                     IF recipients[i].to = w THEN recipients[i].amount ELSE 0])

\* Mutant: marks the id without looking at the mark.
PayableAgain(id, recipients) ==
    /\ \A i \in DOMAIN recipients : recipients[i].amount > 0
    /\ TotalOf(recipients) <= treasury

\* The checks distribute_winnings and distribute_batch share.
Payable(id, recipients) ==
    /\ \A i \in DOMAIN recipients : recipients[i].amount > 0
    /\ id \notin paid
    /\ TotalOf(recipients) <= treasury

Pay(id, recipients) ==
    /\ paid' = paid \cup {id}
    /\ treasury' = treasury - TotalOf(recipients)
    /\ received' = [w \in Winners |-> received[w] + DueTo(w, recipients)]

\* distribute_winnings
DistributeWinnings(id, winner, amount) ==
    LET recipients == <<[to |-> winner, amount |-> amount]>>
    IN  Payable(id, recipients) /\ Pay(id, recipients)

\* distribute_batch: no recipient twice.
DistributeBatch(id, recipients) ==
    /\ recipients # <<>> /\ Len(recipients) <= MaxBatchSize
    /\ \A i, j \in DOMAIN recipients :
           recipients[i].to = recipients[j].to => i = j
    /\ Payable(id, recipients)
    /\ Pay(id, recipients)

=============================================================================
