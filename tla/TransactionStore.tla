-------------------------- MODULE TransactionStore --------------------------
(***************************************************************************)
(* The three stores a payment's record can be kept in, behind one          *)
(* interface: PostgreSQL, the process's memory and MongoDB.  A handler     *)
(* reads before it writes, and between the two another one runs.  All      *)
(* records are of one source account.                                      *)
(***************************************************************************)
EXTENDS Integers, Sequences, FiniteSets, SequencesExt, FiniteSetsExt

CONSTANTS
    Writers, \* the requests and jobs that use the store
    Keys,     \* idempotency keys
    Nil,     \* no hash, nothing under way
    MaxStored \* bound: records stored

VARIABLE txs

StoreKinds == {"sql", "memory", "mongo"}

\* Records stand in order of their createdAt. byKey and counter are used by
\* the store in memory alone, as are its negative limits of a list.
StoreInit ==
    \E kind \in StoreKinds :
        txs = [kind |-> kind, records |-> <<>>, byKey |-> [k \in Keys |-> Nil], counter |-> 0,
               at |-> [h \in Writers |-> Nil], listed |-> <<>>]

Stored == DOMAIN txs.records
Patches == {[status |-> "submitted"], [status |-> "confirmed"], [txHash |-> "hash"]}

\* {...current, ...patch}
Patched(current, patch) ==
    [f \in DOMAIN current |-> IF f \in DOMAIN patch THEN patch[f] ELSE current[f]]

findByIdempotencyKey(key) ==
    IF txs.kind = "memory" THEN {i \in Stored : txs.byKey[key] = i}
    ELSE {i \in Stored : txs.records[i].key = key}

\* The number after the largest one stored, or after the last one handed out.
nextNonce ==
    IF txs.kind = "memory" THEN txs.counter + 1
    ELSE 1 + Max({0} \cup {txs.records[i].nonce : i \in Stored})

reserveNextNonce(h, key) ==
    /\ txs.at[h] = Nil /\ findByIdempotencyKey(key) = {}
    /\ txs' = [txs EXCEPT !.at[h] = [step |-> "inserting", key |-> key, nonce |-> nextNonce],
                          !.counter = IF txs.kind = "memory" THEN @ + 1 ELSE @]

\* What the unique indexes refuse: a key (both databases), a nonce (SQL).
BreaksIndex(r) ==
    \/ txs.kind # "memory" /\ \E i \in Stored : txs.records[i].key = r.key
    \/ txs.kind = "sql" /\ \E i \in Stored : txs.records[i].nonce = r.nonce

\* In memory a second record of a key takes the key over from the first.
insert(h) ==
    /\ txs.at[h] # Nil /\ txs.at[h].step = "inserting" /\ Len(txs.records) < MaxStored
    /\ LET r == [key |-> txs.at[h].key, nonce |-> txs.at[h].nonce, status |-> "built", txHash |-> Nil]
       IN  IF BreaksIndex(r) THEN txs' = [txs EXCEPT !.at[h] = Nil]
           ELSE txs' = [txs EXCEPT !.at[h] = Nil, !.records = Append(@, r),
                                   !.byKey[r.key] = Len(txs.records) + 1]

\* MongoDB sets the patched fields, the memory replaces the record, in a step.
update(h, i, patch) ==
    /\ txs.kind # "sql" /\ txs.at[h] = Nil
    /\ txs' = [txs EXCEPT !.records[i] = Patched(@, patch)]

\* SQL reads the row, and later writes all its columns back with the patch.
readRow(h, i, patch) ==
    /\ txs.kind = "sql" /\ txs.at[h] = Nil
    /\ txs' = [txs EXCEPT !.at[h] = [step |-> "writing", id |-> i,
                                     row |-> Patched(txs.records[i], patch)]]

writeRow(h) ==
    /\ txs.at[h] # Nil /\ txs.at[h].step = "writing"
    /\ txs' = [txs EXCEPT !.at[h] = Nil, !.records[txs.at[h].id] = txs.at[h].row]

\* slice(0, limit) counts a negative limit from the end; the databases give none.
Taken(found, limit) ==
    IF limit >= 0 THEN SubSeq(found, 1, Min({limit, Len(found)}))
    ELSE IF txs.kind = "memory" THEN SubSeq(found, 1, Len(found) + limit) ELSE <<>>

listByStatus(statuses, limit) ==
    txs' = [txs EXCEPT !.listed =
               Taken(SelectSeq(txs.records, LAMBDA r : r.status \in statuses), limit)]

StoreNext ==
    \/ \E h \in Writers, key \in Keys : reserveNextNonce(h, key)
    \/ \E h \in Writers : insert(h) \/ writeRow(h)
    \/ \E h \in Writers, i \in Stored, patch \in Patches :
          update(h, i, patch) \/ readRow(h, i, patch)
    \/ \E limit \in {-1, 0, 1, 2} : listByStatus({"built", "submitted"}, limit)
=============================================================================
