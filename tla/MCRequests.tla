----------------------------- MODULE MCRequests -----------------------------
(***************************************************************************)
(* The request handling of the backend: each behaviour is about one of     *)
(* its parts, which share no state, chosen at the start.                   *)
(***************************************************************************)
EXTENDS Sessions, AdminTokens, ResponseCache, Paging, RateLimit, Simulation,
        TransactionStore, ChainReader, TLC

VARIABLE focus

MCSymmetry == Permutations(Handlers)

\* One operation of each shape.
MCOperations == [action : {"resubmit", "reindex_pool", "reconciliation"}, resource : {"o1"}]

Parts == {"sessions", "admin", "cache", "paging", "limits", "simulation", "store", "reader"}

Init ==
    /\ focus \in Parts
    \* What a part may start with is left open only in the behaviours about it.
    /\ SessionsInit /\ AdminInit
    /\ CacheInit /\ (focus # "cache" => route = "stats")
    /\ PagingInit /\ (focus # "paging" => list = "rounds" /\ inserts = <<>> /\ page.limit = 1)
    /\ LimitInit /\ (focus # "limits" => dualScope)
    /\ SimInit /\ (focus # "simulation" => joined = 2)
    /\ StoreInit /\ (focus # "store" => txs.kind = "sql")
    /\ ReaderInit /\ (focus # "reader" => reading.contract = "legacy" /\ reading.funded /\ reading.known)

dataVars == <<txs, reading>>

\* What the sessions' steps and properties can tell apart. A JTI has a key once: when it
\* is gone nothing depends on where else the JTI is held, but for a listing that was empty;
\* and a nonce that is not unused is as good as used.
MCView ==
    LET Live(h) == IF "jtis" \in DOMAIN handler[h]
                   THEN [handler[h] EXCEPT !.jtis = <<@ \cap keys, @ = {}>>]
                   ELSE handler[h]
    IN  <<focus, [n \in DOMAIN nonces |-> nonces[n] = "unused"], tokens, keys, index \cap keys,
          [h \in Handlers |-> Live(h)], delivered, answered, overlapped, leftAlive \cap keys,
          adminVars, cacheVars, pagingVars, limitVars, simVars, dataVars>>

vars == <<focus, sessionVars, adminVars, cacheVars, pagingVars, limitVars, simVars, dataVars>>

RequestNext ==
    \/ /\ focus = "sessions" /\ SessionsNext
       /\ UNCHANGED <<adminVars, cacheVars, pagingVars, limitVars, simVars>>
    \/ /\ focus = "admin" /\ AdminNext
       /\ UNCHANGED <<sessionVars, cacheVars, pagingVars, limitVars, simVars>>
    \/ /\ focus = "cache" /\ CacheNext
       /\ UNCHANGED <<sessionVars, adminVars, pagingVars, limitVars, simVars>>
    \/ /\ focus = "paging" /\ PagingNext
       /\ UNCHANGED <<sessionVars, adminVars, cacheVars, limitVars, simVars>>
    \/ /\ focus = "limits" /\ LimitNext
       /\ UNCHANGED <<sessionVars, adminVars, cacheVars, pagingVars, simVars>>
    \/ /\ focus = "simulation" /\ PlayRound
       /\ UNCHANGED <<sessionVars, adminVars, cacheVars, pagingVars, limitVars>>

DataNext ==
    \/ focus = "store" /\ StoreNext /\ UNCHANGED reading
    \/ focus = "reader" /\ ReaderNext /\ UNCHANGED txs

Next ==
    \/ RequestNext /\ UNCHANGED <<focus, dataVars>>
    \/ DataNext /\ UNCHANGED <<focus, sessionVars, adminVars, cacheVars, pagingVars, limitVars, simVars>>

Spec == Init /\ [][Next]_vars
=============================================================================
