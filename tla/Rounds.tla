------------------------------- MODULE Rounds -------------------------------
(***************************************************************************)
(* The backend's rounds: RoundService and its controller over the rounds   *)
(* and elimination_logs tables and the arena contract it resolves through  *)
(* the Soroban RPC. What the tables are read for is in RoundQueries, the   *)
(* cache that a resolution invalidates in ResponseCache.                   *)
(*                                                                         *)
(* Requests interleave at every await. The process, the database and Redis *)
(* stay up; each call to them or to the RPC may fail.                      *)
(***************************************************************************)
EXTENDS Integers, FiniteSets, FiniteSetsExt, Functions

CONSTANTS
    Resolvers, Closers, \* requests served at a time
    Rows,               \* rows of the rounds table, by number
    ArenaOf,            \* the arena each of them belongs to
    Users,              \* rows of the users table
    Wallets,            \* accounts of the ledger
    WalletOf,           \* the account of each user
    MaxPolls,           \* roundConfirmMaxPolls
    Submissions,        \* bodies of POST /rounds/resolve: [choices, active]
    None

\* The ids in a body are UUIDs, those on the ledger are account addresses.
ASSUME RoundConstants ==
    /\ IsFiniteSet(Resolvers) /\ IsFiniteSet(Users) /\ IsFiniteSet(Rows)
    /\ MaxPolls \in Nat \ {0}
    /\ Rows \subseteq Nat
    /\ WalletOf \in [Users -> Wallets]
    /\ Users \cap Wallets = {}
    /\ None \notin Users \cup Wallets
    /\ Submissions \subseteq [choices : SUBSET Users, active : SUBSET Users]

VARIABLES
    rounds,         \* the rounds table: [state, choices, payouts]
    logs,           \* the elimination_logs table: [row, user, by]
    resolver,       \* what each POST /rounds/resolve is doing
    closer,         \* what each POST /rounds/:id/close is doing
    tx,             \* the transaction of each resolver, on its way to the ledger
    chain,          \* the arena contract: [resolved, active, winner]
    lateClose       \* ghost: rows closed after they had been resolved

ledger == <<tx, chain>>
tables == <<rounds, logs>>
roundVars == <<tables, resolver, closer, ledger, lateClose>>

-----------------------------------------------------------------------------
\* The arena contract (lib.rs resolve_round), as the backend sees it.

\* The contract takes no round number: it resolves whatever round it is in. The
\* survivors are whoever its rule says, nobody if nobody revealed, and a last one
\* is the winner.
ResolveOnChain(survivors) ==
    chain' = [resolved |-> chain.resolved + 1, active |-> survivors,
              winner |-> IF Cardinality(survivors) = 1
                         THEN CHOOSE w \in survivors : TRUE ELSE None]

ContractAccepts == Cardinality(chain.active) > 1 /\ chain.resolved < Cardinality(Rows)

\* A transaction is included, or runs out of its sixty seconds.
Include(r) ==
    /\ tx[r] = "pending"
    /\ \/ /\ ContractAccepts
          /\ \E survivors \in SUBSET chain.active : ResolveOnChain(survivors)
          /\ tx' = [tx EXCEPT ![r] = "success"]
       \/ /\ ~ContractAccepts
          /\ tx' = [tx EXCEPT ![r] = "failed"]
          /\ UNCHANGED chain
       \/ /\ tx' = [tx EXCEPT ![r] = "expired"]
          /\ UNCHANGED chain
    /\ UNCHANGED <<tables, resolver, closer, lateClose>>

\* The views of the contract: each catches its own errors and answers a default.
getOnChainActivePlayerIds == {chain.active, {}}
getOnChainWinner == {chain.winner, None}
-----------------------------------------------------------------------------
\* The tables.

Unresolved == {"OPEN", "CLOSED"}
Idle == [at |-> "idle"]

RoundsInit ==
    /\ rounds = [n \in Rows |-> [state |-> "OPEN", choices |-> {}, payouts |-> {}]]
    /\ logs = {}
    /\ resolver = [r \in Resolvers |-> Idle]
    /\ closer = [c \in Closers |-> Idle]
    /\ tx = [r \in Resolvers |-> "none"]
    /\ chain = [resolved |-> 0, active |-> Wallets, winner |-> None]
    /\ lateClose = {}

Step(r, s) == resolver' = [resolver EXCEPT ![r] = s]
Answer(r, result) ==
    Step(r, [at |-> "answered", row |-> resolver[r].row, result |-> result])

\* A call that throws: the controller answers 500, and the row stays as it is.
Throws(r) == Answer(r, "error") /\ UNCHANGED <<tables, closer, ledger, lateClose>>

\* roundRepo.findById and the check of the state it read.
Resolve(r, n, body) ==
    /\ resolver[r].at = "idle"
    /\ Step(r, IF rounds[n].state \in Unresolved
               THEN [at |-> "submit", row |-> n, body |-> body]
               ELSE [at |-> "answered", row |-> n, result |-> "error"])
    /\ UNCHANGED <<tables, closer, ledger, lateClose>>

\* submitOnChainResolve up to sendTransaction. A simulation or a send that fails
\* ends the request; a send may be received by a node and still fail here.
submitOnChainResolve(r) ==
    /\ resolver[r].at = "submit"
    /\ \/ Throws(r)
       \/ /\ tx' = [tx EXCEPT ![r] = "pending"]
          /\ \/ Step(r, [at |-> "poll", row |-> resolver[r].row,
                         body |-> resolver[r].body, polls |-> 0])
             \/ Answer(r, "error")
          /\ UNCHANGED <<tables, closer, chain, lateClose>>

\* Mutants of PollAgain: one that reads a missing answer as a success, one that
\* loses count.
PollForgiving(r) ==
    IF resolver[r].polls + 1 < MaxPolls
    THEN Step(r, [resolver[r] EXCEPT !.polls = @ + 1])
    ELSE Step(r, [at |-> "read", row |-> resolver[r].row, body |-> resolver[r].body])

\* What a poll leaves to do when the ledger does not know the transaction yet.
PollAgain(r) ==
    IF resolver[r].polls + 1 < MaxPolls
    THEN Step(r, [resolver[r] EXCEPT !.polls = @ + 1])
    ELSE Answer(r, "error")

\* One getTransaction. Without an answer the round is not touched, although the
\* transaction may still be included.
Poll(r) ==
    /\ resolver[r].at = "poll"
    /\ \/ Throws(r)
       \/ /\ CASE tx[r] = "success" -> Step(r, [at |-> "read", row |-> resolver[r].row,
                                                body |-> resolver[r].body])
               [] tx[r] = "failed" -> Answer(r, "error")
               [] OTHER -> PollAgain(r)
          /\ UNCHANGED <<tables, closer, ledger, lateClose>>

\* allActivePlayerIds.filter(id => !activeSet.has(id)): a UUID is looked up in a
\* set of addresses.
Eliminated(body, active) == body.active \ active

ReadActive(r) ==
    /\ resolver[r].at = "read"
    /\ \E active \in getOnChainActivePlayerIds :
           Step(r, [at |-> "winner", row |-> resolver[r].row, body |-> resolver[r].body,
                    eliminated |-> Eliminated(resolver[r].body, active)])
    /\ UNCHANGED <<tables, closer, ledger, lateClose>>

\* computePayouts. Every choice stakes one unit and the yield is left out, so the
\* amount is the number of stakes the payout adds up.
Payouts(winner, body, eliminated) ==
    IF winner = None THEN {}
    ELSE {[userId |-> winner, amount |->
           Cardinality(body.choices \cap eliminated) + Cardinality(body.choices \cap {winner})]}

computePayouts(r) ==
    /\ resolver[r].at = "winner"
    /\ \E winner \in getOnChainWinner :
           Step(r, [at |-> "commit", row |-> resolver[r].row, body |-> resolver[r].body,
                    eliminated |-> resolver[r].eliminated,
                    payouts |-> Payouts(winner, resolver[r].body, resolver[r].eliminated)])
    /\ UNCHANGED <<tables, closer, ledger, lateClose>>

\* Mutant of Claims: the update by id of updateState and saveResolution.
ClaimsAnyway(n) == n \in Rows

\* The optimistic lock of the conditional update.
Claims(n) == rounds[n].state \in Unresolved

\* resolveAtomically: the row and its elimination logs in one transaction.
resolveAtomically(r) ==
    LET req == resolver[r] n == req.row
    IN  /\ req.at = "commit"
        /\ \/ Throws(r)
           \/ /\ Claims(n)
              /\ rounds' = [rounds EXCEPT ![n] =
                     [state |-> "RESOLVED", choices |-> req.body.choices, payouts |-> req.payouts]]
              /\ logs' = logs \cup {[row |-> n, user |-> u, by |-> r] : u \in req.eliminated}
              /\ Step(r, [at |-> "metrics", row |-> n])
              /\ UNCHANGED <<closer, ledger, lateClose>>

\* refreshArenaMetrics reads the database: if that fails the request fails after
\* the round was resolved, and the cached statistics are not dropped.
refreshArenaMetrics(r) ==
    /\ resolver[r].at = "metrics"
    /\ \/ Throws(r)
       \/ Answer(r, "resolved") /\ UNCHANGED <<tables, closer, ledger, lateClose>>

\* closeRound: the state is checked on a copy, the update is by id alone.
Close(c, n) ==
    /\ closer[c].at = "idle"
    /\ closer' = [closer EXCEPT ![c] =
           IF rounds[n].state = "OPEN" THEN [at |-> "update", row |-> n]
           ELSE [at |-> "answered", row |-> n]]
    /\ UNCHANGED <<tables, resolver, ledger, lateClose>>

updateState(c) ==
    LET n == closer[c].row
    IN  /\ closer[c].at = "update"
        /\ closer' = [closer EXCEPT ![c] = [at |-> "answered", row |-> n]]
        /\ \/ UNCHANGED <<rounds, lateClose>>
           \/ /\ rounds' = [rounds EXCEPT ![n].state = "CLOSED"]
              /\ lateClose' = IF rounds[n].state = "RESOLVED" THEN lateClose \cup {n}
                              ELSE lateClose
        /\ UNCHANGED <<logs, resolver, ledger>>
Serve(r) ==
    \/ submitOnChainResolve(r) \/ Poll(r) \/ ReadActive(r) \/ computePayouts(r)
    \/ resolveAtomically(r) \/ refreshArenaMetrics(r)

RoundsNext ==
    \/ \E r \in Resolvers, n \in Rows, body \in Submissions : Resolve(r, n, body)
    \/ \E r \in Resolvers : Serve(r) \/ Include(r)
    \/ \E c \in Closers, n \in Rows : Close(c, n)
    \/ \E c \in Closers : updateState(c)

RoundsSpec == RoundsInit /\ [][RoundsNext]_roundVars
-----------------------------------------------------------------------------
\* Properties.

\* "If this fails the DB is untouched, preventing desync": whatever times out,
\* fails or lands late, the tables never get ahead of the contract. Every log was
\* written under a resolution the ledger included, and there are no more resolved
\* rows than rounds resolved on the ledger.
DatabaseNeverAhead ==
    /\ \A l \in logs : tx[l.by] = "success"
    /\ Cardinality({n \in Rows : rounds[n].state = "RESOLVED"}) <= chain.resolved

\* The lock on resolutions: of two requests that both found the round open, one
\* writes its logs. Only a close that was decided before the resolution and
\* written after it lets a second one through.
ResolvedTwiceOnlyAfterLateClose ==
    \A l, m \in logs : l.row = m.row /\ l.by # m.by => l.row \in lateClose
=============================================================================
