------------------------------- MODULE Factory -------------------------------
(***************************************************************************)
(* The factory, contract/factory/src: it deploys arenas for the hosts the  *)
(* admin lists, keeps a stake of the host for each, and counts the arenas  *)
(* a host has running.  An arena is the number of its pool, the salt its   *)
(* address is derived from.  One action per entry point, enabled when the  *)
(* call returns Ok: any other outcome rolls the whole call back.  Hosts    *)
(* own the tokens they stake.                                              *)
(***************************************************************************)
EXTENDS Integers, FiniteSetsExt, Functions

CONSTANTS
    Hosts,              \* addresses that may create pools
    StakeTokens, YieldVaults, YieldOracles,
    Fees,               \* entry fees, and minimum stakes
    PlayerLimits,       \* pairs of min_players and max_players
    Statuses,           \* of ArenaStatus, those an arena reports
    PoolLimits,         \* values for set_max_active_pools; ten when unset
    MaxPools            \* bound of the model: pools ever created

ASSUME FactoryConstants ==
    /\ IsFiniteSet(Hosts) /\ IsFiniteSet(StakeTokens)
    /\ Fees \subseteq Nat /\ PoolLimits \subseteq Nat /\ MaxPools \in Nat

VARIABLES
    settings,   \* the admin's: minStake (0 before initialize), wasm, maxActive, stopped
    listed,     \* the registries of hosts, tokens, vaults and oracles, in one set
    pools,      \* Pool(id): the metadata of every pool, by its id
    stakes,     \* CreatorStake(arena): the records there are
    activeCount,  \* ActivePoolCount(host)
    held        \* the factory's balance of each token

factoryVars == <<settings, listed, pools, stakes, activeCount, held>>

MinPlayers == 2
MostPlayersOfAPool == 1000  \* MAX_PLAYERS of the factory
MostPlayersOfAnArena == 100 \* MAX_PLAYERS_ALLOWED of the arena

FactoryInit ==
    /\ settings = [minStake |-> 0, wasm |-> FALSE, maxActive |-> 10, stopped |-> FALSE]
    /\ listed = {} /\ pools = << >> /\ stakes = << >>
    /\ activeCount = [h \in Hosts |-> 0]
    /\ held = [t \in StakeTokens |-> 0]

-----------------------------------------------------------------------------
(* The admin                                                               *)

Initialized == settings.minStake > 0

InitializeFactory(minStake) ==
    /\ ~Initialized /\ minStake > 0
    /\ settings' = [settings EXCEPT !.minStake = minStake]
    /\ UNCHANGED <<listed, pools, stakes, activeCount, held>>

\* set_arena_wasm_hash, set_max_active_pools, pause and unpause.
Configured(s) ==
    /\ Initialized
    /\ settings' = s
    /\ UNCHANGED <<listed, pools, stakes, activeCount, held>>

\* add_ and remove_ of the four registries.
List(x, member) ==
    /\ Initialized
    /\ listed' = IF member THEN listed \cup {x} ELSE listed \ {x}
    /\ UNCHANGED <<settings, pools, stakes, activeCount, held>>

FactoryAdmin ==
    \/ \E fee \in Fees : InitializeFactory(fee)
    \/ Configured([settings EXCEPT !.wasm = TRUE])
    \/ \E n \in PoolLimits : Configured([settings EXCEPT !.maxActive = n])
    \/ \E b \in BOOLEAN : Configured([settings EXCEPT !.stopped = b])
    \/ \E x \in Hosts \cup StakeTokens \cup YieldVaults \cup YieldOracles, b \in BOOLEAN : List(x, b)

-----------------------------------------------------------------------------
(* Pools                                                                   *)

\* The checks of create_pool, for a round duration within its limits. The vault and
\* the oracle are not looked up in their registries.
Accepted(host, token, fee, limits) ==
    /\ MinPlayers <= limits[1] /\ limits[1] <= limits[2] /\ limits[2] <= MostPlayersOfAPool
    /\ {host, token} \subseteq listed
    /\ fee > 0 /\ fee >= settings.minStake
    /\ activeCount[host] < settings.maxActive

\* What initialize of the new arena refuses beyond that: the stake moved before it
\* goes back with the rest of the call. A vault that answers is good enough.
ArenaAccepts(limits, vault) ==
    limits[2] <= MostPlayersOfAnArena /\ vault \in YieldVaults

\* What is stored under a new key
Stored(f, x, v) == [y \in DOMAIN f \cup {x} |-> IF y = x THEN v ELSE f[y]]

CreatePool(host, token, vault, fee, limits) ==
    LET arena == Cardinality(DOMAIN pools) + 1 IN    \* PoolSequence, PoolCount
    /\ arena <= MaxPools
    /\ ~settings.stopped /\ Initialized /\ settings.wasm
    /\ Accepted(host, token, fee, limits) /\ ArenaAccepts(limits, vault)
    /\ held' = [held EXCEPT ![token] = @ + fee]
    /\ stakes' = Stored(stakes, arena, [creator |-> host, amount |-> fee, token |-> token])
    /\ activeCount' = [activeCount EXCEPT ![host] = @ + 1]
    /\ pools' = Stored(pools, arena, [host |-> host, fee |-> fee, status |-> "Active"])
    /\ UNCHANGED <<settings, listed>>

-----------------------------------------------------------------------------
(* The calls an arena may make, when it likes and as often as it likes     *)

\* decrement_active_pool_count: not below zero.
OneFewer(n) == IF n > 0 THEN n - 1 ELSE 0

\* release_arena: nothing tells that the arena has been released.
ReleaseArena(arena) ==
    /\ ~settings.stopped /\ arena \in DOMAIN stakes
    /\ activeCount' = [activeCount EXCEPT ![stakes[arena].creator] = OneFewer(@)]
    /\ UNCHANGED <<settings, listed, pools, stakes, held>>

\* Mutant: the record outlives the payment.
AllRecords(arena) == stakes

\* remove_creator_stake
RecordsWithout(arena) == Restrict(stakes, DOMAIN stakes \ {arena})

\* reclaim_creator_stake: also while the factory is paused. An arena that reclaims
\* first can no longer be released.
ReclaimCreatorStake(arena) ==
    /\ arena \in DOMAIN stakes
    /\ LET record == stakes[arena] IN
       /\ held[record.token] >= record.amount
       /\ held' = [held EXCEPT ![record.token] = @ - record.amount]
    /\ stakes' = RecordsWithout(arena)
    /\ UNCHANGED <<settings, listed, pools, activeCount>>

UpdateArenaStatus(arena, status) ==
    /\ arena \in DOMAIN pools
    /\ pools' = [pools EXCEPT ![arena].status = status]
    /\ UNCHANGED <<settings, listed, stakes, activeCount, held>>

FactoryNext ==
    \/ FactoryAdmin
    \/ \E host \in Hosts, token \in StakeTokens, vault \in YieldVaults, fee \in Fees,
          limits \in PlayerLimits : CreatePool(host, token, vault, fee, limits)
    \/ \E arena \in 1 .. MaxPools :
          \/ ReleaseArena(arena)
          \/ ReclaimCreatorStake(arena)
          \/ \E status \in Statuses : UpdateArenaStatus(arena, status)

FactorySpec == FactoryInit /\ [][FactoryNext]_factoryVars

-----------------------------------------------------------------------------
\* What is staked of a token, by arena
StakedIn(t) == [a \in DOMAIN stakes |-> IF stakes[a].token = t THEN stakes[a].amount ELSE 0]

\* Every stake on record can be paid back: the factory holds at least as much of
\* each token, whichever arenas reclaim theirs, in whatever order and however often
\* they call (create_pool collects before it records, reclaim_creator_stake clears).
StakesCovered == \A t \in StakeTokens : held[t] >= SumFunctionOnSet(StakedIn(t), DOMAIN stakes)
=============================================================================
