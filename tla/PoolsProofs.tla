----------------------------- MODULE PoolsProofs -----------------------------
(***************************************************************************)
(* Proofs about the contracts that pool other people's tokens: the staking *)
(* contract, for every set of stakers and every amount staked or           *)
(* distributed, and the factory's stakes of the hosts, for every number of *)
(* pools.                                                                  *)
(***************************************************************************)
EXTENDS Staking, Factory, FiniteSums

-----------------------------------------------------------------------------
\* Arithmetic of the rounding

\* A division rounds down.
LEMMA RoundsDown ==
    ASSUME NEW x \in Nat, NEW d \in Nat \ {0}
    PROVE  x \div d \in Nat /\ d * (x \div d) <= x
OBVIOUS

\* Buying n shares of s for a tokens, at no more than t tokens for s shares,
\* leaves the others no poorer; so does selling.
LEMMA BuyingKeepsValue ==
    ASSUME NEW t \in Nat, NEW s \in Nat, NEW a \in Nat, NEW n \in Nat,
           t * n <= a * s
    PROVE  (t + a) * s >= t * (s + n)
<1>1. (t + a) * s = t * s + a * s /\ t * (s + n) = t * s + t * n
  OBVIOUS
<1>2. t * s \in Nat /\ a * s \in Nat /\ t * n \in Nat
  OBVIOUS
<1> QED BY <1>1, <1>2

LEMMA SellingKeepsValue ==
    ASSUME NEW t \in Nat, NEW s \in Nat, NEW a \in Nat, NEW n \in Nat,
           s * a <= n * t
    PROVE  (t - a) * s >= t * (s - n)
<1>1. (t - a) * s = t * s - s * a /\ t * (s - n) = t * s - n * t
  OBVIOUS
<1>2. t * s \in Nat /\ s * a \in Nat /\ n * t \in Nat
  OBVIOUS
<1> QED BY <1>1, <1>2

-----------------------------------------------------------------------------
\* The staking contract

\* The tokens of the pool are those staked, and TSHARES is the sum of the shares of
\* the positions.
StakingSound ==
    /\ totalStaked \in Nat /\ totalShares \in Nat /\ poolTokens = totalStaked
    /\ shares \in [Stakers -> Nat]
    /\ SumFunctionOnSet(shares, Stakers) = totalShares

\* Nobody holds more shares than there are.
LEMMA SharesWithinTotal ==
    ASSUME StakingSound, NEW u \in Stakers PROVE shares[u] <= totalShares
<1>1. \A w \in Stakers : shares[w] \in Nat
  BY DEF StakingSound
<1> QED BY <1>1, StakersFinite, ValueWithinSum DEF StakingSound

\* One position changes, and TSHARES with it.
LEMMA SharesCounted ==
    ASSUME StakingSound, NEW u \in Stakers, NEW k \in Nat,
           shares' = [shares EXCEPT ![u] = k]
    PROVE  /\ shares' \in [Stakers -> Nat]
           /\ SumFunctionOnSet(shares', Stakers) = totalShares - shares[u] + k
<1>1. shares' \in [Stakers -> Nat] /\ shares'[u] = k
          /\ \A w \in Stakers \ {u} : shares'[w] = shares[w]
  BY DEF StakingSound
<1>2. (\A w \in Stakers : shares[w] \in Int) /\ shares'[u] \in Int
  BY <1>1 DEF StakingSound
<1>3. SumFunctionOnSet(shares', Stakers) =
          SumFunctionOnSet(shares, Stakers) - shares[u] + shares'[u]
  <2>1. PICK f, e : f = shares /\ e = shares'
    OBVIOUS
  <2>2. /\ \A w \in Stakers : f[w] \in Int
        /\ e[u] \in Int
        /\ \A w \in Stakers \ {u} : e[w] = f[w]
    BY <1>1, <1>2, <2>1
  <2>3. SumFunctionOnSet(e, Stakers) = SumFunctionOnSet(f, Stakers) - f[u] + e[u]
    BY <2>2, StakersFinite, SumChanges
  <2> QED BY <2>1, <2>3
<1> QED BY <1>1, <1>3 DEF StakingSound

LEMMA StakingSoundInit == StakingInit => StakingSound
<1> SUFFICES ASSUME StakingInit PROVE StakingSound
  OBVIOUS
<1>1. \A u \in Stakers : shares[u] = 0
  BY DEF StakingInit
<1>2. SumFunctionOnSet(shares, Stakers) = 0
  BY <1>1, StakersFinite, SumOfZeros
<1> QED BY <1>2 DEF StakingInit, StakingSound

-----------------------------------------------------------------------------
\* The steps

ValueKept ==
    totalShares > 0 /\ totalShares' > 0 =>
        totalStaked' * totalShares >= totalStaked * totalShares'

LEMMA StakeStep ==
    ASSUME StakingSound, NEW u \in Stakers, NEW amount \in StakeAmounts,
           Stake(u, amount)
    PROVE  StakingSound' /\ ValueKept
<1> DEFINE n == SharesFor(amount)
           k == shares[u]
<1>1. amount \in Nat /\ k \in Nat
  BY AmountsArePositive DEF StakingSound
<1>2. n \in Nat /\ (~EmptyPool => totalStaked * n <= amount * totalShares)
  <2>1. CASE EmptyPool
    BY <1>1, <2>1 DEF SharesFor
  <2>2. CASE ~EmptyPool
    <3>1. totalStaked \in Nat \ {0} /\ amount * totalShares \in Nat
      BY <1>1, <2>2 DEF EmptyPool, StakingSound
    <3> QED BY <2>2, <3>1, RoundsDown DEF SharesFor
  <2> QED BY <2>1, <2>2
<1>3. /\ totalStaked' = totalStaked + amount
      /\ totalShares' = totalShares + n
      /\ poolTokens' = poolTokens + amount
      /\ shares' = [shares EXCEPT ![u] = @ + n]
  BY DEF Stake, Credit
<1> HIDE DEF n
<1>4. totalStaked' \in Nat /\ totalShares' \in Nat /\ poolTokens' = totalStaked'
  BY <1>1, <1>2, <1>3 DEF StakingSound
<1>5. shares' = [shares EXCEPT ![u] = k + n] /\ k + n \in Nat
  BY <1>1, <1>2, <1>3 DEF StakingSound
<1>6. StakingSound'
  <2>1. /\ shares' \in [Stakers -> Nat]
        /\ SumFunctionOnSet(shares', Stakers) = totalShares - k + (k + n)
    BY <1>5, SharesCounted
  <2>2. totalShares - k + (k + n) = totalShares'
    BY <1>1, <1>2, <1>3 DEF StakingSound
  <2> QED BY <1>4, <2>1, <2>2 DEF StakingSound
<1>7. ValueKept
  <2>1. CASE EmptyPool
    <3> SUFFICES ASSUME totalShares > 0, totalShares' > 0
                 PROVE  totalStaked' * totalShares >= totalStaked * totalShares'
      BY DEF ValueKept
    <3>1. totalStaked = 0
      BY <2>1 DEF EmptyPool, StakingSound
    <3>2. /\ \A x \in Nat : 0 * x = 0
          /\ \A x, y \in Nat : x * y >= 0
      OBVIOUS
    <3>3. totalStaked * totalShares' = 0 /\ totalStaked' * totalShares >= 0
      BY <1>4, <3>1, <3>2, Zenon DEF StakingSound
    <3> QED BY <3>3
  <2>2. CASE ~EmptyPool
    BY <1>1, <1>2, <1>3, <2>2, BuyingKeepsValue DEF ValueKept, StakingSound
  <2> QED BY <2>1, <2>2
<1> QED BY <1>6, <1>7

LEMMA UnstakeStep ==
    ASSUME StakingSound, NEW u \in Stakers, NEW n \in 1..MaxStaked, Unstake(u, n)
    PROVE  StakingSound' /\ ValueKept
<1> DEFINE tokens == TokensFor(n)
           k == shares[u] - n
<1>1. n \in Nat /\ k \in Nat /\ shares[u] = k + n /\ n <= totalShares
  <2>1. n \in Nat /\ n <= shares[u] /\ shares[u] \in Nat
    BY BoundsAreAmounts DEF Unstake, HasShares, StakingSound
  <2> QED BY <2>1, SharesWithinTotal DEF StakingSound
<1>2. tokens \in Nat /\ totalShares * tokens <= n * totalStaked
  <2>1. totalShares \in Nat \ {0} /\ n * totalStaked \in Nat
    BY <1>1 DEF Unstake, StakingSound
  <2> QED BY <2>1, RoundsDown DEF TokensFor
<1>3. /\ poolTokens >= tokens
      /\ totalStaked' = totalStaked - tokens
      /\ totalShares' = totalShares - n
      /\ poolTokens' = poolTokens - tokens
      /\ shares' = [shares EXCEPT ![u] = @ + -n]
  BY DEF Unstake, Credit
<1> HIDE DEF tokens
<1>4. shares' = [shares EXCEPT ![u] = k] /\ shares' \in [Stakers -> Nat]
  BY <1>1, <1>3 DEF StakingSound
<1>5. totalStaked' \in Nat /\ totalShares' \in Nat /\ poolTokens' = totalStaked'
  BY <1>1, <1>2, <1>3 DEF StakingSound
<1>6. StakingSound'
  <2>1. /\ shares' \in [Stakers -> Nat]
        /\ SumFunctionOnSet(shares', Stakers) = totalShares - shares[u] + k
    BY <1>1, <1>4, SharesCounted
  <2>2. totalShares - shares[u] + k = totalShares'
    BY <1>1, <1>3 DEF StakingSound
  <2> QED BY <1>5, <2>1, <2>2 DEF StakingSound
<1>7. ValueKept
  BY <1>1, <1>2, <1>3, SellingKeepsValue DEF ValueKept, StakingSound
<1> QED BY <1>6, <1>7

LEMMA RewardStep ==
    ASSUME StakingSound, NEW amount \in RewardAmounts, DistributeRewards(amount)
    PROVE  StakingSound' /\ ValueKept
<1>1. /\ amount \in Nat
      /\ totalStaked' = totalStaked + amount /\ poolTokens' = poolTokens + amount
      /\ totalShares' = totalShares /\ shares' = shares
  BY AmountsArePositive DEF DistributeRewards, positions
<1>2. StakingSound'
  BY <1>1 DEF StakingSound
<1>3. ValueKept
  <2>1. totalStaked * 0 <= amount * totalShares
    BY <1>1 DEF StakingSound
  <2>2. totalShares + 0 = totalShares
    BY DEF StakingSound
  <2> QED BY <1>1, <2>1, <2>2, BuyingKeepsValue DEF ValueKept, StakingSound
<1> QED BY <1>2, <1>3

LEMMA SameBooks ==
    ASSUME StakingSound, UNCHANGED <<totals, positions, poolTokens>>
    PROVE  StakingSound' /\ ValueKept
<1>1. StakingSound'
  BY DEF StakingSound, totals, positions
<1>2. totalStaked * totalShares >= totalStaked * totalShares
  BY DEF StakingSound
<1> QED BY <1>1, <1>2 DEF ValueKept, totals

LEMMA StakingStep ==
    ASSUME StakingSound, [StakingNext]_stakingVars
    PROVE  StakingSound' /\ ValueKept
<1>1. ASSUME NEW value, SetPaused(value) PROVE StakingSound' /\ ValueKept
  BY <1>1, SameBooks DEF SetPaused
<1>2. CASE UNCHANGED stakingVars
  BY <1>2, SameBooks DEF stakingVars
<1> QED
  BY <1>1, <1>2, StakeStep, UnstakeStep, RewardStep DEF StakingNext

\* The books of the pool: no total goes negative, the tokens are those staked, and
\* TSHARES counts the shares of the positions, after any rounding.
THEOREM StakingIsSound == StakingSpec => []StakingSound
<1>1. StakingSound /\ [StakingNext]_stakingVars => StakingSound'
  BY StakingStep
<1> QED BY <1>1, StakingSoundInit, PTL DEF StakingSpec

\* No stake, unstake or reward takes value from the shares that stay, for all
\* amounts and however they round.
THEOREM ShareValueKept == StakingSpec => ShareValueNeverFalls
<1>1. StakingSound /\ [StakingNext]_stakingVars => [ValueKept]_stakingVars
  BY StakingStep
<1>2. [][ValueKept]_stakingVars => ShareValueNeverFalls
  BY PTL DEF ShareValueNeverFalls, ValueKept
<1> QED BY <1>1, <1>2, StakingIsSound, PTL DEF StakingSpec

-----------------------------------------------------------------------------
\* The factory

\* Pools are numbered in the order of their creation, so that a new one is not on
\* record yet, and the factory holds what is.
FactorySound ==
    /\ \E n \in Nat : DOMAIN pools = 1..n
    /\ DOMAIN stakes \subseteq DOMAIN pools
    /\ \A a \in DOMAIN stakes : stakes[a].token \in StakeTokens /\ stakes[a].amount \in Nat
    /\ held \in [StakeTokens -> Nat]
    /\ \A t \in StakeTokens : held[t] = SumFunctionOnSet(StakedIn(t), DOMAIN stakes)

LEMMA FactorySoundInit == FactoryInit => FactorySound
<1> SUFFICES ASSUME FactoryInit PROVE FactorySound
  OBVIOUS
<1>1. DOMAIN stakes = {} /\ DOMAIN pools = 1..0
  BY DEF FactoryInit
<1>2. \A t \in StakeTokens : SumFunctionOnSet(StakedIn(t), {}) = 0
  BY SumOfNone
<1> QED
  BY <1>1, <1>2 DEF FactoryInit, FactorySound

\* Arenas on record are finitely many.
LEMMA StakesFinite ==
    ASSUME FactorySound PROVE IsFiniteSet(DOMAIN stakes)
<1>1. PICK n \in Nat : DOMAIN pools = 1..n
  BY DEF FactorySound
<1>2. IsFiniteSet(1..n)
  <2>1. 1 \in Int /\ n \in Int
    OBVIOUS
  <2> QED
    BY <2>1, FS_Interval
<1> QED
  BY <1>1, <1>2, FS_Subset DEF FactorySound

LEMMA StakedValues ==
    ASSUME FactorySound, NEW t \in StakeTokens, NEW a \in DOMAIN stakes
    PROVE  /\ StakedIn(t)[a] \in Nat
           /\ stakes[a].token = t => StakedIn(t)[a] = stakes[a].amount
           /\ stakes[a].token # t => StakedIn(t)[a] = 0
BY DEF FactorySound, StakedIn

LEMMA CreatePoolStep ==
    ASSUME FactorySound, NEW host \in Hosts, NEW token \in StakeTokens, NEW vault \in YieldVaults,
           NEW fee \in Fees, NEW limits \in PlayerLimits,
           CreatePool(host, token, vault, fee, limits)
    PROVE  FactorySound'
<1> DEFINE D == DOMAIN stakes
           record == [creator |-> host, amount |-> fee, token |-> token]
<1>1. PICK n \in Nat : DOMAIN pools = 1..n
  BY DEF FactorySound
<1>2. PICK arena : arena = Cardinality(DOMAIN pools) + 1
  OBVIOUS
<1>3. arena = n + 1
  <2>1. 1 \in Int /\ n \in Int
    OBVIOUS
  <2>2. Cardinality(1..n) = IF 1 > n THEN 0 ELSE n - 1 + 1
    BY <2>1, FS_Interval
  <2> QED
    BY <1>1, <1>2, <2>2
<1>4. /\ held' = [held EXCEPT ![token] = held[token] + fee]
      /\ stakes' = Stored(stakes, arena, record)
      /\ DOMAIN pools' = {arena} \cup DOMAIN pools
  BY <1>2 DEF CreatePool, FactorySound, Stored
<1>5. /\ DOMAIN stakes' = D \cup {arena} /\ stakes'[arena] = record
      /\ \A a \in D : a # arena => stakes'[a] = stakes[a]
  BY <1>4 DEF Stored
<1>6. fee \in Nat /\ arena \notin D /\ IsFiniteSet(D)
  BY <1>1, <1>3, StakesFinite, FactoryConstants DEF FactorySound
<1>7. /\ \E m \in Nat : DOMAIN pools' = 1..m
      /\ DOMAIN stakes' \subseteq DOMAIN pools'
  <2>1. DOMAIN pools' = 1..(n + 1) /\ n + 1 \in Nat
    BY <1>1, <1>3, <1>4
  <2> QED
    BY <1>4, <1>5, <2>1 DEF FactorySound
<1>8. \A a \in DOMAIN stakes' : stakes'[a].token \in StakeTokens /\ stakes'[a].amount \in Nat
  BY <1>5, <1>6 DEF FactorySound
<1>9. held' \in [StakeTokens -> Nat]
  BY <1>4, <1>6 DEF FactorySound
<1>10. ASSUME NEW t \in StakeTokens
       PROVE  held'[t] = SumFunctionOnSet(StakedIn(t)', DOMAIN stakes')
  <2> DEFINE f == StakedIn(t)
             e == StakedIn(t)'
             more == IF t = token THEN fee ELSE 0
  <2>1. e[arena] = more /\ more \in Int
    BY <1>5, <1>6 DEF StakedIn
  <2>2. \A a \in D : f[a] \in Int /\ e[a] = f[a]
    BY <1>5, <1>6, StakedValues DEF StakedIn
  <2>3. held'[t] = held[t] + more
    BY <1>4, <1>6 DEF FactorySound
  <2>4. held[t] = SumFunctionOnSet(f, D)
    BY DEF FactorySound
  <2> HIDE DEF f, e, D, more
  <2>5. SumFunctionOnSet(e, D \cup {arena}) = SumFunctionOnSet(f, D) + e[arena]
    BY <1>6, <2>1, <2>2, SumGrows
  <2>6. held'[t] = SumFunctionOnSet(e, D \cup {arena})
    BY <2>1, <2>3, <2>4, <2>5
  <2> QED
    BY <1>5, <2>6 DEF e
<1> QED
  BY <1>7, <1>8, <1>9, <1>10 DEF FactorySound

LEMMA ReclaimStep ==
    ASSUME FactorySound, NEW arena, ReclaimCreatorStake(arena) PROVE FactorySound'
<1> DEFINE D == DOMAIN stakes
           token == stakes[arena].token
           amount == stakes[arena].amount
<1>1. arena \in D /\ token \in StakeTokens /\ amount \in Nat /\ held[token] >= amount
  BY DEF ReclaimCreatorStake, FactorySound
<1>2. /\ held' = [held EXCEPT ![token] = held[token] - amount]
      /\ pools' = pools
  BY <1>1 DEF ReclaimCreatorStake, FactorySound
<1>3. /\ DOMAIN stakes' = D \ {arena}
      /\ \A a \in D \ {arena} : stakes'[a] = stakes[a]
  BY DEF ReclaimCreatorStake, RecordsWithout, Restrict
<1>4. held' \in [StakeTokens -> Nat]
  BY <1>1, <1>2 DEF FactorySound
<1>5. ASSUME NEW t \in StakeTokens
      PROVE  held'[t] = SumFunctionOnSet(StakedIn(t)', DOMAIN stakes')
  <2> DEFINE f == StakedIn(t)
             e == StakedIn(t)'
             less == IF t = token THEN amount ELSE 0
             R == D \ {arena}
  <2>1. f[arena] = less /\ less \in Int
    BY <1>1 DEF StakedIn
  <2>2. \A a \in D : f[a] \in Int
    BY StakedValues
  <2>3. \A a \in R : e[a] = f[a]
    BY <1>3 DEF StakedIn
  <2>4. held'[t] = held[t] - less
    BY <1>1, <1>2 DEF FactorySound
  <2>5. held[t] = SumFunctionOnSet(f, D)
    BY DEF FactorySound
  <2>6. IsFiniteSet(D) /\ IsFiniteSet(R) /\ \A a \in R : f[a] \in Int
    BY <2>2, StakesFinite, FS_Subset
  <2> HIDE DEF f, e, D, less
  <2>7. SumFunctionOnSet(f, D) = f[arena] + SumFunctionOnSet(f, R)
    BY <1>1, <2>2, <2>6, SumWith
  <2> HIDE DEF R
  <2>8. SumFunctionOnSet(e, R) = SumFunctionOnSet(f, R) /\ SumFunctionOnSet(f, R) \in Int
    BY <2>3, <2>6, SumsAgree, SumIsInt
  <2>9. held'[t] = SumFunctionOnSet(e, R)
    BY <2>1, <2>4, <2>5, <2>7, <2>8
  <2> QED
    BY <1>3, <2>9 DEF e, R
<1> QED
  BY <1>2, <1>3, <1>4, <1>5 DEF FactorySound

\* Everything else leaves the stakes and the tokens alone.
LEMMA SameStakes ==
    ASSUME FactorySound, UNCHANGED <<stakes, held>>, DOMAIN pools' = DOMAIN pools
    PROVE  FactorySound'
BY DEF FactorySound, StakedIn

LEMMA FactoryStep == FactorySound /\ [FactoryNext]_factoryVars => FactorySound'
<1> SUFFICES ASSUME FactorySound, [FactoryNext]_factoryVars PROVE FactorySound'
  OBVIOUS
<1>1. CASE FactoryAdmin
  BY <1>1, SameStakes DEF FactoryAdmin, InitializeFactory, Configured, List
<1>2. ASSUME NEW host \in Hosts, NEW token \in StakeTokens, NEW vault \in YieldVaults,
             NEW fee \in Fees, NEW limits \in PlayerLimits,
             CreatePool(host, token, vault, fee, limits)
      PROVE  FactorySound'
  BY <1>2, CreatePoolStep
<1>3. ASSUME NEW arena, ReleaseArena(arena) PROVE FactorySound'
  BY <1>3, SameStakes DEF ReleaseArena
<1>4. ASSUME NEW arena, NEW status, UpdateArenaStatus(arena, status) PROVE FactorySound'
  <2>1. DOMAIN pools' = DOMAIN pools
    BY <1>4 DEF UpdateArenaStatus
  <2> QED
    BY <1>4, <2>1, SameStakes DEF UpdateArenaStatus
<1>5. CASE UNCHANGED factoryVars
  BY <1>5, SameStakes DEF factoryVars
<1> QED
  BY <1>1, <1>2, <1>3, <1>4, <1>5, ReclaimStep DEF FactoryNext

\* Every stake on record can be paid back, whatever pools are created and however often
\* any arena calls the factory back: what it holds of a token is exactly what is on record.
THEOREM StakesStayCovered == FactorySpec => []StakesCovered
<1>1. FactorySound => StakesCovered
  BY DEF FactorySound, StakesCovered
<1> QED
  BY <1>1, FactorySoundInit, FactoryStep, PTL DEF FactorySpec
=============================================================================
