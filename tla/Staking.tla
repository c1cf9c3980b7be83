------------------------------- MODULE Staking -------------------------------
(***************************************************************************)
(* The staking contract, contract/staking/src: tokens staked for shares of *)
(* a pool, whose value grows with the rewards anyone may add. Amounts are  *)
(* i128 in the code and far from their width here; every division rounds   *)
(* towards zero, and its operands are never negative.                      *)
(***************************************************************************)
EXTENDS Integers, FiniteSets, Functions

CONSTANTS
    Stakers,            \* addresses that stake
    StakeAmounts,       \* amounts passed to stake
    RewardAmounts,      \* amounts passed to distribute_rewards
    MinInitialStake,    \* MIN_INITIAL_STAKE
    MaxStaked,          \* bound of the model: the most the pool ever holds
    MaxGain             \* bound of the model: the most a position of no shares
                        \* is ahead of its stakes, or behind them

ASSUME StakersFinite == IsFiniteSet(Stakers)
ASSUME AmountsArePositive ==
    StakeAmounts \subseteq Nat \ {0} /\ RewardAmounts \subseteq Nat \ {0}
ASSUME MinInitialStakePositive == MinInitialStake \in Nat \ {0}
ASSUME BoundsAreAmounts == MaxStaked \in Nat /\ MaxGain \in Nat

VARIABLES
    isPaused,           \* PAUSED
    totalStaked,        \* TSTAKE
    totalShares,        \* TSHARES
    staked,             \* Position(staker).amount
    shares,             \* Position(staker).shares
    poolTokens          \* the contract's own token balance

positions == <<staked, shares>>
totals == <<totalStaked, totalShares>>
stakingVars == <<isPaused, totals, positions, poolTokens>>

-----------------------------------------------------------------------------
\* A pool to be seeded: nothing staked, or no share outstanding.
EmptyPool == totalStaked = 0 \/ totalShares = 0

\* The shares an amount buys: at the pool's rate, or one for one in an empty pool.
SharesFor(amount) ==
    IF EmptyPool THEN amount ELSE (amount * totalShares) \div totalStaked

\* Mutant: rounds in favour of the caller.
TokensForUp(n) == (n * totalStaked + totalShares - 1) \div totalShares

\* The tokens a number of shares is worth.
TokensFor(n) == (n * totalStaked) \div totalShares

StakingInit ==
    /\ isPaused = FALSE
    /\ totalStaked = 0 /\ totalShares = 0
    /\ staked = [u \in Stakers |-> 0] /\ shares = [u \in Stakers |-> 0]
    /\ poolTokens = 0

\* What a stake adds to the caller's position, and an unstake (with negative
\* numbers) takes from it.
Credit(u, amount, n) ==
    /\ staked' = [staked EXCEPT ![u] = @ + amount]
    /\ shares' = [shares EXCEPT ![u] = @ + n]

\* The bound on positions.
WithinGain == \A u \in Stakers : staked'[u] \in (-MaxGain)..(MaxStaked + MaxGain)

\* stake
Stake(u, amount) ==
    /\ ~isPaused
    /\ EmptyPool => amount >= MinInitialStake
    /\ SharesFor(amount) # 0
    /\ totalStaked + amount <= MaxStaked
    /\ totalStaked' = totalStaked + amount
    /\ totalShares' = totalShares + SharesFor(amount)
    /\ Credit(u, amount, SharesFor(amount))
    /\ WithinGain
    /\ poolTokens' = poolTokens + amount
    /\ UNCHANGED isPaused

\* unstake's InsufficientShares check.
HasShares(u, n) == n <= shares[u]

\* unstake: position.amount falls by the tokens paid, rewards included, and so
\* may become negative.
Unstake(u, n) ==
    /\ ~isPaused
    /\ n > 0
    /\ HasShares(u, n)
    /\ totalShares # 0
    /\ poolTokens >= TokensFor(n)
    /\ totalStaked' = totalStaked - TokensFor(n)
    /\ totalShares' = totalShares - n
    /\ Credit(u, -TokensFor(n), -n)
    /\ WithinGain
    /\ poolTokens' = poolTokens - TokensFor(n)
    /\ UNCHANGED isPaused

\* distribute_rewards: by anyone, and whether or not anyone holds a share.
DistributeRewards(amount) ==
    /\ ~isPaused
    /\ totalStaked + amount <= MaxStaked
    /\ totalStaked' = totalStaked + amount
    /\ poolTokens' = poolTokens + amount
    /\ UNCHANGED <<isPaused, totalShares, positions>>

\* pause, unpause
SetPaused(value) ==
    /\ isPaused' = value
    /\ UNCHANGED <<totals, positions, poolTokens>>

StakingNext ==
    \/ \E u \in Stakers :
          \/ \E amount \in StakeAmounts : Stake(u, amount)
          \/ \E n \in 1..MaxStaked : Unstake(u, n)
    \/ \E amount \in RewardAmounts : DistributeRewards(amount)
    \/ \E value \in BOOLEAN : SetPaused(value)

StakingSpec == StakingInit /\ [][StakingNext]_stakingVars

-----------------------------------------------------------------------------
\* Properties

\* No stake, unstake or reward lowers the value of the shares that stay: all the
\* rounding is in the pool's favour. A share begins as one token, so a pool with
\* shares is never taken for an empty one. (Compared by cross-multiplication.)
ShareValueNeverFalls ==
    [][totalShares > 0 /\ totalShares' > 0 =>
           totalStaked' * totalShares >= totalStaked * totalShares']_stakingVars

=============================================================================
