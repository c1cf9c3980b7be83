----------------------------- MODULE ArenaProofs -----------------------------
(***************************************************************************)
(* Proofs about the arena contract, for every set of players, fee, limits, *)
(* clock and vault.                                                        *)
(***************************************************************************)
EXTENDS Arena, FiniteSetTheorems, TLAPS

\* The guards and effects the actions share are always expanded.
USE DEF MayJoin, BeforeDeadline, CommitmentOpens, EndEarly, Returned, Expired,
        RefundDue, Baseline, ResultOf

-----------------------------------------------------------------------------
\* Facts about the helpers

\* The number of players in any set of them is a natural number.
LEMMA PlayerSetsCount ==
    ASSUME NEW S \in SUBSET Players
    PROVE  IsFiniteSet(S) /\ Cardinality(S) \in Nat
BY PlayersFinite, FS_Subset, FS_CardinalityType

\* resolve_players spares only players who were active.
LEMMA SurvivorsWereActive ==
    \A r : Survivors(r) \subseteq ActivePlayers /\ Survivors(r) \subseteq alive
BY DEF Survivors, Revealers, ActivePlayers

\* clear_round_data only removes entries.
LEMMA WithoutRoundRemoves ==
    \A entries, r : WithoutRound(entries, r) \subseteq entries
BY DEF WithoutRound

-----------------------------------------------------------------------------
\* Types

LEMMA InitTypeOK == Init => TypeOK
<1> SUFFICES ASSUME Init PROVE TypeOK
  OBVIOUS
<1>1. minPlayers \in Nat /\ maxPlayers \in Nat /\ leaderboardLimit \in Nat
  BY LimitsArePairs, LeaderboardLimitsAreSizes DEF Init
<1>2. players \in Seq(Players) /\ roundResults \in Seq(ResultEntry)
  BY DEF Init
<1>3. /\ survived \in [Players -> Nat] /\ paid \in [Players -> Nat]
      /\ creatorPools \in [Addresses -> Nat]
  BY DEF Init
<1> QED
  BY <1>1, <1>2, <1>3 DEF Init, TypeOK, GameState, Addresses

\* join_arena is the only call that adds to the roster.
LEMMA JoinTypeOK ==
    ASSUME TypeOK, NEW p \in Players, Join(p)
    PROVE  TypeOK'
BY FeePositive DEF TypeOK, Join, round, outcome, policy, limits

LEMMA SubmitTypeOK ==
    ASSUME TypeOK, NEW p \in Players, NEW c \in Commitment,
           SubmitCommitment(p, c)
    PROVE  TypeOK'
<1>1. [player |-> p, round |-> CurrentRound, opens |-> c] \in CommitmentEntry
  BY DEF TypeOK, CommitmentEntry, CurrentRound
<1>2. commitments' \subseteq CommitmentEntry
  BY <1>1 DEF TypeOK, SubmitCommitment, WithCommitment
<1> QED
  BY <1>2
  DEF TypeOK, SubmitCommitment, config, roster, outcome, policy, limits, money

LEMMA RevealTypeOK ==
    ASSUME TypeOK, NEW p \in Players, NEW c \in Choice, RevealChoice(p, c)
    PROVE  TypeOK'
<1>1. [player |-> p, round |-> CurrentRound, choice |-> c] \in ChoiceEntry
  BY DEF TypeOK, ChoiceEntry, CurrentRound
<1>2. choices' \subseteq ChoiceEntry
  BY <1>1 DEF TypeOK, RevealChoice
<1> QED
  BY <1>2
  DEF TypeOK, RevealChoice, config, roster, outcome, policy, limits, money

LEMMA StartRoundTypeOK ==
    ASSUME TypeOK, NEW duration \in Durations, NEW report \in VaultAnswers,
           StartRound(duration, report)
    PROVE  TypeOK'
<1>1. commitments' \subseteq CommitmentEntry /\ choices' \subseteq ChoiceEntry
  BY WithoutRoundRemoves DEF TypeOK, StartRound
<1>2. duration \in Nat /\ lastVaultBalance' \in Nat
  BY DurationsAreTimes, VaultAmountsAreAmounts DEF StartRound, VaultAnswers
<1> QED
  BY <1>1, <1>2 DEF TypeOK, StartRound, GameState, roster, outcome, policy, limits

\* decrement_creator_active_pools never goes below zero.
LEMMA PoolsType ==
    ASSUME TypeOK PROVE PoolsWithout(admin) \in [Addresses -> Nat]
BY DEF TypeOK, PoolsWithout

LEMMA ResolveTypeOK ==
    ASSUME TypeOK, NEW report \in VaultAnswers, ResolveRound(report)
    PROVE  TypeOK'
<1> DEFINE r == CurrentRound
           left == Survivors(r)
           balance == IF report = None THEN lastVaultBalance ELSE report
           accrued == IF balance >= lastVaultBalance
                      THEN balance - lastVaultBalance ELSE 0
<1>1. left \subseteq alive /\ left \subseteq Players
  BY SurvivorsWereActive DEF TypeOK
<1>2. balance \in Nat /\ accrued \in Nat
  BY VaultAmountsAreAmounts DEF VaultAnswers, TypeOK
<1>3. Cardinality(left) \in Nat /\ Cardinality(ActivePlayers \ left) \in Nat
  <2>1. ActivePlayers \ left \in SUBSET Players
    BY DEF ActivePlayers, TypeOK
  <2> QED BY <1>1, <2>1, PlayerSetsCount
<1>4. lastVaultBalance' \in Nat /\ cumulativeYield' \in Nat /\ roundCount' \in Nat
  <2>1. /\ lastVaultBalance' = balance /\ roundCount' = roundCount + 1
        /\ cumulativeYield' = cumulativeYield + accrued
    BY DEF ResolveRound, CurrentRound
  <2> HIDE DEF balance, accrued
  <2> QED BY <1>2, <2>1 DEF TypeOK
<1>5. alive' \subseteq Players /\ survived' \in [Players -> Nat]
  BY <1>1 DEF TypeOK, ResolveRound
<1>6. roundResults' \in Seq(ResultEntry)
  <2>1. [eliminated |-> Cardinality(ActivePlayers \ left),
         survivors |-> Cardinality(left), accrued |-> accrued] \in ResultEntry
    BY <1>2, <1>3 DEF ResultEntry
  <2> QED BY <2>1 DEF TypeOK, ResolveRound
<1>7. commitments' \subseteq CommitmentEntry /\ choices' \subseteq ChoiceEntry
  BY WithoutRoundRemoves DEF TypeOK, ResolveRound
<1>8. winner' \in Players \cup {None}
  <2>1. CASE Cardinality(left) = 1
    <3>1. left # {}
      BY <2>1, FS_EmptySet
    <3> QED BY <1>1, <2>1, <3>1 DEF ResolveRound, TypeOK
  <2>2. CASE Cardinality(left) # 1
    BY <2>2 DEF ResolveRound, TypeOK
  <2> QED BY <2>1, <2>2
<1>9. state' \in GameState /\ creatorPools' \in [Addresses -> Nat]
  BY PoolsType DEF ResolveRound, TypeOK, GameState
<1> QED
  BY <1>4, <1>5, <1>6, <1>7, <1>8, <1>9 DEF TypeOK, ResolveRound, limits

\* The two ways to end a game early that need the vault.
LEMMA EndEarlyTypeOK ==
    ASSUME TypeOK, NEW amount \in VaultAmounts,
           CancelArena(amount) \/ ExpireArena(amount)
    PROVE  TypeOK'
<1>1. amount \in Nat
  BY VaultAmountsAreAmounts
<1>2. CASE CancelArena(amount)
  BY <1>1, <1>2, PoolsType DEF TypeOK, CancelArena, GameState, roster, round,
     outcome, limits
<1>3. CASE ExpireArena(amount)
  <2> DEFINE n == Cardinality(ActivePlayers)
  <2>1. n \in Nat
    BY PlayerSetsCount DEF ActivePlayers, TypeOK
  <2>2. EntryFee * n \in Nat
    BY <2>1, FeePositive
  <2> DEFINE owed == EntryFee * n
  <2>3. arenaBalance' \in Nat
    <3> HIDE DEF owed
    <3>1. /\ arenaBalance + (IF playerCount > 0 THEN amount ELSE 0) >= owed
          /\ arenaBalance' =
                 arenaBalance + (IF playerCount > 0 THEN amount ELSE 0) - owed
      BY <1>3 DEF ExpireArena, owed
    <3> QED BY <1>1, <2>2, <3>1 DEF TypeOK, owed
  <2>4. paid' \in [Players -> Nat]
    BY <1>3, FeePositive DEF TypeOK, ExpireArena
  <2> QED
    BY <1>3, <2>3, <2>4, PoolsType DEF TypeOK, ExpireArena, GameState, roster,
       round, outcome, limits
<1> QED BY <1>2, <1>3

\* force_cancel_arena takes whatever the vault answers.
LEMMA ForceCancelTypeOK ==
    ASSUME TypeOK, NEW answer \in VaultAnswers, ForceCancelArena(answer)
    PROVE  TypeOK'
BY PoolsType, VaultAmountsAreAmounts
DEF TypeOK, ForceCancelArena, VaultAnswers, GameState, roster, round, outcome,
    limits

\* claim pays the principal and the yield the rounds recorded.
LEMMA PayoutType == ASSUME TypeOK PROVE Payout \in Nat
<1>1. EntryFee * playerCount \in Nat
  BY FeePositive DEF TypeOK
<1> QED BY <1>1 DEF TypeOK, Payout

LEMMA PayOutTypeOK ==
    ASSUME TypeOK, NEW p \in Players, NEW answer \in VaultAnswers,
           Claim(p, answer) \/ ClaimRefund(p)
    PROVE  TypeOK'
<1>1. answer # None => answer \in Nat
  BY VaultAmountsAreAmounts DEF VaultAnswers
<1>2. CASE Claim(p, answer)
  <2> DEFINE received == IF answer = None THEN 0 ELSE answer
             withdrawn == IF answer = None THEN Payout ELSE answer
             total == IF Payout > withdrawn THEN withdrawn ELSE Payout
  <2>a. received \in Nat /\ total \in Nat
    BY <1>1, PayoutType
  <2>b. /\ arenaBalance + received >= total
        /\ arenaBalance' = arenaBalance + received - total
        /\ paid' = [paid EXCEPT ![p] = @ + total]
    BY <1>2 DEF Claim
  <2> HIDE DEF received, total
  <2>1. arenaBalance' \in Nat /\ paid' \in [Players -> Nat]
    BY <2>a, <2>b DEF TypeOK
  <2> QED
    BY <1>2, <2>1 DEF TypeOK, Claim, GameState, roster, round, policy, limits
<1>3. CASE ClaimRefund(p)
  BY <1>3, FeePositive DEF TypeOK, ClaimRefund, config, roster, round, policy,
     limits
<1> QED BY <1>2, <1>3

LEMMA SettingsTypeOK ==
    ASSUME TypeOK, SettingsNext PROVE TypeOK'
<1> USE DEF TypeOK, config, roster, round, outcome, policy, limits, money
<1>1. ASSUME NEW a \in Candidates, ProposeAdmin(a) PROVE TypeOK'
  BY <1>1 DEF ProposeAdmin, Addresses
<1>2. CASE AcceptAdmin
  BY <1>2 DEF AcceptAdmin
<1>3. CASE Pause \/ Unpause
  BY <1>3 DEF Pause, Unpause, SetPaused
<1>4. ASSUME NEW p \in Players, BanPlayer(p) \/ UnbanPlayer(p) PROVE TypeOK'
  BY <1>4 DEF BanPlayer, UnbanPlayer, SetBanned
<1>5. ASSUME NEW l \in LimitChoices, ConfigurePlayerLimits(l) PROVE TypeOK'
  BY <1>5, LimitsArePairs DEF ConfigurePlayerLimits
<1>6. ASSUME NEW n \in LeaderboardLimits, ConfigureLeaderboardLimit(n)
      PROVE  TypeOK'
  BY <1>6, LeaderboardLimitsAreSizes DEF ConfigureLeaderboardLimit
<1> QED
  BY <1>1, <1>2, <1>3, <1>4, <1>5, <1>6 DEF SettingsNext

LEMMA NextTypeOK == TypeOK /\ [Next]_vars => TypeOK'
<1> SUFFICES ASSUME TypeOK, [Next]_vars PROVE TypeOK'
  OBVIOUS
<1>1. CASE PlayNext
  <2>1. ASSUME NEW p \in Players, Join(p) PROVE TypeOK'
    BY <2>1, JoinTypeOK
  <2>2. ASSUME NEW p \in Players, NEW c \in Commitment, SubmitCommitment(p, c)
        PROVE  TypeOK'
    BY <2>2, SubmitTypeOK
  <2>3. ASSUME NEW p \in Players, NEW c \in Choice, RevealChoice(p, c)
        PROVE  TypeOK'
    BY <2>3, RevealTypeOK
  <2>4. ASSUME NEW p \in Players, NEW answer \in VaultAnswers,
               Claim(p, answer) \/ ClaimRefund(p)
        PROVE  TypeOK'
    BY <2>4, PayOutTypeOK
  <2>5. ASSUME NEW p \in Players, ClaimRefund(p) PROVE TypeOK'
    BY <2>5, PayOutTypeOK DEF VaultAnswers
  <2>6. ASSUME NEW amount \in VaultAmounts, ExpireArena(amount) PROVE TypeOK'
    BY <2>6, EndEarlyTypeOK
  <2> QED BY <1>1, <2>1, <2>2, <2>3, <2>4, <2>5, <2>6 DEF PlayNext
<1>2. CASE HostNext
  <2>1. ASSUME NEW d \in Durations, NEW report \in VaultAnswers,
               StartRound(d, report)
        PROVE  TypeOK'
    BY <2>1, StartRoundTypeOK
  <2>2. ASSUME NEW report \in VaultAnswers, ResolveRound(report) PROVE TypeOK'
    BY <2>2, ResolveTypeOK
  <2>3. ASSUME NEW amount \in VaultAmounts, CancelArena(amount) PROVE TypeOK'
    BY <2>3, EndEarlyTypeOK
  <2>4. ASSUME NEW answer \in VaultAnswers, ForceCancelArena(answer)
        PROVE  TypeOK'
    BY <2>4, ForceCancelTypeOK
  <2> QED BY <1>2, <2>1, <2>2, <2>3, <2>4 DEF HostNext
<1>3. CASE SettingsNext
  BY <1>3, SettingsTypeOK
<1>4. CASE Tick
  BY <1>4 DEF TypeOK, Tick, config, roster, round, outcome, policy, limits, money
<1>5. CASE UNCHANGED vars
  BY <1>5
  DEF TypeOK, vars, config, roster, round, outcome, policy, limits, money
<1> QED BY <1>1, <1>2, <1>3, <1>4, <1>5 DEF Next

\* Every call leaves every variable with a value of its type: no balance, score
\* or counter of the contract goes negative, whatever the vault answers.
THEOREM TypeCorrect == Spec => []TypeOK
BY InitTypeOK, NextTypeOK, PTL DEF Spec

-----------------------------------------------------------------------------
\* The cases of a step

\* What the admin's settings, the clock and a stuttering step leave alone.
Quiet == UNCHANGED <<state, playerCount, cumulativeYield, commitDeadline,
                     roundCount, roster, round, outcome, money>>

LEMMA QuietSteps == SettingsNext \/ Tick \/ UNCHANGED vars => Quiet
<1> USE DEF Quiet, config, roster, round, outcome, policy, limits, money
<1>1. SettingsNext => Quiet
  <2>1. ASSUME NEW a \in Candidates, ProposeAdmin(a) PROVE Quiet
    BY <2>1 DEF ProposeAdmin
  <2>2. AcceptAdmin => Quiet
    BY DEF AcceptAdmin
  <2>3. Pause \/ Unpause => Quiet
    BY DEF Pause, Unpause, SetPaused
  <2>4. ASSUME NEW p \in Players, BanPlayer(p) \/ UnbanPlayer(p) PROVE Quiet
    BY <2>4 DEF BanPlayer, UnbanPlayer, SetBanned
  <2>5. ASSUME NEW l \in LimitChoices, ConfigurePlayerLimits(l) PROVE Quiet
    BY <2>5 DEF ConfigurePlayerLimits
  <2>6. ASSUME NEW n \in LeaderboardLimits, ConfigureLeaderboardLimit(n)
        PROVE  Quiet
    BY <2>6 DEF ConfigureLeaderboardLimit
  <2> QED BY <2>1, <2>2, <2>3, <2>4, <2>5, <2>6 DEF SettingsNext
<1>2. Tick => Quiet
  BY DEF Tick
<1>3. UNCHANGED vars => Quiet
  BY DEF vars
<1> QED BY <1>1, <1>2, <1>3

\* A step is one of the ten calls that move the game, or a quiet one.
LEMMA StepCases ==
    ASSUME [Next]_vars
    PROVE  \/ Quiet
           \/ \E p \in Players : Join(p)
           \/ \E p \in Players, c \in Commitment : SubmitCommitment(p, c)
           \/ \E p \in Players, c \in Choice : RevealChoice(p, c)
           \/ \E d \in Durations, a \in VaultAnswers : StartRound(d, a)
           \/ \E a \in VaultAnswers : ResolveRound(a)
           \/ \E a \in VaultAmounts : CancelArena(a)
           \/ \E a \in VaultAmounts : ExpireArena(a)
           \/ \E a \in VaultAnswers : ForceCancelArena(a)
           \/ \E p \in Players, a \in VaultAnswers : Claim(p, a)
           \/ \E p \in Players : ClaimRefund(p)
<1>1. CASE PlayNext
  BY <1>1 DEF PlayNext
<1>2. CASE HostNext
  BY <1>2 DEF HostNext
<1>3. CASE SettingsNext \/ Tick \/ UNCHANGED vars
  BY <1>3, QuietSteps
<1> QED BY <1>1, <1>2, <1>3 DEF Next

-----------------------------------------------------------------------------
\* The roster

LEMMA RosterInit == Init => RosterConsistent
BY DEF Init, RosterConsistent, Listed, Range

\* Only join_arena and resolve_round touch the roster.
LEMMA RosterFrame ==
    ASSUME [Next]_vars
    PROVE  \/ \E p \in Players : Join(p)
           \/ \E a \in VaultAnswers : ResolveRound(a)
           \/ UNCHANGED <<roster, playerCount>>
<1>1. CASE Quiet
  BY <1>1 DEF Quiet, roster
<1>2. ASSUME NEW p \in Players, NEW c \in Commitment, SubmitCommitment(p, c)
      PROVE  UNCHANGED <<roster, playerCount>>
  BY <1>2 DEF SubmitCommitment, config, roster
<1>3. ASSUME NEW p \in Players, NEW c \in Choice, RevealChoice(p, c)
      PROVE  UNCHANGED <<roster, playerCount>>
  BY <1>3 DEF RevealChoice, config, roster
<1>4. ASSUME NEW d \in Durations, NEW a \in VaultAnswers, StartRound(d, a)
      PROVE  UNCHANGED <<roster, playerCount>>
  BY <1>4 DEF StartRound, roster
<1>5. ASSUME NEW a \in VaultAmounts, CancelArena(a) \/ ExpireArena(a)
      PROVE  UNCHANGED <<roster, playerCount>>
  BY <1>5 DEF CancelArena, ExpireArena, roster
<1>6. ASSUME NEW a \in VaultAnswers, ForceCancelArena(a)
      PROVE  UNCHANGED <<roster, playerCount>>
  BY <1>6 DEF ForceCancelArena, roster
<1>7. ASSUME NEW p \in Players, NEW a \in VaultAnswers,
             Claim(p, a)
      PROVE  UNCHANGED <<roster, playerCount>>
  BY <1>7 DEF Claim, config, roster
<1>8. ASSUME NEW p \in Players, ClaimRefund(p)
      PROVE  UNCHANGED <<roster, playerCount>>
  BY <1>8 DEF ClaimRefund, config, roster
<1> QED
  BY StepCases, <1>1, <1>2, <1>3, <1>4, <1>5, <1>6, <1>7, <1>8

LEMMA RosterStep == TypeOK /\ RosterConsistent /\ [Next]_vars => RosterConsistent'
<1> SUFFICES ASSUME TypeOK, RosterConsistent, [Next]_vars
             PROVE  RosterConsistent'
  OBVIOUS
<1>1. ASSUME NEW p \in Players, Join(p) PROVE RosterConsistent'
  <2>1. /\ players \in Seq(Players) /\ players' = Append(players, p)
        /\ p \notin joined /\ joined' = joined \cup {p}
        /\ alive' = alive \cup {p} /\ playerCount' = Len(players')
    BY <1>1 DEF Join, TypeOK
  <2>2. Listed = joined
    BY DEF RosterConsistent
  <2>3. /\ DOMAIN players = 1..Len(players) /\ Len(players) \in Nat
        /\ DOMAIN players' = 1..(Len(players) + 1)
        /\ \A i \in DOMAIN players : players'[i] = players[i]
        /\ players'[Len(players) + 1] = p
    BY <2>1
  <2>4. Listed' = joined'
    <3>1. Listed' \subseteq Listed \cup {p}
      BY <2>3 DEF Listed, Range
    <3>2. Listed \cup {p} \subseteq Listed'
      BY <2>3 DEF Listed, Range
    <3> QED BY <2>1, <2>2, <3>1, <3>2
  <2>5. ASSUME NEW i \in DOMAIN players', NEW j \in DOMAIN players',
               players'[i] = players'[j]
        PROVE  i = j
    <3>1. \A k \in DOMAIN players : players[k] # p
      BY <2>1, <2>2 DEF Listed, Range
    <3> QED BY <2>3, <2>5, <3>1 DEF RosterConsistent
  <2> QED BY <2>1, <2>4, <2>5 DEF RosterConsistent
<1>2. ASSUME NEW a \in VaultAnswers, ResolveRound(a) PROVE RosterConsistent'
  BY <1>2 DEF ResolveRound, RosterConsistent, Listed
<1>3. CASE UNCHANGED <<roster, playerCount>>
  BY <1>3 DEF roster, RosterConsistent, Listed
<1> QED BY RosterFrame, <1>1, <1>2, <1>3

\* PLAYERS, the Player entries and player_count name the same players, whatever
\* the order of joins, rounds and settings.
THEOREM RosterStaysConsistent == Spec => []RosterConsistent
<1>1. Init => TypeOK /\ RosterConsistent
  BY InitTypeOK, RosterInit
<1>2. TypeOK /\ RosterConsistent /\ [Next]_vars => (TypeOK /\ RosterConsistent)'
  BY NextTypeOK, RosterStep
<1> QED BY <1>1, <1>2, PTL DEF Spec

-----------------------------------------------------------------------------
\* The winner

\* With a consistent roster the active players are those alive, and a resolved
\* round leaves alive exactly those it spared.
LEMMA ActiveAreAlive == TypeOK /\ RosterConsistent => ActivePlayers = alive
BY DEF RosterConsistent, ActivePlayers

LEMMA ResolveLeavesSurvivors ==
    ASSUME TypeOK, RosterConsistent, NEW a \in VaultAnswers, ResolveRound(a)
    PROVE  alive' = Survivors(CurrentRound)
<1>1. Survivors(CurrentRound) \subseteq alive
  BY SurvivorsWereActive
<1> QED BY <1>1, ActiveAreAlive DEF ResolveRound

LEMMA WinnerInit == Init => WinnerIsSoleSurvivor
BY DEF Init, WinnerIsSoleSurvivor

LEMMA WinnerStep ==
    TypeOK /\ RosterConsistent /\ WinnerIsSoleSurvivor /\ [Next]_vars
        => WinnerIsSoleSurvivor'
<1> SUFFICES ASSUME TypeOK, RosterConsistent, WinnerIsSoleSurvivor, [Next]_vars
             PROVE  WinnerIsSoleSurvivor'
  OBVIOUS
<1> USE DEF WinnerIsSoleSurvivor
<1>1. CASE Quiet
  BY <1>1 DEF Quiet, roster, outcome
<1>2. ASSUME NEW p \in Players, Join(p) PROVE WinnerIsSoleSurvivor'
  BY <1>2 DEF Join, outcome
<1>3. ASSUME NEW p \in Players, NEW c \in Commitment, SubmitCommitment(p, c)
      PROVE  WinnerIsSoleSurvivor'
  BY <1>3 DEF SubmitCommitment, config, roster, outcome
<1>4. ASSUME NEW p \in Players, NEW c \in Choice, RevealChoice(p, c)
      PROVE  WinnerIsSoleSurvivor'
  BY <1>4 DEF RevealChoice, config, roster, outcome
<1>5. ASSUME NEW d \in Durations, NEW a \in VaultAnswers, StartRound(d, a)
      PROVE  WinnerIsSoleSurvivor'
  BY <1>5 DEF StartRound, roster, outcome
<1>6. ASSUME NEW a \in VaultAnswers, ResolveRound(a)
      PROVE  WinnerIsSoleSurvivor'
  <2> DEFINE left == Survivors(CurrentRound)
  <2>1. alive' = left
    BY <1>6, ResolveLeavesSurvivors
  <2>2. /\ state = "Active" /\ winner = None /\ ~prizeClaimed
        /\ prizeClaimed' = prizeClaimed
        /\ state' = IF Cardinality(left) <= 1 THEN "Finished" ELSE "Open"
        /\ winner' = IF Cardinality(left) = 1 THEN CHOOSE p \in left : TRUE
                                              ELSE winner
    BY <1>6 DEF ResolveRound, TypeOK
  <2>3. CASE Cardinality(left) = 1
    <3>1. PICK x : left = {x}
      <4>1. left \in SUBSET Players
        BY SurvivorsWereActive DEF TypeOK
      <4> QED BY <2>3, <4>1, PlayerSetsCount, FS_Singleton
    <3> QED BY <2>1, <2>2, <2>3, <3>1
  <2>4. CASE Cardinality(left) # 1
    BY <2>2, <2>4
  <2> QED BY <2>3, <2>4
<1>7. ASSUME NEW a \in VaultAmounts, CancelArena(a) PROVE WinnerIsSoleSurvivor'
  BY <1>7 DEF CancelArena, roster, outcome
<1>8. ASSUME NEW a \in VaultAmounts, ExpireArena(a) PROVE WinnerIsSoleSurvivor'
  BY <1>8 DEF ExpireArena, roster, outcome
<1>9. ASSUME NEW a \in VaultAnswers, ForceCancelArena(a)
      PROVE  WinnerIsSoleSurvivor'
  BY <1>9 DEF ForceCancelArena, roster, outcome
<1>10. ASSUME NEW p \in Players, NEW a \in VaultAnswers, Claim(p, a)
       PROVE  WinnerIsSoleSurvivor'
  BY <1>10, NoneIsNoValue DEF Claim, roster, Addresses
<1>11. ASSUME NEW p \in Players, ClaimRefund(p) PROVE WinnerIsSoleSurvivor'
  BY <1>11 DEF ClaimRefund, config, roster
<1> QED
  BY StepCases, <1>1, <1>2, <1>3, <1>4, <1>5, <1>6, <1>7, <1>8, <1>9, <1>10,
     <1>11

-----------------------------------------------------------------------------
\* The refunds

\* Nobody is refunded before a cancellation, and only players are.
RefundsFollowCancel ==
    /\ state # "Cancelled" => refunded = {}
    /\ refunded \subseteq joined

LEMMA RefundsInit == Init => RefundsCovered /\ RefundsFollowCancel
<1> SUFFICES ASSUME Init PROVE RefundsCovered /\ RefundsFollowCancel
  OBVIOUS
<1>1. Cardinality(joined) = 0
  BY FS_EmptySet DEF Init
<1> QED BY <1>1, FeePositive DEF Init, RefundsCovered, RefundsFollowCancel

\* One fee more, one fee less.
LEMMA FeeTimes ==
    ASSUME NEW n \in Nat
    PROVE  /\ EntryFee * n \in Nat
           /\ EntryFee * (n + 1) = EntryFee * n + EntryFee
BY FeePositive

LEMMA RefundsStep ==
    ASSUME TypeOK, RefundsCovered, RefundsFollowCancel, [Next]_vars
    PROVE  RefundsCovered' /\ RefundsFollowCancel'
<1> DEFINE R == RefundsCovered /\ RefundsFollowCancel
<1> USE DEF RefundsCovered, RefundsFollowCancel
<1>1. CASE Quiet
  BY <1>1 DEF Quiet, roster, outcome, money
<1>2. ASSUME NEW p \in Players, Join(p) PROVE R'
  <2>1. /\ Cardinality(joined) \in Nat
        /\ Cardinality(joined') = Cardinality(joined) + 1
    BY <1>2, PlayerSetsCount, FS_AddElement DEF Join, TypeOK
  <2> DEFINE n == Cardinality(joined)
  <2>2. EntryFee * Cardinality(joined') = EntryFee * n + EntryFee
    BY <2>1, FeeTimes
  <2>3. EntryFee * n \in Nat
    BY <2>1, FeeTimes
  <2>4. /\ state = "Open" /\ state' = "Open" /\ refunded' = refunded
        /\ arenaBalance' = arenaBalance + EntryFee
        /\ joined' = joined \cup {p}
    BY <1>2 DEF Join, outcome
  <2>5. arenaBalance' >= EntryFee * Cardinality(joined')
    BY <2>2, <2>3, <2>4, FeePositive DEF TypeOK
  <2> QED BY <2>4, <2>5
<1>3. ASSUME NEW p \in Players, NEW c \in Commitment, SubmitCommitment(p, c)
      PROVE  R'
  BY <1>3 DEF SubmitCommitment, config, roster, outcome, money
<1>4. ASSUME NEW p \in Players, NEW c \in Choice, RevealChoice(p, c) PROVE R'
  BY <1>4 DEF RevealChoice, config, roster, outcome, money
<1>5. ASSUME NEW d \in Durations, NEW a \in VaultAnswers, StartRound(d, a)
      PROVE  R'
  BY <1>5 DEF StartRound, roster, outcome
<1>6. ASSUME NEW a \in VaultAnswers, ResolveRound(a) PROVE R'
  BY <1>6 DEF ResolveRound
\* A cancellation adds what the vault returns, and nobody is refunded yet.
<1>7. ASSUME /\ UNCHANGED <<joined, refunded>>
             /\ state \in {"Open", "Active"} /\ state' = "Cancelled"
             /\ arenaBalance' >= arenaBalance /\ arenaBalance' \in Nat
      PROVE  R'
  <2>1. joined' = joined /\ refunded' = {} /\ joined \ refunded' = joined
    BY <1>7
  <2>2. EntryFee * Cardinality(joined) \in Nat
    BY PlayerSetsCount, FeeTimes DEF TypeOK
  <2> QED BY <1>7, <2>1, <2>2 DEF TypeOK
<1>8. ASSUME NEW a \in VaultAmounts, CancelArena(a) PROVE R'
  <2>1. /\ UNCHANGED <<joined, refunded>>
        /\ state \in {"Open", "Active"} /\ state' = "Cancelled"
        /\ arenaBalance' >= arenaBalance /\ arenaBalance' \in Nat
    BY <1>8, VaultAmountsAreAmounts DEF CancelArena, roster, outcome, TypeOK
  <2> QED BY <2>1, <1>7
<1>9. ASSUME NEW a \in VaultAnswers, ForceCancelArena(a) PROVE R'
  <2>1. /\ UNCHANGED <<joined, refunded>>
        /\ state \in {"Open", "Active"} /\ state' = "Cancelled"
        /\ arenaBalance' >= arenaBalance /\ arenaBalance' \in Nat
    BY <1>9, VaultAmountsAreAmounts
    DEF ForceCancelArena, VaultAnswers, roster, outcome, TypeOK
  <2> QED BY <2>1, <1>7
<1>10. ASSUME NEW a \in VaultAmounts, ExpireArena(a) PROVE R'
  BY <1>10 DEF ExpireArena, roster, outcome
<1>11. ASSUME NEW p \in Players, NEW a \in VaultAnswers, Claim(p, a) PROVE R'
  BY <1>11 DEF Claim, roster
<1>12. ASSUME NEW p \in Players, ClaimRefund(p) PROVE R'
  <2>1. /\ state = "Cancelled" /\ state' = "Cancelled" /\ p \in joined
        /\ p \notin refunded /\ refunded' = refunded \cup {p}
        /\ joined' = joined /\ arenaBalance' = arenaBalance - EntryFee
    BY <1>12 DEF ClaimRefund, config, roster
  <2> DEFINE due == joined \ refunded
             n == Cardinality(due \ {p})
  <2>2. /\ p \in due /\ due \in SUBSET Players
        /\ Cardinality(joined' \ refunded') = n
    <3>1. joined' \ refunded' = due \ {p}
      BY <2>1
    <3> QED BY <2>1, <3>1 DEF TypeOK
  <2>3. IsFiniteSet(due) /\ Cardinality(due) \in Nat /\ n \in Nat
    <3>1. due \ {p} \in SUBSET Players
      BY <2>2
    <3> QED BY <2>2, <3>1, PlayerSetsCount
  <2>4. Cardinality(due) = n + 1
    <3>1. n = Cardinality(due) - 1
      <4> HIDE DEF due
      <4> QED BY <2>2, <2>3, FS_RemoveElement
    <3> QED BY <2>3, <3>1
  <2>5. EntryFee * Cardinality(due) = EntryFee * n + EntryFee /\ EntryFee * n \in Nat
    BY <2>3, <2>4, FeeTimes
  <2>6. arenaBalance' >= EntryFee * n
    BY <2>1, <2>5, FeePositive DEF TypeOK
  <2>7. refunded' \subseteq joined'
    BY <2>1
  <2> HIDE DEF due, n
  <2> QED BY <2>1, <2>2, <2>6, <2>7
<1> QED
  BY StepCases, <1>1, <1>2, <1>3, <1>4, <1>5, <1>6, <1>8, <1>9, <1>10, <1>11,
     <1>12

-----------------------------------------------------------------------------
\* The payments

LEMMA PaidInit == Init => PaidOnce
BY DEF Init, PaidOnce

LEMMA PaidStep ==
    ASSUME TypeOK, WinnerIsSoleSurvivor, PaidOnce, [Next]_vars
    PROVE  PaidOnce'
<1> USE DEF PaidOnce
\* Nothing is paid while the game runs, and nothing when it ends with a winner.
<1>1. /\ state \in {"Open", "Active"} => winner = None
      /\ state \in {"Open", "Active"} => \A p \in Players : paid[p] = 0
      /\ state = "Finished" /\ winner # None => \A p \in Players : paid[p] = 0
  BY DEF WinnerIsSoleSurvivor
<1>2. CASE Quiet
  BY <1>2 DEF Quiet, roster, outcome, money
<1>3. ASSUME NEW p \in Players, Join(p) PROVE PaidOnce'
  BY <1>1, <1>3 DEF Join
<1>4. ASSUME NEW p \in Players, NEW c \in Commitment, SubmitCommitment(p, c)
      PROVE  PaidOnce'
  BY <1>4 DEF SubmitCommitment, config, roster, outcome, money
<1>5. ASSUME NEW p \in Players, NEW c \in Choice, RevealChoice(p, c)
      PROVE  PaidOnce'
  BY <1>5 DEF RevealChoice, config, roster, outcome, money
<1>6. ASSUME NEW d \in Durations, NEW a \in VaultAnswers, StartRound(d, a)
      PROVE  PaidOnce'
  BY <1>1, <1>6 DEF StartRound
<1>7. ASSUME NEW a \in VaultAnswers, ResolveRound(a) PROVE PaidOnce'
  BY <1>1, <1>7 DEF ResolveRound
<1>8. ASSUME NEW a \in VaultAmounts, CancelArena(a) PROVE PaidOnce'
  BY <1>1, <1>8 DEF CancelArena
<1>9. ASSUME NEW a \in VaultAnswers, ForceCancelArena(a) PROVE PaidOnce'
  BY <1>1, <1>9 DEF ForceCancelArena
<1>10. ASSUME NEW a \in VaultAmounts, ExpireArena(a) PROVE PaidOnce'
  <2>1. /\ state' = "Finished" /\ winner' = None /\ alive' = alive
        /\ \A p \in Players : paid[p] = 0
        /\ \A p \in Players :
               paid'[p] = IF p \in ActivePlayers THEN paid[p] + EntryFee
                                                 ELSE paid[p]
    BY <1>1, <1>10 DEF ExpireArena, roster, outcome
  <2>2. ActivePlayers \subseteq alive
    BY DEF ActivePlayers
  <2> QED BY <2>1, <2>2, FeePositive
<1>11. ASSUME NEW p \in Players, NEW a \in VaultAnswers, Claim(p, a)
       PROVE  PaidOnce'
  <2>1. winner # None
    BY <1>11, NoneIsNoValue DEF Claim, Addresses
  <2> QED BY <1>1, <1>11, <2>1 DEF Claim, TypeOK
<1>12. ASSUME NEW p \in Players, ClaimRefund(p) PROVE PaidOnce'
  <2>1. /\ state = "Cancelled" /\ state' = state
        /\ paid' = [paid EXCEPT ![p] = @ + EntryFee]
        /\ p \notin refunded /\ refunded' = refunded \cup {p}
    BY <1>12 DEF ClaimRefund, config
  <2>2. paid[p] = 0
    BY <2>1
  <2> QED BY <2>1, <2>2, FeePositive DEF TypeOK
<1> QED
  BY StepCases, <1>2, <1>3, <1>4, <1>5, <1>6, <1>7, <1>8, <1>9, <1>10, <1>11,
     <1>12

-----------------------------------------------------------------------------
\* The entries of the round

LEMMA EntriesInit == Init => EntriesOfTheRound /\ RevealsOpenCommitments
BY DEF Init, EntriesOfTheRound, RevealsOpenCommitments

\* As PLAYERS lists every player with an entry, clearing the round clears all.
LEMMA RoundCleared ==
    ASSUME TypeOK, RosterConsistent, EntriesOfTheRound
    PROVE  /\ WithoutRound(commitments, CurrentRound) = {}
           /\ WithoutRound(choices, CurrentRound) = {}
BY DEF WithoutRound, RosterConsistent, EntriesOfTheRound

\* What a call leaves alone that neither plays, clears nor counts a round.
LEMMA EntriesKept ==
    ASSUME EntriesOfTheRound, RevealsOpenCommitments,
           UNCHANGED <<commitments, choices, joined, roundCount,
                       commitDeadline>>,
           now' >= now, now \in Nat, now' \in Nat, commitDeadline \in Nat,
           state' = "Open" => commitments = {} /\ choices = {}
    PROVE  EntriesOfTheRound' /\ RevealsOpenCommitments'
BY DEF EntriesOfTheRound, RevealsOpenCommitments, CurrentRound

\* The ledger's clock never goes back.
LEMMA ClockStep ==
    ASSUME TypeOK, [Next]_vars
    PROVE  now' \in Nat /\ now' >= now
<1>1. CASE SettingsNext
  BY <1>1 DEF SettingsNext, ProposeAdmin, AcceptAdmin, Pause, Unpause,
     SetPaused, BanPlayer, UnbanPlayer, SetBanned, ConfigurePlayerLimits,
     ConfigureLeaderboardLimit, TypeOK
<1>2. CASE PlayNext
  <2>1. ASSUME NEW p \in Players, Join(p) \/ ClaimRefund(p) PROVE now' = now
    BY <2>1 DEF Join, ClaimRefund
  <2>2. ASSUME NEW p \in Players, NEW c \in Commitment, SubmitCommitment(p, c)
        PROVE  now' = now
    BY <2>2 DEF SubmitCommitment
  <2>3. ASSUME NEW p \in Players, NEW c \in Choice, RevealChoice(p, c)
        PROVE  now' = now
    BY <2>3 DEF RevealChoice
  <2>4. ASSUME NEW p \in Players, NEW a \in VaultAnswers, Claim(p, a)
        PROVE  now' = now
    BY <2>4 DEF Claim
  <2>5. ASSUME NEW a \in VaultAmounts, ExpireArena(a) PROVE now' = now
    BY <2>5 DEF ExpireArena
  <2> QED BY <1>2, <2>1, <2>2, <2>3, <2>4, <2>5 DEF PlayNext, TypeOK
<1>3. CASE HostNext
  <2>1. ASSUME NEW d \in Durations, NEW a \in VaultAnswers, StartRound(d, a)
        PROVE  now' = now
    BY <2>1 DEF StartRound
  <2>2. ASSUME NEW a \in VaultAnswers, ResolveRound(a) \/ ForceCancelArena(a)
        PROVE  now' = now
    BY <2>2 DEF ResolveRound, ForceCancelArena
  <2>3. ASSUME NEW a \in VaultAmounts, CancelArena(a) PROVE now' = now
    BY <2>3 DEF CancelArena
  <2> QED BY <1>3, <2>1, <2>2, <2>3 DEF HostNext, TypeOK
<1>4. CASE Tick \/ UNCHANGED vars
  BY <1>4 DEF Tick, vars, TypeOK
<1> QED BY <1>1, <1>2, <1>3, <1>4 DEF Next

LEMMA EntriesStep ==
    ASSUME TypeOK, RosterConsistent, EntriesOfTheRound, RevealsOpenCommitments,
           [Next]_vars
    PROVE  EntriesOfTheRound' /\ RevealsOpenCommitments'
<1> DEFINE E == EntriesOfTheRound /\ RevealsOpenCommitments
           r == CurrentRound
<1>0. /\ now \in Nat /\ now' \in Nat /\ now' >= now
      /\ commitDeadline \in Nat /\ roundCount \in Nat
      /\ state = "Open" => commitments = {} /\ choices = {}
  BY ClockStep DEF TypeOK, EntriesOfTheRound
<1>1. CASE Quiet
  BY <1>0, <1>1, EntriesKept DEF Quiet, roster, round
<1>2. ASSUME NEW p \in Players, Join(p) PROVE E'
  BY <1>0, <1>2
  DEF Join, round, EntriesOfTheRound, RevealsOpenCommitments
<1>3. ASSUME NEW p \in Players, NEW c \in Commitment, SubmitCommitment(p, c)
      PROVE  E'
  <2>1. /\ choices' = choices /\ joined' = joined /\ state' = "Active"
        /\ roundCount' = roundCount /\ commitDeadline' = commitDeadline
        /\ now < commitDeadline /\ p \in joined
        /\ commitments' = WithCommitment(p, r, c)
    BY <1>3 DEF SubmitCommitment, config, roster
  <2>2. choices' = {}
    BY <1>0, <2>1 DEF EntriesOfTheRound
  <2>3. \A e \in commitments' : e.round = r /\ e.player \in joined
    BY <2>1 DEF WithCommitment, EntriesOfTheRound
  <2>4. CurrentRound' = r
    BY <2>1 DEF CurrentRound
  <2> QED BY <2>1, <2>2, <2>3, <2>4 DEF EntriesOfTheRound, RevealsOpenCommitments
<1>4. ASSUME NEW p \in Players, NEW c \in Choice, RevealChoice(p, c) PROVE E'
  <2> DEFINE new == [player |-> p, round |-> r, choice |-> c]
  <2>1. /\ choices' = choices \cup {new} /\ commitments' = commitments
        /\ joined' = joined /\ state' = state /\ roundCount' = roundCount
        /\ commitDeadline' = commitDeadline /\ now >= commitDeadline
        /\ p \in joined /\ ~Revealed(p, r)
        /\ [player |-> p, round |-> r, opens |-> c] \in commitments
    BY <1>4 DEF RevealChoice, config, roster
  <2>2. state # "Open"
    BY <1>0, <2>1
  <2>3. \A e \in choices : e.player # p
    BY <2>1 DEF Revealed, EntriesOfTheRound
  <2>4. CurrentRound' = r
    BY <2>1 DEF CurrentRound
  <2>5. now' >= commitDeadline'
    BY <1>0, <2>1
  <2>6. EntriesOfTheRound'
    BY <2>1, <2>2, <2>3, <2>4, <2>5 DEF EntriesOfTheRound
  <2>7. RevealsOpenCommitments'
    BY <2>1, <2>4 DEF RevealsOpenCommitments
  <2> QED BY <2>6, <2>7
<1>5. ASSUME NEW d \in Durations, NEW a \in VaultAnswers, StartRound(d, a)
      PROVE  E'
  <2>1. commitments' = {} /\ choices' = {}
    BY <1>5, RoundCleared DEF StartRound
  <2> QED BY <2>1 DEF EntriesOfTheRound, RevealsOpenCommitments
<1>6. ASSUME NEW a \in VaultAnswers, ResolveRound(a) PROVE E'
  <2>1. commitments' = {} /\ choices' = {}
    BY <1>6, RoundCleared DEF ResolveRound
  <2> QED BY <2>1 DEF EntriesOfTheRound, RevealsOpenCommitments
<1>7. ASSUME NEW a \in VaultAmounts, CancelArena(a) PROVE E'
  BY <1>0, <1>7, EntriesKept DEF CancelArena, roster, round
<1>8. ASSUME NEW a \in VaultAmounts, ExpireArena(a) PROVE E'
  BY <1>0, <1>8, EntriesKept DEF ExpireArena, roster, round
<1>9. ASSUME NEW a \in VaultAnswers, ForceCancelArena(a) PROVE E'
  BY <1>0, <1>9, EntriesKept DEF ForceCancelArena, roster, round
<1>10. ASSUME NEW p \in Players, NEW a \in VaultAnswers, Claim(p, a) PROVE E'
  BY <1>0, <1>10, EntriesKept DEF Claim, roster, round
<1>11. ASSUME NEW p \in Players, ClaimRefund(p) PROVE E'
  BY <1>0, <1>11, EntriesKept DEF ClaimRefund, config, roster, round
<1> QED
  BY StepCases, <1>1, <1>2, <1>3, <1>4, <1>5, <1>6, <1>7, <1>8, <1>9, <1>10,
     <1>11

-----------------------------------------------------------------------------
\* The inductive invariant, and what follows from it

\* The invariants of the runs support each other: who won needs the roster, who
\* was paid needs who won. RefundsFollowCancel is the one addition.
Sound ==
    /\ TypeOK /\ RosterConsistent
    /\ WinnerIsSoleSurvivor /\ PaidOnce
    /\ RefundsCovered /\ RefundsFollowCancel
    /\ EntriesOfTheRound /\ RevealsOpenCommitments

LEMMA SoundInit == Init => Sound
BY InitTypeOK, RosterInit, WinnerInit, PaidInit, RefundsInit, EntriesInit
DEF Sound

LEMMA SoundStep == Sound /\ [Next]_vars => Sound'
BY NextTypeOK, RosterStep, WinnerStep, PaidStep, RefundsStep, EntriesStep
DEF Sound

THEOREM ArenaIsSound == Spec => []Sound
BY SoundInit, SoundStep, PTL DEF Spec

\* No sequence of calls and no answer of the vault leaves the arena unable to
\* return every fee it owes.
THEOREM RefundsAlwaysCovered == Spec => []RefundsCovered
<1>1. Sound => RefundsCovered
  BY DEF Sound
<1> QED BY <1>1, ArenaIsSound, PTL

\* No player is paid along two of the three ways out of the game.
THEOREM NobodyPaidTwice == Spec => []PaidOnce
<1>1. Sound => PaidOnce
  BY DEF Sound
<1> QED BY <1>1, ArenaIsSound, PTL

\* A winner is the one player left, and stays it.
THEOREM WinnerStaysSoleSurvivor == Spec => []WinnerIsSoleSurvivor
<1>1. Sound => WinnerIsSoleSurvivor
  BY DEF Sound
<1> QED BY <1>1, ArenaIsSound, PTL

\* Every choice that counts opens the commitment its player made for the round.
THEOREM RevealsAreCommitted == Spec => [](EntriesOfTheRound /\ RevealsOpenCommitments)
<1>1. Sound => EntriesOfTheRound /\ RevealsOpenCommitments
  BY DEF Sound
<1> QED BY <1>1, ArenaIsSound, PTL

-----------------------------------------------------------------------------
\* What a step may never do

\* Once a choice is public the round's commitments are closed.
THEOREM NoCommitOnceRevealed == Spec => NoCommitAfterReveal
<1> DEFINE A == (\E e \in choices : e.round = CurrentRound)
                    /\ roundCount' = roundCount => commitments' = commitments
<1>1. ASSUME Sound, [Next]_vars, choices # {}, roundCount' = roundCount
      PROVE  commitments' = commitments
  <2>0. state # "Open" /\ ~(now < commitDeadline)
    BY <1>1 DEF Sound, EntriesOfTheRound, TypeOK
  <2>1. CASE Quiet
    BY <2>1 DEF Quiet, round
  <2>2. ASSUME NEW p \in Players, Join(p) PROVE FALSE
    BY <2>0, <2>2 DEF Join
  <2>3. ASSUME NEW p \in Players, NEW c \in Commitment, SubmitCommitment(p, c)
        PROVE  FALSE
    BY <2>0, <2>3 DEF SubmitCommitment
  <2>4. ASSUME NEW p \in Players, NEW c \in Choice, RevealChoice(p, c)
        PROVE  commitments' = commitments
    BY <2>4 DEF RevealChoice
  <2>5. ASSUME NEW d \in Durations, NEW a \in VaultAnswers, StartRound(d, a)
        PROVE  FALSE
    BY <2>0, <2>5 DEF StartRound
  <2>6. ASSUME NEW a \in VaultAnswers, ResolveRound(a) PROVE FALSE
    BY <1>1, <2>6 DEF ResolveRound, CurrentRound, Sound, TypeOK
  <2>7. ASSUME NEW a \in VaultAmounts, CancelArena(a) \/ ExpireArena(a)
        PROVE  commitments' = commitments
    BY <2>7 DEF CancelArena, ExpireArena, round
  <2>8. ASSUME NEW a \in VaultAnswers, ForceCancelArena(a)
        PROVE  commitments' = commitments
    BY <2>8 DEF ForceCancelArena, round
  <2>9. ASSUME NEW p \in Players, NEW a \in VaultAnswers, Claim(p, a)
        PROVE  commitments' = commitments
    BY <2>9 DEF Claim, round
  <2>10. ASSUME NEW p \in Players, ClaimRefund(p)
         PROVE  commitments' = commitments
    BY <2>10 DEF ClaimRefund, round
  <2> QED
    BY <1>1, StepCases, <2>1, <2>2, <2>3, <2>4, <2>5, <2>6, <2>7, <2>8, <2>9,
       <2>10
<1>2. Sound /\ [Next]_vars => [A]_vars
  BY <1>1
<1> QED BY <1>2, ArenaIsSound, PTL DEF Spec, NoCommitAfterReveal

\* Nobody out of the game comes back, and no score changes after the exit.
THEOREM EliminatedForGood == Spec => EliminationIsFinal
<1> DEFINE A == \A p \in joined \ alive :
                    p \notin alive' /\ survived'[p] = survived[p]
<1>1. ASSUME Sound, [Next]_vars PROVE A
  <2>0. TypeOK /\ RosterConsistent
    BY <1>1 DEF Sound
  <2>1. ASSUME NEW p \in Players, Join(p) PROVE A
    BY <2>0, <2>1 DEF Join, TypeOK
  <2>2. ASSUME NEW a \in VaultAnswers, ResolveRound(a) PROVE A
    <3>1. alive' = Survivors(CurrentRound) /\ Survivors(CurrentRound) \subseteq alive
      BY <2>0, <2>2, ResolveLeavesSurvivors, SurvivorsWereActive
    <3>2. \A p \in Players : p \notin Survivors(CurrentRound) =>
                                 survived'[p] = survived[p]
      BY <2>2 DEF ResolveRound
    <3> QED BY <2>0, <3>1, <3>2 DEF TypeOK
  <2>3. CASE UNCHANGED <<roster, playerCount>>
    BY <2>3 DEF roster
  <2> QED BY <1>1, RosterFrame, <2>1, <2>2, <2>3
<1>2. Sound /\ [Next]_vars => [A]_vars
  BY <1>1
<1> QED BY <1>2, ArenaIsSound, PTL DEF Spec, EliminationIsFinal

-----------------------------------------------------------------------------
\* The minority rule

\* The tally of eliminations.rs spares all voters of an unopposed or equal
\* vote, and otherwise exactly the smaller side.
LEMMA MinorityRule ==
    ASSUME NEW S, IsFiniteSet(S), NEW votes \in [S -> Choice]
    PROVE  LET h == Voters(votes, Heads)
               t == Voters(votes, Tails)
           IN  {p \in S : ~IsEliminated(votes[p], TallyChoices(votes))}
                   = IF h = {} \/ t = {} \/ Cardinality(h) = Cardinality(t)
                     THEN h \cup t
                     ELSE IF Cardinality(h) < Cardinality(t) THEN h ELSE t
<1> DEFINE h == Voters(votes, Heads)
           t == Voters(votes, Tails)
           left == {p \in S : ~IsEliminated(votes[p], TallyChoices(votes))}
<1>1. /\ h = {p \in S : votes[p] = Heads}
      /\ t = {p \in S : votes[p] = Tails}
      /\ h \cup t = S /\ h \cap t = {}
  BY DEF Voters, Choice, Heads, Tails
<1>2. /\ IsFiniteSet(h) /\ Cardinality(h) \in Nat
      /\ IsFiniteSet(t) /\ Cardinality(t) \in Nat
  <2>1. h \subseteq S /\ t \subseteq S
    BY <1>1
  <2> QED BY <2>1, FS_Subset, FS_CardinalityType
<1>3. /\ h = {} <=> Cardinality(h) = 0
      /\ t = {} <=> Cardinality(t) = 0
  BY <1>2, FS_EmptySet
<1>4. TallyChoices(votes) = [heads |-> Cardinality(h), tails |-> Cardinality(t)]
  BY DEF TallyChoices
<1> DEFINE side == SurvivingChoice([heads |-> Cardinality(h),
                                    tails |-> Cardinality(t)])
<1>5. left = {p \in S : side = NoChoice \/ votes[p] = side}
  BY <1>4 DEF IsEliminated
<1> HIDE DEF h, t, left
<1>6. CASE h = {} \/ t = {} \/ Cardinality(h) = Cardinality(t)
  <2>1. left = h \cup t
    <3>1. CASE h = {} /\ t = {}
      BY <1>1, <1>5, <3>1
    <3>2. CASE h # {} /\ t = {}
      <4>1. side = Heads
        BY <1>2, <1>3, <3>2 DEF SurvivingChoice
      <4> QED BY <1>1, <1>5, <3>2, <4>1
    <3>3. CASE h = {} /\ t # {}
      <4>1. side = Tails
        BY <1>2, <1>3, <3>3 DEF SurvivingChoice
      <4> QED BY <1>1, <1>5, <3>3, <4>1
    <3>4. CASE h # {} /\ t # {}
      <4>1. side = NoChoice
        BY <1>2, <1>3, <1>6, <3>4 DEF SurvivingChoice
      <4> QED BY <1>1, <1>5, <4>1
    <3> QED BY <3>1, <3>2, <3>3, <3>4
  <2> QED BY <1>6, <2>1 DEF h, t, left
<1>7. CASE ~(h = {} \/ t = {} \/ Cardinality(h) = Cardinality(t))
  <2>1. side = IF Cardinality(h) < Cardinality(t) THEN Heads ELSE Tails
    BY <1>2, <1>3, <1>7 DEF SurvivingChoice
  <2>2. left = IF Cardinality(h) < Cardinality(t) THEN h ELSE t
    BY <1>1, <1>5, <2>1 DEF Heads, Tails, NoChoice
  <2> QED BY <1>7, <2>2 DEF h, t, left
<1> QED BY <1>6, <1>7

\* The votes resolve_players counts are the choices revealed in the round.
LEMMA VotesAreChoices ==
    ASSUME Sound, NEW r, r = CurrentRound
    PROVE  /\ Votes(r) \in [Revealers(r) -> Choice]
           /\ \A c \in Choice :
                  Voters(Votes(r), c) =
                      {p \in alive : \E e \in choices :
                           e.player = p /\ e.round = r /\ e.choice = c}
<1>1. /\ choices \subseteq ChoiceEntry /\ alive \subseteq Players
      /\ \A e, f \in choices : e.player = f.player => e = f
  BY DEF Sound, TypeOK, EntriesOfTheRound
<1>2. Revealers(r) = {p \in alive : Revealed(p, r)}
  BY ActiveAreAlive DEF Sound, Revealers
<1>3. ASSUME NEW p \in Players, NEW e \in choices, e.player = p, e.round = r
      PROVE  ChoiceOf(p, r) = e.choice /\ e.choice \in Choice
  <2>1. e = [player |-> p, round |-> r, choice |-> e.choice] /\ e.choice \in Choice
    BY <1>1, <1>3 DEF ChoiceEntry
  <2> DEFINE c == ChoiceOf(p, r)
  <2>2. c \in Choice /\ [player |-> p, round |-> r, choice |-> c] \in choices
    BY <2>1 DEF ChoiceOf
  <2>3. [player |-> p, round |-> r, choice |-> c] = e
    BY <1>1, <1>3, <2>2
  <2> QED BY <2>1, <2>2, <2>3
<1>4. \A p \in Revealers(r) : ChoiceOf(p, r) \in Choice
  BY <1>1, <1>2, <1>3 DEF Revealed
<1>5. ASSUME NEW c \in Choice
      PROVE  Voters(Votes(r), c) =
                 {p \in alive : \E e \in choices :
                      e.player = p /\ e.round = r /\ e.choice = c}
  <2>1. Voters(Votes(r), c) = {p \in Revealers(r) : ChoiceOf(p, r) = c}
    BY DEF Voters, Votes
  <2> QED BY <1>1, <1>2, <1>3, <2>1 DEF Revealed
<1> QED BY <1>4, <1>5 DEF Votes

\* A resolved round keeps the minority of those who revealed: stated on the
\* sides themselves, proved of the code's tally, for any number of players.
THEOREM MinorityAlwaysSurvives == Spec => MinoritySurvives
<1> DEFINE Side(c) == {p \in alive : \E e \in choices :
                           /\ e.player = p
                           /\ e.round = roundCount'
                           /\ e.choice = c}
           Kept == LET h == Side(Heads)
                       t == Side(Tails)
                   IN IF h = {} \/ t = {} \/ Cardinality(h) = Cardinality(t)
                      THEN h \cup t
                      ELSE IF Cardinality(h) < Cardinality(t) THEN h ELSE t
           A == roundCount' # roundCount => alive' = Kept
<1>1. ASSUME Sound, NEW a \in VaultAnswers, ResolveRound(a) PROVE A
  <2> DEFINE r == CurrentRound
             votes == Votes(r)
  <2>1. roundCount' = r /\ alive' = Survivors(r)
    BY <1>1, ResolveLeavesSurvivors DEF ResolveRound, Sound
  <2>2. /\ votes \in [Revealers(r) -> Choice]
        /\ Side(Heads) = Voters(votes, Heads)
        /\ Side(Tails) = Voters(votes, Tails)
    BY <1>1, <2>1, VotesAreChoices DEF Choice
  <2>3. IsFiniteSet(Revealers(r))
    <3>1. Revealers(r) \in SUBSET Players
      BY <1>1 DEF Revealers, ActivePlayers, Sound, TypeOK
    <3> QED BY <3>1, PlayerSetsCount
  <2>4. Survivors(r) = {p \in Revealers(r) :
                            ~IsEliminated(votes[p], TallyChoices(votes))}
    BY DEF Survivors
  <2> HIDE DEF votes, r, Side
  <2> QED BY <2>1, <2>2, <2>3, <2>4, MinorityRule
<1>2. ASSUME Sound, [Next]_vars PROVE A
  <2>1. CASE Quiet
    BY <2>1 DEF Quiet
  <2>2. ASSUME NEW p \in Players, Join(p) PROVE A
    BY <2>2 DEF Join
  <2>3. ASSUME NEW p \in Players, NEW c \in Commitment, SubmitCommitment(p, c)
        PROVE  A
    BY <2>3 DEF SubmitCommitment, config
  <2>4. ASSUME NEW p \in Players, NEW c \in Choice, RevealChoice(p, c) PROVE A
    BY <2>4 DEF RevealChoice, config
  <2>5. ASSUME NEW d \in Durations, NEW a \in VaultAnswers, StartRound(d, a)
        PROVE  A
    BY <2>5 DEF StartRound
  <2>6. ASSUME NEW a \in VaultAmounts, CancelArena(a) \/ ExpireArena(a) PROVE A
    BY <2>6 DEF CancelArena, ExpireArena
  <2>7. ASSUME NEW a \in VaultAnswers, ForceCancelArena(a) PROVE A
    BY <2>7 DEF ForceCancelArena
  <2>8. ASSUME NEW p \in Players, NEW a \in VaultAnswers, Claim(p, a) PROVE A
    BY <2>8 DEF Claim
  <2>9. ASSUME NEW p \in Players, ClaimRefund(p) PROVE A
    BY <2>9 DEF ClaimRefund, config
  <2> HIDE DEF A
  <2> QED
    BY <1>1, <1>2, StepCases, <2>1, <2>2, <2>3, <2>4, <2>5, <2>6, <2>7, <2>8,
       <2>9
<1>3. Sound /\ [Next]_vars => [A]_vars
  BY <1>2
<1> QED BY <1>3, ArenaIsSound, PTL DEF Spec, MinoritySurvives

-----------------------------------------------------------------------------
\* The limits and the pause

\* The limits in force were validated, by initialize or by the admin's call.
LimitsHold == minPlayers >= MinPlayersToStart

LEMMA LimitsStep ==
    ASSUME LimitsHold, [Next]_vars PROVE LimitsHold'
<1> USE DEF LimitsHold
<1>1. ASSUME NEW l \in LimitChoices, ConfigurePlayerLimits(l) PROVE LimitsHold'
  BY <1>1 DEF ConfigurePlayerLimits, ValidLimits
<1>2. SettingsNext =>
          UNCHANGED minPlayers \/ \E l \in LimitChoices : ConfigurePlayerLimits(l)
  BY DEF SettingsNext, ProposeAdmin, AcceptAdmin, Pause, Unpause, SetPaused,
     BanPlayer, UnbanPlayer, SetBanned, ConfigureLeaderboardLimit, policy, limits
<1>3. PlayNext => UNCHANGED minPlayers
  <2>1. ASSUME NEW p \in Players, Join(p) \/ ClaimRefund(p)
        PROVE  UNCHANGED minPlayers
    BY <2>1 DEF Join, ClaimRefund, policy, limits
  <2>2. ASSUME NEW p \in Players, NEW c \in Commitment, SubmitCommitment(p, c)
        PROVE  UNCHANGED minPlayers
    BY <2>2 DEF SubmitCommitment, policy, limits
  <2>3. ASSUME NEW p \in Players, NEW c \in Choice, RevealChoice(p, c)
        PROVE  UNCHANGED minPlayers
    BY <2>3 DEF RevealChoice, policy, limits
  <2>4. ASSUME NEW p \in Players, NEW a \in VaultAnswers, Claim(p, a)
        PROVE  UNCHANGED minPlayers
    BY <2>4 DEF Claim, policy, limits
  <2>5. ASSUME NEW a \in VaultAmounts, ExpireArena(a) PROVE UNCHANGED minPlayers
    BY <2>5 DEF ExpireArena, limits
  <2> QED BY <2>1, <2>2, <2>3, <2>4, <2>5 DEF PlayNext
<1>4. HostNext => UNCHANGED minPlayers
  <2>1. ASSUME NEW d \in Durations, NEW a \in VaultAnswers, StartRound(d, a)
        PROVE  UNCHANGED minPlayers
    BY <2>1 DEF StartRound, policy, limits
  <2>2. ASSUME NEW a \in VaultAnswers, ResolveRound(a) \/ ForceCancelArena(a)
        PROVE  UNCHANGED minPlayers
    BY <2>2 DEF ResolveRound, ForceCancelArena, limits
  <2>3. ASSUME NEW a \in VaultAmounts, CancelArena(a) PROVE UNCHANGED minPlayers
    BY <2>3 DEF CancelArena, limits
  <2> QED BY <2>1, <2>2, <2>3 DEF HostNext
<1>5. Tick \/ UNCHANGED vars => UNCHANGED minPlayers
  BY DEF Tick, vars, policy, limits
<1> QED BY <1>1, <1>2, <1>3, <1>4, <1>5 DEF Next

LEMMA OpponentsStep ==
    ASSUME Sound, LimitsHold, RoundsNeedOpponents, [Next]_vars
    PROVE  RoundsNeedOpponents'
<1> USE DEF RoundsNeedOpponents
<1>1. ASSUME NEW d \in Durations, NEW a \in VaultAnswers, StartRound(d, a)
      PROVE  RoundsNeedOpponents'
  <2>1. ActivePlayers = alive
    BY ActiveAreAlive DEF Sound
  <2>2. Cardinality(alive) >= minPlayers /\ alive' = alive
    BY <1>1, <2>1 DEF StartRound, roster
  <2>3. Cardinality(alive) \in Nat /\ minPlayers \in Nat
    BY PlayerSetsCount DEF Sound, TypeOK
  <2> QED BY <2>2, <2>3, BoundsAreNaturals DEF LimitsHold
<1>2. \/ \E d \in Durations, a \in VaultAnswers : StartRound(d, a)
      \/ state' # "Active"
      \/ UNCHANGED <<state, alive>>
  <2>1. CASE Quiet
    BY <2>1 DEF Quiet, roster
  <2>2. ASSUME NEW p \in Players, Join(p) PROVE state' # "Active"
    BY <2>2 DEF Join
  <2>3. ASSUME NEW p \in Players, NEW c \in Commitment, SubmitCommitment(p, c)
        PROVE  UNCHANGED <<state, alive>>
    BY <2>3 DEF SubmitCommitment, config, roster
  <2>4. ASSUME NEW p \in Players, NEW c \in Choice, RevealChoice(p, c)
        PROVE  UNCHANGED <<state, alive>>
    BY <2>4 DEF RevealChoice, config, roster
  <2>5. ASSUME NEW a \in VaultAnswers, ResolveRound(a) PROVE state' # "Active"
    BY <2>5 DEF ResolveRound
  <2>6. ASSUME NEW a \in VaultAmounts, CancelArena(a) \/ ExpireArena(a)
        PROVE  state' # "Active"
    BY <2>6 DEF CancelArena, ExpireArena
  <2>7. ASSUME NEW a \in VaultAnswers, ForceCancelArena(a)
        PROVE  state' # "Active"
    BY <2>7 DEF ForceCancelArena
  <2>8. ASSUME NEW p \in Players, NEW a \in VaultAnswers, Claim(p, a)
        PROVE  state' # "Active"
    BY <2>8 DEF Claim
  <2>9. ASSUME NEW p \in Players, ClaimRefund(p)
        PROVE  UNCHANGED <<state, alive>>
    BY <2>9 DEF ClaimRefund, config, roster
  <2> QED
    BY StepCases, <2>1, <2>2, <2>3, <2>4, <2>5, <2>6, <2>7, <2>8, <2>9
<1> QED BY <1>1, <1>2

\* Whatever limits the admin sets between rounds, a round in play has at least
\* MIN_PLAYERS_TO_START players.
THEOREM RoundsHaveOpponents == Spec => []RoundsNeedOpponents
<1>1. Init => LimitsHold /\ RoundsNeedOpponents
  BY DEF Init, ValidLimits, LimitsHold, RoundsNeedOpponents
<1>2. Sound /\ LimitsHold /\ RoundsNeedOpponents /\ [Next]_vars
          => (LimitsHold /\ RoundsNeedOpponents)'
  BY LimitsStep, OpponentsStep
<1> QED BY <1>1, <1>2, ArenaIsSound, PTL DEF Spec

\* Nothing of the game moves while the arena is paused.
THEOREM PausedGameStands == Spec => PauseStopsTheGame
<1> DEFINE A == paused =>
                  /\ UNCHANGED <<roster, round, winner, prizeClaimed,
                                 cumulativeYield, roundCount, commitDeadline,
                                 admin>>
                  /\ state' \in {state, "Cancelled"}
                  /\ paid' # paid => state = "Cancelled"
<1>1. ASSUME [Next]_vars, paused PROVE A
  <2>1. CASE SettingsNext
    <3>1. ASSUME NEW a \in Candidates, ProposeAdmin(a) PROVE FALSE
      BY <1>1, <3>1 DEF ProposeAdmin
    <3>2. ~AcceptAdmin
      BY <1>1 DEF AcceptAdmin
    <3>3. CASE Pause \/ Unpause
      BY <3>3 DEF Pause, Unpause, SetPaused, money, outcome
    <3>4. ASSUME NEW p \in Players, BanPlayer(p) \/ UnbanPlayer(p) PROVE A
      BY <3>4 DEF BanPlayer, UnbanPlayer, SetBanned, config, money, outcome
    <3>5. ASSUME NEW l \in LimitChoices, ConfigurePlayerLimits(l) PROVE A
      BY <3>5 DEF ConfigurePlayerLimits, config, money, outcome
    <3>6. ASSUME NEW n \in LeaderboardLimits, ConfigureLeaderboardLimit(n)
          PROVE  A
      BY <3>6 DEF ConfigureLeaderboardLimit, config, money, outcome
    <3> HIDE DEF A
    <3> QED BY <2>1, <3>1, <3>2, <3>3, <3>4, <3>5, <3>6 DEF SettingsNext
  <2>2. CASE PlayNext
    <3>1. ASSUME NEW p \in Players, Join(p) PROVE FALSE
      BY <1>1, <3>1 DEF Join
    <3>2. ASSUME NEW p \in Players, NEW c \in Commitment, SubmitCommitment(p, c)
          PROVE  FALSE
      BY <1>1, <3>2 DEF SubmitCommitment
    <3>3. ASSUME NEW p \in Players, NEW c \in Choice, RevealChoice(p, c)
          PROVE  FALSE
      BY <1>1, <3>3 DEF RevealChoice
    <3>4. ASSUME NEW p \in Players, NEW a \in VaultAnswers, Claim(p, a)
          PROVE  FALSE
      BY <1>1, <3>4 DEF Claim
    <3>5. ASSUME NEW a \in VaultAmounts, ExpireArena(a) PROVE FALSE
      BY <1>1, <3>5 DEF ExpireArena
    <3>6. ASSUME NEW p \in Players, ClaimRefund(p) PROVE A
      BY <3>6 DEF ClaimRefund, config
    <3> HIDE DEF A
    <3> QED BY <2>2, <3>1, <3>2, <3>3, <3>4, <3>5, <3>6 DEF PlayNext
  <2>3. CASE HostNext
    <3>1. ASSUME NEW d \in Durations, NEW a \in VaultAnswers, StartRound(d, a)
          PROVE  FALSE
      BY <1>1, <3>1 DEF StartRound
    <3>2. ASSUME NEW a \in VaultAnswers, ResolveRound(a) PROVE FALSE
      BY <1>1, <3>2 DEF ResolveRound
    <3>3. ASSUME NEW a \in VaultAmounts, CancelArena(a) PROVE FALSE
      BY <1>1, <3>3 DEF CancelArena
    <3>4. ASSUME NEW a \in VaultAnswers, ForceCancelArena(a) PROVE A
      BY <3>4 DEF ForceCancelArena, outcome
    <3> HIDE DEF A
    <3> QED BY <2>3, <3>1, <3>2, <3>3, <3>4 DEF HostNext
  <2>4. CASE Tick \/ UNCHANGED vars
    BY <2>4 DEF Tick, vars, config, money, outcome
  <2> HIDE DEF A
  <2> QED BY <1>1, <2>1, <2>2, <2>3, <2>4 DEF Next
<1>2. [Next]_vars => [A]_vars
  BY <1>1
<1> QED BY <1>2, PTL DEF Spec, PauseStopsTheGame

-----------------------------------------------------------------------------
\* The contract implements the game

\* The moves of the abstract game, and what it sees of the contract.
GameStep == [Game!Next]_(Game!gameVars)
View == <<state, alive, joined, winner, prizeClaimed, paid>>

\* The abstract game counts players with the operator of its own instance.
LEMMA SameCount == \A S : Game!Cardinality(S) = Cardinality(S)
BY Zenon DEF Cardinality, Game!Cardinality

\* Nothing is paid out before the game is cancelled or over.
LEMMA NothingPaidInPlay ==
    ASSUME Sound, \/ state \in {"Open", "Active"}
                  \/ state = "Finished" /\ winner # None
    PROVE  PaidOut = {}
BY DEF Sound, PaidOnce, WinnerIsSoleSurvivor, PaidOut

LEMMA UnseenSteps == ASSUME UNCHANGED View PROVE GameStep
BY DEF View, GameStep, PaidOut, Game!gameVars

LEMMA JoinIsEnter ==
    ASSUME Sound, NEW p \in Players, Join(p) PROVE Game!Enter(p)
BY DEF Sound, RosterConsistent, Join, outcome, PaidOut, Game!Enter

LEMMA StartIsBegin ==
    ASSUME Sound, LimitsHold, NEW d \in Durations, NEW a \in VaultAnswers,
           StartRound(d, a)
    PROVE  Game!Begin
<1>1. ActivePlayers = alive /\ Cardinality(alive) \in Nat
  BY ActiveAreAlive, PlayerSetsCount DEF Sound, TypeOK
<1>2. Cardinality(alive) >= minPlayers /\ minPlayers >= 2
  <2>1. Cardinality(alive) >= minPlayers
    BY <1>1 DEF StartRound
  <2>2. minPlayers >= 2
    BY BoundsAreNaturals, OpponentsNeeded DEF Sound, TypeOK, LimitsHold
  <2> QED BY <2>1, <2>2
<1>3. Cardinality(alive) >= 2
  BY <1>1, <1>2 DEF Sound, TypeOK
<1> QED
  <2>1. /\ state = "Open" /\ state' = "Active"
        /\ UNCHANGED <<alive, joined, winner, prizeClaimed, paid>>
    BY DEF StartRound, roster, outcome
  <2> QED BY <1>3, <2>1, SameCount DEF PaidOut, Game!Begin

LEMMA ResolveIsEnd ==
    ASSUME Sound, NEW a \in VaultAnswers, ResolveRound(a)
    PROVE  \E left \in SUBSET alive : Game!End(left)
<1> DEFINE left == Survivors(CurrentRound)
<1>1. alive' = left /\ left \subseteq alive /\ left \subseteq Players
  BY ResolveLeavesSurvivors, SurvivorsWereActive DEF Sound, TypeOK
<1>2. joined' = joined /\ alive \subseteq joined
  BY DEF Sound, RosterConsistent, ResolveRound
<1>3. UNCHANGED PaidOut
  <2>1. UNCHANGED <<paid, prizeClaimed>> /\ ~prizeClaimed
    BY DEF ResolveRound, Sound, WinnerIsSoleSurvivor
  <2> QED BY <2>1 DEF PaidOut
<1>4. state = "Active" /\ winner = None
  BY DEF ResolveRound, Sound, WinnerIsSoleSurvivor
<1>5. /\ state' = IF Cardinality(left) <= 1 THEN "Finished" ELSE "Open"
      /\ winner' = IF Cardinality(left) = 1 THEN CHOOSE p \in left : TRUE
                                            ELSE winner
  BY DEF ResolveRound
<1>6. winner' \in left \cup {None} /\ (winner' # None <=> left = {winner'})
  <2>1. None \notin left
    BY <1>1, NoneIsNoValue DEF Addresses
  <2>2. CASE Cardinality(left) = 1
    <3>1. PICK p : left = {p}
      BY <1>1, <2>2, PlayerSetsCount, FS_Singleton
    <3> HIDE DEF left
    <3> QED BY <1>5, <2>1, <2>2, <3>1
  <2>3. CASE Cardinality(left) # 1
    <3>1. left # {None}
      BY <2>1
    <3>2. winner' = None
      BY <1>4, <1>5, <2>3
    <3>3. left # {winner'}
      BY <3>1, <3>2
    <3> QED BY <3>2, <3>3
  <2> QED BY <2>2, <2>3
<1>7. (joined \ alive)' = (joined \ alive) \cup (alive \ left)
  BY <1>1, <1>2
<1> HIDE DEF left
<1>8. Game!End(left)
  BY <1>1, <1>3, <1>4, <1>5, <1>6, <1>7, SameCount DEF Game!End
<1> QED BY <1>1, <1>8

LEMMA ExpireIsAbandon ==
    ASSUME Sound, NEW a \in VaultAmounts, ExpireArena(a) PROVE Game!Abandon
<1>1. ActivePlayers = alive /\ alive \subseteq Players
  BY ActiveAreAlive DEF Sound, TypeOK
<1>2. state = "Active" /\ ~prizeClaimed
  BY DEF ExpireArena, Sound, WinnerIsSoleSurvivor
<1>3. \A p \in Players : paid[p] = 0
  BY <1>2 DEF Sound, PaidOnce
<1>4. \A p \in Players : paid'[p] # 0 <=> p \in alive
  BY <1>1, <1>3, FeePositive DEF ExpireArena
<1>5. PaidOut' = alive
  BY <1>1, <1>2, <1>4 DEF PaidOut, ExpireArena, outcome
<1> QED
  BY <1>2, <1>5 DEF ExpireArena, roster, outcome, Game!Abandon

LEMMA CancelIsCancel ==
    ASSUME \/ \E a \in VaultAmounts : CancelArena(a)
           \/ \E a \in VaultAnswers : ForceCancelArena(a)
    PROVE  Game!Cancel
BY DEF CancelArena, ForceCancelArena, roster, outcome, PaidOut, Game!Cancel

LEMMA RefundIsRefund ==
    ASSUME Sound, NEW p \in Players, ClaimRefund(p) PROVE Game!Refund(p)
<1>1. /\ state = "Cancelled" /\ p \in joined /\ p \notin refunded
      /\ ~prizeClaimed /\ alive \subseteq joined
  BY DEF ClaimRefund, Sound, WinnerIsSoleSurvivor, RosterConsistent
<1>2. paid[p] = 0
  BY <1>1 DEF Sound, PaidOnce
<1>3. paid' = [paid EXCEPT ![p] = EntryFee] /\ EntryFee # 0
  BY <1>2, FeePositive DEF ClaimRefund, Sound, TypeOK
<1>4. PaidOut' = PaidOut \cup {p} /\ p \notin PaidOut
  BY <1>1, <1>2, <1>3 DEF ClaimRefund, PaidOut, Sound, TypeOK
<1> QED
  BY <1>1, <1>4 DEF ClaimRefund, config, roster, Game!Refund

LEMMA ClaimIsAward ==
    ASSUME Sound, NEW p \in Players, NEW a \in VaultAnswers, Claim(p, a)
    PROVE  Game!Award
<1>1. /\ state = "Finished" /\ winner = p /\ p # None
      /\ prizeClaimed' /\ UNCHANGED winner
  BY NoneIsNoValue DEF Claim, Addresses
<1>2. PaidOut = {}
  BY <1>1, NothingPaidInPlay
<1>3. \A q \in Players : paid[q] = 0
  BY <1>2 DEF PaidOut
<1>4. \A q \in Players : q # p => paid'[q] = 0
  BY <1>3 DEF Claim, Sound, TypeOK
<1>5. PaidOut' = {p}
  BY <1>1, <1>4 DEF PaidOut
<1> QED
  BY <1>1, <1>2, <1>5 DEF Claim, roster, Game!Award

LEMMA StepsAreMoves ==
    ASSUME Sound, LimitsHold, [Next]_vars PROVE GameStep
<1> USE DEF GameStep, Game!Next
<1>1. ASSUME Quiet PROVE GameStep
  BY <1>1, UnseenSteps DEF Quiet, View, roster, outcome, money
<1>2. ASSUME NEW p \in Players, Join(p) PROVE GameStep
  BY <1>2, JoinIsEnter
<1>3. ASSUME NEW p \in Players, NEW c \in Commitment, SubmitCommitment(p, c)
      PROVE  GameStep
  BY <1>3, UnseenSteps
  DEF SubmitCommitment, View, config, roster, outcome, money
<1>4. ASSUME NEW p \in Players, NEW c \in Choice, RevealChoice(p, c)
      PROVE  GameStep
  BY <1>4, UnseenSteps DEF RevealChoice, View, config, roster, outcome, money
<1>5. ASSUME NEW d \in Durations, NEW a \in VaultAnswers, StartRound(d, a)
      PROVE  GameStep
  BY <1>5, StartIsBegin
<1>6. ASSUME NEW a \in VaultAnswers, ResolveRound(a) PROVE GameStep
  BY <1>6, ResolveIsEnd
<1>7. ASSUME \/ \E a \in VaultAmounts : CancelArena(a)
             \/ \E a \in VaultAnswers : ForceCancelArena(a)
      PROVE  GameStep
  BY <1>7, CancelIsCancel
<1>8. ASSUME NEW a \in VaultAmounts, ExpireArena(a) PROVE GameStep
  BY <1>8, ExpireIsAbandon
<1>9. ASSUME NEW p \in Players, NEW a \in VaultAnswers, Claim(p, a)
      PROVE  GameStep
  BY <1>9, ClaimIsAward
<1>10. ASSUME NEW p \in Players, ClaimRefund(p) PROVE GameStep
  BY <1>10, RefundIsRefund
<1> QED
  BY StepCases, <1>1, <1>2, <1>3, <1>4, <1>5, <1>6, <1>7, <1>8, <1>9, <1>10

\* Whatever the players, the admin, the clock and the vault do, the contract
\* plays the abstract game: every call is one of its moves or leaves it alone.
THEOREM ArenaImplementsGame == Spec => ImplementsGame
<1>1. Init => Game!Init /\ LimitsHold
  <2>1. Init => Game!Init
    BY DEF Init, PaidOut, Game!Init
  <2>2. Init => LimitsHold
    BY DEF Init, ValidLimits, LimitsHold
  <2> QED BY <2>1, <2>2
<1>2. LimitsHold /\ [Next]_vars => LimitsHold'
  BY LimitsStep
<1>3. Sound /\ LimitsHold /\ [Next]_vars => [Game!Next]_(Game!gameVars)
  BY StepsAreMoves DEF GameStep
<1> QED
  BY <1>1, <1>2, <1>3, ArenaIsSound, PTL DEF Spec, ImplementsGame, Game!Spec

=============================================================================
