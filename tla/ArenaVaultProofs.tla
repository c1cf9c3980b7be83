-------------------------- MODULE ArenaVaultProofs --------------------------
(***************************************************************************)
(* Proofs about the arena on the real adapter: for every set of players,   *)
(* fee, rate of interest, clock, other deposits and liquidity.             *)
(***************************************************************************)
EXTENDS ArenaVault, ArenaProofs

USE DEF MayJoin, EndEarly, Expired, RefundDue, Baseline

-----------------------------------------------------------------------------
\* Arithmetic of the interest

LEMMA TimesMonotone ==
    ASSUME NEW a \in Nat, NEW b \in Nat, NEW c \in Nat, a <= b
    PROVE  a * c <= b * c /\ a * c \in Nat /\ b * c \in Nat
<1>1. PICK d \in Nat : b = a + d
  <2>1. b - a \in Nat /\ b = a + (b - a)
    OBVIOUS
  <2> QED BY <2>1
<1>2. b * c = a * c + d * c /\ d * c >= 0
  BY <1>1
<1> QED BY <1>2

LEMMA DivMonotone ==
    ASSUME NEW a \in Nat, NEW b \in Nat, NEW d \in Nat \ {0}, a <= b
    PROVE  a \div d <= b \div d /\ a \div d \in Nat /\ b \div d \in Nat
OBVIOUS

\* A larger principal, or a later timestamp, never has less interest.
Interest(amount, time) ==
    (((amount * YieldBps) \div 10000) * time) \div SecondsPerYear

LEMMA InterestMonotone ==
    ASSUME NEW a \in Nat, NEW b \in Nat, NEW s \in Nat, NEW t \in Nat,
           a <= b, s <= t
    PROVE  Interest(a, s) \in Nat /\ Interest(b, t) \in Nat
               /\ Interest(a, s) <= Interest(b, t)
<1> DEFINE yearly(n) == (n * YieldBps) \div 10000
<1>1. yearly(a) \in Nat /\ yearly(b) \in Nat /\ yearly(a) <= yearly(b)
  <2>1. /\ a * YieldBps <= b * YieldBps
        /\ a * YieldBps \in Nat /\ b * YieldBps \in Nat
    BY TimesMonotone, VaultConstants
  <2> QED BY <2>1, DivMonotone
<1> HIDE DEF yearly
<1>2. yearly(a) * s <= yearly(b) * t /\ yearly(a) * s \in Nat /\ yearly(b) * t \in Nat
  <2>1. yearly(a) * s <= yearly(b) * s /\ yearly(a) * s \in Nat
    BY <1>1, TimesMonotone
  <2>2. s * yearly(b) <= t * yearly(b) /\ t * yearly(b) \in Nat
    BY <1>1, TimesMonotone
  <2>3. s * yearly(b) = yearly(b) * s /\ t * yearly(b) = yearly(b) * t
    BY <1>1
  <2> QED BY <1>1, <2>1, <2>2, <2>3
<1>3. /\ (yearly(a) * s) \div SecondsPerYear \in Nat
      /\ (yearly(b) * t) \div SecondsPerYear \in Nat
      /\ (yearly(a) * s) \div SecondsPerYear <= (yearly(b) * t) \div SecondsPerYear
  BY <1>2, DivMonotone, VaultConstants
<1> QED BY <1>3 DEF Interest, yearly

-----------------------------------------------------------------------------
\* The invariant

\* The types the books need, of both contracts.
VaultTypeOK ==
    /\ now \in Nat /\ players \in Seq(Players) /\ playerCount = Len(players)
    /\ lastVaultBalance \in Nat /\ cumulativeYield \in Nat
    /\ principal \in [{ThisArena, OtherArena} -> Nat]
    /\ withdrawn \in [{ThisArena, OtherArena} -> BOOLEAN]

\* After its one withdrawal the arena takes no more fees.
WithdrawnIsOver ==
    withdrawn[ThisArena] => state \in {"Finished", "Cancelled", "Settled"}

\* Until then the yield counted so far is at least covered by the balance last
\* seen, and that by what the vault says now.
YieldIsBooked ==
    ~withdrawn[ThisArena] =>
        /\ EntryFee * playerCount + cumulativeYield <= lastVaultBalance
        /\ lastVaultBalance <= Vault!BalanceOf(ThisArena)

VaultSound ==
    VaultTypeOK /\ PositionMatchesRoster /\ WithdrawnIsOver /\ YieldIsBooked

LEMMA BalanceIsInterest ==
    ASSUME VaultTypeOK
    PROVE  /\ Vault!BalanceOf(ThisArena) =
                  IF withdrawn[ThisArena] THEN 0
                  ELSE principal[ThisArena]
                           + Interest(principal[ThisArena], StartTime + now)
           /\ Vault!BalanceOf(ThisArena) \in Nat
<1>1. principal[ThisArena] \in Nat /\ StartTime + now \in Nat
  BY VaultConstants DEF VaultTypeOK
<1>2. Interest(principal[ThisArena], StartTime + now) \in Nat
  <2>1. \A n \in Nat : n <= n
    OBVIOUS
  <2> QED BY <1>1, <2>1, InterestMonotone
<1>3. Vault!BalanceOf(ThisArena) =
          IF withdrawn[ThisArena] THEN 0
          ELSE principal[ThisArena]
                   + Interest(principal[ThisArena], StartTime + now)
  BY DEF Vault!BalanceOf, Vault!YieldOf, Interest
<1> QED BY <1>1, <1>2, <1>3

LEMMA VaultSoundInit == VaultInit => VaultSound
<1> SUFFICES ASSUME VaultInit PROVE VaultSound
  OBVIOUS
<1>1. VaultTypeOK /\ playerCount = 0 /\ cumulativeYield = 0 /\ lastVaultBalance = 0
      /\ principal[ThisArena] = 0 /\ ~withdrawn[ThisArena]
  BY DEF VaultInit, Init, Vault!AdapterInit, VaultTypeOK
<1>2. PositionMatchesRoster /\ WithdrawnIsOver
  BY <1>1, FeePositive DEF PositionMatchesRoster, WithdrawnIsOver
<1>3. YieldIsBooked
  BY <1>1, BalanceIsInterest, FeePositive DEF YieldIsBooked
<1> QED BY <1>1, <1>2, <1>3 DEF VaultSound

-----------------------------------------------------------------------------
\* The steps

Accounts == <<players, playerCount, lastVaultBalance, cumulativeYield>>

LEMMA JoinStep ==
    ASSUME VaultSound, NEW p \in Players, JoinAndDeposit(p)
    PROVE  VaultSound'
<1> DEFINE m == principal[ThisArena]
           t == StartTime + now
<1>1. /\ Join(p) /\ Vault!Deposit(ThisArena, EntryFee)
      /\ state = "Open" /\ ~withdrawn[ThisArena]
  BY DEF JoinAndDeposit, Join, VaultSound, WithdrawnIsOver
<1>2. /\ playerCount' = playerCount + 1
      /\ lastVaultBalance' = lastVaultBalance + EntryFee
      /\ UNCHANGED <<now, cumulativeYield, state, withdrawn>>
      /\ principal' = [principal EXCEPT ![ThisArena] = @ + EntryFee]
      /\ players' \in Seq(Players) /\ playerCount' = Len(players')
  BY <1>1 DEF VaultSound, VaultTypeOK, Join, Vault!Deposit
<1>3. m \in Nat /\ t \in Nat /\ EntryFee \in Nat /\ m + EntryFee \in Nat
  BY FeePositive, VaultConstants DEF VaultSound, VaultTypeOK
<1>4. VaultTypeOK'
  BY <1>2, <1>3 DEF VaultSound, VaultTypeOK
<1>5. /\ principal'[ThisArena] = m + EntryFee /\ ~withdrawn'[ThisArena]
      /\ (StartTime + now)' = t
  BY <1>1, <1>2 DEF VaultSound, VaultTypeOK
<1>6. EntryFee * playerCount' = EntryFee * playerCount + EntryFee
      /\ EntryFee * playerCount \in Nat
  BY <1>2, <1>3 DEF VaultSound, VaultTypeOK
<1>7. PositionMatchesRoster'
  BY <1>1, <1>5, <1>6 DEF VaultSound, PositionMatchesRoster
<1>8. YieldIsBooked'
  <2>1. /\ Interest(m, t) \in Nat /\ Interest(m + EntryFee, t) \in Nat
        /\ Interest(m, t) <= Interest(m + EntryFee, t)
    <3>1. m <= m + EntryFee /\ t <= t
      BY <1>3
    <3> HIDE DEF m, t
    <3> QED BY <1>3, <3>1, InterestMonotone
  <2>2. /\ Vault!BalanceOf(ThisArena) = m + Interest(m, t)
    BY <1>1, BalanceIsInterest DEF VaultSound
  <2>3. (Vault!BalanceOf(ThisArena))' = m + EntryFee + Interest(m + EntryFee, t)
    BY <1>2, <1>5 DEF Vault!BalanceOf, Vault!YieldOf, Interest
  <2>4. /\ EntryFee * playerCount + cumulativeYield <= lastVaultBalance
        /\ lastVaultBalance <= m + Interest(m, t)
    BY <1>1, <2>2 DEF VaultSound, YieldIsBooked
  <2>5. lastVaultBalance \in Nat /\ cumulativeYield \in Nat
    BY DEF VaultSound, VaultTypeOK
  <2>6. /\ EntryFee * playerCount' + cumulativeYield' <= lastVaultBalance'
        /\ lastVaultBalance' <= (Vault!BalanceOf(ThisArena))'
    <3> HIDE DEF m, t
    <3> QED BY <1>2, <1>3, <1>6, <2>1, <2>3, <2>4, <2>5
  <2> QED BY <2>6 DEF YieldIsBooked
<1> QED
  BY <1>1, <1>2, <1>4, <1>7, <1>8 DEF VaultSound, WithdrawnIsOver

\* A round starts and ends on what the adapter reports.
LEMMA RoundStep ==
    ASSUME VaultSound, \/ \E duration \in Durations : StartOnBalance(duration)
                       \/ ResolveOnBalance
    PROVE  VaultSound'
<1> DEFINE balance == Vault!BalanceOf(ThisArena)
<1>1. state \in {"Open", "Active"} /\ ~withdrawn[ThisArena]
  BY DEF StartOnBalance, ResolveOnBalance, StartRound, ResolveRound,
         VaultSound, WithdrawnIsOver
<1>2. balance \in Nat /\ balance # None
  BY BalanceIsInterest, NoneIsNoValue DEF VaultSound
<1>3. /\ UNCHANGED <<now, players, playerCount, principal, withdrawn>>
  BY DEF StartOnBalance, ResolveOnBalance, StartRound, ResolveRound, vaultVars,
         roster
<1>4. /\ EntryFee * playerCount + cumulativeYield <= lastVaultBalance
      /\ lastVaultBalance <= balance
  BY <1>1 DEF VaultSound, YieldIsBooked
<1>5. /\ lastVaultBalance' = balance
      /\ \/ cumulativeYield' = cumulativeYield
         \/ cumulativeYield' = cumulativeYield + (balance - lastVaultBalance)
  <2> HIDE DEF balance
  <2>1. ASSUME NEW duration \in Durations, StartRound(duration, balance)
        PROVE  lastVaultBalance' = balance /\ cumulativeYield' = cumulativeYield
    BY <1>2, <2>1 DEF StartRound
  <2>2. ASSUME ResolveRound(balance)
        PROVE  /\ lastVaultBalance' = balance
               /\ cumulativeYield' =
                      cumulativeYield + (balance - lastVaultBalance)
    BY <1>2, <1>4, <2>2 DEF ResolveRound, VaultSound, VaultTypeOK
  <2> QED
    BY <2>1, <2>2 DEF StartOnBalance, ResolveOnBalance, balance
<1>6. EntryFee * playerCount \in Nat
  BY FeePositive DEF VaultSound, VaultTypeOK
<1>7. cumulativeYield' \in Nat
      /\ EntryFee * playerCount + cumulativeYield' <= lastVaultBalance'
  <2> HIDE DEF balance
  <2> QED BY <1>2, <1>4, <1>5, <1>6 DEF VaultSound, VaultTypeOK
<1>8. VaultTypeOK'
  BY <1>2, <1>3, <1>5, <1>7 DEF VaultSound, VaultTypeOK
<1>9. balance' = balance
  BY <1>3 DEF Vault!BalanceOf, Vault!YieldOf
<1>10. YieldIsBooked'
  <2> HIDE DEF balance
  <2>1. balance <= balance
    BY <1>2
  <2> QED BY <1>3, <1>5, <1>7, <1>9, <2>1 DEF YieldIsBooked, balance
<1> QED
  BY <1>1, <1>3, <1>8, <1>10
  DEF VaultSound, PositionMatchesRoster, WithdrawnIsOver

\* The four calls that withdraw end the game, and close the position if there
\* is one to close.
Withdrawing ==
    \/ CancelAndWithdraw \/ ExpireAndWithdraw \/ ForceCancelAndWithdraw
    \/ \E p \in Players : ClaimAndWithdraw(p)

LEMMA WithdrawStep ==
    ASSUME VaultSound, Withdrawing PROVE VaultSound'
<1>1. /\ state' \in {"Finished", "Cancelled", "Settled"}
      /\ UNCHANGED <<now, Accounts>>
      /\ \/ Vault!WithdrawAll(ThisArena)
         \/ UNCHANGED <<principal, withdrawn>>
  <2>1. CASE CancelAndWithdraw
    BY <2>1 DEF CancelAndWithdraw, CancelArena, Accounts, roster, vaultVars
  <2>2. CASE ExpireAndWithdraw
    BY <2>2 DEF ExpireAndWithdraw, ExpireArena, Accounts, roster
  <2>3. CASE ForceCancelAndWithdraw
    BY <2>3 DEF ForceCancelAndWithdraw, ForceCancelArena, Accounts, roster,
                vaultVars
  <2>4. ASSUME NEW p \in Players, ClaimAndWithdraw(p)
        PROVE  /\ state' \in {"Finished", "Cancelled", "Settled"}
               /\ UNCHANGED <<now, Accounts>>
               /\ \/ Vault!WithdrawAll(ThisArena)
                  \/ UNCHANGED <<principal, withdrawn>>
    BY <2>4 DEF ClaimAndWithdraw, Claim, Accounts, roster, vaultVars
  <2> QED BY <2>1, <2>2, <2>3, <2>4 DEF Withdrawing
<1>2. CASE Vault!WithdrawAll(ThisArena)
  <2>1. /\ principal' = [principal EXCEPT ![ThisArena] = 0]
        /\ withdrawn' = [withdrawn EXCEPT ![ThisArena] = TRUE]
    BY <1>2 DEF Vault!WithdrawAll
  <2>2. VaultTypeOK'
    BY <1>1, <2>1 DEF VaultSound, VaultTypeOK, Accounts
  <2>3. principal'[ThisArena] = 0 /\ withdrawn'[ThisArena]
    BY <2>1 DEF VaultSound, VaultTypeOK
  <2> QED
    BY <1>1, <2>2, <2>3
    DEF VaultSound, PositionMatchesRoster, WithdrawnIsOver, YieldIsBooked
<1>3. CASE UNCHANGED <<principal, withdrawn>>
  BY <1>1, <1>3
  DEF VaultSound, VaultTypeOK, PositionMatchesRoster, WithdrawnIsOver,
      YieldIsBooked, Accounts, Vault!BalanceOf, Vault!YieldOf
<1> QED BY <1>1, <1>2, <1>3

\* What leaves the game's accounts and this arena's position alone, while the
\* clock may move on.
LEMMA OtherStep ==
    ASSUME VaultSound, ArenaOnly \/ VaultOnly PROVE VaultSound'
<1>1. /\ UNCHANGED <<Accounts, state>>
      /\ now' \in Nat /\ now <= now'
  <2>1. now \in Nat
    BY DEF VaultSound, VaultTypeOK
  <2>2. ASSUME NEW p \in Players, NEW c \in Choice, SubmitCommitment(p, c)
        PROVE  UNCHANGED <<Accounts, state, now>>
    BY <2>2 DEF SubmitCommitment, Accounts, config, roster, money
  <2>3. ASSUME NEW p \in Players, NEW c \in Choice, RevealChoice(p, c)
        PROVE  UNCHANGED <<Accounts, state, now>>
    BY <2>3 DEF RevealChoice, Accounts, config, roster, money
  <2>4. ASSUME NEW p \in Players, ClaimRefund(p)
        PROVE  UNCHANGED <<Accounts, state, now>>
    BY <2>4 DEF ClaimRefund, Accounts, config, roster
  <2>5. CASE Tick
    BY <2>1, <2>5 DEF Tick, Accounts, config, roster, money
  <2>6. CASE VaultOnly
    BY <2>1, <2>6 DEF VaultOnly, vars, Accounts, config, roster, money
  <2>7. CASE UNCHANGED <<Accounts, state, now>>
    BY <2>1, <2>7
  <2> QED BY <2>2, <2>3, <2>4, <2>5, <2>6, <2>7 DEF ArenaOnly
<1>2. /\ principal' \in [{ThisArena, OtherArena} -> Nat]
      /\ withdrawn' \in [{ThisArena, OtherArena} -> BOOLEAN]
      /\ principal'[ThisArena] = principal[ThisArena]
      /\ withdrawn'[ThisArena] = withdrawn[ThisArena]
  <2> USE TwoArenas DEF VaultSound, VaultTypeOK
  <2>1. CASE ArenaOnly
    BY <2>1 DEF ArenaOnly, vaultVars
  <2>2. ASSUME NEW amount \in OtherDeposits, Vault!Deposit(OtherArena, amount)
        PROVE  <1>2!1 /\ <1>2!2 /\ <1>2!3 /\ <1>2!4
    BY <2>2, VaultConstants DEF Vault!Deposit
  <2>3. CASE Vault!WithdrawAll(OtherArena)
    BY <2>3 DEF Vault!WithdrawAll
  <2>4. ASSUME NEW amount \in Liquidity, Vault!Fund(amount)
        PROVE  UNCHANGED <<principal, withdrawn>>
    BY <2>4 DEF Vault!Fund, Vault!books
  <2> QED BY <2>1, <2>2, <2>3, <2>4 DEF VaultOnly
<1>3. VaultTypeOK'
  BY <1>1, <1>2 DEF VaultSound, VaultTypeOK, Accounts
<1>4. PositionMatchesRoster' /\ WithdrawnIsOver'
  BY <1>1, <1>2
  DEF VaultSound, PositionMatchesRoster, WithdrawnIsOver, Accounts
<1>5. YieldIsBooked'
  <2> DEFINE m == principal[ThisArena]
             s == StartTime + now
             t == StartTime + now'
  <2> SUFFICES ASSUME ~withdrawn[ThisArena]
               PROVE  lastVaultBalance <= (Vault!BalanceOf(ThisArena))'
    BY <1>1, <1>2 DEF VaultSound, YieldIsBooked, Accounts
  <2>1. /\ lastVaultBalance <= m + Interest(m, s)
        /\ lastVaultBalance \in Nat /\ m \in Nat /\ s \in Nat /\ t \in Nat
        /\ m <= m /\ s <= t
    <3>1. Vault!BalanceOf(ThisArena) = m + Interest(m, s)
      BY BalanceIsInterest DEF VaultSound
    <3>2. /\ lastVaultBalance \in Nat /\ m \in Nat /\ now \in Nat
          /\ now' \in Nat /\ now <= now' /\ StartTime \in Nat
      BY <1>1, VaultConstants DEF VaultSound, VaultTypeOK
    <3>3. lastVaultBalance <= Vault!BalanceOf(ThisArena)
      BY DEF VaultSound, YieldIsBooked
    <3>4. m <= m
      BY <3>2
    <3>5. s \in Nat /\ t \in Nat /\ s <= t
      <4>1. \A a, b, c \in Nat : b <= c => /\ a + b \in Nat /\ a + c \in Nat
                                          /\ a + b <= a + c
        OBVIOUS
      <4> QED BY <3>2, <4>1, Zenon
    <3> HIDE DEF m, s, t
    <3> QED BY <3>1, <3>2, <3>3, <3>4, <3>5
  <2>2. (Vault!BalanceOf(ThisArena))' = m + Interest(m, t)
    BY <1>2 DEF Vault!BalanceOf, Vault!YieldOf, Interest
  <2> HIDE DEF m, s, t
  <2>3. Interest(m, s) <= Interest(m, t)
        /\ Interest(m, s) \in Nat /\ Interest(m, t) \in Nat
    BY <2>1, InterestMonotone
  <2> QED BY <2>1, <2>2, <2>3
<1> QED BY <1>3, <1>4, <1>5 DEF VaultSound

LEMMA VaultSoundStep == VaultSound /\ [VaultNext]_composed => VaultSound'
<1> SUFFICES ASSUME VaultSound, [VaultNext]_composed PROVE VaultSound'
  OBVIOUS
<1>1. CASE UNCHANGED composed
  BY <1>1
  DEF composed, vars, vaultVars, config, roster, money, VaultSound, VaultTypeOK,
      PositionMatchesRoster, WithdrawnIsOver, YieldIsBooked, Vault!BalanceOf,
      Vault!YieldOf
<1>2. CASE VaultNext
  BY <1>2, JoinStep, RoundStep, WithdrawStep, OtherStep
  DEF VaultNext, Withdrawing
<1> QED BY <1>1, <1>2

LEMMA VaultStaysSound == VaultSpec => []VaultSound
BY VaultSoundInit, VaultSoundStep, PTL DEF VaultSpec

-----------------------------------------------------------------------------
\* The theorems

\* However the arena's calls, the other arena's and the clock interleave, the
\* position the adapter books is a fee per player until it is withdrawn, once,
\* and no fee is booked after that.
THEOREM PositionAlwaysMatches == VaultSpec => []PositionMatchesRoster
<1>1. VaultSound => PositionMatchesRoster
  BY DEF VaultSound
<1> QED BY <1>1, VaultStaysSound, PTL

\* The arena never counts on more than the adapter says it owes it, whatever
\* rate of interest, rounding, clock and order of joins and rounds.
THEOREM PayoutAlwaysBooked == VaultSpec => []PayoutWithinVaultBalance
<1>1. ASSUME VaultSound PROVE PayoutWithinVaultBalance
  <2>1. /\ EntryFee * playerCount \in Nat /\ cumulativeYield \in Nat
        /\ lastVaultBalance \in Nat /\ Vault!BalanceOf(ThisArena) \in Nat
    BY FeePositive, BalanceIsInterest, <1>1 DEF VaultSound, VaultTypeOK
  <2> QED
    BY <1>1, <2>1 DEF VaultSound, YieldIsBooked, PayoutWithinVaultBalance, Payout
<1>2. VaultSound => PayoutWithinVaultBalance
  BY <1>1
<1> QED BY <1>2, VaultStaysSound, PTL

-----------------------------------------------------------------------------
\* The adapter is a vault

\* The vault's tokens are never overdrawn, so it answers with natural numbers.
TokensOK == vaultTokens \in Nat

LEMMA PayableIsNat ==
    ASSUME VaultSound, TokensOK, NEW u \in {ThisArena, OtherArena}
    PROVE  Vault!Payable(u) \in Nat /\ Vault!Payable(u) <= vaultTokens
<1> DEFINE m == principal[u]
           t == StartTime + now
<1>1. m \in Nat /\ t \in Nat /\ m <= m /\ t <= t
  BY VaultConstants DEF VaultSound, VaultTypeOK
<1>2. Vault!Payable(u) = IF m + Interest(m, t) > vaultTokens
                         THEN vaultTokens ELSE m + Interest(m, t)
  BY DEF Vault!Payable, Vault!YieldOf, Interest
<1> HIDE DEF m, t
<1>3. Interest(m, t) \in Nat
  BY <1>1, InterestMonotone
<1> QED BY <1>1, <1>2, <1>3 DEF TokensOK

LEMMA TokensStep ==
    ASSUME VaultSound, TokensOK, [VaultNext]_composed PROVE TokensOK'
<1>1. ASSUME NEW u \in {ThisArena, OtherArena}, Vault!WithdrawAll(u)
      PROVE  TokensOK'
  <2>1. vaultTokens' = vaultTokens - Vault!Payable(u)
    BY <1>1 DEF Vault!WithdrawAll
  <2> QED BY <2>1, PayableIsNat DEF TokensOK
<1>2. ASSUME NEW amount \in Liquidity, Vault!Fund(amount) PROVE TokensOK'
  BY <1>2, VaultConstants DEF Vault!Fund, TokensOK
<1>3. ASSUME NEW u, NEW amount, Vault!Deposit(u, amount) PROVE TokensOK'
  BY <1>3 DEF Vault!Deposit, Vault!tokens, TokensOK
<1>4. CASE UNCHANGED vaultVars
  BY <1>4 DEF vaultVars, TokensOK
<1>5. CASE VaultOnly
  BY <1>1, <1>2, <1>3, <1>5 DEF VaultOnly
<1>6. CASE Withdrawing
  BY <1>1, <1>4, <1>6
  DEF Withdrawing, CancelAndWithdraw, ExpireAndWithdraw, ForceCancelAndWithdraw,
      ClaimAndWithdraw
<1>7. ASSUME NEW p \in Players, JoinAndDeposit(p) PROVE TokensOK'
  BY <1>3, <1>7 DEF JoinAndDeposit
<1>8. CASE \/ \E duration \in Durations : StartOnBalance(duration)
           \/ ResolveOnBalance \/ ArenaOnly
  BY <1>4, <1>8 DEF StartOnBalance, ResolveOnBalance, ArenaOnly
<1>9. CASE UNCHANGED composed
  BY <1>4, <1>9 DEF composed
<1> QED
  BY <1>5, <1>6, <1>7, <1>8, <1>9 DEF VaultNext, Withdrawing

LEMMA ComposedStepIsArenaStep ==
    ASSUME Nat \subseteq VaultAmounts,
           VaultSound, TokensOK, [VaultNext]_composed
    PROVE  [Next]_vars
<1>1. /\ Vault!Payable(ThisArena) \in VaultAmounts
      /\ Vault!BalanceOf(ThisArena) \in VaultAmounts
      /\ 0 \in VaultAmounts
  BY PayableIsNat, BalanceIsInterest DEF VaultSound
<1>2. /\ Vault!Payable(ThisArena) \in VaultAnswers
      /\ Vault!BalanceOf(ThisArena) \in VaultAnswers
      /\ None \in VaultAnswers
  BY <1>1 DEF VaultAnswers
<1>3. ASSUME NEW p \in Players, JoinAndDeposit(p) PROVE PlayNext
  BY <1>3 DEF JoinAndDeposit, PlayNext
<1>4. ASSUME NEW p \in Players, ClaimAndWithdraw(p) PROVE PlayNext
  BY <1>2, <1>4 DEF ClaimAndWithdraw, PlayNext
<1>5. ASSUME NEW duration \in Durations, StartOnBalance(duration)
      PROVE  HostNext
  BY <1>2, <1>5 DEF StartOnBalance, HostNext
<1>6. ResolveOnBalance => HostNext
  BY <1>2 DEF ResolveOnBalance, HostNext
<1>7. CancelAndWithdraw => HostNext
  BY <1>1 DEF CancelAndWithdraw, HostNext
<1>8. ExpireAndWithdraw => PlayNext
  BY <1>1 DEF ExpireAndWithdraw, PlayNext
<1>9. ForceCancelAndWithdraw => HostNext
  BY <1>2 DEF ForceCancelAndWithdraw, HostNext
<1>10. ArenaOnly => PlayNext \/ Tick
  BY DEF ArenaOnly, PlayNext, Commitment
<1>11. VaultOnly \/ UNCHANGED composed => UNCHANGED vars
  BY DEF VaultOnly, composed
<1> QED
  BY <1>3, <1>4, <1>5, <1>6, <1>7, <1>8, <1>9, <1>10, <1>11 DEF VaultNext, Next

\* The arena on the adapter is one of the arenas Arena describes, whose vault may
\* answer any amount: all that is proved of Spec holds of the two contracts
\* together. (VaultAmounts plays no part in VaultSpec.)
THEOREM AdapterIsAVault ==
    ASSUME Nat \subseteq VaultAmounts PROVE VaultSpec => Spec
<1>1. VaultInit => Init /\ TokensOK
  BY DEF VaultInit, Vault!AdapterInit, TokensOK
<1>2. VaultSound /\ TokensOK /\ [VaultNext]_composed => TokensOK' /\ [Next]_vars
  BY TokensStep, ComposedStepIsArenaStep
<1> QED BY <1>1, <1>2, VaultStaysSound, PTL DEF VaultSpec, Spec

=============================================================================
