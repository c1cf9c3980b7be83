----------------------------- MODULE ArenaVault -----------------------------
(***************************************************************************)
(* The arena with the adapter as its yield vault: each call the arena      *)
(* makes is a step of both contracts, in one transaction, and the vault's  *)
(* answers are the adapter's. Another arena shares the adapter, and with   *)
(* it the tokens the adapter can pay out.                                  *)
(***************************************************************************)
EXTENDS Arena

CONSTANTS
    ThisArena, OtherArena,  \* their addresses, the adapter's depositors
    OtherDeposits, Liquidity, YieldBps, SecondsPerYear, StartTime,
    MaxPrincipal, MaxTokens

VARIABLES principal, withdrawn, totalDeposited, vaultTokens, received,
          vaultAdmin, pendingVaultAdmin

ASSUME TwoArenas == ThisArena # OtherArena
ASSUME VaultConstants ==
    /\ OtherDeposits \subseteq Int /\ Liquidity \subseteq Nat
    /\ YieldBps \in Nat /\ SecondsPerYear \in Nat \ {0} /\ StartTime \in Nat

\* The adapter's clock is the ledger's, which started StartTime earlier.
Vault == INSTANCE RwaAdapter WITH
            Depositors <- {ThisArena, OtherArena},
            Deposits <- OtherDeposits \cup {EntryFee},
            VaultAdmins <- {},
            FirstVaultAdmin <- Creator,
            LastTime <- StartTime + MaxTime,
            Nobody <- None,
            clock <- StartTime + now

vaultVars == <<principal, withdrawn, totalDeposited, vaultTokens, received,
               vaultAdmin, pendingVaultAdmin>>
composed == <<vars, vaultVars>>

-----------------------------------------------------------------------------
VaultInit == Init /\ Vault!AdapterInit

\* The calls that reach the vault. balance_of never fails; withdraw_all fails
\* with nothing deposited, or after a withdrawal.
JoinAndDeposit(p) == Join(p) /\ Vault!Deposit(ThisArena, EntryFee)

StartOnBalance(duration) ==
    /\ StartRound(duration, Vault!BalanceOf(ThisArena))
    /\ UNCHANGED vaultVars

ResolveOnBalance ==
    /\ ResolveRound(Vault!BalanceOf(ThisArena))
    /\ UNCHANGED vaultVars

CancelAndWithdraw ==
    IF playerCount > 0
    THEN CancelArena(Vault!Payable(ThisArena)) /\ Vault!WithdrawAll(ThisArena)
    ELSE CancelArena(0) /\ UNCHANGED vaultVars

ExpireAndWithdraw ==
    ExpireArena(Vault!Payable(ThisArena)) /\ Vault!WithdrawAll(ThisArena)

ForceCancelAndWithdraw ==
    IF Vault!CanWithdraw(ThisArena)
    THEN /\ ForceCancelArena(Vault!Payable(ThisArena))
         /\ Vault!WithdrawAll(ThisArena)
    ELSE ForceCancelArena(None) /\ UNCHANGED vaultVars

ClaimAndWithdraw(p) ==
    IF Vault!CanWithdraw(ThisArena)
    THEN Claim(p, Vault!Payable(ThisArena)) /\ Vault!WithdrawAll(ThisArena)
    ELSE Claim(p, None) /\ UNCHANGED vaultVars

\* The calls that do not.
ArenaOnly ==
    /\ \/ \E p \in Players :
             \/ \E c \in Choice : SubmitCommitment(p, c) \/ RevealChoice(p, c)
             \/ ClaimRefund(p)
       \/ Tick
    /\ UNCHANGED vaultVars

\* The other arena, and whoever funds the adapter.
VaultOnly ==
    /\ UNCHANGED vars
    /\ \/ \E amount \in OtherDeposits : Vault!Deposit(OtherArena, amount)
       \/ Vault!WithdrawAll(OtherArena)
       \/ \E amount \in Liquidity : Vault!Fund(amount)

VaultNext ==
    \/ \E p \in Players : JoinAndDeposit(p) \/ ClaimAndWithdraw(p)
    \/ \E duration \in Durations : StartOnBalance(duration)
    \/ ResolveOnBalance
    \/ CancelAndWithdraw \/ ExpireAndWithdraw \/ ForceCancelAndWithdraw
    \/ ArenaOnly
    \/ VaultOnly

VaultSpec == VaultInit /\ [][VaultNext]_composed

-----------------------------------------------------------------------------
\* Properties

\* The vault's books and the arena's roster agree: until the one withdrawal the
\* position is a fee per player, after it nothing, and no fee is booked after a
\* withdrawal, where the adapter would never pay it out.
PositionMatchesRoster ==
    principal[ThisArena] =
        IF withdrawn[ThisArena] THEN 0 ELSE EntryFee * playerCount

\* What the arena means to pay its winner never exceeds what the vault says it
\* owes the arena, however joins, rounds and the clock interleave: the yield of
\* a round counts no entry fee as yield.
PayoutWithinVaultBalance ==
    ~withdrawn[ThisArena] => Payout <= Vault!BalanceOf(ThisArena)

=============================================================================
