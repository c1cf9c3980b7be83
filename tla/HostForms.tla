------------------------------ MODULE HostForms ------------------------------
(***************************************************************************)
(* The two forms of a host as they are filled in: PoolCreationModal.tsx    *)
(* with its validation by effects, and StakeModal.tsx.  Each has a hook    *)
(* useWallet of its own, so each is connected by itself.  What their       *)
(* transactions do is HostDashboard's.  Amounts are counted in the         *)
(* smallest unit of XLM.                                                   *)
(***************************************************************************)
EXTENDS Integers, FiniteSets

CONSTANTS
    Typed,          \* what may be typed; a negative number has a minus sign in front
    NoAmount,       \* what holds no number: nothing, or a lone point
    Cent,           \* units in the last decimal place of USDC
    LeastStake,     \* MIN_STAKE
    UsualStake,     \* "100", in the form of a pool
    UsualAmount,    \* "5000.00", in the form of a stake
    Balances,       \* what Horizon reports
    MostSteps       \* steps of ten from MIN_CAPACITY to MAX_CAPACITY

ASSUME HostFormsAssumption ==
    /\ Typed \subseteq Int \cup {NoAmount} /\ Balances \subseteq Nat
    /\ Cent \in Nat \ {0} /\ LeastStake \in Nat \ {0} /\ MostSteps \in Nat \ {0}
    /\ {UsualStake, UsualAmount} \subseteq Nat /\ UsualStake % Cent = 0 /\ NoAmount \notin Int

VARIABLES
    pool,           \* PoolCreationModal
    stake           \* StakeModal

formVars == <<pool, stake>>

Currencies == {"USDC", "XLM"}
Speeds == {"30S", "1M", "5M"}
UsualCapacity == 1      \* 50 players, in steps above the minimum

NoWallet == [connected |-> FALSE, loading |-> FALSE, balance |-> [c \in Currencies |-> 0]]

FormsInit ==
    /\ pool = [open |-> FALSE, wallet |-> NoWallet, amount |-> UsualStake, currency |-> "USDC",
               speed |-> "1M", capacity |-> UsualCapacity, valid |-> FALSE, error |-> "none",
               focus |-> "input"]
    /\ \E configured \in BOOLEAN :
         stake = [open |-> FALSE, wallet |-> NoWallet, amount |-> UsualAmount, state |-> "idle",
                  configured |-> configured, error |-> FALSE]

-----------------------------------------------------------------------------
(* What is typed                                                           *)

\* sanitizeNumericInput drops the minus sign, formatCurrencyInput cuts the decimals
\* the currency does not have.
Sanitized(a) == IF a = NoAmount \/ a >= 0 THEN a ELSE -a
Formatted(a, c) ==
    IF a = NoAmount \/ c = "XLM" THEN a ELSE a - (a % Cent)

-----------------------------------------------------------------------------
(* PoolCreationModal: validation                                           *)

\* Without a wallet there is no maximum; with one it is 0 until the balance is read.
Affordable(p, a) == ~p.wallet.connected \/ a <= p.wallet.balance[p.currency]

StakeError(p) ==
    CASE p.amount = NoAmount \/ p.amount = 0 -> "not positive"
      [] p.amount # NoAmount /\ p.amount \in 1..(LeastStake - 1) -> "below minimum"
      [] p.amount # NoAmount /\ ~Affordable(p, p.amount) -> "insufficient balance"
      [] OTHER -> "none"

CapacityError(p) == p.capacity \notin 0..MostSteps

\* The effect: an error that is still on the screen from before takes the focus.
Validated(p) ==
    [p EXCEPT !.error = StakeError(p),
              !.valid = StakeError(p) = "none" /\ ~CapacityError(p),
              !.focus = IF StakeError(p) # "none" /\ p.open /\ pool.error # "none"
                        THEN "error" ELSE @]

\* What validateForm is made of; a change of it runs the effect.
Depends(p) == <<p.amount, p.currency, p.speed, p.capacity, p.wallet.connected, p.wallet.balance>>

FormRendered(p) == IF Depends(p) = Depends(pool) THEN p ELSE Validated(p)

-----------------------------------------------------------------------------
(* PoolCreationModal: events                                               *)

TypeStake ==
    /\ pool.open
    /\ \E a \in Typed :
         pool' = FormRendered([pool EXCEPT !.amount = Formatted(Sanitized(a), pool.currency),
                                       !.focus = "input"])
    /\ UNCHANGED stake

\* The amount is cut to the currency's decimals, and not restored by going back.
PickCurrency ==
    /\ pool.open
    /\ \E c \in Currencies :
         pool' = FormRendered([pool EXCEPT !.currency = c, !.amount = Formatted(@, c)])
    /\ UNCHANGED stake

\* The buttons of the capacity are disabled at its bounds.
PickRound ==
    /\ pool.open
    /\ \/ \E s \in Speeds : pool' = FormRendered([pool EXCEPT !.speed = s])
       \/ pool.capacity > 0 /\ pool' = FormRendered([pool EXCEPT !.capacity = @ - 1])
       \/ pool.capacity < MostSteps /\ pool' = FormRendered([pool EXCEPT !.capacity = @ + 1])
    /\ UNCHANGED stake

OpenForm ==
    /\ ~pool.open
    /\ pool' = [pool EXCEPT !.open = TRUE, !.focus = "input"]
    /\ UNCHANGED stake

\* The reset calls the form invalid. Only if it changed a figure is the form then
\* validated: closed as it was opened, it is invalid when it is opened again, and
\* asks for errors to be corrected that it does not show.
CloseForm ==
    /\ pool.open
    /\ pool' = FormRendered([pool EXCEPT !.open = FALSE, !.amount = UsualStake, !.speed = "1M",
                                     !.capacity = UsualCapacity, !.valid = FALSE, !.error = "none"])
    /\ UNCHANGED stake

\* What a wallet's hook reports: found or connected, then its balance, again and again.
WalletMoves(w) ==
    IF ~w.connected THEN {[w EXCEPT !.connected = TRUE, !.loading = TRUE]}
    ELSE {[w EXCEPT !.balance = b, !.loading = FALSE] : b \in [Currencies -> Balances]}

\* A balance is a new object even when it is the same, and validates again.
PoolWallet ==
    /\ \E w \in WalletMoves(pool.wallet) : pool' = Validated([pool EXCEPT !.wallet = w])
    /\ UNCHANGED stake

-----------------------------------------------------------------------------
(* PoolCreationModal: what is shown                                        *)

When(condition, parts) == IF condition THEN parts ELSE {}

\* The main button connects, or opens the transaction's review; it never says
\* "Deploying", which nothing sets.
MainButton ==
    IF ~pool.wallet.connected THEN "connect"
    ELSE IF pool.valid THEN "initialize" ELSE "disabled"

PoolShown ==
    When(pool.wallet.connected, IF pool.wallet.loading THEN {"loading balance"} ELSE {"balance"})
    \cup When(pool.error # "none", {"stake error"})
    \cup When(CapacityError(pool), {"capacity error"})
    \cup When(pool.wallet.connected /\ pool.valid, {"fee and total cost"})
    \cup When(MainButton = "disabled", {"please correct the errors above"})

\* stakeAmount * arenaCapacity, of an amount that may not be a number.
TotalPotentialPool(players) == IF pool.amount = NoAmount THEN 0 ELSE pool.amount * players

-----------------------------------------------------------------------------
(* StakeModal                                                              *)

Processing == stake.state \in {"signing", "submitting"}
AmountCovered ==
    stake.amount # NoAmount /\ stake.amount > 0 /\ stake.amount <= stake.wallet.balance["XLM"]

\* isButtonDisabled: with it, the checks of handleInitiateStake never fail.
StakeDisabled ==
    \/ Processing \/ stake.state = "success"
    \/ stake.wallet.connected /\ ~AmountCovered
    \/ ~stake.configured

StakeShown ==
    (IF stake.wallet.loading THEN {"loading"} ELSE {"balance"})
    \cup When(~stake.configured, {"not configured"})
    \cup When(stake.state = "success", {"stake successful"})
    \cup When(stake.state = "error" /\ stake.error, {"error"})
    \cup {IF ~stake.wallet.connected THEN "connect wallet"
          ELSE CASE stake.state = "signing" -> "signing..."
                 [] stake.state = "submitting" -> "submitting..."
                 [] stake.state = "success" -> "staked"
                 [] OTHER -> "initiate stake"}

OpenStakeForm ==
    /\ ~stake.open
    /\ stake' = [stake EXCEPT !.open = TRUE]
    /\ UNCHANGED pool

\* Cancel and the backdrop are dead while a stake is under way; what was typed stays.
CloseStakeForm ==
    /\ stake.open /\ ~Processing
    /\ stake' = [stake EXCEPT !.open = FALSE, !.state = "idle", !.error = FALSE]
    /\ UNCHANGED pool

\* Typing takes an error back.
TypeAmount ==
    /\ stake.open /\ ~Processing /\ stake.wallet.connected
    /\ \E a \in Typed :
         stake' = [stake EXCEPT !.amount = Sanitized(a),
                       !.state = IF @ = "error" THEN "idle" ELSE @,
                       !.error = IF stake.state = "error" THEN FALSE ELSE @]
    /\ UNCHANGED pool

StakeWallet ==
    /\ \E w \in WalletMoves(stake.wallet) : stake' = [stake EXCEPT !.wallet = w]
    /\ UNCHANGED pool

PressStake ==
    /\ stake.open /\ ~StakeDisabled /\ stake.wallet.connected
    /\ stake' = [stake EXCEPT !.state = "signing"]
    /\ UNCHANGED pool

\* Signed, then submitted; each may fail, and a failure has a message.
StakeProceeds ==
    /\ Processing
    /\ \/ stake' = [stake EXCEPT !.state = IF @ = "signing" THEN "submitting" ELSE "success"]
       \/ stake' = [stake EXCEPT !.state = "error", !.error = TRUE]
    /\ UNCHANGED pool

PoolFormNext ==
    \/ TypeStake \/ PickCurrency \/ PickRound \/ OpenForm \/ CloseForm \/ PoolWallet

StakeFormNext ==
    \/ OpenStakeForm \/ CloseStakeForm \/ TypeAmount \/ StakeWallet \/ PressStake \/ StakeProceeds
=============================================================================
