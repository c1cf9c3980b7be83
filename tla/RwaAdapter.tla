----------------------------- MODULE RwaAdapter -----------------------------
(***************************************************************************)
(* The yield vault, contract/rwa-adapter/src: it books a principal for     *)
(* each depositor (an arena), reports it with interest, and pays it out    *)
(* once, from whatever tokens it holds. One action per entry point,        *)
(* enabled when the call returns Ok.                                       *)
(***************************************************************************)
EXTENDS Integers, FiniteSets

CONSTANTS
    Depositors,         \* addresses with a position
    Deposits,           \* amounts passed to deposit
    Liquidity,          \* amounts of tokens sent to the adapter's address
    VaultAdmins,        \* addresses propose_admin may name
    FirstVaultAdmin,    \* the admin initialize stored
    YieldBps,           \* YIELD_BPS_PER_YEAR, of 10000
    SecondsPerYear,     \* SECONDS_PER_YEAR, in the model's clock
    StartTime,          \* the ledger timestamp when the model starts
    LastTime,           \* bound of the model: the last ledger timestamp
    MaxPrincipal,       \* bound of the model: the most one position books
    MaxTokens,          \* bound of the model: the most tokens ever sent
    Nobody              \* no pending admin

ASSUME AdapterConstants ==
    /\ IsFiniteSet(Depositors)
    /\ Deposits \subseteq Int /\ Liquidity \subseteq Nat
    /\ YieldBps \in Nat /\ SecondsPerYear \in Nat \ {0}
    /\ StartTime \in Nat /\ LastTime \in Nat
    /\ MaxPrincipal \in Nat /\ MaxTokens \in Nat

VARIABLES
    clock,              \* the ledger timestamp
    principal,          \* Position(user).principal
    withdrawn,          \* Position(user).withdrawn
    totalDeposited,     \* RWACONFIG.total_deposited
    vaultTokens,        \* the adapter's own token balance
    received,           \* tokens moved from the adapter to each depositor
    vaultAdmin,         \* RWACONFIG.admin
    pendingVaultAdmin   \* PADMIN

books == <<principal, withdrawn, totalDeposited>>
tokens == <<vaultTokens, received>>
vaultRoles == <<vaultAdmin, pendingVaultAdmin>>
adapterVars == <<clock, books, tokens, vaultRoles>>

-----------------------------------------------------------------------------
\* The interest both withdraw_all and balance_of compute. The year's interest is
\* rounded first; the elapsed time is the timestamp itself, less zero.
YieldOf(amount) ==
    (((amount * YieldBps) \div 10000) * clock) \div SecondsPerYear

\* balance_of
BalanceOf(u) ==
    IF withdrawn[u] THEN 0 ELSE principal[u] + YieldOf(principal[u])

\* What withdraw_all accepts, and what it pays: no more than the adapter holds.
CanWithdraw(u) == principal[u] # 0 /\ ~withdrawn[u]
Payable(u) ==
    LET total == principal[u] + YieldOf(principal[u])
    IN  IF total > vaultTokens THEN vaultTokens ELSE total

AdapterInit ==
    /\ clock = StartTime
    /\ principal = [u \in Depositors |-> 0]
    /\ withdrawn = [u \in Depositors |-> FALSE]
    /\ totalDeposited = 0
    /\ vaultTokens = 0
    /\ received = [u \in Depositors |-> 0]
    /\ vaultAdmin = FirstVaultAdmin
    /\ pendingVaultAdmin = Nobody

\* deposit: a booking; no token moves, and an earlier withdrawal is not looked at.
Deposit(u, amount) ==
    /\ amount > 0
    /\ principal[u] + amount <= MaxPrincipal
    /\ principal' = [principal EXCEPT ![u] = @ + amount]
    /\ totalDeposited' = totalDeposited + amount
    /\ UNCHANGED <<clock, withdrawn, tokens, vaultRoles>>

\* withdraw_all: closes the position for good, whatever it could pay.
WithdrawAll(u) ==
    /\ CanWithdraw(u)
    /\ principal' = [principal EXCEPT ![u] = 0]
    /\ withdrawn' = [withdrawn EXCEPT ![u] = TRUE]
    /\ totalDeposited' = totalDeposited - principal[u]
    /\ vaultTokens' = vaultTokens - Payable(u)
    /\ received' = [received EXCEPT ![u] = @ + Payable(u)]
    /\ UNCHANGED <<clock, vaultRoles>>

\* Somebody sends tokens to the adapter's address: the only way it gets any.
Fund(amount) ==
    /\ vaultTokens + amount <= MaxTokens
    /\ vaultTokens' = vaultTokens + amount
    /\ UNCHANGED <<clock, books, received, vaultRoles>>

ProposeVaultAdmin(a) ==
    /\ pendingVaultAdmin' = a
    /\ UNCHANGED <<clock, books, tokens, vaultAdmin>>

AcceptVaultAdmin ==
    /\ pendingVaultAdmin # Nobody
    /\ vaultAdmin' = pendingVaultAdmin
    /\ pendingVaultAdmin' = Nobody
    /\ UNCHANGED <<clock, books, tokens>>

\* The ledger's clock.
TimePasses ==
    /\ clock < LastTime
    /\ clock' = clock + 1
    /\ UNCHANGED <<books, tokens, vaultRoles>>

AdapterNext ==
    \/ \E u \in Depositors :
          (\E amount \in Deposits : Deposit(u, amount)) \/ WithdrawAll(u)
    \/ \E amount \in Liquidity : Fund(amount)
    \/ \E a \in VaultAdmins : ProposeVaultAdmin(a)
    \/ AcceptVaultAdmin
    \/ TimePasses

AdapterSpec == AdapterInit /\ [][AdapterNext]_adapterVars

=============================================================================
