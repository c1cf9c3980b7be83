---------------------------- MODULE HostDashboard ----------------------------
(***************************************************************************)
(* What a host does on the dashboard: stake (StakeModal.tsx), then create  *)
(* a pool (PoolCreationModal.tsx), with the transaction dialog over the    *)
(* pool form.  app/dashboard/page.tsx owns which form is open and the      *)
(* "has staked" flag kept in localStorage.                                 *)
(*                                                                         *)
(* A form's figures are in coarse units: what matters is whether they are  *)
(* the ones that were reviewed.  Round speed behaves as capacity does and  *)
(* is left out, and so is the wallet's balance, which Horizon may report   *)
(* as anything at any time: an amount may always be covered.  A pool is    *)
(* not confirmed while a stake is under way that an earlier stake's timer  *)
(* has closed the dialog of.                                               *)
(***************************************************************************)
EXTENDS WebTransactions

CONSTANTS Stakes,       \* stake amounts the host types; 0 is no amount
          MinStake,     \* pool-schema.ts
          MinCapacity, MaxCapacity,
          DefaultForm   \* stake 100, 50 players, USDC

ASSUME FormAssumption ==
    /\ Stakes \subseteq Nat /\ MinStake \in Nat \ {0}
    /\ DefaultForm \in [stake : Stakes, capacity : MinCapacity .. MaxCapacity,
                        currency : {"USDC", "XLM"}]

VARIABLE host   \* the dashboard: the forms and the stored flag

hostVars == <<webVars, modal, host>>

HostInit ==
    /\ WebInit
    /\ modal = ModalStart
    /\ host \in [staked : BOOLEAN, poolOpen : {FALSE}, form : {DefaultForm},
                 stakeOpen : {FALSE}, stakeState : {"idle"}, closing : {FALSE}]

-----------------------------------------------------------------------------
(* The dashboard                                                           *)

CreateArena ==
    /\ ~host.poolOpen /\ ~host.stakeOpen /\ ~modal.open
    /\ host' = IF host.staked THEN [host EXCEPT !.poolOpen = TRUE]
               ELSE [host EXCEPT !.stakeOpen = TRUE]
    /\ UNCHANGED <<webVars, modal>>

-----------------------------------------------------------------------------
(* StakeModal                                                              *)

\* One fixed amount; a processing or finished dialog has its button disabled.
InitiateStake ==
    /\ host.stakeOpen /\ host.stakeState \in {"idle", "error"}
    /\ host' = [host EXCEPT !.stakeState = "signing"]
    /\ op' = [Idle EXCEPT !.step = "asked", !.kind = "STAKE"]
    /\ UNCHANGED <<chain, network, stored, lastSalt, modal>>

\* Simulated for its footprint before it is signed.
BuildStake ==
    /\ op.step = "asked" /\ op.kind = "STAKE"
    /\ Goto("loading") \/ Fail("SIMULATION_FAILED")
    /\ UNCHANGED <<chain, network, stored, lastSalt, modal, host>>

Staked ==
    /\ op.step = "confirmed" /\ op.kind = "STAKE"
    /\ host' = [host EXCEPT !.stakeState = "success", !.closing = TRUE]
    /\ op' = Idle
    /\ UNCHANGED <<chain, network, stored, lastSalt, modal>>

StakeFailed ==
    /\ op.step = "failed" /\ op.kind = "STAKE"
    /\ host' = [host EXCEPT !.stakeState = "error"]
    /\ op' = Idle
    /\ UNCHANGED <<chain, network, stored, lastSalt, modal>>

CloseStake ==
    /\ host.stakeOpen /\ host.stakeState # "signing"
    /\ host' = [host EXCEPT !.stakeOpen = FALSE, !.stakeState = "idle"]
    /\ UNCHANGED <<webVars, modal>>

\* The 1.5 s timer of a success, which closing the dialog does not cancel:
\* it closes whatever stake dialog is open by then and opens the pool form.
StakeTimer ==
    /\ host.closing
    /\ host' = [host EXCEPT !.closing = FALSE, !.staked = TRUE, !.stakeOpen = FALSE,
                            !.stakeState = "idle", !.poolOpen = TRUE]
    /\ UNCHANGED <<webVars, modal>>

-----------------------------------------------------------------------------
(* PoolCreationModal                                                       *)

\* poolSchema and validateForm.
FormValid(form) ==
    /\ form.stake >= MinStake
    /\ form.capacity \in MinCapacity .. MaxCapacity

Edit ==
    /\ host.poolOpen /\ ~modal.open
    /\ \/ \E s \in Stakes : host' = [host EXCEPT !.form.stake = s]
       \/ \E c \in {"USDC", "XLM"} : host' = [host EXCEPT !.form.currency = c]
       \/ /\ host.form.capacity > MinCapacity
          /\ host' = [host EXCEPT !.form.capacity = @ - 1]
       \/ /\ host.form.capacity < MaxCapacity
          /\ host' = [host EXCEPT !.form.capacity = @ + 1]
    /\ UNCHANGED <<webVars, modal>>

\* "Initialize Arena": the details under review are the form's figures.
InitializeArena ==
    /\ host.poolOpen /\ FormValid(host.form)
    /\ Review("CREATE", host.form)
    /\ UNCHANGED <<webVars, host>>

\* Mutant: the stake stays, too.
ResetCapacity == [host.form EXCEPT !.capacity = DefaultForm.capacity]

\* What a closed form is reset to; the currency stays.
Reset == [DefaultForm EXCEPT !.currency = host.form.currency]

\* The close button or the overlay, or Escape, which the form hears under the
\* dialog as well: while the dialog is SIGNING only the form closes.
ClosePool ==
    /\ host.poolOpen /\ ~modal.open
    /\ host' = [host EXCEPT !.poolOpen = FALSE, !.form = Reset]
    /\ UNCHANGED <<webVars, modal>>

Escape ==
    /\ host.poolOpen /\ modal.open
    /\ host' = [host EXCEPT !.poolOpen = FALSE, !.form = Reset]
    /\ modal' = IF modal.state = "SIGNING" THEN modal ELSE ModalStart
    /\ UNCHANGED webVars

ConfirmPool == Confirm(FALSE, 0, host.form) /\ UNCHANGED host

\* CreatePoolParamsSchema, then the contract call; nothing is simulated.
BuildCreate ==
    /\ op.step = "asked" /\ op.kind = "CREATE"
    /\ IF op.body.stake > 0 THEN Goto("loading") ELSE Fail("VALIDATION_FAILED")
    /\ UNCHANGED <<chain, network, stored, lastSalt, modal, host>>

Created ==
    /\ op.step = "confirmed" /\ op.kind = "CREATE"
    /\ op' = Idle
    /\ modal' = ModalStart
    /\ host' = [host EXCEPT !.poolOpen = FALSE, !.form = Reset]
    /\ UNCHANGED <<chain, network, stored, lastSalt>>

HostNext ==
    \/ (\E i \in DOMAIN network : Land(i)) /\ UNCHANGED <<modal, host>>
    \/ (LoadAccount \/ Reject \/ Send \/ Poll) /\ UNCHANGED <<modal, host>>
    \/ (CloseModal \/ TryAgain) /\ UNCHANGED host
    \/ Failed /\ op.kind = "CREATE" /\ UNCHANGED host
    \/ CreateArena
    \/ InitiateStake \/ BuildStake \/ Staked \/ StakeFailed \/ CloseStake \/ StakeTimer
    \/ Edit \/ InitializeArena \/ ClosePool \/ Escape \/ ConfirmPool \/ BuildCreate \/ Created

HostSpec == HostInit /\ [][HostNext]_hostVars

-----------------------------------------------------------------------------
(* Properties *)

\* The figures a confirmation builds are the ones under review, or those of a
\* form that was closed behind the dialog: never figures typed for another
\* attempt (PoolCreationModal.tsx onConfirm reads the form, the dialog shows
\* txDetails).
ReviewedIsBuilt ==
    op.kind = "CREATE" /\ op.step # "failed" =>
        op.body \in {modal.details, [DefaultForm EXCEPT !.currency = modal.details.currency]}
=============================================================================
