------------------------------ MODULE ArenaPage ------------------------------
(***************************************************************************)
(* The live arena page (app/arena/page.tsx) in one browser tab: what it    *)
(* believes of the round, fed by the event stream, its own clock and the   *)
(* contract's state, and the transaction modal over it.  Stream, clock and *)
(* contract are not synchronised with each other.  Left out as display     *)
(* only: `commitTimeExpired' and the figures beside the buttons; and       *)
(* `isRoundResolved' and `hasWon', which a snapshot can set at any time.   *)
(***************************************************************************)
EXTENDS WebTransactions

VARIABLE page   \* the page's React state

pageVars == <<webVars, page, modal>>

PageStart == [round |-> 1, phase |-> "commit", hasCommitted |-> stored[1] # None, chosen |-> FALSE,
              joined |-> FALSE, wallet |-> FALSE]

PageInit ==
    /\ WebInit
    /\ page = PageStart
    /\ modal = ModalStart

-----------------------------------------------------------------------------
(* What the page learns                                                    *)

\* A change of round opens its commit phase and reads localStorage anew.
WithRound(p, r) ==
    IF r = p.round THEN p
    ELSE [p EXCEPT !.round = r, !.phase = "commit", !.chosen = FALSE,
                   !.hasCommitted = stored[r] # None]

\* A snapshot of the event stream: of this round or the one before.
Snapshot ==
    /\ \E r \in {chain.round, chain.round - 1} \cap Rounds : page' = WithRound(page, r)
    /\ UNCHANGED <<webVars, modal>>

\* updateArenaState, when the contract answers; its failure is only logged.
Read(p) == WithRound([p EXCEPT !.joined = ArenaState.isUserIn], ArenaState.round)

\* The wallet is found or connected and the state asked for.
Connect ==
    /\ ~page.wallet
    /\ \E p \in {page, Read(page)} : page' = [p EXCEPT !.wallet = TRUE]
    /\ UNCHANGED <<webVars, modal>>

\* The local timer, which knows nothing of the contract's deadlines.
TimeUp ==
    /\ page.phase = "commit"
    /\ page' = [page EXCEPT !.phase = "reveal"]
    /\ UNCHANGED <<webVars, modal>>

Reload ==
    /\ page' = PageStart
    /\ modal' = ModalStart
    /\ op' = Idle
    /\ UNCHANGED <<chain, network, stored, lastSalt>>

-----------------------------------------------------------------------------
(* What the player clicks                                                  *)

Choose ==
    /\ page.phase = "commit" /\ ~modal.open
    /\ page' = [page EXCEPT !.chosen = TRUE]
    /\ UNCHANGED <<webVars, modal>>

\* "Proceed" on the overlay of a resolved round counts the round up by itself.
Proceed ==
    /\ chain.round > 0 /\ page.round <= MaxRounds
    /\ page' = WithRound(page, page.round + 1)
    /\ UNCHANGED <<webVars, modal>>

\* The buttons that are shown. A snapshot with at most one survivor sets hasWon: once
\* the game is over, and before it starts, when a claim is refused.
Offered(kind) ==
    CASE kind = "JOIN"   -> page.wallet /\ ~page.joined
      [] kind = "COMMIT" -> page.chosen /\ page.joined /\ page.phase = "commit"
      [] kind = "REVEAL" -> page.joined /\ page.phase = "reveal" /\ page.hasCommitted
      [] kind = "CLAIM"  -> chain.phase = "over"

OpenModal(kind) ==
    /\ Offered(kind)
    /\ Review(kind, None)
    /\ UNCHANGED <<webVars, page>>

\* Without a wallet, or with a choice that a change of round has taken back,
\* onConfirm builds nothing.
NothingToDo == ~page.wallet \/ (modal.kind = "COMMIT" /\ ~page.chosen)

\* The round is captured for the transactions that are about one.
ConfirmOnPage ==
    /\ Confirm(NothingToDo, IF modal.kind \in {"COMMIT", "REVEAL"} THEN page.round ELSE 0, None)
    /\ UNCHANGED page

-----------------------------------------------------------------------------
(* How onConfirm ends                                                      *)

\* Mutant: the salt of the round shown now is removed.
AfterConfirmationShown ==
    /\ op.step = "confirmed"
    /\ stored' = IF op.kind = "REVEAL" THEN [stored EXCEPT ![page.round] = None] ELSE stored
    /\ page' = CASE op.kind = "COMMIT" -> [page EXCEPT !.hasCommitted = TRUE]
                 [] op.kind = "REVEAL" -> [page EXCEPT !.hasCommitted = FALSE]
                 [] OTHER -> page
    /\ Goto("refreshing")
    /\ UNCHANGED <<chain, network, lastSalt, modal>>

\* The flags are set for the round the page shows now, the salt is removed
\* for the round captured at the click.
AfterConfirmation ==
    /\ op.step = "confirmed"
    /\ stored' = IF op.kind = "REVEAL" THEN [stored EXCEPT ![op.round] = None] ELSE stored
    /\ page' = CASE op.kind = "COMMIT" -> [page EXCEPT !.hasCommitted = TRUE]
                 [] op.kind = "REVEAL" -> [page EXCEPT !.hasCommitted = FALSE]
                 [] OTHER -> page
    /\ Goto("refreshing")
    /\ UNCHANGED <<chain, network, lastSalt, modal>>

\* The page closes the modal before success is reported to it.
Refreshed ==
    /\ op.step = "refreshing"
    /\ page' \in {page, Read(page)}
    /\ modal' = ModalStart
    /\ op' = Idle
    /\ UNCHANGED <<chain, network, stored, lastSalt>>

PageNext ==
    \/ WebNext /\ UNCHANGED <<page, modal>>
    \/ ModalNext /\ UNCHANGED page
    \/ Snapshot \/ Connect \/ TimeUp \/ Reload
    \/ Choose \/ Proceed \/ ConfirmOnPage
    \/ \E kind \in {"JOIN", "COMMIT", "REVEAL", "CLAIM"} : OpenModal(kind)
    \/ AfterConfirmation \/ Refreshed

PageSpec == PageInit /\ [][PageNext]_pageVars

-----------------------------------------------------------------------------
(* Properties *)

\* A salt has no second copy: once kept for a round it may only give way to
\* that of another commitment for the round, or go after its reveal has
\* succeeded, whatever is cancelled, times out or is reloaded in between
\* (commit-reveal.ts clearCommitment, page.tsx onConfirm).
SaltKeptUntilRevealed ==
    [][\A r \in Rounds : stored[r] # None /\ stored'[r] # stored[r] =>
          \/ stored'[r] = lastSalt + 1
          \/ \E i \in DOMAIN network :
                network[i].kind = "REVEAL" /\ network[i].body = stored[r]
                /\ network[i].status = "SUCCESS"]_pageVars

\* What the page's dialog reports as failed cannot succeed later: what is only
\* unknown after the last poll, or was never answered, is reported as such
\* (submitSignedTransaction).  A transaction without a time bound is left out:
\* asked for again it is answered DUPLICATE, see FailedMeansFailed.
PageFailedMeansFailed == modal.kind \notin Endless => FailedMeansFailed

\* A commitment stored on this device for the round is one that can be revealed
\* (hasStoredCommitmentForRound): when the contract awaits the player's reveal, it
\* is the commitment the contract holds.  "LOCK IN" stays on offer after a commit
\* has landed, and a second one replaces the salt even if it is never sent.
StoredIsRevealable ==
    chain.phase = "reveal" /\ chain.active /\ chain.committed # None /\ ~chain.revealed =>
        stored[chain.round] \in {chain.committed, None}
=============================================================================
