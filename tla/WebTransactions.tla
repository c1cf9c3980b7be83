-------------------------- MODULE WebTransactions --------------------------
(***************************************************************************)
(* What the web application does with the arena contract for one player:   *)
(* the transaction builders of stellar-transactions.ts, the commitments    *)
(* kept in the browser between commit and reveal (commit-reveal.ts), the   *)
(* wallet's signature, and the submission that polls for a result.         *)
(*                                                                         *)
(* `op' is the one confirm handler a page can have running: the values its *)
(* closure captured at the click and the await it is suspended at.  The    *)
(* arena contract and the network are external and only as precise as the  *)
(* handler can tell: a transaction lands or fails at any time, or never,   *)
(* whatever the browser has been told by then.                             *)
(***************************************************************************)
EXTENDS Naturals, Sequences

CONSTANTS MaxRounds,    \* rounds the game can last
          MaxSalts,     \* commitments the player can make
          MaxSent,      \* transactions the player can send
          MaxPolls,     \* TRANSACTION_CONFIG.MAX_RETRIES
          None

ASSUME WebConstants ==
    /\ MaxRounds \in Nat \ {0}
    /\ None \notin {"JOIN", "COMMIT", "REVEAL", "CLAIM", "CREATE", "STAKE"}

VARIABLES
    chain,      \* the arena contract and the ledger, as far as they concern the player
    network,    \* transactions handed to the network
    stored,     \* localStorage: round -> the salt kept for it
    lastSalt,   \* salts drawn so far; a salt stands for itself and its choice
    op          \* the confirm handler that is running

webVars == <<chain, network, stored, lastSalt, op>>

\* Rounds the page may hold: 0 before the start, one ahead after "Proceed".
Rounds == 0 .. MaxRounds + 1
Salts  == 1 .. MaxSalts

\* `body' is what the operation carries: a salt, or the figures of a form.
Idle == [step |-> "idle", kind |-> None, round |-> 0, body |-> None, seq |-> 0, tx |-> 0,
         polls |-> 0, code |-> None]

\* The page is opened before the game, or by a player in its first round.
ChainStart == [phase |-> "open", round |-> 0, active |-> FALSE, committed |-> None,
               revealed |-> FALSE, won |-> FALSE, seq |-> 0]

WebInit ==
    /\ chain \in {ChainStart,
                  [ChainStart EXCEPT !.phase = "commit", !.round = 1, !.active = TRUE]}
    /\ network = << >>
    /\ stored = [r \in Rounds |-> None]
    /\ lastSalt = 0
    /\ op = Idle

Goto(step) == op' = [op EXCEPT !.step = step]
Failure(code, tx) == [Idle EXCEPT !.step = "failed", !.kind = op.kind, !.code = code, !.tx = tx]
Fail(code) == op' = Failure(code, op.tx)

-----------------------------------------------------------------------------
(* The arena contract and the network.                                     *)

Accepted(tx) ==
    CASE tx.kind = "JOIN"   -> chain.phase = "open" /\ ~chain.active
      [] tx.kind = "COMMIT" -> chain.phase = "commit" /\ chain.active
      [] tx.kind = "REVEAL" -> /\ chain.phase = "reveal" /\ chain.active /\ ~chain.revealed
                               /\ chain.committed = tx.body
      [] tx.kind = "CLAIM"  -> chain.phase = "over" /\ chain.won
      [] OTHER -> TRUE

Executed(tx) ==
    CASE tx.kind = "JOIN"   -> [chain EXCEPT !.active = TRUE]
      [] tx.kind = "COMMIT" -> [chain EXCEPT !.committed = tx.body]
      [] tx.kind = "REVEAL" -> [chain EXCEPT !.revealed = TRUE]
      [] tx.kind = "CLAIM"  -> [chain EXCEPT !.won = FALSE]
      [] OTHER -> chain

\* A ledger includes a transaction whose sequence number is the next one; one
\* whose time bound passes first stays pending for ever, NOT_FOUND to a poll.
Land(i) ==
    /\ network[i].status = "pending" /\ network[i].seq = chain.seq + 1
    /\ network' = [network EXCEPT ![i].status = IF Accepted(network[i]) THEN "SUCCESS" ELSE "FAILED"]
    /\ chain' = [IF Accepted(network[i]) THEN Executed(network[i]) ELSE chain EXCEPT !.seq = @ + 1]
    /\ UNCHANGED <<stored, lastSalt, op>>

NextPhase ==
    /\ \/ /\ chain.phase = "open"
          /\ chain' = [chain EXCEPT !.phase = "commit", !.round = 1]
       \/ /\ chain.phase = "commit"
          /\ chain' = [chain EXCEPT !.phase = "reveal"]
       \/ /\ chain.phase = "reveal" /\ chain.round < MaxRounds
          /\ \E alive \in {FALSE, chain.active /\ chain.revealed} :
                chain' = [chain EXCEPT !.phase = "commit", !.round = @ + 1, !.active = alive,
                                       !.committed = None, !.revealed = FALSE]
       \/ /\ chain.phase = "reveal"
          /\ \E won \in {FALSE, chain.active} :
                chain' = [chain EXCEPT !.phase = "over", !.won = won]
    /\ UNCHANGED <<network, stored, lastSalt, op>>

-----------------------------------------------------------------------------
(* The builders, up to the account's sequence number.                      *)

BuildJoin ==
    /\ op.step = "asked" /\ op.kind = "JOIN"
    /\ Goto("loading")
    /\ UNCHANGED <<chain, network, stored, lastSalt>>

\* Mutant: the salt is stored only when there is none for the round yet.
BuildCommitKeeping ==
    /\ op.step = "asked" /\ op.kind = "COMMIT"
    /\ IF op.round = 0
       THEN Fail("VALIDATION_FAILED") /\ UNCHANGED <<stored, lastSalt>>
       ELSE /\ lastSalt < MaxSalts
            /\ lastSalt' = lastSalt + 1
            /\ stored' = IF stored[op.round] = None
                         THEN [stored EXCEPT ![op.round] = lastSalt'] ELSE stored
            /\ op' = [op EXCEPT !.step = "loading", !.body = lastSalt']
    /\ UNCHANGED <<chain, network>>

\* buildSubmitCommitmentTransaction: the new salt replaces the stored one
\* before the account is loaded, signed or sent.
BuildCommit ==
    /\ op.step = "asked" /\ op.kind = "COMMIT"
    /\ IF op.round = 0
       THEN Fail("VALIDATION_FAILED") /\ UNCHANGED <<stored, lastSalt>>
       ELSE /\ lastSalt < MaxSalts
            /\ lastSalt' = lastSalt + 1
            /\ stored' = [stored EXCEPT ![op.round] = lastSalt']
            /\ op' = [op EXCEPT !.step = "loading", !.body = lastSalt']
    /\ UNCHANGED <<chain, network>>

BuildReveal ==
    /\ op.step = "asked" /\ op.kind = "REVEAL"
    /\ IF stored[op.round] = None
       THEN Fail("VALIDATION_FAILED")
       ELSE op' = [op EXCEPT !.step = "loading", !.body = stored[op.round]]
    /\ UNCHANGED <<chain, network, stored, lastSalt>>

\* What fetchArenaState's simulation tells of the player, when it answers.
ArenaState == [round |-> chain.round, isUserIn |-> chain.active, hasWon |-> chain.won]

BuildClaim ==
    /\ op.step = "asked" /\ op.kind = "CLAIM"
    /\ \/ Fail("SIMULATION_FAILED")
       \/ IF ArenaState.hasWon THEN Goto("loading") ELSE Fail("VALIDATION_FAILED")
    /\ UNCHANGED <<chain, network, stored, lastSalt>>

LoadAccount ==
    /\ op.step = "loading"
    /\ \/ op' = [op EXCEPT !.step = "signing", !.seq = chain.seq + 1]
       \/ Fail("ACCOUNT_NOT_FOUND")
    /\ UNCHANGED <<chain, network, stored, lastSalt>>

-----------------------------------------------------------------------------
(* signTransaction and submitSignedTransaction                             *)

Transaction == [kind |-> op.kind, body |-> op.body, seq |-> op.seq, status |-> "pending"]

\* A pool creation or a stake has no time bound: built again from the same
\* account and form it is the same transaction, with the same hash.
Endless == {"CREATE", "STAKE"}
Duplicates == {i \in DOMAIN network : op.kind \in Endless /\ network[i] = Transaction}

Reject ==
    /\ op.step = "signing"
    /\ Fail("USER_REJECTED")
    /\ UNCHANGED <<chain, network, stored, lastSalt>>

\* Signed and sent: accepted as PENDING; accepted by a server whose answer is
\* lost; refused; or answered DUPLICATE, which counts as refused too.
Send ==
    /\ op.step = "signing"
    /\ \/ /\ Duplicates = {} /\ Len(network) < MaxSent
          /\ network' = Append(network, Transaction)
          /\ \/ op' = [op EXCEPT !.step = "polling", !.tx = Len(network')]
             \/ Fail("UNKNOWN")
       \/ Duplicates = {} /\ Fail("TRANSACTION_FAILED") /\ UNCHANGED network
       \/ /\ \E i \in Duplicates : op' = Failure("TRANSACTION_FAILED", i)
          /\ UNCHANGED network
    /\ UNCHANGED <<chain, stored, lastSalt>>

\* Mutant: what is not known after the last attempt is called a failure.
AfterLastPollFailed == Fail("TRANSACTION_FAILED")

\* What an attempt saw last, once there is no other: unknown is not failed.
AfterLastPoll == Fail("TRANSACTION_TIMEOUT")

\* An attempt learns a final status, or nothing: NOT_FOUND and a failed call
\* both count towards MaxPolls.
Poll ==
    /\ op.step = "polling"
    /\ \/ /\ op.polls < MaxPolls /\ network[op.tx].status = "SUCCESS"
          /\ Goto("confirmed")
       \/ /\ op.polls < MaxPolls /\ network[op.tx].status = "FAILED"
          /\ Fail("TRANSACTION_FAILED")
       \/ /\ op.polls < MaxPolls
          /\ op' = [op EXCEPT !.polls = @ + 1]
       \/ op.polls = MaxPolls /\ AfterLastPoll
    /\ UNCHANGED <<chain, network, stored, lastSalt>>

WebNext ==
    \/ \E i \in DOMAIN network : Land(i)
    \/ NextPhase
    \/ BuildJoin \/ BuildCommit \/ BuildReveal \/ BuildClaim
    \/ LoadAccount \/ Reject \/ Send \/ Poll

-----------------------------------------------------------------------------
(* TransactionModal.tsx over Modal.tsx: the dialog in which a transaction  *)
(* is reviewed, signed and reported.  The page that opens it owns `open'   *)
(* and `details'; the dialog owns the state it shows and cannot be closed  *)
(* while a confirm handler runs.                                           *)

VARIABLE modal   \* what the dialog asks for and the result it shows

ModalStart == [open |-> FALSE, state |-> "REVIEW", kind |-> None, details |-> None,
               code |-> None, tx |-> 0]

Review(kind, details) ==
    /\ ~modal.open
    /\ modal' = [ModalStart EXCEPT !.open = TRUE, !.kind = kind, !.details = details]

\* Cancel and Close; the overlay and Escape are switched off while SIGNING.
CloseModal ==
    /\ modal.open /\ modal.state # "SIGNING"
    /\ modal' = ModalStart
    /\ UNCHANGED webVars

\* handleConfirm: onConfirm is the closure of this render, and what it has
\* captured does not change while it runs.  Doing nothing is a way to resolve.
Confirm(nothing, round, body) ==
    /\ modal.open /\ modal.state = "REVIEW" /\ op.step = "idle"
    /\ modal' = [modal EXCEPT !.state = "SIGNING"]
    /\ op' = [Idle EXCEPT !.step = IF nothing THEN "nothing" ELSE "asked",
                          !.kind = modal.kind, !.round = round, !.body = body]
    /\ UNCHANGED <<chain, network, stored, lastSalt>>

NothingDone ==
    /\ op.step = "nothing"
    /\ modal' = [modal EXCEPT !.state = "SUCCESS"]
    /\ op' = Idle
    /\ UNCHANGED <<chain, network, stored, lastSalt>>

Failed ==
    /\ op.step = "failed"
    /\ modal' = [modal EXCEPT !.state = "ERROR", !.code = op.code, !.tx = op.tx]
    /\ op' = Idle
    /\ UNCHANGED <<chain, network, stored, lastSalt>>

TryAgain ==
    /\ modal.open /\ modal.state = "ERROR"
    /\ modal' = [modal EXCEPT !.state = "REVIEW", !.code = None, !.tx = 0]
    /\ UNCHANGED webVars

ModalNext == CloseModal \/ NothingDone \/ Failed \/ TryAgain

\* A transaction shown as failed cannot succeed a moment later
\* (submitSignedTransaction: what is unknown is never a hard failure).
FailedMeansFailed ==
    modal.state = "ERROR" /\ modal.code = "TRANSACTION_FAILED" /\ modal.tx # 0 =>
        network[modal.tx].status = "FAILED"
=============================================================================
