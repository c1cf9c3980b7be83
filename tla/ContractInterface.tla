------------------------- MODULE ContractInterface --------------------------
(***************************************************************************)
(* How the web application deals with the contracts: how it puts a         *)
(* transaction together, what comes of a failure on its way to the player's*)
(* eyes, how a transaction that has not been heard of is looked up later;  *)
(* and what its event parser makes of the events the arena publishes.  One *)
(* request at a time.                                                      *)
(*                                                                         *)
(* The contract publishes tuples and single values, the parser looks for   *)
(* named fields, which no tuple has.  The order of the events is that of a *)
(* game; its rules are those of module Arena.                              *)
(***************************************************************************)
EXTENDS Integers, Sequences, FiniteSets

CONSTANTS
    Unset,       \* nothing there
    MaxLookups   \* options.maxAttempts

VARIABLE request

-----------------------------------------------------------------------------
\* soroban-transaction-composer.ts: the contract and the function each builder calls.
Called ==
    [CREATE  |-> [contract |-> "factory", function |-> "create_pool"],
     STAKE   |-> [contract |-> "staking", function |-> "stake"],
     UNSTAKE |-> [contract |-> "staking", function |-> "unstake"],
     JOIN    |-> [contract |-> "arena", function |-> "join_arena"],
     COMMIT  |-> [contract |-> "arena", function |-> "submit_commitment"],
     REVEAL  |-> [contract |-> "arena", function |-> "reveal_choice"],
     CLAIM   |-> [contract |-> "arena", function |-> "claim"]]

\* The read a builder makes before it builds.
ReadFirst(kind) == IF kind = "CLAIM" THEN {"get_full_state"} ELSE {}

\* Of the functions called, those the contract has.
Exported == {"create_pool", "stake", "unstake", "join_arena", "submit_commitment",
             "reveal_choice", "claim"}

\* The builders that have the transaction simulated before it is signed.
Prepared == {"STAKE", "UNSTAKE"}

-----------------------------------------------------------------------------
\* The error codes of the contracts: ArenaError, StakingError.
ArenaErrors ==
    <<"Unauthorized", "CannotCancelStartedGame", "NotInitialised", "RoundNotActive",
      "RoundNotStarted", "GracePeriodNotElapsed", "InvalidReveal", "MissingCommitment",
      "ChoiceAlreadyRevealed", "AlreadyInitialized", "GameNotFinished", "PrizeAlreadyClaimed",
      "PlayerEliminated", "NoPendingAdmin", "InvalidVaultAddress", "ContractPaused",
      "InvalidGameState", "NotInitialized", "NotEnoughPlayers", "PlayerBanned",
      "CreatorCannotJoin", "ArenaFull", "InvalidPlayerLimits", "ReentrantCall",
      "RefundAlreadyClaimed", "ArenaNotCancelled", "NotAPlayer", "DeadlineTooSoon",
      "AlreadyJoined", "UpgradeTimelockPending", "NoPendingUpgrade", "InvalidEntryFee",
      "CommitPhaseEnded", "InvalidDuration", "VaultDepositFailed">>

StakingErrors ==
    <<"NotInitialized", "AlreadyInitialized", "Paused", "InvalidAmount", "InsufficientShares",
      "ZeroShares", "BelowMinimumInitialStake", "NoSharesOutstanding">>

\* CONTRACT_PANIC_USER_MESSAGES knows a number alone, and takes it for the arena's.
userMessageForContractPanicCode(n) ==
    IF n \in DOMAIN ArenaErrors THEN ArenaErrors[n]
    ELSE CASE n = 100 -> "StakeRules" [] n = 101 -> "UnsupportedToken" [] OTHER -> "see ERRORS.md"

\* What is thrown: a ContractError of its own code; an object with the field
\* `error'; the error of a schema; or a message, by the words it has.
Thrown(code, field, zod, words, panic) ==
    [code |-> code, field |-> field, zod |-> zod, words |-> words, panic |-> panic]

Coded(code)     == Thrown(code, FALSE, FALSE, {}, 0)
Worded(words)   == Thrown(Unset, FALSE, FALSE, words, 0)
Panic(n)        == Thrown(Unset, FALSE, FALSE, {"HostError", "Error(Contract"}, n)
SimulationOf(n) == Thrown(Unset, TRUE, FALSE, {}, n)
OfSchema        == Thrown(Unset, FALSE, TRUE, {}, 0)

isSimulationError(e) ==
    e.field \/ e.words \cap {"HostError", "Error(Contract", "Error(WasmVm"} # {}

\* extractSimulationDetail, parseHostError: a contract's number, or nothing known.
extractSimulationDetail(e) ==
    IF e.panic # 0 THEN userMessageForContractPanicCode(e.panic) ELSE Unset

Has(e, words) == e.words \cap words # {}

\* The message tells apart what the code does not; otherwise it is the code's own,
\* by DEFAULT_MESSAGES.
ContractError(code, message) == [code |-> code, message |-> message]

\* parseContractError: the first that fits.
parseContractError(e) ==
    CASE e.code # Unset -> ContractError(e.code, Unset)
      [] e.code = Unset /\ (isSimulationError(e) \/ Has(e, {"simulation"})) ->
            ContractError("SIMULATION_FAILED", extractSimulationDetail(e))
      [] OTHER ->
            CASE Has(e, {"User rejected", "user cancel"}) -> ContractError("USER_REJECTED", Unset)
              [] Has(e, {"op_underfunded", "insufficient"}) -> ContractError("INSUFFICIENT_FUNDS", Unset)
              [] Has(e, {"tx_bad_auth"}) -> ContractError("BAD_AUTH", Unset)
              [] Has(e, {"tx_too_late"}) -> ContractError("TRANSACTION_TIMEOUT", Unset)
              [] Has(e, {"Account not found", "status 404"}) -> ContractError("ACCOUNT_NOT_FOUND", Unset)
              [] Has(e, {"Transaction failed", "validation failed"}) ->
                    ContractError("TRANSACTION_FAILED", Unset)
              [] e.zod -> ContractError("VALIDATION_FAILED", Unset)
              [] OTHER -> ContractError("UNKNOWN", Unset)

-----------------------------------------------------------------------------
\* shown is what parseStellarError shows; hash that it names the transaction; fate
\* what the ledger makes of that.
RequestInit ==
    request = [step |-> "idle", kind |-> Unset, shown |-> ContractError(Unset, Unset),
               hash |-> FALSE, fate |-> "NOT_FOUND", lookups |-> 0, found |-> Unset]

Throw(e) == request' = [request EXCEPT !.step = "thrown", !.shown = parseContractError(e)]
Proceeds(step) == request' = [request EXCEPT !.step = step]

Start ==
    /\ request.step = "idle"
    /\ \E kind \in DOMAIN Called : request' = [request EXCEPT !.step = "checking", !.kind = kind]

\* The schemas, then what must be configured: the staking contract; a vault and an
\* oracle for a pool, whose absence is an error like any other.
Check ==
    /\ request.step = "checking"
    /\ \/ Throw(OfSchema)
       \/ Called[request.kind].contract = "staking" /\ Throw(Coded("CONFIG_MISSING"))
       \/ request.kind = "CREATE" /\ Throw(Worded({"is not configured"}))
       \/ Proceeds("reading")

\* fetchArenaState: a function the contract does not have is a failed simulation.
ReadState ==
    /\ request.step = "reading"
    /\ IF ReadFirst(request.kind) \subseteq Exported THEN Proceeds("loading")
       ELSE Throw(Coded("SIMULATION_FAILED"))

Load ==
    /\ request.step = "loading"
    /\ Throw(Coded("ACCOUNT_NOT_FOUND")) \/ Proceeds("composing")

\* composeUnsignedTransaction, and server.prepareTransaction.
Compose ==
    /\ request.step = "composing"
    /\ \/ Called[request.kind].function \in Exported /\ Proceeds("signing")
       \/ /\ request.kind \in Prepared
          /\ \E n \in DOMAIN StakingErrors : Throw(Panic(n)) \/ Throw(SimulationOf(n))

SignAndSend ==
    /\ request.step = "signing"
    /\ \/ \E words \in {{"User rejected"}, {"op_underfunded"}, {"tx_bad_auth"}, {"tx_too_late"},
                        {"status 404"}, {"validation failed"}, {"network"}} : Throw(Worded(words))
       \/ request' = [request EXCEPT !.step = "thrown", !.hash = TRUE,
                                     !.shown = parseContractError(Coded("TRANSACTION_TIMEOUT"))]

\* A transaction that has timed out for the browser is included, or fails, or is never heard of.
Decide ==
    /\ request.hash /\ request.fate = "NOT_FOUND"
    /\ \E fate \in {"SUCCESS", "FAILED"} : request' = [request EXCEPT !.fate = fate]

\* checkTransactionOnHorizon: a lookup that fails counts as NOT_FOUND.
checkTransactionOnHorizon == {request.fate, "NOT_FOUND"}

\* reconcilePendingTransaction
Lookup ==
    /\ request.hash /\ request.found \in {Unset, "NOT_FOUND"}
    /\ request.lookups < MaxLookups
    /\ \E status \in checkTransactionOnHorizon :
          request' = [request EXCEPT !.lookups = @ + 1, !.found = status]

RequestNext ==
    Start \/ Check \/ ReadState \/ Load \/ Compose \/ SignAndSend \/ Decide \/ Lookup

-----------------------------------------------------------------------------
(* The events                                                              *)

CONSTANTS
    Members,       \* the players
    Host,          \* the admin
    Undefined,     \* NaN, or a field that is not there
    MaxGameRounds  \* bound: rounds of the game

VARIABLE game

-----------------------------------------------------------------------------
\* ArenaEvents: a name, the topics after it and the fields of the value.
Event(name, topics, value) == [name |-> name, topics |-> topics, value |-> value]

\* The game as published so far, the event published last and what a listener
\* has been told by the parser.
FeedInit ==
    game = [phase |-> "none", round |-> 0, alive |-> {}, acted |-> {}, out |-> 0,
            last |-> Event("", <<>>, <<>>), told |-> {}]

initialized == Event("init", <<>>, <<Host>>)
player_joined(p, count) == Event("join", <<p>>, <<count>>)
game_started(round, seconds) == Event("started", <<>>, <<round, seconds>>)
commitment_submitted(p, round) == Event("commit", <<p>>, <<round>>)
choice_revealed(p, choice, round) == Event("reveal", <<p>>, <<choice, round>>)
player_eliminated(p, round) == Event("elim", <<p>>, <<round>>)
round_resolved(round, eliminated, survivors) ==
    Event("resolved", <<>>, <<round, eliminated, survivors>>)
round_tied(round, survivors) == Event("tied", <<>>, <<round, survivors>>)
game_finished(winner, round) == Event("finished", <<>>, <<winner, round>>)
prize_claimed(winner, amount, yield) == Event("claimed", <<winner>>, <<amount, yield>>)

-----------------------------------------------------------------------------
\* A value that is void decodes to null; a field of one that is there is undefined.
Decoded(e) == e.value # <<>>

About(type, who) == [type |-> type, who |-> who, choice |-> Undefined, round |-> Undefined]

\* value.choice === 'Heads' ? 0 : 1, of an undefined choice.
ParsedChoice == 1

\* parseArenaEvent: at most one message; for an event it does not know, none.
\* An elimination is a PlayerJoined too.
parseArenaEvent(e) ==
    IF ~Decoded(e) THEN {}
    ELSE CASE e.name = "init" -> {About("ArenaCreated", e.value[1])}
           [] e.name \in {"join", "elim"} -> {About("PlayerJoined", e.topics[1])}
           [] e.name = "started" -> {About("RoundStarted", Undefined)}
           [] e.name = "commit" -> {[About("ChoiceSubmitted", Undefined) EXCEPT !.choice = ParsedChoice]}
           [] e.name = "reveal" -> {[About("ChoiceSubmitted", e.topics[1]) EXCEPT !.choice = ParsedChoice]}
           [] e.name = "resolved" -> {[About("RoundResolved", Undefined) EXCEPT !.choice = ParsedChoice]}
           [] e.name = "finished" -> {About("WinnersDeclared", Undefined)}
           [] e.name = "claimed" -> {About("WinnersDeclared", e.topics[1])}
           [] OTHER -> {}

-----------------------------------------------------------------------------
Publish(e, next) ==
    game' = [next EXCEPT !.last = e, !.told = @ \cup parseArenaEvent(e)]

Left == Cardinality(game.alive)

PublishOpening ==
    \/ game.phase = "none" /\ Publish(initialized, [game EXCEPT !.phase = "open"])
    \/ \E p \in Members \ game.alive :
          game.phase = "open" /\ Publish(player_joined(p, Left + 1), [game EXCEPT !.alive = @ \cup {p}])

\* A round is started when the one before is resolved, and resolved by a burst
\* of events: who is out, the result, and a tie or the end of the game.
PublishRound ==
    \/ /\ game.phase \in {"open", "resolved"} /\ Left > 1 /\ game.round < MaxGameRounds
       /\ Publish(game_started(game.round + 1, 60),
                  [game EXCEPT !.phase = "commit", !.round = @ + 1, !.acted = {}, !.out = 0])
    \/ \E p \in game.alive \ game.acted :
          game.phase = "commit" /\ Publish(commitment_submitted(p, game.round), [game EXCEPT !.acted = @ \cup {p}])
    \/ \E p \in game.acted, choice \in {"Heads", "Tails"} :
          /\ game.phase \in {"commit", "reveal"}
          /\ Publish(choice_revealed(p, choice, game.round), [game EXCEPT !.phase = "reveal", !.acted = @ \ {p}])
    \/ \E p \in game.alive :
          /\ game.phase \in {"commit", "reveal", "out"}
          /\ Publish(player_eliminated(p, game.round), [game EXCEPT !.phase = "out", !.alive = @ \ {p}, !.out = @ + 1])
    \/ /\ game.phase \in {"commit", "reveal", "out"}
       /\ Publish(round_resolved(game.round, game.out, Left), [game EXCEPT !.phase = "resolved"])

PublishEnd ==
    \/ /\ game.last.name = "resolved" /\ Left > 1
       /\ Publish(round_tied(game.round, Left), game)
    \/ \E p \in game.alive :
          \/ /\ game.phase = "resolved" /\ Left = 1
             /\ Publish(game_finished(p, game.round), [game EXCEPT !.phase = "finished"])
          \/ /\ game.phase = "finished"
             /\ Publish(prize_claimed(p, 2, 0), [game EXCEPT !.phase = "claimed"])

\* The events whose names the parser does not know, published at any time.
OtherEvents == {"ban", "unban", "limits", "up_prop", "upgrade", "admin", "paused", "unpaused",
                "expired", "vaultdec", "vault_oracle_failed", "cancel", "refund", "lboard"}

PublishOther ==
    \E name \in OtherEvents :
        game.phase # "none" /\ Publish(Event(name, <<>>, <<>>), game)

FeedNext == PublishOther \/ PublishOpening \/ PublishRound \/ PublishEnd
=============================================================================
