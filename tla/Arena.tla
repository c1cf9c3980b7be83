------------------------------- MODULE Arena -------------------------------
(***************************************************************************)
(* The arena contract, contract/arena/src: one commit-reveal elimination   *)
(* game, from the moment initialize has stored its configuration.          *)
(*                                                                         *)
(* A contract call is one transaction: it runs to its end or leaves no     *)
(* trace, so every entry point is one action, enabled when the call would  *)
(* return Ok. What the contract does not control comes in as a parameter   *)
(* of the action: the order of the calls, the ledger's clock, and what the *)
(* yield vault and the stake token answer. The vault is any contract with  *)
(* the adapter's interface (rwa_client.rs): it may report any balance,     *)
(* return any amount, or fail. ArenaVault puts the real adapter in its     *)
(* place.                                                                  *)
(***************************************************************************)
EXTENDS Integers, Sequences, FiniteSets, Functions, Eliminations

CONSTANTS
    Players,            \* addresses that may join
    Creator,            \* the address initialize was authorised by
    Candidates,         \* addresses propose_admin may name
    EntryFee,           \* config.entry_fee
    Durations,          \* values of start_round's duration_seconds
    LimitChoices,       \* pairs <<min, max>> given to configure_player_limits
    LeaderboardLimits,  \* values given to configure_leaderboard_limit
    VaultAmounts,       \* balances a vault may report, amounts it may return
    MaxTime,            \* bound of the model: the last ledger timestamp
    MinPlayersToStart,  \* MIN_PLAYERS_TO_START
    MaxPlayersAllowed,  \* MAX_PLAYERS_ALLOWED
    None                \* an absent Option, or the Err of a try_ call

Addresses == Players \cup Candidates \cup {Creator}

\* Mutant: a round of one player is accepted.
UnboundedLimits(l) ==
    /\ l[1] <= l[2]
    /\ l[2] <= MaxPlayersAllowed

\* validate_player_limits
ValidLimits(l) ==
    /\ l[1] >= MinPlayersToStart
    /\ l[1] <= l[2]
    /\ l[2] <= MaxPlayersAllowed

ASSUME PlayersFinite == IsFiniteSet(Players)
ASSUME FeePositive == EntryFee \in Nat \ {0}
ASSUME DurationsAreTimes == Durations \subseteq Nat
ASSUME VaultAmountsAreAmounts == VaultAmounts \subseteq Nat
ASSUME LimitsArePairs == LimitChoices \subseteq Nat \X Nat
ASSUME LeaderboardLimitsAreSizes == LeaderboardLimits \subseteq Nat
ASSUME BoundsAreNaturals ==
    MaxTime \in Nat /\ MinPlayersToStart \in Nat /\ MaxPlayersAllowed \in Nat
ASSUME OpponentsNeeded == MinPlayersToStart >= 2
ASSUME NoneIsNoValue == None \notin Addresses /\ None \notin Int

VARIABLES
    now,                \* the ledger timestamp
    \* CONFIG
    state, admin, paused, playerCount, cumulativeYield, commitDeadline,
    roundCount,
    \* PLAYERS, and the Player(address) entries: which exist, their active
    \* flag and their rounds_survived
    players, joined, alive, survived,
    \* the entries of the round in play, keyed by player and round, and the
    \* RoundResult(round) entries
    roundStart, roundDuration, commitments, choices, roundResults,
    \* how the game ended
    winner, prizeClaimed, refunded, leaderboard,
    \* what the admin configures
    banned, minPlayers, maxPlayers, leaderboardLimit, pendingAdmin,
    creatorPools,
    \* the contract's own token balance, what the token contract has moved
    \* from it to each player, and LastVaultBalance
    arenaBalance, paid, lastVaultBalance

config  == <<state, admin, paused, playerCount, cumulativeYield,
             commitDeadline, roundCount>>
roster  == <<players, joined, alive, survived>>
round   == <<roundStart, roundDuration, commitments, choices, roundResults>>
outcome == <<winner, prizeClaimed, refunded, leaderboard>>
limits  == <<minPlayers, maxPlayers>>
policy  == <<banned, limits, leaderboardLimit, pendingAdmin, creatorPools>>
money   == <<arenaBalance, paid, lastVaultBalance>>
vars    == <<now, config, roster, round, outcome, policy, money>>

GameState == {"Open", "Active", "Finished", "Cancelled", "Settled"}

\* A commitment is the SHA-256 of a choice and a salt: it opens to that choice
\* alone, or, sent by a client that hashed something else, to none.
Junk == "Junk"
Commitment == Choice \cup {Junk}

CommitmentEntry == [player : Players, round : Nat, opens : Commitment]
ChoiceEntry     == [player : Players, round : Nat, choice : Choice]
ResultEntry     == [eliminated : Nat, survivors : Nat, accrued : Nat]

-----------------------------------------------------------------------------
\* Storage helpers

CurrentRound == roundCount + 1
Listed == Range(players)
ActivePlayers == Listed \cap alive

\* clear_round_data: the entries of every listed player for the round.
WithoutRound(entries, r) ==
    {e \in entries : ~ (e.player \in Listed /\ e.round = r)}

\* save_commitment overwrites the player's entry for the round.
WithCommitment(p, r, c) ==
    {e \in commitments : ~ (e.player = p /\ e.round = r)}
        \cup {[player |-> p, round |-> r, opens |-> c]}

Revealed(p, r) == \E e \in choices : e.player = p /\ e.round = r

\* Mutant: does not stop at zero.
PoolsLess(a) == [creatorPools EXCEPT ![a] = @ - 1]

\* decrement_creator_active_pools: stops at zero.
PoolsWithout(a) ==
    [creatorPools EXCEPT ![a] = IF @ > 0 THEN @ - 1 ELSE 0]

\* ArenaStorage::load_choice of a player that has revealed.
ChoiceOf(p, r) == CHOOSE c \in Choice :
                      [player |-> p, round |-> r, choice |-> c] \in choices

-----------------------------------------------------------------------------
\* initialize: the arena just created, with limits the call accepts.

Init ==
    /\ now = 0
    /\ state = "Open" /\ admin = Creator /\ paused = FALSE
    /\ playerCount = 0 /\ cumulativeYield = 0
    /\ commitDeadline = 0 /\ roundCount = 0
    /\ players = <<>> /\ joined = {} /\ alive = {}
    /\ survived = [p \in Players |-> 0]
    /\ roundStart = None /\ roundDuration = 0
    /\ commitments = {} /\ choices = {} /\ roundResults = <<>>
    /\ winner = None /\ prizeClaimed = FALSE /\ refunded = {}
    /\ leaderboard = <<>>
    /\ banned = {}
    /\ \E l \in LimitChoices :
           ValidLimits(l) /\ minPlayers = l[1] /\ maxPlayers = l[2]
    /\ leaderboardLimit \in LeaderboardLimits
    /\ pendingAdmin = None
    /\ creatorPools = [a \in Addresses |-> IF a = Creator THEN 1 ELSE 0]
    /\ arenaBalance = 0 /\ paid = [p \in Players |-> 0]
    /\ lastVaultBalance = 0

-----------------------------------------------------------------------------
\* Playing

\* Mutant: checks whether the player is in the game, not whether it ever was.
MayJoinAgain(p) ==
    /\ ~paused /\ state = "Open" /\ p # admin /\ p \notin banned
    /\ p \notin alive
    /\ playerCount < maxPlayers

\* Mutant: open to players whenever no round is in play.
MayJoinBetweenRounds(p) ==
    /\ ~paused /\ state # "Active" /\ p # admin /\ p \notin banned
    /\ p \notin joined
    /\ playerCount < maxPlayers

\* The checks of join_arena.
MayJoin(p) ==
    /\ ~paused
    /\ state = "Open"
    /\ p # admin
    /\ p \notin banned
    /\ p \notin joined
    /\ playerCount < maxPlayers

\* join_arena, when the token transfer and the vault's deposit succeed (an
\* error of either rolls the call back). The adapter books the deposit without
\* moving tokens, and no vault could: nothing authorises it to spend the
\* arena's balance. The fee stays with the arena.
Join(p) ==
    /\ MayJoin(p)
    /\ arenaBalance' = arenaBalance + EntryFee
    /\ lastVaultBalance' = lastVaultBalance + EntryFee
    /\ players' = Append(players, p)
    /\ joined' = joined \cup {p}
    /\ alive' = alive \cup {p}
    /\ survived' = [survived EXCEPT ![p] = 0]
    /\ playerCount' = Len(players')
    /\ UNCHANGED <<now, state, admin, paused, cumulativeYield, commitDeadline,
                   roundCount, round, outcome, policy, paid>>

\* Mutant: still open at the deadline, when reveals begin.
UpToDeadline == now <= commitDeadline

\* submit_commitment's deadline: reveal_choice opens when it closes.
BeforeDeadline == now < commitDeadline

\* submit_commitment: a second one before the deadline replaces the first.
SubmitCommitment(p, c) ==
    /\ ~paused
    /\ state = "Active"
    /\ BeforeDeadline
    /\ p \in joined
    /\ p \in alive
    /\ commitments' = WithCommitment(p, CurrentRound, c)
    /\ UNCHANGED <<now, config, roster, roundStart, roundDuration, choices,
                   roundResults, outcome, policy, money>>

\* Mutant: asks for a commitment, not for one that opens to the choice.
AnyCommitment(p, c) ==
    \E e \in commitments : e.player = p /\ e.round = CurrentRound

\* The player's commitment of the round is the hash of choice c and the salt.
CommitmentOpens(p, c) ==
    [player |-> p, round |-> CurrentRound, opens |-> c] \in commitments

\* reveal_choice: does not look at the state of the arena.
RevealChoice(p, c) ==
    /\ ~paused
    /\ p \in joined
    /\ p \in alive
    /\ ~Revealed(p, CurrentRound)
    /\ now >= commitDeadline
    /\ CommitmentOpens(p, c)
    /\ choices' =
           choices \cup {[player |-> p, round |-> CurrentRound, choice |-> c]}
    /\ UNCHANGED <<now, config, roster, roundStart, roundDuration, commitments,
                   roundResults, outcome, policy, money>>

\* Mutant: the baseline starts anew with the round.
NoBaseline(report) == 0

\* The vault balance a round's yield is counted from.
Baseline(report) == IF report = None THEN 0 ELSE report

\* start_round(duration), where the vault reports a balance or fails (None).
StartRound(duration, report) ==
    /\ ~paused
    /\ state = "Open"
    /\ Cardinality(ActivePlayers) >= minPlayers
    /\ commitments' = WithoutRound(commitments, CurrentRound)
    /\ choices' = WithoutRound(choices, CurrentRound)
    /\ lastVaultBalance' = Baseline(report)
    /\ commitDeadline' = now + duration
    /\ state' = "Active"
    /\ roundStart' = now
    /\ roundDuration' = duration
    /\ UNCHANGED <<now, admin, paused, playerCount, cumulativeYield,
                   roundCount, roster, roundResults, outcome, policy,
                   arenaBalance, paid>>

\* resolve_players: the active players who revealed, and those of them the
\* tally spares. An active player without a revealed choice is eliminated.
Revealers(r) == {p \in ActivePlayers : Revealed(p, r)}
Votes(r) == [p \in Revealers(r) |-> ChoiceOf(p, r)]
Survivors(r) ==
    {p \in Revealers(r) :
        ~IsEliminated(Votes(r)[p], TallyChoices(Votes(r)))}

\* The RoundResult of a round, with its YieldSnapshot's accrued yield.
ResultOf(r, accrued) ==
    [eliminated |-> Cardinality(ActivePlayers \ Survivors(r)),
     survivors  |-> Cardinality(Survivors(r)),
     accrued    |-> accrued]

\* build_leaderboard: the selection sort takes the first entry with the most
\* rounds survived, so players rank by rounds survived, then by joining order.
RanksBefore(i, j, score) ==
    \/ score[players[i]] > score[players[j]]
    \/ score[players[i]] = score[players[j]] /\ i < j
Rank(j, score) ==
    1 + Cardinality({i \in DOMAIN players : RanksBefore(i, j, score)})
LeaderboardOf(score) ==
    LET size == IF leaderboardLimit < Len(players)
                THEN leaderboardLimit ELSE Len(players)
    IN  [k \in 1..size |->
            players[CHOOSE j \in DOMAIN players : Rank(j, score) = k]]

\* resolve_round. The oracle's rate is recorded for display and decides nothing.
ResolveRound(report) ==
    LET r        == CurrentRound
        balance  == IF report = None THEN lastVaultBalance ELSE report
        accrued  == IF balance >= lastVaultBalance
                    THEN balance - lastVaultBalance ELSE 0
        left     == Survivors(r)
        finished == Cardinality(left) <= 1
    IN
    /\ ~paused
    /\ state = "Active"
    /\ roundStart # None
    /\ now >= roundStart + roundDuration
    /\ lastVaultBalance' = balance
    /\ cumulativeYield' = cumulativeYield + accrued
    /\ alive' = alive \ (ActivePlayers \ left)
    /\ survived' = [p \in Players |->
                        IF p \in left THEN survived[p] + 1 ELSE survived[p]]
    /\ roundResults' = Append(roundResults, ResultOf(r, accrued))
    /\ roundCount' = r
    /\ state' = IF finished THEN "Finished" ELSE "Open"
    /\ winner' = IF Cardinality(left) = 1 THEN CHOOSE p \in left : TRUE
                                          ELSE winner
    /\ leaderboard' = IF finished THEN LeaderboardOf(survived') ELSE leaderboard
    /\ creatorPools' = IF finished THEN PoolsWithout(admin) ELSE creatorPools
    /\ commitments' = WithoutRound(commitments, r)
    /\ choices' = WithoutRound(choices, r)
    /\ UNCHANGED <<now, admin, paused, playerCount, commitDeadline, players,
                   joined, roundStart, roundDuration, prizeClaimed, refunded,
                   banned, limits, leaderboardLimit, pendingAdmin,
                   arenaBalance, paid>>

-----------------------------------------------------------------------------
\* Ending early

\* The arena leaves the count of its creator's active pools and goes to an end
\* state, with what the vault returned.
EndEarly(to, balance) ==
    /\ state' = to
    /\ creatorPools' = PoolsWithout(admin)
    /\ arenaBalance' = balance
    /\ UNCHANGED <<now, admin, paused, playerCount, cumulativeYield,
                   commitDeadline, roundCount, roster, round, outcome, banned,
                   limits, leaderboardLimit, pendingAdmin, lastVaultBalance>>

\* withdraw_all is called only for an arena with players.
Returned(amount) == IF playerCount > 0 THEN amount ELSE 0

\* Mutant: refuses only what is cancelled already.
CancelAnytime(amount) ==
    /\ ~paused
    /\ state # "Cancelled"
    /\ EndEarly("Cancelled", arenaBalance + Returned(amount))
    /\ UNCHANGED paid

\* cancel_arena, where the vault returns amount (its failure is a panic). The
\* players are refunded by claim_refund.
CancelArena(amount) ==
    /\ ~paused
    /\ state = "Open"
    /\ EndEarly("Cancelled", arenaBalance + Returned(amount))
    /\ UNCHANGED paid

\* Mutant: does not look at the state of the arena.
ExpiredAnytime == ~paused /\ now > commitDeadline

\* The checks of expire_arena: anyone may call it.
Expired == ~paused /\ state = "Active" /\ now > commitDeadline

\* expire_arena: the vault's failure is a panic, and so is a transfer the
\* arena's balance does not cover.
ExpireArena(amount) ==
    LET owed == EntryFee * Cardinality(ActivePlayers)
    IN
    /\ Expired
    /\ arenaBalance + Returned(amount) >= owed
    /\ EndEarly("Finished", arenaBalance + Returned(amount) - owed)
    /\ paid' = [p \in Players |-> IF p \in ActivePlayers
                                  THEN paid[p] + EntryFee ELSE paid[p]]

\* Mutant: takes a finished arena for one still running.
ForceCancelUnsettled(answer) ==
    /\ state \in {"Open", "Active", "Finished"}
    /\ EndEarly("Cancelled",
                IF answer = None THEN arenaBalance ELSE arenaBalance + answer)
    /\ UNCHANGED paid

\* force_cancel_arena: works while paused, and whatever the vault answers. (On
\* an arena already cancelled it returns Ok and changes nothing.)
ForceCancelArena(answer) ==
    /\ state \in {"Open", "Active"}
    /\ EndEarly("Cancelled",
                IF answer = None THEN arenaBalance ELSE arenaBalance + answer)
    /\ UNCHANGED paid

-----------------------------------------------------------------------------
\* Paying out

Payout == EntryFee * playerCount + cumulativeYield

\* claim: the vault returns an amount, or fails and the payout is taken from
\* the arena's own balance; a balance too small rolls the call back.
Claim(p, answer) ==
    LET received  == IF answer = None THEN 0 ELSE answer
        withdrawn == IF answer = None THEN Payout ELSE answer
        total     == IF Payout > withdrawn THEN withdrawn ELSE Payout
    IN
    /\ ~paused
    /\ state = "Finished"
    /\ ~prizeClaimed
    /\ winner = p
    /\ arenaBalance + received >= total
    /\ prizeClaimed' = TRUE
    /\ state' = "Settled"
    /\ arenaBalance' = arenaBalance + received - total
    /\ paid' = [paid EXCEPT ![p] = @ + total]
    /\ UNCHANGED <<now, admin, paused, playerCount, cumulativeYield,
                   commitDeadline, roundCount, roster, round, winner, refunded,
                   leaderboard, policy, lastVaultBalance>>

\* Mutant: does not remember who was refunded.
RefundAgain(p) == state = "Cancelled" /\ p \in joined

\* The checks of claim_refund.
RefundDue(p) == state = "Cancelled" /\ p \notin refunded /\ p \in joined

\* claim_refund: works while paused.
ClaimRefund(p) ==
    /\ RefundDue(p)
    /\ arenaBalance >= EntryFee
    /\ refunded' = refunded \cup {p}
    /\ arenaBalance' = arenaBalance - EntryFee
    /\ paid' = [paid EXCEPT ![p] = @ + EntryFee]
    /\ UNCHANGED <<now, config, roster, round, winner, prizeClaimed,
                   leaderboard, policy, lastVaultBalance>>

-----------------------------------------------------------------------------
\* Administration

\* propose_admin: a later proposal replaces an earlier one.
ProposeAdmin(a) ==
    /\ ~paused
    /\ pendingAdmin' = a
    /\ UNCHANGED <<now, config, roster, round, outcome, banned, limits,
                   leaderboardLimit, creatorPools, money>>

AcceptAdmin ==
    /\ ~paused
    /\ pendingAdmin # None
    /\ admin' = pendingAdmin
    /\ pendingAdmin' = None
    /\ UNCHANGED <<now, state, paused, playerCount, cumulativeYield,
                   commitDeadline, roundCount, roster, round, outcome, banned,
                   limits, leaderboardLimit, creatorPools, money>>

SetPaused(value) ==
    /\ paused' = value
    /\ UNCHANGED <<now, state, admin, playerCount, cumulativeYield,
                   commitDeadline, roundCount, roster, round, outcome, policy,
                   money>>
Pause == SetPaused(TRUE)
Unpause == SetPaused(FALSE)

SetBanned(newBanned) ==
    /\ banned' = newBanned
    /\ UNCHANGED <<now, config, roster, round, outcome, limits,
                   leaderboardLimit, pendingAdmin, creatorPools, money>>
BanPlayer(p) == SetBanned(banned \cup {p})
UnbanPlayer(p) == SetBanned(banned \ {p})

\* configure_player_limits
ConfigurePlayerLimits(l) ==
    /\ ValidLimits(l)
    /\ minPlayers' = l[1]
    /\ maxPlayers' = l[2]
    /\ UNCHANGED <<now, config, roster, round, outcome, banned,
                   leaderboardLimit, pendingAdmin, creatorPools, money>>

ConfigureLeaderboardLimit(n) ==
    /\ leaderboardLimit' = n
    /\ UNCHANGED <<now, config, roster, round, outcome, banned, limits,
                   pendingAdmin, creatorPools, money>>

\* A ledger closes with a later timestamp.
Tick ==
    /\ now < MaxTime
    /\ now' = now + 1
    /\ UNCHANGED <<config, roster, round, outcome, policy, money>>

-----------------------------------------------------------------------------
VaultAnswers == VaultAmounts \cup {None}

\* What players, and anyone else, may call.
PlayNext ==
    \/ \E p \in Players :
          \/ Join(p)
          \/ \E c \in Commitment : SubmitCommitment(p, c)
          \/ \E c \in Choice : RevealChoice(p, c)
          \/ \E answer \in VaultAnswers : Claim(p, answer)
          \/ ClaimRefund(p)
    \/ \E amount \in VaultAmounts : ExpireArena(amount)

\* What the admin does to run the game.
HostNext ==
    \/ \E duration \in Durations, report \in VaultAnswers :
          StartRound(duration, report)
    \/ \E report \in VaultAnswers : ResolveRound(report)
    \/ \E amount \in VaultAmounts : CancelArena(amount)
    \/ \E answer \in VaultAnswers : ForceCancelArena(answer)

\* What the admin does to the arena's settings.
SettingsNext ==
    \/ \E a \in Candidates : ProposeAdmin(a)
    \/ AcceptAdmin
    \/ Pause
    \/ Unpause
    \/ \E p \in Players : BanPlayer(p) \/ UnbanPlayer(p)
    \/ \E l \in LimitChoices : ConfigurePlayerLimits(l)
    \/ \E n \in LeaderboardLimits : ConfigureLeaderboardLimit(n)

Next == PlayNext \/ HostNext \/ SettingsNext \/ Tick

Spec == Init /\ [][Next]_vars

-----------------------------------------------------------------------------
\* Properties

\* Every variable holds a value of its type.
TypeOK ==
    /\ now \in Nat
    /\ state \in GameState /\ admin \in Addresses /\ paused \in BOOLEAN
    /\ playerCount \in Nat /\ cumulativeYield \in Nat
    /\ commitDeadline \in Nat /\ roundCount \in Nat
    /\ players \in Seq(Players) /\ joined \subseteq Players
    /\ alive \subseteq Players /\ survived \in [Players -> Nat]
    /\ roundStart \in Nat \cup {None} /\ roundDuration \in Nat
    /\ commitments \subseteq CommitmentEntry
    /\ choices \subseteq ChoiceEntry
    /\ roundResults \in Seq(ResultEntry)
    /\ winner \in Players \cup {None} /\ prizeClaimed \in BOOLEAN
    /\ refunded \subseteq Players
    /\ banned \subseteq Players
    /\ minPlayers \in Nat /\ maxPlayers \in Nat /\ leaderboardLimit \in Nat
    /\ pendingAdmin \in Addresses \cup {None}
    /\ creatorPools \in [Addresses -> Nat]
    /\ arenaBalance \in Nat /\ paid \in [Players -> Nat]
    /\ lastVaultBalance \in Nat

\* The three records of who plays agree: PLAYERS lists exactly the addresses
\* with a Player entry, each once, config.player_count is its length, and only
\* they are active. join_arena checks one of the three, resolve_round loops over
\* the second and claim multiplies by the third.
RosterConsistent ==
    /\ Listed = joined
    /\ \A i, j \in DOMAIN players : players[i] = players[j] => i = j
    /\ playerCount = Len(players)
    /\ alive \subseteq joined

\* resolve_round stores a winner only when that player alone is left, and no
\* later call (a reveal after the end, an expiry, a cancellation) can take the
\* game elsewhere; the prize is claimed exactly in Settled.
WinnerIsSoleSurvivor ==
    /\ winner # None => alive = {winner} /\ state \in {"Finished", "Settled"}
    /\ prizeClaimed <=> state = "Settled"
    /\ state = "Settled" => winner # None

\* Whatever the vault reported or returned before, the arena holds what it takes
\* to return every fee while the game runs, and every fee not yet refunded once
\* it is cancelled: no claim_refund can fail for lack of funds, in any order.
RefundsCovered ==
    /\ state \in {"Open", "Active"} =>
           arenaBalance >= EntryFee * Cardinality(joined)
    /\ state = "Cancelled" =>
           arenaBalance >= EntryFee * Cardinality(joined \ refunded)

\* A player is paid along one way only: its fee back once after a
\* cancellation, its fee back once when the round expired on it, or the prize.
\* In particular no sequence of cancel, expire, claim and refund pays two ways.
PaidOnce ==
    \A p \in Players :
        paid[p] # 0 =>
            \/ state = "Cancelled" /\ p \in refunded /\ paid[p] = EntryFee
            \/ /\ state = "Finished" /\ winner = None
               /\ p \in alive /\ paid[p] = EntryFee
            \/ state = "Settled" /\ p = winner

\* No commitment or choice outlives its round or is there before it: what is
\* stored is of the round in play, by players of the roster, one choice each,
\* and no choice is public while commitments are still taken.
EntriesOfTheRound ==
    /\ \A e \in commitments \cup choices :
           e.round = CurrentRound /\ e.player \in joined
    /\ state = "Open" => commitments = {} /\ choices = {}
    /\ choices # {} => now >= commitDeadline
    /\ \A e, f \in choices : e.player = f.player => e = f

\* A revealed choice of the round in play opens the player's commitment of that
\* round: reveal_choice cannot be fed a commitment of an earlier round, and none
\* is replaced after its reveal.
RevealsOpenCommitments ==
    \A e \in choices :
        e.round = CurrentRound =>
            [player |-> e.player, round |-> e.round, opens |-> e.choice]
                \in commitments

\* Once a choice of the round is public no commitment of the round may be made
\* or changed, or its author would play knowing what others played.
NoCommitAfterReveal ==
    [][(\E e \in choices : e.round = CurrentRound) /\ roundCount' = roundCount
           => commitments' = commitments]_vars

\* A resolved round keeps exactly the players the minority rule keeps: those who
\* revealed, all of them if one side is empty or the sides are equal, else the
\* smaller side. Stated on the sides themselves, not on the code's tally, and as
\* eliminations.rs and its tests have it: docs/RWA_YIELD_FLOW.md:128 and :141 would
\* send out a random side of a tie, or some of a unanimous round.
MinoritySurvives ==
    [][roundCount' # roundCount =>
        LET Side(c) == {p \in alive : \E e \in choices :
                            /\ e.player = p
                            /\ e.round = roundCount'
                            /\ e.choice = c}
            h == Side(Heads)
            t == Side(Tails)
        IN  alive' = IF h = {} \/ t = {} \/ Cardinality(h) = Cardinality(t)
                     THEN h \cup t
                     ELSE IF Cardinality(h) < Cardinality(t) THEN h ELSE t]_vars

\* A player out of the game stays out, and keeps the score it went out with: no
\* join, reveal or later round brings it back.
EliminationIsFinal ==
    [][\A p \in joined \ alive :
           p \notin alive' /\ survived'[p] = survived[p]]_vars

\* While the admin keeps the arena paused nothing of the game moves: no entry,
\* commitment, reveal, round, expiry or claim. The admin may cancel by force, and
\* the players of a cancelled arena may still take their fees back.
PauseStopsTheGame ==
    [][paused =>
        /\ UNCHANGED <<roster, round, winner, prizeClaimed, cumulativeYield,
                       roundCount, commitDeadline, admin>>
        /\ state' \in {state, "Cancelled"}
        /\ paid' # paid => state = "Cancelled"]_vars

\* No round is played by fewer than MIN_PLAYERS_TO_START players, whatever limits
\* the admin configures and whenever: a game of one would be won trivially.
RoundsNeedOpponents ==
    state = "Active" => Cardinality(alive) >= MinPlayersToStart

-----------------------------------------------------------------------------
\* The game the contract implements

\* The players the token contract has moved the arena's tokens to, and the
\* winner whose claim went through even if the vault left nothing to pay.
PaidOut == {p \in Players : paid[p] # 0}
               \cup (IF prizeClaimed THEN {winner} ELSE {})

Game == INSTANCE EliminationGame WITH
            phase    <- state,
            inGame   <- alive,
            out      <- joined \ alive,
            champion <- winner,
            settled  <- PaidOut

\* Every call of the contract is a move of the abstract game or leaves it alone:
\* the phases follow the table of state_machine.rs, nobody enters twice or comes
\* back, and the stakes go to the champion, or back to each player, once.
ImplementsGame == Game!Spec

=============================================================================
