----------------------------- MODULE Simulation -----------------------------
(***************************************************************************)
(* scripts/simulate-game.ts: the game played without the contracts. Its    *)
(* resolveRound eliminates the smaller side, the one the contract lets     *)
(* survive, and nobody when all chose alike.                               *)
(***************************************************************************)
EXTENDS Integers, FiniteSets

CONSTANTS
    NumPlayers,     \* values of --players
    MaxRounds       \* --rounds

VARIABLES
    active,         \* the players with p.active
    joined,         \* number of simulated players
    roundNumber,
    ended           \* the loop has been left

simVars == <<active, joined, roundNumber, ended>>

SimInit ==
    /\ joined \in NumPlayers
    /\ active = 1..joined
    /\ roundNumber = 1
    /\ ended = FALSE

\* resolveRound: winningChoice is the side chosen less often, and those who chose it
\* are filtered out.
EliminatedSide(heads, tails) ==
    IF Cardinality(heads) = Cardinality(tails) THEN {}
    ELSE IF Cardinality(heads) > Cardinality(tails) THEN tails ELSE heads

\* One turn of the loop: random choices, the elimination, and the ways out.
PlayRound ==
    /\ ~ended
    /\ IF roundNumber > MaxRounds \/ Cardinality(active) <= 1
       THEN ended' = TRUE /\ UNCHANGED <<active, roundNumber>>
       ELSE \E heads \in SUBSET active :
              /\ active' = active \ EliminatedSide(heads, active \ heads)
              /\ IF Cardinality(active') <= 1
                 THEN ended' = TRUE /\ UNCHANGED roundNumber
                 ELSE roundNumber' = roundNumber + 1 /\ UNCHANGED ended
    /\ UNCHANGED joined

\* The winner, and among how many the prize is split.
winner == IF Cardinality(active) = 1 THEN active ELSE {}
PrizeShares == IF winner # {} THEN 1 ELSE Cardinality(active)
=============================================================================
