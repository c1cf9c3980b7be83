------------------------------- MODULE MCArena -------------------------------
(***************************************************************************)
(* Instances of Arena for TLC.                                             *)
(*                                                                         *)
(* The settings the admin may change multiply the states of a game, so the *)
(* runs split them: GameSpec plays complete games under fixed settings,    *)
(* Spec (from Arena) lets the admin change everything on fewer players.    *)
(* Both implement the game of EliminationGame.                             *)
(***************************************************************************)
EXTENDS Arena, TLC

Symmetry == Permutations(Players)

GameNext == PlayNext \/ HostNext \/ Tick
GameSpec == Init /\ [][GameNext]_vars

\* Values for the constants.
TwoOrFour == {<<2, 2>>, <<2, 4>>}
AlsoInvalid == {<<2, 2>>, <<1, 2>>, <<3, 2>>, <<2, 4>>}

-----------------------------------------------------------------------------
\* What the documentation says of the contract and the code does not do: the
\* subject of a run that expects TLC to find it violated.

\* docs/RWA_YIELD_FLOW.md: a round always leaves at least one survivor. A round
\* in which nobody reveals leaves none, and the stakes have no claimant.
SurvivorEachRound == roundCount > 0 => alive # {}

=============================================================================
