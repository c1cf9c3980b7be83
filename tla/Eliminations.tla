---------------------------- MODULE Eliminations ----------------------------
(***************************************************************************)
(* The minority-wins rule of contract/arena/src/eliminations.rs: the pure  *)
(* functions resolve_players calls to decide who survives a round.         *)
(*                                                                         *)
(* The code counts a Vec<Choice>; only the number of votes of each side    *)
(* matters, so the votes are a function from the players who revealed to   *)
(* their choice.                                                           *)
(***************************************************************************)
EXTENDS Naturals, FiniteSets

Heads == "Heads"
Tails == "Tails"
Choice == {Heads, Tails}

\* The absent Option<Choice>.
NoChoice == "NoChoice"

\* The players whose vote is c.
Voters(votes, c) == {p \in DOMAIN votes : votes[p] = c}

\* Tally and tally_choices: the number of votes on each side.
TallyChoices(votes) == [heads |-> Cardinality(Voters(votes, Heads)),
                        tails |-> Cardinality(Voters(votes, Tails))]

\* Mutant: an equal vote goes to heads.
SurvivingChoiceOfTie(tally) ==
    CASE tally.heads = 0 /\ tally.tails = 0 -> NoChoice
      [] tally.heads > 0 /\ tally.tails = 0 -> Heads
      [] tally.heads = 0 /\ tally.tails > 0 -> Tails
      [] tally.heads > 0 /\ tally.tails > 0 ->
            IF tally.heads <= tally.tails THEN Heads ELSE Tails

\* surviving_choice: the smaller side, the only side, or nobody's side (a tie,
\* or no votes at all). The arms of the match are in the code's order.
SurvivingChoice(tally) ==
    CASE tally.heads = 0 /\ tally.tails = 0 -> NoChoice
      [] tally.heads > 0 /\ tally.tails = 0 -> Heads
      [] tally.heads = 0 /\ tally.tails > 0 -> Tails
      [] tally.heads > 0 /\ tally.tails > 0 ->
            IF tally.heads = tally.tails THEN NoChoice
            ELSE IF tally.heads < tally.tails THEN Heads ELSE Tails

\* is_eliminated: on a tie nobody is.
IsEliminated(choice, tally) ==
    /\ SurvivingChoice(tally) # NoChoice
    /\ choice # SurvivingChoice(tally)

=============================================================================
