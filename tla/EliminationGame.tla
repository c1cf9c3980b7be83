--------------------------- MODULE EliminationGame ---------------------------
(***************************************************************************)
(* What the arena contract promises, without rounds' inner workings, time, *)
(* vaults or settings: a game of elimination whose stakes are handed out   *)
(* once. The phases and their edges are the table of                       *)
(* contract/arena/src/state_machine.rs; the rest is what the entry points  *)
(* may do along each edge.                                                 *)
(***************************************************************************)
EXTENDS Naturals, FiniteSets

CONSTANTS Players, None

VARIABLES
    phase,      \* the state of the game
    inGame,     \* players still in
    out,        \* players eliminated
    champion,   \* the last player left, if there is one
    settled     \* players who got their stake back or the prize

gameVars == <<phase, inGame, out, champion, settled>>

Init ==
    /\ phase = "Open"
    /\ inGame = {} /\ out = {}
    /\ champion = None
    /\ settled = {}

\* Somebody enters between rounds, once.
Enter(p) ==
    /\ phase = "Open"
    /\ p \notin inGame \cup out
    /\ inGame' = inGame \cup {p}
    /\ UNCHANGED <<phase, out, champion, settled>>

\* A round needs opponents.
Begin ==
    /\ phase = "Open"
    /\ Cardinality(inGame) >= 2
    /\ phase' = "Active"
    /\ UNCHANGED <<inGame, out, champion, settled>>

\* A round leaves some of its players; with one or none left the game is over.
End(left) ==
    /\ phase = "Active"
    /\ inGame' = left
    /\ out' = out \cup (inGame \ left)
    /\ phase' = IF Cardinality(left) <= 1 THEN "Finished" ELSE "Open"
    /\ champion' \in left \cup {None}
    /\ champion' # None <=> left = {champion'}
    /\ UNCHANGED settled

\* A round nobody resolves gives those still in their stakes back.
Abandon ==
    /\ phase = "Active"
    /\ phase' = "Finished"
    /\ settled' = inGame
    /\ UNCHANGED <<inGame, out, champion>>

Cancel ==
    /\ phase \in {"Open", "Active"}
    /\ phase' = "Cancelled"
    /\ UNCHANGED <<inGame, out, champion, settled>>

\* Everyone who entered a cancelled game gets its stake back, once.
Refund(p) ==
    /\ phase = "Cancelled"
    /\ p \in (inGame \cup out) \ settled
    /\ settled' = settled \cup {p}
    /\ UNCHANGED <<phase, inGame, out, champion>>

\* The prize goes to the champion, once, and to nobody if there is none.
Award ==
    /\ phase = "Finished"
    /\ champion # None
    /\ phase' = "Settled"
    /\ settled' = settled \cup {champion}
    /\ UNCHANGED <<inGame, out, champion>>

Next ==
    \/ \E p \in Players : Enter(p) \/ Refund(p)
    \/ \E left \in SUBSET inGame : End(left)
    \/ Begin \/ Abandon \/ Cancel \/ Award

Spec == Init /\ [][Next]_gameVars

=============================================================================
