------------------------------ MODULE MCRounds ------------------------------
(***************************************************************************)
(* The backend that has state of its own: each behaviour is about the      *)
(* rounds or about the stream.                                             *)
(***************************************************************************)
EXTENDS RoundQueries, ArenaStream, TLC

CONSTANTS r1, r2, u1, u2, x1, x2, a1
VARIABLE focus

MCWalletOf == u1 :> x1 @@ u2 :> x2
MCArenaOf == 1 :> a1 @@ 2 :> a1
MCSubmissions == {[choices |-> {u1, u2}, active |-> {u1, u2}],
                  [choices |-> {u1}, active |-> {u1, u2}]}

Init ==
    /\ focus \in {"rounds", "stream"}
    /\ RoundsInit /\ StreamInit
    /\ focus = "rounds" => healthy

vars == <<focus, roundVars, streamVars>>

Next ==
    \/ focus = "rounds" /\ RoundsNext /\ UNCHANGED <<focus, streamVars>>
    \/ focus = "stream" /\ StreamNext /\ UNCHANGED <<focus, roundVars>>

Spec == Init /\ [][Next]_vars /\ FairStream
=============================================================================
