------------------------------- MODULE MCPools -------------------------------
(***************************************************************************)
(* The contracts that keep other people's tokens beside the arena: the     *)
(* adapter, the staking pool and the factory.  They never call each other, *)
(* and each behaviour is about one of them, chosen at the start.           *)
(***************************************************************************)
EXTENDS RwaAdapter, Staking, Factory

VARIABLE focus

Init == focus \in {"vault", "staking", "factory"} /\ AdapterInit /\ StakingInit /\ FactoryInit

vars == <<focus, adapterVars, stakingVars, factoryVars>>

Next ==
    \/ focus = "vault" /\ AdapterNext /\ UNCHANGED <<focus, stakingVars, factoryVars>>
    \/ focus = "staking" /\ StakingNext /\ UNCHANGED <<focus, adapterVars, factoryVars>>
    \/ focus = "factory" /\ FactoryNext /\ UNCHANGED <<focus, adapterVars, stakingVars>>

Spec == Init /\ [][Next]_vars

\* Limits of the arena's and of the factory's making, and of neither's.
SomeLimits == {<<2, 100>>, <<2, 101>>, <<3, 2>>, <<1, 4>>}
=============================================================================
