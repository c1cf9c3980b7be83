---------------------------- MODULE MCArenaVault ----------------------------
(* Instances of ArenaVault for TLC. *)
EXTENDS ArenaVault, TLC

Symmetry == Permutations(Players)
TwoToThree == {<<2, 3>>}
=============================================================================
