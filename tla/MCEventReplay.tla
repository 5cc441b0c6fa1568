---------------------------- MODULE MCEventReplay -----------------------------
(***************************************************************************)
(* TLC instances of EventReplay.                                           *)
(***************************************************************************)
EXTENDS EventReplay

CONSTANTS k1, k2

OneConnection == {k1}
TwoConnections == {k1, k2}
SmallAndLarge == {1, 3}
Small == {1}
ConnectionSymmetry == Permutations(Connections)
===============================================================================
