--------------------------- MODULE MCManagedThread ----------------------------
(***************************************************************************)
(* TLC instances of ManagedThread.                                         *)
(***************************************************************************)
EXTENDS ManagedThread

CONSTANTS r1, r2, r3, m1, m2, a1, a2, v1, v2

OneTurn == {r1}
TwoTurns == {r1, r2}
OneMessage == {m1}
TwoMessages == {m1, m2}
OneApproval == {a1}
TwoApprovals == {a1, a2}
ModelOnly == {"model"}
ModelAndWorkspace == {"model", "workspace"}
OneValue == {v2}
TwoValues == {v1, v2}

TurnSymmetry == Permutations(Turns)
===============================================================================
