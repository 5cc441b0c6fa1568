--------------------------- MODULE MCTurnSemaphore ----------------------------
(***************************************************************************)
(* TLC instance of TurnSemaphore: four threads and the default of two      *)
(* permits, so that two turns can run while two wait in either order.      *)
(* Liveness is checked in the same run, hence no symmetry.                 *)
(***************************************************************************)
EXTENDS TurnSemaphore

CONSTANTS t1, t2, t3, t4

MCThreads == {t1, t2, t3, t4}
===============================================================================
