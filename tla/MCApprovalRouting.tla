------------------------- MODULE MCApprovalRouting -------------------------
(***************************************************************************)
(* TLC instances of ApprovalRouting: a WebSocket client and two tabs, who  *)
(* may all start the one turn and answer its two questions.                *)
(***************************************************************************)
EXTENDS ApprovalRouting

CONSTANTS c1, b1, b2, t1, a1, a2

OneClient == {c1}
TwoTabs   == {b1, b2}
OneTurn   == {t1}
OneAsk    == {a1}
TwoAsks   == {a1, a2}
\* Sound: asks are interchangeable, and so are the tabs (any may be picked).
Interchangeable == Permutations(TwoAsks) \cup Permutations(TwoTabs)
=============================================================================
