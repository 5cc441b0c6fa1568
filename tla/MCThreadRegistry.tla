--------------------------- MODULE MCThreadRegistry ---------------------------
(***************************************************************************)
(* TLC instances of ThreadRegistry.                                        *)
(***************************************************************************)
EXTENDS ThreadRegistry, TLC

CONSTANTS minted, chosen, o1, o2, c1, c2

MintedOnly == {minted}
ChosenOnly == {chosen}
BothIds == {minted, chosen}
TwoObjects == {o1, o2}
OneCaller == {c1}
TwoCallers == {c1, c2}
NoIds == {}

ObjectSymmetry == Permutations(Objects)
===============================================================================
