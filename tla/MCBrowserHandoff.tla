--------------------------- MODULE MCBrowserHandoff ---------------------------
(***************************************************************************)
(* TLC instances of BrowserHandoff: two panes and a browser with two URLs, *)
(* one of them about:blank.                                                *)
(***************************************************************************)
EXTENDS BrowserHandoff, TLC

CONSTANTS p1, p2, home

TwoPanes == {p1, p2}
TwoPages == {home, Blank}
Alike == Permutations(TwoPanes)
===============================================================================
