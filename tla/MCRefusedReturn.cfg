SPECIFICATION Spec
CONSTANTS
  p1 = p1
  p2 = p2
  home = home
  Blank = Blank
  NoRev = NoRev
  NoPage = NoPage
  Panes <- TwoPanes
  Pages <- TwoPages
  MaxTakes = 1
  MaxRev = 1
  MaxFails = 1
SYMMETRY Alike
CHECK_DEADLOCK FALSE
PROPERTIES
  RefusedIsUndone
