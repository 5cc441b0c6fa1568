SPECIFICATION Spec
CONSTANTS
  committed = committed
  fresh = fresh
  top = top
  end = end
  NoFile = NoFile
  NoEntry = NoEntry
  NoTree = NoTree
  Files <- BothFiles
  Regions <- BothRegions
  Tracked <- FirstFile
  Batches <- UpToThree
  MaxCalls = 3
  MaxEdits = 1
  MaxFails = 0
INVARIANTS
  RolledBackNotOnDisk
