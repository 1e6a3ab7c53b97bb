SPECIFICATION PSpec
CONSTANTS
  Versions = {1, 2, 3}
  Rebuilds = {2}
  Beside = FALSE
  MaxCrashes = 2
  MaxStops = 1
INVARIANTS StartupTypeOK AppliedInOrder ServesEnforced
  
