SPECIFICATION CSpec
CONSTANTS
  Device = {1, 2}
  Base = 3
  WallWidth = 2
  CtrWidth = 2
  MaxWall = 3
  MaxIssued = 3
INVARIANTS StrictlyIncreasing OrderPreserved Unique
