SPECIFICATION Spec
CONSTANTS
  Elem = {e1, e2, e3}
  Device = {d1, d2}
  Base = 2
  Sort = "items"
  MayHide = TRUE
  MaxLen = 3
  NoKey = NoKey
  NoWalk = NoWalk
SYMMETRY Alike
INVARIANTS Between NeverEndsInMinimumDigit
