SPECIFICATION PageSpec
CONSTANTS
  Query = {q0, q1, q2}
  NoQuery = q0
  Overtaking = FALSE
  MaxCalls = 2
  Unarmed = Unarmed
  AllNotes = AllNotes
  Nothing = Nothing
  Text = {x, y}
  NoItem = NoItem
  NoText = NoText
INVARIANTS Settled ShowsItsList Unclobbered
PROPERTIES TitleFlushed
