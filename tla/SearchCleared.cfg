SPECIFICATION QSpec
CONSTANTS
  Query = {q0, q1}
  NoQuery = q0
  Overtaking = FALSE
  MaxCalls = 1
  Unarmed = Unarmed
  AllNotes = AllNotes
  Nothing = Nothing
INVARIANTS ClearedShowsAll
