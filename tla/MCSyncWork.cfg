SPECIFICATION SSpec
CONSTANTS
  n1 = n1
  n2 = n2
  i1 = i1
  l1 = l1
  x = x
  y = y
  Blank = Blank
  DefaultColor = DefaultColor
  FirstKey = FirstKey
  Nil = Nil
  NoRow = NoRow
  NoReply = NoReply
  Text = {x, y, Blank, DefaultColor, FirstKey}
  NoteId = {n1}
  ItemId = {i1}
  LabelId = {l1}
  LabelName = {"work"}
  NoteOf <- AllOn1
  PastLabels <- Labels
  Torn = FALSE
  Client = {0, 1}
  Skew <- InStep
  MinDelay = 1
  Overtaking = FALSE
  Slots = {1, 2}
  Plans <- Work
  Typed = {x}
  MaxTime = 3
INVARIANTS SyncTypeOK  NoEditLost 
 
