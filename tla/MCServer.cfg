SPECIFICATION PartSpec
CONSTANTS
  n1 = n1
  n2 = n2
  i1 = i1
  l1 = l1
  l2 = l2
  x = x
  Blank = Blank
  DefaultColor = DefaultColor
  FirstKey = FirstKey
  Nil = Nil
  NoRow = NoRow
  NoTx = NoTx
  Text = {x, Blank, DefaultColor, FirstKey}
  NoteId = {n1, n2}
  ItemId = {i1}
  LabelId = {l1, l2}
  LabelName = {work, home}
  NoteOf <- OwnerOf
  Stamp = {1, 2}
  Mutation <- Mutations
  Upload <- Uploads
  Retention = 1
  MaxSeq = 4
  MaxTime = 2
  NoteSeq = 4
INVARIANTS TypeOK PinnedArchivedExclusive LastWriteWins NoOrphans NewerEditRevives IndexInSync AudioHasRecording
PROPERTIES ChangesVisible
