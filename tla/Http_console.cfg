SPECIFICATION HttpSpec
CONSTANTS
  u1 = u1
  u2 = u2
  nil = nil
  MaxNode = 4
  FirstNode = 3
  StoredTrees <- Trees
  Plain = {p1}
  WithFiles = {f1}
  Broken = {b1}
  MaxSends = 2
  MaxChunks = 1
  MaxHistory = 1
  Editable = {r1}
  MaxVersion = 4
  MaxOpenings = 2
  MaxCalls = 2
  MaxForms = 2
  MaxFiles = 2
  MaxRows = 2
  Scopes = 2
  MaxGiven = 2
  Urls = {u1, u2, nil}
  NoUrl = nil
  MaxImportId = 16
  Documents <- Docs
INVARIANTS
  RowsSound
  MessageSound
  TreeSound
PROPERTIES
  DeletesOnlyAsked
  SendSound
  ImportSound
  ShownGetsToDisk
CHECK_DEADLOCK FALSE
