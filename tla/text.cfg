SPECIFICATION MCSpec
CONSTANTS
  KeyCount = 2
  Ids <- MCIds
  Names <- MCNames
  Begins <- MCBegins
  Values = {"v", "w"}
  MaxTokens = 6
  RowCount = 2
  Cells <- MCCells
  Contents <- MCPlain
  Kinds <- MCKinds
  MaxPieces = 3
INVARIANTS MCTypeOK TokensInOrder LoadedAsWritten Expanded
CHECK_DEADLOCK FALSE
