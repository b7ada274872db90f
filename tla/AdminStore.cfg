\* Two administrators and two rows.
CONSTANTS
  Ann = Ann
  Bob = Bob
  RowX = RowX
  RowY = RowY
  Admins <- Both
  Rows <- TwoRows
  Secret <- RowX
  Edits = 2
  Writes = 3
  Documents <- AllDocuments
  Stores <- AllStores
SYMMETRY TwoAdmins
SPECIFICATION Spec
INVARIANTS
  TypeOK
PROPERTIES
  OverwritesSeen
  SavesWhatWasSent
CHECK_DEADLOCK FALSE
