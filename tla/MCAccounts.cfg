\* One account more than the array of a reader has room for; ids up to 3; names
\* that come back changed, as "~", or as they were.
CONSTANTS
  p1 = p1
  p2 = p2
  p3 = p3
  Node <- MCNode
  NULL = NULL
  Free = Free
  Reader = {r}
  Name = {"", "~", "~~"}
  Empty = ""
  Unset = Unset
  Torn = Torn
  Text <- MCText
  Level <- MCLevel
  Decimal <- MCDecimal
  Short <- MCShort
  Printed <- MCPrinted
  Ascii <- MCAscii
  Recoded <- MCRecoded
  Files <- MCFiles
  MaxAmount = 2
  MaxId = 3
  MaxUnsaved = 1
SPECIFICATION Spec
SYMMETRY MCSymmetry
CONSTRAINT ReadersApart
INVARIANTS TypeOK FileIsCurrent
PROPERTIES ImplementsTable FaultsHaveCause SettingsStay
CHECK_DEADLOCK FALSE
