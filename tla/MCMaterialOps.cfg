SPECIFICATION Spec
CONSTANTS
  None = None
  Cells = {a, b}
  Natural = {a}
  MayFail = {"checkpoint", "journal"}
  MaxOps = 2
  MaxLosses = 1
  MaxEdits = 1
  MaxSaves = 1
  MaxCrashes = 2
INVARIANTS LedgerInv MemoryIsDurable
PROPERTY ImplementsBook
CHECK_DEADLOCK FALSE
