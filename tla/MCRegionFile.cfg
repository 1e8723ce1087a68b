SPECIFICATION Spec
CONSTANTS
  Slots <- MCSlots
  Versions = {"short", "long"}
  Size <- MCSize
  Missing = Missing
  Unreadable = Unreadable
  Idle = Idle
  Header = 1
  Ratio = 1
  Floor = 1
  MaxCells = 6
INVARIANTS FileInv
PROPERTIES ImplementsStore
