SPECIFICATION Spec
CONSTANTS
  None = None
  Guests = {"g1", "g2"}
  Kinds = {"log", "chest"}
  Chest = "chest"
  Deep = {"g2"}
  MaxStack <- MCMaxStack
  Start <- MCStart
  Lookers <- MCLookers
  PackSize = 1
  GridSize = 1
  ChestSize = 1
  MaxActs = 2
  MaxInFlight = 1
CHECK_DEADLOCK FALSE
INVARIANT CustodyInv ItemsConserved
PROPERTY ViewsSettle
