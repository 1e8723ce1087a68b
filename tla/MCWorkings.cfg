SPECIFICATION Spec
CONSTANTS
  None = None
  MayFail = {"commit", "workings", "place"}
  MaxWorkings = 2
  MaxEdits = 1
  MaxFaults = 1
  MaxCrashes = 2
INVARIANTS CustodyInv PaidIsDelivered ChannelsAreHeld
PROPERTIES RitualSettles ImplementsCustody
CHECK_DEADLOCK FALSE
