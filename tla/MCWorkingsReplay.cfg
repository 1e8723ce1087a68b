SPECIFICATION Spec
CONSTANTS
  None = None
  MayFail = {}
  MaxWorkings = 1
  MaxEdits = 0
  MaxFaults = 0
  MaxCrashes = 1
INVARIANT ReplayNeverRefuses
CHECK_DEADLOCK FALSE
