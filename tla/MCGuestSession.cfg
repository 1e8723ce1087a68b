SPECIFICATION Spec
CONSTANTS
  None = None
  Conns = {"a", "b", "c"}
  Principals = {"d", "e", "account"}
  Players = {x, y}
  Proofs <- MCProofs
  MayFail <- MCMayFail
  MaxGain = 2
  MaxFaults = 2
INVARIANTS SessionInv StoreAlwaysLoads BanHolds
PROPERTY ImplementsBook
