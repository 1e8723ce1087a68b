\* Safety and refinement: three chunks contend for a budget of two.
CONSTANTS
  w1 = w1
  w2 = w2
  a = a
  b = b
  c = c
  NoPos = NoPos
  Workers <- MCWorkers
  Positions <- MCPositions
  Limit = 2
  MaxGeneration = 2
SPECIFICATION PoolSpec
INVARIANT PoolInv
PROPERTIES EntryResolves ShutdownCompletes FailureStopsAll ImplementsBoard
