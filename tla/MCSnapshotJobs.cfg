SPECIFICATION PoolSpec
CONSTANTS
  Workers = {w1, w2}
  Tasks = {j1, j2, j3}
  NoJob = NoJob
  Limit = 2
INVARIANT PoolInv
PROPERTIES Answered ShutdownCompletes ImplementsBoard
