SPECIFICATION FairSpec
CONSTANTS
  Workers = {w1, w2, w3}
  Elens = {2}
  InitCap = 2
  MaxOps = 4
INVARIANTS Exclusion LogIntact ReadSnapshot NoLostWakeup
PROPERTIES WriterPriority EveryCallReturns
CHECK_DEADLOCK FALSE
