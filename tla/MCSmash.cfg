SPECIFICATION Spec
CONSTANTS
  Pids = {p1, p2, p3}
  Signals = {"STOP"}
  MaxJobId = 3
SYMMETRY Symmetry
INVARIANT EachChildOnce
INVARIANT CopyIsFresh
PROPERTY CtrlCSparesJobs
CHECK_DEADLOCK FALSE
