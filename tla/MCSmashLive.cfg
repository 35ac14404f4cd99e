SPECIFICATION FairSpec
CONSTANTS
  Pids = {p1, p2}
  Signals = {"KILL", "STOP", "CONT"}
  MaxJobId = 2
PROPERTY CommandReturns
CHECK_DEADLOCK FALSE
