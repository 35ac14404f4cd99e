SPECIFICATION FairSpec
CONSTANTS
  Workers = {w1, w2}
  Conns = {c1, c2}
  NoConn = none
  Cap = 1
INVARIANTS ReadYourWrites StatsAddUp TimesInOrder
PROPERTY EveryConnectionEnds
CHECK_DEADLOCK FALSE
