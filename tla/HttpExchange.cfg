CONSTANTS
  RioBuf = 3
  MaxLine = 4
  MaxBuf = 6
  SockBuf = 5
  TextLens = {1, 4, 5}
  BodyLens = {0, 1, 7, 13}
SPECIFICATION FairExchange
INVARIANTS ResponseExact NothingLeftUnread
PROPERTIES ExchangeEnds
CHECK_DEADLOCK FALSE
