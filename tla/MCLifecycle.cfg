CONSTANTS
  Clients = {c1, c2}
  Ranked = TRUE
  MaxSignals = 2
SPECIFICATION FairSpec
INVARIANTS
  TypeOK
  OrderlyStop
PROPERTIES
  NoRefreshAfterTheEnd
  RefresherStops
  CaughtSignalEnds
CHECK_DEADLOCK FALSE
