CONSTANTS
  Callers = {c1, c2, c3}
  Keys = {k1, k2}
  None = None
SPECIFICATION FairSpec
INVARIANTS
  TypeOK
  OneOpenFlightPerKey
  EntriesAreUnfinishedFlights
  NoForeignId
  WaitersHoldLiveFlights
PROPERTIES
  ImplementsPromise
  FlightsEnd
CHECK_DEADLOCK FALSE
