CONSTANT MaxAttempt = 4
SPECIFICATION FairSpec
INVARIANTS
  TypeOK
  EveryCallRecordedOnce
  EveryCallProvoked
  CountersExplainTheChain
  HedgeOvertakesOpenCall
  VerdictOnEvidence
PROPERTY EveryRequestEnds
CHECK_DEADLOCK FALSE
