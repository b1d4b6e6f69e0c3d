SPECIFICATION Spec
CONSTANTS
  Writers = {w1}
  Durations = {1, 4}
  Ladder = 2
  Penalty = 3
  MaxCalls = 2
  MaxSnapshots = 2
INVARIANTS TypeOK TornByOverlapOnly ScoreIsTheMeanCost
CHECK_DEADLOCK FALSE
