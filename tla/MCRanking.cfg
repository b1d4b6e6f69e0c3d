SPECIFICATION Spec
CONSTANTS
  Upstreams = {u1, u2, u3}
  Tasks = {t1}
  MaxAttempt = 3
  Deciders = {"LEAST_LATENCY", "PREFER_LEAST_ERRORS"}
  ProbeEvery = 2
  Ticks = 2
  MinSamples = 1
  Scores = {4, 5, 6}
SYMMETRY Interchangeable
INVARIANTS TypeOK ChainsAreDistinct ScoresCoverTheWindow
PROPERTIES HeadIsSticky OvertakingIsEarned
