SPECIFICATION FairSpec
CONSTANTS
  Upstreams = {u1, u2, u3}
  Tasks = {t1}
  MaxAttempt = 2
  Deciders = {"LEAST_LATENCY"}
  ProbeEvery = 2
  Ticks = 1
  MinSamples = 1
  Scores = {4, 6}
PROPERTY NobodyStarves
