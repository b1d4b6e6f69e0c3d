SPECIFICATION Spec
CONSTANTS
  Callers = {c1, c2}
  None = None
  Reads <- MCReads
  Sends <- MCSends
  ExactBelow = 4
  Requests <- MCRequests
  Builds <- MCBuilds
  MaxAttempt = 2
  MaxResponse = 1
  Statuses = {200, 404, 503}
INVARIANTS TypeOK AnswersOwnQuestion WritesAreSentOnce OnlyWholeAnswersAreServed
SYMMETRY Symmetry
CHECK_DEADLOCK FALSE
