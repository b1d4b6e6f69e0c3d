SPECIFICATION Spec
CONSTANTS
  Callers = {c1, c2}
  None = None
  Reads <- MCReads
  Sends <- MCSends
  ExactBelow = 4
  Requests <- MCRequests
  Builds <- MCBuilds
  MaxAttempt = 1
  MaxResponse = 1
  Statuses = {200}
INVARIANT SharedAnswersAreExact
SYMMETRY Symmetry
CHECK_DEADLOCK FALSE
