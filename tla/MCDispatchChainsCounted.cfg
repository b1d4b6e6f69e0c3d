SPECIFICATION Spec
CONSTANT MaxAttempt = 2
INVARIANT EveryChainIsCounted
CHECK_DEADLOCK FALSE
