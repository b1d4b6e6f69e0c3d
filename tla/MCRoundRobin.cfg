SPECIFICATION FairSpec
CONSTANTS
  Size = 3
  Tasks = {t1, t2, t3, t4}
  MaxAttempt = 3
  Wrap = 16
INVARIANTS TypeOK TurnsAreEven
PROPERTY EveryoneLeads
