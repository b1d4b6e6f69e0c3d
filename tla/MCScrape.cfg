SPECIFICATION Spec
CONSTANTS
  Chains = {c1, c2}
  Fleet <- MCFleet
  Methods <- MCMethods
  Orders <- MCOrders
  LastBound = 1
  MaxScrapes = 2
SYMMETRY AnyChain
INVARIANTS TypeOK ScrapeAddsUp
PROPERTY ScrapesOnlyGrow
CHECK_DEADLOCK FALSE
