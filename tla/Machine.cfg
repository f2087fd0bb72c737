\* A machine with two routes.
SPECIFICATION FairSpec
CONSTANTS
  MaxRoutes = 2
  MaxRuns = 4
  Budgets <- Ways
  None = None
INVARIANTS TypeOK NothingLeaks NeverIdle
PROPERTY Connects
CHECK_DEADLOCK FALSE
