\* The computer the phone is at and another machine, with one thread each.
SPECIFICATION FairSpec
CONSTANTS
  Machines <- MCMachines
  Home = "home"
  Budgets <- BothWays
  None = None
INVARIANTS TypeOK NoGap
PROPERTIES NeverBack CatchesUp
CHECK_DEADLOCK FALSE
