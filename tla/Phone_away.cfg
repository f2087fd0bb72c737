\* The computer the phone is at breaks off while a thread of another machine shows.
SPECIFICATION FairSpec
CONSTANTS
  Machines <- MCMachines
  Home = "home"
  Budgets <- AwayOnly
  None = None
PROPERTIES AwayFollows
CHECK_DEADLOCK FALSE
