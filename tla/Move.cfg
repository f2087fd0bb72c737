\* Timeouts, outages, restarts and requests of users around one move, with mishaps and without.
SPECIFICATION FairSpec
CONSTANTS
  MaxMessages = 2
  Budgets <- WithAndWithout
  None = None
INVARIANTS TypeOK OneOwner NeverLost
PROPERTIES Handover MoveEnds
CHECK_DEADLOCK FALSE
