\* Liveness with one stop; the provider may ignore it.  No symmetry.
SPECIFICATION FairSpec
CONSTANTS
  Messages = {m1, m2}
  MaxSessions = 2
  Budgets <- Live
  None = None
PROPERTIES TurnsEnd StopEnds
CHECK_DEADLOCK FALSE
