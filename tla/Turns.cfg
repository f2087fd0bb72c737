\* Resumed turns, restarts and mishaps, each within its own budget.
SPECIFICATION Spec
CONSTANTS
  Messages = {m1, m2}
  MaxSessions = 2
  Budgets <- Ways
  None = None
SYMMETRY MessageSymmetry
INVARIANTS TypeOK OneTurn StartedOnce EndedOnce OneProcess NoOrphanedRun
PROPERTIES SweepSpares TurnHistory
CHECK_DEADLOCK FALSE
