\* The target makes the thread but cannot start its turn.
SPECIFICATION Spec
CONSTANTS
  MaxMessages = 2
  Budgets <- NoteMayFail
  None = None
INVARIANT RefusalMadeNothing
CHECK_DEADLOCK FALSE
