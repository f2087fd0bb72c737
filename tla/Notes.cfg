\* One note, opened twice on a phone.
SPECIFICATION FairSpec
CONSTANTS
  Texts = {"", "a", "b"}
  Blank = ""
  Starts = {""}
  MaxOpenings = 2
  Budgets <- Ways
  None = None
  Conflict = Conflict
INVARIANTS TypeOK NothingLost
PROPERTIES NoOverwrite TrueAlarm DraftsGo
CHECK_DEADLOCK FALSE
