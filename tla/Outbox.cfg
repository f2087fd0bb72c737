\* Two items of one kind, fair worker.
SPECIFICATION FairSpec
CONSTANTS
  a = a
  b = b
  Items = {a, b}
  Kinds = {"send"}
  KindOf <- MCKindOf
  None = None
  Budgets <- MCBudgets
INVARIANTS TypeOK DeliveredWasTaken
PROPERTIES CancelSticks Settles
