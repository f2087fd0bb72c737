\* Two emitters: the second to append may publish first.
SPECIFICATION Spec
CONSTANTS
  Receivers = {1}
  Events <- MCEvents
  Size <- MCSize
  Capacity = 2
  ByteLimit = 5
  Emitters = {e1, e2}
  MaxEvents = 2
  MaxFailures = 1
  GapLimit = 1
  None = None
INVARIANT NoGap
CHECK_DEADLOCK FALSE
