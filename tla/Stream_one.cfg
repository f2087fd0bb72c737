\* One emitter: events are published in the order of the log.
SPECIFICATION FairSpec
CONSTANTS
  Receivers = {1, 2}
  Events <- MCEvents
  Size <- MCSize
  Capacity = 1
  ByteLimit = 5
  Emitters = {e1}
  MaxEvents = 2
  MaxFailures = 2
  GapLimit = 1
  None = None
INVARIANTS TypeOK NoGap NoLeakedSubscription
PROPERTY EventsArrive
CHECK_DEADLOCK FALSE
