\* Two receivers that come and go; events within and above the byte limit.
SPECIFICATION FairSpec
CONSTANTS
  r1 = r1
  r2 = r2
  small = small
  oversized = oversized
  Lost = Lost
  Receivers = {r1, r2}
  FirstReceiver = r1
  Events = {small, oversized}
  Size <- MCSize
  Capacity = 2
  ByteLimit = 3
  MaxSend = 3
INVARIANTS
  TypeOK
  WithinBudget
  NoSilentGap
PROPERTIES
  EveryEventHeard
CHECK_DEADLOCK FALSE
