SPECIFICATION Spec
CONSTANTS
  p1 = p1
  p2 = p2
  k1 = k1
  k2 = k2
  f1 = f1
  NoPath = NoPath
  NoSlot = NoSlot
  Procs <- OneProc
  Slots <- TwoSlots
  Paths <- OnePath
  Payloads <- PathKnown
  Events <- RaceEvents
  Faults <- AllFaults
  MaxSessions = 1
  MaxSize = 2
CHECK_DEADLOCK FALSE
PROPERTY LogSpec
