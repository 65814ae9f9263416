SPECIFICATION Spec
CONSTANTS
  p1 = p1
  p2 = p2
  k1 = k1
  k2 = k2
  f1 = f1
  NoPath = NoPath
  NoSlot = NoSlot
  Procs <- OneProc
  Slots <- OneSlot
  Paths <- OnePath
  Payloads <- OnePayload
  Events <- AllEvents
  Faults <- AllFaults
  MaxSessions = 2
  MaxSize = 3
CHECK_DEADLOCK FALSE
INVARIANTS SnapshotMatchesChunks SingleActiveSession PushSynchronizes
PROPERTIES StartRealigns NoUploadAfterClose
