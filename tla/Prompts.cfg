SPECIFICATION FairSpec
CONSTANTS
  p1 = p1
  p2 = p2
  onDemand = onDemand
  sync = sync
  EPTs = {p1, p2}
  Names = {onDemand, sync}
  EventName <- TwoNames
  Passive = {p2}
  ActionCancelable = 1
  ShutdownCancelable = 2
  Repeats = TRUE
  SelectableTime = TRUE
  Hours = 3
  LatestHour <- NoHour
  NotifierFails = TRUE
INVARIANTS
  TypeOK
  ShutdownDelayLimit
  ActionAbortLimit
PROPERTIES
  PutOffIsKept
  ShutdownComes
