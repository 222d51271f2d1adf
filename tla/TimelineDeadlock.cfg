SPECIFICATION TimelineFairSpec
CONSTANTS
  Writers = {v, w}
  NoWriter = NoWriter
CHECK_DEADLOCK FALSE
PROPERTY AddEventReturns
