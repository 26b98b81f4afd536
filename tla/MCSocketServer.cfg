SPECIFICATION Spec
CONSTANTS
  NFd = 2
INVARIANTS
  SlotsOpen
  EventsFresh
  ConnectionsArmed
PROPERTY ConnectReported
CHECK_DEADLOCK FALSE
