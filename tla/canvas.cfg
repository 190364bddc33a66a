SPECIFICATION Spec
CONSTANTS
  Client = {a, b}
  Author = {a}
  MaxFaults = 1
  MaxEvents = 3
  MaxInFlight = 1
CHECK_DEADLOCK FALSE
INVARIANTS VisibleByLastEdit CanvasAgrees NoDoubles EditsReachable OneLiveSocket
PROPERTY ComesBack
