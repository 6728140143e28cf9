SPECIFICATION Spec
CONSTANTS
  Modes = {"monitor"}
  Ring = 2
  Slots = 2
  StallAfter = 1
  IdleAfter = 3
  Confirmations = 2
  MaxPieces = 1
CHECK_DEADLOCK FALSE
INVARIANT MonitorLearnsEnd
