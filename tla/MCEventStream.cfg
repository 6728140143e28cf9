SPECIFICATION FairSpec
CONSTANTS
  Modes = {"responses", "chat", "json", "monitor"}
  Ring = 2
  Slots = 1
  StallAfter = 1
  IdleAfter = 3
  Confirmations = 2
  MaxPieces = 2
CHECK_DEADLOCK FALSE
INVARIANTS TypeOK LeftTurnIsStopped MonitorKnowsPending
PROPERTIES StreamKept StreamEnds
