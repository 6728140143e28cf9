SPECIFICATION Spec
CONSTANTS
  r0 = r0
  r1 = r1
  r2 = r2
  k1 = k1
  c1 = c1
  None = None
  Responses = {r0, r1, r2}
  Restored = {r0}
  Keys = {k1}
  Clients = {}
  Asks = {}
  Inputs <- Conversations
  Outcomes = {"completed", "failed"}
  PermitLimit = 1
  MaxFaults = 2
CHECK_DEADLOCK FALSE
INVARIANTS TypeOK OneActiveTurnPerThread KeyStartsOneTurn SendBoundaryDurable
  OutcomesAreReal SuppressionSticks
PROPERTIES LedgerKept
