SPECIFICATION Spec
CONSTANTS
  r0 = r0
  r1 = r1
  r2 = r2
  k1 = k1
  c1 = c1
  None = None
  Responses = {r0, r1, r2}
  Restored = {r0}
  Keys = {k1}
  Clients = {c1}
  Asks <- ControlAsks
  Inputs <- OneThread
  Outcomes = {"completed"}
  PermitLimit = 1
  MaxFaults = 1
CHECK_DEADLOCK FALSE
INVARIANTS InterruptSentOnce ControlNeverRacesNextStart LocksTakenInOrder
