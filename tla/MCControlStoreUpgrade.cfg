SPECIFICATION Spec
CONSTANTS
  i1 = i1
  i2 = i2
  i3 = i3
  i4 = i4
  t1 = t1
  u1 = u1
  k1 = k1
  k2 = k2
  b1 = b1
  None = None
  Ids = {i1, i2, i3, i4}
  Threads = {t1}
  Turns = {u1}
  Keys = {k1, k2}
  Bodies = {b1}
  LegacyTable <- NoTable
  LegacyLog <- FinishedLog
  LegacyMapped = {i3, i4}
  Observable = {"inProgress", "completed"}
  MaxStarts = 2
  MaxObserving = 1
SYMMETRY Symmetric
CHECK_DEADLOCK FALSE
INVARIANT ImportKeepsLatestState
