SPECIFICATION Spec
CONSTANTS
  g1 = g1
  g2 = g2
  c1 = c1
  a1 = a1
  s1 = s1
  s2 = s2
  None = None
  Calls = {g1, c1}
  Gated = {g1}
  Answers = {a1}
  Settings = {s1, s2}
  FirstSettings = s1
  MaxEdits = 0
  MaxAsks = 1
CHECK_DEADLOCK FALSE
INVARIANTS TypeOK NothingBehindHalfALine AnswersReachTheirCall NobodyWaitsInVain
