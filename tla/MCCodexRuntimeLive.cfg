SPECIFICATION FairSpec
CONSTANTS
  g1 = g1
  g2 = g2
  c1 = c1
  a1 = a1
  s1 = s1
  s2 = s2
  None = None
  Calls = {g1, g2}
  Gated = {g1, g2}
  Answers = {}
  Settings = {s1, s2}
  FirstSettings = s1
  MaxEdits = 2
  MaxAsks = 0
CHECK_DEADLOCK FALSE
INVARIANT RunsWithItsSettings
PROPERTIES FailureStopsProxy CallsEnd
