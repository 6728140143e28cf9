SPECIFICATION FairSpec
CONSTANTS
  c1 = c1
  c2 = c2
  chatgpt = chatgpt
  hoshikage = hoshikage
  m1 = m1
  alias = alias
  p1 = p1
  None = None
  Callers = {c1, c2}
  Http = {hoshikage}
  Chatgpt = chatgpt
  Upstream = {m1}
  Configured <- OneConfigured
  Requests <- TwoEach
  Cursors = {p1}
  PageLimit = 2
  MaxNews = 1
CHECK_DEADLOCK FALSE
INVARIANTS TypeOK UsableIsShown
PROPERTIES AnswersAreFresh EveryAskEnds
