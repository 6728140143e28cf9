SPECIFICATION FairSpec
CONSTANTS
  a1 = a1
  t1 = t1
  t2 = t2
  th = th
  c1 = c1
  None = None
  Approvals = {a1}
  Turns = {t1, t2}
  Threads = {th}
  ThreadOf <- OneThread
  Clients = {c1}
  Shapes <- FourShapes
  Rules <- TwoRules
  AutoApprove = TRUE
  MaxLags = 1
CHECK_DEADLOCK FALSE
INVARIANTS TypeOK AnswerIsRecorded RunningTurnHasItsContext
  SuppressedNeverAutoApproved CompletedTurnHasNoPending
PROPERTIES ContractKept PendingSettles RequestsAnswered
