CONSTANTS
  None = None
  m1 = m1
  m2 = m2
  m3 = m3
  Messages = {m1, m2, m3}
  Allowed = {m1, m2}
  Times <- MCTimes
  InboundCap = 1
  MergedCap = 1
  AutoRefresh = autorefresh
SPECIFICATION FairSpec
INVARIANT AckedIsKept
PROPERTY PipelineDrains
CHECK_DEADLOCK FALSE
