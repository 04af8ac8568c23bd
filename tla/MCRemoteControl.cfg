SPECIFICATION Spec
CONSTANTS
  rOpen = rOpen
  rOther = rOther
  rExec = rExec
  rHalt = rHalt
  rClose = rClose
  rStop = rStop
  Req <- MCReq
  Op <- MCOp
  Sid <- MCSid
  StopVerbs <- MCHalts
  Channels = {1, 2}
  Grants <- MCGrants
  Limits <- MCLimits
  Window = 1
  ReplayTTL = 2
  SeenCap = 6
  Drift = 1
  StaleSkew = 1
  SessionMax = 2
  MaxSessions = 1
  MaxPending = 2
  Backlog = 2
INVARIANTS TypeOK ActsOnce NoOrphanSession ChannelKept ShownInOrder NoGap NothingAfterLoss
PROPERTIES ConsoleCloses
CHECK_DEADLOCK FALSE
