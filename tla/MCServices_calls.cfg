SPECIFICATION ServicesSpec
CONSTANTS
  t1 = t1
  t2 = t2
  Clients <- TwoClients
  MaxCalls = 2
  MaxServiceCalls = 2
  MaxTag = 3
  kMaxInflight = 2
  kMaxPacketBuffers = 2
  ReplyForms <- OneForm
  ResBodies = {"config", "short"}
  SendMayFail = TRUE
  CallersPreempt = TRUE
CHECK_DEADLOCK FALSE
INVARIANTS SharedSlotSafe
PROPERTIES ServicesReturn
