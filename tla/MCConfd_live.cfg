SPECIFICATION FairSpec
CONSTANTS
  t1 = t1
  t2 = t2
  t3 = t3
  Clients <- TwoClients
  MaxCalls = 2
  MaxTag = 3
  kMaxInflight = 2
  kMaxPacketBuffers = 2
  ReplyForms <- WellFormed
  SendMayFail = FALSE
INVARIANTS NoResourcePanic
PROPERTIES CallsReturn ImplementsRemoteCall
