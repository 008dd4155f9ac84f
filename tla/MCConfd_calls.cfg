SPECIFICATION Spec
CONSTANTS
  t1 = t1
  t2 = t2
  t3 = t3
  Clients <- TwoClients
  MaxCalls = 3
  MaxTag = 3
  kMaxInflight = 2
  kMaxPacketBuffers = 2
  ReplyForms <- OneForm
  SendMayFail = TRUE
SYMMETRY ClientSymmetry
INVARIANTS NoUseAfterFree CallerGetsItsReply
CHECK_DEADLOCK FALSE
