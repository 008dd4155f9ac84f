SPECIFICATION Spec
CONSTANTS
  t1 = t1
  t2 = t2
  t3 = t3
  Clients <- ThreeClients
  MaxCalls = 1
  MaxTag = 5
  kMaxInflight = 4
  kMaxPacketBuffers = 2
  ReplyForms <- OneForm
  SendMayFail = FALSE
SYMMETRY ClientSymmetry
CHECK_DEADLOCK FALSE
INVARIANTS PacketBuffersBounded
