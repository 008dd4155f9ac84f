SPECIFICATION FairSpec
CONSTANTS
  t1 = t1
  t2 = t2
  Clients <- TwoClients
  MaxCalls = 2
  Bodies = {"config", "error", "short"}
  SendMayFail = TRUE
  CallersPreempt = TRUE
INVARIANTS ConfigIsActual LockGivenBack
PROPERTIES CallsReturn ImplementsRemoteCall
