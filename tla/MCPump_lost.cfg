SPECIFICATION PumpSpec
CONSTANTS
  t1 = t1
  t2 = t2
  Clients <- TwoClients
  MaxKicks = 2
INVARIANTS MessageNotForgotten
