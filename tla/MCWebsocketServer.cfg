SPECIFICATION Spec
CONSTANTS
  Conns = {c1, c2}
  NoConn = NoConn
  Users = {u1, u2}
  Registered = {u1}
  Keys = {k1, k2}
  MaxHandles = 2
  ReceiveLimit = 1
  Receivers = 1
  MaxRegisters = 1
INVARIANTS TypeOK HandlesLeadBack SessionsListed HandleUnlessMoved ReceiveBounded
PROPERTIES LoopGoesOn
CHECK_DEADLOCK FALSE
