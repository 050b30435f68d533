SPECIFICATION Spec
CONSTANTS
  MaxThreads = 2
  Tids = {w1, w2, w3}
  Clients = {c1, c2, c3}
  NoClient = NoClient
INVARIANTS TypeOK SlotsConserved ServedWithHandle OrphansOfVanished
PROPERTIES EventuallyAccepted
