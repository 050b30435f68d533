SPECIFICATION Spec
CONSTANTS
  Workers = {w1, w2}
  MaxName = 2
  Values = {v1, v2}
  None = None
  MaxCommands = 4
  Width = 8
SYMMETRY Interchangeable
INVARIANTS TypeOK ExactUnlessRaced SizeNeverAhead GrowsInTurns AppendsWhole FeedTellsStore
PROPERTIES FrozenBehind
CHECK_DEADLOCK FALSE
