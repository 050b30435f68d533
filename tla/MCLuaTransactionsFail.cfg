SPECIFICATION Spec
CONSTANTS
  NoThread = NoThread
  Threads = {t1, t2, t3}
  MaxFailures = 2
INVARIANTS TransactionsExclusive FrontIsOwner WaitersQueued
PROPERTIES ServedUnlessAbandoned
