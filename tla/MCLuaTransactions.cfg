SPECIFICATION Spec
CONSTANTS
  NoThread = NoThread
  Threads = {t1, t2, t3, t4}
  MaxFailures = 0
INVARIANTS TypeOK TransactionsExclusive FrontIsOwner OneEntryEach NoLostWakeup
PROPERTIES ImplementsFifoLock
