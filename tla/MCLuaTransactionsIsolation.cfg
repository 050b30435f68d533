SPECIFICATION SafetySpec
CONSTANTS
  NoThread = NoThread
  Threads = {t1, t2}
  MaxFailures = 0
INVARIANTS TransactionIsolated
