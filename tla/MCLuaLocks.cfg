SPECIFICATION Spec
CONSTANTS
  Threads = {t1, t2, t3}
  Locks = {l1, l2}
  NoThread = NoThread
INVARIANTS TypeOK
PROPERTIES OnlyOwnerUnlocks FrozenOnceBlocked CallsReturnUntilBlocked
CHECK_DEADLOCK FALSE
