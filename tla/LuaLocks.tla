------------------------------ MODULE LuaLocks ------------------------------
(***************************************************************************)
(* The named locks of Lua scripts (l_try_lock, l_lock and l_unlock in      *)
(* lua_script.cpp).  The map of locks is guarded by lua_lock_map_mutex,    *)
(* and l_lock still holds it while it waits for the named lock.  A thread  *)
(* unlocks only locks it holds and does not lock one twice: anything else  *)
(* is undefined for std::mutex.                                            *)
(***************************************************************************)
EXTENDS Naturals

CONSTANTS Threads,      \* the threads that run Lua code
          Locks,        \* the names of locks
          NoThread      \* the owner of a free mutex

ASSUME LockThreadsAssumption == NoThread \notin Threads

VARIABLES lua_lock_map_mutex,   \* its owner
          owner,                \* the owner of each named lock
          call                  \* what each thread is doing, see TypeOK

vars == <<lua_lock_map_mutex, owner, call>>

Idle == [op |-> "none"]
Calls == [op : {"try_lock", "lock", "unlock", "blocked"}, name : Locks]
Blocked(t) == call[t].op = "blocked"

Init ==
  /\ lua_lock_map_mutex = NoThread
  /\ owner = [l \in Locks |-> NoThread]
  /\ call = [t \in Threads |-> Idle]

\* The script calls one of the three functions.
Call(t, op, l) ==
  /\ call[t] = Idle
  /\ (op = "unlock") = (owner[l] = t)
  /\ call' = [call EXCEPT ![t] = [op |-> op, name |-> l]]
  /\ UNCHANGED <<lua_lock_map_mutex, owner>>

Return(t) == call' = [call EXCEPT ![t] = Idle]

\* lua_lock_map_mutex is taken and given back within the step.
Calling(t, op) == call[t].op = op /\ lua_lock_map_mutex = NoThread

\* Slip: the lock is taken whether or not it is free.
TryLockBlindly(t) ==
  /\ Calling(t, "try_lock")
  /\ owner' = [owner EXCEPT ![call[t].name] = t]
  /\ Return(t)
  /\ UNCHANGED lua_lock_map_mutex

TryLock(t) ==
  /\ Calling(t, "try_lock")
  /\ owner' = [owner EXCEPT ![call[t].name] = IF @ = NoThread THEN t ELSE @]
  /\ Return(t)
  /\ UNCHANGED lua_lock_map_mutex

\* The named lock is free, at once or after the thread has waited for it.
LockFree(t) ==
  /\ Calling(t, "lock") \/ Blocked(t)
  /\ owner[call[t].name] = NoThread
  /\ owner' = [owner EXCEPT ![call[t].name] = t]
  /\ lua_lock_map_mutex' = NoThread
  /\ Return(t)

\* Slip: the map mutex is released before waiting.
LockTakenLetGo(t) ==
  /\ Calling(t, "lock")
  /\ owner[call[t].name] # NoThread
  /\ call' = [call EXCEPT ![t].op = "blocked"]
  /\ UNCHANGED <<lua_lock_map_mutex, owner>>

\* The thread waits for the named lock and keeps lua_lock_map_mutex.
LockTaken(t) ==
  /\ Calling(t, "lock")
  /\ owner[call[t].name] # NoThread
  /\ lua_lock_map_mutex' = t
  /\ call' = [call EXCEPT ![t].op = "blocked"]
  /\ UNCHANGED owner

\* Slip: the lock stays taken, the next call on it never comes to an end.
UnlockNothing(t) ==
  /\ Calling(t, "unlock")
  /\ UNCHANGED <<lua_lock_map_mutex, owner, call>>

\* Slip: the lock is erased from the map with its last owner.
UnlockErasing(t) ==
  /\ Calling(t, "unlock")
  /\ owner' = [l \in DOMAIN owner \ {call[t].name} |-> owner[l]]
  /\ Return(t)
  /\ UNCHANGED lua_lock_map_mutex

Unlock(t) ==
  /\ Calling(t, "unlock")
  /\ owner' = [owner EXCEPT ![call[t].name] = NoThread]
  /\ Return(t)
  /\ UNCHANGED lua_lock_map_mutex

Body(t) == TryLock(t) \/ LockFree(t) \/ LockTaken(t) \/ Unlock(t)

Next ==
  \E t \in Threads :
    \/ \E l \in Locks, op \in {"try_lock", "lock", "unlock"} : Call(t, op, l)
    \/ TryLock(t) \/ LockFree(t) \/ LockTaken(t) \/ Unlock(t)

\* A thread waiting for lua_lock_map_mutex gets it in the end if it is free
\* again and again.
Spec == Init /\ [][Next]_vars /\ \A t \in Threads : SF_vars(Body(t))
-----------------------------------------------------------------------------
TypeOK ==
  /\ lua_lock_map_mutex \in Threads \cup {NoThread}
  /\ owner \in [Locks -> Threads \cup {NoThread}]
  /\ call \in [Threads -> {Idle} \cup Calls]

\* A lock passes from its owner to nobody, and only by an unlock the owner
\* called: neither a lock nor a failed try_lock takes it away.
OnlyOwnerUnlocks ==
  [][\A l \in Locks : owner[l] \in Threads /\ owner'[l] # owner[l] =>
       owner'[l] = NoThread /\ call[owner[l]] = [op |-> "unlock", name |-> l]]_vars

\* Once a thread has met a taken lock in l_lock, no named lock of the process
\* is ever taken or released again: the owner it waits for cannot unlock,
\* because l_unlock needs lua_lock_map_mutex (lua_script.cpp 246-255).
FrozenOnceBlocked ==
  [][(\E t \in Threads : Blocked(t)) => UNCHANGED <<lua_lock_map_mutex, owner>>]_vars

\* Otherwise every call returns: the threads that wait for the map mutex only
\* wait for calls that end.
CallsReturnUntilBlocked ==
  \A t \in Threads :
    call[t] # Idle ~> (call[t] = Idle \/ \E u \in Threads : Blocked(u))
=============================================================================
