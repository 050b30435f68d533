--------------------------- MODULE LuaLocks_proofs ---------------------------
(***************************************************************************)
(* Proofs about the named locks, for any threads and names: a lock leaves  *)
(* its owner only by the owner's unlock, and contention in l_lock freezes  *)
(* every lock of the process for good.                                     *)
(***************************************************************************)
EXTENDS LuaLocks, TLAPS

\* A thread that waits for a named lock holds the map mutex, the lock has an
\* owner, and an unlock is called by the owner of the lock.
WaiterHoldsMap ==
  \A t \in Threads : Blocked(t) =>
    lua_lock_map_mutex = t /\ owner[call[t].name] \in Threads
UnlockByOwner ==
  \A t \in Threads : call[t].op = "unlock" => owner[call[t].name] = t
IInv == TypeOK /\ WaiterHoldsMap /\ UnlockByOwner

\* What a call record holds.
LEMMA CallFields ==
  ASSUME NEW c \in {Idle} \cup Calls, c.op # "none"
  PROVE  c \in Calls /\ c.op \in {"try_lock", "lock", "unlock", "blocked"} /\ c.name \in Locks
BY DEF Idle, Calls

\* A thread outside of a call is in no operation.
LEMMA IdleOp == Idle.op = "none"
BY DEF Idle

\* The inductive invariant holds at first.
LEMMA InitIInv == Init => IInv
BY IdleOp DEF Init, IInv, TypeOK, WaiterHoldsMap, UnlockByOwner, Blocked

\* While a thread is blocked, no step touches a mutex.
LEMMA BlockedFreezes ==
  ASSUME IInv, [Next]_vars, NEW w \in Threads, Blocked(w)
  PROVE  UNCHANGED <<lua_lock_map_mutex, owner>>
<1>1. lua_lock_map_mutex = w /\ w # NoThread
  BY LockThreadsAssumption DEF IInv, WaiterHoldsMap
<1>2. \A t \in Threads, op \in {"try_lock", "lock", "unlock"} : ~Calling(t, op)
  BY <1>1 DEF Calling
<1>3. ASSUME NEW t \in Threads, LockFree(t) PROVE FALSE
  <2>1. Blocked(t) /\ owner[call[t].name] = NoThread
    BY <1>2, <1>3 DEF LockFree
  <2>2. QED
    BY <2>1, LockThreadsAssumption DEF IInv, WaiterHoldsMap
<1>4. CASE Next
  BY <1>2, <1>3, <1>4 DEF Next, Call, TryLock, LockTaken, Unlock
<1>5. CASE UNCHANGED vars
  BY <1>5 DEF vars
<1>6. QED
  BY <1>4, <1>5

\* A step that only changes the state of thread t and leaves its lock to it.
LEMMA NextIInv == IInv /\ [Next]_vars => IInv'
<1> SUFFICES ASSUME IInv, [Next]_vars PROVE IInv'
  OBVIOUS
<1> USE DEF IInv
<1>1. ASSUME NEW t \in Threads, NEW l \in Locks, NEW op \in {"try_lock", "lock", "unlock"},
             Call(t, op, l)
      PROVE IInv'
  <2> DEFINE c == [op |-> op, name |-> l]
  <2>1. c \in Calls /\ c.op = op /\ c.name = l
    BY DEF Calls
  <2>2. TypeOK'
    BY <1>1, <2>1 DEF Call, TypeOK
  <2>3. call'[t] = c /\ \A u \in Threads \ {t} : call'[u] = call[u]
    BY <1>1 DEF Call, TypeOK
  <2> HIDE DEF c
  <2>4. WaiterHoldsMap'
    BY <1>1, <2>1, <2>3 DEF Call, WaiterHoldsMap, Blocked
  <2>5. UnlockByOwner'
    BY <1>1, <2>1, <2>3 DEF Call, UnlockByOwner
  <2>6. QED
    BY <2>2, <2>4, <2>5
<1>2. ASSUME NEW t \in Threads, TryLock(t) \/ LockFree(t) \/ Unlock(t)
      PROVE IInv'
  <2>1. call[t] \in Calls /\ call[t].name \in Locks
    <3>1. call[t].op # "none"
      BY <1>2 DEF TryLock, LockFree, Unlock, Calling, Blocked
    <3>2. QED
      BY <3>1, CallFields DEF TypeOK
  <2>2. call'[t] = Idle /\ \A u \in Threads \ {t} : call'[u] = call[u]
    BY <1>2 DEF TryLock, LockFree, Unlock, Return, TypeOK
  <2>3. ~(\E w \in Threads : Blocked(w))
    <3>1. ASSUME NEW w \in Threads, Blocked(w) PROVE FALSE
      <4>1. UNCHANGED <<lua_lock_map_mutex, owner>>
        BY <3>1, BlockedFreezes
      <4>2. lua_lock_map_mutex = w /\ w # NoThread
        BY <3>1, LockThreadsAssumption DEF WaiterHoldsMap
      <4>3. LockFree(t) /\ Blocked(t)
        BY <1>2, <4>2 DEF TryLock, LockFree, Unlock, Calling
      <4>4. owner[call[t].name] = NoThread /\ owner[call[t].name] \in Threads
        BY <4>3 DEF LockFree, WaiterHoldsMap
      <4>5. QED
        BY <4>4, LockThreadsAssumption
    <3>2. QED
      BY <3>1
  <2>4. TypeOK'
    BY <1>2, <2>1 DEF TryLock, LockFree, Unlock, Return, TypeOK
  <2>5. WaiterHoldsMap'
    BY <2>2, <2>3, IdleOp DEF WaiterHoldsMap, Blocked
  <2>6. UnlockByOwner'
    <3>1. SUFFICES ASSUME NEW u \in Threads, call'[u].op = "unlock"
                   PROVE owner'[call'[u].name] = u
      BY DEF UnlockByOwner
    <3>2. u # t /\ call'[u] = call[u]
      BY <2>2, <3>1, IdleOp
    <3>3. owner[call[u].name] = u /\ call[u].name \in Locks
      BY <3>1, <3>2, CallFields DEF UnlockByOwner, TypeOK
    <3>4. ~(call[t].name = call[u].name /\ Unlock(t))
      BY <3>2, <3>3 DEF Unlock, Calling, UnlockByOwner
    <3>5. owner'[call[u].name] = u
      BY <1>2, <3>3, <3>4, LockThreadsAssumption DEF TryLock, LockFree, Unlock, TypeOK
    <3>6. QED
      BY <3>2, <3>5
  <2>7. QED
    BY <2>4, <2>5, <2>6
<1>3. ASSUME NEW t \in Threads, LockTaken(t) PROVE IInv'
  <2>1. call[t] \in Calls /\ call[t].name \in Locks
    <3>1. call[t].op # "none"
      BY <1>3 DEF LockTaken, Calling
    <3>2. QED
      BY <3>1, CallFields DEF TypeOK
  <2>2. ~(\E w \in Threads : Blocked(w))
    BY <1>3, LockThreadsAssumption DEF LockTaken, Calling, WaiterHoldsMap
  <2>3. [call[t] EXCEPT !.op = "blocked"] \in Calls
        /\ [call[t] EXCEPT !.op = "blocked"].op = "blocked"
        /\ [call[t] EXCEPT !.op = "blocked"].name = call[t].name
    BY <2>1 DEF Calls
  <2>4. call'[t] = [call[t] EXCEPT !.op = "blocked"]
        /\ \A u \in Threads \ {t} : call'[u] = call[u]
    BY <1>3 DEF LockTaken, TypeOK
  <2>5. TypeOK'
    BY <1>3, <2>3 DEF LockTaken, TypeOK
  <2>6. WaiterHoldsMap'
    BY <1>3, <2>1, <2>2, <2>3, <2>4 DEF LockTaken, WaiterHoldsMap, Blocked, TypeOK
  <2>7. UnlockByOwner'
    BY <1>3, <2>3, <2>4 DEF LockTaken, UnlockByOwner
  <2>8. QED
    BY <2>5, <2>6, <2>7
<1>4. CASE UNCHANGED vars
  BY <1>4 DEF vars, TypeOK, WaiterHoldsMap, UnlockByOwner, Blocked
<1>5. QED
  BY <1>1, <1>2, <1>3, <1>4 DEF Next

\* The inductive invariant holds always.
LEMMA IInvHolds == Spec => []IInv
BY InitIInv, NextIInv, PTL DEF Spec

\* The mutexes are free or owned by a thread, and a thread is in one call.
THEOREM TypeCorrect == Spec => []TypeOK
BY IInvHolds, PTL DEF IInv

\* A thread that waits in l_lock stops every lock of the process.
THEOREM FreezeIsForever == Spec => FrozenOnceBlocked
<1>1. IInv /\ [Next]_vars =>
        [(\E t \in Threads : Blocked(t)) => UNCHANGED <<lua_lock_map_mutex, owner>>]_vars
  BY BlockedFreezes
<1>2. QED
  BY <1>1, IInvHolds, PTL DEF Spec, FrozenOnceBlocked

\* Nobody but its owner gives a lock away.
THEOREM OwnershipKept == Spec => OnlyOwnerUnlocks
<1> DEFINE Kept == \A l \in Locks : owner[l] \in Threads /\ owner'[l] # owner[l] =>
       owner'[l] = NoThread /\ call[owner[l]] = [op |-> "unlock", name |-> l]
<1>1. IInv /\ [Next]_vars => [Kept]_vars
  <2> SUFFICES ASSUME IInv, Next, NEW l \in Locks, owner[l] \in Threads, owner'[l] # owner[l]
               PROVE owner'[l] = NoThread /\ call[owner[l]] = [op |-> "unlock", name |-> l]
    BY DEF vars
  <2>1. PICK t \in Threads : Unlock(t) /\ call[t].name = l
    BY LockThreadsAssumption DEF IInv, TypeOK, Next, Call, TryLock, LockFree, LockTaken, Unlock
  <2>2. call[t] \in Calls /\ call[t].op = "unlock"
    <3>1. call[t].op = "unlock"
      BY <2>1 DEF Unlock, Calling
    <3>2. QED
      BY <3>1, CallFields DEF IInv, TypeOK
  <2>3. call[t] = [op |-> "unlock", name |-> l] /\ owner[l] = t
    BY <2>1, <2>2 DEF Calls, IInv, UnlockByOwner
  <2>4. owner'[l] = NoThread
    BY <2>1 DEF Unlock, IInv, TypeOK
  <2>5. QED
    BY <2>3, <2>4
<1>2. QED
  BY <1>1, IInvHolds, PTL DEF Spec, OnlyOwnerUnlocks
=============================================================================
