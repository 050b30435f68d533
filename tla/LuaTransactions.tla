--------------------------- MODULE LuaTransactions ---------------------------
(***************************************************************************)
(* The transaction queue of a janosh script process (LuaScript in          *)
(* lua_script.cpp).  All Lua threads of the process share one TcpClient.   *)
(* Janosh:transaction(fn) calls performOpen, runs fn and calls             *)
(* performClose; every other API call is a performRequest.                 *)
(*                                                                         *)
(* Everything between the acquisition of open_lock_ and its release, or    *)
(* the wait on open_lock_cond_, is one action: openCallback_ (connect to   *)
(* the daemon), requestCallback_ and closeCallback_ run with the lock held.*)
(***************************************************************************)
EXTENDS Naturals, Sequences

CONSTANTS Threads,       \* the threads that run Lua code
          NoThread,      \* the value of a default constructed thread::id
          MaxFailures    \* bound: how often connect may throw

ASSUME ThreadsAssumption == NoThread \notin Threads
ASSUME FailuresAssumption == MaxFailures \in Nat

VARIABLES
  isOpen,            \* a connection to the daemon is open
  open_queue,        \* the threads in or waiting for a transaction
  open_current_id,   \* the thread that opened the connection last
  pc,                \* where each thread is, see TypeOK
  session,           \* threads whose requests the open connection carried
  failures           \* connects that have thrown so far

vars == <<isOpen, open_queue, open_current_id, pc, session, failures>>

Init ==
  /\ isOpen = FALSE
  /\ open_queue = <<>>
  /\ open_current_id = NoThread
  /\ pc = [t \in Threads |-> "idle"]
  /\ session = {}
  /\ failures = 0

-----------------------------------------------------------------------------
\* Slip: the opener is not recorded.
OpenedAnonymously(t) ==
  /\ isOpen' = TRUE
  /\ session' = {}
  /\ pc' = [pc EXCEPT ![t] = "open"]
  /\ UNCHANGED <<open_current_id, failures>>

\* openCallback_ returned: the thread is now inside its transaction.
Opened(t) ==
  /\ isOpen' = TRUE
  /\ open_current_id' = t
  /\ session' = {}
  /\ pc' = [pc EXCEPT ![t] = "open"]
  /\ UNCHANGED failures

\* openCallback_ threw: performOpen is left by the exception, the queue entry
\* of the thread stays where it is.
ConnectFailed(t) ==
  /\ failures < MaxFailures
  /\ failures' = failures + 1
  /\ pc' = [pc EXCEPT ![t] = "idle"]
  /\ UNCHANGED <<isOpen, open_current_id, session>>

OpenCallback(t) == Opened(t) \/ ConnectFailed(t)

\* Slip: a newcomer that finds the connection closed does not look at the queue.
OpenBarging(t) ==
  /\ pc[t] = "idle"
  /\ ~isOpen
  /\ open_queue' = Append(open_queue, t)
  /\ OpenCallback(t)

\* performOpen that finds nothing open and nobody queued.
OpenAtOnce(t) ==
  /\ pc[t] = "idle"
  /\ ~isOpen
  /\ open_queue = <<>>
  /\ open_queue' = <<t>>
  /\ OpenCallback(t)

\* performOpen of a thread that an earlier exception left at the head of the
\* queue: it queues a second time, is its own predecessor, and goes on.
OpenAsStaleHead(t) ==
  /\ pc[t] = "idle"
  /\ ~isOpen
  /\ open_queue # <<>>
  /\ Head(open_queue) = t
  /\ open_queue' = Append(open_queue, t)
  /\ OpenCallback(t)

\* performOpen that has to queue and to wait for the condition variable.
Enqueue(t) ==
  /\ pc[t] = "idle"
  /\ isOpen \/ (open_queue # <<>> /\ Head(open_queue) # t)
  /\ open_queue' = Append(open_queue, t)
  /\ pc' = [pc EXCEPT ![t] = "waiting"]
  /\ UNCHANGED <<isOpen, open_current_id, session, failures>>

\* open_lock_cond_.wait may return without a notification.
SpuriousWakeup(t) ==
  /\ pc[t] = "waiting"
  /\ pc' = [pc EXCEPT ![t] = "woken"]
  /\ UNCHANGED <<isOpen, open_queue, open_current_id, session, failures>>

\* Slip: "if" in place of "while", a notified thread takes its turn for granted.
OpenWhenWoken(t) ==
  /\ pc[t] = "woken"
  /\ OpenCallback(t)
  /\ UNCHANGED open_queue

\* Slip: a woken thread only looks whether the connection is closed.
OpenOutOfTurn(t) ==
  /\ pc[t] = "woken"
  /\ ~isOpen
  /\ OpenCallback(t)
  /\ UNCHANGED open_queue

\* A woken thread has open_lock_ again and finds that it is its turn.
OpenInTurn(t) ==
  /\ pc[t] = "woken"
  /\ Head(open_queue) = t
  /\ ~isOpen
  /\ OpenCallback(t)
  /\ UNCHANGED open_queue

\* Slip: the flag "wait" is not set, the thread queues once more.
WaitAgainRequeued(t) ==
  /\ pc[t] = "woken"
  /\ Head(open_queue) # t \/ isOpen
  /\ pc' = [pc EXCEPT ![t] = "waiting"]
  /\ open_queue' = Append(open_queue, t)
  /\ UNCHANGED <<isOpen, open_current_id, session, failures>>

\* A woken thread finds that it is not its turn and waits again.
WaitAgain(t) ==
  /\ pc[t] = "woken"
  /\ Head(open_queue) # t \/ isOpen
  /\ pc' = [pc EXCEPT ![t] = "waiting"]
  /\ UNCHANGED <<isOpen, open_queue, open_current_id, session, failures>>

-----------------------------------------------------------------------------
\* Slip: notify_one, which may wake any of the waiting threads.
NotifyOne(t) ==
  LET waiting == {u \in Threads : pc[u] = "waiting"}
  IN IF waiting = {} THEN pc' = [pc EXCEPT ![t] = "idle"]
     ELSE \E u \in waiting : pc' = [pc EXCEPT ![t] = "idle", ![u] = "woken"]

\* Slip: the notification is forgotten.
NotifyNone(t) == pc' = [pc EXCEPT ![t] = "idle"]

\* open_lock_cond_.notify_all, together with the caller's return.
NotifyAll(t) ==
  pc' = [u \in Threads |-> IF u = t THEN "idle"
                           ELSE IF pc[u] = "waiting" THEN "woken" ELSE pc[u]]

\* performClose: drops the front entry whoever it belongs to.
PerformClose(t) ==
  /\ pc[t] = "open"
  /\ isOpen
  /\ isOpen' = FALSE
  /\ open_queue' = IF open_queue = <<>> THEN <<>> ELSE Tail(open_queue)
  /\ session' = {}
  /\ NotifyAll(t)
  /\ UNCHANGED <<open_current_id, failures>>

\* performRequest while a connection is open: the request goes over it,
\* whichever thread opened it.
RequestInSession(t) ==
  /\ pc[t] \in {"idle", "open"}
  /\ isOpen
  /\ session' = session \cup {t}
  /\ UNCHANGED <<isOpen, open_queue, open_current_id, pc, failures>>

\* performRequest without an open connection: open, request and close under
\* one hold of open_lock_, past the queue; closing does not drop an entry.
RequestAlone(t) ==
  /\ pc[t] \in {"idle", "open"}
  /\ ~isOpen
  /\ open_current_id' = t
  /\ UNCHANGED <<isOpen, open_queue, pc, session, failures>>

-----------------------------------------------------------------------------
PerformOpen(t) ==
  \/ OpenAtOnce(t)
  \/ OpenAsStaleHead(t)
  \/ Enqueue(t)
  \/ SpuriousWakeup(t)
  \/ OpenInTurn(t)
  \/ WaitAgain(t)

PerformRequest(t) == RequestInSession(t) \/ RequestAlone(t)

Next == \E t \in Threads :
          PerformOpen(t) \/ PerformClose(t) \/ PerformRequest(t)

SafetySpec == Init /\ [][Next]_vars

\* A notified thread gets the mutex and runs on; transaction() closes
\* whether or not fn failed, provided fn returns.
Fairness == \A t \in Threads : /\ WF_vars(OpenInTurn(t))
                               /\ WF_vars(WaitAgain(t))
                               /\ WF_vars(PerformClose(t))

Spec == SafetySpec /\ Fairness

-----------------------------------------------------------------------------
\* Type invariant of the queue, the flags and the threads' positions; an open
\* connection has an opener.
TypeOK ==
  /\ isOpen \in BOOLEAN
  /\ open_queue \in Seq(Threads)
  /\ open_current_id \in IF isOpen THEN Threads ELSE Threads \cup {NoThread}
  /\ pc \in [Threads -> {"idle", "waiting", "woken", "open"}]
  /\ session \in SUBSET Threads
  /\ failures \in 0 .. MaxFailures

\* A thread is inside a transaction exactly when the connection is open and
\* was opened by it: two transactions never overlap, no transaction loses
\* its connection to another thread's close, and performClose never finds
\* the connection closed ("Attempt to close and request that isn't open").
TransactionsExclusive ==
  \A t \in Threads : pc[t] = "open" <=> (isOpen /\ open_current_id = t)

\* The entry performClose drops is that of the closing thread, although it
\* never looks: the front of the queue belongs to the open transaction.
FrontIsOwner ==
  isOpen => open_queue # <<>> /\ Head(open_queue) = open_current_id

\* A thread that waits has its entry in the queue: no other thread's close
\* drops it, and a woken thread never looks at the front of an empty deque.
WaitersQueued ==
  \A t \in Threads :
    pc[t] \in {"waiting", "woken"} =>
      \E i \in DOMAIN open_queue : open_queue[i] = t

\* A thread that performOpen left by an exception while its entry is first.
Abandoned == /\ ~isOpen
             /\ open_queue # <<>>
             /\ pc[Head(open_queue)] = "idle"

\* A waiting thread has an entry in the queue and, as long as no connect
\* fails, exactly one; a thread that does not wait has one only in its
\* transaction.
OneEntryEach ==
  MaxFailures = 0 =>
    /\ \A i, j \in DOMAIN open_queue :
         open_queue[i] = open_queue[j] => i = j
    /\ \A t \in Threads :
         pc[t] # "idle" <=> \E i \in DOMAIN open_queue : open_queue[i] = t

\* No wakeup is lost: whenever the connection is closed and threads are
\* queued, the first of them is awake, although performOpen can go to sleep
\* without having checked whether anybody is left to notify it.
NoLostWakeup ==
  MaxFailures = 0 =>
    (~isOpen /\ open_queue # <<>> => pc[Head(open_queue)] = "woken")

\* Every queued thread gets its transaction, unless a failed connect left a
\* thread's entry at the front: then performOpen of all others blocks until
\* that thread opens again.
ServedUnlessAbandoned ==
  \A t \in Threads : pc[t] = "waiting" ~> (pc[t] = "open" \/ Abandoned)

\* Requests in a transaction are the owner's: what it has not yet committed
\* is not seen by the requests of other threads.
TransactionIsolated == isOpen => session \subseteq {open_current_id}

\* The view in which the queue is a first-come-first-served lock.
Fifo == INSTANCE FifoLock WITH
          owner <- IF isOpen THEN open_current_id ELSE NoThread,
          line  <- IF isOpen THEN Tail(open_queue) ELSE open_queue

\* Without failing connects the queue implements the first-come-first-served
\* lock, its liveness included.
ImplementsFifoLock == Fifo!Spec
=============================================================================
