----------------------- MODULE LuaTransactions_proofs -----------------------
(***************************************************************************)
(* Proofs about LuaTransactions, for any set of threads and any number of  *)
(* failing connects.                                                       *)
(***************************************************************************)
EXTENDS LuaTransactions, SequenceTheorems, TLAPS

\* What the two safety properties need of each other: a close drops the
\* front entry, so who is inside must be first in the queue.
IInv == TypeOK /\ TransactionsExclusive /\ FrontIsOwner /\ WaitersQueued

\* The initial state is well typed and nobody is inside a transaction.
LEMMA InitIInv == Init => IInv
  <1> SUFFICES ASSUME Init PROVE IInv
    OBVIOUS
  <1> USE DEF Init
  <1>1. TypeOK
    <2>1. failures \in 0 .. MaxFailures
      BY FailuresAssumption
    <2>2. open_queue \in Seq(Threads)
      OBVIOUS
    <2> QED BY <2>1, <2>2, Zenon DEF TypeOK
  <1>2. TransactionsExclusive /\ FrontIsOwner /\ WaitersQueued
    BY DEF TransactionsExclusive, FrontIsOwner, WaitersQueued
  <1> QED BY <1>1, <1>2 DEF IInv

\* A thread that enters with its own entry in front keeps the invariant,
\* whether its connect succeeds or throws.
LEMMA EnterIInv ==
  ASSUME IInv, NEW t \in Threads, ~isOpen, OpenCallback(t),
         open_queue' \in Seq(Threads), open_queue' # <<>>, Head(open_queue') = t,
         \A i \in DOMAIN open_queue :
           i \in DOMAIN open_queue' /\ open_queue'[i] = open_queue[i]
  PROVE  IInv'
  <1>w. \A u \in Threads \ {t} :
          pc'[u] \in {"waiting", "woken"} =>
            \E i \in DOMAIN open_queue' : open_queue'[i] = u
    BY DEF IInv, TypeOK, WaitersQueued, OpenCallback, Opened, ConnectFailed
  <1>1. CASE Opened(t)
    <2>1. TypeOK'
      BY <1>1 DEF IInv, TypeOK, Opened
    <2>2. TransactionsExclusive'
      BY <1>1 DEF IInv, TypeOK, TransactionsExclusive, Opened
    <2>3. FrontIsOwner'
      BY <1>1 DEF Opened, FrontIsOwner
    <2>4. WaitersQueued'
      BY <1>1, <1>w DEF IInv, TypeOK, WaitersQueued, Opened
    <2> QED BY <2>1, <2>2, <2>3, <2>4 DEF IInv
  <1>2. CASE ConnectFailed(t)
    <2>1. TypeOK'
      <3>1. failures' \in 0 .. MaxFailures
        BY <1>2, FailuresAssumption DEF IInv, TypeOK, ConnectFailed
      <3> QED BY <1>2, <3>1 DEF IInv, TypeOK, ConnectFailed
    <2>2. TransactionsExclusive'
      BY <1>2 DEF IInv, TypeOK, TransactionsExclusive, ConnectFailed
    <2>3. FrontIsOwner'
      BY <1>2 DEF ConnectFailed, FrontIsOwner
    <2>4. WaitersQueued'
      BY <1>2, <1>w DEF IInv, TypeOK, WaitersQueued, ConnectFailed
    <2> QED BY <2>1, <2>2, <2>3, <2>4 DEF IInv
  <1> QED BY <1>1, <1>2 DEF OpenCallback

\* Every step of every thread preserves the invariant.
LEMMA NextIInv == IInv /\ [Next]_vars => IInv'
  <1> SUFFICES ASSUME IInv, [Next]_vars PROVE IInv'
    OBVIOUS
  <1>0. CASE UNCHANGED vars
    BY <1>0 DEF IInv, TypeOK, TransactionsExclusive, FrontIsOwner,
                WaitersQueued, vars
  <1> SUFFICES ASSUME NEW t \in Threads,
                      PerformOpen(t) \/ PerformClose(t) \/ PerformRequest(t)
               PROVE  IInv'
    BY <1>0 DEF Next
  <1>q. open_queue \in Seq(Threads)
    BY DEF IInv, TypeOK
  <1>1. CASE OpenAtOnce(t)
    BY <1>1, EnterIInv DEF OpenAtOnce
  <1>2. CASE OpenAsStaleHead(t)
    BY <1>2, <1>q, EnterIInv DEF OpenAsStaleHead
  <1>3. CASE Enqueue(t)
    <2>1. /\ open_queue' \in Seq(Threads)
          /\ open_queue' # <<>>
          /\ \A i \in DOMAIN open_queue :
               i \in DOMAIN open_queue' /\ open_queue'[i] = open_queue[i]
          /\ Len(open_queue) + 1 \in DOMAIN open_queue'
          /\ open_queue'[Len(open_queue) + 1] = t
      BY <1>3, <1>q DEF Enqueue
    <2>2. TypeOK'
      BY <1>3, <2>1 DEF IInv, TypeOK, Enqueue
    <2>3. TransactionsExclusive'
      BY <1>3 DEF IInv, TypeOK, TransactionsExclusive, Enqueue
    <2>4. FrontIsOwner'
      <3> SUFFICES ASSUME isOpen PROVE Head(open_queue') = open_current_id
        BY <1>3, <2>1 DEF FrontIsOwner, Enqueue
      <3>1. open_queue # <<>> /\ Head(open_queue) = open_current_id
        BY DEF IInv, FrontIsOwner
      <3> QED BY <1>3, <1>q, <3>1 DEF Enqueue
    <2>5. WaitersQueued'
      BY <1>3, <2>1 DEF IInv, TypeOK, WaitersQueued, Enqueue
    <2> QED BY <2>2, <2>3, <2>4, <2>5 DEF IInv
  <1>4. CASE SpuriousWakeup(t)
    BY <1>4 DEF IInv, TypeOK, TransactionsExclusive, FrontIsOwner,
                WaitersQueued, SpuriousWakeup
  <1>5. CASE OpenInTurn(t)
    <2>1. open_queue # <<>>
      BY <1>5, <1>q DEF IInv, WaitersQueued, OpenInTurn
    <2> QED BY <1>5, <1>q, <2>1, EnterIInv DEF OpenInTurn
  <1>6. CASE WaitAgain(t)
    BY <1>6 DEF IInv, TypeOK, TransactionsExclusive, FrontIsOwner,
                WaitersQueued, WaitAgain
  <1>7. CASE PerformClose(t)
    <2>1. open_queue # <<>> /\ Head(open_queue) = t /\ open_current_id = t
      BY <1>7 DEF IInv, TransactionsExclusive, FrontIsOwner, PerformClose
    <2>2. /\ open_queue' \in Seq(Threads)
          /\ \A i \in DOMAIN open_queue :
               open_queue[i] # t =>
                 i - 1 \in DOMAIN open_queue' /\ open_queue'[i - 1] = open_queue[i]
      BY <1>7, <1>q, <2>1 DEF PerformClose
    <2>3. TypeOK'
      BY <1>7, <2>2 DEF IInv, TypeOK, PerformClose, NotifyAll
    <2>4. TransactionsExclusive'
      BY <1>7 DEF IInv, TypeOK, TransactionsExclusive, PerformClose, NotifyAll
    <2>5. FrontIsOwner'
      BY <1>7 DEF FrontIsOwner, PerformClose
    <2>6. WaitersQueued'
      <3> SUFFICES ASSUME NEW u \in Threads, pc'[u] \in {"waiting", "woken"}
                   PROVE  \E i \in DOMAIN open_queue' : open_queue'[i] = u
        BY DEF WaitersQueued
      <3>1. u # t /\ pc[u] \in {"waiting", "woken"}
        BY <1>7 DEF IInv, TypeOK, PerformClose, NotifyAll
      <3>2. PICK i \in DOMAIN open_queue : open_queue[i] = u
        BY <3>1 DEF IInv, WaitersQueued
      <3> QED BY <2>2, <3>1, <3>2
    <2> QED BY <2>3, <2>4, <2>5, <2>6 DEF IInv
  <1>8. CASE PerformRequest(t)
    BY <1>8 DEF IInv, TypeOK, TransactionsExclusive, FrontIsOwner, WaitersQueued,
                PerformRequest, RequestInSession, RequestAlone
  <1> QED BY <1>1, <1>2, <1>3, <1>4, <1>5, <1>6, <1>7, <1>8 DEF PerformOpen

\* The state is well typed, however many connects fail.
THEOREM TypeCorrect == SafetySpec => []TypeOK
  <1>1. IInv => TypeOK
    BY DEF IInv
  <1> QED BY InitIInv, NextIInv, <1>1, PTL DEF SafetySpec

\* Transactions of different threads never overlap and a thread's connection
\* is never closed by another thread.
THEOREM Exclusive == SafetySpec => []TransactionsExclusive
  <1>1. IInv => TransactionsExclusive
    BY DEF IInv
  <1> QED BY InitIInv, NextIInv, <1>1, PTL DEF SafetySpec

\* performClose, which pops the front of the queue without looking, always
\* pops the entry of the thread that closes.
THEOREM ClosePopsOwner == SafetySpec => []FrontIsOwner
  <1>1. IInv => FrontIsOwner
    BY DEF IInv
  <1> QED BY InitIInv, NextIInv, <1>1, PTL DEF SafetySpec

\* A thread that waits keeps its place in the queue.
THEOREM WaitersKeepEntry == SafetySpec => []WaitersQueued
  <1>1. IInv => WaitersQueued
    BY DEF IInv
  <1> QED BY InitIInv, NextIInv, <1>1, PTL DEF SafetySpec

-----------------------------------------------------------------------------
\* Together with IInv: one entry per thread makes the next thread in line one
\* that the last notify_all has woken.
QInv == IInv /\ OneEntryEach /\ NoLostWakeup

\* A connect cannot throw when no failure is allowed.
LEMMA NoFailure ==
  ASSUME MaxFailures = 0, TypeOK, NEW t \in Threads, OpenCallback(t)
  PROVE  Opened(t)
  BY DEF TypeOK, OpenCallback, ConnectFailed

\* Only a thread that has no entry calls performOpen.
LEMMA IdleNotQueued ==
  ASSUME MaxFailures = 0, OneEntryEach, NEW t \in Threads, pc[t] = "idle"
  PROVE  \A i \in DOMAIN open_queue : open_queue[i] # t
  BY DEF OneEntryEach

\* Every step preserves: one entry for every thread that is not idle.
LEMMA NextOneEntry == QInv /\ [Next]_vars => OneEntryEach'
  <1> SUFFICES ASSUME QInv, [Next]_vars, MaxFailures = 0 PROVE OneEntryEach'
    BY DEF OneEntryEach
  <1>i. IInv /\ IInv' /\ TypeOK /\ TypeOK' /\ OneEntryEach
    BY NextIInv DEF QInv, IInv
  <1>q. open_queue \in Seq(Threads) /\ open_queue' \in Seq(Threads)
    BY <1>i DEF TypeOK
  <1>0. CASE UNCHANGED vars
    BY <1>0, <1>i DEF OneEntryEach, vars
  <1> SUFFICES ASSUME NEW t \in Threads,
                      PerformOpen(t) \/ PerformClose(t) \/ PerformRequest(t)
               PROVE  OneEntryEach'
    BY <1>0 DEF Next
  <1>1. CASE OpenAtOnce(t)
    <2>1. Opened(t) /\ open_queue = <<>> /\ open_queue' = <<t>> /\ pc[t] = "idle"
      BY <1>1, <1>i, NoFailure DEF OpenAtOnce
    <2>2. \A u \in Threads : pc'[u] # "idle" <=> u = t
      BY <2>1, <1>i DEF Opened, OneEntryEach, TypeOK
    <2> QED BY <2>1, <2>2 DEF OneEntryEach
  <1>2. CASE OpenAsStaleHead(t)
    <2>1. 1 \in DOMAIN open_queue /\ open_queue[1] = t /\ pc[t] = "idle"
      BY <1>2, <1>q DEF OpenAsStaleHead
    <2> QED BY <2>1, <1>i, IdleNotQueued
  <1>3. CASE Enqueue(t)
    <2>1. /\ DOMAIN open_queue' = 1 .. Len(open_queue) + 1
          /\ DOMAIN open_queue = 1 .. Len(open_queue)
          /\ Len(open_queue) \in Nat
          /\ \A i \in DOMAIN open_queue : open_queue'[i] = open_queue[i]
          /\ open_queue'[Len(open_queue) + 1] = t
      BY <1>3, <1>q DEF Enqueue
    <2>2. \A i \in DOMAIN open_queue : open_queue[i] # t
      BY <1>3, <1>i, IdleNotQueued DEF Enqueue
    <2>3. \A i, j \in DOMAIN open_queue' :
            open_queue'[i] = open_queue'[j] => i = j
      BY <2>1, <2>2, <1>i DEF OneEntryEach
    <2>4. ASSUME NEW u \in Threads
          PROVE  pc'[u] # "idle" <=> \E i \in DOMAIN open_queue' : open_queue'[i] = u
      <3>1. CASE u = t
        BY <3>1, <2>1, <1>3, <1>i DEF Enqueue, TypeOK
      <3>2. CASE u # t
        <4>1. pc'[u] = pc[u]
          BY <3>2, <1>3, <1>i DEF Enqueue, TypeOK
        <4> QED BY <4>1, <3>2, <2>1, <1>i DEF OneEntryEach
      <3> QED BY <3>1, <3>2
    <2> QED BY <2>3, <2>4 DEF OneEntryEach
  <1>4. CASE SpuriousWakeup(t)
    BY <1>4, <1>i DEF OneEntryEach, SpuriousWakeup, TypeOK
  <1>5. CASE OpenInTurn(t)
    <2>1. Opened(t) /\ UNCHANGED open_queue /\ pc[t] = "woken"
      BY <1>5, <1>i, NoFailure DEF OpenInTurn
    <2> QED BY <2>1, <1>i DEF OneEntryEach, Opened, TypeOK
  <1>6. CASE WaitAgain(t)
    BY <1>6, <1>i DEF OneEntryEach, WaitAgain, TypeOK
  <1>7. CASE PerformClose(t)
    <2>1. open_queue # <<>> /\ Head(open_queue) = t
      BY <1>7, <1>i DEF IInv, TransactionsExclusive, FrontIsOwner, PerformClose
    <2>2. open_queue' = Tail(open_queue)
      BY <1>7, <2>1 DEF PerformClose
    <2>3. /\ DOMAIN open_queue = 1 .. Len(open_queue)
          /\ Len(open_queue) \in Nat /\ Len(open_queue) > 0
          /\ DOMAIN open_queue' = 1 .. Len(open_queue) - 1
          /\ \A i \in DOMAIN open_queue' : open_queue'[i] = open_queue[i + 1]
          /\ open_queue[1] = t
      BY <2>1, <2>2, <1>q
    <2>4. \A i, j \in DOMAIN open_queue' :
            open_queue'[i] = open_queue'[j] => i = j
      BY <2>3, <1>i DEF OneEntryEach
    <2>5. ASSUME NEW u \in Threads
          PROVE  pc'[u] # "idle" <=> \E i \in DOMAIN open_queue' : open_queue'[i] = u
      <3>1. CASE u = t
        <4>1. pc'[u] = "idle"
          BY <3>1, <1>7 DEF PerformClose, NotifyAll
        <4>2. \A i \in DOMAIN open_queue' : open_queue'[i] # t
          BY <2>3, <1>i DEF OneEntryEach
        <4> QED BY <3>1, <4>1, <4>2
      <3>2. CASE u # t
        <4>1. pc'[u] # "idle" <=> pc[u] # "idle"
          BY <3>2, <1>7, <1>i DEF PerformClose, NotifyAll, TypeOK
        <4>2. ASSUME NEW i \in DOMAIN open_queue, open_queue[i] = u
              PROVE  i - 1 \in DOMAIN open_queue' /\ open_queue'[i - 1] = u
          BY <4>2, <3>2, <2>3
        <4>3. (\E i \in DOMAIN open_queue : open_queue[i] = u)
                <=> \E i \in DOMAIN open_queue' : open_queue'[i] = u
          BY <4>2, <2>3
        <4> QED BY <4>1, <4>3, <1>i DEF OneEntryEach
      <3> QED BY <3>1, <3>2
    <2> QED BY <2>4, <2>5 DEF OneEntryEach
  <1>8. CASE PerformRequest(t)
    BY <1>8, <1>i DEF OneEntryEach, PerformRequest, RequestInSession, RequestAlone
  <1> QED BY <1>1, <1>2, <1>3, <1>4, <1>5, <1>6, <1>7, <1>8 DEF PerformOpen

\* Every step preserves: the first in line is awake when nothing is open.
LEMMA NextNoLostWakeup == QInv /\ [Next]_vars => NoLostWakeup'
  <1> SUFFICES ASSUME QInv, [Next]_vars, MaxFailures = 0,
                      ~isOpen', open_queue' # <<>>
               PROVE  pc'[Head(open_queue')] = "woken"
    BY DEF NoLostWakeup
  <1>i. /\ TypeOK /\ TypeOK' /\ FrontIsOwner /\ TransactionsExclusive
        /\ OneEntryEach /\ OneEntryEach' /\ NoLostWakeup
    BY NextIInv, NextOneEntry DEF QInv, IInv
  <1>q. open_queue \in Seq(Threads) /\ open_queue' \in Seq(Threads)
    BY <1>i DEF TypeOK
  <1>0. CASE UNCHANGED vars
    BY <1>0, <1>i DEF NoLostWakeup, vars
  <1> SUFFICES ASSUME NEW t \in Threads,
                      PerformOpen(t) \/ PerformClose(t) \/ PerformRequest(t)
               PROVE  pc'[Head(open_queue')] = "woken"
    BY <1>0 DEF Next
  <1>1. CASE OpenAtOnce(t) \/ OpenAsStaleHead(t) \/ OpenInTurn(t)
    BY <1>1, <1>i, NoFailure DEF OpenAtOnce, OpenAsStaleHead, OpenInTurn, Opened
  <1>2. CASE Enqueue(t)
    <2>1. ~isOpen /\ open_queue # <<>> /\ Head(open_queue) # t
      BY <1>2 DEF Enqueue
    <2>2. Head(open_queue') = Head(open_queue) /\ Head(open_queue) \in Threads
      BY <1>2, <1>q, <2>1 DEF Enqueue
    <2>3. pc'[Head(open_queue)] = pc[Head(open_queue)]
      BY <1>2, <1>i, <2>1, <2>2 DEF Enqueue, TypeOK
    <2> QED BY <1>i, <2>1, <2>2, <2>3 DEF NoLostWakeup
  <1>3. CASE SpuriousWakeup(t) \/ WaitAgain(t)
    <2>1. ~isOpen /\ open_queue' = open_queue /\ Head(open_queue) \in Threads
      BY <1>3, <1>q DEF SpuriousWakeup, WaitAgain
    <2>2. pc[Head(open_queue)] = "woken"
      BY <1>i, <2>1 DEF NoLostWakeup
    <2>3. Head(open_queue) # t
      BY <1>3, <2>1, <2>2 DEF SpuriousWakeup, WaitAgain
    <2> QED BY <1>3, <1>i, <2>1, <2>2, <2>3 DEF SpuriousWakeup, WaitAgain, TypeOK
  <1>4. CASE PerformClose(t)
    <2> DEFINE u == Head(open_queue')
    <2>1. 1 \in DOMAIN open_queue' /\ open_queue'[1] = u /\ u \in Threads
      BY <1>q
    <2>2. pc'[u] # "idle"
      BY <2>1, <1>i DEF OneEntryEach
    <2>3. pc'[u] # "waiting"
      BY <1>4, <2>1 DEF PerformClose, NotifyAll
    <2>4. pc'[u] # "open"
      BY <1>4, <1>i, <2>1 DEF PerformClose, NotifyAll, TransactionsExclusive, TypeOK
    <2> QED BY <2>1, <2>2, <2>3, <2>4, <1>i DEF TypeOK
  <1>5. CASE PerformRequest(t)
    BY <1>5, <1>i DEF NoLostWakeup, PerformRequest, RequestInSession, RequestAlone
  <1> QED BY <1>1, <1>2, <1>3, <1>4, <1>5 DEF PerformOpen

\* The strengthened invariant holds in every reachable state.
LEMMA QueueInvariant == SafetySpec => []QInv
  <1>1. Init => QInv
    BY InitIInv DEF Init, QInv, OneEntryEach, NoLostWakeup
  <1>2. QInv /\ [Next]_vars => QInv'
    BY NextIInv, NextOneEntry, NextNoLostWakeup DEF QInv
  <1> QED BY <1>1, <1>2, PTL DEF SafetySpec

\* Without failing connects a thread has exactly one queue entry while it
\* waits or is in its transaction and none otherwise.
THEOREM QueueEntries == SafetySpec => []OneEntryEach
  <1>1. QInv => OneEntryEach
    BY DEF QInv
  <1> QED BY QueueInvariant, <1>1, PTL

\* Without failing connects no thread sleeps through its turn.
THEOREM WakeupsArrive == SafetySpec => []NoLostWakeup
  <1>1. QInv => NoLostWakeup
    BY DEF QInv
  <1> QED BY QueueInvariant, <1>1, PTL

-----------------------------------------------------------------------------
\* Every step of the queue is a step of the first-come-first-served lock, or
\* leaves its owner and its line alone.
LEMMA StepRefines ==
  ASSUME MaxFailures = 0, QInv, QInv', [Next]_vars
  PROVE  [Fifo!Next]_(Fifo!vars)
  <1> DEFINE owner == IF isOpen THEN open_current_id ELSE NoThread
             line  == IF isOpen THEN Tail(open_queue) ELSE open_queue
  <1>i. TypeOK /\ TransactionsExclusive /\ FrontIsOwner /\ OneEntryEach
    BY DEF QInv, IInv
  <1>q. open_queue \in Seq(Threads)
    BY <1>i DEF TypeOK
  <1>0. CASE UNCHANGED vars
    BY <1>0 DEF vars, Fifo!vars
  <1> SUFFICES ASSUME NEW t \in Threads,
                      PerformOpen(t) \/ PerformClose(t) \/ PerformRequest(t)
               PROVE  [Fifo!Next]_(Fifo!vars)
    BY <1>0 DEF Next
  <1>1. CASE OpenAtOnce(t)
    <2>1. Opened(t) /\ ~isOpen /\ open_queue = <<>> /\ open_queue' = <<t>>
      BY <1>1, <1>i, NoFailure DEF OpenAtOnce
    <2>2. Tail(open_queue') = <<>>
      BY <2>1
    <2>3. Fifo!Enter(t)
      BY <2>1, <2>2 DEF Fifo!Enter, Opened
    <2> QED BY <2>3 DEF Fifo!Next
  <1>2. CASE OpenAsStaleHead(t)
    <2>1. 1 \in DOMAIN open_queue /\ open_queue[1] = t /\ pc[t] = "idle"
      BY <1>2, <1>q DEF OpenAsStaleHead
    <2> QED BY <2>1, <1>i, IdleNotQueued
  <1>3. CASE Enqueue(t)
    <2>0. \A i \in DOMAIN open_queue : open_queue[i] # t
      BY <1>3, <1>i, IdleNotQueued DEF Enqueue
    <2>1. owner # t
      BY <1>3, <1>i, ThreadsAssumption DEF TransactionsExclusive, Enqueue
    <2>2. \A i \in DOMAIN line : line[i] # t
      BY <1>q, <2>0, <1>i DEF FrontIsOwner
    <2>3. owner # NoThread \/ line # <<>>
      BY <1>3, <1>i, ThreadsAssumption DEF Enqueue, TypeOK
    <2>4. isOpen => Tail(Append(open_queue, t)) = Append(Tail(open_queue), t)
      BY <1>q, <1>i DEF FrontIsOwner
    <2>5. Fifo!Join(t)
      BY <1>3, <2>1, <2>2, <2>3, <2>4 DEF Fifo!Join, Enqueue
    <2> QED BY <2>5 DEF Fifo!Next
  <1>4. CASE SpuriousWakeup(t) \/ WaitAgain(t)
    BY <1>4 DEF SpuriousWakeup, WaitAgain, Fifo!vars
  <1>5. CASE OpenInTurn(t)
    <2>1. /\ Opened(t) /\ ~isOpen /\ UNCHANGED open_queue
          /\ Head(open_queue) = t /\ open_queue # <<>>
      BY <1>5, <1>i, NoFailure DEF OpenInTurn, QInv, IInv, WaitersQueued
    <2>2. Fifo!Grant
      BY <2>1, <1>q DEF Fifo!Grant, Opened
    <2> QED BY <2>2 DEF Fifo!Next
  <1>6. CASE PerformClose(t)
    <2>1. isOpen /\ open_current_id = t /\ open_queue # <<>>
      BY <1>6, <1>i DEF TransactionsExclusive, FrontIsOwner, PerformClose
    <2>2. Fifo!Leave(t)
      BY <1>6, <2>1 DEF Fifo!Leave, PerformClose
    <2> QED BY <2>2 DEF Fifo!Next
  <1>7. CASE PerformRequest(t)
    BY <1>7 DEF PerformRequest, RequestInSession, RequestAlone, Fifo!vars
  <1> QED BY <1>1, <1>2, <1>3, <1>4, <1>5, <1>6, <1>7 DEF PerformOpen

\* Without failing connects Janosh:transaction is a first-come-first-served
\* lock: the safety half of ImplementsFifoLock, for any set of threads.
THEOREM RefinesFifoLock ==
  ASSUME MaxFailures = 0
  PROVE  SafetySpec => Fifo!SafetySpec
  <1>1. Init => Fifo!Init
    BY DEF Init, Fifo!Init
  <1>2. QInv /\ QInv' /\ [Next]_vars => [Fifo!Next]_(Fifo!vars)
    BY StepRefines
  <1> QED BY <1>1, <1>2, QueueInvariant, PTL DEF SafetySpec, Fifo!SafetySpec
=============================================================================
