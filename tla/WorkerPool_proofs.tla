-------------------------- MODULE WorkerPool_proofs --------------------------
(***************************************************************************)
(* Proofs about WorkerPool, for any number of slots, any finite set of     *)
(* thread ids and any set of clients.                                      *)
(***************************************************************************)
EXTENDS WorkerPool, FiniteSetTheorems, SequenceTheorems, TLAPS

\* The kernel's queue holds each waiting client once.
BacklogInv ==
  /\ \A i \in DOMAIN backlog : client[backlog[i]] = "queued"
  /\ \A i, j \in DOMAIN backlog : backlog[i] = backlog[j] => i = j

\* A live thread has a client that has been accepted.
ServesInv ==
  /\ \A t \in Tids : worker[t] = "none" <=> serves[t] = NoClient
  /\ \A t \in Tids : serves[t] # NoClient => client[serves[t]] \in {"attached", "gone"}

\* Two workers never serve the same connection.
ServedOnce ==
  \A t, u \in Tids : serves[t] = serves[u] /\ serves[t] # NoClient => t = u

\* While a worker has a request, its client is there or has vanished before the
\* answer; a thread with such a client receives nothing any more.
PeerWaits ==
  \A t \in Tids :
    /\ worker[t] \in {"control", "command"} => (PeerThere(t) <=> t \notin vanished)
    /\ worker[t] = "receive" => t \notin vanished

IInv ==
  /\ TypeOK
  /\ SlotsConserved
  /\ ServedWithHandle
  /\ OrphansOfVanished
  /\ ServedOnce
  /\ BacklogInv
  /\ ServesInv
  /\ PeerWaits

\* The inductive invariant holds at first.
LEMMA InitIInv == Init => IInv
  <1> SUFFICES ASSUME Init PROVE IInv
    OBVIOUS
  <1> USE DEF Init
  <1>1. TypeOK
    <2>1. vanished \in SUBSET Tids
      OBVIOUS
    <2> QED BY <2>1, PoolAssumption DEF TypeOK, Owing
  <1>2. SlotsConserved
    <2>1. Busy = {}
      BY DEF Busy, Owing, Serving
    <2> QED BY <2>1, FS_EmptySet, PoolAssumption DEF SlotsConserved
  <1>3. ServedWithHandle /\ OrphansOfVanished /\ ServedOnce
    BY DEF ServedWithHandle, OrphansOfVanished, ServedOnce, Serving
  <1>4. BacklogInv /\ ServesInv /\ PeerWaits
    BY DEF BacklogInv, ServesInv, PeerWaits
  <1> QED BY <1>1, <1>2, <1>3, <1>4 DEF IInv

-----------------------------------------------------------------------------
\* The busy threads are finitely many.
LEMMA BusyCount ==
  /\ IsFiniteSet(Busy)
  /\ Cardinality(Busy) \in Nat
  BY FS_Subset, FS_CardinalityType, PoolAssumption DEF Busy

\* A worker that starts owes the pool one more notify.
LEMMA BusyGrows ==
  ASSUME NEW t \in Tids, worker[t] = "none", TypeOK,
         worker' = [worker EXCEPT ![t] = "start"]
  PROVE  Cardinality(Busy') = Cardinality(Busy) + 1
  <1>1. Busy' = Busy \cup {t} /\ t \notin Busy
    BY DEF Busy, Owing, Serving, TypeOK
  <1> QED BY <1>1, BusyCount, FS_AddElement

\* A worker that has notified the pool owes one less.
LEMMA BusyShrinks ==
  ASSUME NEW t \in Tids, worker[t] = "done", TypeOK,
         worker' = [worker EXCEPT ![t] = "notified"]
  PROVE  Cardinality(Busy') = Cardinality(Busy) - 1
  <1>1. Busy' = Busy \ {t} /\ t \in Busy
    BY DEF Busy, Owing, Serving, TypeOK
  <1> QED BY <1>1, BusyCount, FS_RemoveElement

\* A step from one of these states to another changes nothing of what is owed.
LEMMA BusyStays ==
  ASSUME NEW t \in Tids, TypeOK, NEW s,
         worker[t] \in Owing <=> s \in Owing,
         worker' = [worker EXCEPT ![t] = s]
  PROVE  Busy' = Busy
  BY DEF Busy, TypeOK

\* No step creates or loses a slot.
LEMMA NextSlots == IInv /\ [Next]_vars => SlotsConserved'
  <1> SUFFICES ASSUME IInv, [Next]_vars PROVE SlotsConserved'
    OBVIOUS
  <1>i. TypeOK /\ SlotsConserved /\ count \in Nat /\ MaxThreads \in Nat
    BY PoolAssumption DEF IInv, TypeOK
  <1>b. Cardinality(Busy) \in Nat
    BY BusyCount
  <1>1. CASE UNCHANGED <<worker, count, acceptor>>
    BY <1>1, <1>i DEF SlotsConserved, Busy
  <1>2. CASE Wait
    <2>1. Busy' = Busy
      BY <1>2 DEF Wait, Busy
    <2> QED BY <1>2, <1>i, <1>b, <2>1 DEF SlotsConserved, Wait
  <1>3. ASSUME NEW t \in Tids, Accept(t) PROVE SlotsConserved'
    <2>1. Cardinality(Busy') = Cardinality(Busy) + 1
      BY <1>3, <1>i, BusyGrows DEF Accept
    <2> QED BY <1>3, <1>i, <1>b, <2>1 DEF SlotsConserved, Accept
  <1>4. ASSUME NEW t \in Tids, Notify(t) PROVE SlotsConserved'
    <2>1. Cardinality(Busy') = Cardinality(Busy) - 1
      BY <1>4, <1>i, BusyShrinks DEF Notify, Becomes
    <2> QED BY <1>4, <1>i, <1>b, <2>1 DEF SlotsConserved, Notify
  <1>5. ASSUME NEW t \in Tids,
               \/ MakeDB(t) \/ MakeDBThrows(t) \/ Receive(t) \/ Answer(t)
               \/ AnswerThrows(t) \/ EndOfChain(t) \/ Exit(t)
        PROVE  SlotsConserved'
    <2>1. UNCHANGED <<count, acceptor>>
      BY <1>5 DEF MakeDB, MakeDBThrows, Receive, Answer, AnswerThrows,
                  EndOfChain, Exit
    <2>2. PICK s : /\ worker' = [worker EXCEPT ![t] = s]
                   /\ worker[t] \in Owing <=> s \in Owing
      BY <1>5 DEF MakeDB, MakeDBThrows, Receive, Answer, AnswerThrows,
                  EndOfChain, Exit, Becomes, Owing, Serving
    <2>3. Busy' = Busy
      BY <2>2, <1>i, BusyStays
    <2> QED BY <2>1, <2>3, <1>i DEF SlotsConserved
  <1>6. CASE (\E c \in Clients : Connect(c)) \/ (\E t \in Tids : Hangup(t))
    BY <1>1, <1>6 DEF Connect, Hangup
  <1> QED BY <1>1, <1>2, <1>3, <1>4, <1>5, <1>6 DEF Next, WorkerStep, vars

\* Every step preserves the types; the bound on count_ is a consequence of
\* slot conservation.
LEMMA NextTypeOK == IInv /\ [Next]_vars => TypeOK'
  <1> SUFFICES ASSUME IInv, [Next]_vars PROVE TypeOK'
    OBVIOUS
  <1>i. TypeOK
    BY DEF IInv
  <1>1. /\ count' \in Nat
        /\ acceptor' \in {"wait", "accept"}
    BY <1>i DEF TypeOK, Next, WorkerStep, Wait, Connect, Accept, MakeDB,
         MakeDBThrows, Receive, Answer, AnswerThrows, EndOfChain, Notify, Exit,
         Hangup, vars
  <1>2. count' \in 0 .. MaxThreads
    <2>1. SlotsConserved'
      BY NextSlots
    <2>2. IsFiniteSet(Busy') /\ Cardinality(Busy') \in Nat
      BY FS_Subset, FS_CardinalityType, PoolAssumption DEF Busy
    <2> QED BY <1>1, <2>1, <2>2, PoolAssumption DEF SlotsConserved
  <1>3. backlog' \in Seq(Clients)
    <2>1. \/ UNCHANGED backlog
          \/ \E c \in Clients : backlog' = Append(backlog, c)
          \/ backlog # <<>> /\ backlog' = Tail(backlog)
      BY DEF Next, WorkerStep, Wait, Connect, Accept, MakeDB, MakeDBThrows,
         Receive, Answer, AnswerThrows, EndOfChain, Notify, Exit, Hangup, vars
    <2>2. backlog \in Seq(Clients)
      BY <1>i DEF TypeOK
    <2>3. \A c \in Clients : Append(backlog, c) \in Seq(Clients)
      BY <2>2, AppendProperties
    <2>4. backlog # <<>> => Tail(backlog) \in Seq(Clients)
      BY <2>2, HeadTailProperties
    <2> QED BY <2>1, <2>2, <2>3, <2>4
  <1>4. client' \in [Clients -> {"away", "queued", "attached", "gone"}]
    <2>1. \/ UNCHANGED client
          \/ \E c, s : /\ s \in {"away", "queued", "attached", "gone"}
                       /\ client' = [client EXCEPT ![c] = s]
      BY DEF Next, WorkerStep, Wait, Connect, Accept, MakeDB, MakeDBThrows,
         Receive, Answer, AnswerThrows, EndOfChain, Notify, Exit, Hangup, vars
    <2> QED BY <2>1, <1>i DEF TypeOK
  <1>5. worker' \in [Tids -> Owing \cup {"none", "notified"}]
    BY <1>i DEF TypeOK, Next, WorkerStep, Wait, Connect, Accept, MakeDB,
         MakeDBThrows, Receive, Answer, AnswerThrows, EndOfChain, Notify, Exit,
         Hangup, vars, Becomes, Owing, Serving
  <1>6. serves' \in [Tids -> Clients \cup {NoClient}]
    BY <1>i DEF TypeOK, Next, WorkerStep, Wait, Connect, Accept, MakeDB,
         MakeDBThrows, Receive, Answer, AnswerThrows, EndOfChain, Notify, Exit,
         Hangup, vars
  <1>7. handles' \in SUBSET Tids
    BY <1>i DEF TypeOK, Next, WorkerStep, Wait, Connect, Accept, MakeDB,
         MakeDBThrows, Receive, Answer, AnswerThrows, EndOfChain, Notify, Exit,
         Hangup, vars
  <1>8. vanished' \in SUBSET Tids
    BY <1>i DEF TypeOK, Next, WorkerStep, Wait, Connect, Accept, MakeDB,
         MakeDBThrows, Receive, Answer, AnswerThrows, EndOfChain, Notify, Exit,
         Hangup, vars
  <1> QED BY <1>1, <1>2, <1>3, <1>4, <1>5, <1>6, <1>7, <1>8 DEF TypeOK

-----------------------------------------------------------------------------
\* Clients and threads stay matched: what a connecting client, the acceptor
\* and an ending thread do to the queue and to the table of clients.
LEMMA NextMatching ==
  IInv /\ [Next]_vars => ServedOnce' /\ BacklogInv' /\ ServesInv' /\ PeerWaits'
  <1> SUFFICES ASSUME IInv, [Next]_vars
               PROVE  ServedOnce' /\ BacklogInv' /\ ServesInv' /\ PeerWaits'
    OBVIOUS
  <1>i. TypeOK /\ ServedOnce /\ BacklogInv /\ ServesInv /\ PeerWaits /\ OrphansOfVanished
    BY DEF IInv
  <1>n. NoClient \notin Clients /\ backlog \in Seq(Clients)
    BY <1>i, PoolAssumption DEF TypeOK
  <1> USE DEF TypeOK, Owing, Serving
  <1>1. CASE UNCHANGED <<backlog, client, worker, serves, vanished>>
    BY <1>1, <1>i DEF ServedOnce, BacklogInv, ServesInv, PeerWaits, PeerThere
  <1>2. ASSUME NEW c \in Clients, Connect(c)
        PROVE  ServedOnce' /\ BacklogInv' /\ ServesInv' /\ PeerWaits'
    <2>1. /\ DOMAIN backlog' = 1 .. Len(backlog) + 1
          /\ DOMAIN backlog = 1 .. Len(backlog)
          /\ Len(backlog) \in Nat
          /\ \A i \in DOMAIN backlog : backlog'[i] = backlog[i] /\ backlog[i] \in Clients
          /\ backlog'[Len(backlog) + 1] = c
      BY <1>2, <1>n DEF Connect
    <2>2. \A i \in DOMAIN backlog : backlog[i] # c
      BY <1>2, <1>i DEF Connect, BacklogInv
    <2>3. BacklogInv'
      BY <1>2, <1>i, <2>1, <2>2 DEF Connect, BacklogInv
    <2>4. \A t \in Tids : serves[t] # c
      BY <1>2, <1>i, <1>n DEF Connect, ServesInv
    <2>5. ServedOnce' /\ ServesInv' /\ PeerWaits'
      BY <1>2, <1>i, <1>n, <2>4 DEF Connect, ServedOnce, ServesInv, PeerWaits, PeerThere
    <2> QED BY <2>3, <2>5
  <1>3. ASSUME NEW t \in Tids, Accept(t)
        PROVE  ServedOnce' /\ BacklogInv' /\ ServesInv' /\ PeerWaits'
    <2> DEFINE c == Head(backlog)
    <2>1. /\ DOMAIN backlog = 1 .. Len(backlog)
          /\ Len(backlog) \in Nat /\ Len(backlog) > 0
          /\ DOMAIN backlog' = 1 .. Len(backlog) - 1
          /\ \A i \in DOMAIN backlog' :
               backlog'[i] = backlog[i + 1] /\ backlog'[i] \in Clients
          /\ backlog[1] = c /\ c \in Clients
      BY <1>3, <1>n DEF Accept
    <2>2. client[c] = "queued"
      BY <2>1, <1>i DEF BacklogInv
    <2>3. \A i \in DOMAIN backlog' : backlog'[i] # c
      BY <2>1, <1>i DEF BacklogInv
    <2>4. BacklogInv'
      BY <1>3, <1>i, <2>1, <2>3 DEF Accept, BacklogInv
    <2>5. \A u \in Tids : serves[u] # c
      BY <2>1, <2>2, <1>i, <1>n DEF ServesInv
    <2> HIDE DEF c
    <2>6. /\ client' = [client EXCEPT ![c] = "attached"]
          /\ serves' = [serves EXCEPT ![t] = c]
          /\ worker' = [worker EXCEPT ![t] = "start"]
          /\ UNCHANGED vanished
      BY <1>3 DEF Accept, c
    <2>7. ServedOnce'
      BY <1>i, <1>n, <2>1, <2>5, <2>6 DEF ServedOnce
    <2>8. ServesInv'
      BY <1>i, <1>n, <2>1, <2>5, <2>6 DEF ServesInv
    <2>9. PeerWaits'
      BY <1>i, <1>n, <2>1, <2>5, <2>6 DEF PeerWaits, PeerThere
    <2> QED BY <2>4, <2>7, <2>8, <2>9
  <1>4. ASSUME NEW t \in Tids,
               \/ MakeDB(t) \/ MakeDBThrows(t) \/ Receive(t) \/ Answer(t)
               \/ AnswerThrows(t) \/ EndOfChain(t) \/ Notify(t)
        PROVE  ServedOnce' /\ BacklogInv' /\ ServesInv' /\ PeerWaits'
    <2>1. UNCHANGED <<backlog, client, serves, vanished>>
      BY <1>4 DEF MakeDB, MakeDBThrows, Receive, Answer, AnswerThrows,
                  EndOfChain, Notify
    <2>2. ServedOnce' /\ BacklogInv'
      BY <2>1, <1>i DEF ServedOnce, BacklogInv
    <2>3. \A u \in Tids : worker'[u] = "none" <=> worker[u] = "none"
      BY <1>4, <1>i DEF MakeDB, MakeDBThrows, Receive, Answer, AnswerThrows,
                  EndOfChain, Notify, Becomes
    <2>4. ServesInv'
      BY <2>1, <2>3, <1>i DEF ServesInv
    <2>5. PeerWaits'
      <3>1. \A u \in Tids : PeerThere(u)' <=> PeerThere(u)
        BY <2>1 DEF PeerThere
      <3>2. CASE MakeDB(t)
        <4>1. t \notin vanished
          BY <3>2, <1>i DEF MakeDB, OrphansOfVanished
        <4> QED BY <2>1, <3>1, <3>2, <4>1, <1>i DEF MakeDB, Becomes, PeerWaits
      <3>3. CASE Receive(t) \/ Answer(t)
        BY <2>1, <3>1, <3>3, <1>i DEF Receive, Answer, Becomes, PeerWaits
      <3>4. CASE MakeDBThrows(t) \/ AnswerThrows(t) \/ EndOfChain(t) \/ Notify(t)
        BY <2>1, <3>1, <3>4, <1>i DEF MakeDBThrows, AnswerThrows, EndOfChain, Notify, Becomes, PeerWaits
      <3> QED BY <1>4, <3>2, <3>3, <3>4
    <2> QED BY <2>2, <2>4, <2>5
  <1>5. ASSUME NEW t \in Tids, Exit(t) \/ Hangup(t)
        PROVE  ServedOnce' /\ BacklogInv' /\ ServesInv' /\ PeerWaits'
    <2> DEFINE c == serves[t]
    <2>1. c \in Clients /\ client[c] \in {"attached", "gone"}
      BY <1>5, <1>i DEF Exit, Hangup, ServesInv
    <2>2. \A u \in Tids : u # t => serves[u] # c
      BY <2>1, <1>i, <1>n DEF ServedOnce
    <2>3. UNCHANGED backlog /\ \A d \in Clients : d # c => client'[d] = client[d]
      BY <1>5, <1>i DEF Exit, Hangup
    <2>4. BacklogInv'
      <3>1. \A i \in DOMAIN backlog : backlog[i] \in Clients /\ backlog[i] # c
        BY <2>1, <1>i, <1>n DEF BacklogInv
      <3> QED BY <2>3, <3>1, <1>i DEF BacklogInv
    <2>5. ServedOnce'
      BY <1>5, <1>i, <1>n, <2>1, <2>2 DEF Exit, Hangup, ServedOnce
    <2>6. ServesInv'
      BY <1>5, <1>i, <1>n, <2>1, <2>2 DEF Exit, Hangup, ServesInv, Becomes
    <2>7. PeerWaits'
      <3>1. CASE Exit(t)
        BY <3>1, <1>i, <1>n, <2>1, <2>2 DEF Exit, PeerWaits, PeerThere, Becomes, ServesInv
      <3>2. CASE Hangup(t)
        <4>1. CASE worker[t] \in {"control", "command"}
          <5>1. vanished' = vanished \cup {t} /\ worker' = worker /\ serves' = serves
            BY <3>2, <4>1 DEF Hangup
          <5>2. client' = [client EXCEPT ![c] = "gone"]
            BY <3>2 DEF Hangup
          <5>3. ~PeerThere(t)' /\ \A u \in Tids \ {t} : PeerThere(u)' <=> PeerThere(u)
            BY <5>1, <5>2, <1>i, <1>n, <2>1, <2>2 DEF PeerThere
          <5> QED BY <4>1, <5>1, <5>3, <1>i DEF PeerWaits
        <4>2. CASE worker[t] \notin {"control", "command"}
          BY <3>2, <4>2, <1>i, <1>n, <2>1, <2>2 DEF Hangup, PeerWaits, PeerThere, ServesInv
        <4> QED BY <4>1, <4>2
      <3> QED BY <1>5, <3>1, <3>2
    <2> QED BY <2>4, <2>5, <2>6, <2>7
  <1> QED BY <1>1, <1>2, <1>3, <1>4, <1>5 DEF Next, WorkerStep, Wait, vars

\* Handles follow the workers that use them.
LEMMA NextHandles ==
  IInv /\ [Next]_vars => ServedWithHandle' /\ OrphansOfVanished'
  <1> SUFFICES ASSUME IInv, [Next]_vars PROVE ServedWithHandle' /\ OrphansOfVanished'
    OBVIOUS
  <1>i. TypeOK /\ ServedWithHandle /\ OrphansOfVanished /\ PeerWaits
    BY DEF IInv
  <1> USE DEF TypeOK, Owing, Serving, ServedWithHandle, OrphansOfVanished
  <1>1. CASE UNCHANGED <<worker, handles, vanished>>
    BY <1>1, <1>i
  <1>2. ASSUME NEW t \in Tids, WorkerStep(t) \/ Receive(t) \/ Accept(t)
        PROVE  ServedWithHandle' /\ OrphansOfVanished'
    <2>1. CASE Accept(t) \/ Notify(t) \/ Exit(t)
      BY <2>1, <1>i DEF Accept, Notify, Exit, Becomes
    <2>2. CASE MakeDB(t)
      BY <2>2, <1>i DEF MakeDB, Becomes
    <2>3. CASE MakeDBThrows(t)
      BY <2>3, <1>i DEF MakeDBThrows, Becomes
    <2>4. CASE Receive(t) \/ Answer(t)
      BY <2>4, <1>i DEF Receive, Answer, Becomes
    <2>5. CASE AnswerThrows(t)
      BY <2>5, <1>i DEF AnswerThrows, Becomes, PeerWaits
    <2>6. CASE EndOfChain(t)
      <3>1. t \notin vanished
        BY <2>6, <1>i DEF EndOfChain, PeerWaits
      <3> QED BY <2>6, <3>1, <1>i DEF EndOfChain, Becomes
    <2> QED BY <1>2, <2>1, <2>2, <2>3, <2>4, <2>5, <2>6 DEF WorkerStep
  <1>3. ASSUME NEW t \in Tids, Hangup(t)
        PROVE  ServedWithHandle' /\ OrphansOfVanished'
    BY <1>3, <1>i DEF Hangup
  <1> QED BY <1>1, <1>2, <1>3 DEF Next, Wait, Connect, vars

\* The inductive invariant holds always.
LEMMA Inductive == SafetySpec => []IInv
  <1>1. IInv /\ [Next]_vars => IInv'
    BY NextSlots, NextTypeOK, NextMatching, NextHandles DEF IInv
  <1> QED BY InitIInv, <1>1, PTL DEF SafetySpec

\* The state is well typed; in particular count_ never exceeds maxThreads.
THEOREM TypeCorrect == SafetySpec => []TypeOK
  <1>1. IInv => TypeOK
    BY DEF IInv
  <1> QED BY Inductive, <1>1, PTL

\* No way in which a worker ends loses or creates a slot of the semaphore.
THEOREM SlotConservation == SafetySpec => []SlotsConserved
  <1>1. IInv => SlotsConserved
    BY DEF IInv
  <1> QED BY Inductive, <1>1, PTL

\* A worker that serves a client has a database connection.
THEOREM HandleWhileServing == SafetySpec => []ServedWithHandle
  <1>1. IInv => ServedWithHandle
    BY DEF IInv
  <1> QED BY Inductive, <1>1, PTL

\* A handle is used by a worker, or was left by a thread whose client vanished
\* before its answer; that one stays for good.
THEOREM OnlyVanishedLeaveHandles == SafetySpec => []OrphansOfVanished
  <1>1. IInv => OrphansOfVanished
    BY DEF IInv
  <1> QED BY Inductive, <1>1, PTL
=============================================================================
