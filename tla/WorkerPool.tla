----------------------------- MODULE WorkerPool -----------------------------
(***************************************************************************)
(* The janosh daemon's thread pool: TcpServer::run admits connections      *)
(* under a counting semaphore, one detached TcpWorker thread serves each,  *)
(* and Record::db maps the id of a thread to its database connection.      *)
(* Thread ids are reused when a thread has ended.                          *)
(***************************************************************************)
EXTENDS Naturals, FiniteSets, Sequences

CONSTANTS MaxThreads,     \* maxThreads of .janosh/janosh.json
          Tids,           \* bound: thread ids the system hands out
          Clients,        \* bound: processes that may be connected at once
          NoClient

ASSUME PoolAssumption ==
  /\ MaxThreads \in Nat \ {0}
  /\ IsFiniteSet(Tids)
  /\ NoClient \notin Clients

VARIABLES
  count,      \* count_ of threadLimit_
  acceptor,   \* the main thread: before threadLimit_.wait, or in accept
  backlog,    \* connections the kernel holds for accept
  client,     \* what each client is doing
  worker,     \* what the thread with each id is doing
  serves,     \* the client of each thread
  handles,    \* the thread ids that are keys of Record::db
  vanished    \* history: threads whose client has gone away before its answer

vars == <<count, acceptor, backlog, client, worker, serves, handles, vanished>>

\* A worker between the return of makeDB and its end.
Serving == {"receive", "control", "command"}

\* A worker that still owes threadLimit_ a notify.
Owing == {"start", "done"} \cup Serving

Init ==
  /\ count = MaxThreads
  /\ acceptor = "wait"
  /\ backlog = <<>>
  /\ client = [c \in Clients |-> "away"]
  /\ worker = [t \in Tids |-> "none"]
  /\ serves = [t \in Tids |-> NoClient]
  /\ handles = {}
  /\ vanished = {}

-----------------------------------------------------------------------------
\* A client connects; the kernel queues it for accept.
Connect(c) ==
  /\ client[c] = "away"
  /\ client' = [client EXCEPT ![c] = "queued"]
  /\ backlog' = Append(backlog, c)
  /\ UNCHANGED <<count, acceptor, worker, serves, handles, vanished>>

\* Slip: the semaphore is not consulted before accepting.
WaitUnchecked ==
  /\ acceptor = "wait"
  /\ acceptor' = "accept"
  /\ UNCHANGED <<count, backlog, client, worker, serves, handles, vanished>>

\* threadLimit_.wait() returns.
Wait ==
  /\ acceptor = "wait"
  /\ count > 0
  /\ count' = count - 1
  /\ acceptor' = "accept"
  /\ UNCHANGED <<backlog, client, worker, serves, handles, vanished>>

\* clients_.accept() returns and a detached thread is started for the client.
Accept(t) ==
  /\ acceptor = "accept"
  /\ backlog # <<>>
  /\ worker[t] = "none"
  /\ acceptor' = "wait"
  /\ backlog' = Tail(backlog)
  /\ client' = [client EXCEPT ![Head(backlog)] = "attached"]
  /\ worker' = [worker EXCEPT ![t] = "start"]
  /\ serves' = [serves EXCEPT ![t] = Head(backlog)]
  /\ UNCHANGED <<count, handles, vanished>>

-----------------------------------------------------------------------------
\* The peer of t is still connected.
PeerThere(t) == client[serves[t]] = "attached"

Becomes(t, state) == worker' = [worker EXCEPT ![t] = state]

\* Record::makeDB registers a database connection for the thread.
MakeDB(t) ==
  /\ worker[t] = "start"
  /\ t \notin handles
  /\ handles' = handles \cup {t}
  /\ Becomes(t, "receive")
  /\ UNCHANGED <<count, acceptor, backlog, client, serves, vanished>>

\* Record::makeDB throws "DB already initialized": runSynchron swallows it and
\* the client is dropped without an answer.
MakeDBThrows(t) ==
  /\ worker[t] = "start"
  /\ t \in handles
  /\ Becomes(t, "done")
  /\ UNCHANGED <<count, acceptor, backlog, client, serves, handles, vanished>>

\* A request arrives: begin, commit and abort are answered outside the try
\* block of the loop, every other command inside it.
Receive(t) ==
  /\ worker[t] = "receive"
  /\ PeerThere(t)
  /\ \E kind \in {"control", "command"} : Becomes(t, kind)
  /\ UNCHANGED <<count, acceptor, backlog, client, serves, handles, vanished>>

\* Slip: destroyDB also when the thread goes on.
AnswerDestroying(t) ==
  /\ worker[t] \in {"control", "command"}
  /\ PeerThere(t)
  /\ handles' = handles \ {t}
  /\ Becomes(t, "receive")
  /\ UNCHANGED <<count, acceptor, backlog, client, serves, vanished>>

\* The answer is sent, whether the command succeeded or failed.
Answer(t) ==
  /\ worker[t] \in {"control", "command"}
  /\ PeerThere(t)
  /\ Becomes(t, "receive")
  /\ UNCHANGED <<count, acceptor, backlog, client, serves, handles, vanished>>

\* The peer is gone.  For a command the catch block sends a second time, which
\* throws as well.  The exception leaves run() and skips destroyDB.
AnswerThrows(t) ==
  /\ worker[t] \in {"control", "command"}
  /\ ~PeerThere(t)
  /\ Becomes(t, "done")
  /\ UNCHANGED <<count, acceptor, backlog, client, serves, handles, vanished>>

\* Slip: the handle is left in the map at the end of a chain.
EndOfChainLeaking(t) ==
  /\ worker[t] = "receive"
  /\ ~PeerThere(t)
  /\ Becomes(t, "done")
  /\ UNCHANGED <<count, acceptor, backlog, client, serves, handles, vanished>>

\* End of file: the loop ends and destroyDB removes the handle.
EndOfChain(t) ==
  /\ worker[t] = "receive"
  /\ ~PeerThere(t)
  /\ handles' = handles \ {t}
  /\ Becomes(t, "done")
  /\ UNCHANGED <<count, acceptor, backlog, client, serves, vanished>>

\* Slip: only a worker that served its client gives the slot back.
NotifyIfServed(t) ==
  /\ worker[t] = "done"
  /\ count' = IF client[serves[t]] = "gone" THEN count + 1 ELSE count
  /\ Becomes(t, "notified")
  /\ UNCHANGED <<acceptor, backlog, client, serves, handles, vanished>>

\* threadLimit_.notify(), however run() ended.
Notify(t) ==
  /\ worker[t] = "done"
  /\ count' = count + 1
  /\ Becomes(t, "notified")
  /\ UNCHANGED <<acceptor, backlog, client, serves, handles, vanished>>

\* delete client closes the socket and the thread ends; its id is free again.
Exit(t) ==
  /\ worker[t] = "notified"
  /\ Becomes(t, "none")
  /\ serves' = [serves EXCEPT ![t] = NoClient]
  /\ client' = [client EXCEPT ![serves[t]] = "away"]
  /\ UNCHANGED <<count, acceptor, backlog, handles, vanished>>

-----------------------------------------------------------------------------
\* TcpClient::close, after the answer to commit or abort; or the end of the
\* client process at any moment.
Hangup(t) ==
  /\ worker[t] \in Owing \ {"done"}
  /\ PeerThere(t)
  /\ client' = [client EXCEPT ![serves[t]] = "gone"]
  /\ vanished' = vanished \cup {u \in {t} : worker[u] \in {"control", "command"}}
  /\ UNCHANGED <<count, acceptor, backlog, worker, serves, handles>>

WorkerStep(t) ==
  \/ MakeDB(t)
  \/ MakeDBThrows(t)
  \/ Answer(t)
  \/ AnswerThrows(t)
  \/ EndOfChain(t)
  \/ Notify(t)
  \/ Exit(t)

Next ==
  \/ Wait
  \/ \E c \in Clients : Connect(c)
  \/ \E t \in Tids : Accept(t) \/ WorkerStep(t) \/ Receive(t) \/ Hangup(t)

SafetySpec == Init /\ [][Next]_vars

\* The threads run, and a client hangs up after finitely many requests: each
\* janosh client and each transaction ends with TcpClient::close.
Fairness ==
  /\ WF_vars(Wait)
  /\ WF_vars(\E t \in Tids : Accept(t))
  /\ \A t \in Tids : WF_vars(WorkerStep(t)) /\ SF_vars(Hangup(t))

Spec == SafetySpec /\ Fairness

-----------------------------------------------------------------------------
\* Type invariant; a semaphore never exceeds its initial value.
TypeOK ==
  /\ count \in 0 .. MaxThreads
  /\ acceptor \in {"wait", "accept"}
  /\ backlog \in Seq(Clients)
  /\ client \in [Clients -> {"away", "queued", "attached", "gone"}]
  /\ worker \in [Tids -> Owing \cup {"none", "notified"}]
  /\ serves \in [Tids -> Clients \cup {NoClient}]
  /\ handles \in SUBSET Tids
  /\ vanished \in SUBSET Tids

Busy == {t \in Tids : worker[t] \in Owing}

\* Every one of the maxThreads slots is in the semaphore, with the acceptor or
\* with a worker, whichever way a worker ends: by end of file, by an exception
\* in makeDB or by an exception while answering.  So the daemon neither runs
\* out of slots nor ever serves more than maxThreads connections.
SlotsConserved ==
  count + (IF acceptor = "accept" THEN 1 ELSE 0) + Cardinality(Busy) = MaxThreads

\* A worker that runs a command has its own database connection: getDB and
\* destroyDB never throw "DB not initialized".
ServedWithHandle == \A t \in Tids : worker[t] \in Serving => t \in handles

\* A database connection belongs to the worker that uses it, or to a thread id
\* whose client once vanished before its answer: neither a hangup between two
\* requests nor one before the first leaves a handle behind, and none that has
\* been left is ever taken away or used, whichever threads get that id later.
OrphansOfVanished == handles = {t \in Tids : worker[t] \in Serving} \cup vanished

\* A new worker never meets a handle that an earlier thread left behind, the
\* case makeDB rejects with "DB already initialized".
FreshThreadHasNoHandle == \A t \in Tids : worker[t] = "start" => t \notin handles

\* Every queued connection is accepted, even when clients vanish and their
\* workers end by exceptions.
EventuallyAccepted == \A c \in Clients : client[c] = "queued" ~> client[c] = "attached"
=============================================================================
