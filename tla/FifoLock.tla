------------------------------ MODULE FifoLock ------------------------------
(***************************************************************************)
(* What a Lua script expects of Janosh:transaction: one thread at a time   *)
(* is inside a transaction, threads enter in the order in which they       *)
(* asked, and nobody who asked waits for ever.  LuaTransactions is shown   *)
(* to implement this specification.                                        *)
(***************************************************************************)
EXTENDS Sequences

CONSTANTS Threads,      \* the Lua threads of one janosh process
          NoThread      \* "nobody", not a member of Threads

VARIABLES owner,        \* the thread inside a transaction, or NoThread
          line          \* the threads that wait, in order of arrival

vars == <<owner, line>>

Init == owner = NoThread /\ line = <<>>

\* A thread that finds the transaction taken, or others before it, lines up.
Join(t) ==
  /\ owner # t
  /\ \A i \in DOMAIN line : line[i] # t
  /\ owner # NoThread \/ line # <<>>
  /\ line' = Append(line, t)
  /\ UNCHANGED owner

\* A thread that finds nobody enters at once.
Enter(t) ==
  /\ owner = NoThread
  /\ line = <<>>
  /\ owner' = t
  /\ UNCHANGED line

\* The first in line enters when the transaction is free.
Grant ==
  /\ owner = NoThread
  /\ line # <<>>
  /\ owner' = Head(line)
  /\ line' = Tail(line)

Leave(t) ==
  /\ owner = t
  /\ owner' = NoThread
  /\ UNCHANGED line

Next == \/ \E t \in Threads : Join(t) \/ Enter(t) \/ Leave(t)
        \/ Grant

SafetySpec == Init /\ [][Next]_vars

Spec == /\ SafetySpec
        /\ WF_vars(Grant)
        /\ \A t \in Threads : WF_vars(Leave(t))
=============================================================================
