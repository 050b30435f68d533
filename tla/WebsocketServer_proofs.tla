------------------------ MODULE WebsocketServer_proofs ------------------------
(***************************************************************************)
(* Proofs about WebsocketServer, for any connections, users, session keys  *)
(* and bounds.  Each invariant is disturbed by few of the actions; the     *)
(* lemmas ...Steps say what an action does to one group of variables.      *)
(***************************************************************************)
EXTENDS WebsocketServer, SequenceTheorems, TLAPS

\* An open connection whose unsubscribe is queued was opened again after it:
\* its subscribe comes later in the queue.
Resubscribed ==
  \A c \in open : \A i \in DOMAIN actionQueue :
    actionQueue[i] = Unsubscribe(c) =>
      \E j \in DOMAIN actionQueue : j > i /\ actionQueue[j] = Subscribe(c)

ActionType == [type : {"SUBSCRIBE", "UNSUBSCRIBE"}, hdl : Conns]
HInv == HandleTypes /\ HandlesLeadBack
SInv == SessionTypes /\ SessionsListed
IInv == /\ HInv /\ SInv /\ QueueTypes
        /\ HandleUnlessMoved /\ Resubscribed /\ ReceiveBounded

HeadAction == actionQueue # <<>> /\ actionQueue' = Tail(actionQueue)

-----------------------------------------------------------------------------
\* What a step does to the handles.
LEMMA HandleSteps ==
  ASSUME Next
  PROVE  \/ UNCHANGED handleVars
         \/ \E c \in Conns, k \in DOMAIN skeyConMap : RemapHandle(c, k)
         \/ HeadAction /\ createLuaHandle(Head(actionQueue).hdl)
         \/ HeadAction /\ destroyLuaHandle(Head(actionQueue).hdl)
  <1>1. CASE \E c \in Conns, k \in Keys : Resume(c, k)
    BY <1>1 DEF Resume, RemapSession
  <1>2. CASE ProcessMessage
    BY <1>2 DEF ProcessMessage, HeadAction
  <1>3. CASE ~ProcessMessage /\ ~\E c \in Conns, k \in Keys : Resume(c, k)
    BY <1>3 DEF Next, on_message, on_open, on_close, Logout, LogoutAborts, MessageForLua, Push,
       Login, Register, Refuse, Receive, Accept, Reject, GetHandlesAborts, handleVars
  <1> QED BY <1>1, <1>2, <1>3

\* What a step does to the sessions.
LEMMA SessionSteps ==
  ASSUME Next, QueueTypes, SessionTypes
  PROVE  \/ UNCHANGED <<sessionVars, authData>>
         \/ \E k \in DOMAIN skeyConMap : destroySession(k) /\ UNCHANGED authData
         \/ \E c \in Conns, u \in Users : NewSession(c, u) /\ authData' \in SUBSET Users
         \/ \E c \in Conns, k \in DOMAIN skeyConMap :
              /\ skeyConMap' = Map(skeyConMap, k, c)
              /\ conSkeyMap' = Map(conSkeyMap, c, k)
              /\ UNCHANGED <<skeyNameMap, nameSkeyMap, authData>>
  <1>1. CASE \E c \in Conns, k \in Keys : Resume(c, k)
    BY <1>1 DEF Resume, RemapHandle, RemapSession, sessionVars
  <1>2. CASE \E c \in Conns, k \in Keys : Logout(c, k)
    BY <1>2 DEF Logout
  <1>3. CASE \E c \in Conns, u \in Users : Login(c, u)
    BY <1>3 DEF Login, SessionTypes
  <1>4. CASE Accept
    <2>1. Head(validationQueue) \in [hdl : Conns, user : Users]
      BY <1>4, HeadTailProperties DEF Accept, Validating, QueueTypes
    <2> QED BY <1>4, <2>1 DEF Accept, SessionTypes
  <1>5. CASE /\ ~Accept
             /\ ~\E c \in Conns, k \in Keys : Resume(c, k) \/ Logout(c, k)
             /\ ~\E c \in Conns, u \in Users : Login(c, u)
    BY <1>5 DEF Next, on_message, on_open, on_close, LogoutAborts, MessageForLua, Push,
       Register, Refuse, ProcessMessage, Receive, Reject, GetHandlesAborts, sessionVars
  <1> QED BY <1>1, <1>2, <1>3, <1>4, <1>5

\* What a step does to the open connections and the queue of process_messages.
LEMMA ActionSteps ==
  ASSUME Next
  PROVE  \/ UNCHANGED <<open, moved, actionQueue, m_luahandles_rev>>
         \/ \E c \in Conns : on_open(c) \/ on_close(c)
         \/ \E c \in Conns, k \in DOMAIN skeyConMap : RemapHandle(c, k) /\ UNCHANGED <<open, actionQueue>>
         \/ HeadAction /\ ProcessMessage
  <1>1. CASE \E c \in Conns, k \in Keys : Resume(c, k)
    BY <1>1 DEF Resume, RemapSession, handleVars
  <1>2. CASE ProcessMessage
    BY <1>2 DEF ProcessMessage, HeadAction
  <1>3. CASE \E c \in Conns : on_open(c) \/ on_close(c)
    BY <1>3
  <1>4. CASE /\ ~ProcessMessage /\ ~\E c \in Conns : on_open(c) \/ on_close(c)
             /\ ~\E c \in Conns, k \in Keys : Resume(c, k)
    BY <1>4 DEF Next, on_message, Logout, LogoutAborts, MessageForLua, Push,
       Login, Register, Refuse, Receive, Accept, Reject, GetHandlesAborts, handleVars
  <1> QED BY <1>1, <1>2, <1>3, <1>4

-----------------------------------------------------------------------------
\* The first action of the queue is about a connection.
LEMMA HeadConn ==
  ASSUME QueueTypes, HeadAction
  PROVE  Head(actionQueue).hdl \in Conns
  <1>1. actionQueue \in Seq(ActionType) /\ actionQueue # <<>>
    BY DEF QueueTypes, HeadAction, ActionType
  <1>2. Head(actionQueue) \in ActionType
    BY <1>1, HeadTailProperties
  <1> QED BY <1>2 DEF ActionType

\* Handing out a new handle.
LEMMA CreateKeepsHandles ==
  ASSUME HInv, NEW c \in Conns, createLuaHandle(c)
  PROVE  HInv'
  <1> DEFINE h == luaHandleMax + 1
  <1>1. /\ luaHandleMax \in Nat /\ h \in Nat /\ luaHandleMax' = h
        /\ h \notin DOMAIN m_luahandles
        /\ \A n \in 1 .. luaHandleMax : n \in 1 .. h /\ n # h
        /\ h \in 1 .. h
    BY DEF HInv, HandleTypes, createLuaHandle
  <1> HIDE DEF h
  <1>2. /\ m_luahandles' \in [DOMAIN m_luahandles \cup {h} -> Conns]
        /\ DOMAIN m_luahandles' = DOMAIN m_luahandles \cup {h}
        /\ m_luahandles'[h] = c
        /\ \A n \in DOMAIN m_luahandles : m_luahandles'[n] = m_luahandles[n]
    BY <1>1 DEF HInv, HandleTypes, createLuaHandle, h, Map
  <1>3. m_luahandles_rev \in [DOMAIN m_luahandles_rev -> 1 .. h]
    BY <1>1 DEF HInv, HandleTypes
  <1>4. /\ m_luahandles_rev' \in [DOMAIN m_luahandles_rev \cup {c} -> 1 .. h]
        /\ DOMAIN m_luahandles_rev' = DOMAIN m_luahandles_rev \cup {c}
        /\ m_luahandles_rev'[c] = h
        /\ \A d \in DOMAIN m_luahandles_rev :
             d # c => m_luahandles_rev'[d] = m_luahandles_rev[d]
    BY <1>1, <1>3 DEF createLuaHandle, h, Map
  <1>5. HandleTypes'
    BY <1>1, <1>2, <1>4 DEF HInv, HandleTypes
  <1>6. HandlesLeadBack'
    BY <1>1, <1>2, <1>4 DEF HInv, HandleTypes, HandlesLeadBack
  <1> QED BY <1>5, <1>6 DEF HInv

\* Taking the handle of a closed connection back: no other connection has it.
LEMMA DestroyKeepsHandles ==
  ASSUME HInv, NEW c \in Conns, destroyLuaHandle(c)
  PROVE  HInv'
  <1>1. /\ m_luahandles_rev' \in [DOMAIN m_luahandles_rev \ {c} -> 1 .. luaHandleMax]
        /\ DOMAIN m_luahandles_rev' = DOMAIN m_luahandles_rev \ {c}
        /\ \A d \in DOMAIN m_luahandles_rev \ {c} : m_luahandles_rev'[d] = m_luahandles_rev[d]
    BY DEF HInv, HandleTypes, destroyLuaHandle, Erase
  <1>2. CASE c \in DOMAIN m_luahandles_rev
    <2> DEFINE h == m_luahandles_rev[c]
    <2>1. /\ m_luahandles' \in [DOMAIN m_luahandles \ {h} -> Conns]
          /\ DOMAIN m_luahandles' = DOMAIN m_luahandles \ {h}
          /\ \A n \in DOMAIN m_luahandles \ {h} : m_luahandles'[n] = m_luahandles[n]
      BY <1>2 DEF HInv, HandleTypes, destroyLuaHandle, Erase
    <2>2. \A d \in DOMAIN m_luahandles_rev \ {c} : m_luahandles_rev[d] # h
      BY <1>2 DEF HInv, HandlesLeadBack
    <2>3. HandleTypes'
      BY <1>1, <2>1 DEF HInv, HandleTypes, destroyLuaHandle
    <2>4. HandlesLeadBack'
      BY <1>1, <2>1, <2>2 DEF HInv, HandlesLeadBack
    <2> QED BY <2>3, <2>4 DEF HInv
  <1>3. CASE c \notin DOMAIN m_luahandles_rev
    <2>1. m_luahandles' = m_luahandles
      BY <1>3 DEF destroyLuaHandle
    <2>2. HandleTypes'
      BY <1>1, <2>1 DEF HInv, HandleTypes, destroyLuaHandle
    <2>3. HandlesLeadBack'
      BY <1>1, <2>1 DEF HInv, HandlesLeadBack
    <2> QED BY <2>2, <2>3 DEF HInv
  <1> QED BY <1>2, <1>3

\* Moving a handle to the connection that resumes a session.
LEMMA RemapKeepsHandles ==
  ASSUME HInv, SessionTypes, NEW c \in Conns, NEW k \in DOMAIN skeyConMap, RemapHandle(c, k)
  PROVE  HInv'
  <1> DEFINE old == skeyConMap[k]
             h == m_luahandles_rev[old]
             rev == Map(m_luahandles_rev, c, h)
  <1>1. /\ old # c /\ old \in DOMAIN m_luahandles_rev
        /\ h \in 1 .. luaHandleMax
        /\ h \in DOMAIN m_luahandles /\ m_luahandles[h] = old
    BY DEF HInv, HandleTypes, HandlesLeadBack, RemapHandle
  <1>2. /\ m_luahandles' \in [DOMAIN m_luahandles \cup {h} -> Conns]
        /\ DOMAIN m_luahandles' = DOMAIN m_luahandles \cup {h}
        /\ m_luahandles'[h] = c
        /\ \A n \in DOMAIN m_luahandles : n # h => m_luahandles'[n] = m_luahandles[n]
    BY <1>1 DEF HInv, HandleTypes, RemapHandle, Map
  <1>3. /\ rev \in [DOMAIN m_luahandles_rev \cup {c} -> 1 .. luaHandleMax]
        /\ DOMAIN rev = DOMAIN m_luahandles_rev \cup {c}
        /\ rev[c] = h
        /\ \A d \in DOMAIN m_luahandles_rev : d # c => rev[d] = m_luahandles_rev[d]
    BY <1>1 DEF HInv, HandleTypes, Map
  <1>4. m_luahandles_rev' = Erase(rev, old) /\ luaHandleMax' = luaHandleMax
    BY DEF RemapHandle
  <1> HIDE DEF rev
  <1>5. /\ m_luahandles_rev' \in [(DOMAIN m_luahandles_rev \cup {c}) \ {old} -> 1 .. luaHandleMax]
        /\ DOMAIN m_luahandles_rev' = (DOMAIN m_luahandles_rev \cup {c}) \ {old}
        /\ \A d \in (DOMAIN m_luahandles_rev \cup {c}) \ {old} : m_luahandles_rev'[d] = rev[d]
    BY <1>3, <1>4 DEF Erase
  <1>6. \A d \in DOMAIN m_luahandles_rev \ {old} : m_luahandles_rev[d] # h
    BY <1>1 DEF HInv, HandlesLeadBack
  <1> HIDE DEF old, h
  <1>7. HandleTypes'
    BY <1>1, <1>2, <1>4, <1>5 DEF HInv, HandleTypes
  <1>8. HandlesLeadBack'
    BY <1>1, <1>2, <1>3, <1>5, <1>6 DEF HInv, HandlesLeadBack
  <1> QED BY <1>7, <1>8 DEF HInv

\* Every step keeps the handles right.
LEMMA HandlesStep ==
  ASSUME HInv, SessionTypes, QueueTypes, Next
  PROVE  HInv'
  <1>1. CASE UNCHANGED handleVars
    BY <1>1 DEF HInv, HandleTypes, HandlesLeadBack, handleVars
  <1>2. CASE \E c \in Conns, k \in DOMAIN skeyConMap : RemapHandle(c, k)
    BY <1>2, RemapKeepsHandles
  <1>3. CASE HeadAction /\ createLuaHandle(Head(actionQueue).hdl)
    BY <1>3, HeadConn, CreateKeepsHandles
  <1>4. CASE HeadAction /\ destroyLuaHandle(Head(actionQueue).hdl)
    BY <1>4, HeadConn, DestroyKeepsHandles
  <1> QED BY <1>1, <1>2, <1>3, <1>4, HandleSteps

-----------------------------------------------------------------------------
\* A logout removes the key from the list of its user, and from the list only
\* that: every key is listed with the one user skeyNameMap has for it.
LEMMA DestroyKeepsSessions ==
  ASSUME SInv, NEW k \in DOMAIN skeyConMap, destroySession(k), authData' = authData
  PROVE  SInv'
  <1>1. SessionTypes'
    BY DEF SInv, SessionTypes, destroySession, Erase
  <1>2. DOMAIN skeyConMap' = DOMAIN skeyConMap \ {k} /\ skeyNameMap' = skeyNameMap
    BY DEF destroySession, Erase
  <1>3. nameSkeyMap' = {<<skeyNameMap[j], j>> : j \in DOMAIN skeyConMap} \ {<<skeyNameMap[k], k>>}
    BY DEF SInv, SessionsListed, destroySession
  <1>4. SessionsListed'
    BY <1>2, <1>3 DEF SessionsListed
  <1> QED BY <1>1, <1>4 DEF SInv

\* A new session has a new key.
LEMMA NewSessionKeepsSessions ==
  ASSUME SInv, NEW c \in Conns, NEW u \in Users, NewSession(c, u),
         authData' \in SUBSET Users
  PROVE  SInv'
  <1>1. PICK k \in Keys \ DOMAIN skeyNameMap :
          /\ skeyNameMap' = Map(skeyNameMap, k, u)
          /\ nameSkeyMap' = nameSkeyMap \cup {<<u, k>>}
          /\ skeyConMap' = Map(skeyConMap, k, c)
          /\ conSkeyMap' = Map(conSkeyMap, c, k)
    BY DEF NewSession
  <1>2. SessionTypes'
    BY <1>1 DEF SInv, SessionTypes, Map
  <1>3. /\ DOMAIN skeyConMap' = DOMAIN skeyConMap \cup {k}
        /\ skeyNameMap'[k] = u
        /\ \A j \in DOMAIN skeyConMap : skeyNameMap'[j] = skeyNameMap[j]
    BY <1>1 DEF SInv, SessionTypes, Map
  <1>4. nameSkeyMap' = {<<skeyNameMap[j], j>> : j \in DOMAIN skeyConMap} \cup {<<u, k>>}
    BY <1>1 DEF SInv, SessionsListed
  <1>5. SessionsListed'
    BY <1>3, <1>4 DEF SessionsListed
  <1> QED BY <1>2, <1>5 DEF SInv

\* Every step keeps the sessions right.
LEMMA SessionsStep ==
  ASSUME SInv, QueueTypes, Next
  PROVE  SInv'
  <1>1. CASE UNCHANGED <<sessionVars, authData>>
    BY <1>1 DEF SInv, SessionTypes, SessionsListed, sessionVars
  <1>2. CASE \E k \in DOMAIN skeyConMap : destroySession(k) /\ UNCHANGED authData
    BY <1>2, DestroyKeepsSessions
  <1>3. CASE \E c \in Conns, u \in Users : NewSession(c, u) /\ authData' \in SUBSET Users
    BY <1>3, NewSessionKeepsSessions
  <1>4. CASE \E c \in Conns, k \in DOMAIN skeyConMap :
               /\ skeyConMap' = Map(skeyConMap, k, c)
               /\ conSkeyMap' = Map(conSkeyMap, c, k)
               /\ UNCHANGED <<skeyNameMap, nameSkeyMap, authData>>
    <2>1. PICK c \in Conns, k \in DOMAIN skeyConMap :
               /\ skeyConMap' = Map(skeyConMap, k, c)
               /\ conSkeyMap' = Map(conSkeyMap, c, k)
               /\ UNCHANGED <<skeyNameMap, nameSkeyMap, authData>>
      BY <1>4
    <2>2. SessionTypes'
      BY <2>1 DEF SInv, SessionTypes, Map
    <2>3. DOMAIN skeyConMap' = DOMAIN skeyConMap
      BY <2>1 DEF Map
    <2>4. SessionsListed'
      BY <2>1, <2>3 DEF SInv, SessionsListed
    <2> QED BY <2>2, <2>4 DEF SInv
  <1> QED BY <1>1, <1>2, <1>3, <1>4, SessionSteps DEF SInv

-----------------------------------------------------------------------------
\* The queue after an action was added, and after the first was taken.
LEMMA Appended ==
  ASSUME QueueTypes, NEW a \in ActionType, actionQueue' = Append(actionQueue, a)
  PROVE  /\ actionQueue' \in Seq(ActionType)
         /\ DOMAIN actionQueue' = DOMAIN actionQueue \cup {Len(actionQueue) + 1}
         /\ \A i \in DOMAIN actionQueue :
              i \in Nat /\ i < Len(actionQueue) + 1 /\ actionQueue'[i] = actionQueue[i]
         /\ actionQueue'[Len(actionQueue) + 1] = a
         /\ Len(actionQueue) + 1 \in Nat
  <1>1. actionQueue \in Seq(ActionType)
    BY DEF QueueTypes, ActionType
  <1> QED BY <1>1

\* The queue of actions without the first: each of the others moves up by one.
LEMMA Taken ==
  ASSUME QueueTypes, HeadAction
  PROVE  /\ actionQueue' \in Seq(ActionType)
         /\ Head(actionQueue) = actionQueue[1] /\ 1 \in DOMAIN actionQueue
         /\ \A i \in DOMAIN actionQueue :
              i \in Nat \ {0} /\ (i # 1 => i - 1 \in DOMAIN actionQueue' /\ actionQueue'[i - 1] = actionQueue[i])
         /\ \A i \in DOMAIN actionQueue' :
              i \in Nat \ {0} /\ i + 1 \in DOMAIN actionQueue /\ actionQueue'[i] = actionQueue[i + 1]
  <1>1. actionQueue \in Seq(ActionType) /\ actionQueue # <<>>
    BY DEF QueueTypes, HeadAction, ActionType
  <1> QED BY <1>1 DEF HeadAction

AInv == HandleUnlessMoved /\ Resubscribed

\* A connection that opens has its subscribe at the end of the queue.
LEMMA OpenKeepsActions ==
  ASSUME AInv, QueueTypes, NEW c \in Conns, on_open(c)
  PROVE  AInv'
  <1>1. Subscribe(c) \in ActionType
    BY DEF Subscribe, ActionType
  <1>2. /\ open' = open \cup {c} /\ moved' = moved \ {c}
        /\ actionQueue' = Append(actionQueue, Subscribe(c))
        /\ m_luahandles_rev' = m_luahandles_rev
    BY DEF on_open, handleVars
  <1> DEFINE n == Len(actionQueue) + 1
  <1>3. /\ DOMAIN actionQueue' = DOMAIN actionQueue \cup {n}
        /\ \A i \in DOMAIN actionQueue : i \in Nat /\ i < n /\ actionQueue'[i] = actionQueue[i]
        /\ actionQueue'[n] = Subscribe(c)
        /\ n \in Nat
    BY <1>1, <1>2, Appended
  <1> HIDE DEF n
  <1>4. HandleUnlessMoved'
    BY <1>2, <1>3 DEF AInv, HandleUnlessMoved, Queued
  <1>5. Resubscribed'
    <2> SUFFICES ASSUME NEW d \in open', NEW i \in DOMAIN actionQueue',
                        actionQueue'[i] = Unsubscribe(d)
                 PROVE  \E j \in DOMAIN actionQueue' : j > i /\ actionQueue'[j] = Subscribe(d)
      BY DEF Resubscribed, Subscribe, Unsubscribe
    <2>1. i \in DOMAIN actionQueue
      BY <1>3 DEF Subscribe, Unsubscribe
    <2>2. CASE d = c
      BY <1>3, <2>1, <2>2
    <2>3. CASE d # c
      BY <1>2, <1>3, <2>1, <2>3 DEF AInv, Resubscribed
    <2> QED BY <2>2, <2>3
  <1> QED BY <1>4, <1>5 DEF AInv

\* A connection that closes is none of the open ones.
LEMMA CloseKeepsActions ==
  ASSUME AInv, QueueTypes, NEW c \in Conns, on_close(c)
  PROVE  AInv'
  <1>1. Unsubscribe(c) \in ActionType
    BY DEF Unsubscribe, ActionType
  <1>2. /\ open' = open \ {c} /\ moved' = moved
        /\ actionQueue' = Append(actionQueue, Unsubscribe(c))
        /\ m_luahandles_rev' = m_luahandles_rev
    BY DEF on_close, handleVars
  <1> DEFINE n == Len(actionQueue) + 1
  <1>3. /\ DOMAIN actionQueue' = DOMAIN actionQueue \cup {n}
        /\ \A i \in DOMAIN actionQueue : i \in Nat /\ i < n /\ actionQueue'[i] = actionQueue[i]
        /\ actionQueue'[n] = Unsubscribe(c)
    BY <1>1, <1>2, Appended
  <1> HIDE DEF n
  <1>4. HandleUnlessMoved'
    BY <1>2, <1>3 DEF AInv, HandleUnlessMoved, Queued
  <1>5. Resubscribed'
    <2> SUFFICES ASSUME NEW d \in open', NEW i \in DOMAIN actionQueue',
                        actionQueue'[i] = Unsubscribe(d)
                 PROVE  \E j \in DOMAIN actionQueue' : j > i /\ actionQueue'[j] = Subscribe(d)
      BY DEF Resubscribed, Subscribe, Unsubscribe
    <2>1. d \in open /\ d # c /\ i \in DOMAIN actionQueue
      BY <1>2, <1>3 DEF Unsubscribe
    <2> QED BY <1>3, <2>1 DEF AInv, Resubscribed
  <1> QED BY <1>4, <1>5 DEF AInv

\* process_messages takes a handle away only from a closed connection, or from
\* one that has been opened again and gets a new handle later.
LEMMA ProcessKeepsActions ==
  ASSUME AInv, HInv, QueueTypes, HeadAction, ProcessMessage
  PROVE  AInv'
  <1> DEFINE a == Head(actionQueue)
  <1>1. a \in ActionType
    BY HeadTailProperties DEF QueueTypes, HeadAction, ActionType
  <1>2. open' = open /\ moved' = moved
    BY DEF ProcessMessage
  <1>3. /\ a = actionQueue[1] /\ 1 \in DOMAIN actionQueue
        /\ \A i \in DOMAIN actionQueue :
             i \in Nat \ {0} /\ (i # 1 => i - 1 \in DOMAIN actionQueue' /\ actionQueue'[i - 1] = actionQueue[i])
        /\ \A i \in DOMAIN actionQueue' :
             i \in Nat \ {0} /\ i + 1 \in DOMAIN actionQueue /\ actionQueue'[i] = actionQueue[i + 1]
    BY Taken
  <1>4. DOMAIN m_luahandles_rev' =
          IF a.type = "SUBSCRIBE" THEN DOMAIN m_luahandles_rev \cup {a.hdl}
                                  ELSE DOMAIN m_luahandles_rev \ {a.hdl}
    BY DEF ProcessMessage, createLuaHandle, destroyLuaHandle, Map, Erase
  <1>5. HandleUnlessMoved'
    <2> SUFFICES ASSUME NEW c \in open, c \notin moved, c \notin DOMAIN m_luahandles_rev'
                 PROVE  \E i \in DOMAIN actionQueue' : actionQueue'[i] = Subscribe(c)
      BY <1>2 DEF HandleUnlessMoved, Queued, Subscribe
    <2>1. CASE c \in DOMAIN m_luahandles_rev
      <3>1. a = Unsubscribe(c)
        BY <1>1, <1>4, <2>1 DEF ActionType, Unsubscribe
      <3>2. PICK j \in DOMAIN actionQueue : j > 1 /\ actionQueue[j] = Subscribe(c)
        BY <1>3, <3>1 DEF AInv, Resubscribed
      <3> QED BY <1>3, <3>2
    <2>2. CASE c \notin DOMAIN m_luahandles_rev
      <3>1. PICK i \in DOMAIN actionQueue : actionQueue[i] = Subscribe(c)
        BY <2>2 DEF AInv, HandleUnlessMoved, Queued
      <3>2. i # 1
        BY <1>3, <1>4, <3>1 DEF Subscribe
      <3> QED BY <1>3, <3>1, <3>2
    <2> QED BY <2>1, <2>2
  <1>6. Resubscribed'
    <2> SUFFICES ASSUME NEW c \in open, NEW i \in DOMAIN actionQueue',
                        actionQueue'[i] = Unsubscribe(c)
                 PROVE  \E j \in DOMAIN actionQueue' : j > i /\ actionQueue'[j] = Subscribe(c)
      BY <1>2 DEF Resubscribed, Subscribe, Unsubscribe
    <2>1. i \in Nat \ {0} /\ i + 1 \in DOMAIN actionQueue /\ actionQueue[i + 1] = Unsubscribe(c)
      BY <1>3
    <2>2. PICK j \in DOMAIN actionQueue : j > i + 1 /\ actionQueue[j] = Subscribe(c)
      BY <2>1 DEF AInv, Resubscribed
    <2>3. j \in Nat \ {0} /\ j # 1 /\ j - 1 > i
      BY <1>3, <2>1, <2>2
    <2> QED BY <1>3, <2>2, <2>3
  <1> QED BY <1>5, <1>6 DEF AInv

\* Every step keeps the queue and the handles of open connections in step.
LEMMA ActionsStep ==
  ASSUME AInv, HInv, SessionTypes, QueueTypes, Next
  PROVE  AInv'
  <1>1. CASE UNCHANGED <<open, moved, actionQueue, m_luahandles_rev>>
    BY <1>1 DEF AInv, HandleUnlessMoved, Resubscribed, Queued
  <1>2. CASE \E c \in Conns : on_open(c) \/ on_close(c)
    BY <1>2, OpenKeepsActions, CloseKeepsActions
  <1>3. CASE \E c \in Conns, k \in DOMAIN skeyConMap :
               RemapHandle(c, k) /\ UNCHANGED <<open, actionQueue>>
    <2>1. PICK c \in Conns, k \in DOMAIN skeyConMap :
               RemapHandle(c, k) /\ UNCHANGED <<open, actionQueue>>
      BY <1>3
    <2>2. /\ DOMAIN m_luahandles_rev \subseteq DOMAIN m_luahandles_rev' \cup {skeyConMap[k]}
          /\ moved' = moved \cup {skeyConMap[k]}
      BY <2>1 DEF RemapHandle, Map, Erase
    <2> QED BY <2>1, <2>2 DEF AInv, HandleUnlessMoved, Resubscribed, Queued
  <1>4. CASE HeadAction /\ ProcessMessage
    BY <1>4, ProcessKeepsActions
  <1> QED BY <1>1, <1>2, <1>3, <1>4, ActionSteps

-----------------------------------------------------------------------------
\* Handles are handed out in increasing order.
LEMMA HandleMaxGrows ==
  ASSUME HandleTypes, Next
  PROVE  luaHandleMax \in Nat /\ luaHandleMax' \in Nat /\ luaHandleMax <= luaHandleMax'
  BY HandleSteps DEF HandleTypes, handleVars, RemapHandle, createLuaHandle, destroyLuaHandle

\* The connections and the queue of process_messages keep their types.
LEMMA ActionTypes ==
  ASSUME QueueTypes, SessionTypes, Next
  PROVE  /\ open' \in SUBSET Conns /\ moved' \in SUBSET Conns
         /\ actionQueue' \in Seq(ActionType)
  <1>1. actionQueue \in Seq(ActionType)
    BY DEF QueueTypes, ActionType
  <1>2. CASE UNCHANGED <<open, moved, actionQueue, m_luahandles_rev>>
    BY <1>1, <1>2 DEF QueueTypes
  <1>3. CASE \E c \in Conns : on_open(c) \/ on_close(c)
    <2>1. PICK c \in Conns : on_open(c) \/ on_close(c)
      BY <1>3
    <2>2. Subscribe(c) \in ActionType /\ Unsubscribe(c) \in ActionType
      BY DEF Subscribe, Unsubscribe, ActionType
    <2>3. \/ actionQueue' = Append(actionQueue, Subscribe(c))
          \/ actionQueue' = Append(actionQueue, Unsubscribe(c))
      BY <2>1 DEF on_open, on_close
    <2>4. open' \in SUBSET Conns /\ moved' \in SUBSET Conns
      BY <2>1 DEF on_open, on_close, QueueTypes
    <2> QED BY <1>1, <2>2, <2>3, <2>4, AppendProperties
  <1>4. CASE \E c \in Conns, k \in DOMAIN skeyConMap :
               RemapHandle(c, k) /\ UNCHANGED <<open, actionQueue>>
    BY <1>1, <1>4 DEF RemapHandle, QueueTypes, SessionTypes
  <1>5. CASE HeadAction /\ ProcessMessage
    BY <1>1, <1>5 DEF HeadAction, ProcessMessage, QueueTypes
  <1> QED BY <1>2, <1>3, <1>4, <1>5, ActionSteps

\* Messages for Lua: what waits and what may still wait add up to the limit.
LEMMA ReceiveStep ==
  ASSUME HInv, QueueTypes, ReceiveBounded, Next
  PROVE  /\ busy' \in Conns \cup {NoConn}
         /\ receiveQueue' \in Seq(1 .. luaHandleMax')
         /\ receiveLimit' \in 0 .. ReceiveLimit /\ receivers' \in 0 .. Receivers
         /\ ReceiveBounded'
  <1>1. receiveQueue \in Seq(1 .. luaHandleMax')
    BY HandleMaxGrows, SeqMonotonic DEF HInv, QueueTypes
  <1>2. /\ ReceiveLimit \in Nat /\ Receivers \in Nat
        /\ receiveLimit \in 0 .. ReceiveLimit /\ receivers \in 0 .. Receivers
        /\ busy \in Conns \cup {NoConn}
    BY WebsocketAssumption DEF QueueTypes
  <1>3. CASE Push
    <2>1. ~down /\ receiveLimit > 0 /\ receiveLimit' = receiveLimit - 1
          /\ busy' = NoConn /\ receivers' = receivers
      BY <1>3 DEF Push
    <2>2. CASE busy \in DOMAIN m_luahandles_rev
      <3>1. /\ m_luahandles_rev[busy] \in 1 .. luaHandleMax'
            /\ receiveQueue' = Append(receiveQueue, m_luahandles_rev[busy])
        BY <1>3, <2>2, HandleMaxGrows DEF Push, HInv, HandleTypes
      <3>2. receiveQueue' \in Seq(1 .. luaHandleMax') /\ Len(receiveQueue') = Len(receiveQueue) + 1
        BY <1>1, <3>1
      <3>3. Len(receiveQueue) \in Nat
        BY <1>1
      <3> QED BY <1>2, <2>1, <3>2, <3>3 DEF ReceiveBounded
    <2>3. CASE busy \notin DOMAIN m_luahandles_rev
      BY <1>1, <1>2, <1>3, <2>1, <2>3 DEF Push, ReceiveBounded
    <2> QED BY <2>2, <2>3
  <1>4. CASE Receive
    <2>1. /\ ~down /\ down' = down /\ receiveQueue # <<>> /\ receiveQueue' = Tail(receiveQueue)
          /\ receiveLimit' = receiveLimit + 1 /\ busy' = busy
          /\ receivers' \in {receivers, receivers - 1} /\ receivers > 0
      BY <1>4 DEF Receive
    <2>2. /\ Len(receiveQueue) \in Nat \ {0} /\ Len(receiveQueue') = Len(receiveQueue) - 1
          /\ receiveQueue' \in Seq(1 .. luaHandleMax')
      BY <1>1, <2>1
    <2> QED BY <1>2, <2>1, <2>2 DEF ReceiveBounded
  <1>5. CASE \E c \in Conns : MessageForLua(c)
    BY <1>1, <1>2, <1>5 DEF MessageForLua, ReceiveBounded
  <1>6. CASE ~Push /\ ~Receive /\ ~\E c \in Conns : MessageForLua(c)
    <2>1. UNCHANGED receiveVars /\ (down => down')
      BY <1>6 DEF Next, on_message, on_open, on_close, Logout, LogoutAborts, Login, Register,
         Refuse, Resume, ProcessMessage, Accept, Reject, GetHandlesAborts, receiveVars,
         Message, LoggedIn, Anonymous, LoopFree, Validating
    <2> QED BY <1>1, <1>2, <2>1 DEF ReceiveBounded, receiveVars
  <1> QED BY <1>3, <1>4, <1>5, <1>6

\* The registrations and the flags keep their types.
LEMMA RegisterTypes ==
  ASSUME QueueTypes, Next
  PROVE  /\ validationQueue' \in Seq([hdl : Conns, user : Users])
         /\ validator' \in BOOLEAN /\ down' \in BOOLEAN
  <1> DEFINE R == [hdl : Conns, user : Users]
  <1>1. validationQueue \in Seq(R) /\ validator \in BOOLEAN /\ down \in BOOLEAN
    BY DEF QueueTypes
  <1>2. CASE \E c \in Conns, u \in Users : Register(c, u)
    <2>1. PICK c \in Conns, u \in Users : Register(c, u)
      BY <1>2
    <2>2. [hdl |-> c, user |-> u] \in R
      OBVIOUS
    <2> QED BY <1>1, <2>1, <2>2 DEF Register
  <1>3. CASE Accept \/ Reject
    <2>1. validationQueue # <<>> /\ validationQueue' = Tail(validationQueue)
      BY <1>3 DEF Accept, Reject, Validating
    <2>2. down' \in BOOLEAN
      BY <1>1, <1>3 DEF Accept, Reject
    <2>3. Answered(Head(validationQueue).hdl) \/ validator' = validator
      BY <1>3, Zenon DEF Accept, Reject
    <2>4. ASSUME NEW c, Answered(c) PROVE validator' \in BOOLEAN
      <3>1. CASE c \in DOMAIN m_luahandles_rev
        BY <2>4, <3>1 DEF Answered
      <3>2. CASE c \notin DOMAIN m_luahandles_rev
        BY <2>4, <3>2 DEF Answered
      <3> QED BY <3>1, <3>2
    <2>5. validator' \in BOOLEAN
      BY <1>1, <2>3, <2>4
    <2> QED BY <1>1, <2>1, <2>2, <2>5
  <1>4. CASE ~Accept /\ ~Reject /\ ~\E c \in Conns, u \in Users : Register(c, u)
    <2>1. UNCHANGED registerVars
      BY <1>4 DEF Next, on_message, on_open, on_close, Logout, LogoutAborts, Login,
         Refuse, Resume, MessageForLua, Push, ProcessMessage, Receive, GetHandlesAborts
    <2>2. down' \in BOOLEAN
      BY <1>1, <1>4 DEF Next, on_message, on_open, on_close, Logout, LogoutAborts, Login, Reply,
         Refuse, Resume, MessageForLua, Push, ProcessMessage, Receive, GetHandlesAborts
    <2> QED BY <1>1, <2>1, <2>2 DEF registerVars
  <1> QED BY <1>2, <1>3, <1>4

-----------------------------------------------------------------------------
\* The server starts with nothing connected.
LEMMA InitIInv == Init => IInv
  <1> SUFFICES ASSUME Init PROVE IInv
    OBVIOUS
  <1>1. HInv
    BY DEF Init, Empty, HInv, HandleTypes, HandlesLeadBack
  <1>2. SInv
    BY WebsocketAssumption DEF Init, Empty, SInv, SessionTypes, SessionsListed
  <1>3. QueueTypes
    <2>1. /\ actionQueue \in Seq([type : {"SUBSCRIBE", "UNSUBSCRIBE"}, hdl : Conns])
          /\ receiveQueue \in Seq(1 .. luaHandleMax)
          /\ validationQueue \in Seq([hdl : Conns, user : Users])
      BY EmptySeq DEF Init
    <2>2. receiveLimit \in 0 .. ReceiveLimit /\ receivers \in 0 .. Receivers
      BY WebsocketAssumption DEF Init
    <2> QED BY <2>1, <2>2 DEF Init, QueueTypes
  <1>4. HandleUnlessMoved /\ Resubscribed
    BY DEF Init, HandleUnlessMoved, Resubscribed
  <1>5. ReceiveBounded
    BY WebsocketAssumption DEF Init, ReceiveBounded
  <1> QED BY <1>1, <1>2, <1>3, <1>4, <1>5 DEF IInv

\* Every step keeps the invariant.
LEMMA NextIInv == IInv /\ [Next]_vars => IInv'
  <1> SUFFICES ASSUME IInv, [Next]_vars PROVE IInv'
    OBVIOUS
  <1>1. CASE Next
    <2>1. HInv'
      BY <1>1, HandlesStep DEF IInv, SInv
    <2>2. SInv'
      BY <1>1, SessionsStep DEF IInv
    <2>3. HandleUnlessMoved' /\ Resubscribed'
      BY <1>1, ActionsStep DEF IInv, SInv, AInv
    <2>4. QueueTypes' /\ ReceiveBounded'
      BY <1>1, ActionTypes, ReceiveStep, RegisterTypes DEF IInv, SInv, QueueTypes, ActionType
    <2> QED BY <2>1, <2>2, <2>3, <2>4 DEF IInv
  <1>2. CASE UNCHANGED vars
    <2> USE <1>2 DEF IInv, vars, handleVars, sessionVars, receiveVars, registerVars
    <2>1. HInv'
      BY DEF HInv, HandleTypes, HandlesLeadBack
    <2>2. SInv'
      BY DEF SInv, SessionTypes, SessionsListed
    <2>3. HandleUnlessMoved' /\ Resubscribed'
      BY DEF HandleUnlessMoved, Resubscribed, Queued
    <2>4. QueueTypes' /\ ReceiveBounded'
      BY DEF QueueTypes, ReceiveBounded
    <2> QED BY <2>1, <2>2, <2>3, <2>4
  <1> QED BY <1>1, <1>2

\* The invariant holds in every reachable state.
THEOREM Invariance == SafetySpec => []IInv
  BY InitIInv, NextIInv, PTL DEF SafetySpec

\* Handles, sessions and queues are well typed in every reachable state.
THEOREM TypeCorrect == SafetySpec => []TypeOK
  <1>1. IInv => TypeOK
    BY DEF IInv, HInv, SInv, TypeOK
  <1> QED BY <1>1, Invariance, PTL

\* getLuaHandle and getConnectionHandle are inverse: an answer for a connection
\* reaches that connection.
THEOREM HandlesInverse == SafetySpec => []HandlesLeadBack
  <1>1. IInv => HandlesLeadBack
    BY DEF IInv, HInv
  <1> QED BY <1>1, Invariance, PTL

\* The first assertion of getHandles never fails.
THEOREM SessionsConnected == SafetySpec => []SessionsListed
  <1>1. IInv => SessionsListed
    BY DEF IInv, SInv
  <1> QED BY <1>1, Invariance, PTL

\* on_message finds a handle for an open connection that process_messages has
\* seen, unless its session was resumed elsewhere.
THEOREM HandlesKept == SafetySpec => []HandleUnlessMoved
  <1>1. IInv => HandleUnlessMoved
    BY DEF IInv
  <1> QED BY <1>1, Invariance, PTL

\* receiveLimit bounds the messages that wait for Lua.
THEOREM LimitKept == SafetySpec => []ReceiveBounded
  <1>1. IInv => ReceiveBounded
    BY DEF IInv
  <1> QED BY <1>1, Invariance, PTL
=============================================================================
