--------------------------- MODULE WebsocketServer ---------------------------
(***************************************************************************)
(* The websocket server of a script process, with authentication           *)
(* (websocket.cpp).  Three kinds of threads share it: the event loop       *)
(* (on_open, on_close, on_message), process_messages, which hands out the  *)
(* Lua handles of connections, and Lua threads that receive messages,      *)
(* validate registrations and ask for the handles of a user.  A connection *)
(* is the address of its socket, which a later connection may get again.   *)
(***************************************************************************)
EXTENDS Naturals, Sequences, FiniteSets

CONSTANTS Conns,          \* addresses of sockets
          NoConn,         \* the event loop is not inside on_message
          Users,          \* user names
          Registered,     \* those in the password file
          Keys,           \* bound: session keys that are ever made
          MaxHandles,     \* bound: connections that are ever opened
          ReceiveLimit,   \* messages that may wait for Lua, 10 in the code
          Receivers,      \* threads of wsOnReceive
          MaxRegisters    \* bound: registrations that wait for validation

ASSUME WebsocketAssumption ==
  /\ NoConn \notin Conns /\ Registered \subseteq Users
  /\ MaxHandles \in Nat /\ Receivers \in Nat /\ MaxRegisters \in Nat
  /\ ReceiveLimit \in Nat \ {0}

VARIABLES
  open,               \* the connections between on_open and on_close
  moved,              \* those whose session has been resumed on another one
  actionQueue,        \* what process_messages has to do
  m_luahandles, m_luahandles_rev, luaHandleMax,
  authData,           \* the registered users
  skeyNameMap, nameSkeyMap, skeyConMap, conSkeyMap,
  busy,               \* the connection whose message waits for receiveLimit
  receiveLimit, receiveQueue, receivers,
  validationQueue, validator,   \* registrations; whether their thread runs
  down                \* an exception or assertion has ended the process

handleVars == <<m_luahandles, m_luahandles_rev, luaHandleMax>>
sessionVars == <<skeyNameMap, nameSkeyMap, skeyConMap, conSkeyMap>>
receiveVars == <<busy, receiveLimit, receiveQueue, receivers>>
registerVars == <<validationQueue, validator>>
vars == <<open, moved, actionQueue, handleVars, authData, sessionVars, receiveVars,
          registerVars, down>>

Map(f, k, v) == [x \in DOMAIN f \cup {k} |-> IF x = k THEN v ELSE f[x]]
Erase(f, k) == [x \in DOMAIN f \ {k} |-> f[x]]
Empty == [x \in {} |-> NoConn]

Subscribe(c) == [type |-> "SUBSCRIBE", hdl |-> c]
Unsubscribe(c) == [type |-> "UNSUBSCRIBE", hdl |-> c]
Queued(a) == \E i \in DOMAIN actionQueue : actionQueue[i] = a

Init ==
  /\ open = {} /\ moved = {} /\ actionQueue = <<>>
  /\ m_luahandles = Empty /\ m_luahandles_rev = Empty /\ luaHandleMax = 0
  /\ authData = Registered
  /\ skeyNameMap = Empty /\ nameSkeyMap = {} /\ skeyConMap = Empty /\ conSkeyMap = Empty
  /\ busy = NoConn /\ receiveLimit = ReceiveLimit /\ receiveQueue = <<>>
  /\ receivers = Receivers
  /\ validationQueue = <<>> /\ validator = TRUE
  /\ down = FALSE

-----------------------------------------------------------------------------
\* The event loop is free to call a handler.
LoopFree == ~down /\ busy = NoConn

on_open(c) ==
  /\ LoopFree /\ c \notin open
  /\ luaHandleMax + Cardinality({i \in DOMAIN actionQueue : actionQueue[i].type = "SUBSCRIBE"})
       < MaxHandles
  /\ open' = open \cup {c}
  /\ moved' = moved \ {c}
  /\ actionQueue' = Append(actionQueue, Subscribe(c))
  /\ UNCHANGED <<handleVars, authData, sessionVars, receiveVars, registerVars, down>>

on_close(c) ==
  /\ LoopFree /\ c \in open
  /\ open' = open \ {c}
  /\ actionQueue' = Append(actionQueue, Unsubscribe(c))
  /\ UNCHANGED <<moved, handleVars, authData, sessionVars, receiveVars, registerVars, down>>

\* getLuaHandle at the end of a handler: an exception in the event loop is
\* caught by nobody.
Reply(c) == down' = (c \notin DOMAIN m_luahandles_rev')

\* A message of a connection that is logged in, or of one that is not.
Message(c) == LoopFree /\ c \in open
LoggedIn(c) == Message(c) /\ c \in DOMAIN conSkeyMap
Anonymous(c) == Message(c) /\ c \notin DOMAIN conSkeyMap

\* Slip: the key stays in the list of the user's sessions.
destroySessionListed(k) ==
  /\ skeyConMap' = Erase(skeyConMap, k)
  /\ conSkeyMap' = Erase(conSkeyMap, skeyConMap[k])
  /\ UNCHANGED <<skeyNameMap, nameSkeyMap>>

destroySession(k) ==
  /\ nameSkeyMap' = nameSkeyMap \ {<<skeyNameMap[k], k>>}
  /\ skeyConMap' = Erase(skeyConMap, k)
  /\ conSkeyMap' = Erase(conSkeyMap, skeyConMap[k])
  /\ UNCHANGED skeyNameMap

Logout(c, k) ==
  /\ LoggedIn(c) /\ k \in DOMAIN skeyConMap
  /\ skeyConMap[k] \in DOMAIN conSkeyMap
  /\ destroySession(k)
  /\ UNCHANGED handleVars
  /\ Reply(c)
  /\ UNCHANGED <<open, moved, actionQueue, authData, receiveVars, registerVars>>

\* assert(itcs != conSkeyMap.end()) in destroySession
LogoutAborts(c, k) ==
  /\ LoggedIn(c) /\ k \in DOMAIN skeyConMap
  /\ skeyConMap[k] \notin DOMAIN conSkeyMap
  /\ down' = TRUE
  /\ UNCHANGED <<open, moved, actionQueue, handleVars, authData, sessionVars, receiveVars,
                 registerVars>>

\* Any other message but register and login: the loop waits for receiveLimit.
MessageForLua(c) ==
  /\ LoggedIn(c)
  /\ busy' = c
  /\ UNCHANGED <<open, moved, actionQueue, handleVars, authData, sessionVars, receiveLimit,
                 receiveQueue, receivers, registerVars, down>>

\* Slip: the limit is not waited for.
PushUnlimited ==
  /\ ~down /\ busy # NoConn
  /\ busy' = NoConn
  /\ IF busy \in DOMAIN m_luahandles_rev
     THEN receiveQueue' = Append(receiveQueue, m_luahandles_rev[busy]) /\ UNCHANGED down
     ELSE down' = TRUE /\ UNCHANGED receiveQueue
  /\ UNCHANGED <<open, moved, actionQueue, handleVars, authData, sessionVars, receiveLimit,
                 receivers, registerVars>>

Push ==
  /\ ~down /\ busy # NoConn /\ receiveLimit > 0
  /\ receiveLimit' = receiveLimit - 1
  /\ busy' = NoConn
  /\ IF busy \in DOMAIN m_luahandles_rev
     THEN receiveQueue' = Append(receiveQueue, m_luahandles_rev[busy]) /\ UNCHANGED down
     ELSE down' = TRUE /\ UNCHANGED receiveQueue
  /\ UNCHANGED <<open, moved, actionQueue, handleVars, authData, sessionVars, receivers,
                 registerVars>>

-----------------------------------------------------------------------------
NewSession(c, u) ==
  \E k \in Keys \ DOMAIN skeyNameMap :
    /\ skeyNameMap' = Map(skeyNameMap, k, u)
    /\ nameSkeyMap' = nameSkeyMap \cup {<<u, k>>}
    /\ skeyConMap' = Map(skeyConMap, k, c)
    /\ conSkeyMap' = Map(conSkeyMap, c, k)

\* createSession: login with the user's name and the right password.
Login(c, u) ==
  /\ Anonymous(c) /\ u \in authData
  /\ NewSession(c, u)
  /\ UNCHANGED handleVars
  /\ Reply(c)
  /\ UNCHANGED <<open, moved, actionQueue, authData, receiveVars, registerVars>>

\* Slip: the Lua handle is not taken back from the old connection.
RemapShared(c, k) ==
  LET old == skeyConMap[k]
      lh == m_luahandles_rev[old]
  IN /\ old # c /\ old \in DOMAIN m_luahandles_rev
     /\ m_luahandles' = Map(m_luahandles, lh, c)
     /\ m_luahandles_rev' = Map(m_luahandles_rev, c, lh)
     /\ moved' = moved \cup {old}
     /\ skeyConMap' = Map(skeyConMap, k, c)
     /\ conSkeyMap' = Map(conSkeyMap, c, k)
     /\ UNCHANGED luaHandleMax

\* remapSession: the Lua handle moves with the session.
RemapHandle(c, k) ==
  LET old == skeyConMap[k]
      lh == m_luahandles_rev[old]
  IN /\ old # c /\ old \in DOMAIN m_luahandles_rev
     /\ m_luahandles' = Map(m_luahandles, lh, c)
     /\ m_luahandles_rev' = Erase(Map(m_luahandles_rev, c, lh), old)
     /\ moved' = moved \cup {old}
     /\ skeyConMap' = Map(skeyConMap, k, c)
     /\ conSkeyMap' = Map(conSkeyMap, c, k)
     /\ UNCHANGED luaHandleMax

\* The old connection has lost its handle; the new one is asserted to have one.
RemapSession(c, k) ==
  LET old == skeyConMap[k]
  IN /\ old # c /\ old \notin DOMAIN m_luahandles_rev
     /\ IF c \in DOMAIN m_luahandles_rev
        THEN skeyConMap' = Map(skeyConMap, k, c) /\ conSkeyMap' = Map(conSkeyMap, c, k)
        ELSE UNCHANGED <<skeyConMap, conSkeyMap>>
     /\ UNCHANGED <<moved, handleVars>>

\* Login with the key of a session.
Resume(c, k) ==
  /\ Anonymous(c) /\ k \in DOMAIN skeyConMap
  /\ \/ RemapHandle(c, k)
     \/ RemapSession(c, k)
     \/ skeyConMap[k] = c /\ UNCHANGED <<moved, handleVars, skeyConMap, conSkeyMap>>
  /\ Reply(c)
  /\ UNCHANGED <<open, actionQueue, authData, skeyNameMap, nameSkeyMap, receiveVars,
                 registerVars>>

\* registerUser: the answer is left to the validator.
Register(c, u) ==
  /\ Anonymous(c) /\ Len(validationQueue) < MaxRegisters
  /\ validationQueue' = Append(validationQueue, [hdl |-> c, user |-> u])
  /\ UNCHANGED <<open, moved, actionQueue, handleVars, authData, sessionVars, receiveVars,
                 validator, down>>

\* Wrong password, unknown user or key, or anything else: "auth" is demanded.
Refuse(c) ==
  /\ Anonymous(c)
  /\ UNCHANGED handleVars
  /\ Reply(c)
  /\ UNCHANGED <<open, moved, actionQueue, authData, sessionVars, receiveVars, registerVars>>

-----------------------------------------------------------------------------
\* process_messages
createLuaHandle(c) ==
  /\ luaHandleMax' = luaHandleMax + 1
  /\ m_luahandles' = Map(m_luahandles, luaHandleMax + 1, c)
  /\ m_luahandles_rev' = Map(m_luahandles_rev, c, luaHandleMax + 1)

\* Slip: the connection is erased first, and looking it up puts it back with
\* handle 0.
destroyLuaHandleLate(c) ==
  /\ m_luahandles_rev' = Map(m_luahandles_rev, c, 0)
  /\ UNCHANGED <<m_luahandles, luaHandleMax>>

\* An unknown connection has handle 0, which no connection has.
destroyLuaHandle(c) ==
  /\ m_luahandles' = IF c \in DOMAIN m_luahandles_rev
                     THEN Erase(m_luahandles, m_luahandles_rev[c]) ELSE m_luahandles
  /\ m_luahandles_rev' = Erase(m_luahandles_rev, c)
  /\ UNCHANGED luaHandleMax

\* Slip: the most recent action comes first.
ProcessLast ==
  /\ ~down /\ actionQueue # <<>>
  /\ LET a == actionQueue[Len(actionQueue)]
     IN IF a.type = "SUBSCRIBE" THEN createLuaHandle(a.hdl) ELSE destroyLuaHandle(a.hdl)
  /\ actionQueue' = SubSeq(actionQueue, 1, Len(actionQueue) - 1)
  /\ UNCHANGED <<open, moved, authData, sessionVars, receiveVars, registerVars, down>>

ProcessMessage ==
  /\ ~down /\ actionQueue # <<>>
  /\ LET a == Head(actionQueue)
     IN IF a.type = "SUBSCRIBE" THEN createLuaHandle(a.hdl) ELSE destroyLuaHandle(a.hdl)
  /\ actionQueue' = Tail(actionQueue)
  /\ UNCHANGED <<open, moved, authData, sessionVars, receiveVars, registerVars, down>>

-----------------------------------------------------------------------------
\* Slip: the limit is not given back.
ReceiveSilently ==
  /\ ~down /\ receivers > 0 /\ receiveQueue # <<>>
  /\ receiveQueue' = Tail(receiveQueue)
  /\ UNCHANGED <<open, moved, actionQueue, handleVars, authData, sessionVars, busy, receivers,
                 receiveLimit, registerVars, down>>

\* A Lua thread receives a message; it ends if its callback fails.
Receive ==
  /\ ~down /\ receivers > 0 /\ receiveQueue # <<>>
  /\ receiveQueue' = Tail(receiveQueue)
  /\ receiveLimit' = receiveLimit + 1
  /\ receivers' \in {receivers, receivers - 1}
  /\ UNCHANGED <<open, moved, actionQueue, handleVars, authData, sessionVars, busy,
                 registerVars, down>>

\* The validator takes the next registration.  Its callback fails, and nobody
\* answers, or it accepts or rejects.  getLuaHandle throws if the connection
\* has gone, which ends the thread.
Validating == ~down /\ validator /\ validationQueue # <<>> /\ validationQueue' = Tail(validationQueue)
Answered(c) == validator' = (c \in DOMAIN m_luahandles_rev)

Accept ==
  LET r == Head(validationQueue)
  IN /\ Validating /\ r.user \notin authData
     /\ authData' = authData \cup {r.user}
     /\ NewSession(r.hdl, r.user)
     /\ Answered(r.hdl)
     /\ UNCHANGED <<open, moved, actionQueue, handleVars, receiveVars, down>>

Reject ==
  /\ Validating
  /\ Answered(Head(validationQueue).hdl) \/ UNCHANGED validator
  /\ UNCHANGED <<open, moved, actionQueue, handleVars, authData, sessionVars, receiveVars, down>>

\* Each session of the user is on a connection that has a handle, as getHandles
\* asserts.
HandlesOf(u) ==
  \A e \in nameSkeyMap :
    e[1] = u => e[2] \in DOMAIN skeyConMap /\ skeyConMap[e[2]] \in DOMAIN m_luahandles_rev

\* A script asks for the handles of a user; otherwise this changes nothing.
GetHandlesAborts(u) ==
  /\ ~down /\ ~HandlesOf(u)
  /\ down' = TRUE
  /\ UNCHANGED <<open, moved, actionQueue, handleVars, authData, sessionVars, receiveVars,
                 registerVars>>

-----------------------------------------------------------------------------
on_message(c) ==
  \/ \E k \in Keys : Logout(c, k) \/ LogoutAborts(c, k) \/ Resume(c, k)
  \/ \E u \in Users : Login(c, u) \/ Register(c, u)
  \/ MessageForLua(c) \/ Refuse(c)

Next ==
  \/ \E c \in Conns : on_open(c) \/ on_close(c) \/ on_message(c)
  \/ Push \/ ProcessMessage
  \/ Receive \/ Accept \/ Reject \/ \E u \in Users : GetHandlesAborts(u)

SafetySpec == Init /\ [][Next]_vars

\* The event loop and the receivers run.
Spec == SafetySpec /\ WF_vars(Push) /\ WF_vars(Receive)
-----------------------------------------------------------------------------
HandleTypes ==
  /\ luaHandleMax \in Nat
  /\ m_luahandles \in [DOMAIN m_luahandles -> Conns]
  /\ DOMAIN m_luahandles \subseteq 1 .. luaHandleMax
  /\ m_luahandles_rev \in [DOMAIN m_luahandles_rev -> 1 .. luaHandleMax]
  /\ DOMAIN m_luahandles_rev \subseteq Conns

SessionTypes ==
  /\ authData \in SUBSET Users
  /\ DOMAIN skeyNameMap \subseteq Keys /\ skeyNameMap \in [DOMAIN skeyNameMap -> Users]
  /\ DOMAIN skeyConMap \subseteq DOMAIN skeyNameMap
  /\ skeyConMap \in [DOMAIN skeyConMap -> Conns]
  /\ DOMAIN conSkeyMap \subseteq Conns
  /\ conSkeyMap \in [DOMAIN conSkeyMap -> DOMAIN skeyNameMap]

QueueTypes ==
  /\ open \in SUBSET Conns /\ moved \in SUBSET Conns
  /\ actionQueue \in Seq([type : {"SUBSCRIBE", "UNSUBSCRIBE"}, hdl : Conns])
  /\ busy \in Conns \cup {NoConn}
  /\ receiveQueue \in Seq(1 .. luaHandleMax)
  /\ receiveLimit \in 0 .. ReceiveLimit /\ receivers \in 0 .. Receivers
  /\ validationQueue \in Seq([hdl : Conns, user : Users])
  /\ validator \in BOOLEAN /\ down \in BOOLEAN

\* The state is well typed: handles were handed out, sessions have a known key
\* and user, queues hold what their threads expect.
TypeOK == HandleTypes /\ SessionTypes /\ QueueTypes

\* The handle of a connection leads back to it, through reconnects and reused
\* addresses: an answer that is sent to getLuaHandle(ws) reaches ws and nobody
\* else, and two connections never share a handle.
HandlesLeadBack ==
  \A c \in DOMAIN m_luahandles_rev :
    m_luahandles_rev[c] \in DOMAIN m_luahandles /\ m_luahandles[m_luahandles_rev[c]] = c

\* The sessions listed for users are those that have a connection: the first
\* assertion of getHandles and of destroySession never fails.
SessionsListed == nameSkeyMap = {<<skeyNameMap[k], k>> : k \in DOMAIN skeyConMap}

\* An open connection has a handle, so that on_message can answer, unless
\* process_messages has not yet seen it or its session has moved away: the only
\* two ways in which on_message throws in the event loop.
HandleUnlessMoved ==
  \A c \in open : \/ c \in DOMAIN m_luahandles_rev
                  \/ Queued(Subscribe(c))
                  \/ c \in moved

\* No more than ReceiveLimit messages wait for the Lua threads, and every one
\* that was received has given its place back.
ReceiveBounded == ~down => receiveLimit + Len(receiveQueue) = ReceiveLimit

\* A full queue holds the event loop up only until a Lua thread receives; it
\* stops for good only when every receiver has ended or the process has.
LoopGoesOn == busy # NoConn ~> busy = NoConn \/ receivers = 0 \/ down

\* Whenever process_messages has caught up, every session a user is listed with
\* is on a connection that has a handle (the assertions of getHandles,
\* websocket.cpp 246 and 248).
GetHandlesAsserts == ~down /\ actionQueue = <<>> => \A u \in Users : HandlesOf(u)
=============================================================================
