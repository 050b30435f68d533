# Verification of Janosh

Janosh is a document database with a JSON data model: a daemon that keeps one
tree of objects, arrays and strings as flat records of a Kyoto Tycoon database,
a command line client, and a Lua scripting host whose threads talk to the
daemon. This directory holds TLA+ models of the parts of the program in which
order, concurrency and partial failure decide whether it is correct, TLC
configurations that check them on small instances, and TLAPS proofs for every
instance.

## Inventory

| Part | Code (`src/src/`) | State | Operations | Interacts with |
|---|---|---|---|---|
| Document store | `janosh.cpp`, `record.cpp`, `path.cpp`, `component.cpp`, `value.cpp`, `commands.cpp` | records `path -> value`, a directory is a record `A<n>`/`O<n>` at `<path>/.` with the number of its members | set, add, replace, mkarr, mkobj, remove, append, copy, move, shift, patch, load, truncate; get, dump, hash, size | one command per request, run by a worker; cursors of the external database |
| Daemon thread pool | `tcp_server.cpp`, `tcp_worker.cpp`, `semaphore.cpp`, `janosh_thread.cpp`, `Record::db` | counting semaphore, one detached thread per connection, map of thread id to database handle | accept, receive, begin/commit/abort, command, end of chain | clients over a unix socket; store |
| Request protocol | `tcp_client.cpp`, `request.cpp`, `database_thread.cpp` | one connection | connect, begin, request, commit or abort, close | pool |
| Script transactions | `lua_script.cpp` (performOpen, performClose, performRequest), `JanoshAPI.lua` | `isOpen`, `open_queue_`, `open_current_id`, mutex and condition variable | `Janosh:transaction`, every other API call | one `TcpClient` for all Lua threads of the process |
| Named locks | `lua_script.cpp` (l_lock, l_try_lock, l_unlock) | map of mutexes, mutex of the map | lock, try_lock, unlock | Lua threads |
| Change feed | `message_queue.cpp`, `tracker.cpp` | one ZMQ socket, thread-local trigger switch | publish before each write | store, subscribers |
| Subscriptions | `lua_script.cpp`, `JanoshAPI.lua` | maps of receivers | make, receive, destroy | change feed |
| Websocket server | `websocket.cpp`, `websocket.hpp`, `queue.hpp` | sessions, handles, credentials, action queue | connect, login, message, reconnect, logout, disconnect | Lua scripts, browsers |
| Traversal, printing | `json.cpp`, `bash.cpp`, `raw.cpp`, `print_visitor.hpp` | none | get, dump | store |
| Set-up | `settings.cpp`, `logger.cpp`, `exithandler.cpp`, `util.cpp` | configuration | start and stop | all |

### What makes each part correct

- **Document store.** The stored sizes equal the number of members; array
  indexes run from 0 without a gap; a name is a value or a directory and lies
  in a directory that exists; a command has its effect or refuses and changes
  nothing. All of it is kept up by hand, by cursor walks over an ordered
  key space that the command is changing at the same time, and
  `beginTransaction`/`endTransaction` are empty: nothing is rolled back when
  an operation throws half way. Between commands of different workers there
  is nothing but the atomicity of a single request to the database.
- **Traversal and printing.** What is printed is the tree. Hard because the
  records arrive in key order, without their depth, and only names say
  where a directory ends.
- **Thread pool.** However a worker ends, its slot comes back; a worker has its
  own database handle for exactly as long as it serves; every connection is
  accepted. Hard because workers end by exceptions in three places and thread
  ids, the keys of `Record::db`, are reused.
- **Script transactions.** Mutual exclusion, first come first served, no lost
  wakeup, the entry that `performClose` pops blindly is the closer's. Hard
  because the queue, the flag and the condition variable are only loosely tied
  together and because `connect` can throw between queueing and opening.
- **Named locks.** A lock has one owner and calls return. Hard because the
  mutex of the map is held while waiting for a named lock.
- **Change feed, subscriptions.** A subscriber that reads after an
  announcement sees the announced write; receivers survive their destruction.
- **Websocket server.** Session and handle maps agree across reconnects,
  logouts and disconnects. Hard because handles are handed out by another thread
  than the one that answers, a connection is identified by an address that is
  reused, and an exception in the event loop is caught by nobody.

The hazards, each at its line, are the list "hazards" of `PROJECT.json`.

## Modules

| Module | Role |
|---|---|
| `DocumentPaths` | paths, their order in the database, parents, ranges |
| `Document` | abstract: the tree without sizes, each command an effect or a refusal; the contract of its clients |
| `Document_proofs` | theorem about it: within the contract the document stays sound |
| `StoreRecords` | the commands that write one record and the size of its directory, or replace everything; the rules of `Proper`; the invariants of the store |
| `StoreRecords_proofs`, `StoreRefinement_proofs` | theorems about it: the invariants; that it implements `Document` and keeps to its contract |
| `JanoshStore` | the commands that are cursor algorithms, on top of `StoreRecords`; all commands together implement `Document` |
| `Printing` | get as the calls of the JSON visitor, on the documents of `JanoshStore` |
| `MCJanoshStore` | the paths and JSON texts of the checked instances |
| `SharedDirectory`, `MCSharedDirectory` | commands of several workers on one directory, request by request, with announcements and a crash |
| `SharedDirectory_proofs` | theorems about it |
| `FifoLock` | abstract: a fair first-come-first-served lock |
| `LuaTransactions` | performOpen, performClose, performRequest; implements `FifoLock` |
| `LuaTransactions_proofs` | theorems about it |
| `WorkerPool`, `WorkerPool_proofs` | accept loop, workers, handles; theorems |
| `LuaLocks`, `LuaLocks_proofs` | named locks; theorems |
| `WebsocketServer`, `WebsocketServer_proofs` | connections, sessions, handles, registrations; theorems |

In each module the definitions under a comment `Slip:` are not part of the
specification. Each is a plausible mistake in the definition that follows it;
`PROJECT.json` ("mutants") says which property notices it.

### DocumentPaths, Document, StoreRecords, JanoshStore

The database is a function `db` from paths to records. A path is a sequence of
component ranks chosen so that comparing sequences is comparing key strings:
`.` (key `!`) first, then array elements, then the range `*` and the names
(`Component`, `Path`). A cursor is a path: `step` is the next record in
order, `Stride` the distance `Record::next` jumps (size + 1 for a directory),
`End` a cursor beyond the last record.

An operator is a function of the code. `StoreRecords` has those that write one
record and count it: `makeDirectory`, `add`, `replace`, `set`, `appendValues` (the
`append` of values), the branches for values of `remove`, `copy` and `move`
(`removeValue` where no array has to close a gap, `copyValue`, `moveValue`), and
`load` and truncate, which write everything. `NextRecord` are the commands made of
them. `JanoshStore` extends it with the loops and recursive functions:
`appendRange`/`AppendFrom` (the `append` of a range), `copy`, `remove` with its loop
`RemoveFrom` and the loop `Pack` that closes the gap in an array, `move`, `shift`
with `replaceRecord` (the `replace` of one record by another) and `makeTemp`, and
`patch`; its `Next` is `NextRecord` or one of their commands, and the runs check
that. The modules are cut where recursion begins, because the provers handle
no module with a recursive operator. An operator takes the database and returns the
database it leaves, whether it threw, and its result; an operation that throws
leaves what it had written until then. The command actions add what
`commands.cpp` does around them: fetching arguments, the checks of the
arguments, and the answer, which is "Successful" or "Failed". `reply` records
the last command and its answer.

The constants are the paths in use (`Bases`), the contents of values, the
batches one append adds (`Batches`), the texts (`Files`), the names `parseIndex`
misreads (`Numbered`), and `Star`, the rank of `*`: the ranks below it are the array
elements. `Careful` is explained next.

`Document` states what a client may rely on: the same tree without sizes, and
for each command `Accepts` (when) and `Effect` (what). `JanoshStore` implements
it under the mapping that forgets the stored sizes. Every command is a step
`Execute` or `Refuse`; so an accepted command did exactly the effect, and a
failed one changed nothing. The two are written independently:
`Document` moves subtrees by substituting path prefixes and renumbers array
elements, `JanoshStore` walks cursors.

`Sound` says what a document is: `Tree` (finite, every record in a directory that
is there, a name either a value or a directory) and `Dense` (the elements of an array
are numbered from 0 without a gap). `Fits` is what a command has to keep to
so that its effect leaves such a document, and `ClientsFit` that no other command
is carried out. It is the weaker of the two contracts: of the rules below it
has only those that speak of the document, none that a client needs because of the way a
loop or a cursor of the code works. `ContractKept` is the claim that what the
store carries out under `Proper` fits.

**The rules of `Proper`.** The store implements the document only while
clients stay within a contract. With `Careful = TRUE` the commands are
restricted to it, with `Careful = FALSE` they are not. Each rule is there
because without it TLC finds a state in which the code leaves a damaged or
unexpected document:

- a value is set or added only where its directory exists and no directory has
  its name, and in an array only as an element: `parseIndex` reads the name `x0` as the
  index 0, so the bounds check lets it in (add writes first and counts the parent afterwards; only mkarr and
  mkobj look for a record of the other kind);
- the value removed or moved is not the empty string (`Value::getSize` throws);
- a range that is removed holds no directories (they are not counted);
- if the removal closes a gap in an array, the directories in that array hold
  no directories (`Record::next` skips as many records as the directory has
  members);
- a directory is copied or moved only if it and the directories in it are
  not empty, and those hold no directories; not into itself; in an array,
  directories come before values (append adds values uncounted, so
  the bounds check refuses a directory after one);
- a range is copied only onto a directory that exists, without a clash of names;
- a value is moved only to the path of another existing value (moved onto itself
  it is replaced and then removed, with no error), and a directory only to a free path; an array that is packed by the move does not
  hold the destination;
- both elements of a shift exist and the elements hold no directories; if some are
  directories no value among them is the empty string (making room for a
  directory removes the value); towards the end, there is a record behind the
  array, for the cursor that walks ahead has to stand somewhere (`/tmp`, which the
  shift makes itself, will do if it sorts behind it);
- a loaded text names everything there is (load takes nothing away) and contains no
  null (which is counted and not written);
- a patched text has directories where there are directories, of the same kind, and
  values where there are values, and no null between the elements of an array.

Within the rules the check covers nested objects and arrays, packing an array
whose elements are directories, moves out of arrays and range copies
into arrays, shifts in both directions over values and directories, and texts
that are patched into existing arrays. It also covers every refusal: bounds, name clashes, missing
sources and wrong kinds.

A JSON text is a function from paths to nodes, where a directory carries the
number of entries the text lists, nulls included. A text lists its members in
some order; the model takes the order of the paths, which matters only for what a
patch that throws has done before. When a shift fails it leaves what it had put
into `/tmp`; the bound on the records does not count it.

Simplifications. A multi-argument command is modelled as one with a single
pair. `size_t` wraps at `65536` instead of `2^64`. An `assert(false)` and the
endless recursion on a damaged directory at the end of the database count as a
throw. Clearing an existing destination that is in an array, or above the
source, is not modelled for move: it then goes on with a cursor that points to
a record that has moved. Outside the rules, a shift whose source lay in the record
it replaces counts as a throw. Announcements are left out (they change no record).

### Printing

`recurseDirectory` is the loop over the records with its stack: `Visit` is one
round, `Close` ends directories, `Cut` pops the stack. `recurseValue` runs the
same loop over the directories above a value. The output is the list of calls of
the visitor with the arguments `JsonPrintVisitor` distinguishes: the name or none,
and whether a comma precedes it. `TextOf` is the text of the tree,
written by recursion. `GetPrintsDocument` compares them in every state of the
store, that is for every document the commands can build.

The exception is `NamesNest`. A directory is ended when the parent of the
next record has another name, not another path, so after `{"a":{"a":{}}}`
a member of the outer `a` is printed inside of the inner one. Arrays of
objects can do the same with element numbers: `/#0/#0`. Without the exception TLC
finds it with four commands.

Left out: the braces and commas around several records in one get, escaping, the
Bash and raw formats (a line for each value, no structure).

### SharedDirectory

One directory, array or object, and the commands of several workers on it. A
command is cut at its requests to the database, each a step: `pc` is the request a
worker sends next, `s` the size it has read, `key` the name or index it writes
next. `fetch`, `bounds` (boundsCheck reads the size), `announce`, `write`, `count`
(changeContainerSize reads the size) and `resize` (and writes it) come in the order of
the code: add writes and then counts, makeArray and makeObject count
and then write, append reads the size first and writes it last, remove
uses the size it has read before its removal. A database that finds a
record for add, or none for replace and remove, refuses (`WriteRefused`). `Crash` ends
the daemon with all its workers; the database server is another process.

`clean`, `mixed`, `issued` and `crashed` are history: whether every size was written
over the one it was computed from, the names on which commands overlapped, and
which kinds of command there were.

What comes out. Sizes do go wrong, for four reasons and no others
(`ExactUnlessRaced`). If nobody removes or makes directories they only get too
small, never too large (`SizeNeverAhead`). An array that is only written by set, add,
replace and append needs no lock at all (`GrowsInTurns`): the index at the end of the
array can be added only once, and until its command has written the size every other
command either finds that index taken or is out of bounds. The price is
`FrozenBehind`: when the daemon dies between the two writes nobody can ever add to the array
again.

Left out: the announcements of sizes and of mkarr and mkobj, and
remove from an array (which copies the elements behind). The two fetches of make are one
step. A cursor on a record that another worker has removed refuses to remove
it, which is assumed of the database server.

### LuaTransactions, FifoLock

One action is a section of code under `open_lock_`: from acquiring it to
releasing it or to `open_lock_cond_.wait`. `performOpen` becomes six actions
according to what it finds (closed and nobody queued; its own stale entry at
the head; has to wait; woken and its turn; woken and not its turn; a
spurious wakeup). `openCallback_` may throw, at most `MaxFailures` times, and
leaves the entry of the thread in the queue. `performClose` pops the front and
wakes everybody; `performRequest` uses the open connection, whoever opened
it, or opens and closes one for itself without touching the queue.
`pc` is where a thread is, `session` is which threads' requests the open connection
has carried.

`FifoLock` is mapped by `owner` = opener while open, and `line` = the queue
without its front while open.

### WorkerPool

`acceptor` is the position of `TcpServer::run`, `count` the semaphore,
`backlog` the kernel's queue, `worker[t]` the position of the thread with id
`t`, `handles` the keys of `Record::db`, `client` the peer. A client may
vanish at any moment; `vanished` remembers the threads whose client has done so
before its answer. Receiving then ends the loop and destroys the handle; sending
throws out of `run()`, past `destroyDB`, and `runSynchron` swallows it.
`OrphansOfVanished` says exactly which handles there are: those of serving
workers and those such threads left. `kind` separates begin/commit/abort, answered
outside the `try`, from commands, whose failed answer is sent a second time by
the `catch` block. A send to a vanished peer throws only where SIGPIPE is
ignored; nothing in the daemon ignores it, and with the default disposition
the process ends instead. The module takes the first case, the one in which
there is something left to be correct. `Record::db` is changed by all workers
without a lock; each access is taken as atomic.

### LuaLocks

`Call` starts one of the three functions, the other actions are their bodies.
`LockTaken` is the body of `l_lock` that finds the named lock taken: it waits
with `lua_lock_map_mutex` held.

### WebsocketServer

The server as it runs with a password file. The variables are the maps of
`Authenticator` under their names (`nameSkeyMap`, a multimap, is a set of pairs;
`authData` keeps only who is registered), the three queues, and `receiveLimit`.
`open` and `moved` are what the environment knows: which sockets are connected,
and which of them lost their handle when their session was resumed elsewhere.
The event loop is one thread: `LoopFree` guards its handlers, and `busy`
is the connection whose message waits in `receiveLimit.wait()`, during which no
handler runs. Each branch of `on_message` is an action: logout, message for
Lua (two steps, `MessageForLua` and `Push`), login by password, login by session
(`Resume`, with `remapSession`), registration, and everything answered by
"auth" or a refusal. `ProcessMessage` is an iteration of `process_messages`;
`Accept` and `Reject` are the thread of `wsOnRegister`, `Receive` the threads of
`wsOnReceive`. `down` means that an exception in the event loop or an assertion
has ended the process. A connection is identified by its address, which a new
socket may get again.

Simplifications. A session key is new when it is made. Handlers and
`Authenticator` calls are atomic; `accept` calls several of them, but only one
thread accepts users and only it creates them. Broadcasts, `send` and the getters
change no state; calling `send` on a socket that is closed meanwhile is
undefined in the library and not modelled. C++ exceptions inside a Lua
lane end the lane (LuaJIT turns them into errors).

## Checks

| Run | Instance | States | What it shows |
|---|---|---|---|
| `store` | 10 paths, 2 contents, at most 6 records, `Careful` | 5177 | sizes exact, arrays dense, one record per name, refinement of `Document` and its contract kept, get prints the document |
| `store_move` | the same, not `Careful` | violation | in an undamaged document, moving a value to a path without a record answers "Failed" and deletes it |
| `store_range` | the same, not `Careful` | violation | in an undamaged document, removing the range of an array that holds a directory leaves a size that is too large, and fails |
| `transactions` | 4 threads, connects succeed | 6009 | exclusion, queue discipline, no lost wakeup, refinement of `FifoLock` with its liveness |
| `transactions_fail` | 3 threads, 2 failing connects | 8428 | exclusion survives; a waiter is served unless an abandoned entry heads the queue |
| `transactions_isolation` | 2 threads | violation | another thread's request travels inside a transaction |
| `pool` | 2 slots, 3 thread ids, 3 clients, clients vanish | 44374 | slots conserved, handle while serving, handles left over by threads with a vanished client and no others, every connection is accepted |
| `pool_orphan` | the same, clients vanish | violation | a leaked handle makes a later worker drop its client |
| `shared_directory` | 2 workers, names 0 to 2, 2 values, 4 commands, sizes modulo 8 | 1365874 | why sizes go wrong, arrays grow in turns, appends are stored whole, the feed tells the store, a crash freezes the array |
| `locks` | 3 threads, 2 locks | 2282 | one owner, calls return until somebody waits in l_lock, then all locks freeze |
| `websocket` | 2 addresses, 2 users (1 registered), 2 keys, 2 connections, limit 1 | 420189 | handles and sessions agree, when a connection lacks a handle, the limit, the event loop goes on while a receiver lives |
| `websocket_handles` | the same | violation | a disconnect without logout makes `getHandles` fail its assertion |

The five runs that end in a violation are the disagreements in "findings" of
`PROJECT.json`: each quotes the comment, script or test the code contradicts.

**Bounds.** `store`: the paths are an object or array `/a` with elements 0 to 2
and a name, directories as its elements 0 and 1 with members of their own, and
a second directory `/b` that is the target of copies and moves. Six
records are enough for the root, an array, two directory elements and a member
in each, the smallest document in which the packing loop moves a
directory over a gap. Larger bounds found nothing that six records do not show
(seven: 13657 states, run by hand). The view of the run is `db`: no action
reads `reply`, so states that differ only in it have the same successors, and
every step, with the reply it sets, is still checked. The members of the
elements of `/a` are called `a` too, so that directories of one name nest; `b` stands for
a name like `b0`. The five
texts that are loaded and patched have arrays, objects, objects in arrays, a null at the
end of an array and one at its beginning. Deadlock is not checked
in the store runs because a bound on the records can disable every command
that fits, and not in `locks` because there the system really stops.
`transactions`: with four threads, three can wait at once, so that the order of
wakeups matters and differs from the order of arrival. `MaxFailures = 2` lets two
threads abandon an entry. `pool`: more clients than slots and more thread
ids than slots, so that clients queue and ids are reused.

`shared_directory`: two workers and four commands let two commands fill an array
before two others overlap at its end, and a crash come before a fourth one;
three workers with four commands (4.7 million states, run by hand) showed nothing else.
The theorems hold for any number. Deadlock is not checked because
commands run out.

`websocket`: two addresses and two keys are enough for a session that moves and
a connection with two sessions; two connections may share one address, one after
the other. Three connections (4874035 states, run by hand) showed nothing else. Only one receiver
is needed for all receivers to have ended. Deadlock is not checked in the
websocket runs: the process may end, and the bounds are reached.

**Fairness.** Threads that are runnable run: weak fairness on the acceptor, on
each step of a worker and on a woken thread that gets `open_lock_`.
`PerformClose` is weakly fair because `Janosh:transaction` closes whether the
function fails or returns; it assumes that it does one of the two. `Hangup` is
strongly fair: a client sends finitely many requests and then closes.
`Receive` is not fair, a client may be silent. In `LuaLocks` the body of a call
is strongly fair: a mutex that is released again and again is eventually
acquired; the calls themselves are not, a script need not unlock. In
`WebsocketServer` only `Push` and `Receive` are fair: a thread that the semaphore
or the queue lets go on runs. Clients, the validator and process_messages need
not. The
properties about transactions assume the same of `open_lock_` implicitly: a section
under it is one step.

## Proofs

Checked by TLAPS, for all values of the constants and from the named
assumptions of the modules only (`NoThread`, `NoClient` and `NoConn` are not members of
their sets, bounds are naturals, the set of thread ids is finite).

**LuaTransactions_proofs.** The inductive invariant `IInv` is `TypeOK`,
`TransactionsExclusive`, `FrontIsOwner` and `WaitersQueued` together, and none
of the four is inductive alone: that the pop in `performClose` hits the
closer's entry needs `FrontIsOwner`; that it does so after a woken thread has
opened needs the guard on the front; that a thread outside does not lose
its entry needs exclusion. `WaitersQueued` is what makes `front()` of the deque
defined when a thread wakes. These hold with failing connects. `QInv` adds
`OneEntryEach` and `NoLostWakeup`, which hold only without them: with one entry
per thread the head after a pop is a waiting thread, so `notify_all` has
just woken it. The last lemma, `StepRefines`, maps each action to a step of
`FifoLock` or to a stutter; `RefinesFifoLock` is the safety part of the
refinement.

**WorkerPool_proofs.** `SlotsConserved` is proved by counting: the set of
workers that owe a notify grows by one in `Accept`, shrinks by one in
`Notify`, and stays put otherwise. `OrphansOfVanished` needs that while a worker
has a request its client is gone exactly if the thread is in `vanished`, and
that such a thread never receives again (`PeerWaits`); that a hangup concerns one
worker only is `ServedOnce`, a part of the invariant, which in turn needs that
the backlog has no duplicates and that its clients are in no worker's hands.

**LuaLocks_proofs.** `FreezeIsForever`: the thread that waits in `l_lock` owns
the mutex of the map (`WaiterHoldsMap`) and waits for a lock another thread owns;
every action that would change an owner needs that mutex.
`OwnershipKept` needs that a thread inside `l_unlock` owns the lock it names.

**SharedDirectory_proofs.** The invariant has four parts. `BaseInv`: types, what
each position of a command implies for its variables, and no directories without
make. `ArrayInv` (array, nothing removed): `InTurns`, the names taken are those
below the size, or, while one command is half way, those below the index it has
reached; a second command half way would have added to a name that is taken.
`ObjectInv` (nothing removed): `LeavesRoom`, the size plus the number of adds
half way is at most the number of members, which is the strengthening that makes
`SizeNeverAhead` survive a lost update: the one who writes an older size gives up
its own place in the sum. `FeedInv`: a name that is not mixed has at most one worker
between its announcement and its write, and the last announcement is its. Each has a
lemma for every action; counting arguments use the cardinality facts of
`FiniteSetTheorems`.

`OnlyTheseRaces`, in the same module: the four things
`ExactUnlessRaced` names are the only ones that make a size wrong. The invariant
is a balance (`Balanced`): while every size was written over the one it was made
from, the size and the members that are stored and not yet counted
(`Uncounted`: what an add or an append has written before its resize) add up to the
members and the commands that have counted before they write, or removed before
they count (`Overcounted`), modulo the width of `size_t`. At rest both sets are
empty and the size equals the count modulo the width; the two are the same number because
`DirectoryAssumption` makes the width larger than what a directory over the
names can hold, each name once as a value and once as a directory:
`2 * (MaxName + 1) < Width`. With four for the width and three names TLC finds a size that
has wrapped around; 2^64 is above any directory a machine can store.

**StoreRecords_proofs.** For any paths, contents, texts and bounds, and any sequence of the
commands of `NextRecord`: records have their types, sizes are the number of members,
arrays are dense, a name is one record in a directory that exists. The
hypothesis is `Careful`, that clients stay within `Proper`; without it
the invariants do not hold, which is what the rules are about. The invariant `Consistent`
is the conjunction of `Records`, `Sized`, `Dense` and `Tree`, and none of the four is
inductive alone. The bounds check compares an index with the size that is kept by hand: only if
that is the number of members (`Sized`) and they are numbered without a gap (`Dense`)
is a free index within bounds the next one (`NewElement`), so that `Dense` survives; `Sized` survives
because the new record is counted in the one directory it lies in, for which its
path must determine its parent and its name (`OneName`); `size_t` does not wrap
because a directory has fewer members than there are records (`FewMembers`,
`Records`); and that the parent is there to be counted is `Tree`.
`Grown` says what all the writing commands have in common: a database that has
some more records in one directory, which has counted them; `Grows` proves that such a database
is consistent again, and the lemmas of the commands show that they leave one. `StepConsistent` is
about a single step from any consistent database; such a step is also one of the `Next` of
`JanoshStore`, so what is left to TLC there are the steps of the cursor algorithms.

**StoreRefinement_proofs.** `RecordsImplementDocument`: with the stored sizes
forgotten, each of these commands is a step of `Document`: accepted, with exactly the
effect, or refused, with none. It rests on `Consistent`, for `Document` decides by
the number of members where the code decides by the stored size (`InBounds`), and lets replace write
where the code checks the bounds once more (`Inside`). `SamePaths` and `SameNodes`
identify the operators of the instance with those of the store. There is one lemma for each command
(`SetDocument` to `MissingDocument`); `AsPromised` turns its answer and its effect
into a step. `RecordsKeepContract`: whatever these commands carry out
is within `Fits`. A value is set where no directory has its name because `Proper` says so and
`Tree` says where else a record could be; an append stays below `Star` because it was admitted
only with fewer than `MaxRecords` records; and a text that load takes is sound
because `Consistent` holds of the database it makes.

**Document_proofs.** `DocumentSound`: as long as the commands carried out keep to the
contract, `Sound` holds for ever, for all thirteen commands, for every set of commands and nodes
and for directories of any depth. `Sound` is inductive as it stands, but each half needs
the other: where an element may go is decided by how many there are, which
is a free index only if they are dense, and how many there are is only determined by
their names because a name has one record. What the effects do comes down to four
general lemmas. A directory gets new empty members (`Joins`, `Leaves`: set, add, mkarr, mkobj,
append). Copies of whole subtrees are made at free names (`Imports`,
`ImportedTree`, `Imported`: copy, the first half of move). Subtrees go (`Closing`, `Pruned`: remove, the
second half of move). All paths are renamed one to one
(`Renames`, `Reindexes`, `ReindexedTree`: closing a gap and shift; `Landed`: the text of a
patch, which is moved behind the elements of existing arrays before it is laid over the document). That all
directories above a record exist (`Ancestors`) is proved without induction over paths:
of the ones that are missing there would be a longest, and its own member would be a record
without its directory (`Least`). That a shift and a range copy number the elements by counting is `Ranks`.

Why each clause of `Fits` is there shows in the proof. Without the clash rule a set makes a name
two records (`PutNew`). A directory moved into itself would go with its copy
(`CopyApart`). Ranges need free names in the target (`RangePlants`) and, as append and patch, room
below `Star`, since the ranks above are names. A patched text may not change the kind of a record
(`Kept`): an array made an object keeps its elements.

Together with `ImplementsDocument` and `ContractKept` this bears on the store itself: whatever
tree it holds is sound, by `DocumentSound`. For the commands on single records both are
theorems; for the cursor algorithms both are what the run `store` checks, so
that a state of theirs which is not sound can only come from a step that
already differs from `Document` or breaks the contract.

**WebsocketServer_proofs.** The invariant has three parts that hardly touch.
`HandlesLeadBack` makes the handles of connections distinct, so that taking one
back or moving it disturbs no other. `SessionsListed` rests on keys being new.
`HandleUnlessMoved` needs `Resubscribed`: an unsubscribe of an open
connection's address is left over from an earlier socket, and the subscribe of
the open one comes after it in the queue. Lemmas (`HandleSteps`,
`SessionSteps`, `ActionSteps`) reduce the fifteen actions to the few ways in
which a group of variables changes.

**Only model-checked.** Liveness (`EventuallyAccepted`, `LoopGoesOn`,
`ServedUnlessAbandoned`, `CallsReturnUntilBlocked`, the fairness part of
`FifoLock`): outside the prover's reach. Of the store,
`TypeOK`, `SizesExact`, `ArraysDense`, `OneRecordPerName`, `ImplementsDocument` and `ContractKept` for the commands that
are cursor algorithms (append of a range; copy, move and removal of directories and
ranges, and every removal that closes a gap in an array; shift; patch), and
`GetPrintsDocument`: they are recursive operators, as the code's are recursive
functions and loops, and the provers neither handle modules with them nor do induction
over them. What they compute is checked against `Document` and `TextOf` on the
documents within the bounds.

## Not modelled

- Copy, move and shift of two workers at once: each is a long series of requests
  over many records; `SharedDirectory` has the requests they consist of.
- filter, random, dump, hash, size: they read and change nothing. random asks an empty
  object for a number between 1 and 0, which the library leaves undefined
  (`janosh.cpp` 245).
- Contents of numbers: load cuts them to 32 bits, patch keeps 64 (`janosh.cpp` 1186).
- Signals (the SIGUSR1 handler of `printTransactions`), data races on `std::map`
  (`Record::db`, `Tracker::instances_`, the maps of `Subscriptions`) and the ZMQ
  socket shared by workers: undefined behaviour without outcomes to enumerate.
- Byte framing and serialisation of requests, escaping and layout of the output,
  settings, logging, X11 and zlib wrappers: data layout or input and output without a
  protocol.
- The Kyoto Tycoon server and the plug-in for it (`myscript.cpp`) are external: the
  server is modelled as an ordered map with cursors, from the way `record.cpp` uses it.
- Vendored code (jsoncons, json_spirit, plog, backward, cppzmq), by far
  the largest part of the repository: it is not the program's own. Of
  the program's own sources what is left is listed above.

## Plan

Done, in this order: script transactions with their abstract lock; thread pool;
document store with its abstract document; named locks; websocket server; their
theorems; one directory shared by workers, with the announcements, and its theorems,
the exactness of its size last; shift, load and patch; printing; the commands on single
records as a module of their own, with the theorems that they keep the store
consistent and implement the document; the contract of the document, and the theorem that within it
every effect, those of the cursor algorithms included, leaves a sound document.

Open: a round of the loops of the store (one element that `Pack` moves, one member
`AppendFrom` copies) could be cut out of its recursion and proved by itself. It
needs the order on paths (it is total, a subtree is an interval of it), on which cursors
walk and which `Document` does not use beyond the order of members (`MembersOrdered`).
