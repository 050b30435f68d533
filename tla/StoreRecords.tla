---------------------------- MODULE StoreRecords ----------------------------
(***************************************************************************)
(* The commands of the document store (janosh.cpp) that write one record   *)
(* and the size of its directory, each run by itself on the key/value      *)
(* database.  A directory is one record "A<n>" or "O<n>" at <path>/!, and  *)
(* n, the number of its members, is kept up to date by hand.  An operator  *)
(* takes the database and returns what it leaves of it: nothing is rolled  *)
(* back when an operation throws, because begin and endTransaction do      *)
(* nothing.  The rules under which clients use the store are here too.     *)
(***************************************************************************)
EXTENDS Integers, FiniteSets, Sequences, DocumentPaths

CONSTANTS Bases,         \* the paths in use, without "." and "*"
          Content,       \* the contents of values, 0 is the empty string
          Batches,       \* the contents that one append adds
          MaxRecords,    \* bound: records in the database
          tmp,           \* the name of the directory /tmp
          Numbered,      \* names like x0 |-> the number after the first character
          Files,         \* JSON texts: path |-> node, n is what a directory lists
          Careful        \* TRUE: clients stay within the rules of Proper

VARIABLES db,            \* path |-> [t |-> "s", "A" or "O", n |-> content or size]
          reply          \* the last command and whether it was accepted

vars == <<db, reply>>
tmpDir == <<tmp, Dot>>
Paths == Bases \cup {asDirectory(b) : b \in Bases}
Members(f, d) == {p \in DOMAIN f : p # d /\ parent(p) = d}
isArray(f, p) == p \in DOMAIN f /\ f[p].t = "A"

\* A JSON text is an object with its members, below which each directory lists n
\* entries; nulls are counted and have no node.
JsonText(text) ==
  /\ IsFiniteSet(DOMAIN text)
  /\ Root \in DOMAIN text /\ text[Root].t = "O"
  /\ \A p \in DOMAIN text :
       /\ p \in Paths \cup {Root} /\ parent(p) \in DOMAIN text
       /\ IF IsValue(p) THEN text[p] \in [t : {"s"}, n : Content] /\ asDirectory(p) \notin DOMAIN text
                        ELSE text[p] \in [t : {"A", "O"}, n : Nat]
       /\ isArray(text, p) =>
            \A m \in Members(text, p) : name(m) \in {Index(i) : i \in 0 .. text[p].n - 1}

ASSUME StoreAssumption ==
  /\ \A b \in Bases : b \in Seq(Nat) /\ b # <<>> /\ Last(b) \notin {Dot, Star} /\ b[1] # tmp
  /\ tmp # Dot /\ Star \in Nat
  /\ \A vs \in Batches : vs \in Seq(Content) /\ vs # <<>>
  /\ \A text \in Files : JsonText(text)
  /\ MaxRecords \in Nat \ {0} /\ MaxRecords < Star /\ MaxRecords < 65536

\* What an operation leaves: the database, whether it returned, its result.
Returned(f, n) == [db |-> f, ok |-> TRUE, n |-> n]
Threw(f) == [db |-> f, ok |-> FALSE, n |-> 0]

\* Go on after an operation unless it threw.
Then(o, Continue(_)) == IF o.ok THEN Continue(o) ELSE o

exists(f, p) == (IF IsWildcard(p) THEN asDirectory(p) ELSE p) \in DOMAIN f
With(f, p, v) == [q \in DOMAIN f \cup {p} |-> IF q = p THEN v ELSE f[q]]
Without(f, p) == [q \in DOMAIN f \ {p} |-> f[q]]
Over(g, f) == [q \in DOMAIN g \cup DOMAIN f |-> IF q \in DOMAIN g THEN g[q] ELSE f[q]]
size_t(n) == n % 65536   \* stands for 64 bits

setContainerSize(f, d, s) == [f EXCEPT ![d].n = size_t(s)]
changeContainerSize(f, d, by) ==
  IF d \in DOMAIN f THEN Returned(setContainerSize(f, d, f[d].n + by), 1) ELSE Threw(f)

\* parseIndex drops the first character of any name.
Parses(c) == IsIndex(c) \/ c \in DOMAIN Numbered
parseIndex(c) == IF c \in DOMAIN Numbered THEN Numbered[c] ELSE IndexOf(c)

boundsCheck(f, p) ==
  \/ parent(p) = Root
  \/ ~isArray(f, parent(p))
  \/ Parses(name(p)) /\ parseIndex(name(p)) <= f[parent(p)].n
-----------------------------------------------------------------------------
\* Slip: a value of the same name is overlooked.
makeDirectoryBeside(f, p, kind) ==
  IF p \in DOMAIN f \/ ~boundsCheck(f, p) THEN Threw(f)
  ELSE Then(changeContainerSize(f, parent(p), 1),
            LAMBDA up : Returned(With(up.db, p, [t |-> kind, n |-> 0]), 1))

\* makeArray and makeObject: the parent is counted up before the record is
\* written.
makeDirectory(f, p, kind) ==
  IF p \in DOMAIN f \/ basePath(p) \in DOMAIN f \/ ~boundsCheck(f, p) THEN Threw(f)
  ELSE Then(changeContainerSize(f, parent(p), 1),
            LAMBDA up : Returned(With(up.db, p, [t |-> kind, n |-> 0]), 1))

\* Slip: the parent does not learn of the new member.
addUncounted(f, p, v) ==
  IF ~boundsCheck(f, p) THEN Threw(f)
  ELSE IF p \in DOMAIN f THEN Returned(f, 0) ELSE Returned(With(f, p, v), 1)

\* The command does not fetch the record, only the database refuses a
\* record that exists.
add(f, p, v) ==
  IF ~boundsCheck(f, p) THEN Threw(f)
  ELSE IF p \in DOMAIN f THEN Returned(f, 0)
  ELSE changeContainerSize(With(f, p, v), parent(p), 1)

replace(f, p, v) ==
  IF p \notin DOMAIN f \/ ~boundsCheck(f, p) THEN Threw(f)
  ELSE Returned([f EXCEPT ![p] = v], 1)

set(f, p, v) ==
  IF ~boundsCheck(f, p) THEN Threw(f)
  ELSE IF p \in DOMAIN f THEN replace(f, p, v) ELSE add(f, p, v)
-----------------------------------------------------------------------------
\* append(begin, end, dest): the size is written after the values.
appendValues(f, d, vs) ==
  LET s == f[d].n
      target(i) == withChild(d, Index(s + i - 1))
      taken == {i \in DOMAIN vs : target(i) \in DOMAIN f}
      added(m) == Over(f, [p \in {target(i) : i \in 1 .. m} |->
                             [t |-> "s", n |-> vs[IndexOf(name(p)) - s + 1]]])
  IN IF ~isArray(f, d) THEN Threw(f)
     ELSE IF taken # {} THEN Threw(added((CHOOSE i \in taken : \A j \in taken : i <= j) - 1))
     ELSE Returned(setContainerSize(added(Len(vs)), d, s + Len(vs)), Len(vs))
-----------------------------------------------------------------------------
\* After the loop: the size of the parent is the one read before it.
Uncount(f, p, gone) ==
  LET rest == IF IsDirectory(p) THEN Without(gone.db, p) ELSE gone.db
      less == IF IsDirectory(p) THEN 1 ELSE gone.n
  IN IF parent(p) \notin DOMAIN f THEN Threw(rest)
     ELSE Returned(setContainerSize(rest, parent(p), f[parent(p)].n - less), gone.n)

\* remove of a value: the loop takes one round.
removeValue(f, p) ==
  IF p \notin DOMAIN f \/ f[p].n = 0 THEN Threw(f)
  ELSE Uncount(f, p, Returned(Without(f, p), 1))

\* copy of a value to the path of a value.
copyValue(f, s, d) == IF exists(f, d) THEN Threw(f) ELSE set(f, d, f[s])

\* What move does first for two values: the destination is replaced, and nothing
\* happens if there is none.
replaceBy(f, s, d) == IF d \in DOMAIN f THEN Returned([f EXCEPT ![d] = f[s]], 1) ELSE Returned(f, 0)

moveValue(f, s, d) ==
  IF ~boundsCheck(f, d) THEN Threw(f)
  ELSE Then(removeValue(replaceBy(f, s, d).db, s),
            LAMBDA left : Returned(left.db, replaceBy(f, s, d).n))

\* Every node of the text is written as it stands, directories with the number
\* of nodes the text lists in them.
load(f, text) == Returned(Over(text, f), Cardinality(DOMAIN text))
-----------------------------------------------------------------------------
\* The commands, as clients send them.
Directories == {asDirectory(b) : b \in Bases} \cup {Root}
Ranges == {asWildcard(b) : b \in Bases}

Commands ==
  [op : {"set", "add", "replace"}, at : Bases, value : Content]
    \cup [op : {"mkarr", "mkobj"}, at : Directories]
    \cup [op : {"remove"}, at : Paths \cup Ranges]
    \cup [op : {"append"}, at : Directories, values : Batches]
    \cup [op : {"copy"}, from : Paths \cup Ranges, at : Paths \cup {Root}]
    \cup [op : {"move"}, from : Paths, at : Paths \cup {Root}]
    \cup [op : {"shift"}, from : Paths, at : Paths]
    \cup [op : {"load", "patch"}, text : Files]
    \cup {[op |-> "truncate"]}

\* d has no directories in it; the directories in d have none in them.
Flat(f, d) == \A m \in Members(f, d) : IsValue(m)
FlatElements(f, d) == \A m \in Members(f, d) : IsDirectory(m) => Flat(f, m)

\* The rules under which every command does what the document promises.
\* Outside of them it may fail half way, or leave sizes that are wrong.
NewRecord(f, p) ==
  p \in DOMAIN f \/ (parent(p) \in DOMAIN f /\ asDirectory(p) \notin DOMAIN f)

Removable(f, p) ==
  /\ IsValue(p) /\ p \in DOMAIN f => f[p].n # 0
  /\ IsWildcard(p) /\ parent(p) \in DOMAIN f => Flat(f, parent(p))
  /\ isArray(f, parent(p)) => FlatElements(f, parent(p))

\* append counts a value it adds to an array only at its end, so a directory
\* that follows one is refused as out of bounds.
DirectoriesFirst(f, d) ==
  \A m, x \in Members(f, d) : IsDirectory(m) /\ IsValue(x) => Before(m, x)

\* Directories in d have members, and these have none.
Copyable(f, d) ==
  /\ Members(f, d) # {}
  /\ isArray(f, d) => DirectoriesFirst(f, d)
  /\ \A m \in Members(f, d) : IsDirectory(m) => Members(f, m) # {} /\ Flat(f, m)

CopyProper(f, s, d) ==
  /\ IsValue(s) /\ IsValue(d) => NewRecord(f, d)
  /\ IsDirectory(s) => Copyable(f, s) /\ ~above(s, d)
  /\ IsWildcard(s) =>
       /\ IsDirectory(d) /\ d \in DOMAIN f
       /\ FlatElements(f, parent(s))
       /\ isArray(f, d) => DirectoriesFirst(f, parent(s))
       /\ \A m \in Members(f, parent(s)) :
            /\ IsDirectory(m) => Members(f, m) # {} /\ ~above(m, d)
            /\ isArray(f, d) \/ {withChild(d, name(m)), asDirectory(withChild(d, name(m)))}
                                   \cap DOMAIN f = {}

MoveProper(f, s, d) ==
  /\ Removable(f, s)
  /\ IsValue(s) => d \in DOMAIN f \ {s} /\ IsValue(d)
  /\ IsDirectory(s) =>
       /\ IsDirectory(d) /\ d \notin DOMAIN f
       /\ Copyable(f, s) /\ ~above(s, d)
       /\ isArray(f, parent(s)) /\ parent(d) # parent(s) => ~above(parent(s), d)

\* The elements of the array hold no directories, a value that makes place for
\* a directory is not empty, and the cursor that walks ahead finds a record
\* behind the array.
ShiftProper(f, s, d) ==
  isArray(f, parent(s)) /\ parent(d) = parent(s) /\ IndexOf(name(d)) < f[parent(s)].n =>
    /\ d \in DOMAIN f
    /\ FlatElements(f, parent(s))
    /\ Flat(f, parent(s)) \/ \A m \in Members(f, parent(s)) : IsValue(m) => f[m].n # 0
    /\ Before(d, s) \/ \E q \in DOMAIN f \cup (IF s = d THEN {} ELSE {tmpDir}) :
                         Before(d, q) /\ ~above(d, q)

\* load takes nothing away, so it has to overwrite all there is; a null is
\* counted and not written.
LoadProper(f, text) ==
  /\ DOMAIN f \subseteq DOMAIN text
  /\ \A d \in DOMAIN text : IsDirectory(d) => text[d].n = Cardinality(Members(text, d))

\* Values and directories do not take each other's names, nor arrays and
\* objects, and no null lies between the elements of an array.
PatchProper(f, text) ==
  \A p \in DOMAIN text :
    /\ p \in DOMAIN f => f[p].t = text[p].t
    /\ (IF IsValue(p) THEN asDirectory(p) ELSE basePath(p)) \notin DOMAIN f
    /\ isArray(text, p) => \A m \in Members(text, p) : IndexOf(name(m)) < Cardinality(Members(text, p))

\* A name that can be read as an index is no element of an array.
InElements(f, p) == isArray(f, parent(p)) => name(p) \notin DOMAIN Numbered

Proper(f, c) ==
  /\ c.op \notin {"remove", "load", "patch", "truncate"} => InElements(f, c.at)
  /\ c.op \in {"set", "add"} => NewRecord(f, c.at)
  /\ c.op = "remove" => Removable(f, c.at)
  /\ c.op = "copy" /\ exists(f, c.from) => CopyProper(f, c.from, c.at)
  /\ c.op = "move" /\ exists(f, c.from) => MoveProper(f, c.from, c.at)
  /\ c.op = "shift" /\ exists(f, c.from) => ShiftProper(f, c.from, c.at)
  /\ c.op = "load" => LoadProper(f, c.text)
  /\ c.op = "patch" => PatchProper(f, c.text)
-----------------------------------------------------------------------------
Init ==
  /\ db = [p \in {Root} |-> [t |-> "O", n |-> 0]]
  /\ reply = [c |-> "none", ok |-> TRUE]

\* A command is answered with success unless it threw or its result is one
\* that the command reports as "Failed".  Bases and MaxRecords bound the database;
\* what a failing shift has left in /tmp comes on top.
Answer(c, o, ok) ==
  /\ Careful => Proper(db, c)
  /\ Cardinality({p \in DOMAIN o.db : p[1] # tmp}) <= MaxRecords
  /\ \A p \in DOMAIN o.db : p \in Paths \cup {Root} \/ p[1] = tmp
  /\ db' = o.db
  /\ reply' = [c |-> c, ok |-> ok]

Content_(v) == [t |-> "s", n |-> v]

Counted(c, o) == Answer(c, o, o.n # 0)
Done(c, o) == Answer(c, o, o.ok)

SetCommand(c) == c.op = "set" /\ Counted(c, set(db, c.at, Content_(c.value)))
AddCommand(c) == c.op = "add" /\ Counted(c, add(db, c.at, Content_(c.value)))
ReplaceCommand(c) == c.op = "replace" /\ Counted(c, replace(db, c.at, Content_(c.value)))
MakeArrayCommand(c) == c.op = "mkarr" /\ Counted(c, makeDirectory(db, c.at, "A"))
MakeObjectCommand(c) == c.op = "mkobj" /\ Counted(c, makeDirectory(db, c.at, "O"))
AppendCommand(c) == c.op = "append" /\ Done(c, appendValues(db, c.at, c.values))

\* A value whose removal leaves no gap in an array.
OfObject(p) == IsValue(p) /\ ~isArray(db, parent(p))

RemoveValueCommand(c) ==
  c.op = "remove" /\ OfObject(c.at) /\ Done(c, removeValue(db, c.at))

CopyValueCommand(c) ==
  /\ c.op = "copy" /\ exists(db, c.from)
  /\ IsValue(c.from) /\ IsValue(c.at)
  /\ Counted(c, copyValue(db, c.from, c.at))

MoveValueCommand(c) ==
  /\ c.op = "move" /\ exists(db, c.from)
  /\ OfObject(c.from) /\ IsValue(c.at)
  /\ Counted(c, moveValue(db, c.from, c.at))

\* Source path doesn't exist
SourceMissing(c) ==
  /\ c.op \in {"copy", "move", "shift"}
  /\ ~exists(db, c.from)
  /\ Done(c, Threw(db))

LoadCommand(c) == c.op = "load" /\ Done(c, load(db, c.text))

\* Slip: the root is not written again.
TruncateBare(c) == c.op = "truncate" /\ Answer(c, Returned(<<>>, 1), TRUE)
TruncateCommand(c) ==
  c.op = "truncate" /\ Answer(c, Returned([p \in {Root} |-> [t |-> "O", n |-> 0]], 1), TRUE)

\* The commands on single records.
NextRecord ==
  \E c \in Commands :
    \/ SetCommand(c) \/ AddCommand(c) \/ ReplaceCommand(c)
    \/ MakeArrayCommand(c) \/ MakeObjectCommand(c)
    \/ RemoveValueCommand(c) \/ CopyValueCommand(c) \/ MoveValueCommand(c)
    \/ AppendCommand(c) \/ LoadCommand(c) \/ TruncateCommand(c) \/ SourceMissing(c)

RecordsSpec == Init /\ [][NextRecord]_vars
-----------------------------------------------------------------------------
\* Records are values or directories, each at a path of its kind; the root is
\* an object.
TypeOK ==
  /\ \A p \in DOMAIN db :
       /\ p \in Paths \cup {Root}
       /\ IF IsValue(p) THEN db[p] \in [t : {"s"}, n : Content]
                        ELSE db[p] \in [t : {"A", "O"}, n : 0 .. MaxRecords]
  /\ Root \in DOMAIN db /\ db[Root].t = "O"

\* The number a directory record carries, changed by hand in every operation,
\* is the number of its members (changeContainerSize, setContainerSize).
SizesExact ==
  \A d \in DOMAIN db : IsDirectory(d) => db[d].n = Cardinality(Members(db, d))

\* The elements of an array are numbered from 0 without a gap, also after
\* remove has closed one by copying the later elements (janosh.cpp 748-786).
ArraysDense ==
  \A d \in DOMAIN db : isArray(db, d) =>
    {name(m) : m \in Members(db, d)} = {Index(i) : i \in 0 .. db[d].n - 1}

\* A name is a value or a directory, never both, and lies in a directory that
\* exists: no operation leaves an orphan.
OneRecordPerName ==
  \A p \in DOMAIN db :
    /\ IsValue(p) => asDirectory(p) \notin DOMAIN db
    /\ parent(p) \in DOMAIN db

\* Forgetting the stored sizes, the cursor algorithms do to the tree exactly
\* what the abstract document says of each command, and a command that is
\* answered with a failure has changed nothing.
Abstract(f) == [p \in DOMAIN f |-> IF IsDirectory(p) THEN [f[p] EXCEPT !.n = 0] ELSE f[p]]
D == INSTANCE Document WITH doc <- Abstract(db)
ImplementsDocument == D!Spec

\* Within the rules of Proper, whatever is carried out keeps to the contract that
\* leaves the document sound: a cursor algorithm is never given a value or a
\* directory under a name of the other kind, nor a tree to be put into itself.
ContractKept == D!ClientsFit
=============================================================================
