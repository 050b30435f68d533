--------------------------- MODULE SharedDirectory ---------------------------
(***************************************************************************)
(* Workers of the daemon that change one directory at the same time.  A    *)
(* command of janosh.cpp is a series of requests to the database; each of  *)
(* them is atomic, the command is not: beginTransaction and endTransaction *)
(* do nothing.  Every request is a step here.  The commands are sent with  *)
(* triggers, so a change is announced on the feed before it is written.    *)
(***************************************************************************)
EXTENDS Integers, FiniteSets, Sequences

CONSTANTS Workers,       \* threads of the daemon that run commands
          MaxName,       \* bound: the largest member name or index
          Values,        \* the contents of values
          None,          \* no value
          MaxCommands,   \* bound: commands in one behaviour
          Width          \* stands for the 2^64 of size_t

ASSUME DirectoryAssumption ==
  /\ IsFiniteSet(Workers)
  /\ MaxName \in Nat
  /\ None \notin Values
  /\ MaxCommands \in Nat
  /\ Width \in Nat /\ 2 * (MaxName + 1) < Width   \* a name can hold a value and a directory

VARIABLES
  kind,        \* the type of the directory, "A" or "O"
  size,        \* the number its record carries
  value,       \* the value of each name
  dirs,        \* the names of directories in it
  announced,   \* the last announcement for the value of each name
  pc,          \* the request each worker sends next
  op, key, vals,   \* its command: operation, name, values still to write
  s,           \* the size it has read
  left,        \* commands that may still be issued
  issued,      \* history: "make" and "remove" commands there have been
  clean,       \* history: every size was written over the one it was made from
  mixed,       \* history: names whose announcements and writes overlapped
  crashed      \* history: the daemon has died with commands under way

Names == 0 .. MaxName    \* names are numbers, also those of an object

vars == <<kind, size, value, dirs, announced, pc, op, key, vals, s,
          left, issued, clean, mixed, crashed>>
stored == <<kind, size, value, dirs>>
command == <<op, key, vals>>
history == <<left, issued, clean, mixed, crashed>>

Elements == {k \in Names : value[k] # None}
Count == Cardinality(Elements) + Cardinality(dirs)
size_t(i) == i % Width

Init ==
  /\ kind \in {"A", "O"}
  /\ size = 0
  /\ value = [k \in Names |-> None]
  /\ dirs = {}
  /\ announced = [k \in Names |-> None]
  /\ pc = [w \in Workers |-> "idle"]
  /\ op = [w \in Workers |-> "none"]
  /\ key = [w \in Workers |-> 0]
  /\ vals = [w \in Workers |-> <<>>]
  /\ s = [w \in Workers |-> 0]
  /\ left = MaxCommands
  /\ issued = {}
  /\ clean = TRUE
  /\ mixed = {}
  /\ crashed = FALSE
-----------------------------------------------------------------------------
Goto(w, label) == pc' = [pc EXCEPT ![w] = label]

\* The command of w ends, with or without success; what it did stays.
End(w) ==
  /\ Goto(w, "idle")
  /\ op' = [op EXCEPT ![w] = "none"]
  /\ key' = [key EXCEPT ![w] = 0]
  /\ vals' = [vals EXCEPT ![w] = <<>>]
  /\ s' = [s EXCEPT ![w] = 0]

\* A request for w arrives.  make stands for mkarr and mkobj.
Start(w, o, k, vs) ==
  /\ pc[w] = "idle"
  /\ left > 0 /\ left' = left - 1
  /\ op' = [op EXCEPT ![w] = o]
  /\ key' = [key EXCEPT ![w] = k]
  /\ vals' = [vals EXCEPT ![w] = vs]
  /\ Goto(w, IF o \in {"set", "add"} THEN "bounds" ELSE "fetch")
  /\ issued' = issued \cup ({o} \cap {"make", "remove"})
  /\ UNCHANGED <<stored, announced, s, clean, mixed, crashed>>

StartSome(w) ==
  \/ \E o \in {"set", "add", "replace"}, k \in Names, v \in Values : Start(w, o, k, <<v>>)
  \/ \E k \in Names : Start(w, "make", k, <<>>)
  \/ kind = "O" /\ \E k \in Names : Start(w, "remove", k, <<>>)
  \/ kind = "A" /\ \E v \in Values : Start(w, "append", 0, <<v>>) \/ Start(w, "append", 0, <<v, v>>)

\* Slip: an index at or past the end is never refused.
BoundsUnchecked(w) ==
  /\ pc[w] = "bounds"
  /\ Goto(w, IF op[w] = "set" THEN "fetch" ELSE IF op[w] = "make" THEN "count" ELSE "announce")
  /\ UNCHANGED <<stored, announced, command, s, history>>

\* boundsCheck reads the size of the directory.
Bounds(w) ==
  /\ pc[w] = "bounds"
  /\ IF kind = "A" /\ key[w] > size
     THEN End(w)
     ELSE /\ Goto(w, IF op[w] = "set" THEN "fetch"
                     ELSE IF op[w] = "make" THEN "count" ELSE "announce")
          /\ UNCHANGED <<command, s>>
  /\ UNCHANGED <<stored, announced, history>>

\* set looks whether the record exists and goes on as replace or add; replace
\* and remove need it, makeArray and makeObject need the name to be free (two
\* requests, one for the directory and one for the value).
FetchRecord(w) ==
  LET there == value[key[w]] # None
      free == ~there /\ key[w] \notin dirs
  IN /\ pc[w] = "fetch"
     /\ \/ /\ op[w] = "set"
           /\ op' = [op EXCEPT ![w] = IF there THEN "replace" ELSE "add"]
           /\ Goto(w, "bounds")
           /\ UNCHANGED <<key, vals, s>>
        \/ /\ (op[w] = "replace" /\ there) \/ (op[w] = "make" /\ free)
           /\ Goto(w, "bounds")
           /\ UNCHANGED <<command, s>>
        \/ /\ op[w] = "remove" /\ there
           /\ Goto(w, "count")
           /\ UNCHANGED <<command, s>>
        \/ /\ (op[w] \in {"replace", "remove"} /\ ~there) \/ (op[w] = "make" /\ ~free)
           /\ End(w)
     /\ UNCHANGED <<stored, announced, history>>

\* append reads the size once; its first value goes there.  The values fit
\* the names of the model.
FetchArray(w) ==
  /\ pc[w] = "fetch" /\ op[w] = "append"
  /\ size + Len(vals[w]) - 1 \in Names
  /\ s' = [s EXCEPT ![w] = size]
  /\ key' = [key EXCEPT ![w] = size]
  /\ Goto(w, "announce")
  /\ UNCHANGED <<stored, announced, op, vals, history>>
-----------------------------------------------------------------------------
\* What the next write of w leaves under its name.
Outcome(w) == IF op[w] = "remove" THEN None ELSE Head(vals[w])

\* Names that another worker has announced and is about to write.
BeingWritten(w) ==
  {key[u] : u \in {u \in Workers \ {w} : pc[u] = "write" /\ op[u] # "make"}}

\* Slip: append announces every value under the first index.
AnnounceFirst(w) ==
  LET k == IF op[w] = "append" THEN s[w] ELSE key[w]
  IN /\ pc[w] = "announce"
     /\ announced' = [announced EXCEPT ![k] = Outcome(w)]
     /\ Goto(w, "write")
     /\ mixed' = mixed \cup ({key[w]} \cap BeingWritten(w))
     /\ UNCHANGED <<stored, command, s, left, issued, clean, crashed>>

\* announceOperation, before the write.
Announce(w) ==
  /\ pc[w] = "announce"
  /\ announced' = [announced EXCEPT ![key[w]] = Outcome(w)]
  /\ Goto(w, "write")
  /\ mixed' = mixed \cup ({key[w]} \cap BeingWritten(w))
  /\ UNCHANGED <<stored, command, s, left, issued, clean, crashed>>

\* w has changed the members or the size, and the other change is still to come.
Halfway(w) ==
  \/ op[w] = "add" /\ pc[w] \in {"count", "resize"}
  \/ op[w] = "append" /\ pc[w] \in {"announce", "write", "resize"} /\ key[w] > s[w]
  \/ op[w] = "remove" /\ pc[w] = "resize"
  \/ op[w] = "make" /\ pc[w] = "write"

\* The database refuses: add finds a record, replace or remove finds none.
WriteRefused(w) ==
  /\ pc[w] = "write" /\ op[w] # "make"
  /\ value[key[w]] = None <=> op[w] \in {"replace", "remove"}
  /\ mixed' = mixed \cup {key[w]}
  /\ clean' = (clean /\ ~Halfway(w))
  /\ End(w)
  /\ UNCHANGED <<stored, announced, left, issued, crashed>>

Put(w, v) == value' = [value EXCEPT ![key[w]] = v] /\ UNCHANGED <<kind, size, dirs>>

\* Slip: the record is written whether it exists or not.
AddAnyway(w) ==
  /\ pc[w] = "write" /\ op[w] = "add"
  /\ Put(w, Head(vals[w]))
  /\ Goto(w, "count")
  /\ UNCHANGED <<announced, command, s, history>>

\* DB add for the command add: the directory is counted up afterwards.
Add(w) ==
  /\ pc[w] = "write" /\ op[w] = "add"
  /\ value[key[w]] = None
  /\ Put(w, Head(vals[w]))
  /\ Goto(w, "count")
  /\ UNCHANGED <<announced, command, s, history>>

\* Slip: append writes over what another command has put there.
AppendOver(w) ==
  /\ pc[w] = "write" /\ op[w] = "append"
  /\ Put(w, Head(vals[w]))
  /\ key' = [key EXCEPT ![w] = @ + 1]
  /\ vals' = [vals EXCEPT ![w] = Tail(@)]
  /\ Goto(w, IF Len(vals[w]) = 1 THEN "resize" ELSE "announce")
  /\ UNCHANGED <<announced, op, s, history>>

\* DB add for the next value of append.
AppendValue(w) ==
  /\ pc[w] = "write" /\ op[w] = "append"
  /\ value[key[w]] = None
  /\ Put(w, Head(vals[w]))
  /\ key' = [key EXCEPT ![w] = @ + 1]
  /\ vals' = [vals EXCEPT ![w] = Tail(@)]
  /\ Goto(w, IF Len(vals[w]) = 1 THEN "resize" ELSE "announce")
  /\ UNCHANGED <<announced, op, s, history>>

Replace(w) ==
  /\ pc[w] = "write" /\ op[w] = "replace"
  /\ value[key[w]] # None
  /\ Put(w, Head(vals[w]))
  /\ End(w)
  /\ UNCHANGED <<announced, history>>

\* The record is removed; the size was read before.
Remove(w) ==
  /\ pc[w] = "write" /\ op[w] = "remove"
  /\ value[key[w]] # None
  /\ Put(w, None)
  /\ Goto(w, "resize")
  /\ UNCHANGED <<announced, command, s, history>>

\* makeArray and makeObject add the record last, when it is already counted;
\* one that exists by now is left alone.
Make(w) ==
  /\ pc[w] = "write" /\ op[w] = "make"
  /\ dirs' = dirs \cup {key[w]}
  /\ clean' = (clean /\ key[w] \notin dirs)
  /\ End(w)
  /\ UNCHANGED <<kind, size, value, announced, left, issued, mixed, crashed>>
-----------------------------------------------------------------------------
\* changeContainerSize reads the size; remove has read it before.
ReadSize(w) ==
  /\ pc[w] = "count"
  /\ s' = [s EXCEPT ![w] = size]
  /\ Goto(w, IF op[w] = "remove" THEN "announce" ELSE "resize")
  /\ UNCHANGED <<stored, announced, command, history>>

\* Slip: the count of removed records is subtracted without size_t's wrap.
NewSizeSigned(w) ==
  IF op[w] = "append" THEN key[w]
  ELSE IF op[w] = "remove" THEN s[w] - 1 ELSE s[w] + 1

\* The size w writes, made from the one it has read.
NewSize(w) ==
  size_t(IF op[w] = "append" THEN key[w]
         ELSE IF op[w] = "remove" THEN s[w] - 1 ELSE s[w] + 1)

\* setContainerSize writes it, whatever the size is by now.
WriteSize(w) ==
  /\ pc[w] = "resize"
  /\ size' = NewSize(w)
  /\ clean' = (clean /\ s[w] = size)
  /\ IF op[w] = "make" THEN Goto(w, "write") /\ UNCHANGED <<command, s>> ELSE End(w)
  /\ UNCHANGED <<kind, value, dirs, announced, left, issued, mixed, crashed>>

\* The daemon dies and is started again; the database lives on.  Once.
Crash ==
  /\ ~crashed /\ crashed' = TRUE
  /\ pc' = [w \in Workers |-> "idle"]
  /\ op' = [w \in Workers |-> "none"]
  /\ key' = [w \in Workers |-> 0]
  /\ vals' = [w \in Workers |-> <<>>]
  /\ s' = [w \in Workers |-> 0]
  /\ clean' = (clean /\ \A w \in Workers : ~Halfway(w))
  /\ mixed' = mixed \cup {key[w] : w \in {w \in Workers : pc[w] = "write" /\ op[w] # "make"}}
  /\ UNCHANGED <<stored, announced, left, issued>>

Step(w) ==
  \/ StartSome(w) \/ Bounds(w) \/ FetchRecord(w) \/ FetchArray(w)
  \/ Announce(w) \/ WriteRefused(w) \/ Add(w) \/ AppendValue(w)
  \/ Replace(w) \/ Remove(w) \/ Make(w) \/ ReadSize(w) \/ WriteSize(w)

Next == Crash \/ \E w \in Workers : Step(w)
Spec == Init /\ [][Next]_vars
-----------------------------------------------------------------------------
\* Type invariant: the size record, what each worker does and what it has read.
TypeOK ==
  /\ kind \in {"A", "O"}
  /\ size \in 0 .. Width - 1
  /\ value \in [Names -> Values \cup {None}]
  /\ announced \in [Names -> Values \cup {None}]
  /\ dirs \subseteq Names
  /\ pc \in [Workers -> {"idle", "bounds", "fetch", "announce", "write", "count", "resize"}]
  /\ op \in [Workers -> {"none", "set", "add", "replace", "append", "make", "remove"}]
  /\ key \in [Workers -> Nat]
  /\ vals \in [Workers -> Seq(Values)]
  /\ s \in [Workers -> 0 .. Width - 1]
  /\ left \in 0 .. MaxCommands
  /\ issued \subseteq {"make", "remove"}
  /\ clean \in BOOLEAN /\ crashed \in BOOLEAN
  /\ mixed \subseteq Names

\* Four things make a stored size wrong, and nothing else: a size written over
\* one that was not the one it was made from, a directory that was counted and
\* then found to exist, an append that is refused half way, and a crash half way.
ExactUnlessRaced ==
  clean /\ (\A w \in Workers : ~Halfway(w)) => size = Count

\* As long as nobody makes a directory or removes, a size is never larger than
\* the number of members, however the commands overlap, lose each other's
\* updates or die: the loops over "size" members stay within the directory.
SizeNeverAhead == issued = {} => size <= Count

\* A name below one that is taken is taken.
Dense == \A j, k \in Names : j < k /\ k \in Elements => j \in Elements

\* An array that set, add, replace and append share grows in turns, although
\* nothing locks it: the element at the end belongs to one command until that
\* has written the size.  So no update of the size is lost and there is no gap.
GrowsInTurns ==
  kind = "A" /\ issued = {} =>
    /\ Dense
    /\ \A u, w \in Workers : Halfway(u) /\ Halfway(w) => u = w
    /\ ~crashed => clean

\* An append of which one value is stored will store them all.
AppendsWhole ==
  \A w \in Workers : kind = "A" /\ issued = {} /\ op[w] = "append" /\ Halfway(w) =>
    \A k \in Names : k >= key[w] => value[k] = None

\* A crash half way freezes the array: with an element beyond the size nothing
\* is ever added to it again, every append fails and every set finds the element.
FrozenBehind ==
  [][kind = "A" /\ issued' = {} /\ size < Cardinality(Elements)
       /\ (\A w \in Workers : ~Halfway(w)) => UNCHANGED <<size, Elements>>]_vars

\* A subscriber that keeps the announced values has those of the store, unless
\* commands on the name overlapped or an announced write was refused.
FeedTellsStore ==
  \A k \in Names \ mixed :
    \/ announced[k] = value[k]
    \/ \E w \in Workers : pc[w] = "write" /\ op[w] # "make" /\ key[w] = k
=============================================================================
