----------------------- MODULE StoreRefinement_proofs -----------------------
(***************************************************************************)
(* Proof that the commands on single records do to the document, with the  *)
(* stored sizes forgotten, what Document says of them.                     *)
(***************************************************************************)
EXTENDS StoreRecords_proofs

-----------------------------------------------------------------------------
\* The operators that Document takes from DocumentPaths.
LEMMA SamePaths ==
  /\ \A p : /\ D!IsDirectory(p) = IsDirectory(p) /\ D!IsWildcard(p) = IsWildcard(p)
            /\ D!IsValue(p) = IsValue(p) /\ D!basePath(p) = basePath(p)
            /\ D!asDirectory(p) = asDirectory(p)
            /\ D!parent(p) = parent(p) /\ D!name(p) = name(p)
  /\ \A p, c : D!withChild(p, c) = withChild(p, c)
  /\ \A i : D!Index(i) = Index(i) /\ D!IndexOf(i) = IndexOf(i) /\ D!IsIndex(i) = IsIndex(i)
  /\ \A S : D!Cardinality(S) = Cardinality(S)
  /\ D!Root = Root
  <1>1. D!Dot = Dot /\ D!Root = Root
    BY DEF D!Dot, Dot, D!Root, Root
  <1>2. \A p : D!Last(p) = Last(p) /\ D!Front(p) = Front(p)
    BY DEF D!Last, Last, D!Front, Front
  <1>3. \A p : /\ D!IsDirectory(p) = IsDirectory(p) /\ D!IsWildcard(p) = IsWildcard(p)
    BY <1>1, <1>2 DEF D!IsDirectory, IsDirectory, D!IsWildcard, IsWildcard
  <1>4. \A p : D!IsValue(p) = IsValue(p) /\ D!basePath(p) = basePath(p)
    BY <1>2, <1>3 DEF D!IsValue, IsValue, D!basePath, basePath
  <1>5. \A p : D!asDirectory(p) = asDirectory(p)
    BY <1>1, <1>4 DEF D!asDirectory, asDirectory
  <1>6. \A p : D!parent(p) = parent(p) /\ D!name(p) = name(p)
    BY <1>1, <1>2, <1>3, <1>4, <1>5 DEF D!parent, parent, D!name, name
  <1>7. \A p, c : D!withChild(p, c) = withChild(p, c)
    BY <1>4 DEF D!withChild, withChild
  <1>8. \A i : D!Index(i) = Index(i) /\ D!IndexOf(i) = IndexOf(i) /\ D!IsIndex(i) = IsIndex(i)
    BY DEF D!Index, Index, D!IndexOf, IndexOf, D!IsIndex, IsIndex
  <1>9. \A S : D!Cardinality(S) = Cardinality(S)
    BY DEF D!Cardinality, Cardinality
  <1> QED BY <1>1, <1>3, <1>4, <1>5, <1>6, <1>7, <1>8, <1>9

\* The document has the paths, members and arrays of the database.
LEMMA SameNodes ==
  /\ DOMAIN Abstract(db) = DOMAIN db
  /\ \A d : D!Members(d) = Members(db, d)
  /\ Consistent(db) => \A p : D!IsArray(p) = isArray(db, p)
  <1>1. DOMAIN Abstract(db) = DOMAIN db
    BY DEF Abstract
  <1>2. \A d : D!Members(d) = Members(db, d)
    BY <1>1, SamePaths DEF D!Members, Members
  <1>3. ASSUME Consistent(db), NEW p \in DOMAIN db PROVE Abstract(db)[p].t = db[p].t
    <2>1. CASE IsDirectory(p)
      <3>1. db[p] \in [t : {"A", "O"}, n : Nat]
        BY <1>3, <2>1, OfPath, OfRoot DEF Consistent, Records
      <3> QED BY <2>1, <3>1 DEF Abstract
    <2>2. CASE ~IsDirectory(p)
      BY <2>2 DEF Abstract
    <2> QED BY <2>1, <2>2
  <1>4. ASSUME Consistent(db), NEW p PROVE D!IsArray(p) = isArray(db, p)
    BY <1>1, <1>3, <1>4 DEF D!IsArray, isArray
  <1> QED BY <1>1, <1>2, <1>4

\* What Document says of each command on single records.
LEMMA AcceptsOf ==
  ASSUME NEW c
  PROVE  /\ c.op = "set" => (D!Accepts(c) <=> D!InPlace(c.at))
         /\ c.op = "add" => (D!Accepts(c) <=> D!InPlace(c.at) /\ c.at \notin DOMAIN Abstract(db))
         /\ c.op = "replace" => (D!Accepts(c) <=> c.at \in DOMAIN Abstract(db))
         /\ c.op \in {"mkarr", "mkobj"} => (D!Accepts(c) <=> D!InPlace(c.at) /\ D!Free(c.at))
         /\ c.op = "remove" => (D!Accepts(c) <=> D!Home(c.at) \in DOMAIN Abstract(db))
         /\ c.op = "append" => (D!Accepts(c) <=> D!IsArray(c.at))
         /\ c.op = "copy" =>
              (D!Accepts(c) <=>
                 /\ D!Home(c.from) \in DOMAIN Abstract(db)
                 /\ IF D!IsWildcard(c.from)
                    THEN c.at \in DOMAIN Abstract(db) /\ D!Members(D!Home(c.from)) # {}
                    ELSE D!InPlace(c.at) /\ D!Free(c.at) /\ D!IsDirectory(c.from) = D!IsDirectory(c.at))
         /\ c.op = "move" =>
              (D!Accepts(c) <=>
                 /\ c.from \in DOMAIN Abstract(db)
                 /\ IF D!IsDirectory(c.from) THEN D!InPlace(c.at) /\ D!Free(c.at)
                                              ELSE c.at \in DOMAIN Abstract(db))
         /\ c.op = "shift" => (D!Accepts(c) => {c.from, c.at} \subseteq DOMAIN Abstract(db))
         /\ c.op \in {"load", "truncate"} => D!Accepts(c)
  BY DEF D!Accepts

\* And what each of them makes of the document.
LEMMA EffectOf ==
  ASSUME NEW c
  PROVE  /\ c.op \in {"set", "add", "replace"}
              => D!Effect(c) = D!Put(Abstract(db), c.at, [t |-> "s", n |-> c.value])
         /\ c.op = "mkarr" => D!Effect(c) = D!Put(Abstract(db), c.at, D!Node("A"))
         /\ c.op = "mkobj" => D!Effect(c) = D!Put(Abstract(db), c.at, D!Node("O"))
         /\ c.op = "remove" => D!Effect(c) = D!Removed(Abstract(db), c.at)
         /\ c.op = "append" =>
              D!Effect(c) =
                LET n == D!Cardinality(D!Members(c.at))
                    New == {D!withChild(c.at, D!Index(n + i - 1)) : i \in DOMAIN c.values}
                IN [k \in DOMAIN Abstract(db) \cup New |->
                      IF k \in DOMAIN Abstract(db) THEN Abstract(db)[k]
                      ELSE [t |-> "s", n |-> c.values[D!IndexOf(D!name(k)) - n + 1]]]
         /\ c.op = "copy" =>
              D!Effect(c) = IF D!IsWildcard(c.from) THEN D!CopiedMembers(D!Home(c.from), c.at)
                                                    ELSE D!Copied(c.from, c.at)
         /\ c.op = "move" =>
              D!Effect(c) =
                D!Removed(IF D!IsDirectory(c.from) THEN D!Copied(c.from, c.at)
                          ELSE D!Put(Abstract(db), c.at, Abstract(db)[c.from]), c.from)
         /\ c.op = "load" =>
              D!Effect(c) =
                [p \in DOMAIN c.text |-> IF D!IsDirectory(p) THEN D!Node(c.text[p].t) ELSE c.text[p]]
         /\ c.op = "truncate" => D!Effect(c) = [k \in {D!Root} |-> D!Node("O")]
  BY DEF D!Effect

\* The document keeps a record as it is, but for the size of a directory.
LEMMA Forgotten ==
  ASSUME NEW f, Records(f), NEW p \in DOMAIN f
  PROVE  Abstract(f)[p] = IF IsDirectory(p) THEN [t |-> f[p].t, n |-> 0] ELSE f[p]
  <1>1. CASE IsDirectory(p)
    <2>1. f[p] \in [t : {"A", "O"}, n : Nat]
      BY <1>1, OfPath, OfRoot DEF Records
    <2>2. [f[p] EXCEPT !.n = 0] = [t |-> f[p].t, n |-> 0]
      BY <2>1
    <2> QED BY <1>1, <2>2 DEF Abstract
  <1>2. CASE ~IsDirectory(p)
    BY <1>2 DEF Abstract
  <1> QED BY <1>1, <1>2

\* A step that changes one record, and the sizes of others, puts that record.
LEMMA IsPut ==
  ASSUME NEW f, Records(f), NEW g, Records(g), NEW p, DOMAIN g = DOMAIN f \cup {p},
         IsDirectory(p) => g[p].n = 0,
         \A q \in DOMAIN f \ {p} : IF IsDirectory(q) THEN g[q].t = f[q].t ELSE g[q] = f[q]
  PROVE  Abstract(g) = D!Put(Abstract(f), p, g[p])
  <1>1. DOMAIN Abstract(g) = DOMAIN g /\ DOMAIN Abstract(f) = DOMAIN f
    BY DEF Abstract
  <1>2. ASSUME NEW q \in DOMAIN g PROVE Abstract(g)[q] = D!Put(Abstract(f), p, g[p])[q]
    <2>1. CASE q = p
      <3>1. IsDirectory(p) => g[p] = [t |-> g[p].t, n |-> 0]
        BY <2>1, OfPath, OfRoot DEF Records
      <3> QED BY <1>1, <2>1, <3>1, Forgotten DEF D!Put
    <2>2. CASE q # p
      <3>1. q \in DOMAIN f \ {p} /\ D!Put(Abstract(f), p, g[p])[q] = Abstract(f)[q]
        BY <1>1, <2>2 DEF D!Put
      <3>2. Abstract(g)[q] = IF IsDirectory(q) THEN [t |-> g[q].t, n |-> 0] ELSE g[q]
        BY Forgotten
      <3>3. Abstract(f)[q] = IF IsDirectory(q) THEN [t |-> f[q].t, n |-> 0] ELSE f[q]
        BY <3>1, Forgotten
      <3> QED BY <3>1, <3>2, <3>3
    <2> QED BY <2>1, <2>2
  <1>3. DOMAIN D!Put(Abstract(f), p, g[p]) = DOMAIN g
    BY <1>1 DEF D!Put
  <1> QED BY <1>1, <1>2, <1>3 DEF Abstract, D!Put

\* A command answered as Document has it is a step of Document.
LEMMA AsPromised ==
  ASSUME NEW c \in Commands, NEW o, NEW ok \in BOOLEAN, Answer(c, o, ok),
         ok <=> D!Accepts(c), Abstract(o.db) = IF ok THEN D!Effect(c) ELSE Abstract(db)
  PROVE  D!Next
  <1>1. db' = o.db /\ reply' = [c |-> c, ok |-> ok] /\ reply'.c = c
    BY DEF Answer
  <1>2. (Abstract(db))' = Abstract(o.db)
    BY <1>1 DEF Abstract
  <1>3. D!Execute(c) \/ D!Refuse(c)
    <2>1. CASE ok
      BY <1>1, <1>2, <2>1 DEF D!Execute
    <2>2. CASE ~ok
      BY <1>1, <1>2, <2>2 DEF D!Refuse
    <2> QED BY <2>1, <2>2
  <1> QED BY <1>1, <1>3 DEF D!Next

\* The same for the commands that report the number of records they wrote,
LEMMA CountedAsPromised ==
  ASSUME NEW c \in Commands, NEW o, Counted(c, o),
         o.n # 0 <=> D!Accepts(c), o.n # 0 => Abstract(o.db) = D!Effect(c), o.n = 0 => o.db = db
  PROVE  D!Next
  <1> DEFINE ok == o.n # 0
  <1>1. ok \in BOOLEAN /\ Answer(c, o, ok)
    BY DEF Counted
  <1>2. (ok <=> D!Accepts(c)) /\ Abstract(o.db) = IF ok THEN D!Effect(c) ELSE Abstract(db)
    OBVIOUS
  <1> HIDE DEF ok
  <1> QED BY <1>1, <1>2, AsPromised

\* and for those that fail only by a throw.
LEMMA DoneAsPromised ==
  ASSUME NEW c \in Commands, NEW o, Done(c, o),
         \/ o.ok = TRUE /\ D!Accepts(c) /\ Abstract(o.db) = D!Effect(c)
         \/ o.ok = FALSE /\ ~D!Accepts(c) /\ o.db = db
  PROVE  D!Next
  <1>1. CASE o.ok = TRUE /\ D!Accepts(c) /\ Abstract(o.db) = D!Effect(c)
    <2>1. Answer(c, o, TRUE)
      BY <1>1 DEF Done
    <2> QED BY <1>1, <2>1, AsPromised
  <1>2. CASE o.ok = FALSE /\ ~D!Accepts(c) /\ o.db = db
    <2>1. Answer(c, o, FALSE)
      BY <1>2 DEF Done
    <2> QED BY <1>2, <2>1, AsPromised
  <1> QED BY <1>1, <1>2

\* The size kept by hand and the number of members say the same of a path.
LEMMA InBounds ==
  ASSUME Consistent(db), NEW p \in Paths, InElements(db, p)
  PROVE  D!InPlace(p) <=> parent(p) \in DOMAIN db /\ boundsCheck(db, p)
  <1>1. parent(p) = Root => ~isArray(db, parent(p))
    BY DEF Consistent, Records, isArray
  <1>2. isArray(db, parent(p)) => db[parent(p)].n = Cardinality(Members(db, parent(p)))
    BY OfPath, OfRoot DEF isArray, Consistent, Records, Sized
  <1>3. isArray(db, parent(p)) =>
          (Parses(name(p)) <=> IsIndex(name(p))) /\ parseIndex(name(p)) = IndexOf(name(p))
    BY DEF InElements, Parses, parseIndex
  <1>4. D!InPlace(p) <=>
          /\ parent(p) \in DOMAIN db
          /\ isArray(db, parent(p)) =>
               IsIndex(name(p)) /\ IndexOf(name(p)) <= Cardinality(Members(db, parent(p)))
    BY SamePaths, SameNodes DEF D!InPlace
  <1> QED BY <1>1, <1>2, <1>3, <1>4 DEF boundsCheck

\* A record that exists is in bounds.
LEMMA Inside ==
  ASSUME NEW f, Consistent(f), NEW p \in Paths, p \in DOMAIN f, InElements(f, p)
  PROVE  boundsCheck(f, p)
  <1> SUFFICES ASSUME isArray(f, parent(p))
               PROVE  Parses(name(p)) /\ parseIndex(name(p)) <= f[parent(p)].n
    BY DEF boundsCheck
  <1>1. parent(p) \in DOMAIN f /\ f[parent(p)].t = "A" /\ p \in Members(f, parent(p))
    BY OfPath DEF isArray, Members
  <1>2. f[parent(p)].n \in 0 .. MaxRecords
    <2>1. ~IsValue(parent(p)) /\ IsDirectory(parent(p))
      BY <1>1, OfPath, OfRoot DEF Consistent, Records
    <2>2. f[parent(p)].n = Cardinality(Members(f, parent(p))) /\ f[parent(p)].n \in Nat
      BY <1>1, <2>1 DEF Consistent, Records, Sized
    <2> QED BY <1>1, <2>2, FewMembers, StoreAssumption DEF Consistent, Records
  <1>3. PICK i \in 0 .. f[parent(p)].n - 1 : name(p) = Index(i)
    BY <1>1 DEF Consistent, Dense
  <1>4. IsIndex(name(p)) /\ IndexOf(name(p)) <= f[parent(p)].n
    BY <1>2, <1>3, StoreAssumption DEF IsIndex, IndexOf, Index
  <1> QED BY <1>4 DEF Parses, parseIndex, InElements
-----------------------------------------------------------------------------
\* What set leaves when it is out of bounds, replaces, or adds.
LEMMA SetResult ==
  ASSUME NEW f, NEW p \in Bases, NewRecord(f, p), NEW v
  PROVE  LET o == set(f, p, v)
         IN /\ ~boundsCheck(f, p) => o.db = f /\ o.n = 0
            /\ boundsCheck(f, p) =>
                 /\ o.n = 1 /\ DOMAIN o.db = DOMAIN f \cup {p} /\ o.db[p] = v
                 /\ p \in DOMAIN f => o.db = [f EXCEPT ![p] = v]
                 /\ p \notin DOMAIN f =>
                      /\ parent(p) \in DOMAIN f /\ parent(p) # p
                      /\ o.db[parent(p)] = [f[parent(p)] EXCEPT !.n = size_t(f[parent(p)].n + 1)]
                      /\ \A q \in DOMAIN f \ {parent(p)} : o.db[q] = f[q]
  <1>1. parent(p) # p
    BY OfBase, OfPath DEF Paths
  <1>2. CASE ~boundsCheck(f, p)
    BY <1>2 DEF set, Threw
  <1>3. CASE boundsCheck(f, p) /\ p \in DOMAIN f
    BY <1>3 DEF set, replace, Returned
  <1>4. CASE boundsCheck(f, p) /\ p \notin DOMAIN f
    <2>1. parent(p) \in DOMAIN f
      BY <1>4 DEF NewRecord
    <2>2. set(f, p, v) = Returned(setContainerSize(With(f, p, v), parent(p), f[parent(p)].n + 1), 1)
      BY <1>1, <1>4, <2>1 DEF set, add, changeContainerSize, With
    <2> QED BY <1>1, <1>4, <2>1, <2>2 DEF Returned, setContainerSize, With
  <1> QED BY <1>2, <1>3, <1>4

\* The step of set, of a copied value and of a value added, on the document.
LEMMA SetPuts ==
  ASSUME Consistent(db), NEW p \in Bases, NewRecord(db, p), InElements(db, p),
         NEW v \in [t : {"s"}, n : Content], NEW o, o = set(db, p, v), Consistent(o.db)
  PROVE  IF D!InPlace(p) THEN o.n = 1 /\ Abstract(o.db) = D!Put(Abstract(db), p, v)
                         ELSE o.n = 0 /\ o.db = db
  <1>1. p \in Paths /\ ~IsDirectory(p) /\ parent(p) \in DOMAIN db /\ IsDirectory(parent(p))
    BY OfBase, OfPath, OfRoot DEF Paths, NewRecord, Consistent, Tree, Records
  <1>2. D!InPlace(p) <=> boundsCheck(db, p)
    BY <1>1, InBounds
  <1>3. /\ ~boundsCheck(db, p) => o.db = db /\ o.n = 0
        /\ boundsCheck(db, p) =>
             /\ o.n = 1 /\ DOMAIN o.db = DOMAIN db \cup {p} /\ o.db[p] = v
             /\ p \in DOMAIN db => o.db = [db EXCEPT ![p] = v]
             /\ p \notin DOMAIN db =>
                  /\ o.db[parent(p)] = [db[parent(p)] EXCEPT !.n = size_t(db[parent(p)].n + 1)]
                  /\ \A q \in DOMAIN db \ {parent(p)} : o.db[q] = db[q]
    BY SetResult
  <1>4. CASE ~boundsCheck(db, p)
    BY <1>2, <1>4, <1>3
  <1>5. CASE boundsCheck(db, p)
    <2>1. o.n = 1 /\ DOMAIN o.db = DOMAIN db \cup {p} /\ o.db[p] = v
      BY <1>5, <1>3
    <2>2. \A q \in DOMAIN db \ {p} : IF IsDirectory(q) THEN o.db[q].t = db[q].t ELSE o.db[q] = db[q]
      <3>1. CASE p \in DOMAIN db
        <4>1. o.db = [db EXCEPT ![p] = v]
          BY <1>5, <1>3, <3>1
        <4> QED BY <4>1
      <3>2. CASE p \notin DOMAIN db
        <4>1. /\ o.db[parent(p)] = [db[parent(p)] EXCEPT !.n = size_t(db[parent(p)].n + 1)]
              /\ \A q \in DOMAIN db \ {parent(p)} : o.db[q] = db[q]
          BY <1>5, <1>3, <3>2
        <4>2. db[parent(p)] \in [t : {"A", "O"}, n : Nat]
          BY <1>1, OfPath, OfRoot DEF Consistent, Records
        <4>3. o.db[parent(p)].t = db[parent(p)].t
          BY <4>1, <4>2
        <4> QED BY <1>1, <4>1, <4>3
      <3> QED BY <3>1, <3>2
    <2>3. Abstract(o.db) = D!Put(Abstract(db), p, v)
      BY <1>1, <2>1, <2>2, IsPut DEF Consistent
    <2> QED BY <1>2, <1>5, <2>1, <2>3
  <1> QED BY <1>4, <1>5
-----------------------------------------------------------------------------
\* The commands, one lemma each: set.
LEMMA SetDocument ==
  ASSUME Careful, Consistent(db), NEW c \in Commands, SetCommand(c)
  PROVE  D!Next
  <1> DEFINE v == [t |-> "s", n |-> c.value]
             o == set(db, c.at, v)
  <1>1. Counted(c, o) /\ c.op = "set"
    BY DEF SetCommand, Content_
  <1>2. c.at \in Bases /\ v \in [t : {"s"}, n : Content]
    BY <1>1, OfCommand
  <1> HIDE DEF v
  <1>3. db' = o.db /\ InElements(db, c.at) /\ NewRecord(db, c.at)
    BY <1>1, OfAnswer DEF Counted, Proper
  <1>4. Consistent(o.db)
    BY <1>3, StepConsistent DEF NextRecord
  <1> HIDE DEF o
  <1>5. IF D!InPlace(c.at) THEN o.n = 1 /\ Abstract(o.db) = D!Put(Abstract(db), c.at, v)
                           ELSE o.n = 0 /\ o.db = db
    BY <1>2, <1>3, <1>4, SetPuts DEF o
  <1>6. (D!Accepts(c) <=> D!InPlace(c.at)) /\ D!Effect(c) = D!Put(Abstract(db), c.at, v)
    BY <1>1, AcceptsOf, EffectOf DEF v
  <1> QED BY <1>1, <1>5, <1>6, CountedAsPromised

\* add: refused for a path that has a record.
LEMMA AddDocument ==
  ASSUME Careful, Consistent(db), NEW c \in Commands, AddCommand(c)
  PROVE  D!Next
  <1> DEFINE v == [t |-> "s", n |-> c.value]
             o == add(db, c.at, v)
  <1>1. Counted(c, o) /\ c.op = "add"
    BY DEF AddCommand, Content_
  <1>2. c.at \in Bases /\ v \in [t : {"s"}, n : Content]
    BY <1>1, OfCommand
  <1> HIDE DEF v
  <1>3. db' = o.db /\ InElements(db, c.at) /\ NewRecord(db, c.at)
    BY <1>1, OfAnswer DEF Counted, Proper
  <1>4. Consistent(o.db)
    BY <1>3, StepConsistent DEF NextRecord
  <1>5. D!Effect(c) = D!Put(Abstract(db), c.at, v)
    BY <1>1, EffectOf DEF v
  <1>6. D!Accepts(c) <=> D!InPlace(c.at) /\ c.at \notin DOMAIN db
    BY <1>1, AcceptsOf, SameNodes
  <1>7. CASE c.at \in DOMAIN db
    <2>1. o.db = db /\ o.n = 0
      BY <1>7 DEF add, Returned, Threw
    <2> QED BY <1>1, <1>6, <1>7, <2>1, CountedAsPromised
  <1>8. CASE c.at \notin DOMAIN db
    <2>1. o = set(db, c.at, v)
      BY <1>8 DEF set, add
    <2> HIDE DEF o
    <2>2. IF D!InPlace(c.at) THEN o.n = 1 /\ Abstract(o.db) = D!Put(Abstract(db), c.at, v)
                             ELSE o.n = 0 /\ o.db = db
      BY <1>2, <1>3, <1>4, <2>1, SetPuts
    <2> QED BY <1>1, <1>5, <1>6, <1>8, <2>2, CountedAsPromised DEF o
  <1> QED BY <1>7, <1>8

\* replace: a record that exists is in bounds.
LEMMA ReplaceDocument ==
  ASSUME Careful, Consistent(db), NEW c \in Commands, ReplaceCommand(c)
  PROVE  D!Next
  <1> DEFINE v == [t |-> "s", n |-> c.value]
             o == replace(db, c.at, v)
  <1>1. Counted(c, o) /\ c.op = "replace"
    BY DEF ReplaceCommand, Content_
  <1>2. c.at \in Bases /\ c.at \in Paths /\ v \in [t : {"s"}, n : Content]
    BY <1>1, OfCommand DEF Paths
  <1> HIDE DEF v
  <1>3. db' = o.db /\ InElements(db, c.at)
    BY <1>1, OfAnswer DEF Counted, Proper
  <1>4. D!Effect(c) = D!Put(Abstract(db), c.at, v) /\ (D!Accepts(c) <=> c.at \in DOMAIN db)
    BY <1>1, AcceptsOf, EffectOf, SameNodes DEF v
  <1>5. CASE c.at \in DOMAIN db
    <2>1. boundsCheck(db, c.at)
      BY <1>2, <1>3, <1>5, Inside
    <2>2. o.db = [db EXCEPT ![c.at] = v] /\ o.n = 1
      BY <1>5, <2>1 DEF replace, Returned
    <2>3. Consistent(o.db) /\ ~IsDirectory(c.at)
      BY <1>2, <1>5, <2>2, OfBase, Overwritten
    <2>4. Abstract(o.db) = D!Put(Abstract(db), c.at, v)
      BY <1>5, <2>2, <2>3, IsPut DEF Consistent
    <2> QED BY <1>1, <1>4, <1>5, <2>2, <2>4, CountedAsPromised
  <1>6. CASE c.at \notin DOMAIN db
    <2>1. o.db = db /\ o.n = 0
      BY <1>6 DEF replace, Threw
    <2> QED BY <1>1, <1>4, <1>6, <2>1, CountedAsPromised
  <1> QED BY <1>5, <1>6

\* mkarr and mkobj: refused for a name that has a record of either kind.
LEMMA MakeDocument ==
  ASSUME Careful, Consistent(db), NEW c \in Commands, MakeArrayCommand(c) \/ MakeObjectCommand(c)
  PROVE  D!Next
  <1>1. PICK kind \in {"A", "O"} :
          /\ c.op = IF kind = "A" THEN "mkarr" ELSE "mkobj"
          /\ LET o == makeDirectory(db, c.at, kind) IN Counted(c, o)
    BY DEF MakeArrayCommand, MakeObjectCommand
  <1> DEFINE o == makeDirectory(db, c.at, kind)
             v == [t |-> kind, n |-> 0]
             p == c.at
             d == parent(p)
  <1>2. p \in Directories
    BY <1>1, OfCommand
  <1>3. db' = o.db /\ InElements(db, p)
    BY <1>1, OfAnswer DEF Counted, Proper
  <1>4. Consistent(o.db)
    BY <1>3, StepConsistent DEF NextRecord
  <1>5. D!Effect(c) = D!Put(Abstract(db), p, v) /\ (D!Accepts(c) <=> D!InPlace(p) /\ D!Free(p))
    BY <1>1, AcceptsOf, EffectOf DEF D!Node
  <1>6. CASE p = Root
    <2>1. p \in DOMAIN db /\ ~D!Free(p)
      BY <1>6, OfRoot, SamePaths, SameNodes DEF Consistent, Records, D!Free
    <2>2. o.db = db /\ o.n = 0
      BY <2>1 DEF makeDirectory, Threw
    <2> QED BY <1>1, <1>5, <2>1, <2>2, CountedAsPromised
  <1>7. CASE p # Root
    <2>1. p \in Paths /\ IsDirectory(p) /\ asDirectory(p) = p /\ d # p
      <3>1. PICK b \in Bases : p = asDirectory(b)
        BY <1>2, <1>7 DEF Directories
      <3>2. p \in Paths
        BY <3>1 DEF Paths
      <3> QED BY <3>1, <3>2, OfDirectory, OfPath
    <2>2. D!Free(p) <=> basePath(p) \notin DOMAIN db /\ p \notin DOMAIN db
      BY <2>1, SamePaths, SameNodes DEF D!Free
    <2>3. D!InPlace(p) <=> d \in DOMAIN db /\ boundsCheck(db, p)
      BY <1>3, <2>1, InBounds
    <2>4. CASE ~(D!InPlace(p) /\ D!Free(p))
      <3>1. o.db = db /\ o.n = 0
        BY <2>2, <2>3, <2>4 DEF makeDirectory, changeContainerSize, Then, Threw
      <3> QED BY <1>1, <1>5, <2>4, <3>1, CountedAsPromised
    <2>5. CASE D!InPlace(p) /\ D!Free(p)
      <3>1. o = Returned(With(setContainerSize(db, d, db[d].n + 1), p, v), 1)
        BY <2>2, <2>3, <2>5 DEF makeDirectory, changeContainerSize, Then, Returned
      <3>2. /\ o.n = 1 /\ DOMAIN o.db = DOMAIN db \cup {p} /\ o.db[p] = v
            /\ o.db[d] = [db[d] EXCEPT !.n = size_t(db[d].n + 1)]
            /\ \A q \in DOMAIN db \ {d, p} : o.db[q] = db[q]
        BY <2>1, <2>3, <2>5, <3>1 DEF Returned, setContainerSize, With
      <3>3. IsDirectory(d) /\ db[d] \in [t : {"A", "O"}, n : Nat]
        BY <2>1, <2>3, <2>5, OfPath, OfRoot DEF Consistent, Records
      <3>4. o.db[d].t = db[d].t
        BY <3>2, <3>3
      <3> HIDE DEF o
      <3>5. Abstract(o.db) = D!Put(Abstract(db), p, v)
        BY <1>4, <2>1, <3>2, <3>3, <3>4, IsPut DEF Consistent
      <3> QED BY <1>1, <1>5, <2>5, <3>2, <3>5, CountedAsPromised DEF o
    <2> QED BY <2>4, <2>5
  <1> QED BY <1>6, <1>7
-----------------------------------------------------------------------------
\* A value that lies in no array is removed by itself.
LEMMA RemovedValue ==
  ASSUME Consistent(db), NEW p, IsValue(p), ~isArray(db, parent(p)), NEW f
  PROVE  D!Removed(f, p) = Without(f, p)
  <1>1. ~D!IsWildcard(p) /\ ~D!IsDirectory(p) /\ ~D!IsArray(D!parent(p))
    BY SamePaths, SameNodes DEF IsValue
  <1>2. D!Subtree(p) = {p}
    BY <1>1 DEF D!Subtree
  <1> QED BY <1>1, <1>2 DEF D!Removed, D!Restrict, Without

\* A step that takes one record away, and changes sizes, removes that record.
LEMMA IsRemoval ==
  ASSUME NEW f, Records(f), NEW g, Records(g), NEW p, DOMAIN g = DOMAIN f \ {p},
         \A q \in DOMAIN g : IF IsDirectory(q) THEN g[q].t = f[q].t ELSE g[q] = f[q]
  PROVE  Abstract(g) = Without(Abstract(f), p)
  <1>1. DOMAIN Abstract(g) = DOMAIN g /\ DOMAIN Abstract(f) = DOMAIN f
    BY DEF Abstract
  <1>2. ASSUME NEW q \in DOMAIN g PROVE Abstract(g)[q] = Abstract(f)[q]
    <2>1. Abstract(g)[q] = IF IsDirectory(q) THEN [t |-> g[q].t, n |-> 0] ELSE g[q]
      BY Forgotten
    <2>2. Abstract(f)[q] = IF IsDirectory(q) THEN [t |-> f[q].t, n |-> 0] ELSE f[q]
      BY Forgotten
    <2> QED BY <2>1, <2>2
  <1>3. Abstract(g) = [q \in DOMAIN g |-> Abstract(g)[q]]
    BY DEF Abstract
  <1> QED BY <1>1, <1>2, <1>3 DEF Without

\* What remove of a value leaves.
LEMMA RemoveResult ==
  ASSUME NEW f, Consistent(f), NEW p \in DOMAIN f, IsValue(p), ~isArray(f, parent(p)), f[p].n # 0
  PROVE  LET o == removeValue(f, p)
         IN /\ o.ok = TRUE /\ DOMAIN o.db = DOMAIN f \ {p}
            /\ \A q \in DOMAIN f \ {p} : IF IsDirectory(q) THEN o.db[q].t = f[q].t ELSE o.db[q] = f[q]
  <1> DEFINE d == parent(p)
             g == setContainerSize(Without(f, p), d, f[d].n - 1)
  <1>1. ~IsDirectory(p) /\ d \in DOMAIN f /\ d # p /\ IsDirectory(d) /\ f[d] \in [t : {"A", "O"}, n : Nat]
    BY OfPath, OfRoot DEF Consistent, Records, Tree
  <1>2. removeValue(f, p) = Returned(g, 1)
    BY <1>1 DEF removeValue, Uncount, Returned
  <1>3. /\ DOMAIN g = DOMAIN f \ {p} /\ g[d] = [f[d] EXCEPT !.n = size_t(f[d].n - 1)]
        /\ \A q \in DOMAIN f \ {p, d} : g[q] = f[q]
    BY <1>1 DEF setContainerSize, Without
  <1>4. g[d].t = f[d].t
    BY <1>1, <1>3
  <1> HIDE DEF g, d
  <1> QED BY <1>1, <1>2, <1>3, <1>4 DEF Returned

\* remove of a value.
LEMMA RemoveDocument ==
  ASSUME Careful, Consistent(db), NEW c \in Commands, RemoveValueCommand(c)
  PROVE  D!Next
  <1> DEFINE p == c.at
             o == removeValue(db, p)
  <1>1. Done(c, o) /\ c.op = "remove" /\ IsValue(p) /\ ~isArray(db, parent(p))
    BY DEF RemoveValueCommand, OfObject
  <1>2. db' = o.db /\ (p \in DOMAIN db => db[p].n # 0)
    BY <1>1, OfAnswer DEF Done, Proper, Removable
  <1>3. Consistent(o.db)
    BY <1>2, StepConsistent DEF NextRecord
  <1>4. D!Effect(c) = D!Removed(Abstract(db), p)
    BY <1>1, EffectOf
  <1>5. D!Accepts(c) <=> p \in DOMAIN db
    <2>1. D!Home(p) = p
      BY <1>1, SamePaths DEF D!Home, IsValue
    <2> QED BY <1>1, <2>1, AcceptsOf, SameNodes
  <1>6. CASE p \notin DOMAIN db
    <2>1. o.db = db /\ o.ok = FALSE
      BY <1>6 DEF removeValue, Threw
    <2> QED BY <1>1, <1>5, <1>6, <2>1, DoneAsPromised
  <1>7. CASE p \in DOMAIN db
    <2>1. /\ o.ok = TRUE /\ DOMAIN o.db = DOMAIN db \ {p}
          /\ \A q \in DOMAIN db \ {p} : IF IsDirectory(q) THEN o.db[q].t = db[q].t ELSE o.db[q] = db[q]
      BY <1>1, <1>2, <1>7, RemoveResult
    <2> HIDE DEF o
    <2>2. Abstract(o.db) = Without(Abstract(db), p)
      <3>1. Records(db) /\ Records(o.db)
        BY <1>3 DEF Consistent
      <3>2. \A q \in DOMAIN o.db : IF IsDirectory(q) THEN o.db[q].t = db[q].t ELSE o.db[q] = db[q]
        BY <2>1
      <3> QED BY <2>1, <3>1, <3>2, IsRemoval
    <2>3. Abstract(o.db) = D!Effect(c)
      <3>1. D!Removed(Abstract(db), p) = Without(Abstract(db), p)
        BY <1>1, RemovedValue
      <3> QED BY <1>4, <2>2, <3>1
    <2> QED BY <1>1, <1>5, <1>7, <2>1, <2>3, DoneAsPromised
  <1> QED BY <1>6, <1>7

\* copy of a value: refused for a destination that exists.
LEMMA CopyDocument ==
  ASSUME Careful, Consistent(db), NEW c \in Commands, CopyValueCommand(c)
  PROVE  D!Next
  <1> DEFINE s == c.from
             p == c.at
             v == db[s]
             o == copyValue(db, s, p)
  <1>1. Counted(c, o) /\ c.op = "copy" /\ exists(db, s) /\ IsValue(s) /\ IsValue(p)
    BY DEF CopyValueCommand
  <1>2. s \in DOMAIN db /\ p \in Bases /\ p \in Paths /\ s \in Bases
    BY <1>1, OfCommand, OfValue DEF exists, Paths
  <1>3. db' = o.db /\ InElements(db, p) /\ NewRecord(db, p)
    BY <1>1, OfAnswer DEF Counted, Proper, CopyProper
  <1>4. Consistent(o.db) /\ v \in [t : {"s"}, n : Content]
    BY <1>1, <1>2, <1>3, StepConsistent DEF NextRecord, Consistent, Records
  <1>5. /\ D!IsDirectory(s) = FALSE /\ D!IsDirectory(p) = FALSE /\ D!IsWildcard(s) = FALSE
        /\ D!Home(s) = s /\ D!basePath(p) = p /\ D!basePath(s) = s /\ D!asDirectory(p) = asDirectory(p)
    BY <1>1, SamePaths DEF D!Home, IsValue, basePath
  <1>6. D!Accepts(c) <=> D!InPlace(p) /\ p \notin DOMAIN db
    <2>1. D!Free(p) <=> p \notin DOMAIN db /\ asDirectory(p) \notin DOMAIN db
      BY <1>5, SameNodes DEF D!Free
    <2>2. D!Free(p) <=> p \notin DOMAIN db
      BY <1>3, <2>1 DEF NewRecord, Consistent, Tree
    <2> QED BY <1>1, <1>2, <1>5, <2>2, AcceptsOf, SameNodes
  <1>7. ASSUME p \notin DOMAIN db PROVE D!Effect(c) = D!Put(Abstract(db), p, v)
    <2>1. D!Rebased(s, s, p) = p /\ D!Rebased(p, p, s) = s
      <3>1. \A x \in Bases : x \in Seq(Nat) /\ SubSeq(x, Len(x) + 1, Len(x)) = <<>> /\ x \o <<>> = x
        BY StoreAssumption, ConcatEmptySeq
      <3>2. D!Rebased(s, s, p) = p \o SubSeq(s, Len(s) + 1, Len(s))
        BY <1>5 DEF D!Rebased
      <3>3. D!Rebased(p, p, s) = s \o SubSeq(p, Len(p) + 1, Len(p))
        BY <1>5 DEF D!Rebased
      <3> QED BY <1>2, <3>1, <3>2, <3>3
    <2>2. D!Subtree(s) = {s}
      BY <1>5 DEF D!Subtree
    <2>3. D!Effect(c) = D!Copied(s, p)
      BY <1>1, <1>5, EffectOf
    <2>4. Abstract(db)[s] = v
      BY <1>1, <1>2, Forgotten, OfBase DEF Consistent
    <2>5. DOMAIN Abstract(db) = DOMAIN db
      BY SameNodes
    <2>6. D!Copied(s, p) = [k \in DOMAIN db \cup {p} |->
                              IF k \in DOMAIN db THEN Abstract(db)[k] ELSE Abstract(db)[D!Rebased(k, p, s)]]
      BY <2>1, <2>2, <2>5 DEF D!Copied
    <2>7. D!Put(Abstract(db), p, v) = [k \in DOMAIN db \cup {p} |-> IF k = p THEN v ELSE Abstract(db)[k]]
      BY <2>5 DEF D!Put
    <2> QED BY <1>7, <2>1, <2>3, <2>4, <2>6, <2>7
  <1>8. CASE p \in DOMAIN db
    <2>1. o.db = db /\ o.n = 0
      BY <1>1, <1>8 DEF copyValue, exists, Threw, IsValue
    <2> QED BY <1>1, <1>6, <1>8, <2>1, CountedAsPromised
  <1>9. CASE p \notin DOMAIN db
    <2>1. o = set(db, p, v)
      BY <1>1, <1>9 DEF copyValue, exists, IsValue
    <2> HIDE DEF o, v
    <2>2. IF D!InPlace(p) THEN o.n = 1 /\ Abstract(o.db) = D!Put(Abstract(db), p, v)
                          ELSE o.n = 0 /\ o.db = db
      BY <1>2, <1>3, <1>4, <2>1, SetPuts
    <2> QED BY <1>1, <1>6, <1>7, <1>9, <2>2, CountedAsPromised DEF o
  <1> QED BY <1>8, <1>9

\* move of a value over a value.
LEMMA MoveDocument ==
  ASSUME Careful, Consistent(db), NEW c \in Commands, MoveValueCommand(c)
  PROVE  D!Next
  <1> DEFINE s == c.from
             p == c.at
             g == [db EXCEPT ![p] = db[s]]
             r == removeValue(g, s)
             o == moveValue(db, s, p)
             f == D!Put(Abstract(db), p, Abstract(db)[s])
  <1>1. /\ Counted(c, o) /\ c.op = "move" /\ exists(db, s)
        /\ IsValue(s) /\ ~isArray(db, parent(s)) /\ IsValue(p)
    BY DEF MoveValueCommand, OfObject
  <1>2. s \in DOMAIN db /\ p \in Paths /\ s \in Paths
    BY <1>1, OfCommand, OfValue DEF exists, Paths
  <1>3. db' = o.db /\ InElements(db, p) /\ p \in DOMAIN db \ {s} /\ db[s].n # 0
    BY <1>1, <1>2, OfAnswer DEF Counted, Proper, MoveProper, Removable
  <1>4. Consistent(o.db)
    BY <1>3, StepConsistent DEF NextRecord
  <1>5. db[s] \in [t : {"s"}, n : Content] /\ db[p].t = "s" /\ ~IsDirectory(p) /\ ~IsDirectory(s)
    BY <1>1, <1>2, <1>3, OfPath DEF Consistent, Records
  <1>6. Consistent(g) /\ Abstract(g) = f
    <2>1. Consistent(g)
      BY <1>1, <1>3, <1>5, Overwritten
    <2>2. /\ DOMAIN g = DOMAIN db \cup {p} /\ g[p] = db[s]
          /\ \A q \in DOMAIN db \ {p} : IF IsDirectory(q) THEN g[q].t = db[q].t ELSE g[q] = db[q]
      BY <1>3
    <2> HIDE DEF g
    <2>3. Abstract(g) = D!Put(Abstract(db), p, g[p])
      BY <1>5, <2>1, <2>2, IsPut DEF Consistent
    <2>4. Abstract(db)[s] = db[s]
      BY <1>2, <1>5, Forgotten DEF Consistent
    <2> QED BY <2>1, <2>2, <2>3, <2>4
  <1>7. s \in DOMAIN g /\ g[s].n # 0 /\ ~isArray(g, parent(s))
    BY <1>1, <1>2, <1>3, <1>5 DEF isArray
  <1>8. /\ r.ok = TRUE /\ DOMAIN r.db = DOMAIN g \ {s}
        /\ \A q \in DOMAIN g \ {s} : IF IsDirectory(q) THEN r.db[q].t = g[q].t ELSE r.db[q] = g[q]
    <2> HIDE DEF g
    <2> QED BY <1>1, <1>6, <1>7, RemoveResult
  <1>9. o.db = r.db /\ o.n = 1
    <2>1. boundsCheck(db, p)
      BY <1>2, <1>3, Inside
    <2>2. replaceBy(db, s, p) = Returned(g, 1)
      BY <1>3 DEF replaceBy
    <2> HIDE DEF g
    <2>3. o = Returned(r.db, 1)
      BY <1>8, <2>1, <2>2 DEF moveValue, Then, Returned
    <2> HIDE DEF o, r
    <2> QED BY <2>3 DEF Returned
  <1> HIDE DEF g, r, o
  <1>10. Abstract(o.db) = Without(f, s)
    <2>1. Records(g) /\ Records(o.db)
      BY <1>4, <1>6 DEF Consistent
    <2>2. DOMAIN o.db = DOMAIN g \ {s}
      BY <1>8, <1>9
    <2>3. \A q \in DOMAIN o.db : IF IsDirectory(q) THEN o.db[q].t = g[q].t ELSE o.db[q] = g[q]
      BY <1>8, <1>9
    <2>4. Abstract(o.db) = Without(Abstract(g), s)
      BY <2>1, <2>2, <2>3, IsRemoval
    <2> QED BY <1>6, <2>4
  <1> HIDE DEF f
  <1>11. D!Effect(c) = D!Removed(f, s)
    <2>1. D!IsDirectory(s) = FALSE
      BY <1>5, SamePaths
    <2> QED BY <1>1, <2>1, EffectOf DEF f
  <1>12. Abstract(o.db) = D!Effect(c)
    <2>1. D!Removed(f, s) = Without(f, s)
      BY <1>1, RemovedValue
    <2> QED BY <1>10, <1>11, <2>1
  <1>13. D!Accepts(c)
    <2>1. D!IsDirectory(s) = FALSE
      BY <1>5, SamePaths
    <2> QED BY <1>1, <1>2, <1>3, <2>1, AcceptsOf, SameNodes
  <1> QED BY <1>1, <1>9, <1>12, <1>13, CountedAsPromised DEF o

\* append: the new elements follow those there are.
LEMMA AppendDocument ==
  ASSUME Careful, Consistent(db), NEW c \in Commands, AppendCommand(c)
  PROVE  D!Next
  <1> DEFINE d == c.at
             vs == c.values
             s == db[d].n
             N == Elements(d, s, Len(vs))
             o == appendValues(db, d, vs)
             new(k) == [t |-> "s", n |-> vs[IndexOf(name(k)) - s + 1]]
  <1>1. Done(c, o) /\ c.op = "append" /\ d \in Directories /\ vs \in Batches
    BY OfCommand DEF AppendCommand
  <1>2. db' = o.db
    BY <1>1, OfAnswer DEF Done
  <1>3. Consistent(o.db)
    BY <1>2, StepConsistent DEF NextRecord
  <1>4. D!Accepts(c) <=> isArray(db, d)
    BY <1>1, AcceptsOf, SameNodes
  <1>5. CASE ~isArray(db, d)
    <2>1. o.db = db /\ o.ok = FALSE
      BY <1>5 DEF appendValues, Threw
    <2> QED BY <1>1, <1>4, <1>5, <2>1, DoneAsPromised
  <1>6. CASE isArray(db, d)
    <2>1. o.ok = TRUE /\ Appended(db, d, vs, o.db)
      BY <1>1, <1>6, AppendResult
    <2> HIDE DEF o
    <2>2. d \in DOMAIN db /\ IsDirectory(d) /\ s = Cardinality(Members(db, d)) /\ db[d] \in [t : {"A", "O"}, n : Nat]
      <3>1. d \in DOMAIN db /\ ~IsValue(d)
        BY <1>6 DEF isArray, Consistent, Records
      <3>2. IsDirectory(d)
        BY <3>1, OfPath, OfRoot DEF Consistent, Records
      <3> QED BY <3>1, <3>2 DEF Consistent, Records, Sized
    <2>3. /\ DOMAIN o.db = DOMAIN db \cup N /\ N \cap DOMAIN db = {}
          /\ o.db[d].t = db[d].t
          /\ \A q \in DOMAIN db \ {d} : o.db[q] = db[q]
          /\ \A k \in N : o.db[k] = new(k)
      <3>1. o.db[d] = [db[d] EXCEPT !.n = size_t(s + Len(vs))]
        BY <2>1 DEF Appended
      <3>2. o.db[d].t = db[d].t
        BY <2>2, <3>1
      <3> QED BY <2>1, <3>2 DEF Appended
    <2> HIDE DEF N, s
    <2>4. D!Effect(c) = [k \in DOMAIN db \cup N |-> IF k \in DOMAIN db THEN Abstract(db)[k] ELSE new(k)]
      <3>1. vs \in Seq(Content) /\ DOMAIN vs = 1 .. Len(vs)
        BY <1>1, StoreAssumption
      <3>2. {D!withChild(d, D!Index(s + i - 1)) : i \in DOMAIN vs} = N
        BY <3>1, SamePaths DEF Elements, N, s
      <3>3. D!Cardinality(D!Members(d)) = s /\ DOMAIN Abstract(db) = DOMAIN db
        BY <2>2, SamePaths, SameNodes DEF s
      <3>4. \A k : D!IndexOf(D!name(k)) = IndexOf(name(k))
        BY SamePaths
      <3>5. D!Effect(c) =
              LET n == D!Cardinality(D!Members(d))
                  New == {D!withChild(d, D!Index(n + i - 1)) : i \in DOMAIN vs}
              IN [k \in DOMAIN Abstract(db) \cup New |->
                    IF k \in DOMAIN Abstract(db) THEN Abstract(db)[k]
                    ELSE [t |-> "s", n |-> vs[D!IndexOf(D!name(k)) - n + 1]]]
        BY <1>1, EffectOf
      <3> QED BY <3>2, <3>3, <3>4, <3>5
    <2>5. Abstract(o.db) = [k \in DOMAIN db \cup N |-> IF k \in DOMAIN db THEN Abstract(db)[k] ELSE new(k)]
      <3>1. ASSUME NEW k \in DOMAIN db PROVE Abstract(o.db)[k] = Abstract(db)[k]
        <4>1. Abstract(o.db)[k] = IF IsDirectory(k) THEN [t |-> o.db[k].t, n |-> 0] ELSE o.db[k]
          BY <1>3, <2>3, Forgotten DEF Consistent
        <4>2. Abstract(db)[k] = IF IsDirectory(k) THEN [t |-> db[k].t, n |-> 0] ELSE db[k]
          BY Forgotten DEF Consistent
        <4> QED BY <2>2, <2>3, <4>1, <4>2
      <3>2. ASSUME NEW k \in N PROVE Abstract(o.db)[k] = new(k)
        <4>1. o.db[k] = new(k) /\ k \in DOMAIN o.db
          BY <2>3
        <4>2. new(k).t = "s"
          OBVIOUS
        <4>3. ~IsDirectory(k)
          BY <1>3, <4>1, <4>2, OfPath, OfRoot DEF Consistent, Records
        <4> QED BY <1>3, <4>1, <4>3, Forgotten DEF Consistent
      <3>3. Abstract(o.db) = [k \in DOMAIN o.db |-> Abstract(o.db)[k]]
        BY DEF Abstract
      <3> QED BY <2>3, <3>1, <3>2, <3>3
    <2> QED BY <1>1, <1>4, <1>6, <2>1, <2>4, <2>5, DoneAsPromised DEF o
  <1> QED BY <1>5, <1>6

\* load: the document is the text.
LEMMA LoadDocument ==
  ASSUME Careful, Consistent(db), NEW c \in Commands, LoadCommand(c)
  PROVE  D!Next
  <1> DEFINE o == load(db, c.text)
  <1>1. Done(c, o) /\ c.op = "load" /\ c.text \in Files
    BY OfCommand DEF LoadCommand
  <1>2. db' = o.db /\ LoadProper(db, c.text)
    BY <1>1, OfAnswer DEF Done, Proper
  <1>3. Consistent(o.db)
    BY <1>2, StepConsistent DEF NextRecord
  <1>4. o.ok = TRUE /\ o.db = [p \in DOMAIN c.text |-> c.text[p]]
    BY <1>2 DEF load, Over, Returned, LoadProper
  <1> HIDE DEF o
  <1>5. ASSUME NEW p \in DOMAIN c.text
        PROVE  Abstract(o.db)[p] = IF D!IsDirectory(p) THEN D!Node(c.text[p].t) ELSE c.text[p]
    <2>1. Abstract(o.db)[p] = IF IsDirectory(p) THEN [t |-> o.db[p].t, n |-> 0] ELSE o.db[p]
      BY <1>3, <1>4, Forgotten DEF Consistent
    <2>2. D!IsDirectory(p) = IsDirectory(p)
      BY SamePaths
    <2> QED BY <1>4, <2>1, <2>2 DEF D!Node
  <1>6. Abstract(o.db) = [p \in DOMAIN c.text |-> Abstract(o.db)[p]]
    BY <1>4 DEF Abstract
  <1>7. D!Effect(c) = [p \in DOMAIN c.text |-> IF D!IsDirectory(p) THEN D!Node(c.text[p].t) ELSE c.text[p]]
    BY <1>1, EffectOf
  <1>8. Abstract(o.db) = D!Effect(c) /\ D!Accepts(c)
    BY <1>1, <1>5, <1>6, <1>7, AcceptsOf
  <1> QED BY <1>1, <1>4, <1>8, DoneAsPromised DEF o

\* The database of the first start is the empty document.
LEMMA EmptyDocument ==
  Abstract([p \in {Root} |-> [t |-> "O", n |-> 0]]) = [k \in {D!Root} |-> D!Node("O")]
  <1> DEFINE g == [p \in {Root} |-> [t |-> "O", n |-> 0]]
  <1>1. g[Root] = [t |-> "O", n |-> 0] /\ g[Root].t = "O" /\ DOMAIN g = {Root} /\ Records(g)
    BY EmptyConsistent DEF Consistent
  <1> HIDE DEF g
  <1>2. Abstract(g)[Root] = [t |-> "O", n |-> 0]
    BY <1>1, OfRoot, Forgotten
  <1>3. Abstract(g) = [p \in {Root} |-> Abstract(g)[p]]
    BY <1>1 DEF Abstract
  <1> QED BY <1>2, <1>3, SamePaths DEF D!Node, g

\* truncate: back to the empty document.
LEMMA TruncateDocument ==
  ASSUME NEW c \in Commands, TruncateCommand(c)
  PROVE  D!Next
  <1> DEFINE o == Returned([p \in {Root} |-> [t |-> "O", n |-> 0]], 1)
  <1>1. Answer(c, o, TRUE) /\ c.op = "truncate"
    BY DEF TruncateCommand
  <1>2. o.db = [p \in {Root} |-> [t |-> "O", n |-> 0]]
    BY DEF Returned
  <1> HIDE DEF o
  <1>3. Abstract(o.db) = D!Effect(c) /\ D!Accepts(c)
    BY <1>1, <1>2, EmptyDocument, AcceptsOf, EffectOf
  <1> QED BY <1>1, <1>3, AsPromised

\* copy, move and shift without a source are refused.
LEMMA MissingDocument ==
  ASSUME NEW c \in Commands, SourceMissing(c)
  PROVE  D!Next
  <1> DEFINE o == Threw(db)
  <1>1. Done(c, o) /\ c.op \in {"copy", "move", "shift"} /\ ~exists(db, c.from)
    BY DEF SourceMissing
  <1>2. D!Home(c.from) \notin DOMAIN db
    BY <1>1, SamePaths DEF D!Home, exists
  <1>3. c.op \in {"move", "shift"} => c.from \notin DOMAIN db
    BY <1>1, OfCommand, OfPath DEF exists
  <1>4. ~D!Accepts(c)
    BY <1>1, <1>2, <1>3, AcceptsOf, SameNodes
  <1>5. o.ok = FALSE /\ o.db = db
    BY DEF Threw
  <1> QED BY <1>1, <1>4, <1>5, DoneAsPromised
-----------------------------------------------------------------------------
\* The commands on single records implement the document: what a client is told
\* and the tree it can read are those of Document, with the sizes kept by hand
\* forgotten, and a command that is refused has changed nothing (commands.cpp,
\* janosh.cpp).
THEOREM RecordsImplementDocument == ASSUME Careful PROVE RecordsSpec => ImplementsDocument
  <1>1. Init => D!Init
    BY EmptyDocument DEF Init, D!Init
  <1>2. Consistent(db) /\ [NextRecord]_vars => [D!Next]_<<Abstract(db), reply>>
    <2> SUFFICES ASSUME Consistent(db), [NextRecord]_vars PROVE [D!Next]_<<Abstract(db), reply>>
      OBVIOUS
    <2>1. CASE UNCHANGED vars
      BY <2>1 DEF vars, Abstract
    <2>2. CASE NextRecord
      BY <2>2, SetDocument, AddDocument, ReplaceDocument, MakeDocument, RemoveDocument, CopyDocument,
         MoveDocument, AppendDocument, LoadDocument, TruncateDocument, MissingDocument DEF NextRecord
    <2> QED BY <2>1, <2>2
  <1> QED BY <1>1, <1>2, AlwaysConsistent, PTL DEF RecordsSpec, ImplementsDocument, D!Spec

-----------------------------------------------------------------------------
\* The contract of Document.  The paths in use are its names and places.
LEMMA ContractPaths ==
  /\ \A b \in Bases : b \in D!Names
  /\ \A p \in Paths \cup {Root} : p \in D!Places
  <1>1. D!Dot = Dot /\ \A p : D!Last(p) = Last(p)
    BY DEF D!Dot, Dot, D!Last, Last
  <1>2. \A b \in Bases : b \in D!Names
    BY <1>1, StoreAssumption DEF D!Names
  <1>3. ASSUME NEW p \in Paths PROVE p \in D!Places
    <2>1. PICK b \in Bases : basePath(p) = b /\ (p = b \/ p = asDirectory(b)) /\ ~IsWildcard(p)
      BY <1>3, OfPath
    <2>2. b \in Seq(Nat) /\ Dot \in Nat /\ asDirectory(b) = Append(b, Dot)
      BY OfBase, StoreAssumption DEF Dot
    <2>3. p \in Seq(Nat)
      BY <2>1, <2>2, AppendProperties
    <2> QED BY <1>2, <2>1, <2>3, SamePaths DEF D!Places
  <1>4. Root \in D!Places
    BY SamePaths DEF D!Places, Root, Dot
  <1> QED BY <1>2, <1>3, <1>4

\* What Document asks of the commands on single records.
LEMMA FitsOf ==
  ASSUME NEW c
  PROVE  /\ c.op \in {"set", "add"} /\ c.at \in D!Names /\ D!asDirectory(c.at) \notin DOMAIN Abstract(db)
              => D!Fits(c)
         /\ c.op = "replace" /\ c.at \in D!Names => D!Fits(c)
         /\ c.op \in {"mkarr", "mkobj"} /\ c.at \in D!Places /\ D!IsDirectory(c.at) => D!Fits(c)
         /\ c.op = "remove" /\ c.at \in D!Places \ {D!Root} => D!Fits(c)
         /\ c.op = "append" /\ (DOMAIN c.values = 1 .. Len(c.values) /\ Len(c.values) \in Nat)
              /\ D!Cardinality(D!Members(c.at)) + Len(c.values) < Star
              => D!Fits(c)
         /\ c.op = "copy" /\ {c.from, c.at} \subseteq D!Places => D!Fits(c)
         /\ c.op = "move" /\ {c.from, c.at} \subseteq D!Places /\ ~D!IsDirectory(c.from) /\ D!IsValue(c.at)
              => D!Fits(c)
         /\ c.op = "load" /\ D!Tree(c.text) /\ D!Dense(c.text) => D!Fits(c)
         /\ c.op = "truncate" => D!Fits(c)
  <1>1. c.op \in {"set", "add"} /\ c.at \in D!Names /\ D!asDirectory(c.at) \notin DOMAIN Abstract(db)
          => D!Fits(c)
    BY DEF D!Fits
  <1>2. c.op = "replace" /\ c.at \in D!Names => D!Fits(c)
    BY DEF D!Fits
  <1>3. c.op \in {"mkarr", "mkobj"} /\ c.at \in D!Places /\ D!IsDirectory(c.at) => D!Fits(c)
    BY DEF D!Fits
  <1>4. c.op = "remove" /\ c.at \in D!Places \ {D!Root} => D!Fits(c)
    BY DEF D!Fits
  <1>5. c.op = "append" /\ (DOMAIN c.values = 1 .. Len(c.values) /\ Len(c.values) \in Nat)
          /\ D!Cardinality(D!Members(c.at)) + Len(c.values) < Star
          => D!Fits(c)
    BY DEF D!Fits
  <1>6. c.op = "copy" /\ {c.from, c.at} \subseteq D!Places => D!Fits(c)
    BY DEF D!Fits
  <1>7. c.op = "move" /\ {c.from, c.at} \subseteq D!Places /\ ~D!IsDirectory(c.from) /\ D!IsValue(c.at)
          => D!Fits(c)
    BY DEF D!Fits
  <1>8. c.op = "load" /\ D!Tree(c.text) /\ D!Dense(c.text) => D!Fits(c)
    BY DEF D!Fits
  <1>9. c.op = "truncate" => D!Fits(c)
    BY DEF D!Fits
  <1> QED BY <1>1, <1>2, <1>3, <1>4, <1>5, <1>6, <1>7, <1>8, <1>9

\* A text that load takes is a document.
LEMMA TextFits ==
  ASSUME NEW text \in Files, LoadProper(db, text), Consistent(load(db, text).db)
  PROVE  D!Tree(text) /\ D!Dense(text)
  <1> DEFINE g == [q \in DOMAIN text |-> text[q]]
  <1>1. load(db, text).db = g /\ JsonText(text) /\ DOMAIN g = DOMAIN text /\ \A p \in DOMAIN text : g[p] = text[p]
    <2>1. load(db, text).db = g
      BY DEF load, Over, Returned, LoadProper
    <2>2. JsonText(text)
      BY StoreAssumption
    <2> QED BY <2>1, <2>2
  <1> HIDE DEF g
  <1>2. Consistent(g)
    BY <1>1
  <1>3. D!IsFiniteSet(DOMAIN text)
    <2>1. D!IsFiniteSet(DOMAIN text) = IsFiniteSet(DOMAIN text)
      BY DEF D!IsFiniteSet, IsFiniteSet
    <2> QED BY <1>1, <2>1 DEF JsonText
  <1>4. DOMAIN text \subseteq D!Places /\ D!Root \in DOMAIN text /\ text[D!Root].t = "O"
    BY <1>1, ContractPaths, SamePaths DEF JsonText
  <1>5. ASSUME NEW p \in DOMAIN text
        PROVE  /\ D!parent(p) \in DOMAIN text
               /\ IF D!IsDirectory(p) THEN text[p].t \in {"A", "O"}
                                      ELSE text[p].t = "s" /\ D!asDirectory(p) \notin DOMAIN text
    <2>1. /\ p \in Paths \cup {Root} /\ parent(p) \in DOMAIN text
          /\ IF IsValue(p) THEN text[p] \in [t : {"s"}, n : Content] /\ asDirectory(p) \notin DOMAIN text
                           ELSE text[p] \in [t : {"A", "O"}, n : Nat]
      BY <1>1 DEF JsonText
    <2>2. IsDirectory(p) <=> ~IsValue(p)
      BY <2>1, OfPath, OfRoot
    <2> QED BY <2>1, <2>2, SamePaths
  <1>6. D!Tree(text)
    BY <1>3, <1>4, <1>5 DEF D!Tree
  <1>7. ASSUME NEW d \in DOMAIN text, text[d].t = "A"
        PROVE  {D!name(m) : m \in D!MembersOf(text, d)}
                 = {D!Index(i) : i \in 0 .. D!Cardinality(D!MembersOf(text, d)) - 1}
    <2>1. D!MembersOf(text, d) = Members(g, d)
      BY <1>1, SamePaths DEF D!MembersOf, Members
    <2>2. isArray(g, d) /\ d \in DOMAIN g
      BY <1>1, <1>7 DEF isArray
    <2>3. IsDirectory(d)
      <3>1. ~IsValue(d) /\ d \in Paths \cup {Root}
        BY <1>2, <2>2 DEF isArray, Consistent, Records
      <3> QED BY <3>1, OfPath, OfRoot
    <2>4. {name(m) : m \in Members(g, d)} = {Index(i) : i \in 0 .. g[d].n - 1}
          /\ g[d].n = Cardinality(Members(g, d))
      BY <1>2, <2>2, <2>3 DEF Consistent, Dense, Sized
    <2> QED BY <2>1, <2>4, SamePaths
  <1>8. D!Dense(text)
    BY <1>7 DEF D!Dense
  <1> QED BY <1>6, <1>8

\* The elements that append writes are below Star.
LEMMA AppendFits ==
  ASSUME Careful, Consistent(db), NEW c \in Commands, AppendCommand(c), reply'.ok
  PROVE  D!Fits(c)
  <1> DEFINE d == c.at
             vs == c.values
             o == appendValues(db, d, vs)
             N == Elements(d, db[d].n, Len(vs))
  <1>1. Answer(c, o, o.ok) /\ c.op = "append" /\ d \in Directories /\ vs \in Batches
    BY OfCommand DEF AppendCommand, Done
  <1>2. o.ok /\ Admitted(o.db)
    BY <1>1, OfAnswer DEF Answer
  <1>3. isArray(db, d)
    BY <1>2 DEF appendValues, Threw
  <1>4. Grown(db, d, N, o.db) /\ Cardinality(DOMAIN o.db) <= MaxRecords /\ Cardinality(N) = Len(vs)
    BY <1>1, <1>2, <1>3, AppendGrows
  <1> HIDE DEF N, o
  <1>5. Cardinality(Members(o.db, d)) = db[d].n + Len(vs) /\ d \in DOMAIN o.db
    <2>1. Cardinality(Members(o.db, d)) = db[d].n + Cardinality(N)
      BY <1>4, GrownMembers
    <2>2. d \in DOMAIN o.db
      BY <1>4 DEF Grown
    <2> QED BY <1>4, <2>1, <2>2
  <1>6. Consistent(o.db)
    BY <1>4, Grows
  <1>7. Cardinality(Members(o.db, d)) < MaxRecords
    BY <1>4, <1>5, <1>6, FewMembers DEF Consistent, Records
  <1>8. db[d].n = Cardinality(Members(db, d)) /\ db[d].n \in Nat
    <2>1. d \in DOMAIN db /\ IsDirectory(d)
      BY <1>4 DEF Grown
    <2> QED BY <2>1, FewMembers DEF Consistent, Records, Sized
  <1>9. vs \in Seq(Content) /\ DOMAIN vs = 1 .. Len(vs) /\ Len(vs) \in Nat
    BY <1>1, StoreAssumption
  <1>10. Cardinality(Members(db, d)) + Len(vs) < Star
    BY <1>5, <1>7, <1>8, <1>9, StoreAssumption
  <1>11. D!Cardinality(D!Members(d)) + Len(vs) < Star
    BY <1>10, SamePaths, SameNodes
  <1> QED BY <1>1, <1>9, <1>11, FitsOf

\* Whatever the store carries out keeps to the contract.
LEMMA StepFits ==
  ASSUME Careful, Consistent(db), NextRecord, reply'.ok
  PROVE  D!Fits(reply'.c)
  <1>1. PICK c \in Commands :
          \/ SetCommand(c) \/ AddCommand(c) \/ ReplaceCommand(c)
          \/ MakeArrayCommand(c) \/ MakeObjectCommand(c)
          \/ RemoveValueCommand(c) \/ CopyValueCommand(c) \/ MoveValueCommand(c)
          \/ AppendCommand(c) \/ LoadCommand(c) \/ TruncateCommand(c) \/ SourceMissing(c)
    BY DEF NextRecord
  <1>2. PICK o, ok : Answer(c, o, ok)
    BY <1>1 DEF SetCommand, AddCommand, ReplaceCommand, MakeArrayCommand, MakeObjectCommand,
             RemoveValueCommand, CopyValueCommand, MoveValueCommand, AppendCommand, LoadCommand,
             TruncateCommand, SourceMissing, Counted, Done
  <1>3. reply'.c = c /\ Proper(db, c)
    BY <1>2 DEF Answer
  <1>4. ASSUME SetCommand(c) \/ AddCommand(c) PROVE D!Fits(c)
    <2>1. c.op \in {"set", "add"} /\ c.at \in Bases /\ NewRecord(db, c.at)
      BY <1>3, <1>4, OfCommand DEF SetCommand, AddCommand, Proper
    <2>2. asDirectory(c.at) \notin DOMAIN db
      BY <2>1, OfBase DEF NewRecord, Consistent, Tree
    <2> QED BY <2>1, <2>2, ContractPaths, SamePaths, SameNodes, FitsOf
  <1>5. ASSUME ReplaceCommand(c) PROVE D!Fits(c)
    <2>1. c.op = "replace" /\ c.at \in Bases
      BY <1>5, OfCommand DEF ReplaceCommand
    <2> QED BY <2>1, ContractPaths, FitsOf
  <1>6. ASSUME MakeArrayCommand(c) \/ MakeObjectCommand(c) PROVE D!Fits(c)
    <2>1. c.op \in {"mkarr", "mkobj"} /\ c.at \in Directories
      BY <1>6, OfCommand DEF MakeArrayCommand, MakeObjectCommand
    <2>2. c.at \in Paths \cup {Root} /\ IsDirectory(c.at)
      BY <2>1, OfDirectory, OfRoot DEF Directories, Paths
    <2> QED BY <2>1, <2>2, ContractPaths, SamePaths, FitsOf
  <1>7. ASSUME RemoveValueCommand(c) PROVE D!Fits(c)
    <2>1. c.op = "remove" /\ c.at \in Bases
      BY <1>7, OfCommand, OfValue DEF RemoveValueCommand, OfObject
    <2>2. c.at \in Paths /\ c.at # Root
      BY <2>1, OfRoot DEF Paths
    <2> QED BY <2>1, <2>2, ContractPaths, SamePaths, FitsOf
  <1>8. ASSUME CopyValueCommand(c) PROVE D!Fits(c)
    <2>1. c.op = "copy" /\ c.from \in Bases /\ c.at \in Bases
      BY <1>8, OfCommand, OfValue DEF CopyValueCommand
    <2> QED BY <2>1, ContractPaths, FitsOf DEF Paths
  <1>9. ASSUME MoveValueCommand(c) PROVE D!Fits(c)
    <2>1. c.op = "move" /\ c.from \in Bases /\ c.at \in Bases
      BY <1>9, OfCommand, OfValue DEF MoveValueCommand, OfObject
    <2>2. ~D!IsDirectory(c.from) /\ D!IsValue(c.at)
      BY <2>1, OfBase, SamePaths
    <2> QED BY <2>1, <2>2, ContractPaths, FitsOf DEF Paths
  <1>10. ASSUME LoadCommand(c) PROVE D!Fits(c)
    <2>1. c.op = "load" /\ c.text \in Files /\ LoadProper(db, c.text) /\ Answer(c, load(db, c.text), TRUE)
      BY <1>3, <1>10, OfCommand DEF LoadCommand, Done, Proper, load, Returned
    <2>2. Consistent(load(db, c.text).db)
      <3>1. Consistent(db')
        BY <1>10, StepConsistent DEF NextRecord
      <3> QED BY <2>1, <3>1 DEF Answer
    <2> QED BY <2>1, <2>2, TextFits, FitsOf
  <1>11. ASSUME TruncateCommand(c) PROVE D!Fits(c)
    BY <1>11, FitsOf DEF TruncateCommand
  <1>12. ASSUME SourceMissing(c) PROVE FALSE
    BY <1>12 DEF SourceMissing, Done, Answer, Threw
  <1> QED BY <1>1, <1>3, <1>4, <1>5, <1>6, <1>7, <1>8, <1>9, <1>10, <1>11, <1>12, AppendFits

\* For any paths, contents, texts and bounds: clients within Proper keep to the
\* contract of Document, so its soundness is the store's.
THEOREM RecordsKeepContract == ASSUME Careful PROVE RecordsSpec => ContractKept
  <1>1. Consistent(db) /\ [NextRecord]_vars => [reply'.ok => D!Fits(reply'.c)]_<<Abstract(db), reply>>
    <2> SUFFICES ASSUME Consistent(db), [NextRecord]_vars
                 PROVE  [reply'.ok => D!Fits(reply'.c)]_<<Abstract(db), reply>>
      OBVIOUS
    <2>1. CASE UNCHANGED vars
      BY <2>1 DEF vars, Abstract
    <2>2. CASE NextRecord
      BY <2>2, StepFits
    <2> QED BY <2>1, <2>2
  <1> QED BY <1>1, AlwaysConsistent, PTL DEF RecordsSpec, ContractKept, D!ClientsFit
=============================================================================
