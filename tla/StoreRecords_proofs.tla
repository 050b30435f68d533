------------------------ MODULE StoreRecords_proofs -------------------------
(***************************************************************************)
(* Proofs about the commands on single records of the document store.      *)
(***************************************************************************)
EXTENDS StoreRecords, FiniteSetTheorems, SequenceTheorems, TLAPS

-----------------------------------------------------------------------------
\* What Front leaves of a sequence.
LEMMA OfFront ==
  ASSUME NEW s \in Seq(Nat), s # <<>>
  PROVE  /\ Front(s) \in Seq(Nat) /\ Len(s) \in Nat /\ Len(Front(s)) = Len(s) - 1
         /\ \A i \in 1 .. Len(s) - 1 : Front(s)[i] = s[i]
  <1>1. Len(s) \in Nat \ {0} /\ \A i \in 1 .. Len(s) - 1 : s[i] \in Nat
    BY LenProperties, ElementOfSeq
  <1>2. Len(s) - 1 \in Int /\ (Len(s) - 1) - 1 + 1 = Len(s) - 1
    BY <1>1
  <1>3. /\ Front(s) \in Seq(Nat)
        /\ Len(Front(s)) = IF 1 <= Len(s) - 1 THEN (Len(s) - 1) - 1 + 1 ELSE 0
        /\ \A i \in 1 .. (Len(s) - 1) - 1 + 1 : Front(s)[i] = s[1 + i - 1]
    BY <1>1, <1>2, SubSeqProperties DEF Front
  <1>4. Len(Front(s)) = Len(s) - 1
    <2>1. \A n \in Nat \ {0} : n - 1 = IF 1 <= n - 1 THEN (n - 1) - 1 + 1 ELSE 0
      OBVIOUS
    <2> QED BY <1>1, <1>3, <2>1
  <1>5. ASSUME NEW i \in 1 .. Len(s) - 1 PROVE Front(s)[i] = s[i]
    <2>1. i \in 1 .. (Len(s) - 1) - 1 + 1 /\ 1 + i - 1 = i
      BY <1>1
    <2> QED BY <1>3, <2>1
  <1> QED BY <1>1, <1>3, <1>4, <1>5

\* Paths.  A base and its directory have one parent and one name.
LEMMA OfBase ==
  ASSUME NEW b \in Bases
  PROVE  /\ IsValue(b) /\ ~IsDirectory(b) /\ ~IsWildcard(b) /\ basePath(b) = b
         /\ asDirectory(b) = Append(b, Dot)
         /\ parent(b) = Append(Front(b), Dot) /\ name(b) = Last(b)
  <1>1. b \in Seq(Nat) /\ b # <<>> /\ Last(b) # Dot /\ Last(b) # Star
    BY StoreAssumption
  <1>2. IsValue(b) /\ ~IsDirectory(b) /\ ~IsWildcard(b) /\ basePath(b) = b
    BY <1>1 DEF IsValue, IsDirectory, IsWildcard, basePath
  <1> QED BY <1>1, <1>2 DEF asDirectory, parent, name

\* A name and its directory record lie in the same directory.
LEMMA OfDirectory ==
  ASSUME NEW b \in Bases
  PROVE  LET d == asDirectory(b)
         IN /\ IsDirectory(d) /\ ~IsValue(d) /\ ~IsWildcard(d) /\ basePath(d) = b
            /\ asDirectory(d) = d /\ parent(d) = parent(b) /\ name(d) = name(b)
  <1>1. b \in Seq(Nat) /\ b # <<>> /\ Dot \in Nat /\ Star \in Nat \ {0}
    BY StoreAssumption DEF Dot
  <1> DEFINE d == Append(b, Dot)
  <1>2. d # <<>> /\ Last(d) = Dot /\ Front(d) = b
    BY <1>1 DEF Last, Front
  <1> HIDE DEF d
  <1>3. IsDirectory(d) /\ ~IsValue(d) /\ ~IsWildcard(d) /\ basePath(d) = b
    BY <1>1, <1>2 DEF IsDirectory, IsValue, IsWildcard, basePath, Dot
  <1>4. asDirectory(d) = d /\ parent(d) = parent(b) /\ name(d) = name(b)
    BY <1>1, <1>3, OfBase DEF asDirectory, parent, name, d
  <1> QED BY <1>3, <1>4, OfBase DEF d

\* The root is a directory and lies in itself.
LEMMA OfRoot ==
  /\ IsDirectory(Root) /\ ~IsValue(Root) /\ ~IsWildcard(Root) /\ basePath(Root) = <<>>
  /\ asDirectory(Root) = Root /\ parent(Root) = Root /\ Root \notin Paths
  <1>1. Root # <<>> /\ Last(Root) = Dot /\ Front(Root) = <<>> /\ Len(Root) = 1 /\ Star # Dot
    BY StoreAssumption DEF Last, Front, Root, Dot
  <1>2. IsDirectory(Root) /\ ~IsValue(Root) /\ ~IsWildcard(Root) /\ basePath(Root) = <<>>
    BY <1>1 DEF IsDirectory, IsValue, IsWildcard, basePath
  <1>3. asDirectory(Root) = Root /\ parent(Root) = Root
    BY <1>2 DEF asDirectory, parent, Root
  <1>4. Root \notin Bases
    BY <1>1, StoreAssumption
  <1>5. ASSUME NEW b \in Bases PROVE Root # asDirectory(b)
    BY <1>2, OfDirectory, StoreAssumption
  <1> QED BY <1>2, <1>3, <1>4, <1>5 DEF Paths

\* The directory a path in use lies in is a directory path, and not the path
\* itself.
LEMMA OfPath ==
  ASSUME NEW p \in Paths
  PROVE  /\ basePath(p) \in Bases /\ p \in {basePath(p), asDirectory(p)}
         /\ asDirectory(p) = asDirectory(basePath(p)) /\ asDirectory(p) \in Paths
         /\ IsDirectory(p) <=> ~IsValue(p)
         /\ ~IsWildcard(p)
         /\ IsValue(p) <=> p = basePath(p)
         /\ IsDirectory(p) <=> p = asDirectory(p)
         /\ basePath(p) # asDirectory(p)
         /\ parent(p) \notin {basePath(p), asDirectory(p)}
         /\ ~IsValue(parent(p))
         /\ basePath(basePath(p)) = basePath(p) /\ basePath(asDirectory(p)) = basePath(p)
         /\ parent(basePath(p)) = parent(p) /\ parent(asDirectory(p)) = parent(p)
         /\ name(basePath(p)) = name(p) /\ name(asDirectory(p)) = name(p)
  <1>1. PICK b \in Bases : p = b \/ p = asDirectory(b)
    BY DEF Paths
  <1>2. basePath(p) = b /\ asDirectory(p) = asDirectory(b) /\ asDirectory(b) # b
    BY <1>1, OfBase, OfDirectory
  <1>3. parent(p) # b /\ parent(p) # asDirectory(b) /\ IsDirectory(parent(p))
    <2>1. parent(p) = Append(Front(b), Dot)
      BY <1>1, OfBase, OfDirectory
    <2>2. b \in Seq(Nat) /\ b # <<>> /\ Dot \in Nat
      BY StoreAssumption DEF Dot
    <2>3. Front(b) \in Seq(Nat) /\ Len(Front(b)) = Len(b) - 1 /\ Len(b) \in Nat
      BY <2>2, OfFront
    <2>4. Last(parent(p)) = Dot /\ parent(p) # <<>> /\ Len(parent(p)) = Len(b)
      <3> DEFINE q == Append(Front(b), Dot)
      <3>1. q \in Seq(Nat) /\ Len(q) = Len(Front(b)) + 1 /\ q[Len(Front(b)) + 1] = Dot
        BY <2>2, <2>3, AppendProperties
      <3> HIDE DEF q
      <3>2. Len(q) = Len(b) /\ q[Len(q)] = Dot
        BY <2>3, <3>1
      <3>3. Len(b) # 0
        BY <2>2, EmptySeq
      <3>4. q # <<>>
        BY <3>1, <3>2, <3>3, EmptySeq
      <3> QED BY <2>1, <3>2, <3>4 DEF Last, q
    <2>5. Len(asDirectory(b)) = Len(b) + 1
      BY <2>2, OfBase
    <2> QED BY <2>3, <2>4, <2>5, StoreAssumption DEF IsDirectory
  <1> QED BY <1>1, <1>2, <1>3, OfBase, OfDirectory DEF Paths, IsValue

\* Two paths with one parent and one name are records of one base.
LEMMA OneName ==
  ASSUME NEW p \in Paths, NEW q \in Paths, parent(p) = parent(q), name(p) = name(q)
  PROVE  basePath(p) = basePath(q) /\ asDirectory(p) = asDirectory(q)
  <1>1. PICK b \in Bases, c \in Bases : b = basePath(p) /\ c = basePath(q)
    BY OfPath
  <1>2. asDirectory(p) = asDirectory(b) /\ asDirectory(q) = asDirectory(c)
    BY <1>1, OfPath
  <1>3. parent(b) = parent(c) /\ name(b) = name(c)
    BY <1>1, OfPath
  <1>4. Append(Front(b), Dot) = Append(Front(c), Dot) /\ Last(b) = Last(c)
    BY <1>3, OfBase
  <1>5. b \in Seq(Nat) /\ b # <<>> /\ c \in Seq(Nat) /\ c # <<>> /\ Dot \in Nat
    BY StoreAssumption DEF Dot
  <1>6. Front(b) \in Seq(Nat) /\ Front(c) \in Seq(Nat)
    BY <1>5, OfFront
  <1>7. Front(b) = Front(c)
    <2> DEFINE x == Front(b)
               y == Front(c)
    <2> HIDE DEF x, y
    <2>1. x \in Seq(Nat) /\ y \in Seq(Nat) /\ Dot \in Nat /\ Append(x, Dot) = Append(y, Dot)
      BY <1>4, <1>5, <1>6 DEF x, y
    <2>2. x = y
      BY <2>1, AppendInjective
    <2> QED BY <2>2 DEF x, y
  <1>8. Len(b) = Len(c) /\ Len(b) \in Nat
    BY <1>5, <1>7, OfFront
  <1>9. ASSUME NEW i \in 1 .. Len(b) PROVE b[i] = c[i]
    <2>1. CASE i = Len(b)
      BY <1>4, <1>8, <2>1 DEF Last
    <2>2. CASE i # Len(b)
      <3>1. i \in 1 .. Len(b) - 1
        BY <1>8, <2>2
      <3> QED BY <1>5, <1>7, <1>8, <3>1, OfFront
    <2> QED BY <2>1, <2>2
  <1>10. b = c
    BY <1>5, <1>8, <1>9, SeqEqual
  <1> QED BY <1>1, <1>10, <1>2
-----------------------------------------------------------------------------
\* A database without damage: what TypeOK, SizesExact, ArraysDense and
\* OneRecordPerName say of db, and that it is finite.
Records(f) ==
  /\ IsFiniteSet(DOMAIN f) /\ Cardinality(DOMAIN f) <= MaxRecords
  /\ Root \in DOMAIN f /\ f[Root].t = "O"
  /\ \A p \in DOMAIN f :
       /\ p \in Paths \cup {Root}
       /\ IF IsValue(p) THEN f[p] \in [t : {"s"}, n : Content] ELSE f[p] \in [t : {"A", "O"}, n : Nat]

Sized(f) == \A d \in DOMAIN f : IsDirectory(d) => f[d].n = Cardinality(Members(f, d))

Dense(f) ==
  \A d \in DOMAIN f : isArray(f, d) =>
    {name(m) : m \in Members(f, d)} = {Index(i) : i \in 0 .. f[d].n - 1}

Tree(f) ==
  \A p \in DOMAIN f : (IsValue(p) => asDirectory(p) \notin DOMAIN f) /\ parent(p) \in DOMAIN f

Consistent(f) == Records(f) /\ Sized(f) /\ Dense(f) /\ Tree(f)

\* A directory has fewer members than there are records, so no size wraps.
LEMMA FewMembers ==
  ASSUME NEW f, IsFiniteSet(DOMAIN f), Cardinality(DOMAIN f) <= MaxRecords, NEW d \in DOMAIN f
  PROVE  /\ IsFiniteSet(Members(f, d)) /\ Cardinality(Members(f, d)) \in Nat
         /\ Cardinality(Members(f, d)) < MaxRecords
  <1>1. Members(f, d) \subseteq DOMAIN f \ {d}
    BY DEF Members
  <1>2. IsFiniteSet(DOMAIN f) /\ Cardinality(DOMAIN f) <= MaxRecords /\ MaxRecords \in Nat
    BY StoreAssumption
  <1>3. IsFiniteSet(DOMAIN f \ {d}) /\ Cardinality(DOMAIN f \ {d}) = Cardinality(DOMAIN f) - 1
    BY <1>2, FS_RemoveElement
  <1>4. IsFiniteSet(Members(f, d)) /\ Cardinality(Members(f, d)) <= Cardinality(DOMAIN f \ {d})
    BY <1>1, <1>3, FS_Subset
  <1> QED BY <1>2, <1>3, <1>4, FS_CardinalityType

\* Consistent is the type invariant and the three safety invariants together.
LEMMA Meaning ==
  ASSUME Consistent(db)
  PROVE  TypeOK /\ SizesExact /\ ArraysDense /\ OneRecordPerName
  <1>1. SizesExact /\ ArraysDense /\ OneRecordPerName
    BY DEF Consistent, Sized, Dense, Tree, SizesExact, ArraysDense, OneRecordPerName
  <1>2. ASSUME NEW p \in DOMAIN db, ~IsValue(p)
        PROVE  db[p] \in [t : {"A", "O"}, n : 0 .. MaxRecords]
    <2>1. IsDirectory(p)
      BY <1>2, OfPath, OfRoot DEF Consistent, Records
    <2>2. db[p].n = Cardinality(Members(db, p)) /\ db[p] \in [t : {"A", "O"}, n : Nat]
      BY <1>2, <2>1 DEF Consistent, Records, Sized
    <2>3. db[p].n \in 0 .. MaxRecords
      BY <2>2, FewMembers, StoreAssumption DEF Consistent, Records
    <2> QED BY <2>2, <2>3
  <1>3. TypeOK
    BY <1>2 DEF TypeOK, Consistent, Records
  <1> QED BY <1>1, <1>3
-----------------------------------------------------------------------------
\* g is f with the new records N in directory d, which has counted them.
Grown(f, d, N, g) ==
  /\ d \in DOMAIN f /\ IsDirectory(d)
  /\ IsFiniteSet(N) /\ N \subseteq Paths
  /\ \A p \in N : parent(p) = d /\ {basePath(p), asDirectory(p)} \cap DOMAIN f = {}
  /\ \A p, q \in N : name(p) = name(q) => p = q
  /\ isArray(f, d) =>
       {name(p) : p \in N} = {Index(i) : i \in f[d].n .. f[d].n + Cardinality(N) - 1}
  /\ DOMAIN g = DOMAIN f \cup N
  /\ \A p \in N : IF IsValue(p) THEN g[p] \in [t : {"s"}, n : Content]
                                ELSE g[p] \in [t : {"A", "O"}, n : {0}]
  /\ g[d] = [f[d] EXCEPT !.n = size_t(f[d].n + Cardinality(N))]
  /\ \A q \in DOMAIN f \ {d} : g[q] = f[q]

\* The members of each directory after d has grown by N.
LEMMA GrownMembers ==
  ASSUME NEW f, Consistent(f), NEW d, NEW N, NEW g, Grown(f, d, N, g),
         Cardinality(DOMAIN g) <= MaxRecords
  PROVE  /\ d \notin N /\ N \cap DOMAIN f = {}
         /\ Members(g, d) = Members(f, d) \cup N
         /\ Cardinality(Members(g, d)) = f[d].n + Cardinality(N)
         /\ f[d].n \in Nat /\ Cardinality(N) \in Nat
         /\ size_t(f[d].n + Cardinality(N)) = f[d].n + Cardinality(N)
         /\ \A q \in DOMAIN f \ {d} : Members(g, q) = Members(f, q)
         /\ \A p \in N : Members(g, p) = {}
  <1>1. \A p \in N : p \in {basePath(p), asDirectory(p)} /\ parent(p) # p /\ p \notin DOMAIN f
    BY OfPath DEF Grown
  <1>2. d \notin N /\ N \cap DOMAIN f = {} /\ d \in DOMAIN f
    BY <1>1 DEF Grown
  <1>3. Members(g, d) = Members(f, d) \cup N
    BY <1>1, <1>2 DEF Grown, Members
  <1>4. \A q \in DOMAIN f \ {d} : Members(g, q) = Members(f, q)
    BY <1>1, <1>2 DEF Grown, Members
  <1>5. \A p \in N : Members(g, p) = {}
    BY <1>1, <1>2 DEF Grown, Members, Consistent, Tree
  <1>6. IsFiniteSet(Members(f, d)) /\ f[d].n = Cardinality(Members(f, d)) /\ f[d].n \in Nat
    BY FewMembers DEF Grown, Consistent, Records, Sized
  <1>7. Members(f, d) \cap N = {} /\ IsFiniteSet(N) /\ Cardinality(N) \in Nat
    BY <1>2, FS_CardinalityType DEF Members, Grown
  <1>8. Cardinality(Members(f, d) \cup N)
          = Cardinality(Members(f, d)) + Cardinality(N) - Cardinality(Members(f, d) \cap N)
    BY <1>6, <1>7, FS_Union
  <1>9. Cardinality(Members(f, d) \cap N) = 0
    BY <1>7, FS_EmptySet
  <1>10. Cardinality(Members(g, d)) = f[d].n + Cardinality(N)
    BY <1>3, <1>6, <1>7, <1>8, <1>9
  <1>11. IsFiniteSet(DOMAIN f) /\ IsFiniteSet(N) /\ DOMAIN g = DOMAIN f \cup N
    BY DEF Grown, Consistent, Records
  <1>12. IsFiniteSet(DOMAIN g) /\ d \in DOMAIN g
    BY <1>2, <1>11, FS_Union
  <1>13. Cardinality(Members(g, d)) < MaxRecords
    BY <1>12, FewMembers
  <1>14. size_t(f[d].n + Cardinality(N)) = f[d].n + Cardinality(N)
    BY <1>6, <1>7, <1>10, <1>13, StoreAssumption DEF size_t
  <1> QED BY <1>2, <1>3, <1>4, <1>5, <1>6, <1>7, <1>10, <1>14

\* New members leave the database consistent.
LEMMA Grows ==
  ASSUME NEW f, Consistent(f), NEW d, NEW N, NEW g, Grown(f, d, N, g),
         Cardinality(DOMAIN g) <= MaxRecords
  PROVE  Consistent(g)
  <1>1. /\ d \in DOMAIN f /\ IsDirectory(d) /\ ~IsValue(d) /\ f[d] \in [t : {"A", "O"}, n : Nat]
        /\ d \in Paths \cup {Root}
    BY OfPath, OfRoot DEF Grown, Consistent, Records
  <1>2. g[d] \in [t : {"A", "O"}, n : Nat] /\ g[d].t = f[d].t /\ g[d].n = f[d].n + Cardinality(N)
    <2>1. /\ f[d].n \in Nat /\ Cardinality(N) \in Nat
          /\ size_t(f[d].n + Cardinality(N)) = f[d].n + Cardinality(N)
      BY GrownMembers
    <2>2. g[d] = [f[d] EXCEPT !.n = size_t(f[d].n + Cardinality(N))]
      BY DEF Grown
    <2> QED BY <1>1, <2>1, <2>2
  <1>3. \A q \in DOMAIN f \ {d} : g[q] = f[q] /\ Members(g, q) = Members(f, q)
    <2>1. \A q \in DOMAIN f \ {d} : Members(g, q) = Members(f, q)
      BY GrownMembers
    <2> QED BY <2>1 DEF Grown
  <1>4. Records(g)
    <2>1. IsFiniteSet(DOMAIN g)
      <3>1. IsFiniteSet(DOMAIN f) /\ IsFiniteSet(N) /\ DOMAIN g = DOMAIN f \cup N
        BY DEF Grown, Consistent, Records
      <3> QED BY <3>1, FS_Union
    <2>2. Root \in DOMAIN g /\ g[Root].t = "O"
      BY <1>2 DEF Grown, Consistent, Records
    <2>3. ASSUME NEW p \in DOMAIN g
          PROVE  /\ p \in Paths \cup {Root}
                 /\ IF IsValue(p) THEN g[p] \in [t : {"s"}, n : Content] ELSE g[p] \in [t : {"A", "O"}, n : Nat]
      <3>1. CASE p \in N
        BY <3>1 DEF Grown
      <3>2. CASE p = d
        BY <1>1, <1>2, <3>2
      <3>3. CASE p \in DOMAIN f \ {d}
        BY <3>3 DEF Grown, Consistent, Records
      <3> QED BY <3>1, <3>2, <3>3 DEF Grown
    <2> QED BY <2>1, <2>2, <2>3 DEF Records
  <1>5. Sized(g)
    <2> SUFFICES ASSUME NEW p \in DOMAIN g, IsDirectory(p) PROVE g[p].n = Cardinality(Members(g, p))
      BY DEF Sized
    <2>1. CASE p \in N
      <3>1. ~IsValue(p) /\ g[p].n = 0
        BY <2>1, OfPath DEF Grown
      <3>2. Members(g, p) = {}
        BY <2>1, GrownMembers
      <3>3. Cardinality({}) = 0
        BY FS_EmptySet
      <3> QED BY <3>1, <3>2, <3>3
    <2>2. CASE p = d
      BY <1>2, <2>2, GrownMembers
    <2>3. CASE p \in DOMAIN f \ {d}
      BY <1>3, <2>3 DEF Consistent, Sized
    <2> QED BY <2>1, <2>2, <2>3 DEF Grown
  <1>6. Dense(g)
    <2> SUFFICES ASSUME NEW p \in DOMAIN g, isArray(g, p)
                 PROVE  {name(m) : m \in Members(g, p)} = {Index(i) : i \in 0 .. g[p].n - 1}
      BY DEF Dense
    <2>1. CASE p \in N
      <3>1. ~IsValue(p) /\ g[p].n = 0
        BY <2>1 DEF Grown, isArray
      <3>2. 0 .. g[p].n - 1 = {}
        BY <3>1
      <3> QED BY <2>1, <3>2, GrownMembers
    <2>2. CASE p = d
      <3>1. isArray(f, d)
        BY <1>1, <1>2, <2>2 DEF isArray
      <3>2. {name(m) : m \in Members(f, d)} = {Index(i) : i \in 0 .. f[d].n - 1}
        BY <1>1, <3>1 DEF Consistent, Dense
      <3>3. {name(m) : m \in N} = {Index(i) : i \in f[d].n .. f[d].n + Cardinality(N) - 1}
        BY <3>1 DEF Grown
      <3>4. 0 .. g[p].n - 1 = (0 .. f[d].n - 1) \cup (f[d].n .. f[d].n + Cardinality(N) - 1)
        BY <1>2, <2>2, GrownMembers
      <3>5. Members(g, p) = Members(f, d) \cup N
        BY <2>2, GrownMembers
      <3>6. {name(m) : m \in Members(g, p)} = {name(m) : m \in Members(f, d)} \cup {name(m) : m \in N}
        BY <3>5
      <3>7. {Index(i) : i \in 0 .. g[p].n - 1}
              = {Index(i) : i \in 0 .. f[d].n - 1} \cup {Index(i) : i \in f[d].n .. f[d].n + Cardinality(N) - 1}
        BY <3>4
      <3> QED BY <3>2, <3>3, <3>6, <3>7
    <2>3. CASE p \in DOMAIN f \ {d}
      <3>1. isArray(f, p)
        BY <1>3, <2>3 DEF isArray
      <3>2. {name(m) : m \in Members(f, p)} = {Index(i) : i \in 0 .. f[p].n - 1}
        BY <2>3, <3>1 DEF Consistent, Dense
      <3> QED BY <1>3, <2>3, <3>2
    <2> QED BY <2>1, <2>2, <2>3 DEF Grown
  <1>7. Tree(g)
    <2> SUFFICES ASSUME NEW p \in DOMAIN g
                 PROVE  (IsValue(p) => asDirectory(p) \notin DOMAIN g) /\ parent(p) \in DOMAIN g
      BY DEF Tree
    <2>1. \A q \in N : name(q) = name(p) /\ parent(q) = parent(p) /\ p \in N => q = p
      BY DEF Grown
    <2>2. CASE p \in N
      <3>1. asDirectory(p) \notin DOMAIN f /\ parent(p) = d
        BY <2>2 DEF Grown
      <3>2. IsValue(p) => asDirectory(p) \notin N
        BY <2>1, <2>2, OfPath DEF Grown
      <3> QED BY <1>1, <3>1, <3>2 DEF Grown
    <2>3. CASE p \in DOMAIN f
      <3>1. p \in Paths \cup {Root} /\ parent(p) \in DOMAIN f /\ (IsValue(p) => asDirectory(p) \notin DOMAIN f)
        BY <2>3 DEF Consistent, Records, Tree
      <3>2. ASSUME IsValue(p) PROVE asDirectory(p) \notin N
        <4>1. p \in Paths /\ p = basePath(p) /\ basePath(asDirectory(p)) = basePath(p)
          BY <3>1, <3>2, OfPath, OfRoot
        <4> QED BY <2>3, <4>1 DEF Grown
      <3> QED BY <3>1, <3>2 DEF Grown
    <2> QED BY <2>2, <2>3 DEF Grown
  <1> QED BY <1>4, <1>5, <1>6, <1>7 DEF Consistent

\* A value with another content.
LEMMA Overwritten ==
  ASSUME NEW f, Consistent(f), NEW p \in DOMAIN f, IsValue(p), NEW v \in [t : {"s"}, n : Content]
  PROVE  Consistent([f EXCEPT ![p] = v])
  <1> DEFINE g == [f EXCEPT ![p] = v]
  <1>1. p # Root /\ p \in Paths /\ f[p].t = "s" /\ v.t = "s"
    BY OfRoot DEF Consistent, Records
  <1>2. DOMAIN g = DOMAIN f /\ g[p] = v /\ \A q \in DOMAIN f \ {p} : g[q] = f[q]
    OBVIOUS
  <1> HIDE DEF g
  <1>3. \A q \in DOMAIN f : Members(g, q) = Members(f, q) /\ isArray(g, q) = isArray(f, q)
    BY <1>1, <1>2 DEF Members, isArray
  <1>4. ~isArray(f, p) /\ ~IsDirectory(p)
    BY <1>1, OfPath DEF isArray
  <1>5. Records(g)
    BY <1>1, <1>2 DEF Consistent, Records
  <1>6. Sized(g)
    BY <1>2, <1>3, <1>4 DEF Consistent, Sized
  <1>7. Dense(g)
    <2> SUFFICES ASSUME NEW d \in DOMAIN f, isArray(f, d)
                 PROVE  {name(m) : m \in Members(g, d)} = {Index(i) : i \in 0 .. g[d].n - 1}
      BY <1>2, <1>3 DEF Dense
    <2>1. {name(m) : m \in Members(f, d)} = {Index(i) : i \in 0 .. f[d].n - 1}
      BY DEF Consistent, Dense
    <2> QED BY <1>2, <1>3, <1>4, <2>1
  <1>8. Tree(g)
    BY <1>2 DEF Consistent, Tree
  <1> QED BY <1>5, <1>6, <1>7, <1>8 DEF Consistent, g

\* A value taken out of an object, which has been counted down.
LEMMA Shrunk ==
  ASSUME NEW f, Consistent(f), NEW p \in DOMAIN f, IsValue(p), ~isArray(f, parent(p)),
         NEW g, g = setContainerSize(Without(f, p), parent(p), f[parent(p)].n - 1)
  PROVE  Consistent(g)
  <1> DEFINE d == parent(p)
  <1>1. p # Root /\ p \in Paths /\ d # p /\ ~IsValue(d)
    BY OfRoot, OfPath DEF Consistent, Records
  <1>2. d \in DOMAIN f /\ f[d] \in [t : {"A", "O"}, n : Nat] /\ IsDirectory(d)
    BY <1>1, OfRoot, OfPath DEF Consistent, Records, Tree
  <1>3. f[d].n = Cardinality(Members(f, d)) /\ p \in Members(f, d)
    BY <1>1, <1>2 DEF Consistent, Sized, Members
  <1> HIDE DEF d
  <1>4. IsFiniteSet(Members(f, d)) /\ Cardinality(Members(f, d)) < MaxRecords
    BY <1>2, FewMembers DEF Consistent, Records
  <1>5. Cardinality(Members(f, d) \ {p}) = f[d].n - 1
    BY <1>3, <1>4, FS_RemoveElement
  <1>6. f[d].n - 1 \in Nat /\ size_t(f[d].n - 1) = f[d].n - 1
    <2>1. Cardinality(Members(f, d) \ {p}) \in Nat
      BY <1>4, FS_RemoveElement, FS_CardinalityType
    <2> QED BY <1>2, <1>3, <1>4, <1>5, <2>1, StoreAssumption DEF size_t
  <1>7. /\ DOMAIN g = DOMAIN f \ {p} /\ g[d] = [f[d] EXCEPT !.n = f[d].n - 1]
        /\ \A q \in DOMAIN f \ {p, d} : g[q] = f[q]
    BY <1>1, <1>2, <1>6 DEF setContainerSize, Without, d
  <1>8. Members(g, d) = Members(f, d) \ {p} /\ \A q \in DOMAIN f \ {d} : Members(g, q) = Members(f, q)
    BY <1>7 DEF Members, d
  <1>9. g[d] \in [t : {"A", "O"}, n : Nat] /\ g[d].t = f[d].t /\ g[d].n = f[d].n - 1
    BY <1>2, <1>6, <1>7
  <1>10. Records(g)
    <2>1. IsFiniteSet(DOMAIN g) /\ Cardinality(DOMAIN g) <= MaxRecords
      <3>1. IsFiniteSet(DOMAIN f) /\ Cardinality(DOMAIN f) <= MaxRecords /\ Cardinality(DOMAIN f) \in Nat
        BY FS_CardinalityType DEF Consistent, Records
      <3>2. IsFiniteSet(DOMAIN f \ {p}) /\ Cardinality(DOMAIN f \ {p}) = Cardinality(DOMAIN f) - 1
        BY <3>1, FS_RemoveElement
      <3> QED BY <1>7, <3>1, <3>2, StoreAssumption
    <2>2. Root \in DOMAIN g /\ g[Root].t = "O"
      BY <1>1, <1>7, <1>9 DEF Consistent, Records
    <2> QED BY <1>1, <1>7, <1>9, <2>1, <2>2 DEF Consistent, Records, d
  <1>11. Sized(g)
    <2> SUFFICES ASSUME NEW q \in DOMAIN g, IsDirectory(q) PROVE g[q].n = Cardinality(Members(g, q))
      BY DEF Sized
    <2>1. CASE q = d
      BY <1>5, <1>8, <1>9, <2>1
    <2>2. CASE q # d
      <3>1. q \in DOMAIN f \ {d} /\ g[q] = f[q] /\ Members(g, q) = Members(f, q)
        BY <1>7, <1>8, <2>2
      <3>2. f[q].n = Cardinality(Members(f, q))
        BY <3>1 DEF Consistent, Sized
      <3> QED BY <3>1, <3>2
    <2> QED BY <2>1, <2>2
  <1>12. Dense(g)
    <2> SUFFICES ASSUME NEW q \in DOMAIN g, isArray(g, q)
                 PROVE  {name(m) : m \in Members(g, q)} = {Index(i) : i \in 0 .. g[q].n - 1}
      BY DEF Dense
    <2>1. q \in DOMAIN f \ {p, d} /\ isArray(f, q)
      BY <1>2, <1>7, <1>9 DEF isArray, d
    <2>2. {name(m) : m \in Members(f, q)} = {Index(i) : i \in 0 .. f[q].n - 1}
      BY <2>1 DEF Consistent, Dense
    <2> QED BY <1>7, <1>8, <2>1, <2>2
  <1>13. Tree(g)
    <2>1. \A q \in DOMAIN g : parent(q) # p
      BY <1>1, <1>7, OfPath, OfRoot DEF Consistent, Records
    <2> QED BY <1>7, <2>1 DEF Consistent, Tree
  <1> QED BY <1>10, <1>11, <1>12, <1>13 DEF Consistent

\* A new element is in bounds only right behind the last one.
LEMMA NewElement ==
  ASSUME NEW f, Consistent(f), NEW p \in Paths, isArray(f, parent(p)),
         {basePath(p), asDirectory(p)} \cap DOMAIN f = {},
         boundsCheck(f, p), name(p) \notin DOMAIN Numbered
  PROVE  name(p) = Index(f[parent(p)].n)
  <1> DEFINE d == parent(p)
  <1>1. d \in DOMAIN f /\ f[d].t = "A" /\ d # Root
    BY DEF isArray, Consistent, Records
  <1>2. f[d].n \in Nat
    BY <1>1, OfPath DEF Consistent, Records
  <1>3. name(p) \in 1 .. Star - 1 /\ name(p) - 1 <= f[d].n
    BY <1>1 DEF boundsCheck, Parses, parseIndex, IsIndex, IndexOf
  <1>4. name(p) \notin {name(m) : m \in Members(f, d)}
    <2> SUFFICES ASSUME NEW m \in Members(f, d), name(m) = name(p) PROVE FALSE
      OBVIOUS
    <2>1. m \in DOMAIN f /\ parent(m) = d /\ m \in Paths
      BY <1>1, OfRoot DEF Members, Consistent, Records
    <2>2. basePath(m) = basePath(p) /\ asDirectory(m) = asDirectory(p)
      BY <2>1, OneName
    <2> QED BY <2>1, <2>2, OfPath
  <1>5. {name(m) : m \in Members(f, d)} = {Index(i) : i \in 0 .. f[d].n - 1}
    BY <1>1 DEF Consistent, Dense
  <1>6. name(p) - 1 \notin 0 .. f[d].n - 1
    <2> SUFFICES ASSUME name(p) - 1 \in 0 .. f[d].n - 1 PROVE FALSE
      OBVIOUS
    <2>1. Index(name(p) - 1) = name(p)
      BY <1>3, StoreAssumption DEF Index
    <2> QED BY <1>4, <1>5, <2>1
  <1> QED BY <1>2, <1>3, <1>6, StoreAssumption DEF Index

\* A record written at a free name within bounds, and counted by its parent: in
\* an array the bounds check and the free name together make it the next element.
LEMMA OneMore ==
  ASSUME NEW f, Consistent(f), NEW p \in Paths, parent(p) \in DOMAIN f,
         {basePath(p), asDirectory(p)} \cap DOMAIN f = {},
         boundsCheck(f, p), InElements(f, p),
         NEW v, IF IsValue(p) THEN v \in [t : {"s"}, n : Content] ELSE v \in [t : {"A", "O"}, n : {0}],
         NEW g, DOMAIN g = DOMAIN f \cup {p}, g[p] = v,
         g[parent(p)] = [f[parent(p)] EXCEPT !.n = size_t(f[parent(p)].n + 1)],
         \A q \in DOMAIN f \ {parent(p)} : g[q] = f[q],
         Cardinality(DOMAIN g) <= MaxRecords
  PROVE  Consistent(g)
  <1> DEFINE d == parent(p)
  <1>1. IsDirectory(d)
    BY OfPath, OfRoot DEF Consistent, Records
  <1>2. IsFiniteSet({p}) /\ Cardinality({p}) = 1
    BY FS_Singleton
  <1>3. isArray(f, d) => {name(q) : q \in {p}} = {Index(i) : i \in f[d].n .. f[d].n + 1 - 1}
    <2> SUFFICES ASSUME isArray(f, d)
                 PROVE  {name(p)} = {Index(i) : i \in f[d].n .. f[d].n + 1 - 1}
      OBVIOUS
    <2>1. name(p) = Index(f[d].n)
      BY NewElement DEF InElements
    <2>2. f[d].n \in Nat
      BY OfPath DEF Consistent, Records
    <2>3. f[d].n .. f[d].n + 1 - 1 = {f[d].n}
      BY <2>2
    <2> QED BY <2>1, <2>3
  <1>4. Grown(f, d, {p}, g)
    BY <1>1, <1>2, <1>3 DEF Grown
  <1> QED BY <1>4, Grows

\* set writes within bounds, over a value or as one record more.
LEMMA SetKeeps ==
  ASSUME NEW f, Consistent(f), NEW p \in Bases, NEW v \in [t : {"s"}, n : Content],
         InElements(f, p), NewRecord(f, p), Cardinality(DOMAIN set(f, p, v).db) <= MaxRecords
  PROVE  Consistent(set(f, p, v).db)
  <1>1. p \in Paths /\ IsValue(p) /\ basePath(p) = p
    BY OfBase DEF Paths
  <1>2. CASE ~boundsCheck(f, p)
    BY <1>2 DEF set, Threw
  <1>3. CASE boundsCheck(f, p) /\ p \in DOMAIN f
    <2>1. set(f, p, v).db = [f EXCEPT ![p] = v]
      BY <1>3 DEF set, replace, Returned
    <2> QED BY <1>1, <1>3, <2>1, Overwritten
  <1>4. CASE boundsCheck(f, p) /\ p \notin DOMAIN f
    <2> DEFINE g == set(f, p, v).db
               d == parent(p)
    <2>1. d \in DOMAIN f /\ {basePath(p), asDirectory(p)} \cap DOMAIN f = {} /\ d # p
      BY <1>1, <1>4 DEF NewRecord
    <2>2. g = setContainerSize(With(f, p, v), d, f[d].n + 1)
      BY <1>4, <2>1 DEF set, add, changeContainerSize, Returned, With
    <2>3. /\ DOMAIN g = DOMAIN f \cup {p} /\ g[p] = v
          /\ g[d] = [f[d] EXCEPT !.n = size_t(f[d].n + 1)]
          /\ \A q \in DOMAIN f \ {d} : g[q] = f[q]
      BY <1>4, <2>1, <2>2 DEF setContainerSize, With
    <2> HIDE DEF g
    <2>4. Consistent(g)
      BY <1>1, <1>4, <2>1, <2>3, OneMore DEF g
    <2> QED BY <2>4 DEF g
  <1> QED BY <1>2, <1>3, <1>4

\* makeArray and makeObject refuse or leave one empty directory more.
LEMMA MakeKeeps ==
  ASSUME NEW f, Consistent(f), NEW p \in Directories, NEW kind \in {"A", "O"},
         InElements(f, p), Cardinality(DOMAIN makeDirectory(f, p, kind).db) <= MaxRecords
  PROVE  Consistent(makeDirectory(f, p, kind).db)
  <1>1. CASE p \in DOMAIN f \/ basePath(p) \in DOMAIN f \/ ~boundsCheck(f, p) \/ parent(p) \notin DOMAIN f
    BY <1>1 DEF makeDirectory, changeContainerSize, Then, Threw
  <1>2. CASE ~(p \in DOMAIN f \/ basePath(p) \in DOMAIN f \/ ~boundsCheck(f, p) \/ parent(p) \notin DOMAIN f)
    <2> DEFINE g == makeDirectory(f, p, kind).db
               d == parent(p)
               v == [t |-> kind, n |-> 0]
    <2>1. p \in Paths /\ ~IsValue(p) /\ asDirectory(p) = p
      <3>1. p # Root
        BY <1>2 DEF Consistent, Records
      <3>2. PICK b \in Bases : p = asDirectory(b)
        BY <3>1 DEF Directories
      <3> QED BY <3>2, OfDirectory DEF Paths
    <2>2. {basePath(p), asDirectory(p)} \cap DOMAIN f = {} /\ d \in DOMAIN f /\ p # d
      BY <1>2, <2>1
    <2>3. g = With(setContainerSize(f, d, f[d].n + 1), p, v)
      BY <1>2, <2>2 DEF makeDirectory, changeContainerSize, Then, Returned
    <2>4. /\ DOMAIN g = DOMAIN f \cup {p} /\ g[p] = v
          /\ g[d] = [f[d] EXCEPT !.n = size_t(f[d].n + 1)]
          /\ \A q \in DOMAIN f \ {d} : g[q] = f[q]
      BY <1>2, <2>2, <2>3 DEF setContainerSize, With
    <2>5. v \in [t : {"A", "O"}, n : {0}] /\ boundsCheck(f, p)
      BY <1>2
    <2> HIDE DEF g, v
    <2>6. Consistent(g)
      BY <2>1, <2>2, <2>4, <2>5, OneMore DEF g
    <2> QED BY <2>6 DEF g
  <1> QED BY <1>1, <1>2

\* remove of a value that lies in no array.
LEMMA RemoveKeeps ==
  ASSUME NEW f, Consistent(f), NEW p, IsValue(p), ~isArray(f, parent(p))
  PROVE  Consistent(removeValue(f, p).db)
  <1>1. CASE p \notin DOMAIN f \/ f[p].n = 0
    BY <1>1 DEF removeValue, Threw
  <1>2. CASE ~(p \notin DOMAIN f \/ f[p].n = 0)
    <2>1. ~IsDirectory(p) /\ parent(p) \in DOMAIN f
      BY <1>2, OfPath, OfRoot DEF Consistent, Records, Tree
    <2>2. removeValue(f, p).db = setContainerSize(Without(f, p), parent(p), f[parent(p)].n - 1)
      BY <1>2, <2>1 DEF removeValue, Uncount, Returned
    <2> QED BY <1>2, <2>2, Shrunk
  <1> QED BY <1>1, <1>2

\* move of a value over another one, whose record takes the content.
LEMMA MoveKeeps ==
  ASSUME NEW f, Consistent(f), NEW s \in DOMAIN f, IsValue(s), ~isArray(f, parent(s)),
         NEW d \in DOMAIN f, IsValue(d), s # d
  PROVE  Consistent(moveValue(f, s, d).db)
  <1>1. CASE ~boundsCheck(f, d)
    BY <1>1 DEF moveValue, Threw
  <1>2. CASE boundsCheck(f, d)
    <2> DEFINE g == [f EXCEPT ![d] = f[s]]
    <2>1. f[s] \in [t : {"s"}, n : Content] /\ f[d].t = "s"
      BY DEF Consistent, Records
    <2>2. Consistent(g)
      BY <2>1, Overwritten
    <2>3. ~isArray(g, parent(s))
      BY <2>1 DEF isArray
    <2>4. replaceBy(f, s, d).db = g
      BY DEF replaceBy, Returned
    <2> HIDE DEF g
    <2>5. Consistent(removeValue(g, s).db)
      BY <2>2, <2>3, RemoveKeeps
    <2>6. moveValue(f, s, d).db = removeValue(g, s).db
      BY <1>2, <2>4 DEF moveValue, Then, Returned
    <2> QED BY <2>5, <2>6
  <1> QED BY <1>1, <1>2

\* copy of a value is a set.
LEMMA CopyKeeps ==
  ASSUME NEW f, Consistent(f), NEW s \in DOMAIN f, IsValue(s), NEW d \in Bases,
         InElements(f, d), NewRecord(f, d), Cardinality(DOMAIN copyValue(f, s, d).db) <= MaxRecords
  PROVE  Consistent(copyValue(f, s, d).db)
  <1>1. f[s] \in [t : {"s"}, n : Content]
    BY DEF Consistent, Records
  <1>2. CASE exists(f, d)
    BY <1>2 DEF copyValue, Threw
  <1>3. CASE ~exists(f, d)
    BY <1>1, <1>3, SetKeeps DEF copyValue
  <1> QED BY <1>2, <1>3
-----------------------------------------------------------------------------
\* Sets that correspond one to one have the same number of elements.
LEMMA OneToOne ==
  ASSUME NEW S, IsFiniteSet(S), NEW T, NEW h \in [S -> T],
         \A x, y \in S : h[x] = h[y] => x = y, \A t \in T : \E x \in S : h[x] = t
  PROVE  IsFiniteSet(T) /\ Cardinality(T) = Cardinality(S)
  <1>1. h \in Bijection(S, T)
    BY DEF Bijection, Injection, Surjection, IsInjective
  <1>2. ExistsBijection(S, T)
    BY <1>1 DEF ExistsBijection
  <1> QED BY <1>2, FS_Bijection

\* The names of elements, as many as the array lists, are all there are.
LEMMA AllNames ==
  ASSUME NEW S, IsFiniteSet(S), NEW n \in Nat, Cardinality(S) = n,
         \A x \in S : name(x) \in {Index(i) : i \in 0 .. n - 1},
         \A x, y \in S : name(x) = name(y) => x = y
  PROVE  {name(x) : x \in S} = {Index(i) : i \in 0 .. n - 1}
  <1> DEFINE T == {name(x) : x \in S}
             h == [x \in S |-> name(x)]
             I == {Index(i) : i \in 0 .. n - 1}
             k == [i \in 0 .. n - 1 |-> Index(i)]
  <1>1. IsFiniteSet(T) /\ Cardinality(T) = n
    <2>1. h \in [S -> T] /\ \A t \in T : \E x \in S : h[x] = t
      OBVIOUS
    <2>2. \A x, y \in S : h[x] = h[y] => x = y
      OBVIOUS
    <2> HIDE DEF h, T
    <2> QED BY <2>1, <2>2, OneToOne
  <1>2. IsFiniteSet(I) /\ Cardinality(I) = n
    <2>1. k \in [0 .. n - 1 -> I] /\ \A t \in I : \E i \in 0 .. n - 1 : k[i] = t
      OBVIOUS
    <2>2. \A i, j \in 0 .. n - 1 : k[i] = k[j] => i = j
      BY DEF Index
    <2>3. IsFiniteSet(0 .. n - 1) /\ Cardinality(0 .. n - 1) = n
      BY FS_Interval
    <2> HIDE DEF k, I
    <2> QED BY <2>1, <2>2, <2>3, OneToOne
  <1>3. T \subseteq I
    OBVIOUS
  <1> QED BY <1>1, <1>2, <1>3, FS_Subset

\* A text that names everything there is leaves itself.
LEMMA LoadKeeps ==
  ASSUME NEW f, NEW text \in Files, LoadProper(f, text), Cardinality(DOMAIN text) <= MaxRecords
  PROVE  Consistent(load(f, text).db)
  <1> DEFINE g == [q \in DOMAIN text |-> text[q]]
  <1>1. load(f, text).db = g
    BY DEF load, Over, Returned, LoadProper
  <1>2. JsonText(text) /\ DOMAIN g = DOMAIN text /\ \A p \in DOMAIN text : g[p] = text[p]
    BY StoreAssumption
  <1> HIDE DEF g
  <1>3. \A d \in DOMAIN text : Members(g, d) = Members(text, d) /\ isArray(g, d) = isArray(text, d)
    BY <1>2 DEF Members, isArray
  <1>4. Records(g)
    BY <1>2 DEF JsonText, Records
  <1>5. Sized(g)
    BY <1>2, <1>3 DEF LoadProper, Sized
  <1>6. Tree(g)
    BY <1>2 DEF JsonText, Tree
  <1>7. Dense(g)
    <2> SUFFICES ASSUME NEW d \in DOMAIN g, isArray(g, d)
                 PROVE  {name(m) : m \in Members(g, d)} = {Index(i) : i \in 0 .. g[d].n - 1}
      BY DEF Dense
    <2>1. /\ IsDirectory(d) /\ g[d].n \in Nat /\ d # Root
          /\ \A m \in Members(g, d) : name(m) \in {Index(i) : i \in 0 .. g[d].n - 1}
      <3>1. d # Root /\ d \in Paths
        BY <1>2, <1>4 DEF isArray, Records
      <3>2. ~IsValue(d) /\ IsDirectory(d)
        BY <1>4, <3>1, OfPath DEF isArray, Records
      <3> QED BY <1>2, <1>3, <1>4, <3>1, <3>2 DEF JsonText, Records
    <2>2. IsFiniteSet(Members(g, d)) /\ Cardinality(Members(g, d)) = g[d].n
      BY <1>4, <1>5, <2>1, FewMembers DEF Records, Sized
    <2>3. ASSUME NEW x \in Members(g, d), NEW y \in Members(g, d), name(x) = name(y) PROVE x = y
      <3>1. x \in Paths /\ y \in Paths /\ x \in DOMAIN g /\ y \in DOMAIN g /\ parent(x) = parent(y)
        BY <1>4, <2>1, OfRoot DEF Members, Records
      <3>2. basePath(x) = basePath(y) /\ asDirectory(x) = asDirectory(y)
        BY <2>3, <3>1, OneName
      <3> QED BY <1>6, <3>1, <3>2, OfPath DEF Tree
    <2> QED BY <2>1, <2>2, <2>3, AllNames
  <1> QED BY <1>1, <1>4, <1>5, <1>6, <1>7 DEF Consistent

\* truncate and the first start leave the root alone.
LEMMA EmptyConsistent == Consistent([p \in {Root} |-> [t |-> "O", n |-> 0]])
  <1> DEFINE g == [p \in {Root} |-> [t |-> "O", n |-> 0]]
  <1>1. /\ IsFiniteSet({Root}) /\ Cardinality({Root}) = 1 /\ DOMAIN g = {Root}
        /\ g[Root] = [t |-> "O", n |-> 0]
    BY FS_Singleton
  <1>2. Members(g, Root) = {} /\ Cardinality({}) = 0
    BY FS_EmptySet DEF Members
  <1> HIDE DEF g
  <1>3. g[Root] \in [t : {"A", "O"}, n : Nat] /\ g[Root].n = 0 /\ g[Root].t = "O"
    BY <1>1
  <1>4. Records(g)
    BY <1>1, <1>3, OfRoot, StoreAssumption DEF Records
  <1>5. Sized(g)
    BY <1>1, <1>2, <1>3 DEF Sized
  <1>6. Dense(g) /\ Tree(g)
    BY <1>1, <1>3, OfRoot DEF Dense, Tree, isArray
  <1> QED BY <1>4, <1>5, <1>6 DEF Consistent, g
-----------------------------------------------------------------------------
\* What Answer asks of a database: room for its records outside of /tmp.
Admitted(g) ==
  /\ Cardinality({p \in DOMAIN g : p[1] # tmp}) <= MaxRecords
  /\ \A p \in DOMAIN g : p \in Paths \cup {Root} \/ p[1] = tmp

\* No path in use lies in /tmp.
LEMMA OutsideTmp ==
  ASSUME NEW p \in Paths \cup {Root}
  PROVE  p[1] # tmp
  <1>1. CASE p = Root
    BY <1>1, StoreAssumption DEF Root
  <1>2. CASE p \in Bases
    BY <1>2, StoreAssumption
  <1>3. ASSUME NEW b \in Bases, p = asDirectory(b) PROVE p[1] # tmp
    <2>1. b \in Seq(Nat) /\ b # <<>> /\ b[1] # tmp /\ p = Append(b, Dot)
      BY <1>3, OfBase, StoreAssumption
    <2> QED BY <2>1
  <1> QED BY <1>1, <1>2, <1>3 DEF Paths

\* A database within the bounds and without /tmp has few records.
LEMMA Admission ==
  ASSUME NEW g, Admitted(g), \A p \in DOMAIN g : p \in Paths \cup {Root} \/ p[1] # tmp
  PROVE  DOMAIN g \subseteq Paths \cup {Root} /\ Cardinality(DOMAIN g) <= MaxRecords
  <1>1. DOMAIN g \subseteq Paths \cup {Root}
    BY DEF Admitted
  <1>2. {p \in DOMAIN g : p[1] # tmp} = DOMAIN g
    BY <1>1, OutsideTmp
  <1> QED BY <1>1, <1>2 DEF Admitted

\* The path of an element of the array b.
LEMMA OfElement ==
  ASSUME NEW b \in Bases, NEW i \in Nat
  PROVE  LET p == withChild(asDirectory(b), Index(i))
         IN /\ p[1] # tmp /\ p # Root /\ p = Append(b, Index(i))
            /\ p \in Paths => IsValue(p) /\ parent(p) = asDirectory(b) /\ name(p) = Index(i)
  <1> DEFINE p == Append(b, Index(i))
  <1>1. b \in Seq(Nat) /\ b # <<>> /\ b[1] # tmp /\ Index(i) \in Nat \ {0}
    BY StoreAssumption DEF Index
  <1>2. p[1] # tmp /\ Last(p) = Index(i) /\ Front(p) = b
    BY <1>1 DEF Last, Front
  <1>3. Last(Root) = Dot
    BY DEF Last, Root
  <1>4. withChild(asDirectory(b), Index(i)) = p
    BY OfDirectory DEF withChild
  <1> HIDE DEF p
  <1>5. ASSUME p \in Paths PROVE IsValue(p) /\ parent(p) = asDirectory(b) /\ name(p) = Index(i)
    <2>1. ~IsDirectory(p) /\ ~IsWildcard(p)
      BY <1>1, <1>2, <1>5, OfPath DEF IsDirectory, Dot
    <2>2. IsValue(p) /\ basePath(p) = p
      BY <2>1 DEF IsValue, basePath
    <2>3. p # <<>>
      BY <1>1 DEF p
    <2> QED BY <1>2, <2>1, <2>2, <2>3, OfBase DEF parent, name
  <1> QED BY <1>1, <1>2, <1>3, <1>4, <1>5 DEF p, Dot

\* The n elements that follow the first s of array d.
Elements(d, s, n) == {withChild(d, Index(s + i - 1)) : i \in 1 .. n}

\* g is f with the values vs behind the elements of array d.
Appended(f, d, vs, g) ==
  LET s == f[d].n
      N == Elements(d, s, Len(vs))
  IN /\ DOMAIN g = DOMAIN f \cup N /\ N \cap DOMAIN f = {}
     /\ g[d] = [f[d] EXCEPT !.n = size_t(s + Len(vs))]
     /\ \A q \in DOMAIN f \ {d} : g[q] = f[q]
     /\ \A p \in N : g[p] = [t |-> "s", n |-> vs[IndexOf(name(p)) - s + 1]]

\* append finds none of its elements taken, so it writes all of them.
LEMMA AppendResult ==
  ASSUME NEW f, Consistent(f), NEW d \in Directories, NEW vs \in Batches, isArray(f, d)
  PROVE  appendValues(f, d, vs).ok = TRUE /\ Appended(f, d, vs, appendValues(f, d, vs).db)
  <1> DEFINE n == Len(vs)
             s == f[d].n
             target(i) == withChild(d, Index(s + i - 1))
             N == {target(i) : i \in 1 .. n}
             new == [p \in N |-> [t |-> "s", n |-> vs[IndexOf(name(p)) - s + 1]]]
             g == setContainerSize(Over(f, new), d, s + n)
  <1>1. vs \in Seq(Content) /\ n \in Nat /\ DOMAIN vs = 1 .. n
    BY StoreAssumption
  <1>2. d \in DOMAIN f /\ d # Root
    BY DEF isArray, Consistent, Records
  <1>3. PICK b \in Bases : d = asDirectory(b)
    BY <1>2 DEF Directories
  <1>4. ~IsValue(d) /\ s \in Nat
    BY <1>2, <1>3, OfDirectory DEF Consistent, Records
  <1>5. {name(m) : m \in Members(f, d)} = {Index(i) : i \in 0 .. s - 1}
    BY <1>2 DEF Consistent, Dense
  <1> HIDE DEF n, s
  <1>6. ASSUME NEW i \in 1 .. n, target(i) \in DOMAIN f PROVE FALSE
    <2>1. s + i - 1 \in Nat
      BY <1>1, <1>4
    <2>2. /\ target(i) # Root
          /\ target(i) \in Paths =>
               IsValue(target(i)) /\ parent(target(i)) = d /\ name(target(i)) = Index(s + i - 1)
      BY <1>3, <2>1, OfElement
    <2>3. target(i) \in Paths
      BY <1>6, <2>2 DEF Consistent, Records
    <2>4. target(i) \in Members(f, d) /\ name(target(i)) = Index(s + i - 1)
      BY <1>4, <1>6, <2>2, <2>3 DEF Members
    <2>5. Index(s + i - 1) \notin {Index(j) : j \in 0 .. s - 1}
      BY <1>1, <1>4 DEF Index
    <2> QED BY <1>5, <2>4, <2>5
  <1>7. {i \in DOMAIN vs : withChild(d, Index(f[d].n + i - 1)) \in DOMAIN f} = {}
    BY <1>1, <1>6 DEF s
  <1>8. appendValues(f, d, vs) = Returned(g, n)
    BY <1>7 DEF appendValues, n, s
  <1>9. /\ DOMAIN g = DOMAIN f \cup N /\ N \cap DOMAIN f = {}
        /\ g[d] = [f[d] EXCEPT !.n = size_t(s + n)]
        /\ \A q \in DOMAIN f \ {d} : g[q] = f[q]
        /\ \A p \in N : g[p] = [t |-> "s", n |-> vs[IndexOf(name(p)) - s + 1]]
    BY <1>2, <1>6 DEF Over, setContainerSize
  <1> HIDE DEF g, N
  <1>10. appendValues(f, d, vs).ok = TRUE /\ appendValues(f, d, vs).db = g
    BY <1>8 DEF Returned
  <1>11. N = Elements(d, s, n)
    BY DEF Elements, N
  <1>12. Appended(f, d, vs, g)
    BY <1>9, <1>11 DEF Appended, n, s
  <1> QED BY <1>10, <1>12

\* The values that append writes are new elements, one for each.
LEMMA AppendGrows ==
  ASSUME NEW f, Consistent(f), NEW d \in Directories, NEW vs \in Batches, isArray(f, d),
         Admitted(appendValues(f, d, vs).db)
  PROVE  LET N == Elements(d, f[d].n, Len(vs))
             g == appendValues(f, d, vs).db
         IN Grown(f, d, N, g) /\ Cardinality(DOMAIN g) <= MaxRecords /\ Cardinality(N) = Len(vs)
  <1> DEFINE n == Len(vs)
             s == f[d].n
             target(i) == withChild(d, Index(s + i - 1))
             N == {target(i) : i \in 1 .. n}
             g == appendValues(f, d, vs).db
  <1>1. vs \in Seq(Content) /\ n \in Nat /\ DOMAIN vs = 1 .. n
    BY StoreAssumption
  <1>2. d \in DOMAIN f /\ d # Root /\ f[d].t = "A"
    BY DEF isArray, Consistent, Records
  <1>3. PICK b \in Bases : d = asDirectory(b)
    BY <1>2 DEF Directories
  <1>4. IsDirectory(d) /\ ~IsValue(d) /\ d \in Paths /\ s \in Nat /\ f[d] \in [t : {"A", "O"}, n : Nat]
    BY <1>2, <1>3, OfDirectory DEF Paths, Consistent, Records
  <1>5. {name(m) : m \in Members(f, d)} = {Index(i) : i \in 0 .. s - 1}
    BY <1>2 DEF Consistent, Dense
  <1>6. n = Len(vs) /\ s = f[d].n /\ N = Elements(d, s, n)
    BY DEF Elements
  <1> HIDE DEF N, n, s
  <1>7. /\ DOMAIN g = DOMAIN f \cup N /\ N \cap DOMAIN f = {}
        /\ g[d] = [f[d] EXCEPT !.n = size_t(s + n)]
        /\ \A q \in DOMAIN f \ {d} : g[q] = f[q]
        /\ \A p \in N : g[p] = [t |-> "s", n |-> vs[IndexOf(name(p)) - s + 1]]
    <2>1. Appended(f, d, vs, g)
      BY AppendResult
    <2> QED BY <1>6, <2>1 DEF Appended
  <1>8. Admitted(g)
    OBVIOUS
  <1> HIDE DEF g
  <1>9. ASSUME NEW i \in 1 .. n
        PROVE  /\ target(i)[1] # tmp /\ target(i) # Root
               /\ target(i) \in Paths =>
                    IsValue(target(i)) /\ parent(target(i)) = d /\ name(target(i)) = Index(s + i - 1)
    <2>1. s + i - 1 \in Nat
      BY <1>1, <1>4
    <2> QED BY <1>3, <2>1, OfElement
  <1>10. N \subseteq Paths /\ Cardinality(DOMAIN g) <= MaxRecords
    <2>1. \A p \in DOMAIN g : p \in Paths \cup {Root} \/ p[1] # tmp
      BY <1>7, <1>9 DEF Consistent, Records, N
    <2>2. DOMAIN g \subseteq Paths \cup {Root} /\ Cardinality(DOMAIN g) <= MaxRecords
      BY <1>8, <2>1, Admission
    <2> QED BY <1>7, <1>9, <2>2 DEF N
  <1>11. \A i \in 1 .. n : IsValue(target(i)) /\ parent(target(i)) = d /\ name(target(i)) = Index(s + i - 1)
    BY <1>9, <1>10 DEF N
  <1>12. IsFiniteSet(N) /\ Cardinality(N) = n
    <2> DEFINE h == [i \in 1 .. n |-> target(i)]
    <2>1. h \in [1 .. n -> N] /\ \A p \in N : \E i \in 1 .. n : h[i] = p
      BY DEF N
    <2>2. ASSUME NEW i \in 1 .. n, NEW j \in 1 .. n, h[i] = h[j] PROVE i = j
      <3>1. Index(s + i - 1) = Index(s + j - 1)
        BY <1>11, <2>2
      <3> QED BY <1>1, <1>4, <3>1 DEF Index
    <2>3. IsFiniteSet(1 .. n) /\ Cardinality(1 .. n) = n
      BY <1>1, FS_Interval
    <2> HIDE DEF h
    <2> QED BY <2>1, <2>2, <2>3, OneToOne
  <1>13. \A p \in N : parent(p) = d /\ {basePath(p), asDirectory(p)} \cap DOMAIN f = {}
    <2> SUFFICES ASSUME NEW i \in 1 .. n, asDirectory(target(i)) \in DOMAIN f PROVE FALSE
      BY <1>7, <1>10, <1>11, OfPath DEF N
    <2>1. name(asDirectory(target(i))) = Index(s + i - 1) /\ parent(asDirectory(target(i))) = d
      BY <1>10, <1>11, OfPath DEF N
    <2>2. asDirectory(target(i)) # d
      BY <1>10, <1>11, OfPath DEF N
    <2>3. asDirectory(target(i)) \in Members(f, d)
      BY <2>1, <2>2 DEF Members
    <2>4. Index(s + i - 1) \notin {Index(j) : j \in 0 .. s - 1}
      BY <1>1, <1>4 DEF Index
    <2> QED BY <1>5, <2>1, <2>3, <2>4
  <1>14. {name(p) : p \in N} = {Index(i) : i \in s .. s + n - 1}
    <2>1. {name(p) : p \in N} = {Index(s + i - 1) : i \in 1 .. n}
      BY <1>11 DEF N
    <2>2. \A j \in s .. s + n - 1 : j - s + 1 \in 1 .. n /\ s + (j - s + 1) - 1 = j
      BY <1>1, <1>4
    <2>3. \A i \in 1 .. n : s + i - 1 \in s .. s + n - 1
      BY <1>1, <1>4
    <2> QED BY <2>1, <2>2, <2>3
  <1>15. \A p, q \in N : name(p) = name(q) => p = q
    BY <1>1, <1>4, <1>11 DEF Index, N
  <1>16. \A p \in N : IsValue(p) /\ g[p] \in [t : {"s"}, n : Content]
    <2> SUFFICES ASSUME NEW i \in 1 .. n PROVE g[target(i)] \in [t : {"s"}, n : Content]
      BY <1>11 DEF N
    <2>1. IndexOf(name(target(i))) - s + 1 = i /\ vs[i] \in Content
      <3>1. name(target(i)) = Index(s + i - 1)
        BY <1>11
      <3>2. vs[i] \in Content
        BY <1>1, ElementOfSeq
      <3> QED BY <1>1, <1>4, <3>1, <3>2 DEF IndexOf, Index
    <2>2. target(i) \in N
      BY DEF N
    <2>3. g[target(i)] = [t |-> "s", n |-> vs[IndexOf(name(target(i))) - s + 1]]
      BY <1>7, <2>2
    <2> QED BY <2>1, <2>3
  <1>17. Grown(f, d, N, g)
    BY <1>2, <1>4, <1>7, <1>10, <1>12, <1>13, <1>14, <1>15, <1>16 DEF Grown, s
  <1> QED BY <1>6, <1>10, <1>12, <1>17 DEF g, n, s

\* So append keeps the database consistent.
LEMMA AppendKeeps ==
  ASSUME NEW f, Consistent(f), NEW d \in Directories, NEW vs \in Batches,
         Admitted(appendValues(f, d, vs).db)
  PROVE  Consistent(appendValues(f, d, vs).db)
  <1>1. CASE ~isArray(f, d)
    BY <1>1 DEF appendValues, Threw
  <1>2. CASE isArray(f, d)
    BY <1>2, AppendGrows, Grows
  <1> QED BY <1>1, <1>2
-----------------------------------------------------------------------------
\* What clients send with each command.
LEMMA OfCommand ==
  ASSUME NEW c \in Commands
  PROVE  /\ c.op \in {"set", "add", "replace"} => c.at \in Bases /\ c.value \in Content
         /\ c.op \in {"mkarr", "mkobj"} => c.at \in Directories
         /\ c.op = "remove" => c.at \in Paths \cup Ranges
         /\ c.op = "append" => c.at \in Directories /\ c.values \in Batches
         /\ c.op = "copy" => c.from \in Paths \cup Ranges /\ c.at \in Paths \cup {Root}
         /\ c.op = "move" => c.from \in Paths /\ c.at \in Paths \cup {Root}
         /\ c.op = "shift" => c.from \in Paths
         /\ c.op = "load" => c.text \in Files
  BY DEF Commands

\* A value path that clients send names a value.
LEMMA OfValue ==
  ASSUME NEW p \in Paths \cup Ranges \cup {Root}, IsValue(p)
  PROVE  p \in Bases /\ ~IsWildcard(p)
  <1>1. ASSUME NEW b \in Bases PROVE ~IsValue(asWildcard(b))
    <2>1. b \in Seq(Nat) /\ b # <<>> /\ Star \in Nat /\ asWildcard(b) = Append(b, Star)
      BY OfBase, StoreAssumption DEF asWildcard
    <2>2. asWildcard(b) # <<>> /\ Last(asWildcard(b)) = Star
      BY <2>1 DEF Last
    <2> QED BY <2>2 DEF IsValue, IsWildcard
  <1>2. p \in Paths
    BY <1>1, OfRoot DEF Ranges
  <1> QED BY <1>2, OfPath

\* An operation that adds no record and keeps a database consistent, or adds
\* records at paths in use, gets what Grows asks.
LEMMA OfAnswer ==
  ASSUME Consistent(db), NEW c, NEW o, NEW ok, Answer(c, o, ok)
  PROVE  /\ db' = o.db /\ Admitted(o.db) /\ (Careful => Proper(db, c))
         /\ DOMAIN o.db \subseteq DOMAIN db \cup Paths \cup {Root}
              => Cardinality(DOMAIN o.db) <= MaxRecords
  <1>1. db' = o.db /\ Admitted(o.db) /\ (Careful => Proper(db, c))
    BY DEF Answer, Admitted
  <1>2. DOMAIN db \subseteq Paths \cup {Root}
    BY DEF Consistent, Records
  <1>3. ASSUME DOMAIN o.db \subseteq DOMAIN db \cup Paths \cup {Root}
        PROVE  Cardinality(DOMAIN o.db) <= MaxRecords
    BY <1>1, <1>2, <1>3, Admission
  <1> QED BY <1>1, <1>3

\* set writes no other path than its own.
LEMMA SetDomain ==
  ASSUME NEW f, NEW p, NEW v
  PROVE  DOMAIN set(f, p, v).db \subseteq DOMAIN f \cup {p}
  BY DEF set, replace, add, changeContainerSize, setContainerSize, With, Returned, Threw

\* Nor do makeArray and makeObject.
LEMMA MakeDomain ==
  ASSUME NEW f, NEW p, NEW kind
  PROVE  DOMAIN makeDirectory(f, p, kind).db \subseteq DOMAIN f \cup {p}
  BY DEF makeDirectory, changeContainerSize, setContainerSize, With, Then, Returned, Threw

\* add is set without the replace.
LEMMA AddIsSet ==
  ASSUME NEW f, NEW p, NEW v
  PROVE  add(f, p, v).db = IF p \in DOMAIN f THEN f ELSE set(f, p, v).db
  BY DEF add, set, Returned, Threw

\* Every command on a single record keeps sizes, arrays and the tree in order,
\* whatever the commands before it were.
LEMMA StepConsistent ==
  ASSUME Careful, Consistent(db), [NextRecord]_vars
  PROVE  Consistent(db')
  <1>1. CASE UNCHANGED vars
    BY <1>1 DEF vars
  <1> SUFFICES ASSUME NEW c \in Commands,
                      \/ SetCommand(c) \/ AddCommand(c) \/ ReplaceCommand(c)
                      \/ MakeArrayCommand(c) \/ MakeObjectCommand(c)
                      \/ RemoveValueCommand(c) \/ CopyValueCommand(c) \/ MoveValueCommand(c)
                      \/ AppendCommand(c) \/ LoadCommand(c) \/ TruncateCommand(c) \/ SourceMissing(c)
               PROVE  Consistent(db')
    BY <1>1 DEF NextRecord
  <1>2. ASSUME NEW v \in Content PROVE Content_(v) \in [t : {"s"}, n : Content]
    BY DEF Content_
  <1>3. CASE SetCommand(c) \/ AddCommand(c)
    <2> DEFINE v == Content_(c.value)
    <2>1. PICK o \in {set(db, c.at, v), add(db, c.at, v)} : Answer(c, o, o.n # 0) /\ c.op \in {"set", "add"}
      BY <1>3 DEF SetCommand, AddCommand, Counted
    <2>2. c.at \in Bases /\ v \in [t : {"s"}, n : Content]
      BY <1>2, <2>1, OfCommand
    <2> HIDE DEF v
    <2>3. db' = o.db /\ InElements(db, c.at) /\ NewRecord(db, c.at)
      BY <2>1, OfAnswer DEF Proper
    <2>4. o.db = db \/ o.db = set(db, c.at, v).db
      BY <2>1, AddIsSet
    <2>5. o.db = set(db, c.at, v).db => Cardinality(DOMAIN set(db, c.at, v).db) <= MaxRecords
      BY <2>1, <2>2, OfAnswer, SetDomain DEF Paths
    <2> QED BY <2>2, <2>3, <2>4, <2>5, SetKeeps
  <1>4. CASE ReplaceCommand(c)
    <2> DEFINE v == Content_(c.value)
    <2>1. db' = replace(db, c.at, v).db /\ c.at \in Bases /\ v \in [t : {"s"}, n : Content]
      BY <1>2, <1>4, OfAnswer, OfCommand DEF ReplaceCommand, Counted
    <2> HIDE DEF v
    <2>2. db' = db \/ (db' = [db EXCEPT ![c.at] = v] /\ c.at \in DOMAIN db)
      BY <2>1 DEF replace, Returned, Threw
    <2> QED BY <2>1, <2>2, OfBase, Overwritten
  <1>5. CASE MakeArrayCommand(c) \/ MakeObjectCommand(c)
    <2>1. PICK kind \in {"A", "O"} :
            LET o == makeDirectory(db, c.at, kind) IN Answer(c, o, o.n # 0) /\ c.op \in {"mkarr", "mkobj"}
      BY <1>5 DEF MakeArrayCommand, MakeObjectCommand, Counted
    <2> DEFINE o == makeDirectory(db, c.at, kind)
    <2>2. c.at \in Directories /\ c.at \in Paths \cup {Root}
      BY <2>1, OfCommand DEF Directories, Paths
    <2>3. db' = o.db /\ InElements(db, c.at)
      BY <2>1, OfAnswer DEF Proper
    <2>4. Cardinality(DOMAIN o.db) <= MaxRecords
      BY <2>1, <2>2, OfAnswer, MakeDomain
    <2> QED BY <2>2, <2>3, <2>4, MakeKeeps
  <1>6. CASE RemoveValueCommand(c)
    <2>1. db' = removeValue(db, c.at).db /\ IsValue(c.at) /\ ~isArray(db, parent(c.at))
      BY <1>6, OfAnswer DEF RemoveValueCommand, Done, OfObject
    <2> QED BY <2>1, RemoveKeeps
  <1>7. CASE CopyValueCommand(c)
    <2> DEFINE o == copyValue(db, c.from, c.at)
    <2>1. /\ Answer(c, o, o.n # 0) /\ c.op = "copy" /\ exists(db, c.from)
          /\ IsValue(c.from) /\ IsValue(c.at)
      BY <1>7 DEF CopyValueCommand, Counted
    <2>2. c.from \in DOMAIN db /\ c.at \in Bases /\ c.at \in Paths
      BY <2>1, OfCommand, OfValue DEF exists, Paths
    <2>3. db' = o.db /\ InElements(db, c.at) /\ NewRecord(db, c.at)
      BY <2>1, OfAnswer DEF Proper, CopyProper
    <2>4. DOMAIN o.db \subseteq DOMAIN db \cup {c.at}
      BY SetDomain DEF copyValue, Threw
    <2>5. Cardinality(DOMAIN o.db) <= MaxRecords
      BY <2>1, <2>2, <2>4, OfAnswer
    <2> QED BY <2>1, <2>2, <2>3, <2>5, CopyKeeps
  <1>8. CASE MoveValueCommand(c)
    <2> DEFINE o == moveValue(db, c.from, c.at)
    <2>1. /\ Answer(c, o, o.n # 0) /\ c.op = "move" /\ exists(db, c.from)
          /\ IsValue(c.from) /\ ~isArray(db, parent(c.from)) /\ IsValue(c.at)
      BY <1>8 DEF MoveValueCommand, Counted, OfObject
    <2>2. c.from \in DOMAIN db
      BY <2>1, OfCommand, OfValue DEF exists
    <2>3. db' = o.db /\ c.at \in DOMAIN db \ {c.from}
      BY <2>1, OfAnswer DEF Proper, MoveProper
    <2> QED BY <2>1, <2>2, <2>3, MoveKeeps
  <1>9. CASE AppendCommand(c)
    <2> DEFINE o == appendValues(db, c.at, c.values)
    <2>1. db' = o.db /\ Admitted(o.db) /\ c.at \in Directories /\ c.values \in Batches
      BY <1>9, OfAnswer, OfCommand DEF AppendCommand, Done
    <2> QED BY <2>1, AppendKeeps
  <1>10. CASE LoadCommand(c)
    <2> DEFINE o == load(db, c.text)
    <2>1. Answer(c, o, o.ok) /\ c.op = "load" /\ c.text \in Files
      BY <1>10, OfCommand DEF LoadCommand, Done
    <2>2. db' = o.db /\ LoadProper(db, c.text)
      BY <2>1, OfAnswer DEF Proper
    <2>3. DOMAIN o.db = DOMAIN c.text /\ DOMAIN c.text \subseteq Paths \cup {Root}
      BY <2>1, <2>2, StoreAssumption DEF LoadProper, load, Over, Returned, JsonText
    <2>4. Cardinality(DOMAIN c.text) <= MaxRecords
      BY <2>1, <2>3, OfAnswer
    <2> QED BY <2>1, <2>2, <2>4, LoadKeeps
  <1>11. CASE TruncateCommand(c)
    <2> DEFINE o == Returned([p \in {Root} |-> [t |-> "O", n |-> 0]], 1)
    <2>1. Answer(c, o, TRUE)
      BY <1>11 DEF TruncateCommand
    <2>2. db' = o.db
      BY <2>1 DEF Answer
    <2>3. db' = [p \in {Root} |-> [t |-> "O", n |-> 0]]
      BY <2>2 DEF Returned
    <2> QED BY <2>3, EmptyConsistent
  <1>12. CASE SourceMissing(c)
    BY <1>12 DEF SourceMissing, Done, Answer, Threw
  <1> QED BY <1>3, <1>4, <1>5, <1>6, <1>7, <1>8, <1>9, <1>10, <1>11, <1>12

\* Consistent is inductive: it holds first and every step keeps it.
LEMMA AlwaysConsistent == ASSUME Careful PROVE RecordsSpec => []Consistent(db)
  <1>1. Init => Consistent(db)
    BY EmptyConsistent DEF Init
  <1>2. Consistent(db) /\ [NextRecord]_vars => Consistent(db')
    BY StepConsistent
  <1>3. Consistent(db) /\ [NextRecord]_vars => Consistent(db)'
    BY <1>2 DEF Consistent, Records, Sized, Dense, Tree, Members, isArray
  <1> QED BY <1>1, <1>3, PTL DEF RecordsSpec

\* Sizes, arrays and names stay right under every history of commands that
\* touch single records (add, set, replace, makeArray, makeObject, append, load,
\* remove, copy and move of values).
THEOREM RecordsTypeOK == ASSUME Careful PROVE RecordsSpec => []TypeOK
  <1>1. Consistent(db) => TypeOK
    BY Meaning
  <1> QED BY <1>1, AlwaysConsistent, PTL

\* The size that changeContainerSize and setContainerSize write by hand is the
\* number of members: no path of add, set, makeDirectory, append, removeValue or
\* move, refused or carried out, leaves it behind.
THEOREM RecordsSizesExact == ASSUME Careful PROVE RecordsSpec => []SizesExact
  <1>1. Consistent(db) => SizesExact
    BY Meaning
  <1> QED BY <1>1, AlwaysConsistent, PTL

\* The bounds check, made against a size kept by hand, admits a new element only
\* at the end of its array.
THEOREM RecordsArraysDense == ASSUME Careful PROVE RecordsSpec => []ArraysDense
  <1>1. Consistent(db) => ArraysDense
    BY Meaning
  <1> QED BY <1>1, AlwaysConsistent, PTL

\* No command leaves a record without its directory, or a value and a directory
\* of one name.
THEOREM RecordsOnePerName == ASSUME Careful PROVE RecordsSpec => []OneRecordPerName
  <1>1. Consistent(db) => OneRecordPerName
    BY Meaning
  <1> QED BY <1>1, AlwaysConsistent, PTL
=============================================================================
