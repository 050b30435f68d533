-------------------------- MODULE Document_proofs ---------------------------
(***************************************************************************)
(* Proof that the document stays a tree with dense arrays, whatever        *)
(* commands are carried out, for every set of commands and of names.       *)
(***************************************************************************)
EXTENDS Document, FiniteSetTheorems, SequenceTheorems, WellFoundedInduction,
        NaturalsInduction, TLAPS

-----------------------------------------------------------------------------
\* Natural numbers by descent.
Less == {ss \in Nat \X Nat : ss[1] < ss[2]}

\* No sequence of natural numbers goes down for ever.
LEMMA LessWellFounded == IsWellFoundedOn(Less, Nat)
  <1>1. Less = OpToRel(<, Nat)
    BY DEF Less, OpToRel
  <1> QED BY <1>1, NatLessThanWellFounded

\* A set of natural numbers has a least one.
LEMMA Least ==
  ASSUME NEW T \in SUBSET Nat, T # {}
  PROVE  \E m \in T : \A n \in T : m <= n
  <1>1. \E m \in T : \A n \in T : ~(<<n, m>> \in Less)
    BY LessWellFounded, WFMin
  <1>2. \A m, n \in Nat : n < m => <<n, m>> \in Less
    BY SMT DEF Less
  <1>3. PICK m \in T : \A n \in T : ~(<<n, m>> \in Less)
    BY <1>1
  <1>4. ASSUME NEW n \in T PROVE m <= n
    <2>1. m \in Nat /\ n \in Nat /\ ~(<<n, m>> \in Less)
      BY <1>3
    <2>2. ~(n < m)
      BY <1>2, <2>1, Zenon
    <2> QED BY <2>1, <2>2
  <1> QED BY <1>4

-----------------------------------------------------------------------------
\* Sequences of components.

\* The first n components.
LEMMA OfHead ==
  ASSUME NEW s \in Seq(Nat), NEW n \in 0 .. Len(s)
  PROVE  /\ SubSeq(s, 1, n) \in Seq(Nat) /\ Len(SubSeq(s, 1, n)) = n
         /\ \A i \in 1 .. n : SubSeq(s, 1, n)[i] = s[i]
  <1>1. Len(s) \in Nat /\ n \in Int /\ 1 \in Int
    BY LenProperties
  <1>2. \A i \in 1 .. n : s[i] \in Nat
    <2>1. \A i \in 1 .. n : i \in 1 .. Len(s)
      BY <1>1
    <2> QED BY <2>1, ElementOfSeq
  <1>3. /\ SubSeq(s, 1, n) \in Seq(Nat)
        /\ Len(SubSeq(s, 1, n)) = IF 1 <= n THEN n - 1 + 1 ELSE 0
        /\ \A i \in 1 .. n - 1 + 1 : SubSeq(s, 1, n)[i] = s[1 + i - 1]
    BY <1>1, <1>2, SubSeqProperties
  <1>4. Len(SubSeq(s, 1, n)) = n
    <2>1. n = IF 1 <= n THEN n - 1 + 1 ELSE 0
      BY <1>1
    <2> QED BY <1>3, <2>1
  <1>5. ASSUME NEW i \in 1 .. n PROVE SubSeq(s, 1, n)[i] = s[i]
    <2>1. i \in 1 .. n - 1 + 1 /\ 1 + i - 1 = i
      BY <1>1
    <2> QED BY <1>3, <2>1
  <1> QED BY <1>3, <1>4, <1>5

\* What comes after the first n components.
LEMMA OfRest ==
  ASSUME NEW s \in Seq(Nat), NEW n \in 0 .. Len(s)
  PROVE  LET r == SubSeq(s, n + 1, Len(s))
         IN /\ r \in Seq(Nat) /\ Len(r) = Len(s) - n
            /\ \A i \in 1 .. Len(s) - n : r[i] = s[n + i]
  <1>1. Len(s) \in Nat /\ n \in Int /\ n + 1 \in Int
    BY LenProperties
  <1>2. \A i \in n + 1 .. Len(s) : s[i] \in Nat
    <2>1. \A i \in n + 1 .. Len(s) : i \in 1 .. Len(s)
      BY <1>1
    <2> QED BY <2>1, ElementOfSeq
  <1> DEFINE r == SubSeq(s, n + 1, Len(s))
  <1>3. /\ r \in Seq(Nat)
        /\ Len(r) = IF n + 1 <= Len(s) THEN Len(s) - (n + 1) + 1 ELSE 0
        /\ \A i \in 1 .. Len(s) - (n + 1) + 1 : r[i] = s[n + 1 + i - 1]
    BY <1>1, <1>2, SubSeqProperties
  <1> HIDE DEF r
  <1>4. Len(r) = Len(s) - n
    <2>1. Len(s) - n = IF n + 1 <= Len(s) THEN Len(s) - (n + 1) + 1 ELSE 0
      BY <1>1
    <2> QED BY <1>3, <2>1
  <1>5. ASSUME NEW i \in 1 .. Len(s) - n PROVE r[i] = s[n + i]
    <2>1. i \in 1 .. Len(s) - (n + 1) + 1 /\ n + 1 + i - 1 = n + i
      BY <1>1
    <2> QED BY <1>3, <2>1
  <1> QED BY <1>3, <1>4, <1>5 DEF r

\* A sequence is what Front leaves of it and its last component.
LEMMA OfFront ==
  ASSUME NEW s \in Seq(Nat), s # <<>>
  PROVE  /\ Len(s) \in Nat \ {0} /\ Last(s) \in Nat
         /\ Front(s) \in Seq(Nat) /\ Len(Front(s)) = Len(s) - 1
         /\ \A i \in 1 .. Len(s) - 1 : Front(s)[i] = s[i]
         /\ s = Append(Front(s), Last(s))
  <1>1. Len(s) \in Nat \ {0}
    BY EmptySeq
  <1>2. Last(s) \in Nat
    BY <1>1, ElementOfSeq DEF Last
  <1>3. Len(s) - 1 \in 0 .. Len(s)
    BY <1>1
  <1>4. /\ Front(s) \in Seq(Nat) /\ Len(Front(s)) = Len(s) - 1
        /\ \A i \in 1 .. Len(s) - 1 : Front(s)[i] = s[i]
    BY <1>3, OfHead DEF Front
  <1>5. \A f \in Seq(Nat), t \in Seq(Nat) :
          (/\ Len(f) = Len(s) - 1 /\ Len(t) = Len(f) + 1
           /\ \A i \in 1 .. Len(s) - 1 : f[i] = s[i]
           /\ \A i \in 1 .. Len(f) : t[i] = f[i]
           /\ t[Len(f) + 1] = s[Len(s)]) => s = t
    <2> SUFFICES ASSUME NEW f \in Seq(Nat), NEW t \in Seq(Nat),
                        Len(f) = Len(s) - 1, Len(t) = Len(f) + 1,
                        \A i \in 1 .. Len(s) - 1 : f[i] = s[i],
                        \A i \in 1 .. Len(f) : t[i] = f[i],
                        t[Len(f) + 1] = s[Len(s)]
                 PROVE  s = t
      OBVIOUS
    <2>1. Len(s) = Len(t)
      BY <1>1
    <2>2. ASSUME NEW i \in 1 .. Len(s) PROVE s[i] = t[i]
      <3>1. CASE i = Len(s)
        BY <1>1, <3>1
      <3>2. CASE i # Len(s)
        <4>1. i \in 1 .. Len(s) - 1 /\ i \in 1 .. Len(f)
          BY <1>1, <3>2
        <4> QED BY <4>1
      <3> QED BY <3>1, <3>2
    <2> QED BY <2>1, <2>2, SeqEqual
  <1>6. LET t == Append(Front(s), Last(s))
        IN /\ t \in Seq(Nat) /\ Len(t) = Len(Front(s)) + 1
           /\ \A i \in 1 .. Len(Front(s)) : t[i] = Front(s)[i]
           /\ t[Len(Front(s)) + 1] = s[Len(s)]
    BY <1>2, <1>4, AppendProperties DEF Last
  <1>7. s = Append(Front(s), Last(s))
    BY <1>4, <1>5, <1>6
  <1> QED BY <1>1, <1>2, <1>4, <1>7

\* A sequence with one more component.
LEMMA OfAppend ==
  ASSUME NEW b \in Seq(Nat), NEW e \in Nat
  PROVE  LET s == Append(b, e)
         IN /\ s \in Seq(Nat) /\ s # <<>> /\ Len(b) \in Nat /\ Len(s) = Len(b) + 1
            /\ \A i \in 1 .. Len(b) : s[i] = b[i]
            /\ s[Len(b) + 1] = e /\ Last(s) = e /\ Front(s) = b
  <1> DEFINE s == Append(b, e)
  <1>1. /\ s \in Seq(Nat) /\ s # <<>> /\ Len(s) = Len(b) + 1
        /\ \A i \in 1 .. Len(b) : s[i] = b[i]
        /\ s[Len(b) + 1] = e
    BY AppendProperties
  <1>2. Len(b) \in Nat
    BY LenProperties
  <1> HIDE DEF s
  <1>3. Last(s) = e
    BY <1>1 DEF Last
  <1>4. Front(s) \in Seq(Nat) /\ Len(Front(s)) = Len(b) /\ \A i \in 1 .. Len(b) : Front(s)[i] = b[i]
    <2>1. Len(s) - 1 = Len(b)
      BY <1>1, <1>2
    <2> QED BY <1>1, <2>1, OfFront
  <1>5. Front(s) = b
    BY <1>4, SeqEqual
  <1> QED BY <1>1, <1>2, <1>3, <1>5 DEF s

\* Being a prefix, component by component.
LEMMA OfPrefix ==
  ASSUME NEW s \in Seq(Nat), NEW t \in Seq(Nat)
  PROVE  IsPrefix(s, t) <=> Len(s) <= Len(t) /\ \A i \in 1 .. Len(s) : s[i] = t[i]
  <1>1. Len(s) \in Nat /\ Len(t) \in Nat
    BY LenProperties
  <1>2. ASSUME Len(s) <= Len(t)
        PROVE  SubSeq(s, 1, Len(s)) = SubSeq(t, 1, Len(s)) <=> \A i \in 1 .. Len(s) : s[i] = t[i]
    <2> DEFINE u == SubSeq(t, 1, Len(s))
    <2>1. u \in Seq(Nat) /\ Len(u) = Len(s) /\ \A i \in 1 .. Len(s) : u[i] = t[i]
      BY <1>1, <1>2, OfHead
    <2>2. SubSeq(s, 1, Len(s)) = s
      BY SubSeqFull
    <2> HIDE DEF u
    <2>3. (\A i \in 1 .. Len(s) : s[i] = t[i]) => s = u
      <3>1. SUFFICES ASSUME \A i \in 1 .. Len(s) : s[i] = t[i] PROVE s = u
        OBVIOUS
      <3>2. \A i \in 1 .. Len(s) : s[i] = u[i]
        BY <2>1, <3>1
      <3> QED BY <2>1, <3>2, SeqEqual
    <2> QED BY <2>1, <2>2, <2>3 DEF u
  <1> QED BY <1>2 DEF IsPrefix

-----------------------------------------------------------------------------
\* Paths.  A name is the path of a value; with a dot behind it, of a directory.
LEMMA OfName ==
  ASSUME NEW b \in Names
  PROVE  /\ b \in Seq(Nat) /\ b # <<>> /\ b \in Places /\ b # Root
         /\ IsValue(b) /\ ~IsDirectory(b) /\ ~IsWildcard(b) /\ basePath(b) = b
         /\ asDirectory(b) = Append(b, Dot)
         /\ parent(b) = Append(Front(b), Dot) /\ name(b) = Last(b)
  <1>1. b \in Seq(Nat) /\ b # <<>> /\ Last(b) # Dot /\ Last(b) # Star
    BY DEF Names
  <1>2. ~IsDirectory(b) /\ ~IsWildcard(b)
    BY <1>1 DEF IsDirectory, IsWildcard
  <1>3. IsValue(b) /\ basePath(b) = b
    BY <1>2 DEF IsValue, basePath
  <1>4. b # Root
    BY <1>1, OfAppend DEF Root, Last
  <1>5. b \in Places
    BY <1>1, <1>2, <1>3 DEF Places
  <1> QED BY <1>1, <1>2, <1>3, <1>4, <1>5 DEF asDirectory, parent, name

\* The directory of a name.
LEMMA OfFolder ==
  ASSUME NEW b \in Names
  PROVE  LET d == Append(b, Dot)
         IN /\ d \in Places /\ d # Root /\ d # b
            /\ IsDirectory(d) /\ ~IsValue(d) /\ ~IsWildcard(d) /\ basePath(d) = b
            /\ asDirectory(d) = d
            /\ parent(d) = Append(Front(b), Dot) /\ name(d) = Last(b)
  <1>1. b \in Seq(Nat) /\ b # <<>> /\ Dot \in Nat /\ Dot # Star
    BY PathAssumption DEF Names, Dot
  <1> DEFINE d == Append(b, Dot)
  <1>2. d \in Seq(Nat) /\ d # <<>> /\ Last(d) = Dot /\ Front(d) = b
    BY <1>1, OfAppend
  <1>3. IsDirectory(d) /\ ~IsValue(d) /\ ~IsWildcard(d)
    BY <1>1, <1>2 DEF IsDirectory, IsWildcard, IsValue
  <1>4. basePath(d) = b
    BY <1>2, <1>3 DEF basePath
  <1>5. asDirectory(d) = d
    BY <1>4 DEF asDirectory
  <1>6. parent(d) = Append(Front(b), Dot) /\ name(d) = Last(b)
    BY <1>1, <1>3, <1>4 DEF parent, name
  <1>7. d \in Places
    BY <1>2, <1>3, <1>4 DEF Places
  <1>8. d # Root
    <2>1. Len(d) = Len(b) + 1 /\ Len(b) \in Nat \ {0} /\ Len(Root) = 1
      BY <1>1, OfAppend, EmptySeq DEF Root
    <2> QED BY <2>1
  <1>9. d # b
    BY <1>3, OfName
  <1> QED BY <1>3, <1>4, <1>5, <1>6, <1>7, <1>8, <1>9

\* The root is the directory of the empty name.
LEMMA OfRoot ==
  /\ Root \in Places /\ Root = Append(<<>>, Dot) /\ <<>> \in Seq(Nat) /\ Len(Root) = 1
  /\ IsDirectory(Root) /\ ~IsValue(Root) /\ ~IsWildcard(Root) /\ basePath(Root) = <<>>
  /\ asDirectory(Root) = Root /\ parent(Root) = Root
  <1>1. <<>> \in Seq(Nat) /\ Dot \in Nat /\ Dot # Star
    BY PathAssumption, EmptySeq DEF Dot
  <1>2. Root = Append(<<>>, Dot)
    <2>1. Append(<<>>, Dot) = <<>> \o <<Dot>>
      BY <1>1, AppendIsConcat
    <2>2. <<Dot>> \in Seq(Nat)
      BY <1>1
    <2> QED BY <2>1, <2>2, ConcatEmptySeq DEF Root
  <1>3. Root \in Seq(Nat) /\ Root # <<>> /\ Last(Root) = Dot /\ Front(Root) = <<>>
    BY <1>1, <1>2, OfAppend
  <1>4. IsDirectory(Root) /\ ~IsValue(Root) /\ ~IsWildcard(Root)
    BY <1>1, <1>3 DEF IsDirectory, IsWildcard, IsValue
  <1>5. basePath(Root) = <<>>
    BY <1>3, <1>4 DEF basePath
  <1>6. asDirectory(Root) = Root
    BY <1>2, <1>5 DEF asDirectory
  <1>7. parent(Root) = Root
    BY <1>5, <1>6 DEF parent
  <1>8. Root \in Places /\ Len(Root) = 1
    BY <1>3 DEF Places, Root
  <1> QED BY <1>1, <1>2, <1>4, <1>5, <1>6, <1>7, <1>8

\* A place is the root or belongs to a name.
LEMMA OfPlace ==
  ASSUME NEW p \in Places
  PROVE  LET b == basePath(p)
         IN /\ p \in Seq(Nat) /\ b \in Seq(Nat) /\ ~IsWildcard(p)
            /\ asDirectory(p) = Append(b, Dot)
            /\ IsDirectory(p) <=> p = Append(b, Dot)
            /\ IsDirectory(p) <=> ~IsValue(p)
            /\ IsValue(p) <=> p = b
            /\ IsValue(p) => p # Root
            /\ p = Root <=> b = <<>>
            /\ p # Root => /\ b \in Names /\ name(p) = Last(b) /\ name(p) \in Nat \ {Dot, Star}
                           /\ parent(p) = Append(Front(b), Dot)
  <1>1. CASE p = Root
    BY <1>1, OfRoot DEF Places
  <1>2. CASE p # Root
    <2> DEFINE b == basePath(p)
    <2>1. p \in Seq(Nat) /\ ~IsWildcard(p) /\ b \in Names
      BY <1>2 DEF Places
    <2>2. b \in Seq(Nat) /\ b # <<>> /\ Last(b) \notin {Dot, Star}
      BY <2>1 DEF Names
    <2>3. Last(b) \in Nat
      BY <2>2, OfFront
    <2>4. IsDirectory(p) <=> ~IsValue(p)
      BY <2>1 DEF IsValue
    <2>5. CASE IsValue(p)
      <3>1. p = b
        BY <2>5 DEF basePath
      <3> QED BY <1>2, <2>1, <2>2, <2>3, <2>4, <2>5, <3>1, OfName, OfFolder
    <2>6. CASE IsDirectory(p)
      <3>1. b = Front(p) /\ p # <<>> /\ Last(p) = Dot
        BY <2>4, <2>6 DEF basePath, IsDirectory
      <3>2. p = Append(b, Dot)
        BY <2>1, <3>1, OfFront
      <3> QED BY <1>2, <2>1, <2>2, <2>3, <2>4, <2>6, <3>2, OfFolder
    <2> QED BY <2>4, <2>5, <2>6
  <1> QED BY <1>1, <1>2

\* The directory a place lies in.
LEMMA OfParent ==
  ASSUME NEW p \in Places, p # Root
  PROVE  LET b == basePath(p)
         IN /\ b # <<>> /\ Len(b) \in Nat \ {0} /\ b = Append(Front(b), name(p))
            /\ Front(b) \in Seq(Nat) /\ Len(Front(b)) = Len(b) - 1
            /\ \A i \in 1 .. Len(b) - 1 : Front(b)[i] = b[i]
            /\ basePath(parent(p)) = Front(b)
            /\ IsDirectory(parent(p)) /\ parent(p) \in Seq(Nat)
            /\ Len(parent(p)) = Len(b)
            /\ parent(p) \notin {p, b, asDirectory(p)}
  <1> DEFINE b == basePath(p)
             d == parent(p)
  <1>1. b \in Seq(Nat) /\ b # <<>> /\ d = Append(Front(b), Dot) /\ name(p) = Last(b)
        /\ Last(b) # Dot /\ asDirectory(p) = Append(b, Dot) /\ p \in {b, asDirectory(p)}
    BY OfPlace
  <1>2. /\ b # <<>> /\ Len(b) \in Nat \ {0} /\ b = Append(Front(b), Last(b))
        /\ Front(b) \in Seq(Nat) /\ Len(Front(b)) = Len(b) - 1
        /\ \A i \in 1 .. Len(b) - 1 : Front(b)[i] = b[i]
    BY <1>1, OfFront
  <1>3. Dot \in Nat
    BY DEF Dot
  <1>4. d \in Seq(Nat) /\ d # <<>> /\ Last(d) = Dot /\ Front(d) = Front(b) /\ Len(d) = Len(Front(b)) + 1
    BY <1>1, <1>2, <1>3, OfAppend
  <1>5. IsDirectory(d) /\ ~IsValue(d)
    BY <1>4 DEF IsDirectory, IsValue
  <1>6. basePath(d) = Front(b)
    BY <1>4, <1>5 DEF basePath
  <1>7. Len(d) = Len(b)
    BY <1>2, <1>4
  <1>8. Len(asDirectory(p)) = Len(b) + 1
    BY <1>1, <1>3, OfAppend
  <1>9. d # b /\ d # asDirectory(p)
    BY <1>1, <1>2, <1>4, <1>7, <1>8
  <1> QED BY <1>1, <1>2, <1>4, <1>5, <1>6, <1>7, <1>9

\* A place is found from its name and its kind, a name from its directory and
\* its last component.
LEMMA OnePlace ==
  ASSUME NEW p \in Places, NEW q \in Places, basePath(p) = basePath(q),
         IsDirectory(p) = IsDirectory(q)
  PROVE  p = q
  <1>1. CASE IsDirectory(p)
    BY <1>1, OfPlace
  <1>2. CASE ~IsDirectory(p)
    BY <1>2, OfPlace
  <1> QED BY <1>1, <1>2

\* Two places in one directory with the same last component have the same name.
LEMMA OneName ==
  ASSUME NEW p \in Places, NEW q \in Places, p # Root, q # Root,
         parent(p) = parent(q), name(p) = name(q)
  PROVE  basePath(p) = basePath(q)
  <1>1. Front(basePath(p)) = Front(basePath(q))
    BY OfParent
  <1> QED BY <1>1, OfParent

-----------------------------------------------------------------------------
\* Finite sets.
LEMMA FiniteImage ==
  ASSUME NEW S, IsFiniteSet(S), NEW h, DOMAIN h = S
  PROVE  IsFiniteSet({h[x] : x \in S})
  <1> DEFINE T == {h[x] : x \in S}
             g == [x \in S |-> h[x]]
  <1>1. g \in [S -> T] /\ \A t \in T : \E x \in S : g[x] = t
    OBVIOUS
  <1>2. g \in Surjection(S, T)
    BY <1>1 DEF Surjection
  <1> QED BY <1>2, FS_Surjection

\* A set that is matched one to one with a finite set has as many members.
LEMMA SameCount ==
  ASSUME NEW S, IsFiniteSet(S), NEW T, NEW h \in [S -> T],
         \A x, y \in S : h[x] = h[y] => x = y, \A t \in T : \E x \in S : h[x] = t
  PROVE  IsFiniteSet(T) /\ Cardinality(T) = Cardinality(S)
  <1>1. h \in Bijection(S, T)
    BY DEF Bijection, Injection, Surjection, IsInjective
  <1>2. ExistsBijection(S, T)
    BY <1>1 DEF ExistsBijection
  <1> QED BY <1>2, FS_Bijection

-----------------------------------------------------------------------------
\* Trees.  A name has one record, and a directory one member of each name.
LEMMA OneRecord ==
  ASSUME NEW f, Tree(f), NEW p \in DOMAIN f, NEW q \in DOMAIN f, basePath(p) = basePath(q)
  PROVE  p = q
  <1>1. p \in Places /\ q \in Places
    BY DEF Tree
  <1>2. CASE IsDirectory(p) = IsDirectory(q)
    BY <1>1, <1>2, OnePlace
  <1>3. CASE IsDirectory(p) /\ ~IsDirectory(q)
    <2>1. p = asDirectory(q)
      BY <1>1, <1>3, OfPlace
    <2> QED BY <1>3, <2>1 DEF Tree
  <1>4. CASE ~IsDirectory(p) /\ IsDirectory(q)
    <2>1. q = asDirectory(p)
      BY <1>1, <1>4, OfPlace
    <2> QED BY <1>4, <2>1 DEF Tree
  <1> QED BY <1>2, <1>3, <1>4 DEF IsDirectory

\* A member of a directory, and the directory.
LEMMA OfMember ==
  ASSUME NEW f, Tree(f), NEW d, NEW m \in MembersOf(f, d)
  PROVE  /\ m \in DOMAIN f /\ m \in Places /\ m # Root /\ m # d /\ parent(m) = d
         /\ d \in DOMAIN f /\ d \in Places /\ IsDirectory(d)
         /\ name(m) \in Nat \ {Dot, Star}
         /\ basePath(d) = Front(basePath(m)) /\ basePath(m) = Append(basePath(d), name(m))
  <1>1. m \in DOMAIN f /\ m # d /\ parent(m) = d
    BY DEF MembersOf
  <1>2. m \in Places /\ d \in DOMAIN f /\ d \in Places
    BY <1>1 DEF Tree
  <1>3. m # Root
    BY <1>1, OfRoot
  <1> QED BY <1>1, <1>2, <1>3, OfPlace, OfParent

\* No two members of a directory have the same last component.
LEMMA OneMember ==
  ASSUME NEW f, Tree(f), NEW d, NEW p \in MembersOf(f, d), NEW q \in MembersOf(f, d),
         name(p) = name(q)
  PROVE  p = q
  <1>1. basePath(p) = basePath(q)
    BY OfMember
  <1> QED BY <1>1, OfMember, OneRecord

\* The members of d have the names 1 to n.
NamesOf(M) == {name(m) : m \in M}
Full(f, d, n) == n \in Nat /\ NamesOf(MembersOf(f, d)) = 1 .. n

\* A directory whose members are named 1 .. n has n of them.
LEMMA Counted ==
  ASSUME NEW f, Tree(f), NEW d, NEW n, Full(f, d, n)
  PROVE  Cardinality(MembersOf(f, d)) = n
  <1> DEFINE M == MembersOf(f, d)
             h == [m \in M |-> name(m)]
  <1>1. n \in Nat /\ {name(m) : m \in M} = 1 .. n
    BY DEF Full, NamesOf
  <1>2. IsFiniteSet(M)
    <2>1. IsFiniteSet(DOMAIN f) /\ M \subseteq DOMAIN f
      BY DEF Tree, MembersOf
    <2> QED BY <2>1, FS_Subset
  <1>3. h \in [M -> 1 .. n]
    BY <1>1
  <1>4. \A p, q \in M : h[p] = h[q] => p = q
    BY OneMember
  <1>5. \A t \in 1 .. n : \E m \in M : h[m] = t
    BY <1>1
  <1>6. Cardinality(1 .. n) = Cardinality(M)
    BY <1>2, <1>3, <1>4, <1>5, SameCount
  <1>7. Cardinality(1 .. n) = n
    BY <1>1, FS_Interval
  <1> QED BY <1>6, <1>7

\* A directory has finitely many members.
LEMMA Finite ==
  ASSUME NEW f, Tree(f), NEW d
  PROVE  IsFiniteSet(MembersOf(f, d)) /\ Cardinality(MembersOf(f, d)) \in Nat
  <1>1. IsFiniteSet(DOMAIN f) /\ MembersOf(f, d) \subseteq DOMAIN f
    BY DEF Tree, MembersOf
  <1> QED BY <1>1, FS_Subset, FS_CardinalityType

\* Dense, said with the names of the elements instead of their indices.
LEMMA FullArrays ==
  ASSUME NEW f, Tree(f)
  PROVE  /\ Dense(f) <=> \A d \in DOMAIN f : f[d].t = "A" => \E n \in Nat : Full(f, d, n)
         /\ Dense(f) => \A d \in DOMAIN f : f[d].t = "A" =>
                          Full(f, d, Cardinality(MembersOf(f, d)))
  <1>1. ASSUME NEW n \in Nat PROVE {Index(i) : i \in 0 .. n - 1} = 1 .. n
    <2>1. ASSUME NEW j \in 1 .. n PROVE j \in {Index(i) : i \in 0 .. n - 1}
      <3>1. j - 1 \in 0 .. n - 1 /\ Index(j - 1) = j
        BY DEF Index
      <3> QED BY <3>1
    <2>2. ASSUME NEW i \in 0 .. n - 1 PROVE Index(i) \in 1 .. n
      BY DEF Index
    <2> QED BY <2>1, <2>2
  <1>2. ASSUME NEW d \in DOMAIN f, NEW n \in Nat, Full(f, d, n)
        PROVE  {name(m) : m \in MembersOf(f, d)}
                 = {Index(i) : i \in 0 .. Cardinality(MembersOf(f, d)) - 1}
    <2>1. Cardinality(MembersOf(f, d)) = n
      BY <1>2, Counted
    <2> QED BY <1>1, <1>2, <2>1 DEF Full, NamesOf
  <1>3. ASSUME Dense(f), NEW d \in DOMAIN f, f[d].t = "A"
        PROVE  Full(f, d, Cardinality(MembersOf(f, d)))
    <2>1. Cardinality(MembersOf(f, d)) \in Nat
      BY Finite
    <2>2. {name(m) : m \in MembersOf(f, d)}
            = {Index(i) : i \in 0 .. Cardinality(MembersOf(f, d)) - 1}
      BY <1>3 DEF Dense
    <2> QED BY <1>1, <2>1, <2>2 DEF Full, NamesOf
  <1>4. ASSUME \A d \in DOMAIN f : f[d].t = "A" => \E n \in Nat : Full(f, d, n)
        PROVE  Dense(f)
    BY <1>2, <1>4 DEF Dense
  <1>5. Dense(f) => \A d \in DOMAIN f : f[d].t = "A" => Full(f, d, Cardinality(MembersOf(f, d)))
    BY <1>3
  <1>6. Dense(f) => \A d \in DOMAIN f : f[d].t = "A" => \E n \in Nat : Full(f, d, n)
    BY <1>5, Finite
  <1> QED BY <1>4, <1>5, <1>6

-----------------------------------------------------------------------------
\* The first n components without the last of them.
LEMMA FrontOfHead ==
  ASSUME NEW s \in Seq(Nat), NEW n \in 1 .. Len(s)
  PROVE  /\ SubSeq(s, 1, n) # <<>> /\ Front(SubSeq(s, 1, n)) = SubSeq(s, 1, n - 1)
         /\ Last(SubSeq(s, 1, n)) = s[n]
  <1> DEFINE h == SubSeq(s, 1, n)
             g == SubSeq(s, 1, n - 1)
  <1>1. Len(s) \in Nat /\ n \in 0 .. Len(s) /\ n - 1 \in 0 .. Len(s) /\ n \in 1 .. n
    BY LenProperties
  <1>2. h \in Seq(Nat) /\ Len(h) = n /\ \A i \in 1 .. n : h[i] = s[i]
    BY <1>1, OfHead
  <1>3. g \in Seq(Nat) /\ Len(g) = n - 1 /\ \A i \in 1 .. n - 1 : g[i] = s[i]
    BY <1>1, OfHead
  <1>4. h # <<>>
    BY <1>1, <1>2, EmptySeq
  <1> HIDE DEF h, g
  <1>5. Front(h) \in Seq(Nat) /\ Len(Front(h)) = n - 1 /\ \A i \in 1 .. n - 1 : Front(h)[i] = h[i]
    BY <1>2, <1>4, OfFront
  <1>6. \A i \in 1 .. n - 1 : i \in 1 .. n
    BY <1>1
  <1>7. Front(h) = g
    BY <1>2, <1>3, <1>5, <1>6, SeqEqual
  <1>8. Last(h) = s[n]
    BY <1>1, <1>2 DEF Last
  <1> QED BY <1>4, <1>7, <1>8 DEF h, g

\* All directories on the way to a record exist.
LEMMA Ancestors ==
  ASSUME NEW f, Tree(f), NEW p \in DOMAIN f
  PROVE  \A i \in 0 .. Len(basePath(p)) - 1 : Append(SubSeq(basePath(p), 1, i), Dot) \in DOMAIN f
  <1> DEFINE b == basePath(p)
             n == Len(b)
             Up(i) == Append(SubSeq(b, 1, i), Dot)
             T == {j \in Nat : j <= n - 1 /\ Up(n - 1 - j) \notin DOMAIN f}
  <1>1. p \in Places /\ b \in Seq(Nat) /\ n \in Nat
    <2>1. p \in Places
      BY DEF Tree
    <2> QED BY <2>1, OfPlace, LenProperties
  <1>2. ASSUME NEW i \in 1 .. n - 1, Up(i) \in DOMAIN f PROVE Up(i - 1) \in DOMAIN f
    <2> DEFINE h == SubSeq(b, 1, i)
    <2>1. i \in 1 .. n /\ i \in 0 .. n
      BY <1>1
    <2>2. h \in Seq(Nat) /\ h # <<>> /\ Front(h) = SubSeq(b, 1, i - 1)
      BY <1>1, <2>1, FrontOfHead, OfHead
    <2>3. Up(i) \in Places /\ parent(Up(i)) \in DOMAIN f
      BY <1>2 DEF Tree
    <2>4. Up(i) = Append(h, Dot) /\ Dot \in Nat
      BY DEF Dot
    <2> HIDE DEF h, Up
    <2>5. Last(Up(i)) = Dot /\ Front(Up(i)) = h /\ Up(i) # <<>>
      BY <2>2, <2>4, OfAppend
    <2>6. IsDirectory(Up(i))
      BY <2>5 DEF IsDirectory
    <2>7. basePath(Up(i)) = h
      BY <2>5, <2>6 DEF basePath, IsValue
    <2>8. parent(Up(i)) = Append(Front(h), Dot)
      BY <2>2, <2>3, <2>7, OfPlace
    <2> QED BY <2>2, <2>3, <2>8 DEF Up
  <1>3. n # 0 => Up(n - 1) \in DOMAIN f
    <2> SUFFICES ASSUME n # 0 PROVE Up(n - 1) \in DOMAIN f
      OBVIOUS
    <2>1. b # <<>>
      BY EmptySeq
    <2>2. parent(p) = Append(Front(b), Dot)
      BY <1>1, <2>1, OfPlace
    <2> QED BY <2>2 DEF Front, Tree
  <1>4. T = {}
    <2> SUFFICES ASSUME T # {} PROVE FALSE
      OBVIOUS
    <2>1. T \in SUBSET Nat
      OBVIOUS
    <2> HIDE DEF T, Up, n
    <2>2. PICK m \in T : \A j \in T : m <= j
      BY <2>1, Least
    <2>3. m \in Nat /\ m <= n - 1 /\ Up(n - 1 - m) \notin DOMAIN f
      BY <2>2 DEF T
    <2>4. m # 0
      BY <1>1, <1>3, <2>3
    <2>5. m - 1 \in Nat /\ m - 1 <= n - 1 /\ ~(m <= m - 1)
      BY <1>1, <2>3, <2>4
    <2>6. Up(n - 1 - (m - 1)) \in DOMAIN f
      BY <2>2, <2>5 DEF T
    <2>7. n - m \in 1 .. n - 1 /\ n - 1 - (m - 1) = n - m /\ n - m - 1 = n - 1 - m
      BY <1>1, <2>3, <2>4
    <2> QED BY <1>2, <2>3, <2>6, <2>7
  <1>5. ASSUME NEW i \in 0 .. n - 1 PROVE Up(i) \in DOMAIN f
    <2>1. n - 1 - i \in Nat /\ n - 1 - i <= n - 1 /\ n - 1 - (n - 1 - i) = i
      BY <1>1
    <2> HIDE DEF Up, n
    <2> QED BY <1>4, <2>1
  <1> QED BY <1>5

-----------------------------------------------------------------------------
\* New records in directories that exist, under names that are free.
Kinds(p) == IF IsDirectory(p) THEN {"A", "O"} ELSE {"s"}
Kept(f, g) == DOMAIN f \subseteq DOMAIN g /\ \A p \in DOMAIN f : g[p].t = f[p].t

\* The directory of the name of a place, and that name as a place.
LEMMA OfRecord ==
  ASSUME NEW p \in Places, p # Root
  PROVE  LET d == asDirectory(p)
         IN /\ IsDirectory(d) /\ d \in Places /\ d # Root /\ basePath(d) = basePath(p)
            /\ parent(d) = parent(p) /\ name(d) = name(p) /\ asDirectory(d) = d
            /\ p \in {basePath(p), d} /\ basePath(p) # d
            /\ basePath(basePath(p)) = basePath(p) /\ asDirectory(basePath(p)) = d
            /\ parent(basePath(p)) = parent(p) /\ basePath(p) \in Places
            /\ ~IsDirectory(basePath(p)) /\ basePath(p) # Root /\ name(basePath(p)) = name(p)
  <1>1. basePath(p) \in Names /\ asDirectory(p) = Append(basePath(p), Dot)
        /\ name(p) = Last(basePath(p)) /\ parent(p) = Append(Front(basePath(p)), Dot)
    BY OfPlace
  <1>2. p \in {basePath(p), asDirectory(p)}
    BY OfPlace
  <1> QED BY <1>1, <1>2, OfName, OfFolder

\* A tree with new records below its directories, at free names, is a tree.
LEMMA Grafted ==
  ASSUME NEW f, Tree(f), NEW g, IsFiniteSet(DOMAIN g), Kept(f, g),
         \A p \in DOMAIN g \ DOMAIN f :
           /\ p \in Places /\ parent(p) \in DOMAIN g /\ g[p].t \in Kinds(p)
           /\ IF IsDirectory(p) THEN basePath(p) \notin DOMAIN f ELSE asDirectory(p) \notin DOMAIN g
  PROVE  Tree(g)
  <1>1. DOMAIN g \subseteq Places /\ Root \in DOMAIN g /\ g[Root].t = "O"
    BY DEF Tree, Kept
  <1>2. ASSUME NEW p \in DOMAIN g PROVE parent(p) \in DOMAIN g
    BY DEF Tree, Kept
  <1>3. ASSUME NEW p \in DOMAIN g PROVE g[p].t \in Kinds(p)
    BY DEF Tree, Kept, Kinds
  <1>4. ASSUME NEW p \in DOMAIN g, ~IsDirectory(p) PROVE asDirectory(p) \notin DOMAIN g
    <2>1. CASE p \notin DOMAIN f
      BY <1>4, <2>1
    <2>2. CASE p \in DOMAIN f
      <3>1. p \in Places /\ asDirectory(p) \notin DOMAIN f
        BY <1>4, <2>2 DEF Tree
      <3>2. p = basePath(p) /\ p # Root
        BY <1>4, <3>1, OfPlace
      <3>3. IsDirectory(asDirectory(p)) /\ basePath(asDirectory(p)) = p
        BY <3>1, <3>2, OfRecord
      <3> QED BY <2>2, <3>1, <3>3
    <2> QED BY <2>1, <2>2
  <1> QED BY <1>1, <1>2, <1>3, <1>4 DEF Tree, Kinds

\* The name of k has no record in f, and no member has its name.
Fresh(f, k) == /\ k \in Places /\ k # Root /\ parent(k) \in DOMAIN f
               /\ basePath(k) \notin DOMAIN f /\ asDirectory(k) \notin DOMAIN f

\* A name without a record is the name of no member.
LEMMA FreeName ==
  ASSUME NEW f, Tree(f), NEW k, Fresh(f, k)
  PROVE  k \notin DOMAIN f /\ name(k) \notin NamesOf(MembersOf(f, parent(k)))
  <1>1. k \notin DOMAIN f
    BY OfRecord DEF Fresh
  <1>2. ASSUME NEW m \in MembersOf(f, parent(k)), name(m) = name(k) PROVE FALSE
    <2>1. basePath(m) = basePath(k) /\ m \in Places /\ m # Root /\ m \in DOMAIN f
      BY <1>2, OfMember, OneName DEF Fresh
    <2>2. asDirectory(m) = asDirectory(k)
      BY <2>1 DEF asDirectory
    <2> QED BY <2>1, <2>2, OfRecord DEF Fresh
  <1> QED BY <1>1, <1>2 DEF NamesOf

\* A name that no member has.
LEMMA NewName ==
  ASSUME NEW f, Tree(f), NEW k \in Places, k # Root, parent(k) \in DOMAIN f,
         name(k) \notin NamesOf(MembersOf(f, parent(k)))
  PROVE  Fresh(f, k)
  <1>1. ASSUME NEW m \in {basePath(k), asDirectory(k)}, m \in DOMAIN f PROVE FALSE
    <2>1. parent(m) = parent(k) /\ name(m) = name(k) /\ m # parent(k)
      BY OfRecord, OfParent
    <2> QED BY <1>1, <2>1 DEF MembersOf, NamesOf
  <1> QED BY <1>1 DEF Fresh

\* Directory d gets the new members of N; in an array they follow the others.
Joins(f, d, N, g) ==
  /\ \A p \in N : Fresh(f, p) /\ parent(p) = d /\ g[p].t \in Kinds(p)
  /\ \A p, q \in N : basePath(p) = basePath(q) => p = q
  /\ Kept(f, g) /\ DOMAIN g = DOMAIN f \cup N

\* A directory with new, empty members: a tree, and dense if an array gets the
\* next indices.
LEMMA Leaves ==
  ASSUME NEW f, Tree(f), Dense(f), NEW d, NEW N, IsFiniteSet(N), NEW g, Joins(f, d, N, g),
         NEW n, n = Cardinality(MembersOf(f, d)),
         NEW j \in Nat, d \in DOMAIN f /\ f[d].t = "A" => NamesOf(N) = n + 1 .. n + j
  PROVE  Tree(g) /\ Dense(g)
  <1> USE DEF Joins
  <1>1. ASSUME NEW p \in N PROVE p \notin DOMAIN f /\ d \in DOMAIN f
    BY FreeName DEF Fresh
  <1>2. IsFiniteSet(DOMAIN g)
    <2>1. IsFiniteSet(DOMAIN f)
      BY DEF Tree
    <2>2. IsFiniteSet(DOMAIN f \cup N)
      BY <2>1, FS_Union
    <2> QED BY <2>2
  <1>3. ASSUME NEW p \in N, ~IsDirectory(p) PROVE asDirectory(p) \notin DOMAIN g
    <2>1. p \in Places /\ p # Root /\ asDirectory(p) \notin DOMAIN f
      BY DEF Fresh
    <2>2. IsDirectory(asDirectory(p)) /\ basePath(asDirectory(p)) = basePath(p)
      BY <2>1, OfRecord
    <2>3. asDirectory(p) \notin N
      BY <1>3, <2>2
    <2> QED BY <2>1, <2>3
  <1>4. Tree(g)
    <2>1. \A p \in DOMAIN g \ DOMAIN f :
            /\ p \in Places /\ parent(p) \in DOMAIN g /\ g[p].t \in Kinds(p)
            /\ IF IsDirectory(p) THEN basePath(p) \notin DOMAIN f ELSE asDirectory(p) \notin DOMAIN g
      BY <1>3 DEF Fresh
    <2> QED BY <1>2, <2>1, Grafted
  <1>5. ASSUME NEW e \in DOMAIN f, e # d PROVE MembersOf(g, e) = MembersOf(f, e)
    BY <1>5 DEF MembersOf
  <1>6. ASSUME NEW e \in N PROVE MembersOf(g, e) = {}
    <2>1. e \notin DOMAIN f /\ e # d
      BY <1>1
    <2>2. \A m \in DOMAIN f : parent(m) # e
      BY <2>1 DEF Tree
    <2> QED BY <2>1, <2>2 DEF MembersOf
  <1>7. MembersOf(g, d) = MembersOf(f, d) \cup N
    <2>1. \A p \in N : p # d
      BY <1>1
    <2> QED BY <2>1 DEF MembersOf
  <1>8. ASSUME d \in DOMAIN f, f[d].t = "A" PROVE Full(g, d, n + j)
    <2>1. n \in Nat /\ NamesOf(MembersOf(f, d)) = 1 .. n
      BY <1>8, FullArrays, Finite DEF Full
    <2>2. NamesOf(MembersOf(g, d)) = NamesOf(MembersOf(f, d)) \cup NamesOf(N)
      BY <1>7 DEF NamesOf
    <2>3. NamesOf(MembersOf(g, d)) = (1 .. n) \cup (n + 1 .. n + j)
      BY <1>8, <2>1, <2>2
    <2>4. (1 .. n) \cup (n + 1 .. n + j) = 1 .. n + j
      BY <2>1
    <2> QED BY <2>1, <2>3, <2>4 DEF Full
  <1>9. ASSUME NEW e \in DOMAIN g, g[e].t = "A" PROVE \E i \in Nat : Full(g, e, i)
    <2>1. CASE e \in N
      <3>1. NamesOf(MembersOf(g, e)) = 1 .. 0
        BY <1>6, <2>1 DEF NamesOf
      <3> QED BY <3>1 DEF Full
    <2>2. CASE e \in DOMAIN f
      <3>1. f[e].t = "A"
        BY <1>9, <2>2 DEF Kept
      <3>2. \E i \in Nat : Full(f, e, i)
        BY <2>2, <3>1, FullArrays
      <3>3. n + j \in Nat
        BY Finite
      <3>4. CASE e = d
        BY <1>8, <2>2, <3>1, <3>3, <3>4
      <3>5. CASE e # d
        BY <1>5, <2>2, <3>2, <3>5 DEF Full
      <3> QED BY <3>4, <3>5
    <2> QED BY <2>1, <2>2
  <1> QED BY <1>4, <1>9, FullArrays

-----------------------------------------------------------------------------
\* The commands that write single records.

\* The members that commands see are those of the document.
LEMMA AsMembers == \A d : Members(d) = MembersOf(doc, d)
  BY DEF Members, MembersOf

\* The place of a new element is the end of the array.
LEMMA NextElement ==
  ASSUME Sound, NEW k, Fresh(doc, k), InPlace(k), doc[parent(k)].t = "A"
  PROVE  name(k) = Cardinality(MembersOf(doc, parent(k))) + 1
  <1> DEFINE d == parent(k)
             n == Cardinality(MembersOf(doc, d))
  <1>1. d \in DOMAIN doc /\ Tree(doc) /\ Dense(doc)
    BY DEF InPlace, Sound
  <1>2. n \in Nat /\ NamesOf(MembersOf(doc, d)) = 1 .. n
    BY <1>1, FullArrays, Finite DEF Full
  <1>3. name(k) \notin NamesOf(MembersOf(doc, d))
    BY <1>1, FreeName
  <1>4. name(k) \in 1 .. Star - 1 /\ name(k) - 1 <= n
    BY <1>1, AsMembers DEF InPlace, IsIndex, IndexOf, IsArray
  <1> HIDE DEF n
  <1>5. name(k) = n + 1
    BY <1>2, <1>3, <1>4, PathAssumption
  <1> QED BY <1>5 DEF n

\* A record at a free name, as its kind asks.
LEMMA PutNew ==
  ASSUME Sound, NEW k \in Places, k # Root, InPlace(k), Free(k), NEW v, v.t \in Kinds(k)
  PROVE  Tree(Put(doc, k, v)) /\ Dense(Put(doc, k, v))
  <1> DEFINE g == Put(doc, k, v)
             d == parent(k)
             n == Cardinality(MembersOf(doc, d))
  <1>1. Tree(doc) /\ Dense(doc) /\ Fresh(doc, k)
    BY DEF Sound, InPlace, Free, Fresh
  <1>2. DOMAIN g = DOMAIN doc \cup {k} /\ g[k] = v /\ Kept(doc, g)
    <2>1. k \notin DOMAIN doc
      BY <1>1, FreeName
    <2> QED BY <2>1 DEF Put, Kept
  <1>3. IsFiniteSet({k})
    BY FS_Singleton
  <1>4. n \in Nat /\ (d \in DOMAIN doc /\ doc[d].t = "A" => NamesOf({k}) = n + 1 .. n + 1)
    <2>1. n \in Nat
      BY <1>1, Finite
    <2>2. doc[d].t = "A" => name(k) = n + 1
      BY <1>1, NextElement
    <2>3. NamesOf({k}) = {name(k)}
      BY DEF NamesOf
    <2> QED BY <2>1, <2>2, <2>3
  <1>5. n = Cardinality(MembersOf(doc, d)) /\ 1 \in Nat
    OBVIOUS
  <1>6. Joins(doc, d, {k}, g)
    BY <1>1, <1>2 DEF Joins
  <1> HIDE DEF g, n, d
  <1>7. Tree(g) /\ Dense(g)
    BY <1>1, <1>2, <1>3, <1>4, <1>5, <1>6, Leaves
  <1> QED BY <1>7 DEF g

\* The same records, of the same kinds.
LEMMA SameShape ==
  ASSUME NEW f, Tree(f), Dense(f), NEW g, DOMAIN g = DOMAIN f,
         \A p \in DOMAIN f : g[p].t = f[p].t
  PROVE  Tree(g) /\ Dense(g)
  <1>1. Tree(g)
    BY DEF Tree
  <1>2. \A d : MembersOf(g, d) = MembersOf(f, d)
    BY DEF MembersOf
  <1>3. Dense(g)
    BY <1>2 DEF Dense
  <1> QED BY <1>1, <1>3

\* A record in place of one of the same kind.
LEMMA PutOver ==
  ASSUME Sound, NEW k \in DOMAIN doc, NEW v, v.t = doc[k].t
  PROVE  Tree(Put(doc, k, v)) /\ Dense(Put(doc, k, v))
  <1>1. DOMAIN Put(doc, k, v) = DOMAIN doc /\ \A p \in DOMAIN doc : Put(doc, k, v)[p].t = doc[p].t
    BY DEF Put
  <1> QED BY <1>1, SameShape DEF Sound

\* set, add, replace, mkarr and mkobj.
LEMMA WriteSound ==
  ASSUME Sound, NEW c, Fits(c), Accepts(c),
         c.op \in {"set", "add", "replace", "mkarr", "mkobj"}
  PROVE  Tree(Effect(c)) /\ Dense(Effect(c))
  <1>1. CASE c.op \in {"set", "add", "replace"}
    <2> DEFINE v == [t |-> "s", n |-> c.value]
    <2>1. Effect(c) = Put(doc, c.at, v)
      BY <1>1 DEF Effect
    <2>2. c.at \in Names /\ (c.at \in DOMAIN doc \/ (InPlace(c.at) /\ asDirectory(c.at) \notin DOMAIN doc))
      <3>1. CASE c.op = "replace"
        <4>1. c.at \in Names
          BY <3>1 DEF Fits
        <4>2. c.at \in DOMAIN doc
          BY <3>1 DEF Accepts
        <4> QED BY <4>1, <4>2
      <3>2. CASE c.op \in {"set", "add"}
        BY <3>2 DEF Fits, Accepts
      <3> QED BY <1>1, <3>1, <3>2
    <2>3. c.at \in Places /\ c.at # Root /\ ~IsDirectory(c.at) /\ basePath(c.at) = c.at
      BY <2>2, OfName
    <2>4. CASE c.at \in DOMAIN doc
      <3>1. v.t = doc[c.at].t
        BY <2>3, <2>4 DEF Sound, Tree
      <3> QED BY <2>1, <2>4, <3>1, PutOver
    <2>5. CASE c.at \notin DOMAIN doc
      <3>1. InPlace(c.at) /\ Free(c.at)
        BY <2>2, <2>3, <2>5 DEF Free
      <3>2. v.t \in Kinds(c.at)
        BY <2>3 DEF Kinds
      <3> QED BY <2>1, <2>3, <3>1, <3>2, PutNew
    <2> QED BY <2>4, <2>5
  <1>2. CASE c.op \in {"mkarr", "mkobj"}
    <2>1. c.at \in Places /\ IsDirectory(c.at)
      BY <1>2 DEF Fits
    <2>2. InPlace(c.at) /\ Free(c.at)
      BY <1>2 DEF Accepts
    <2>3. PICK v : Effect(c) = Put(doc, c.at, v) /\ v.t \in {"A", "O"}
      <3>1. Node("A").t = "A" /\ Node("O").t = "O"
        BY DEF Node
      <3>2. Effect(c) = Put(doc, c.at, Node("A")) \/ Effect(c) = Put(doc, c.at, Node("O"))
        BY <1>2 DEF Effect
      <3> QED BY <3>1, <3>2
    <2>4. c.at # Root
      BY <2>2, OfRoot DEF Free, Sound, Tree
    <2>5. v.t \in Kinds(c.at)
      BY <2>1, <2>3 DEF Kinds
    <2> QED BY <2>1, <2>2, <2>3, <2>4, <2>5, PutNew
  <1> QED BY <1>1, <1>2

\* A child of a directory.
LEMMA OfChild ==
  ASSUME NEW d \in Places, IsDirectory(d), NEW x \in Nat \ {Dot, Star}
  PROVE  LET k == withChild(d, x)
         IN /\ k \in Names /\ k \in Places /\ k # Root /\ ~IsDirectory(k) /\ basePath(k) = k
            /\ parent(k) = d /\ name(k) = x
  <1> DEFINE k == withChild(d, x)
             b == basePath(d)
  <1>1. b \in Seq(Nat) /\ d = Append(b, Dot) /\ k = Append(b, x)
    BY OfPlace DEF withChild
  <1>2. k \in Seq(Nat) /\ k # <<>> /\ Last(k) = x /\ Front(k) = b
    BY <1>1, OfAppend
  <1>3. k \in Names
    BY <1>2 DEF Names
  <1> QED BY <1>1, <1>2, <1>3, OfName

\* append: the values follow the elements.
LEMMA AppendSound ==
  ASSUME Sound, NEW c, Fits(c), Accepts(c), c.op = "append"
  PROVE  Tree(Effect(c)) /\ Dense(Effect(c))
  <1> DEFINE d == c.at
             n == Cardinality(MembersOf(doc, d))
             j == Len(c.values)
             N == {withChild(d, Index(n + i - 1)) : i \in DOMAIN c.values}
             g == Effect(c)
  <1>1. Tree(doc) /\ Dense(doc) /\ d \in DOMAIN doc /\ doc[d].t = "A" /\ n \in Nat
    BY Finite DEF Sound, Accepts, IsArray
  <1>2. d \in Places /\ IsDirectory(d)
    BY <1>1 DEF Tree
  <1>3. DOMAIN c.values = 1 .. j /\ j \in Nat /\ n + j < Star
    BY AsMembers DEF Fits
  <1>4. DOMAIN Effect(c) = DOMAIN doc \cup N
        /\ \A p \in DOMAIN Effect(c) :
             Effect(c)[p].t = IF p \in DOMAIN doc THEN doc[p].t ELSE "s"
    BY AsMembers DEF Effect
  <1>5. ASSUME NEW i \in 1 .. j
        PROVE  LET k == withChild(d, Index(n + i - 1))
               IN /\ k \in Places /\ ~IsDirectory(k) /\ basePath(k) = k
                  /\ Fresh(doc, k) /\ parent(k) = d /\ name(k) = n + i
    <2> DEFINE k == withChild(d, Index(n + i - 1))
    <2>1. Index(n + i - 1) = n + i /\ n + i \in Nat \ {Dot, Star} /\ n + i \notin 1 .. n
      BY <1>1, <1>3 DEF Index, Dot
    <2>2. /\ k \in Places /\ k # Root /\ ~IsDirectory(k) /\ basePath(k) = k
          /\ parent(k) = d /\ name(k) = n + i
      BY <1>2, <2>1, OfChild
    <2> HIDE DEF k
    <2>3. NamesOf(MembersOf(doc, d)) = 1 .. n
      BY <1>1, FullArrays DEF Full
    <2>4. Fresh(doc, k)
      BY <1>1, <2>1, <2>2, <2>3, NewName
    <2> QED BY <2>2, <2>4 DEF k
  <1>6. IsFiniteSet(N)
    <2> DEFINE h == [i \in 1 .. j |-> withChild(d, Index(n + i - 1))]
    <2>1. N = {h[i] : i \in 1 .. j}
      BY <1>3
    <2>2. IsFiniteSet(1 .. j) /\ DOMAIN h = 1 .. j
      BY <1>3, FS_Interval
    <2> HIDE DEF h, N
    <2> QED BY <2>1, <2>2, FiniteImage
  <1>7. ASSUME NEW p \in N
        PROVE  Fresh(doc, p) /\ parent(p) = d /\ g[p].t \in Kinds(p) /\ basePath(p) = p
               /\ name(p) \in n + 1 .. n + j
    <2>1. PICK i \in 1 .. j : p = withChild(d, Index(n + i - 1))
      BY <1>3
    <2>2. Fresh(doc, p) /\ parent(p) = d /\ ~IsDirectory(p) /\ basePath(p) = p /\ name(p) = n + i
      BY <1>5, <2>1
    <2>3. p \notin DOMAIN doc
      BY <1>1, <2>2, FreeName
    <2>4. n + i \in n + 1 .. n + j
      BY <1>1, <1>3
    <2> QED BY <1>4, <2>2, <2>3, <2>4 DEF Kinds
  <1>8. NamesOf(N) = n + 1 .. n + j
    <2>1. ASSUME NEW x \in n + 1 .. n + j PROVE \E p \in N : name(p) = x
      <3>1. x - n \in 1 .. j /\ n + (x - n) = x
        BY <1>1, <1>3
      <3>2. withChild(d, Index(n + (x - n) - 1)) \in N
        BY <1>3, <3>1
      <3> QED BY <1>5, <3>1, <3>2
    <2> QED BY <1>7, <2>1 DEF NamesOf
  <1>9. Kept(doc, g)
    BY <1>4 DEF Kept
  <1>10. Joins(doc, d, N, g)
    BY <1>4, <1>7, <1>9 DEF Joins
  <1>11. n = Cardinality(MembersOf(doc, d)) /\ j \in Nat
    BY <1>3
  <1> HIDE DEF N, n, d, j, g
  <1>12. Tree(g) /\ Dense(g)
    BY <1>1, <1>6, <1>8, <1>10, <1>11, Leaves
  <1> QED BY <1>12 DEF g

\* load: the document is the text.
LEMMA LoadSound ==
  ASSUME NEW c, Fits(c), c.op = "load"
  PROVE  Tree(Effect(c)) /\ Dense(Effect(c))
  <1>1. Tree(c.text) /\ Dense(c.text)
    BY DEF Fits
  <1>2. DOMAIN Effect(c) = DOMAIN c.text /\ \A p \in DOMAIN c.text : Effect(c)[p].t = c.text[p].t
    BY DEF Effect, Node
  <1> QED BY <1>1, <1>2, SameShape

\* truncate: the root is left, empty.
LEMMA TruncateSound ==
  ASSUME NEW c, c.op = "truncate"
  PROVE  Tree(Effect(c)) /\ Dense(Effect(c))
  <1> DEFINE g == [k \in {Root} |-> Node("O")]
  <1>1. Effect(c) = g
    BY DEF Effect
  <1>2. IsFiniteSet(DOMAIN g)
    BY FS_Singleton
  <1>3. Tree(g)
    BY <1>2, OfRoot DEF Tree, Node
  <1>4. Dense(g)
    BY DEF Dense, Node
  <1> QED BY <1>1, <1>3, <1>4

-----------------------------------------------------------------------------
\* Paths that change places: what p has after a comes after b.
Moved(p, a, b) == b \o SubSeq(p, Len(a) + 1, Len(p))

\* Rebased moves paths from below one name to below another.
LEMMA RebasedMoves == \A p, s, d : Rebased(p, s, d) = Moved(p, basePath(s), basePath(d))
  BY DEF Rebased, Moved

\* The components of a moved path.
LEMMA OfMoved ==
  ASSUME NEW a \in Seq(Nat), NEW b \in Seq(Nat), NEW p \in Seq(Nat), Len(a) <= Len(p)
  PROVE  LET m == Moved(p, a, b)
         IN /\ m \in Seq(Nat) /\ Len(m) = Len(b) + Len(p) - Len(a)
            /\ \A i \in 1 .. Len(b) : m[i] = b[i]
            /\ \A i \in 1 .. Len(p) - Len(a) : m[Len(b) + i] = p[Len(a) + i]
            /\ IsPrefix(b, m)
  <1> DEFINE r == SubSeq(p, Len(a) + 1, Len(p))
             m == Moved(p, a, b)
  <1>1. Len(a) \in Nat /\ Len(b) \in Nat /\ Len(p) \in Nat /\ Len(a) \in 0 .. Len(p)
    BY LenProperties
  <1>2. /\ r \in Seq(Nat) /\ Len(r) = Len(p) - Len(a)
        /\ \A i \in 1 .. Len(p) - Len(a) : r[i] = p[Len(a) + i]
    BY <1>1, OfRest
  <1>3. m = b \o r
    BY DEF Moved
  <1> HIDE DEF r, m
  <1>4. /\ m \in Seq(Nat) /\ Len(m) = Len(b) + Len(r)
        /\ \A i \in 1 .. Len(b) + Len(r) : m[i] = IF i <= Len(b) THEN b[i] ELSE r[i - Len(b)]
    BY <1>2, <1>3, ConcatProperties
  <1>5. Len(m) = Len(b) + Len(p) - Len(a) /\ Len(b) <= Len(m)
    BY <1>1, <1>2, <1>4
  <1>6. ASSUME NEW i \in 1 .. Len(b) PROVE m[i] = b[i]
    <2>1. i \in 1 .. Len(b) + Len(r) /\ i <= Len(b)
      BY <1>1, <1>2
    <2> QED BY <1>4, <2>1
  <1>7. ASSUME NEW i \in 1 .. Len(p) - Len(a) PROVE m[Len(b) + i] = p[Len(a) + i]
    <2>1. Len(b) + i \in 1 .. Len(b) + Len(r) /\ ~(Len(b) + i <= Len(b)) /\ Len(b) + i - Len(b) = i
      BY <1>1, <1>2
    <2>2. m[Len(b) + i] = r[i]
      BY <1>4, <2>1
    <2> QED BY <1>2, <2>2
  <1>8. IsPrefix(b, m)
    BY <1>4, <1>5, <1>6, OfPrefix
  <1> QED BY <1>4, <1>5, <1>6, <1>7, <1>8 DEF m

\* Equality after moving, one part at a time.
LEMMA SameParts ==
  ASSUME NEW s \in Seq(Nat), NEW t \in Seq(Nat), Len(s) = Len(t), NEW n \in 0 .. Len(s),
         \A i \in 1 .. n : s[i] = t[i], \A i \in 1 .. Len(s) - n : s[n + i] = t[n + i]
  PROVE  s = t
  <1>1. ASSUME NEW i \in 1 .. Len(s) PROVE s[i] = t[i]
    <2>1. Len(s) \in Nat
      BY LenProperties
    <2>2. CASE i <= n
      <3>1. i \in 1 .. n
        BY <2>1, <2>2
      <3> QED BY <3>1
    <2>3. CASE i > n
      <3>1. i - n \in 1 .. Len(s) - n /\ n + (i - n) = i
        BY <2>1, <2>3
      <3>2. s[n + (i - n)] = t[n + (i - n)]
        BY <3>1
      <3> QED BY <3>1, <3>2
    <2> QED BY <2>1, <2>2, <2>3
  <1> QED BY <1>1, SeqEqual

\* Moving there and back changes nothing.
LEMMA MovedBack ==
  ASSUME NEW a \in Seq(Nat), NEW b \in Seq(Nat), NEW p \in Seq(Nat), IsPrefix(a, p)
  PROVE  Moved(Moved(p, a, b), b, a) = p /\ Moved(a, a, b) = b
  <1> DEFINE m == Moved(p, a, b)
             n == Moved(m, b, a)
  <1>1. Len(a) \in Nat /\ Len(b) \in Nat /\ Len(p) \in Nat /\ Len(a) <= Len(p)
        /\ \A i \in 1 .. Len(a) : a[i] = p[i]
    BY LenProperties, OfPrefix
  <1>2. /\ m \in Seq(Nat) /\ Len(m) = Len(b) + Len(p) - Len(a)
        /\ \A i \in 1 .. Len(p) - Len(a) : m[Len(b) + i] = p[Len(a) + i]
    BY <1>1, OfMoved
  <1> HIDE DEF m
  <1>3. Len(b) <= Len(m) /\ Len(m) - Len(b) = Len(p) - Len(a)
    BY <1>1, <1>2
  <1>4. /\ n \in Seq(Nat) /\ Len(n) = Len(a) + Len(m) - Len(b)
        /\ \A i \in 1 .. Len(a) : n[i] = a[i]
        /\ \A i \in 1 .. Len(m) - Len(b) : n[Len(a) + i] = m[Len(b) + i]
    BY <1>2, <1>3, OfMoved
  <1> HIDE DEF n
  <1>5. Len(n) = Len(p) /\ Len(a) \in 0 .. Len(n)
    BY <1>1, <1>2, <1>4
  <1>6. /\ \A i \in 1 .. Len(a) : n[i] = p[i]
        /\ \A i \in 1 .. Len(n) - Len(a) : n[Len(a) + i] = p[Len(a) + i]
    BY <1>1, <1>2, <1>3, <1>4, <1>5
  <1>7. n = p
    BY <1>4, <1>5, <1>6, SameParts
  <1>8. Moved(a, a, b) = b
    <2>1. Len(a) <= Len(a) /\ Len(b) + Len(a) - Len(a) = Len(b)
      BY <1>1
    <2>2. /\ Moved(a, a, b) \in Seq(Nat) /\ Len(Moved(a, a, b)) = Len(b)
          /\ \A i \in 1 .. Len(b) : Moved(a, a, b)[i] = b[i]
      BY <2>1, OfMoved
    <2> QED BY <2>2, SeqEqual
  <1> QED BY <1>7, <1>8 DEF n, m

\* A last component is moved along.
LEMMA MovedAppend ==
  ASSUME NEW a \in Seq(Nat), NEW b \in Seq(Nat), NEW p \in Seq(Nat), Len(a) <= Len(p), NEW e \in Nat
  PROVE  Moved(Append(p, e), a, b) = Append(Moved(p, a, b), e)
  <1> DEFINE q == Append(p, e)
             m == Moved(p, a, b)
             s == Moved(q, a, b)
             t == Append(m, e)
  <1>1. Len(a) \in Nat /\ Len(b) \in Nat /\ Len(p) \in Nat
    BY LenProperties
  <1>2. q \in Seq(Nat) /\ Len(q) = Len(p) + 1 /\ (\A i \in 1 .. Len(p) : q[i] = p[i]) /\ q[Len(p) + 1] = e
    BY OfAppend
  <1>3. /\ m \in Seq(Nat) /\ Len(m) = Len(b) + Len(p) - Len(a)
        /\ \A i \in 1 .. Len(b) : m[i] = b[i]
        /\ \A i \in 1 .. Len(p) - Len(a) : m[Len(b) + i] = p[Len(a) + i]
    BY OfMoved
  <1> HIDE DEF q, m
  <1>4. /\ s \in Seq(Nat) /\ Len(s) = Len(b) + Len(q) - Len(a)
        /\ \A i \in 1 .. Len(b) : s[i] = b[i]
        /\ \A i \in 1 .. Len(q) - Len(a) : s[Len(b) + i] = q[Len(a) + i]
    <2>1. Len(a) <= Len(q)
      BY <1>1, <1>2
    <2> QED BY <1>2, <2>1, OfMoved
  <1>5. t \in Seq(Nat) /\ Len(t) = Len(m) + 1 /\ (\A i \in 1 .. Len(m) : t[i] = m[i]) /\ t[Len(m) + 1] = e
    BY <1>3, OfAppend
  <1> HIDE DEF s, t
  <1>6. Len(s) = Len(t) /\ Len(b) \in 0 .. Len(s)
    BY <1>1, <1>2, <1>3, <1>4, <1>5
  <1>7. ASSUME NEW i \in 1 .. Len(b) PROVE s[i] = t[i]
    <2>1. i \in 1 .. Len(m)
      BY <1>1, <1>3
    <2> QED BY <1>3, <1>4, <1>5, <2>1
  <1>8. ASSUME NEW i \in 1 .. Len(s) - Len(b) PROVE s[Len(b) + i] = t[Len(b) + i]
    <2>1. i \in 1 .. Len(q) - Len(a) /\ s[Len(b) + i] = q[Len(a) + i]
      BY <1>1, <1>2, <1>4
    <2>2. CASE i <= Len(p) - Len(a)
      <3>1. i \in 1 .. Len(p) - Len(a) /\ Len(b) + i \in 1 .. Len(m) /\ Len(a) + i \in 1 .. Len(p)
        BY <1>1, <1>3, <2>2
      <3> QED BY <1>2, <1>3, <1>5, <2>1, <3>1
    <2>3. CASE i > Len(p) - Len(a)
      <3>1. Len(a) + i = Len(p) + 1 /\ Len(b) + i = Len(m) + 1
        BY <1>1, <1>2, <1>3, <2>1, <2>3
      <3> QED BY <1>2, <1>5, <2>1, <3>1
    <2> QED BY <1>1, <2>2, <2>3
  <1>9. s = t
    BY <1>4, <1>5, <1>6, <1>7, <1>8, SameParts
  <1> QED BY <1>9 DEF s, t, q, m

\* Paths moved below different names stay different.
LEMMA MovedApart ==
  ASSUME NEW a \in Seq(Nat), NEW b \in Seq(Nat), NEW p \in Seq(Nat), Len(a) <= Len(p),
         NEW c \in Seq(Nat), NEW d \in Seq(Nat), NEW q \in Seq(Nat), Len(c) <= Len(q),
         Len(b) = Len(d), Moved(p, a, b) = Moved(q, c, d)
  PROVE  b = d
  <1>1. \A i \in 1 .. Len(b) : Moved(p, a, b)[i] = b[i]
    BY OfMoved
  <1>2. \A i \in 1 .. Len(d) : Moved(q, c, d)[i] = d[i]
    BY OfMoved
  <1>3. \A i \in 1 .. Len(b) : b[i] = d[i]
    BY <1>1, <1>2
  <1> QED BY <1>3, SeqEqual

\* A prefix is the whole or lies in what Front leaves.
LEMMA PrefixOfFront ==
  ASSUME NEW a \in Seq(Nat), NEW b \in Seq(Nat), IsPrefix(a, b), a # b
  PROVE  b # <<>> /\ Len(a) <= Len(Front(b)) /\ IsPrefix(a, Front(b))
  <1>1. /\ Len(a) \in Nat /\ Len(b) \in Nat /\ Len(a) <= Len(b)
        /\ \A i \in 1 .. Len(a) : a[i] = b[i]
    BY LenProperties, OfPrefix
  <1>2. Len(a) # Len(b)
    BY <1>1, SeqEqual
  <1>3. b # <<>>
    BY <1>1, <1>2, EmptySeq
  <1>4. Front(b) \in Seq(Nat) /\ Len(Front(b)) = Len(b) - 1 /\ \A i \in 1 .. Len(b) - 1 : Front(b)[i] = b[i]
    BY <1>3, OfFront
  <1>5. Len(a) <= Len(Front(b))
    BY <1>1, <1>2, <1>4
  <1>6. \A i \in 1 .. Len(a) : a[i] = Front(b)[i]
    <2>1. \A i \in 1 .. Len(a) : i \in 1 .. Len(b) - 1
      BY <1>1, <1>4, <1>5
    <2> QED BY <1>1, <1>4, <2>1
  <1> QED BY <1>3, <1>4, <1>5, <1>6, OfPrefix

\* A prefix of a path is a proper prefix of a longer one.
LEMMA PrefixOfAppend ==
  ASSUME NEW a \in Seq(Nat), NEW b \in Seq(Nat), IsPrefix(a, b), NEW e \in Nat
  PROVE  IsPrefix(a, Append(b, e)) /\ a # Append(b, e)
  <1> DEFINE c == Append(b, e)
  <1>1. c \in Seq(Nat) /\ Len(c) = Len(b) + 1 /\ \A i \in 1 .. Len(b) : c[i] = b[i]
    BY OfAppend
  <1> HIDE DEF c
  <1>2. Len(a) \in Nat /\ Len(b) \in Nat /\ Len(a) <= Len(b) /\ \A i \in 1 .. Len(a) : a[i] = b[i]
    BY LenProperties, OfPrefix
  <1>3. \A i \in 1 .. Len(a) : i \in 1 .. Len(b)
    BY <1>2
  <1>4. Len(a) <= Len(c) /\ a # c
    BY <1>1, <1>2
  <1>5. \A i \in 1 .. Len(a) : a[i] = c[i]
    BY <1>1, <1>2, <1>3
  <1>6. IsPrefix(a, c)
    BY <1>1, <1>4, <1>5, OfPrefix
  <1> QED BY <1>4, <1>6 DEF c

\* A place below a name, moved below another name.
LEMMA MovedPlace ==
  ASSUME NEW a \in Seq(Nat), NEW b \in Names, NEW q \in Places, IsPrefix(a, basePath(q))
  PROVE  LET k == Moved(q, a, b)
         IN /\ k \in Places /\ k # Root /\ (IsDirectory(k) <=> IsDirectory(q))
            /\ basePath(k) = Moved(basePath(q), a, b) /\ IsPrefix(b, basePath(k))
            /\ basePath(q) = a => basePath(k) = b
            /\ basePath(q) # a => /\ q # Root /\ parent(k) = Moved(parent(q), a, b)
                                  /\ name(k) = name(q) /\ IsPrefix(a, basePath(parent(q)))
  <1> DEFINE c == basePath(q)
             m == Moved(c, a, b)
             k == Moved(q, a, b)
  <1>1. /\ c \in Seq(Nat) /\ b \in Seq(Nat) /\ Dot \in Nat /\ q \in Seq(Nat)
        /\ Len(a) \in Nat /\ Len(c) \in Nat /\ Len(a) <= Len(c)
    BY OfPlace, LenProperties, OfPrefix DEF Names, Dot
  <1>2. m \in Seq(Nat) /\ IsPrefix(b, m)
    BY <1>1, OfMoved
  <1>3. ASSUME c = a PROVE m = b
    BY <1>1, <1>3, MovedBack
  <1>4. ASSUME c # a
        PROVE  /\ q # Root /\ IsPrefix(a, Front(c)) /\ m \in Names
               /\ Front(m) = Moved(Front(c), a, b) /\ Last(m) = name(q)
               /\ Append(Front(m), Dot) = Moved(parent(q), a, b) /\ basePath(parent(q)) = Front(c)
    <2> DEFINE f == Front(c)
    <2>1. c # <<>> /\ Len(a) <= Len(f) /\ IsPrefix(a, f)
      BY <1>1, <1>4, PrefixOfFront
    <2>2. q # Root /\ parent(q) = Append(f, Dot) /\ name(q) \in Nat \ {Dot, Star}
      BY <2>1, OfPlace
    <2>3. c = Append(f, name(q)) /\ f \in Seq(Nat) /\ basePath(parent(q)) = f
      BY <2>2, OfParent
    <2> HIDE DEF f, c
    <2>4. m = Append(Moved(f, a, b), name(q)) /\ Moved(parent(q), a, b) = Append(Moved(f, a, b), Dot)
      BY <1>1, <2>1, <2>2, <2>3, MovedAppend
    <2>5. Moved(f, a, b) \in Seq(Nat)
      BY <1>1, <2>1, <2>3, OfMoved
    <2> HIDE DEF m
    <2>6. m # <<>> /\ m \in Seq(Nat) /\ Last(m) = name(q) /\ Front(m) = Moved(f, a, b)
      BY <2>2, <2>4, <2>5, OfAppend
    <2>7. m \in Names
      BY <2>2, <2>6 DEF Names
    <2> QED BY <2>1, <2>2, <2>3, <2>4, <2>6, <2>7 DEF f
  <1>5. m \in Names
    BY <1>3, <1>4
  <1>6. IF IsDirectory(q) THEN k = Append(m, Dot) ELSE k = m
    <2>1. CASE IsDirectory(q)
      <3>1. q = Append(c, Dot)
        BY <2>1, OfPlace
      <3>2. Moved(Append(c, Dot), a, b) = Append(m, Dot)
        BY <1>1, MovedAppend
      <3> HIDE DEF c, m
      <3>3. k = Append(m, Dot)
        BY <3>1, <3>2
      <3> QED BY <2>1, <3>3
    <2>2. CASE ~IsDirectory(q)
      BY <2>2, OfPlace
    <2> QED BY <2>1, <2>2
  <1> HIDE DEF k, m, c
  <1>7. /\ k \in Places /\ k # Root /\ basePath(k) = m
        /\ parent(k) = Append(Front(m), Dot) /\ name(k) = Last(m)
    BY <1>5, <1>6, OfName, OfFolder
  <1>8. IsDirectory(k) <=> IsDirectory(q)
    <2>1. IsDirectory(Append(m, Dot)) /\ ~IsDirectory(m)
      BY <1>5, OfName, OfFolder
    <2> QED BY <1>6, <2>1
  <1> QED BY <1>2, <1>3, <1>4, <1>7, <1>8 DEF k, m, c

\* The records below a name, and that of the name itself.
Under(f, b) == {q \in DOMAIN f : IsPrefix(b, basePath(q))}

\* Records below a name lie in its directory, except its own.
LEMMA UnderName ==
  ASSUME NEW f, Tree(f), NEW b \in Seq(Nat), NEW q \in Under(f, b)
  PROVE  basePath(q) = b \/ Append(b, Dot) \in DOMAIN f
  <1>1. q \in DOMAIN f /\ q \in Places /\ IsPrefix(b, basePath(q))
    BY DEF Under, Tree
  <1> DEFINE c == basePath(q)
  <1>2. c \in Seq(Nat)
    BY <1>1, OfPlace
  <1> SUFFICES ASSUME c # b PROVE Append(b, Dot) \in DOMAIN f
    OBVIOUS
  <1>3. c # <<>> /\ Len(b) <= Len(Front(c)) /\ Len(Front(c)) = Len(c) - 1 /\ Len(b) \in Nat
    BY <1>1, <1>2, PrefixOfFront, OfFront, LenProperties
  <1>4. Len(b) \in 0 .. Len(c) - 1
    BY <1>3
  <1>5. Append(SubSeq(c, 1, Len(b)), Dot) \in DOMAIN f
    BY <1>1, <1>4, Ancestors
  <1>6. SubSeq(c, 1, Len(b)) = b
    BY <1>1, SubSeqFull DEF IsPrefix
  <1> QED BY <1>5, <1>6

\* Below a free name there are no records.
LEMMA NothingUnder ==
  ASSUME NEW f, Tree(f), NEW k, Fresh(f, k)
  PROVE  Under(f, basePath(k)) = {}
  <1> SUFFICES ASSUME NEW q \in Under(f, basePath(k)) PROVE FALSE
    OBVIOUS
  <1>1. k \in Places /\ k # Root /\ q \in Places /\ q \in DOMAIN f
    BY DEF Fresh, Under, Tree
  <1>2. basePath(k) \in Seq(Nat) /\ asDirectory(k) = Append(basePath(k), Dot) /\ basePath(k) # <<>>
    BY <1>1, OfPlace
  <1>3. asDirectory(k) \notin DOMAIN f /\ basePath(k) \notin DOMAIN f
    BY DEF Fresh
  <1>4. basePath(q) = basePath(k)
    BY <1>2, <1>3, UnderName
  <1>5. q \in {basePath(q), asDirectory(q)} /\ asDirectory(q) = asDirectory(k)
    BY <1>1, <1>4, OfPlace DEF asDirectory
  <1> QED BY <1>1, <1>3, <1>4, <1>5

\* Subtree walks over just these records.
LEMMA SubtreeUnder ==
  ASSUME Tree(doc), NEW s \in DOMAIN doc
  PROVE  Subtree(s) = Under(doc, basePath(s))
  <1> DEFINE b == basePath(s)
  <1>1. s \in Places /\ b \in Seq(Nat) /\ IsPrefix(b, b)
    <2>1. s \in Places
      BY DEF Tree
    <2>2. b \in Seq(Nat) /\ Len(b) \in Nat
      BY <2>1, OfPlace, LenProperties
    <2> QED BY <2>1, <2>2, OfPrefix
  <1>2. CASE IsDirectory(s)
    <2>1. asDirectory(s) = s /\ Subtree(s) = Below(s) \cup {s}
      BY <1>1, <1>2, OfPlace DEF Subtree
    <2>2. ASSUME NEW q \in DOMAIN doc PROVE IsPrefix(b, q) <=> IsPrefix(b, basePath(q))
      <3>1. q \in Places
        BY DEF Tree
      <3>2. CASE ~IsDirectory(q)
        BY <3>1, <3>2, OfPlace
      <3>3. CASE IsDirectory(q)
        <4>1. q = Append(basePath(q), Dot) /\ q \in Seq(Nat) /\ basePath(q) \in Seq(Nat) /\ Dot \in Nat
          BY <3>1, <3>3, OfPlace DEF Dot
        <4>2. q # <<>> /\ Front(q) = basePath(q)
          BY <4>1, OfAppend
        <4>3. b # q
          <5>1. CASE s = Root
            BY <4>2, <5>1, OfRoot
          <5>2. CASE s # Root
            <6>1. ~IsDirectory(b)
              BY <1>1, <5>2, OfRecord
            <6> QED BY <3>3, <6>1
          <5> QED BY <5>1, <5>2
        <4>4. IsPrefix(b, q) => IsPrefix(b, basePath(q))
          BY <1>1, <4>1, <4>2, <4>3, PrefixOfFront
        <4>5. IsPrefix(b, basePath(q)) => IsPrefix(b, q)
          <5> HIDE DEF b
          <5>1. IsPrefix(b, basePath(q)) => IsPrefix(b, Append(basePath(q), Dot))
            BY <1>1, <4>1, PrefixOfAppend
          <5> QED BY <4>1, <5>1
        <4> QED BY <4>4, <4>5
      <3> QED BY <3>2, <3>3
    <2>3. ASSUME NEW q \in DOMAIN doc PROVE q # b
      <3>1. q \in Places
        BY DEF Tree
      <3>2. CASE s = Root
        <4>1. <<>> \notin Places
          BY OfRoot, OfPlace DEF IsDirectory
        <4> QED BY <3>1, <3>2, <4>1, OfRoot
      <3>3. CASE s # Root
        <4>1. basePath(b) = b /\ ~IsDirectory(b)
          BY <1>1, <3>3, OfRecord
        <4> QED BY <1>2, <4>1, OneRecord
      <3> QED BY <3>2, <3>3
    <2>4. Below(s) = {q \in DOMAIN doc : IsPrefix(b, basePath(q))} \ {s}
      BY <2>1, <2>2, <2>3 DEF Below
    <2> QED BY <1>1, <2>1, <2>4 DEF Under
  <1>3. CASE ~IsDirectory(s)
    <2>1. asDirectory(s) \notin DOMAIN doc /\ asDirectory(s) = Append(b, Dot)
      BY <1>1, <1>3, OfPlace DEF Tree
    <2>2. ASSUME NEW q \in Under(doc, b) PROVE q = s
      <3>1. basePath(q) = b
        BY <1>1, <2>1, <2>2, UnderName
      <3> QED BY <3>1, OneRecord DEF Under
    <2>3. s \in Under(doc, b)
      BY <1>1 DEF Under
    <2> QED BY <1>3, <2>2, <2>3 DEF Subtree
  <1> QED BY <1>2, <1>3

\* Members of a record below a name lie below that name.
LEMMA UnderMember ==
  ASSUME NEW f, Tree(f), NEW a \in Seq(Nat), NEW q \in Under(f, a), NEW x \in MembersOf(f, q)
  PROVE  x \in Under(f, a) /\ basePath(x) # a
  <1>1. x \in DOMAIN f /\ basePath(x) = Append(basePath(q), name(x)) /\ name(x) \in Nat /\ q \in Places
    BY OfMember
  <1>2. IsPrefix(a, basePath(q)) /\ basePath(q) \in Seq(Nat)
    BY <1>1, OfPlace DEF Under
  <1> DEFINE c == Append(basePath(q), name(x))
  <1>3. IsPrefix(a, c) /\ a # c
    BY <1>1, <1>2, PrefixOfAppend
  <1>4. basePath(x) = c
    BY <1>1
  <1> HIDE DEF c
  <1> QED BY <1>1, <1>3, <1>4 DEF Under

-----------------------------------------------------------------------------
\* Copies of records.  What lies below member m appears below the new name nw[m]
\* in directory d.
Copy(q, m, nw) == Moved(q, basePath(m), basePath(nw[m]))

Plants(f, d, M, nw) ==
  /\ M \subseteq DOMAIN f
  /\ \A m \in M : Fresh(f, nw[m]) /\ parent(nw[m]) = d
  /\ \A m, o \in M : basePath(nw[m]) = basePath(nw[o]) => m = o

Imports(f, d, M, nw, g) ==
  /\ Plants(f, d, M, nw) /\ Kept(f, g)
  /\ \A k \in DOMAIN g \ DOMAIN f : \E m \in M : \E q \in Under(f, basePath(m)) : k = Copy(q, m, nw)
  /\ \A m \in M : \A q \in Under(f, basePath(m)) :
       Copy(q, m, nw) \in DOMAIN g /\ g[Copy(q, m, nw)].t = f[q].t

\* The copy of a record below m: its place is free, and its directory is d or the
\* copy of its directory.
LEMMA OfCopy ==
  ASSUME NEW f, Tree(f), NEW d, NEW M, NEW nw, Plants(f, d, M, nw),
         NEW m \in M, NEW q \in Under(f, basePath(m))
  PROVE  LET k == Copy(q, m, nw)
         IN /\ k \in Places /\ k # Root /\ (IsDirectory(k) <=> IsDirectory(q))
            /\ k \notin DOMAIN f /\ basePath(k) \notin DOMAIN f /\ asDirectory(k) \notin DOMAIN f
            /\ basePath(k) = Moved(basePath(q), basePath(m), basePath(nw[m]))
            /\ q = m => parent(k) = d /\ name(k) = name(nw[m])
            /\ q # m => /\ parent(q) \in Under(f, basePath(m)) /\ parent(k) = Copy(parent(q), m, nw)
                        /\ name(k) = name(q)
  <1> DEFINE a == basePath(m)
             b == basePath(nw[m])
             k == Moved(q, a, b)
  <1>1. m \in DOMAIN f /\ m \in Places /\ Fresh(f, nw[m]) /\ parent(nw[m]) = d
    BY DEF Plants, Tree
  <1>2. nw[m] \in Places /\ nw[m] # Root
    BY <1>1 DEF Fresh
  <1>3. /\ a \in Seq(Nat) /\ b \in Names /\ b \in Seq(Nat)
        /\ parent(nw[m]) = Append(Front(b), Dot) /\ name(nw[m]) = Last(b)
    BY <1>1, <1>2, OfPlace
  <1>4. q \in DOMAIN f /\ q \in Places /\ IsPrefix(a, basePath(q))
    BY DEF Under, Tree
  <1>5. /\ k \in Places /\ k # Root /\ (IsDirectory(k) <=> IsDirectory(q))
        /\ basePath(k) = Moved(basePath(q), a, b) /\ IsPrefix(b, basePath(k))
        /\ basePath(q) = a => basePath(k) = b
        /\ basePath(q) # a => /\ q # Root /\ parent(k) = Moved(parent(q), a, b)
                              /\ name(k) = name(q) /\ IsPrefix(a, basePath(parent(q)))
    BY <1>3, <1>4, MovedPlace
  <1>6. Under(f, b) = {}
    BY <1>1, NothingUnder
  <1> HIDE DEF k, a, b
  <1>7. k \notin DOMAIN f /\ basePath(k) \notin DOMAIN f /\ asDirectory(k) \notin DOMAIN f
    <2>1. basePath(basePath(k)) = basePath(k) /\ basePath(asDirectory(k)) = basePath(k)
      <3>1. k \in Places /\ k # Root
        BY <1>5
      <3> QED BY <3>1, OfRecord
    <2>2. \A x \in DOMAIN f : ~IsPrefix(b, basePath(x))
      BY <1>6 DEF Under
    <2> QED BY <1>5, <2>1, <2>2
  <1>8. basePath(q) = a <=> q = m
    BY <1>1, <1>4, OneRecord DEF a
  <1>9. ASSUME basePath(q) = a PROVE parent(k) = d /\ name(k) = name(nw[m])
    <2>1. basePath(k) = b
      BY <1>5, <1>9
    <2>2. parent(k) = Append(Front(b), Dot) /\ name(k) = Last(b)
      <3>1. k \in Places /\ k # Root
        BY <1>5
      <3>2. parent(k) = Append(Front(basePath(k)), Dot) /\ name(k) = Last(basePath(k))
        BY <3>1, OfPlace
      <3> QED BY <2>1, <3>2
    <2> QED BY <1>1, <1>3, <2>2
  <1>10. ASSUME basePath(q) # a PROVE parent(q) \in Under(f, a)
    BY <1>4, <1>5, <1>10 DEF Under, Tree
  <1>11. k = Copy(q, m, nw) /\ Moved(parent(q), a, b) = Copy(parent(q), m, nw)
    BY DEF Copy, k, a, b
  <1> QED BY <1>5, <1>7, <1>8, <1>9, <1>10, <1>11 DEF a, b

\* No two copies share a name.
LEMMA SameCopy ==
  ASSUME NEW f, Tree(f), NEW d, NEW M, NEW nw, Plants(f, d, M, nw),
         NEW m \in M, NEW q \in Under(f, basePath(m)),
         NEW o \in M, NEW r \in Under(f, basePath(o)),
         basePath(Copy(q, m, nw)) = basePath(Copy(r, o, nw))
  PROVE  m = o /\ q = r
  <1> DEFINE a == basePath(m)
             b == basePath(nw[m])
             c == basePath(o)
             e == basePath(nw[o])
             s == basePath(q)
             t == basePath(r)
  <1>1. Moved(s, a, b) = Moved(t, c, e)
    BY OfCopy
  <1>2. /\ m \in Places /\ o \in Places /\ q \in Places /\ r \in Places
        /\ q \in DOMAIN f /\ r \in DOMAIN f
        /\ IsPrefix(a, s) /\ IsPrefix(c, t)
    BY DEF Plants, Tree, Under
  <1>3. /\ nw[m] \in Places /\ nw[m] # Root /\ parent(nw[m]) = d
        /\ nw[o] \in Places /\ nw[o] # Root /\ parent(nw[o]) = d
    BY DEF Plants, Fresh
  <1>4. /\ a \in Seq(Nat) /\ b \in Seq(Nat) /\ c \in Seq(Nat) /\ e \in Seq(Nat)
        /\ s \in Seq(Nat) /\ t \in Seq(Nat)
    BY <1>2, <1>3, OfPlace
  <1>5. Len(b) = Len(d) /\ Len(e) = Len(d)
    BY <1>3, OfParent
  <1>6. Len(a) <= Len(s) /\ Len(c) <= Len(t)
    BY <1>2, <1>4, OfPrefix
  <1> HIDE DEF a, b, c, e, s, t
  <1>7. b = e
    BY <1>1, <1>4, <1>5, <1>6, MovedApart
  <1>8. m = o
    BY <1>7 DEF Plants, b, e
  <1>9. a = c
    BY <1>8 DEF a, c
  <1>10. s = t
    <2>1. Moved(Moved(s, a, b), b, a) = s /\ Moved(Moved(t, c, e), e, c) = t
      BY <1>2, <1>4, MovedBack
    <2> QED BY <1>1, <1>7, <1>9, <2>1
  <1> QED BY <1>2, <1>8, <1>10, OneRecord DEF s, t

\* With copies of whole subtrees at free names a tree is a tree.
LEMMA ImportedTree ==
  ASSUME NEW f, Tree(f), NEW d, NEW M, NEW nw, NEW g, Imports(f, d, M, nw, g)
  PROVE  Tree(g)
  <1>1. IsFiniteSet(DOMAIN g)
    <2> DEFINE S == M \X DOMAIN f
               h == [x \in S |-> Copy(x[2], x[1], nw)]
               I == {h[x] : x \in S}
    <2>1. IsFiniteSet(DOMAIN f) /\ M \subseteq DOMAIN f
      BY DEF Tree, Imports, Plants
    <2>2. IsFiniteSet(M)
      BY <2>1, FS_Subset
    <2>3. IsFiniteSet(S) /\ DOMAIN h = S
      BY <2>1, <2>2, FS_Product
    <2>4. \A m \in M, q \in DOMAIN f : Copy(q, m, nw) \in I
      <3> SUFFICES ASSUME NEW m \in M, NEW q \in DOMAIN f PROVE Copy(q, m, nw) \in I
        OBVIOUS
      <3>1. <<m, q>> \in S /\ h[<<m, q>>] = Copy(q, m, nw)
        OBVIOUS
      <3> QED BY <3>1
    <2> HIDE DEF h
    <2>5. IsFiniteSet(I)
      BY <2>3, FiniteImage
    <2>6. IsFiniteSet(DOMAIN f \cup I)
      BY <2>1, <2>5, FS_Union
    <2> HIDE DEF I
    <2>7. ASSUME NEW k \in DOMAIN g, k \notin DOMAIN f PROVE k \in I
      <3>1. \E m \in M : \E q \in Under(f, basePath(m)) : k = Copy(q, m, nw)
        BY <2>7 DEF Imports
      <3> QED BY <2>4, <3>1 DEF Under
    <2>8. DOMAIN g \in SUBSET (DOMAIN f \cup I)
      BY <2>7
    <2> QED BY <2>6, <2>8, FS_Subset
  <1>2. ASSUME NEW k \in DOMAIN g \ DOMAIN f
        PROVE  /\ k \in Places /\ parent(k) \in DOMAIN g /\ g[k].t \in Kinds(k)
               /\ IF IsDirectory(k) THEN basePath(k) \notin DOMAIN f ELSE asDirectory(k) \notin DOMAIN g
    <2>1. PICK m \in M : \E q \in Under(f, basePath(m)) : k = Copy(q, m, nw)
      BY DEF Imports
    <2>2. PICK q \in Under(f, basePath(m)) : k = Copy(q, m, nw)
      BY <2>1
    <2>3. /\ k \in Places /\ k # Root /\ (IsDirectory(k) <=> IsDirectory(q)) /\ g[k].t = f[q].t
          /\ basePath(k) \notin DOMAIN f /\ asDirectory(k) \notin DOMAIN f
          /\ q = m => parent(k) = d
          /\ q # m => parent(q) \in Under(f, basePath(m)) /\ parent(k) = Copy(parent(q), m, nw)
      BY <2>2, OfCopy DEF Imports
    <2>4. g[k].t \in Kinds(k)
      BY <2>3 DEF Kinds, Tree, Under
    <2>5. parent(k) \in DOMAIN g
      <3>1. CASE q = m
        <4>1. d \in DOMAIN f
          BY DEF Imports, Plants, Fresh
        <4> QED BY <2>3, <3>1, <4>1 DEF Imports, Kept
      <3>2. CASE q # m
        BY <2>3, <3>2 DEF Imports
      <3> QED BY <3>1, <3>2
    <2>6. ASSUME ~IsDirectory(k), asDirectory(k) \in DOMAIN g PROVE FALSE
      <3> DEFINE x == asDirectory(k)
      <3>1. IsDirectory(x) /\ basePath(x) = basePath(k)
        BY <2>3, OfRecord
      <3>2. x \in DOMAIN g \ DOMAIN f
        BY <2>3, <2>6
      <3> HIDE DEF x
      <3>3. PICK o \in M : \E r \in Under(f, basePath(o)) : x = Copy(r, o, nw)
        BY <3>2 DEF Imports
      <3>4. PICK r \in Under(f, basePath(o)) : x = Copy(r, o, nw)
        BY <3>3
      <3>5. m = o /\ q = r
        BY <2>2, <3>1, <3>4, SameCopy DEF Imports
      <3> QED BY <2>2, <2>6, <3>1, <3>4, <3>5
    <2> QED BY <2>3, <2>4, <2>5, <2>6
  <1>3. Kept(f, g)
    BY DEF Imports
  <1> QED BY <1>1, <1>2, <1>3, Grafted

\* The members of a copy have the names of the members of the original.
LEMMA CopiedNames ==
  ASSUME NEW f, Tree(f), NEW d, NEW M, NEW nw, NEW g, Imports(f, d, M, nw, g),
         NEW m \in M, NEW q \in Under(f, basePath(m))
  PROVE  NamesOf(MembersOf(g, Copy(q, m, nw))) = NamesOf(MembersOf(f, q))
  <1> DEFINE e == Copy(q, m, nw)
             a == basePath(m)
  <1>1. e \in DOMAIN g /\ e \notin DOMAIN f /\ d \in DOMAIN f
    <2>1. d \in DOMAIN f
      BY DEF Imports, Plants, Fresh
    <2> QED BY <2>1, OfCopy DEF Imports
  <1>2. ASSUME NEW k \in MembersOf(g, e) PROVE name(k) \in NamesOf(MembersOf(f, q))
    <2>1. k \in DOMAIN g /\ parent(k) = e
      BY DEF MembersOf
    <2>2. k \notin DOMAIN f
      BY <1>1, <2>1 DEF Tree
    <2>3. PICK o \in M : \E r \in Under(f, basePath(o)) : k = Copy(r, o, nw)
      BY <2>1, <2>2 DEF Imports
    <2>4. PICK r \in Under(f, basePath(o)) : k = Copy(r, o, nw)
      BY <2>3
    <2>5. /\ r = o => parent(k) = d
          /\ r # o => /\ parent(r) \in Under(f, basePath(o)) /\ parent(k) = Copy(parent(r), o, nw)
                      /\ name(k) = name(r)
      BY <2>4, OfCopy DEF Imports
    <2>6. parent(r) \in Under(f, basePath(o)) /\ e = Copy(parent(r), o, nw) /\ name(k) = name(r)
      BY <1>1, <2>1, <2>5
    <2> HIDE DEF e
    <2>7. basePath(Copy(q, m, nw)) = basePath(Copy(parent(r), o, nw))
      BY <2>6 DEF e
    <2>8. q = parent(r)
      BY <2>6, <2>7, SameCopy DEF Imports
    <2>9. r \in DOMAIN f /\ r \in Places
      BY DEF Under, Tree
    <2>10. r # Root
      <3> SUFFICES ASSUME r = Root PROVE FALSE
        OBVIOUS
      <3>1. q = r
        BY <2>8, OfRoot
      <3>2. k = Copy(parent(r), o, nw)
        BY <2>4, <2>8, <3>1
      <3>3. k = e
        BY <2>6, <3>2
      <3> QED BY <3>3 DEF MembersOf
    <2>11. r # parent(r)
      BY <2>9, <2>10, OfParent
    <2> QED BY <2>6, <2>8, <2>9, <2>11 DEF NamesOf, MembersOf
  <1>3. ASSUME NEW x \in MembersOf(f, q) PROVE name(x) \in NamesOf(MembersOf(g, e))
    <2> DEFINE k == Copy(x, m, nw)
    <2>1. m \in Places /\ a \in Seq(Nat)
      BY OfPlace DEF Imports, Plants, Tree
    <2>2. x \in Under(f, a) /\ basePath(x) # a
      BY <2>1, UnderMember
    <2>3. x # m /\ parent(x) = q /\ x # q
      BY <2>2, OfMember
    <2>4. k \in DOMAIN g /\ parent(k) = e /\ name(k) = name(x) /\ k \in Places /\ k # Root
      BY <2>2, <2>3, OfCopy DEF Imports
    <2>5. k # parent(k)
      BY <2>4, OfParent
    <2> QED BY <2>4, <2>5 DEF NamesOf, MembersOf
  <1>4. NamesOf(MembersOf(g, e)) \subseteq NamesOf(MembersOf(f, q))
    BY <1>2 DEF NamesOf
  <1>5. NamesOf(MembersOf(f, q)) \subseteq NamesOf(MembersOf(g, e))
    BY <1>3 DEF NamesOf
  <1> QED BY <1>4, <1>5

\* And dense, if an array gets the copies as its next elements.
LEMMA Imported ==
  ASSUME NEW f, Tree(f), Dense(f), NEW d, NEW M, NEW nw, NEW g, Imports(f, d, M, nw, g),
         NEW n, n = Cardinality(MembersOf(f, d)),
         NEW j \in Nat,
         d \in DOMAIN f /\ f[d].t = "A" => {name(nw[m]) : m \in M} = n + 1 .. n + j
  PROVE  Tree(g) /\ Dense(g)
  <1>1. Tree(g)
    BY ImportedTree
  <1>2. ASSUME NEW k \in DOMAIN g \ DOMAIN f
        PROVE  \E m \in M : \E q \in Under(f, basePath(m)) :
                 /\ k = Copy(q, m, nw) /\ g[k].t = f[q].t
                 /\ (k = Copy(m, m, nw) /\ parent(k) = d /\ name(k) = name(nw[m]))
                      \/ parent(k) \notin DOMAIN f
    <2>1. PICK m \in M : \E q \in Under(f, basePath(m)) : k = Copy(q, m, nw)
      BY DEF Imports
    <2>2. PICK q \in Under(f, basePath(m)) : k = Copy(q, m, nw)
      BY <2>1
    <2>3. /\ q = m => parent(k) = d /\ name(k) = name(nw[m])
          /\ q # m => parent(q) \in Under(f, basePath(m)) /\ parent(k) = Copy(parent(q), m, nw)
          /\ g[k].t = f[q].t
      BY <2>2, OfCopy DEF Imports
    <2>4. CASE q = m
      BY <2>2, <2>3, <2>4
    <2>5. CASE q # m
      <3>1. Copy(parent(q), m, nw) \notin DOMAIN f
        BY <2>3, <2>5, OfCopy DEF Imports
      <3> QED BY <2>2, <2>3, <2>5, <3>1
    <2> QED BY <2>4, <2>5
  <1>3. ASSUME NEW e \in DOMAIN f, e # d PROVE MembersOf(g, e) = MembersOf(f, e)
    <2>1. ASSUME NEW k \in DOMAIN g \ DOMAIN f PROVE parent(k) # e
      BY <1>2, <1>3
    <2>2. DOMAIN f \subseteq DOMAIN g
      BY DEF Imports, Kept
    <2> QED BY <2>1, <2>2 DEF MembersOf
  <1>4. ASSUME d \in DOMAIN f, f[d].t = "A" PROVE Full(g, d, n + j)
    <2>1. n \in Nat /\ NamesOf(MembersOf(f, d)) = 1 .. n
      BY <1>4, FullArrays, Finite DEF Full
    <2> DEFINE N == {name(nw[m]) : m \in M}
    <2>2. ASSUME NEW k \in MembersOf(g, d), k \notin MembersOf(f, d) PROVE name(k) \in N
      <3>1. k \in DOMAIN g \ DOMAIN f /\ parent(k) = d
        BY <2>2 DEF MembersOf
      <3> QED BY <1>2, <1>4, <3>1
    <2>3. MembersOf(f, d) \subseteq MembersOf(g, d)
      BY DEF MembersOf, Imports, Kept
    <2>4. ASSUME NEW m \in M PROVE \E k \in MembersOf(g, d) : name(k) = name(nw[m])
      <3>1. m \in DOMAIN f /\ m \in Places
        BY DEF Imports, Plants, Tree
      <3>2. basePath(m) \in Seq(Nat) /\ Len(basePath(m)) \in Nat
        BY <3>1, OfPlace, LenProperties
      <3>3. IsPrefix(basePath(m), basePath(m))
        BY <3>2, OfPrefix
      <3>4. m \in Under(f, basePath(m))
        BY <3>1, <3>3 DEF Under
      <3>5. LET k == Copy(m, m, nw)
            IN k \in DOMAIN g /\ k \notin DOMAIN f /\ parent(k) = d /\ name(k) = name(nw[m])
        BY <3>4, OfCopy DEF Imports
      <3> QED BY <1>4, <3>5 DEF MembersOf
    <2>5. NamesOf(MembersOf(g, d)) = NamesOf(MembersOf(f, d)) \cup N
      BY <2>2, <2>3, <2>4 DEF NamesOf
    <2>6. (1 .. n) \cup (n + 1 .. n + j) = 1 .. n + j
      BY <2>1
    <2>7. NamesOf(MembersOf(g, d)) = 1 .. n + j
      BY <1>4, <2>1, <2>5, <2>6
    <2> QED BY <2>1, <2>7 DEF Full
  <1>5. ASSUME NEW e \in DOMAIN g, g[e].t = "A" PROVE \E i \in Nat : Full(g, e, i)
    <2>1. CASE e \notin DOMAIN f
      <3>1. PICK m \in M : \E q \in Under(f, basePath(m)) : e = Copy(q, m, nw) /\ g[e].t = f[q].t
        BY <1>2, <2>1
      <3>2. PICK q \in Under(f, basePath(m)) : e = Copy(q, m, nw) /\ g[e].t = f[q].t
        BY <3>1
      <3>3. q \in DOMAIN f /\ f[q].t = "A"
        BY <1>5, <3>2 DEF Under
      <3>4. PICK i \in Nat : Full(f, q, i)
        BY <3>3, FullArrays
      <3>5. NamesOf(MembersOf(g, e)) = NamesOf(MembersOf(f, q))
        BY <3>2, CopiedNames
      <3> QED BY <3>4, <3>5 DEF Full
    <2>2. CASE e \in DOMAIN f
      <3>1. f[e].t = "A"
        BY <1>5, <2>2 DEF Imports, Kept
      <3>2. \E i \in Nat : Full(f, e, i)
        BY <2>2, <3>1, FullArrays
      <3>3. n + j \in Nat
        BY Finite
      <3>4. CASE e = d
        BY <1>4, <2>2, <3>1, <3>3, <3>4
      <3>5. CASE e # d
        BY <1>3, <2>2, <3>2, <3>5 DEF Full
      <3> QED BY <3>4, <3>5
    <2> QED BY <2>1, <2>2
  <1> QED BY <1>1, <1>5, FullArrays

-----------------------------------------------------------------------------
\* copy.

\* The copy of a record to a free name is no record yet, and tells its original.
LEMMA CopyIsNew ==
  ASSUME NEW f, Tree(f), NEW d, Fresh(f, d), NEW s \in DOMAIN f, NEW q \in Under(f, basePath(s))
  PROVE  LET k == Moved(q, basePath(s), basePath(d))
         IN k \notin DOMAIN f /\ Moved(k, basePath(d), basePath(s)) = q
  <1> DEFINE a == basePath(s)
             b == basePath(d)
             k == Moved(q, a, b)
  <1>1. s \in Places /\ d \in Places /\ d # Root /\ q \in Places /\ IsPrefix(a, basePath(q))
    BY DEF Fresh, Tree, Under
  <1>2. a \in Seq(Nat) /\ b \in Names /\ b \in Seq(Nat) /\ q \in Seq(Nat) /\ basePath(q) \in Seq(Nat)
        /\ Dot \in Nat
    BY <1>1, OfPlace DEF Dot
  <1>3. IsPrefix(b, basePath(k))
    BY <1>1, <1>2, MovedPlace
  <1>4. Under(f, b) = {}
    BY NothingUnder
  <1>5. IsPrefix(a, q)
    <2>1. CASE IsDirectory(q)
      <3>1. q = Append(basePath(q), Dot)
        BY <1>1, <2>1, OfPlace
      <3>2. IsPrefix(a, Append(basePath(q), Dot))
        BY <1>1, <1>2, PrefixOfAppend
      <3> QED BY <3>1, <3>2
    <2>2. CASE ~IsDirectory(q)
      BY <1>1, <2>2, OfPlace
    <2> QED BY <2>1, <2>2
  <1>6. Moved(k, b, a) = q
    BY <1>2, <1>5, MovedBack
  <1> QED BY <1>3, <1>4, <1>6 DEF Under

\* The copy of one record and what is below it.
LEMMA CopiedImports ==
  ASSUME Tree(doc), NEW s \in DOMAIN doc, NEW d, Fresh(doc, d)
  PROVE  Imports(doc, parent(d), {s}, [m \in {s} |-> d], Copied(s, d))
  <1> DEFINE nw == [m \in {s} |-> d]
             g == Copied(s, d)
             U == Under(doc, basePath(s))
  <1>1. Plants(doc, parent(d), {s}, nw)
    BY DEF Plants
  <1>2. \A q \in U : Rebased(q, s, d) = Copy(q, s, nw)
    BY RebasedMoves DEF Copy
  <1>3. DOMAIN g = DOMAIN doc \cup {Rebased(q, s, d) : q \in U}
    BY SubtreeUnder DEF Copied
  <1>4. Kept(doc, g)
    BY DEF Kept, Copied
  <1>5. ASSUME NEW q \in U PROVE Copy(q, s, nw) \in DOMAIN g /\ g[Copy(q, s, nw)].t = doc[q].t
    <2> DEFINE k == Rebased(q, s, d)
    <2>1. k \in DOMAIN g
      BY <1>3
    <2>2. k \notin DOMAIN doc /\ Rebased(k, d, s) = q
      BY CopyIsNew, RebasedMoves
    <2>3. g[k] = doc[Rebased(k, d, s)]
      BY <2>1, <2>2 DEF Copied
    <2> QED BY <1>2, <2>1, <2>2, <2>3
  <1>6. \A k \in DOMAIN g \ DOMAIN doc : \E q \in U : k = Copy(q, s, nw)
    BY <1>2, <1>3
  <1> HIDE DEF nw, g
  <1>7. Imports(doc, parent(d), {s}, nw, g)
    BY <1>1, <1>4, <1>5, <1>6 DEF Imports
  <1> QED BY <1>7 DEF nw, g

\* The copy of one record and what is below it keeps the document sound.
LEMMA CopiedSound ==
  ASSUME Sound, NEW s \in DOMAIN doc, NEW d, Fresh(doc, d), InPlace(d)
  PROVE  Tree(Copied(s, d)) /\ Dense(Copied(s, d))
  <1> DEFINE nw == [m \in {s} |-> d]
             g == Copied(s, d)
             e == parent(d)
             n == Cardinality(MembersOf(doc, e))
  <1>1. Tree(doc) /\ Dense(doc)
    BY DEF Sound
  <1>2. Imports(doc, e, {s}, nw, g)
    BY <1>1, CopiedImports
  <1>3. n \in Nat /\ 1 \in Nat /\ n = Cardinality(MembersOf(doc, e))
    BY <1>1, Finite
  <1>4. e \in DOMAIN doc /\ doc[e].t = "A" => {name(nw[m]) : m \in {s}} = n + 1 .. n + 1
    <2>1. {name(nw[m]) : m \in {s}} = {name(d)}
      OBVIOUS
    <2>2. doc[e].t = "A" => name(d) = n + 1
      BY NextElement
    <2> QED BY <1>3, <2>1, <2>2
  <1> HIDE DEF nw, g, e, n
  <1>5. Tree(g) /\ Dense(g)
    BY <1>1, <1>2, <1>3, <1>4, Imported
  <1> QED BY <1>5 DEF g

\* Of finitely many numbers each has its own rank.
Smaller(v, m) == {x \in DOMAIN v : v[x] < v[m]}

\* Counted by how many are smaller, distinct numbers are 0 .. one less than their
\* number, and distinct.
LEMMA Ranks ==
  ASSUME NEW M, IsFiniteSet(M), NEW v \in [M -> Nat], \A x, y \in M : v[x] = v[y] => x = y
  PROVE  {Cardinality(Smaller(v, m)) : m \in M} = 0 .. Cardinality(M) - 1
         /\ \A x, y \in M : Cardinality(Smaller(v, x)) = Cardinality(Smaller(v, y)) => x = y
  <1> DEFINE R(m) == Cardinality(Smaller(v, m))
             k == Cardinality(M)
             h == [m \in M |-> R(m)]
  <1>1. k \in Nat
    BY FS_CardinalityType
  <1>2. ASSUME NEW m \in M
        PROVE  IsFiniteSet(Smaller(v, m)) /\ R(m) \in Nat /\ R(m) < k
    <2>1. Smaller(v, m) \subseteq M \ {m}
      BY DEF Smaller
    <2>2. IsFiniteSet(M \ {m}) /\ Cardinality(M \ {m}) = k - 1
      BY FS_RemoveElement
    <2>3. IsFiniteSet(Smaller(v, m)) /\ R(m) <= k - 1
      BY <2>1, <2>2, FS_Subset
    <2>4. R(m) \in Nat
      BY <2>3, FS_CardinalityType
    <2> QED BY <1>1, <2>3, <2>4
  <1>3. ASSUME NEW x \in M, NEW y \in M, v[x] < v[y] PROVE R(x) < R(y)
    <2>1. Smaller(v, x) \subseteq Smaller(v, y) /\ x \in Smaller(v, y) /\ x \notin Smaller(v, x)
      BY <1>3 DEF Smaller
    <2>2. R(x) <= R(y) /\ R(x) # R(y)
      BY <1>2, <2>1, FS_Subset
    <2> QED BY <1>2, <2>2
  <1>4. ASSUME NEW x \in M, NEW y \in M, R(x) = R(y) PROVE x = y
    <2>1. ~(v[x] < v[y]) /\ ~(v[y] < v[x])
      BY <1>2, <1>3, <1>4
    <2>2. v[x] = v[y]
      BY <2>1
    <2> QED BY <2>2
  <1>5. h \in [M -> 0 .. k - 1]
    BY <1>1, <1>2
  <1>6. h \in Injection(M, 0 .. k - 1)
    BY <1>4, <1>5 DEF Injection, IsInjective
  <1>7. IsFiniteSet(0 .. k - 1) /\ Cardinality(0 .. k - 1) = k
    <2>1. /\ IsFiniteSet(0 .. k - 1)
          /\ Cardinality(0 .. k - 1) = IF 0 > k - 1 THEN 0 ELSE k - 1 - 0 + 1
      BY <1>1, FS_Interval
    <2> QED BY <1>1, <2>1
  <1>8. h \in Surjection(M, 0 .. k - 1)
    BY <1>6, <1>7, FS_Injection
  <1>9. \A i \in 0 .. k - 1 : \E m \in M : R(m) = i
    BY <1>8 DEF Surjection
  <1>10. {R(m) : m \in M} = 0 .. k - 1
    BY <1>1, <1>2, <1>9
  <1> QED BY <1>4, <1>10

\* Members of one directory are ordered by their names.
LEMMA MemberParts ==
  ASSUME NEW f, Tree(f), NEW d, NEW m \in MembersOf(f, d)
  PROVE  LET b == basePath(d)
         IN /\ m \in Seq(Nat) /\ b \in Seq(Nat) /\ Len(b) \in Nat
            /\ Len(m) = Len(b) + 1 \/ Len(m) = Len(b) + 2
            /\ \A i \in 1 .. Len(b) : m[i] = b[i]
            /\ m[Len(b) + 1] = name(m)
  <1> DEFINE b == basePath(d)
             s == basePath(m)
  <1>1. m \in Places /\ d \in Places /\ s = Append(b, name(m)) /\ name(m) \in Nat
    BY OfMember
  <1>2. b \in Seq(Nat) /\ m \in Seq(Nat) /\ s \in Seq(Nat) /\ (m = s \/ m = Append(s, Dot)) /\ Dot \in Nat
    BY <1>1, OfPlace DEF Dot
  <1>3. /\ Len(b) \in Nat /\ Len(s) = Len(b) + 1
        /\ \A i \in 1 .. Len(b) : s[i] = b[i]
        /\ s[Len(b) + 1] = name(m)
    BY <1>1, <1>2, OfAppend
  <1> HIDE DEF s, b
  <1>4. CASE m = s
    BY <1>2, <1>3, <1>4 DEF b
  <1>5. CASE m = Append(s, Dot)
    <2>1. Len(m) = Len(s) + 1 /\ \A i \in 1 .. Len(s) : m[i] = s[i]
      BY <1>2, <1>5, OfAppend
    <2>2. Len(m) = Len(b) + 2 /\ Len(b) + 1 \in 1 .. Len(s) /\ \A i \in 1 .. Len(b) : i \in 1 .. Len(s)
      BY <1>3, <2>1
    <2> QED BY <1>2, <1>3, <2>1, <2>2 DEF b
  <1> QED BY <1>2, <1>4, <1>5

\* Of two members that one comes first in the database which has the lower name.
LEMMA MembersOrdered ==
  ASSUME NEW f, Tree(f), NEW d, NEW p \in MembersOf(f, d), NEW q \in MembersOf(f, d)
  PROVE  Before(p, q) <=> name(p) < name(q)
  <1> DEFINE b == basePath(d)
             l == Len(b)
  <1>1. /\ p \in Seq(Nat) /\ b \in Seq(Nat) /\ l \in Nat
        /\ Len(p) = l + 1 \/ Len(p) = l + 2
        /\ \A i \in 1 .. l : p[i] = b[i]
        /\ p[l + 1] = name(p)
    BY MemberParts
  <1>2. /\ q \in Seq(Nat)
        /\ Len(q) = l + 1 \/ Len(q) = l + 2
        /\ \A i \in 1 .. l : q[i] = b[i]
        /\ q[l + 1] = name(q)
    BY MemberParts
  <1> HIDE DEF l
  <1>3. name(p) \in Nat /\ name(q) \in Nat
    BY OfMember
  <1>4. ASSUME name(p) < name(q) PROVE Before(p, q)
    <2>1. l \in 0 .. Len(p) /\ l \in 0 .. Len(q) /\ l + 1 \in 1 .. Len(q) /\ Len(p) >= l /\ l + 1 - 1 = l
      BY <1>1, <1>2
    <2>2. /\ SubSeq(p, 1, l) \in Seq(Nat) /\ Len(SubSeq(p, 1, l)) = l
          /\ \A i \in 1 .. l : SubSeq(p, 1, l)[i] = p[i]
      BY <1>1, <2>1, OfHead
    <2>3. /\ SubSeq(q, 1, l) \in Seq(Nat) /\ Len(SubSeq(q, 1, l)) = l
          /\ \A i \in 1 .. l : SubSeq(q, 1, l)[i] = q[i]
      BY <1>2, <2>1, OfHead
    <2>4. \A i \in 1 .. l : SubSeq(p, 1, l)[i] = SubSeq(q, 1, l)[i]
      BY <1>1, <1>2, <2>2, <2>3
    <2>5. SubSeq(p, 1, l) = SubSeq(q, 1, l)
      BY <2>2, <2>3, <2>4, SeqEqual
    <2>6. p[l + 1] < q[l + 1]
      BY <1>1, <1>2, <1>4
    <2>7. Len(p) >= l + 1 - 1 /\ SubSeq(p, 1, l + 1 - 1) = SubSeq(q, 1, l + 1 - 1)
      BY <2>1, <2>5
    <2> QED BY <2>1, <2>6, <2>7 DEF Before
  <1>5. ASSUME NEW i \in 1 .. Len(q), SubSeq(p, 1, i - 1) = SubSeq(q, 1, i - 1),
               Len(p) >= i => p[i] < q[i]
        PROVE  name(p) < name(q)
    <2>1. CASE i <= l
      <3>1. i \in 1 .. l /\ Len(p) >= i /\ b[i] \in Nat
        <4>1. i \in 1 .. Len(b) /\ Len(p) >= i
          BY <1>1, <2>1 DEF l
        <4> QED BY <1>1, <4>1, ElementOfSeq DEF l
      <3>2. p[i] = b[i] /\ q[i] = b[i]
        BY <1>1, <1>2, <3>1
      <3> QED BY <1>5, <3>1, <3>2
    <2>2. CASE i = l + 1
      <3>1. Len(p) >= i
        BY <1>1, <2>2
      <3> QED BY <1>1, <1>2, <1>5, <2>2, <3>1
    <2>3. CASE i > l + 1
      <3>1. i = l + 2 /\ i - 1 \in 0 .. Len(p) /\ i - 1 \in 0 .. Len(q) /\ l + 1 \in 1 .. i - 1
        BY <1>1, <1>2, <2>3
      <3>2. \A j \in 1 .. i - 1 : SubSeq(p, 1, i - 1)[j] = p[j]
        BY <1>1, <3>1, OfHead
      <3>3. \A j \in 1 .. i - 1 : SubSeq(q, 1, i - 1)[j] = q[j]
        BY <1>2, <3>1, OfHead
      <3>4. p[l + 1] = q[l + 1]
        BY <1>5, <3>1, <3>2, <3>3
      <3>5. p = q
        BY <1>1, <1>2, <3>4, OneMember
      <3>6. Len(p) >= i /\ q[i] \in Nat
        BY <1>2, <3>5, ElementOfSeq
      <3> QED BY <1>5, <3>5, <3>6
    <2> QED BY <1>1, <2>1, <2>2, <2>3
  <1> QED BY <1>4, <1>5 DEF Before

\* Member m of s gets the name New(s, d, m) in d.
New(s, d, m) ==
  IF IsArray(d)
  THEN withChild(d, Index(Cardinality(Members(d)) + Cardinality({x \in Members(s) : Before(x, m)})))
  ELSE withChild(d, name(m))
NewNames(s, d) == [m \in Members(s) |-> New(s, d, m)]

\* The copies of all members of s have names of their own in d, in an array those
\* that follow the last.
LEMMA RangePlants ==
  ASSUME Sound, NEW s \in DOMAIN doc, NEW d \in DOMAIN doc, IsDirectory(d),
         IF IsArray(d) THEN Cardinality(Members(d)) + Cardinality(Members(s)) < Star
         ELSE \A m \in Members(s) : Free(withChild(d, name(m)))
  PROVE  LET M == Members(s)
             n == Cardinality(MembersOf(doc, d))
         IN /\ Plants(doc, d, M, NewNames(s, d))
            /\ doc[d].t = "A" =>
                 {name(NewNames(s, d)[m]) : m \in M} = n + 1 .. n + Cardinality(M)
  <1> DEFINE M == Members(s)
             nw == NewNames(s, d)
             n == Cardinality(MembersOf(doc, d))
             j == Cardinality(M)
             v == [m \in M |-> name(m)]
  <1>1. Tree(doc) /\ Dense(doc) /\ M = MembersOf(doc, s) /\ M \subseteq DOMAIN doc
        /\ Members(d) = MembersOf(doc, d)
    BY AsMembers DEF Sound, MembersOf
  <1>2. d \in Places /\ n \in Nat /\ j \in Nat /\ IsFiniteSet(M)
    BY <1>1, Finite DEF Tree
  <1>3. ASSUME NEW m \in M
        PROVE  name(m) \in Nat \ {Dot, Star}
               /\ {x \in M : Before(x, m)} = Smaller(v, m)
    <2>1. name(m) \in Nat \ {Dot, Star}
      BY <1>1, OfMember
    <2>2. \A x \in M : Before(x, m) <=> name(x) < name(m)
      BY <1>1, MembersOrdered
    <2> QED BY <2>1, <2>2 DEF Smaller
  <1>4. v \in [M -> Nat] /\ \A x, y \in M : v[x] = v[y] => x = y
    BY <1>1, <1>3, OneMember
  <1> DEFINE R(m) == Cardinality(Smaller(v, m))
  <1>5. {R(m) : m \in M} = 0 .. j - 1 /\ \A x, y \in M : R(x) = R(y) => x = y
    <2> HIDE DEF v, M
    <2> QED BY <1>2, <1>4, Ranks
  <1>6. ASSUME NEW m \in M
        PROVE nw[m] = IF IsArray(d) THEN withChild(d, n + R(m) + 1) ELSE withChild(d, name(m))
    BY <1>1, <1>3 DEF NewNames, New, Index
  <1> HIDE DEF v, R, nw
  <1>7. CASE IsArray(d)
    <2>1. ASSUME NEW m \in M
          PROVE  LET k == nw[m]
                 IN k \in Places /\ k # Root /\ parent(k) = d /\ name(k) = n + R(m) + 1 /\ Fresh(doc, k)
                    /\ basePath(k) = k
      <3>1. R(m) \in 0 .. j - 1
        BY <1>5
      <3>2. n + R(m) + 1 \in Nat \ {Dot, Star} /\ n + R(m) + 1 \notin 1 .. n
        BY <1>1, <1>2, <1>7, <3>1 DEF Dot
      <3>3. /\ nw[m] \in Places /\ nw[m] # Root /\ parent(nw[m]) = d /\ name(nw[m]) = n + R(m) + 1
            /\ basePath(nw[m]) = nw[m]
        <4>1. nw[m] = withChild(d, n + R(m) + 1)
          BY <1>6, <1>7
        <4> QED BY <1>2, <3>2, <4>1, OfChild
      <3>4. NamesOf(MembersOf(doc, d)) = 1 .. n
        BY <1>1, <1>7, FullArrays DEF Full, IsArray
      <3>5. Fresh(doc, nw[m])
        BY <1>1, <3>2, <3>3, <3>4, NewName
      <3> QED BY <3>3, <3>5
    <2>2. ASSUME NEW m \in M, NEW o \in M, basePath(nw[m]) = basePath(nw[o]) PROVE m = o
      <3>1. R(m) \in 0 .. j - 1 /\ R(o) \in 0 .. j - 1
        BY <1>5
      <3>2. n + R(m) + 1 = n + R(o) + 1
        BY <2>1, <2>2
      <3>3. R(m) = R(o)
        BY <1>2, <3>1, <3>2
      <3> QED BY <1>5, <3>3
    <2>3. {name(nw[m]) : m \in M} = n + 1 .. n + j
      <3>1. ASSUME NEW m \in M PROVE name(nw[m]) \in n + 1 .. n + j
        <4>1. R(m) \in 0 .. j - 1 /\ name(nw[m]) = n + R(m) + 1
          BY <1>5, <2>1
        <4> QED BY <1>2, <4>1
      <3>2. ASSUME NEW x \in n + 1 .. n + j PROVE \E m \in M : name(nw[m]) = x
        <4>1. x - n - 1 \in 0 .. j - 1 /\ n + (x - n - 1) + 1 = x
          BY <1>2
        <4>2. PICK m \in M : R(m) = x - n - 1
          BY <1>5, <4>1
        <4> QED BY <2>1, <4>1, <4>2
      <3> QED BY <3>1, <3>2
    <2>4. Plants(doc, d, M, nw)
      BY <1>1, <2>1, <2>2 DEF Plants
    <2> QED BY <2>3, <2>4 DEF nw
  <1>8. CASE ~IsArray(d)
    <2>1. ASSUME NEW m \in M
          PROVE  LET k == nw[m]
                 IN k \in Places /\ k # Root /\ parent(k) = d /\ name(k) = name(m) /\ Fresh(doc, k)
                    /\ basePath(k) = k
      <3>1. nw[m] = withChild(d, name(m)) /\ Free(nw[m])
        BY <1>6, <1>8
      <3>2. /\ nw[m] \in Places /\ nw[m] # Root /\ parent(nw[m]) = d /\ name(nw[m]) = name(m)
            /\ basePath(nw[m]) = nw[m]
        BY <1>2, <1>3, <3>1, OfChild
      <3> QED BY <3>1, <3>2 DEF Fresh, Free
    <2>2. ASSUME NEW m \in M, NEW o \in M, basePath(nw[m]) = basePath(nw[o]) PROVE m = o
      BY <1>1, <2>1, <2>2, OneMember
    <2>3. Plants(doc, d, M, nw)
      BY <1>1, <2>1, <2>2 DEF Plants
    <2> QED BY <1>8, <2>3 DEF nw, IsArray
  <1> QED BY <1>7, <1>8

\* The copies of the members of s, in d.
LEMMA RangeImports ==
  ASSUME Tree(doc), NEW s \in DOMAIN doc, NEW d \in DOMAIN doc,
         Plants(doc, d, Members(s), NewNames(s, d))
  PROVE  Imports(doc, d, Members(s), NewNames(s, d), CopiedMembers(s, d))
  <1> DEFINE M == Members(s)
             nw == NewNames(s, d)
             g == CopiedMembers(s, d)
             U(m) == Under(doc, basePath(m))
             C == UNION {{<<Copy(q, m, nw), doc[q]>> : q \in U(m)} : m \in M}
  <1>1. M \subseteq DOMAIN doc
    BY DEF Members
  <1>2. \A m \in M : \A q : Rebased(q, m, nw[m]) = Copy(q, m, nw)
    BY RebasedMoves DEF Copy
  <1>3. \A m \in M : Subtree(m) = U(m)
    BY <1>1, SubtreeUnder
  <1>4. g = [k \in DOMAIN doc \cup {c[1] : c \in C} |->
               IF k \in DOMAIN doc THEN doc[k] ELSE (CHOOSE c \in C : c[1] = k)[2]]
    <2> DEFINE K == UNION {{<<Rebased(q, m, New(s, d, m)), doc[q]>> : q \in Subtree(m)} : m \in M}
    <2>1. g = [k \in DOMAIN doc \cup {c[1] : c \in K} |->
               IF k \in DOMAIN doc THEN doc[k] ELSE (CHOOSE c \in K : c[1] = k)[2]]
      BY DEF CopiedMembers, New
    <2>2. \A m \in M : nw[m] = New(s, d, m)
      BY DEF NewNames
    <2>3. ASSUME NEW m \in M
          PROVE  {<<Rebased(q, m, New(s, d, m)), doc[q]>> : q \in Subtree(m)}
                   = {<<Copy(q, m, nw), doc[q]>> : q \in U(m)}
      <3>1. Subtree(m) = U(m) /\ nw[m] = New(s, d, m) /\ \A q : Rebased(q, m, nw[m]) = Copy(q, m, nw)
        BY <1>2, <1>3, <2>2
      <3> HIDE DEF nw, U
      <3> QED BY <3>1
    <2>4. K = C
      <3> HIDE DEF nw, U, M
      <3> QED BY <2>3
    <2> HIDE DEF K, C
    <2> QED BY <2>1, <2>4
  <1> HIDE DEF g, nw, M
  <1>5. ASSUME NEW m \in M, NEW q \in U(m)
        PROVE  Copy(q, m, nw) \in DOMAIN g /\ g[Copy(q, m, nw)].t = doc[q].t
    <2> DEFINE k == Copy(q, m, nw)
    <2>1. <<k, doc[q]>> \in C
      OBVIOUS
    <2>2. k \notin DOMAIN doc
      BY OfCopy DEF M, nw
    <2> DEFINE c == CHOOSE c \in C : c[1] = k
    <2>3. c \in C /\ c[1] = k
      <3>1. \E x \in C : x[1] = k
        BY <2>1
      <3> HIDE DEF C, k
      <3> QED BY <3>1
    <2>4. k \in DOMAIN g /\ g[k] = c[2]
      BY <1>4, <2>2, <2>3
    <2> HIDE DEF c, k
    <2>5. PICK o \in M : \E r \in U(o) : c = <<Copy(r, o, nw), doc[r]>>
      BY <2>3
    <2>6. PICK r \in U(o) : c = <<Copy(r, o, nw), doc[r]>>
      BY <2>5
    <2>7. Copy(r, o, nw) = k
      BY <2>3, <2>6
    <2>8. q = r
      BY <2>7, SameCopy DEF M, nw, k
    <2> QED BY <2>4, <2>6, <2>8 DEF k
  <1>6. Kept(doc, g)
    BY <1>4 DEF Kept
  <1>7. ASSUME NEW k \in DOMAIN g \ DOMAIN doc
        PROVE  \E m \in M : \E q \in U(m) : k = Copy(q, m, nw)
    <2>1. PICK c \in C : c[1] = k
      BY <1>4
    <2>2. PICK m \in M : \E q \in U(m) : c = <<Copy(q, m, nw), doc[q]>>
      BY <2>1
    <2> QED BY <2>1, <2>2
  <1> QED BY <1>5, <1>6, <1>7 DEF Imports, M, nw, g

\* copy, of one record or of the members of a directory.
LEMMA CopySound ==
  ASSUME Sound, NEW c, Fits(c), Accepts(c), c.op = "copy"
  PROVE  Tree(Effect(c)) /\ Dense(Effect(c))
  <1>1. CASE IsWildcard(c.from)
    <2> DEFINE s == Home(c.from)
               d == c.at
               M == Members(s)
               nw == NewNames(s, d)
               g == CopiedMembers(s, d)
               n == Cardinality(MembersOf(doc, d))
               j == Cardinality(M)
    <2>1. c.from \in Ranges /\ IsDirectory(d) /\ IF IsArray(d) THEN Cardinality(Members(d)) + j < Star
                              ELSE \A m \in M : Free(withChild(d, name(m)))
      <3>1. c.from \notin Places
        BY <1>1, OfPlace
      <3>2. ~({c.from, c.at} \subseteq Places)
        BY <3>1
      <3> QED BY <3>2 DEF Fits
    <2>2. s \in DOMAIN doc /\ d \in DOMAIN doc /\ Effect(c) = g
      BY <1>1 DEF Accepts, Effect
    <2>3. /\ Plants(doc, d, M, nw)
          /\ doc[d].t = "A" => {name(nw[m]) : m \in M} = n + 1 .. n + j
      BY <2>1, <2>2, RangePlants
    <2>4. Tree(doc) /\ Dense(doc)
      BY DEF Sound
    <2>5. Imports(doc, d, M, nw, g)
      BY <2>2, <2>3, <2>4, RangeImports
    <2>6. n = Cardinality(MembersOf(doc, d)) /\ j \in Nat
      BY <2>4, AsMembers, Finite
    <2> HIDE DEF n, j, nw, g, M
    <2>7. Tree(g) /\ Dense(g)
      BY <2>3, <2>4, <2>5, <2>6, Imported
    <2> QED BY <2>2, <2>7
  <1>2. CASE ~IsWildcard(c.from)
    <2>1. c.at \in Places
      BY <1>2 DEF Fits
    <2>2. c.from \in DOMAIN doc /\ InPlace(c.at) /\ Free(c.at) /\ Effect(c) = Copied(c.from, c.at)
      BY <1>2 DEF Accepts, Effect, Home
    <2>3. c.at # Root
      BY <2>2, OfRoot DEF Free, Sound, Tree
    <2>4. Fresh(doc, c.at)
      BY <2>1, <2>2, <2>3 DEF Fresh, Free, InPlace
    <2> QED BY <2>2, <2>4, CopiedSound
  <1> QED BY <1>1, <1>2

-----------------------------------------------------------------------------
\* Paths with another component in place a.
SetAt(s, a, x) == [s EXCEPT ![a] = x]

\* All other components stay.
LEMMA OfSetAt ==
  ASSUME NEW s \in Seq(Nat), NEW a \in 1 .. Len(s), NEW x \in Nat
  PROVE  /\ SetAt(s, a, x) \in Seq(Nat) /\ Len(SetAt(s, a, x)) = Len(s)
         /\ SetAt(s, a, x)[a] = x
         /\ \A i \in 1 .. Len(s) : i # a => SetAt(s, a, x)[i] = s[i]
  BY ExceptSeq DEF SetAt

\* The change of a component and Append commute.
LEMMA SetInAppend ==
  ASSUME NEW s \in Seq(Nat), NEW x \in Nat, NEW e \in Nat
  PROVE  /\ \A a \in 1 .. Len(s) : SetAt(Append(s, e), a, x) = Append(SetAt(s, a, x), e)
         /\ SetAt(Append(s, e), Len(s) + 1, x) = Append(s, x)
  <1> DEFINE t == Append(s, e)
  <1>1. /\ t \in Seq(Nat) /\ Len(s) \in Nat /\ Len(t) = Len(s) + 1
        /\ \A i \in 1 .. Len(s) : t[i] = s[i]
        /\ t[Len(s) + 1] = e
    BY OfAppend
  <1> HIDE DEF t
  <1>2. ASSUME NEW a \in 1 .. Len(s) PROVE SetAt(t, a, x) = Append(SetAt(s, a, x), e)
    <2> DEFINE u == SetAt(t, a, x)
               v == SetAt(s, a, x)
               w == Append(v, e)
    <2>1. a \in 1 .. Len(t)
      BY <1>1
    <2>2. /\ u \in Seq(Nat) /\ Len(u) = Len(t) /\ u[a] = x
          /\ \A i \in 1 .. Len(t) : i # a => u[i] = t[i]
      BY <1>1, <2>1, OfSetAt
    <2>3. /\ v \in Seq(Nat) /\ Len(v) = Len(s) /\ v[a] = x
          /\ \A i \in 1 .. Len(s) : i # a => v[i] = s[i]
      BY OfSetAt
    <2> HIDE DEF u, v
    <2>4. /\ w \in Seq(Nat) /\ Len(w) = Len(v) + 1
          /\ \A i \in 1 .. Len(v) : w[i] = v[i]
          /\ w[Len(v) + 1] = e
      BY <2>3, OfAppend
    <2> HIDE DEF w
    <2>5. ASSUME NEW i \in 1 .. Len(u) PROVE u[i] = w[i]
      <3>1. CASE i = a
        BY <2>2, <2>3, <2>4, <3>1
      <3>2. CASE i = Len(s) + 1
        BY <1>1, <2>1, <2>2, <2>3, <2>4, <3>2
      <3>3. CASE i \in 1 .. Len(s) /\ i # a
        BY <1>1, <2>2, <2>3, <2>4, <3>3
      <3>4. i = Len(s) + 1 \/ i \in 1 .. Len(s)
        BY <1>1, <2>2
      <3> QED BY <3>1, <3>2, <3>3, <3>4
    <2>6. Len(u) = Len(w)
      BY <1>1, <2>2, <2>3, <2>4
    <2>7. u = w
      BY <2>2, <2>4, <2>5, <2>6, SeqEqual
    <2> QED BY <2>7 DEF u, v, w
  <1>3. SetAt(t, Len(s) + 1, x) = Append(s, x)
    <2> DEFINE u == SetAt(t, Len(s) + 1, x)
               w == Append(s, x)
    <2>1. Len(s) + 1 \in 1 .. Len(t)
      BY <1>1
    <2>2. /\ u \in Seq(Nat) /\ Len(u) = Len(t) /\ u[Len(s) + 1] = x
          /\ \A i \in 1 .. Len(t) : i # Len(s) + 1 => u[i] = t[i]
      BY <1>1, <2>1, OfSetAt
    <2>3. /\ w \in Seq(Nat) /\ Len(w) = Len(s) + 1
          /\ \A i \in 1 .. Len(s) : w[i] = s[i]
          /\ w[Len(s) + 1] = x
      BY OfAppend
    <2> HIDE DEF u, w
    <2>4. ASSUME NEW i \in 1 .. Len(u) PROVE u[i] = w[i]
      <3>1. CASE i = Len(s) + 1
        BY <2>2, <2>3, <3>1
      <3>2. CASE i \in 1 .. Len(s)
        <4>1. i # Len(s) + 1 /\ i \in 1 .. Len(t)
          BY <1>1, <3>2
        <4> QED BY <1>1, <2>2, <2>3, <3>2, <4>1
      <3> QED BY <1>1, <2>2, <3>1, <3>2
    <2>5. u = w
      BY <1>1, <2>2, <2>3, <2>4, SeqEqual
    <2> QED BY <2>5 DEF u, w
  <1> QED BY <1>2, <1>3 DEF t

\* A place with another name on its way.
LEMMA SetInPlace ==
  ASSUME NEW q \in Places, q # Root, NEW a \in 1 .. Len(basePath(q)), NEW x \in Nat \ {Dot, Star}
  PROVE  LET r == SetAt(q, a, x)
         IN /\ r \in Places /\ r # Root /\ (IsDirectory(r) <=> IsDirectory(q))
            /\ basePath(r) = SetAt(basePath(q), a, x)
            /\ a = Len(basePath(q)) => parent(r) = parent(q) /\ name(r) = x
            /\ a # Len(basePath(q)) =>
                 /\ parent(r) = SetAt(parent(q), a, x) /\ name(r) = name(q)
                 /\ a \in 1 .. Len(basePath(parent(q)))
  <1> DEFINE b == basePath(q)
             f == Front(b)
             c == SetAt(b, a, x)
             r == SetAt(q, a, x)
  <1>1. /\ b \in Names /\ b \in Seq(Nat) /\ name(q) = Last(b) /\ name(q) \in Nat \ {Dot, Star}
        /\ parent(q) = Append(f, Dot) /\ asDirectory(q) = Append(b, Dot)
        /\ (IsDirectory(q) <=> q = Append(b, Dot)) /\ (~IsDirectory(q) <=> q = b)
    BY OfPlace
  <1>2. /\ b # <<>> /\ Len(b) \in Nat \ {0} /\ b = Append(f, name(q))
        /\ f \in Seq(Nat) /\ Len(f) = Len(b) - 1 /\ basePath(parent(q)) = f
    BY OfParent
  <1>3. Dot \in Nat
    BY DEF Dot
  <1> HIDE DEF b, f
  <1>4. ASSUME a = Len(b) PROVE c # <<>> /\ c \in Seq(Nat) /\ Last(c) = x /\ Front(c) = f
    <2>1. c = Append(f, x)
      <3>1. SetAt(Append(f, name(q)), Len(f) + 1, x) = Append(f, x)
        <4>1. name(q) \in Nat /\ x \in Nat
          BY <1>1
        <4> HIDE DEF c
        <4> QED BY <1>2, <4>1, SetInAppend
      <3>2. Len(f) + 1 = a
        BY <1>2, <1>4
      <3> QED BY <1>2, <3>1, <3>2
    <2>2. x \in Nat
      OBVIOUS
    <2> HIDE DEF c
    <2> QED BY <1>2, <2>1, <2>2, OfAppend
  <1>5. ASSUME a # Len(b)
        PROVE  /\ c # <<>> /\ c \in Seq(Nat) /\ Last(c) = name(q) /\ Front(c) = SetAt(f, a, x)
               /\ a \in 1 .. Len(f) /\ SetAt(parent(q), a, x) = Append(SetAt(f, a, x), Dot)
    <2>1. a \in 1 .. Len(f)
      BY <1>2, <1>5 DEF b
    <2>2. SetAt(f, a, x) \in Seq(Nat)
      BY <1>2, <2>1, OfSetAt
    <2>3. c = Append(SetAt(f, a, x), name(q)) /\ SetAt(Append(f, Dot), a, x) = Append(SetAt(f, a, x), Dot)
      <3>1. \A e \in Nat : SetAt(Append(f, e), a, x) = Append(SetAt(f, a, x), e)
        BY <1>2, <2>1, SetInAppend
      <3> QED BY <1>1, <1>2, <1>3, <3>1
    <2>4. c # <<>> /\ c \in Seq(Nat) /\ Last(c) = name(q) /\ Front(c) = SetAt(f, a, x)
      <3> DEFINE g == SetAt(f, a, x)
      <3>1. name(q) \in Nat /\ g \in Seq(Nat) /\ c = Append(g, name(q))
        BY <1>1, <2>2, <2>3
      <3> HIDE DEF c, g
      <3>2. c # <<>> /\ c \in Seq(Nat) /\ Last(c) = name(q) /\ Front(c) = g
        BY <3>1, OfAppend
      <3> QED BY <3>2 DEF g
    <2> QED BY <1>1, <2>1, <2>3, <2>4
  <1>6. c \in Names
    BY <1>1, <1>4, <1>5 DEF Names
  <1>7. IF IsDirectory(q) THEN r = Append(c, Dot) ELSE r = c
    <2>1. CASE IsDirectory(q)
      <3>1. SetAt(Append(b, Dot), a, x) = Append(SetAt(b, a, x), Dot)
        BY <1>1, <1>3, SetInAppend DEF b
      <3> QED BY <1>1, <2>1, <3>1
    <2>2. CASE ~IsDirectory(q)
      BY <1>1, <2>2
    <2> QED BY <2>1, <2>2
  <1> HIDE DEF r, c
  <1>8. /\ r \in Places /\ r # Root /\ basePath(r) = c
        /\ parent(r) = Append(Front(c), Dot) /\ name(r) = Last(c)
    BY <1>6, <1>7, OfName, OfFolder
  <1>9. IsDirectory(r) <=> IsDirectory(q)
    <2>1. IsDirectory(Append(c, Dot)) /\ ~IsDirectory(c)
      BY <1>6, OfName, OfFolder
    <2> QED BY <1>7, <2>1
  <1> QED BY <1>1, <1>2, <1>4, <1>5, <1>8, <1>9 DEF b, c, r

-----------------------------------------------------------------------------
\* Records under other paths.  u keeps what lies in what.
Renames(f, u, g) ==
  /\ DOMAIN g = {u[q] : q \in DOMAIN f} /\ \A q \in DOMAIN f : g[u[q]].t = f[q].t
  /\ u[Root] = Root
  /\ \A q \in DOMAIN f :
       u[q] \in Places /\ (IsDirectory(u[q]) <=> IsDirectory(q)) /\ parent(u[q]) = u[parent(q)]
  /\ \A p, q \in DOMAIN f : basePath(u[p]) = basePath(u[q]) => p = q

\* Then the tree stays one, and the members of a directory go along with it.
LEMMA RenamedTree ==
  ASSUME NEW f, Tree(f), NEW u, NEW g, Renames(f, u, g)
  PROVE  Tree(g) /\ \A e \in DOMAIN f : MembersOf(g, u[e]) = {u[m] : m \in MembersOf(f, e)}
  <1>1. IsFiniteSet(DOMAIN g)
    <2> DEFINE h == [q \in DOMAIN f |-> u[q]]
    <2>1. IsFiniteSet(DOMAIN f) /\ DOMAIN h = DOMAIN f /\ DOMAIN g = {h[q] : q \in DOMAIN f}
      BY DEF Tree, Renames
    <2> HIDE DEF h
    <2>2. IsFiniteSet({h[q] : q \in DOMAIN f})
      BY <2>1, FiniteImage
    <2> QED BY <2>1, <2>2
  <1>2. Root \in DOMAIN g /\ g[Root].t = "O" /\ DOMAIN g \subseteq Places
    BY DEF Tree, Renames
  <1>3. ASSUME NEW k \in DOMAIN g
        PROVE  /\ parent(k) \in DOMAIN g
               /\ IF IsDirectory(k) THEN g[k].t \in {"A", "O"}
                                    ELSE g[k].t = "s" /\ asDirectory(k) \notin DOMAIN g
    <2>1. PICK q \in DOMAIN f : k = u[q]
      BY DEF Renames
    <2>2. parent(k) = u[parent(q)] /\ parent(q) \in DOMAIN f /\ (IsDirectory(k) <=> IsDirectory(q))
          /\ g[k].t = f[q].t
      BY <2>1 DEF Tree, Renames
    <2>3. IF IsDirectory(k) THEN g[k].t \in {"A", "O"} ELSE g[k].t = "s"
      BY <2>2 DEF Tree
    <2>4. ASSUME ~IsDirectory(k), asDirectory(k) \in DOMAIN g PROVE FALSE
      <3>1. PICK s \in DOMAIN f : asDirectory(k) = u[s]
        BY <2>4 DEF Renames
      <3>2. k \in Places /\ k # Root
        BY <1>2, <2>4, OfRoot
      <3>3. basePath(asDirectory(k)) = basePath(k) /\ IsDirectory(asDirectory(k))
        BY <3>2, OfRecord
      <3>4. s = q
        BY <2>1, <3>1, <3>3 DEF Renames
      <3> QED BY <2>1, <2>4, <3>1, <3>3, <3>4
    <2> QED BY <2>2, <2>3, <2>4 DEF Renames
  <1>4. Tree(g)
    BY <1>1, <1>2, <1>3 DEF Tree
  <1>5. ASSUME NEW e \in DOMAIN f PROVE MembersOf(g, u[e]) = {u[m] : m \in MembersOf(f, e)}
    <2>1. ASSUME NEW k \in MembersOf(g, u[e]) PROVE k \in {u[m] : m \in MembersOf(f, e)}
      <3>1. PICK q \in DOMAIN f : k = u[q]
        BY DEF MembersOf, Renames
      <3>2. u[parent(q)] = u[e] /\ parent(q) \in DOMAIN f
        BY <3>1 DEF MembersOf, Renames, Tree
      <3>3. parent(q) = e
        BY <3>2 DEF Renames
      <3>4. q # e
        BY <3>1 DEF MembersOf
      <3> QED BY <3>1, <3>3, <3>4 DEF MembersOf
    <2>2. ASSUME NEW m \in MembersOf(f, e) PROVE u[m] \in MembersOf(g, u[e])
      <3>1. m \in DOMAIN f /\ m # e /\ parent(m) = e
        BY DEF MembersOf
      <3>2. u[m] # u[e]
        BY <3>1 DEF Renames
      <3> QED BY <3>1, <3>2 DEF MembersOf, Renames
    <2> QED BY <2>1, <2>2
  <1> QED BY <1>4, <1>5

\* The paths through an element of array s, and such a path with another index.
Inside(q, s) == Len(q) >= Len(s) + 1 /\ SubSeq(q, 1, Len(s)) = s /\ IsIndex(q[Len(s) + 1])
Reindex(q, s, h) == IF Inside(q, s) THEN SetAt(q, Len(s) + 1, h[q[Len(s) + 1]]) ELSE q
Indices == 1 .. Star - 1

\* Inside, component by component.
LEMMA OfInside ==
  ASSUME NEW q \in Seq(Nat), NEW s \in Seq(Nat)
  PROVE  Inside(q, s) <=> /\ Len(q) > Len(s) /\ IsIndex(q[Len(s) + 1])
                          /\ \A i \in 1 .. Len(s) : q[i] = s[i]
  <1>1. Len(q) \in Nat /\ Len(s) \in Nat
    BY LenProperties
  <1> SUFFICES ASSUME Len(q) > Len(s)
               PROVE  SubSeq(q, 1, Len(s)) = s <=> \A i \in 1 .. Len(s) : q[i] = s[i]
    BY <1>1 DEF Inside
  <1> DEFINE h == SubSeq(q, 1, Len(s))
  <1>2. Len(s) \in 0 .. Len(q)
    BY <1>1
  <1>3. h \in Seq(Nat) /\ Len(h) = Len(s) /\ \A i \in 1 .. Len(s) : h[i] = q[i]
    BY <1>2, OfHead
  <1> HIDE DEF h
  <1>4. ASSUME \A i \in 1 .. Len(s) : q[i] = s[i] PROVE h = s
    <2>1. \A i \in 1 .. Len(s) : h[i] = s[i]
      BY <1>3, <1>4
    <2> QED BY <1>3, <2>1, SeqEqual
  <1>5. h = s <=> \A i \in 1 .. Len(s) : q[i] = s[i]
    BY <1>3, <1>4
  <1> QED BY <1>5 DEF h

\* The last component counts only right below s.
LEMMA InsideAppend ==
  ASSUME NEW f \in Seq(Nat), NEW s \in Seq(Nat), NEW e \in Nat
  PROVE  Inside(Append(f, e), s) <=> Inside(f, s) \/ (f = s /\ IsIndex(e))
  <1> DEFINE q == Append(f, e)
             a == Len(s) + 1
  <1>1. /\ q \in Seq(Nat) /\ Len(f) \in Nat /\ Len(s) \in Nat /\ Len(q) = Len(f) + 1
        /\ \A i \in 1 .. Len(f) : q[i] = f[i]
        /\ q[Len(f) + 1] = e
    BY OfAppend, LenProperties
  <1>2. Inside(q, s) <=> Len(q) > Len(s) /\ IsIndex(q[a]) /\ \A i \in 1 .. Len(s) : q[i] = s[i]
    BY <1>1, OfInside
  <1>3. Inside(f, s) <=> Len(f) > Len(s) /\ IsIndex(f[a]) /\ \A i \in 1 .. Len(s) : f[i] = s[i]
    BY OfInside
  <1> HIDE DEF q
  <1>4. CASE Len(f) > Len(s)
    <2>1. Len(q) > Len(s) /\ f # s /\ a \in 1 .. Len(f) /\ \A i \in 1 .. Len(s) : i \in 1 .. Len(f)
      BY <1>1, <1>4
    <2>2. q[a] = f[a] /\ \A i \in 1 .. Len(s) : q[i] = f[i]
      BY <1>1, <2>1
    <2> QED BY <1>2, <1>3, <1>4, <2>1, <2>2 DEF q
  <1>5. CASE Len(f) = Len(s)
    <2>1. Len(q) > Len(s) /\ ~(Len(f) > Len(s)) /\ q[a] = e
      BY <1>1, <1>5
    <2>2. \A i \in 1 .. Len(s) : q[i] = f[i]
      BY <1>1, <1>5
    <2>3. f = s <=> \A i \in 1 .. Len(s) : f[i] = s[i]
      <3>1. (\A i \in 1 .. Len(f) : f[i] = s[i]) => f = s
        BY <1>5, SeqEqual
      <3> QED BY <1>5, <3>1
    <2> QED BY <1>2, <1>3, <2>1, <2>2, <2>3 DEF q
  <1>6. CASE Len(f) < Len(s)
    <2>1. ~(Len(q) > Len(s)) /\ ~(Len(f) > Len(s)) /\ f # s
      BY <1>1, <1>6
    <2> QED BY <1>2, <1>3, <2>1 DEF q
  <1> QED BY <1>1, <1>4, <1>5, <1>6

\* A place with another index on its way lies in the directory with that index.
LEMMA ReindexedPlace ==
  ASSUME NEW q \in Places, NEW s \in Seq(Nat), NEW h \in [Indices -> Indices]
  PROVE  LET r == Reindex(q, s, h)
         IN /\ r \in Places /\ (IsDirectory(r) <=> IsDirectory(q))
            /\ basePath(r) = Reindex(basePath(q), s, h) /\ parent(r) = Reindex(parent(q), s, h)
            /\ q = Root => r = Root
            /\ q # Root => name(r) = IF parent(q) = Append(s, Dot) /\ IsIndex(name(q))
                                     THEN h[name(q)] ELSE name(q)
  <1> DEFINE r == Reindex(q, s, h)
             a == Len(s) + 1
  <1>1. Dot \in Nat /\ ~IsIndex(Dot) /\ Len(s) \in Nat /\ \A x : IsIndex(x) <=> x \in Indices
    BY LenProperties DEF Dot, IsIndex, Indices
  <1>2. CASE q = Root
    <2>1. <<>> \in Seq(Nat) /\ Root = Append(<<>>, Dot)
      BY OfRoot
    <2>2. ~Inside(<<>>, s)
      BY <1>1 DEF Inside
    <2>3. Inside(Append(<<>>, Dot), s) <=> Inside(<<>>, s) \/ (<<>> = s /\ IsIndex(Dot))
      BY <1>1, <2>1, InsideAppend
    <2>4. ~Inside(Root, s)
      BY <1>1, <2>1, <2>2, <2>3
    <2> QED BY <1>2, <2>2, <2>4, OfRoot DEF Reindex
  <1>3. CASE q # Root
    <2> DEFINE b == basePath(q)
               f == Front(b)
    <2>1. /\ b \in Seq(Nat) /\ name(q) \in Nat /\ parent(q) = Append(f, Dot)
          /\ (q = b \/ q = Append(b, Dot)) /\ q \in Seq(Nat)
      BY <1>3, OfPlace
    <2>2. /\ Len(b) \in Nat /\ b = Append(f, name(q)) /\ f \in Seq(Nat) /\ Len(f) = Len(b) - 1
          /\ basePath(parent(q)) = f
      BY <1>3, OfParent
    <2> HIDE DEF b, f
    <2>3. Inside(q, s) <=> Inside(b, s)
      <3>1. Inside(Append(b, Dot), s) <=> Inside(b, s) \/ (b = s /\ IsIndex(Dot))
        BY <1>1, <2>1, InsideAppend
      <3> QED BY <1>1, <2>1, <3>1
    <2>4. Inside(parent(q), s) <=> Inside(f, s)
      <3>1. Inside(Append(f, Dot), s) <=> Inside(f, s) \/ (f = s /\ IsIndex(Dot))
        BY <1>1, <2>2, InsideAppend
      <3> QED BY <1>1, <2>1, <3>1
    <2>5. Inside(b, s) <=> Inside(f, s) \/ (f = s /\ IsIndex(name(q)))
      <3>1. Inside(Append(f, name(q)), s) <=> Inside(f, s) \/ (f = s /\ IsIndex(name(q)))
        BY <2>1, <2>2, InsideAppend
      <3> QED BY <2>2, <3>1
    <2>6. parent(q) = Append(s, Dot) <=> f = s
      <3>1. Front(Append(s, Dot)) = s /\ Front(Append(f, Dot)) = f
        BY <1>1, <2>2, OfAppend
      <3> QED BY <2>1, <3>1
    <2>7. Inside(f, s) => Len(f) > Len(s) /\ f # s
      BY <1>1, <2>2, OfInside
    <2>8. \A i \in 1 .. Len(f) : b[i] = f[i] /\ parent(q)[i] = f[i]
      <3>1. \A i \in 1 .. Len(f) : Append(f, name(q))[i] = f[i]
        BY <2>1, <2>2, OfAppend
      <3>2. \A i \in 1 .. Len(f) : Append(f, Dot)[i] = f[i]
        BY <1>1, <2>2, OfAppend
      <3> QED BY <2>1, <2>2, <3>1, <3>2
    <2>9. b[Len(b)] = name(q)
      <3>1. Append(f, name(q))[Len(f) + 1] = name(q)
        BY <2>1, <2>2, OfAppend
      <3> QED BY <2>2, <3>1
    <2>10. \A i \in 1 .. Len(b) : q[i] = b[i]
      <3>1. \A i \in 1 .. Len(b) : Append(b, Dot)[i] = b[i]
        BY <1>1, <2>1, OfAppend
      <3> QED BY <2>1, <3>1
    <2>11. ASSUME Inside(b, s)
           PROVE  /\ a \in 1 .. Len(b) /\ b[a] = q[a] /\ b[a] \in Indices
                  /\ h[b[a]] \in Nat \ {Dot, Star} /\ r = SetAt(q, a, h[b[a]])
                  /\ Reindex(b, s, h) = SetAt(b, a, h[b[a]])
      <3>1. Len(b) > Len(s) /\ IsIndex(b[a])
        BY <2>1, <2>11, OfInside
      <3>2. a \in 1 .. Len(b) /\ b[a] \in Indices
        BY <1>1, <2>2, <3>1
      <3>3. h[b[a]] \in Indices
        BY <3>2
      <3>4. h[b[a]] \in Nat \ {Dot, Star}
        BY <3>3, PathAssumption DEF Indices, Dot
      <3>5. b[a] = q[a]
        BY <2>10, <3>2
      <3> QED BY <2>3, <2>11, <3>2, <3>4, <3>5 DEF Reindex
    <2>12. CASE Inside(f, s)
      <3>1. a # Len(b) /\ a \in 1 .. Len(f)
        BY <1>1, <2>2, <2>7, <2>12
      <3>2. /\ r \in Places /\ r # Root /\ (IsDirectory(r) <=> IsDirectory(q))
            /\ basePath(r) = SetAt(b, a, h[b[a]])
            /\ parent(r) = SetAt(parent(q), a, h[b[a]]) /\ name(r) = name(q)
        <4> DEFINE x == h[b[a]]
        <4>1. x \in Nat \ {Dot, Star} /\ a \in 1 .. Len(basePath(q)) /\ r = SetAt(q, a, x)
              /\ a # Len(basePath(q))
          BY <2>5, <2>11, <2>12, <3>1 DEF b
        <4> HIDE DEF x, a, r
        <4>2. /\ SetAt(q, a, x) \in Places /\ SetAt(q, a, x) # Root
              /\ (IsDirectory(SetAt(q, a, x)) <=> IsDirectory(q))
              /\ basePath(SetAt(q, a, x)) = SetAt(basePath(q), a, x)
              /\ parent(SetAt(q, a, x)) = SetAt(parent(q), a, x)
              /\ name(SetAt(q, a, x)) = name(q)
          BY <1>3, <4>1, SetInPlace
        <4> QED BY <4>1, <4>2 DEF x, b
      <3>3. parent(q)[a] = b[a]
        BY <2>8, <3>1
      <3>4. Reindex(parent(q), s, h) = SetAt(parent(q), a, h[b[a]])
        BY <2>4, <2>12, <3>3 DEF Reindex
      <3>5. Reindex(b, s, h) = SetAt(b, a, h[b[a]])
        BY <2>5, <2>11, <2>12
      <3> QED BY <1>3, <2>6, <2>7, <2>12, <3>2, <3>4, <3>5 DEF b
    <2>13. CASE f = s /\ IsIndex(name(q))
      <3>1. a = Len(b) /\ b[a] = name(q)
        BY <1>1, <2>2, <2>9, <2>13
      <3>2. /\ r \in Places /\ r # Root /\ (IsDirectory(r) <=> IsDirectory(q))
            /\ basePath(r) = SetAt(b, a, h[b[a]])
            /\ parent(r) = parent(q) /\ name(r) = h[b[a]]
        <4> DEFINE x == h[b[a]]
        <4>1. x \in Nat \ {Dot, Star} /\ a \in 1 .. Len(basePath(q)) /\ r = SetAt(q, a, x)
              /\ a = Len(basePath(q))
          BY <2>5, <2>11, <2>13, <3>1 DEF b
        <4> HIDE DEF x, a, r
        <4>2. /\ SetAt(q, a, x) \in Places /\ SetAt(q, a, x) # Root
              /\ (IsDirectory(SetAt(q, a, x)) <=> IsDirectory(q))
              /\ basePath(SetAt(q, a, x)) = SetAt(basePath(q), a, x)
              /\ parent(SetAt(q, a, x)) = parent(q)
              /\ name(SetAt(q, a, x)) = x
          BY <1>3, <4>1, SetInPlace
        <4> QED BY <4>1, <4>2 DEF x, b
      <3>3. Reindex(parent(q), s, h) = parent(q)
        BY <2>4, <2>7, <2>13 DEF Reindex
      <3>4. Reindex(b, s, h) = SetAt(b, a, h[b[a]])
        BY <2>5, <2>11, <2>13
      <3> QED BY <1>3, <2>6, <2>13, <3>1, <3>2, <3>3, <3>4 DEF b
    <2>14. CASE ~Inside(f, s) /\ ~(f = s /\ IsIndex(name(q)))
      BY <1>3, <2>3, <2>4, <2>5, <2>6, <2>14 DEF Reindex, b
    <2> QED BY <2>12, <2>13, <2>14
  <1> QED BY <1>2, <1>3

\* Paths stay apart if their indices do.
LEMMA ReindexedApart ==
  ASSUME NEW p \in Seq(Nat), NEW q \in Seq(Nat), NEW s \in Seq(Nat), NEW h \in [Indices -> Indices],
         Reindex(p, s, h) = Reindex(q, s, h),
         Inside(p, s) /\ Inside(q, s) /\ h[p[Len(s) + 1]] = h[q[Len(s) + 1]]
           => p[Len(s) + 1] = q[Len(s) + 1]
  PROVE  p = q
  <1> DEFINE a == Len(s) + 1
  <1>1. Len(s) \in Nat /\ \A x : IsIndex(x) <=> x \in Indices
    BY LenProperties DEF IsIndex, Indices
  <1>2. ASSUME NEW t \in Seq(Nat), Inside(t, s)
        PROVE  LET r == Reindex(t, s, h)
               IN /\ a \in 1 .. Len(t) /\ t[a] \in Indices
                  /\ r \in Seq(Nat) /\ Len(r) = Len(t) /\ r[a] = h[t[a]] /\ Inside(r, s)
                  /\ \A i \in 1 .. Len(t) : i # a => r[i] = t[i]
    <2> DEFINE x == h[t[a]]
               r == SetAt(t, a, x)
    <2>1. Len(t) > Len(s) /\ IsIndex(t[a]) /\ \A i \in 1 .. Len(s) : t[i] = s[i]
      BY <1>2, OfInside
    <2>2. a \in 1 .. Len(t) /\ t[a] \in Indices /\ x \in Indices
      <3>1. Len(t) \in Nat
        BY LenProperties
      <3> QED BY <1>1, <2>1, <3>1
    <2>3. x \in Nat
      BY <2>2 DEF Indices
    <2>4. r = Reindex(t, s, h)
      BY <1>2 DEF Reindex
    <2> HIDE DEF x
    <2>5. r \in Seq(Nat) /\ Len(r) = Len(t) /\ r[a] = x /\ \A i \in 1 .. Len(t) : i # a => r[i] = t[i]
      BY <2>2, <2>3, OfSetAt
    <2> HIDE DEF r
    <2>6. \A i \in 1 .. Len(s) : r[i] = s[i]
      <3>1. \A i \in 1 .. Len(s) : i \in 1 .. Len(t) /\ i # a
        <4>1. Len(t) \in Nat /\ Len(t) >= a /\ Len(s) \in Nat
          BY <2>2, LenProperties
        <4>2. ASSUME NEW i \in 1 .. Len(s) PROVE i \in 1 .. Len(t)
          BY <4>1
        <4>3. ASSUME NEW i \in 1 .. Len(s) PROVE i # a
          BY <4>1
        <4> QED BY <4>2, <4>3
      <3> QED BY <2>1, <2>5, <3>1
    <2>7. Inside(r, s)
      BY <1>1, <2>1, <2>2, <2>5, <2>6, OfInside
    <2> QED BY <2>2, <2>4, <2>5, <2>7 DEF x
  <1>3. ASSUME NEW t \in Seq(Nat), ~Inside(t, s) PROVE Reindex(t, s, h) = t
    BY <1>3 DEF Reindex
  <1>4. CASE Inside(p, s) /\ Inside(q, s)
    <2> DEFINE r == Reindex(p, s, h)
    <2>1. /\ a \in 1 .. Len(p) /\ Len(r) = Len(p) /\ r[a] = h[p[a]]
          /\ \A i \in 1 .. Len(p) : i # a => r[i] = p[i]
      BY <1>2, <1>4
    <2>2. /\ Len(r) = Len(q) /\ r[a] = h[q[a]]
          /\ \A i \in 1 .. Len(q) : i # a => r[i] = q[i]
      BY <1>2, <1>4
    <2>3. p[a] = q[a]
      BY <1>4, <2>1, <2>2
    <2>4. \A i \in 1 .. Len(p) : p[i] = q[i]
      BY <2>1, <2>2, <2>3
    <2> QED BY <2>1, <2>2, <2>4, SeqEqual
  <1>5. CASE ~Inside(p, s) \/ ~Inside(q, s)
    BY <1>2, <1>3, <1>5
  <1> QED BY <1>4, <1>5

\* A path, its name and an index on the way.
LEMMA InsideBase ==
  ASSUME NEW q \in Places, NEW s \in Seq(Nat)
  PROVE  /\ Inside(q, s) <=> Inside(basePath(q), s)
         /\ Inside(q, s) => /\ basePath(q)[Len(s) + 1] = q[Len(s) + 1]
                            /\ Len(s) + 1 \in 1 .. Len(basePath(q)) /\ q[Len(s) + 1] \in Indices
  <1> DEFINE b == basePath(q)
             a == Len(s) + 1
  <1>1. Dot \in Nat /\ ~IsIndex(Dot) /\ Len(s) \in Nat /\ \A x : IsIndex(x) <=> x \in Indices
    BY LenProperties DEF Dot, IsIndex, Indices
  <1>2. b \in Seq(Nat) /\ Len(b) \in Nat /\ (q = b \/ q = Append(b, Dot)) /\ q \in Seq(Nat)
    BY OfPlace, LenProperties
  <1> HIDE DEF b
  <1>3. Inside(q, s) <=> Inside(b, s)
    <2>1. Inside(Append(b, Dot), s) <=> Inside(b, s) \/ (b = s /\ IsIndex(Dot))
      BY <1>1, <1>2, InsideAppend
    <2> QED BY <1>1, <1>2, <2>1
  <1>4. \A i \in 1 .. Len(b) : q[i] = b[i]
    <2>1. \A i \in 1 .. Len(b) : Append(b, Dot)[i] = b[i]
      BY <1>1, <1>2, OfAppend
    <2> QED BY <1>2, <2>1
  <1>5. ASSUME Inside(q, s) PROVE a \in 1 .. Len(b) /\ q[a] \in Indices
    <2>1. Len(b) > Len(s) /\ IsIndex(b[a])
      BY <1>2, <1>3, <1>5, OfInside
    <2>2. a \in 1 .. Len(b)
      BY <1>1, <1>2, <2>1
    <2> QED BY <1>1, <1>4, <2>1, <2>2
  <1> QED BY <1>3, <1>4, <1>5 DEF b

\* The records of g are those of f with other indices in the directory of s.
Reindexes(f, s, h, g) ==
  /\ h \in [Indices -> Indices]
  /\ \A p, q \in DOMAIN f :
       Inside(p, s) /\ Inside(q, s) /\ h[p[Len(s) + 1]] = h[q[Len(s) + 1]]
         => p[Len(s) + 1] = q[Len(s) + 1]
  /\ DOMAIN g = {Reindex(q, s, h) : q \in DOMAIN f}
  /\ \A q \in DOMAIN f : g[Reindex(q, s, h)].t = f[q].t

\* A tree with other indices in one array is a tree; all other directories keep
\* the names of their members.
LEMMA ReindexedTree ==
  ASSUME NEW f, Tree(f), NEW s \in Seq(Nat), NEW h, NEW g, Reindexes(f, s, h, g)
  PROVE  /\ Tree(g)
         /\ \A e \in DOMAIN f \ {Append(s, Dot)} :
              NamesOf(MembersOf(g, Reindex(e, s, h))) = NamesOf(MembersOf(f, e))
         /\ LET d == Append(s, Dot)
            IN d \in DOMAIN f /\ (\A m \in MembersOf(f, d) : IsIndex(name(m)))
                 => Reindex(d, s, h) = d
                    /\ NamesOf(MembersOf(g, d)) = {h[x] : x \in NamesOf(MembersOf(f, d))}
  <1> DEFINE u == [q \in DOMAIN f |-> Reindex(q, s, h)]
             d == Append(s, Dot)
             a == Len(s) + 1
  <1>1. DOMAIN f \subseteq Places /\ Root \in DOMAIN f /\ h \in [Indices -> Indices]
    BY DEF Tree, Reindexes
  <1>2. ASSUME NEW q \in DOMAIN f
        PROVE  /\ u[q] \in Places /\ (IsDirectory(u[q]) <=> IsDirectory(q))
               /\ basePath(u[q]) = Reindex(basePath(q), s, h) /\ parent(u[q]) = u[parent(q)]
               /\ q = Root => u[q] = Root
               /\ q # Root => name(u[q]) = IF parent(q) = d /\ IsIndex(name(q))
                                           THEN h[name(q)] ELSE name(q)
    <2>1. q \in Places /\ parent(q) \in DOMAIN f
      BY DEF Tree
    <2>2. u[q] = Reindex(q, s, h) /\ u[parent(q)] = Reindex(parent(q), s, h)
      BY <2>1
    <2> HIDE DEF u
    <2>3. LET r == Reindex(q, s, h)
          IN /\ r \in Places /\ (IsDirectory(r) <=> IsDirectory(q))
             /\ basePath(r) = Reindex(basePath(q), s, h) /\ parent(r) = Reindex(parent(q), s, h)
             /\ q = Root => r = Root
             /\ q # Root => name(r) = IF parent(q) = Append(s, Dot) /\ IsIndex(name(q))
                                      THEN h[name(q)] ELSE name(q)
      BY <1>1, <2>1, ReindexedPlace
    <2> QED BY <2>2, <2>3
  <1>3. ASSUME NEW p \in DOMAIN f, NEW q \in DOMAIN f, basePath(u[p]) = basePath(u[q])
        PROVE  p = q
    <2>1. p \in Places /\ q \in Places /\ Reindex(basePath(p), s, h) = Reindex(basePath(q), s, h)
      BY <1>1, <1>2, <1>3
    <2>2. basePath(p) \in Seq(Nat) /\ basePath(q) \in Seq(Nat)
      BY <2>1, OfPlace
    <2>3. /\ Inside(p, s) <=> Inside(basePath(p), s)
          /\ Inside(p, s) => basePath(p)[a] = p[a]
      BY <2>1, InsideBase
    <2>4. /\ Inside(q, s) <=> Inside(basePath(q), s)
          /\ Inside(q, s) => basePath(q)[a] = q[a]
      BY <2>1, InsideBase
    <2>5. Inside(basePath(p), s) /\ Inside(basePath(q), s) /\ h[basePath(p)[a]] = h[basePath(q)[a]]
            => basePath(p)[a] = basePath(q)[a]
      BY <2>3, <2>4 DEF Reindexes
    <2> HIDE DEF u
    <2>6. basePath(p) = basePath(q)
      BY <1>1, <2>1, <2>2, <2>5, ReindexedApart
    <2> QED BY <2>6, OneRecord
  <1>4. DOMAIN g = {u[q] : q \in DOMAIN f} /\ \A q \in DOMAIN f : g[u[q]].t = f[q].t
    BY DEF Reindexes
  <1> HIDE DEF u
  <1>5. Renames(f, u, g)
    BY <1>1, <1>2, <1>3, <1>4 DEF Renames
  <1>6. Tree(g) /\ \A e \in DOMAIN f : MembersOf(g, u[e]) = {u[m] : m \in MembersOf(f, e)}
    BY <1>5, RenamedTree
  <1>7. \A e \in DOMAIN f : u[e] = Reindex(e, s, h)
    BY DEF u
  <1>8. ASSUME NEW e \in DOMAIN f, e # d
        PROVE  NamesOf(MembersOf(g, u[e])) = NamesOf(MembersOf(f, e))
    <2>1. ASSUME NEW m \in MembersOf(f, e) PROVE name(u[m]) = name(m)
      <3>1. m \in DOMAIN f /\ m # Root /\ parent(m) = e
        BY OfMember
      <3> QED BY <1>2, <1>8, <3>1
    <2>2. MembersOf(g, u[e]) = {u[m] : m \in MembersOf(f, e)}
      BY <1>6, <1>8
    <2> QED BY <2>1, <2>2 DEF NamesOf
  <1>9. ASSUME d \in DOMAIN f, \A m \in MembersOf(f, d) : IsIndex(name(m))
        PROVE  u[d] = d /\ NamesOf(MembersOf(g, d)) = {h[x] : x \in NamesOf(MembersOf(f, d))}
    <2>1. Dot \in Nat /\ ~IsIndex(Dot)
      BY DEF Dot, IsIndex
    <2>2. ~Inside(s, s)
      BY OfInside, LenProperties
    <2>3. ~Inside(d, s)
      BY <2>1, <2>2, InsideAppend
    <2>4. u[d] = d
      BY <1>7, <1>9, <2>3 DEF Reindex
    <2>5. ASSUME NEW m \in MembersOf(f, d) PROVE name(u[m]) = h[name(m)]
      <3>1. m \in DOMAIN f /\ m # Root /\ parent(m) = d
        BY OfMember
      <3> QED BY <1>2, <1>9, <3>1
    <2>6. MembersOf(g, d) = {u[m] : m \in MembersOf(f, d)}
      BY <1>6, <1>9, <2>4
    <2> QED BY <2>4, <2>5, <2>6 DEF NamesOf
  <1> QED BY <1>6, <1>7, <1>8, <1>9

\* A change of a component and back.
LEMMA SetBack ==
  ASSUME NEW s \in Seq(Nat), NEW a \in 1 .. Len(s), NEW x \in Nat
  PROVE  SetAt(s, a, s[a]) = s /\ SetAt(SetAt(s, a, x), a, s[a]) = s
  <1> DEFINE r == SetAt(s, a, x)
             u == SetAt(s, a, s[a])
             v == SetAt(r, a, s[a])
  <1>1. s[a] \in Nat
    BY ElementOfSeq
  <1>2. r \in Seq(Nat) /\ Len(r) = Len(s) /\ \A i \in 1 .. Len(s) : i # a => r[i] = s[i]
    BY OfSetAt
  <1>3. u \in Seq(Nat) /\ Len(u) = Len(s) /\ u[a] = s[a] /\ \A i \in 1 .. Len(s) : i # a => u[i] = s[i]
    BY <1>1, OfSetAt
  <1> HIDE DEF r, u
  <1>4. v \in Seq(Nat) /\ Len(v) = Len(s) /\ v[a] = s[a] /\ \A i \in 1 .. Len(s) : i # a => v[i] = r[i]
    BY <1>1, <1>2, OfSetAt
  <1> HIDE DEF v
  <1>5. u = s
    BY <1>3, SeqEqual
  <1>6. v = s
    BY <1>2, <1>4, SeqEqual
  <1> QED BY <1>5, <1>6 DEF r, u, v

-----------------------------------------------------------------------------
\* remove.

\* What is left when whole subtrees go.
Closing(f, G) ==
  /\ G \subseteq DOMAIN f /\ Root \notin G
  /\ \A q \in DOMAIN f : q # Root /\ parent(q) \in G => q \in G

\* Without whole subtrees a tree is a tree, and directories lose just these members.
LEMMA Pruned ==
  ASSUME NEW f, Tree(f), NEW G, Closing(f, G)
  PROVE  LET r == Restrict(f, DOMAIN f \ G)
         IN /\ Tree(r) /\ DOMAIN r = DOMAIN f \ G /\ \A q \in DOMAIN r : r[q] = f[q]
            /\ \A d : MembersOf(r, d) = MembersOf(f, d) \ G
  <1> DEFINE r == Restrict(f, DOMAIN f \ G)
  <1>1. DOMAIN r = DOMAIN f \ G /\ \A q \in DOMAIN r : r[q] = f[q]
    BY DEF Restrict
  <1> HIDE DEF r
  <1>2. \A d : MembersOf(r, d) = MembersOf(f, d) \ G
    BY <1>1 DEF MembersOf
  <1>3. IsFiniteSet(DOMAIN r)
    BY <1>1, FS_Subset DEF Tree
  <1>4. ASSUME NEW q \in DOMAIN r PROVE parent(q) \in DOMAIN r
    <2>1. q \in DOMAIN f /\ parent(q) \in DOMAIN f /\ q \notin G
      BY <1>1 DEF Tree
    <2> QED BY <1>1, <2>1, OfRoot DEF Closing
  <1>5. Tree(r)
    BY <1>1, <1>3, <1>4 DEF Tree, Closing
  <1> QED BY <1>1, <1>2, <1>5 DEF r

\* What lies below a name goes with it.
LEMMA ClosingUnder ==
  ASSUME NEW f, Tree(f), NEW k \in Places, k # Root
  PROVE  Closing(f, Under(f, basePath(k)))
  <1> DEFINE b == basePath(k)
  <1>1. b \in Seq(Nat) /\ b # <<>>
    BY OfPlace
  <1>2. Len(b) \in Nat \ {0}
    BY OfParent
  <1>3. Root \notin Under(f, b)
    <2>1. <<>> \in Seq(Nat) /\ basePath(Root) = <<>>
      BY OfRoot
    <2>2. ~IsPrefix(b, <<>>)
      <3> HIDE DEF b
      <3>1. Len(<<>>) = 0 /\ ~(Len(b) <= 0)
        BY <1>2
      <3> QED BY <1>1, <2>1, <3>1, OfPrefix
    <2> QED BY <2>1, <2>2 DEF Under
  <1>4. ASSUME NEW q \in DOMAIN f, q # Root, parent(q) \in Under(f, b) PROVE q \in Under(f, b)
    <2>1. q \in Places /\ q # Root
      BY <1>4 DEF Tree
    <2>2. q # parent(q)
      BY <2>1, OfParent
    <2>3. q \in MembersOf(f, parent(q))
      BY <2>2 DEF MembersOf
    <2> QED BY <1>1, <1>4, <2>3, UnderMember
  <1>5. Under(f, b) \subseteq DOMAIN f
    BY DEF Under
  <1> QED BY <1>3, <1>4, <1>5 DEF Closing

\* A record below a name is that of the name or lies in a directory below it.
LEMMA UnderParent ==
  ASSUME NEW f, Tree(f), NEW b \in Seq(Nat), NEW q \in Under(f, b), basePath(q) # b
  PROVE  q # Root /\ parent(q) \in Under(f, b)
  <1>1. q \in DOMAIN f /\ q \in Places /\ IsPrefix(b, basePath(q)) /\ basePath(q) \in Seq(Nat)
    BY OfPlace DEF Under, Tree
  <1>2. basePath(q) # <<>> /\ IsPrefix(b, Front(basePath(q)))
    BY <1>1, PrefixOfFront
  <1>3. q # Root
    BY <1>2, OfRoot
  <1>4. basePath(parent(q)) = Front(basePath(q)) /\ parent(q) \in DOMAIN f
    BY <1>1, <1>3, OfParent DEF Tree
  <1> QED BY <1>2, <1>3, <1>4 DEF Under

\* Of the members that stay their directory has lost at most the record k.
LEMMA OtherMembers ==
  ASSUME NEW f, Tree(f), NEW k \in DOMAIN f, k # Root, NEW d \in DOMAIN f \ Under(f, basePath(k))
  PROVE  MembersOf(f, d) \cap Under(f, basePath(k)) = IF d = parent(k) THEN {k} ELSE {}
  <1> DEFINE b == basePath(k)
  <1>1. k \in Places /\ b \in Seq(Nat) /\ Len(b) \in Nat
    BY OfPlace, LenProperties DEF Tree
  <1>2. k \in Under(f, b)
    BY <1>1, OfPrefix DEF Under
  <1>3. ASSUME NEW m \in MembersOf(f, d), m \in Under(f, b) PROVE m = k
    <2>1. m \in DOMAIN f /\ parent(m) = d
      BY DEF MembersOf
    <2>2. basePath(m) = b
      BY <1>1, <1>3, <2>1, UnderParent
    <2> QED BY <2>1, <2>2, OneRecord
  <1>4. k \in MembersOf(f, parent(k))
    BY <1>1, OfParent DEF MembersOf
  <1>5. k \in MembersOf(f, d) => d = parent(k)
    BY DEF MembersOf
  <1> QED BY <1>2, <1>3, <1>4, <1>5

\* The members of a directory go.
LEMMA RemovedRange ==
  ASSUME Sound, NEW k \in Ranges, asDirectory(k) \in DOMAIN doc
  PROVE  Tree(Removed(doc, k)) /\ Dense(Removed(doc, k))
  <1> DEFINE h == asDirectory(k)
             b == basePath(k)
             G == Under(doc, b) \ {h}
             r == Restrict(doc, DOMAIN doc \ G)
  <1>1. Tree(doc) /\ Dense(doc) /\ IsWildcard(k) /\ h \in Places /\ k \in Seq(Nat) /\ k # <<>>
    BY DEF Sound, Ranges, IsWildcard
  <1>2. b = Front(k) /\ b \in Seq(Nat) /\ h = Append(b, Dot) /\ Dot \in Nat
    BY <1>1, OfFront DEF basePath, IsValue, asDirectory, Dot
  <1>3. IsDirectory(h) /\ basePath(h) = b /\ asDirectory(h) = h
    <2>1. h # <<>> /\ Last(h) = Dot /\ Front(h) = b
      BY <1>2, OfAppend
    <2>2. IsDirectory(h) /\ basePath(h) = b
      BY <2>1 DEF IsDirectory, basePath, IsValue
    <2> QED BY <1>1, <2>2, OfPlace
  <1>4. Removed(doc, k) = r
    <2>1. Below(k) = Below(h)
      BY <1>3 DEF Below
    <2>2. Below(h) \cup {h} = Under(doc, b) /\ h \notin Below(h)
      BY <1>1, <1>3, SubtreeUnder DEF Subtree, Below
    <2>3. Below(k) = G
      BY <2>1, <2>2
    <2> HIDE DEF G
    <2> QED BY <1>1, <2>3 DEF Removed
  <1>5. ASSUME NEW q \in Under(doc, b), q # h PROVE q # Root /\ parent(q) \in Under(doc, b)
    <2>1. basePath(q) # b
      BY <1>1, <1>3, <1>5, OneRecord DEF Under
    <2> QED BY <1>1, <1>2, <2>1, UnderParent
  <1>6. ASSUME NEW q \in DOMAIN doc, q # Root, parent(q) \in Under(doc, b)
        PROVE  q \in Under(doc, b) /\ q # h
    <2>1. q \in Places /\ q # parent(q)
      BY <1>1, <1>6, OfParent DEF Tree
    <2>2. q \in MembersOf(doc, parent(q))
      BY <2>1 DEF MembersOf
    <2>3. q \in Under(doc, b) /\ basePath(q) # b
      BY <1>1, <1>2, <1>6, <2>2, UnderMember
    <2> QED BY <1>3, <2>3
  <1>7. Closing(doc, G)
    <2>1. Root \notin G
      BY <1>5
    <2> QED BY <1>6, <2>1 DEF Closing, Under
  <1> HIDE DEF r, G
  <1>8. /\ Tree(r) /\ DOMAIN r = DOMAIN doc \ G /\ \A q \in DOMAIN r : r[q] = doc[q]
        /\ \A d : MembersOf(r, d) = MembersOf(doc, d) \ G
    BY <1>1, <1>7, Pruned DEF r
  <1>9. ASSUME NEW d \in DOMAIN r, r[d].t = "A" PROVE \E n \in Nat : Full(r, d, n)
    <2>1. CASE d = h
      <3>1. ASSUME NEW m \in MembersOf(doc, d) PROVE m \in G
        <4>1. m \in DOMAIN doc /\ m # Root /\ parent(m) = h
          BY <1>1, <2>1, OfMember
        <4>2. h \in Under(doc, b)
          BY <1>2, <1>3, OfPrefix, LenProperties DEF Under
        <4> QED BY <1>6, <4>1, <4>2 DEF G
      <3>2. NamesOf(MembersOf(r, d)) = 1 .. 0
        BY <1>8, <3>1 DEF NamesOf
      <3> QED BY <3>2 DEF Full
    <2>2. CASE d # h
      <3>1. ASSUME NEW m \in MembersOf(doc, d) PROVE m \notin G
        <4>1. m \in DOMAIN doc /\ m # Root /\ parent(m) = d
          BY <1>1, OfMember
        <4>2. d \notin Under(doc, b)
          BY <1>8, <2>2 DEF G
        <4> QED BY <1>5, <4>1, <4>2 DEF G
      <3>2. MembersOf(r, d) = MembersOf(doc, d)
        BY <1>8, <3>1
      <3>3. \E n \in Nat : Full(doc, d, n)
        BY <1>1, <1>8, <1>9, FullArrays
      <3> QED BY <3>2, <3>3 DEF Full
    <2> QED BY <2>1, <2>2
  <1>10. Dense(r)
    BY <1>8, <1>9, FullArrays
  <1> QED BY <1>4, <1>8, <1>10

\* The index on the way is one.
LEMMA InsideHere ==
  ASSUME NEW t \in Seq(Nat), NEW s \in Seq(Nat), Inside(t, s)
  PROVE  /\ Len(s) + 1 \in 1 .. Len(t)
         /\ t[Len(s) + 1] \in Indices /\ t[Len(s) + 1] \in Nat
  <1>1. Len(s) \in Nat /\ Len(t) \in Nat
    BY LenProperties
  <1>2. Len(t) > Len(s) /\ IsIndex(t[Len(s) + 1])
    BY OfInside
  <1> QED BY <1>1, <1>2 DEF IsIndex, Indices

\* With another index a path still goes through the array.
LEMMA InsideSet ==
  ASSUME NEW t \in Seq(Nat), NEW s \in Seq(Nat), Inside(t, s), NEW x \in Indices
  PROVE  LET r == SetAt(t, Len(s) + 1, x)
         IN /\ Len(s) + 1 \in 1 .. Len(t) /\ t[Len(s) + 1] \in Indices
            /\ r \in Seq(Nat) /\ Inside(r, s) /\ r[Len(s) + 1] = x
  <1> DEFINE a == Len(s) + 1
             r == SetAt(t, a, x)
  <1>1. Len(s) \in Nat /\ Len(t) \in Nat /\ x \in Nat /\ IsIndex(x)
    BY LenProperties DEF Indices, IsIndex
  <1>2. Len(t) > Len(s) /\ IsIndex(t[a]) /\ \A i \in 1 .. Len(s) : t[i] = s[i]
    BY OfInside
  <1>3. a \in 1 .. Len(t) /\ t[a] \in Indices
    BY <1>1, <1>2 DEF IsIndex, Indices
  <1>4. r \in Seq(Nat) /\ Len(r) = Len(t) /\ r[a] = x /\ \A i \in 1 .. Len(t) : i # a => r[i] = t[i]
    BY <1>1, <1>3, OfSetAt
  <1> HIDE DEF r
  <1>5. ASSUME NEW i \in 1 .. Len(s) PROVE r[i] = s[i]
    <2>1. i \in 1 .. Len(t) /\ i # a
      BY <1>1, <1>2
    <2> QED BY <1>2, <1>4, <2>1
  <1>6. Inside(r, s)
    BY <1>1, <1>2, <1>4, <1>5, OfInside
  <1> QED BY <1>3, <1>4, <1>6 DEF r

\* The elements behind x move up by one.
Lower(x) == [i \in Indices |-> IF i > x THEN i - 1 ELSE i]

\* Closing a gap gives the later elements other indices and nothing else.
LEMMA ClosedReindexes ==
  ASSUME NEW f, Tree(f), NEW d \in Places, IsDirectory(d), NEW k, name(k) \in Indices,
         \A q \in DOMAIN f : Inside(q, basePath(d)) => q[Len(basePath(d)) + 1] # name(k)
  PROVE  Reindexes(f, basePath(d), Lower(name(k)), Closed(f, d, k))
  <1> DEFINE s == basePath(d)
             at == Len(d)
             x == name(k)
             In(q) == Len(q) >= at /\ SubSeq(q, 1, at - 1) = Front(d) /\ IsIndex(q[at])
             Up(q) == IF In(q) /\ q[at] > x THEN [q EXCEPT ![at] = @ - 1] ELSE q
             Down(q) == IF In(q) /\ q[at] >= x THEN [q EXCEPT ![at] = @ + 1] ELSE q
             g == Closed(f, d, k)
             h == Lower(x)
  <1>1. g = [q \in {Up(t) : t \in DOMAIN f} |-> f[Down(q)]]
    BY DEF Closed
  <1>2. s \in Seq(Nat) /\ Front(d) = s /\ at = Len(s) + 1 /\ Len(s) \in Nat /\ x \in Nat
    <2>1. s \in Seq(Nat) /\ d = Append(s, Dot) /\ Dot \in Nat
      BY OfPlace DEF Dot
    <2> HIDE DEF s
    <2>2. Front(d) = s /\ Len(d) = Len(s) + 1 /\ Len(s) \in Nat
      BY <2>1, OfAppend
    <2> QED BY <2>1, <2>2 DEF Indices
  <1>3. \A q : In(q) <=> Inside(q, s)
    <2>1. at - 1 = Len(s)
      BY <1>2
    <2> QED BY <1>2, <2>1 DEF Inside
  <1> HIDE DEF s, at, In, g
  <1>4. h \in [Indices -> Indices]
    <2>1. ASSUME NEW i \in Indices, i > x PROVE i - 1 \in Indices
      BY <1>2, <2>1, PathAssumption DEF Indices
    <2> QED BY <2>1 DEF Lower
  <1>5. ASSUME NEW q \in DOMAIN f
        PROVE  Up(q) = Reindex(q, s, h) /\ Down(Up(q)) = q
    <2>1. q \in Places /\ q \in Seq(Nat)
      BY OfPlace DEF Tree
    <2>2. CASE ~Inside(q, s)
      BY <1>3, <2>2 DEF Reindex
    <2>3. CASE Inside(q, s)
      <3>1. at \in 1 .. Len(q) /\ q[at] \in Indices /\ q[at] # x /\ x \in Indices
        BY <1>2, <2>1, <2>3, InsideSet DEF s
      <3>2. q[at] \in Nat /\ (q[at] > x \/ q[at] < x)
        BY <1>2, <3>1 DEF Indices
      <3>3. Reindex(q, s, h) = SetAt(q, at, h[q[at]])
        BY <1>2, <2>3 DEF Reindex
      <3>4. CASE q[at] > x
        <4> DEFINE y == q[at] - 1
                   r == SetAt(q, at, y)
        <4>1. h[q[at]] = y /\ y \in Indices /\ y >= x /\ y + 1 = q[at] /\ y \in Nat
          BY <1>2, <1>4, <3>1, <3>2, <3>4 DEF Lower, Indices
        <4>2. Up(q) = r
          BY <1>3, <2>3, <3>4 DEF SetAt
        <4>3. SetAt(r, at, q[at]) = q
          BY <2>1, <3>1, <4>1, SetBack
        <4> HIDE DEF y, r
        <4>4. r \in Seq(Nat) /\ Inside(r, s) /\ r[at] = y
          BY <1>2, <2>1, <2>3, <4>1, InsideSet DEF r
        <4>5. Down(r) = SetAt(r, at, r[at] + 1)
          BY <1>3, <4>1, <4>4 DEF SetAt
        <4> HIDE DEF Up, Down, h
        <4> QED BY <3>3, <4>1, <4>2, <4>3, <4>4, <4>5 DEF r
      <3>5. CASE q[at] < x
        <4>1. ~(q[at] > x) /\ ~(q[at] >= x)
          BY <1>2, <3>2, <3>5
        <4>2. h[q[at]] = q[at]
          BY <3>1, <4>1 DEF Lower
        <4>3. SetAt(q, at, q[at]) = q
          BY <2>1, <3>1, <3>2, SetBack
        <4> QED BY <3>3, <4>1, <4>2, <4>3
      <3> QED BY <3>2, <3>4, <3>5
    <2> QED BY <2>2, <2>3
  <1>6. DOMAIN g = {Reindex(q, s, h) : q \in DOMAIN f}
    <2>1. DOMAIN g = {Up(t) : t \in DOMAIN f}
      BY <1>1
    <2> HIDE DEF Up, h
    <2> QED BY <1>5, <2>1
  <1>7. ASSUME NEW q \in DOMAIN f PROVE g[Reindex(q, s, h)].t = f[q].t
    <2> HIDE DEF Up, Down, h
    <2>1. Up(q) \in {Up(t) : t \in DOMAIN f}
      OBVIOUS
    <2>2. g[Up(q)] = f[Down(Up(q))]
      BY <1>1, <2>1
    <2> QED BY <1>5, <2>2
  <1>8. ASSUME NEW p \in DOMAIN f, NEW q \in DOMAIN f, Inside(p, s), Inside(q, s), h[p[at]] = h[q[at]]
        PROVE  p[at] = q[at]
    <2>1. p \in Seq(Nat) /\ q \in Seq(Nat)
      BY OfPlace DEF Tree
    <2>2. p[at] \in Indices /\ q[at] \in Indices /\ p[at] # x /\ q[at] # x
      BY <1>2, <1>8, <2>1, InsideSet DEF s
    <2>3. \A i, j \in Indices : i # x /\ j # x /\ h[i] = h[j] => i = j
      <3>1. ASSUME NEW i \in Indices, NEW j \in Indices, i # x, j # x,
                   (IF i > x THEN i - 1 ELSE i) = IF j > x THEN j - 1 ELSE j
            PROVE  i = j
        BY <1>2, <3>1 DEF Indices
      <3> QED BY <3>1 DEF Lower
    <2> HIDE DEF h, x
    <2> QED BY <1>8, <2>2, <2>3
  <1> HIDE DEF h
  <1>9. Reindexes(f, s, h, g)
    BY <1>2, <1>4, <1>6, <1>7, <1>8 DEF Reindexes
  <1> QED BY <1>9 DEF s, h, g

\* A record goes with what is below it; in an array the others close the gap.
LEMMA RemovedSound ==
  ASSUME Tree(doc), NEW f, Tree(f), Dense(f), Kept(doc, f),
         NEW k \in DOMAIN doc, k # Root, Subtree(k) = Under(f, basePath(k))
  PROVE  Tree(Removed(f, k)) /\ Dense(Removed(f, k))
  <1> DEFINE b == basePath(k)
             d == parent(k)
             x == name(k)
             G == Under(f, b)
             r == Restrict(f, DOMAIN f \ G)
             n == Cardinality(MembersOf(f, d))
  <1>1. /\ k \in DOMAIN f /\ k \in Places /\ b \in Seq(Nat) /\ ~IsWildcard(k) /\ d \in DOMAIN f
        /\ b = Append(basePath(d), x) /\ IsDirectory(d) /\ d \in Places /\ d # k /\ basePath(d) = Front(b)
        /\ basePath(d) \in Seq(Nat) /\ x \in Nat
    BY OfPlace, OfParent DEF Tree, Kept
  <1>2. Removed(f, k) = IF IsArray(d) THEN Closed(r, d, k) ELSE r
    BY <1>1 DEF Removed
  <1>3. /\ Tree(r) /\ DOMAIN r = DOMAIN f \ G /\ \A q \in DOMAIN r : r[q] = f[q]
        /\ \A e : MembersOf(r, e) = MembersOf(f, e) \ G
    BY <1>1, ClosingUnder, Pruned
  <1>4. d \in DOMAIN r /\ d = Append(basePath(d), Dot)
    <2>1. Len(b) = Len(basePath(d)) + 1 /\ Len(basePath(d)) \in Nat
      BY <1>1, OfAppend
    <2>2. ~IsPrefix(b, basePath(d))
      <3> HIDE DEF b
      <3>1. ~(Len(b) <= Len(basePath(d)))
        BY <2>1
      <3> QED BY <1>1, <3>1, OfPrefix
    <2> QED BY <1>1, <1>3, <2>2, OfPlace DEF Under
  <1>5. ASSUME NEW e \in DOMAIN r
        PROVE  MembersOf(r, e) = IF e = d THEN MembersOf(f, e) \ {k} ELSE MembersOf(f, e)
    <2>1. e \in DOMAIN f \ G
      BY <1>3
    <2>2. MembersOf(f, e) \cap G = IF e = d THEN {k} ELSE {}
      BY <1>1, <2>1, OtherMembers
    <2> HIDE DEF G
    <2> QED BY <1>3, <2>2
  <1>6. IsArray(d) <=> f[d].t = "A"
    BY <1>1 DEF IsArray, Kept, Tree
  <1>7. ASSUME NEW e \in DOMAIN r, e # d, r[e].t = "A" PROVE \E i \in Nat : Full(r, e, i)
    <2>1. e \in DOMAIN f /\ f[e].t = "A" /\ MembersOf(r, e) = MembersOf(f, e)
      BY <1>3, <1>5, <1>7
    <2>2. \E i \in Nat : Full(f, e, i)
      BY <2>1, FullArrays
    <2> QED BY <2>1, <2>2 DEF Full
  <1> HIDE DEF r, G
  <1>8. CASE ~IsArray(d)
    <2>1. ASSUME NEW e \in DOMAIN r, r[e].t = "A" PROVE e # d
      BY <1>3, <1>6, <1>8, <2>1
    <2>2. Dense(r)
      BY <1>3, <1>7, <2>1, FullArrays
    <2> QED BY <1>2, <1>3, <1>8, <2>2
  <1>9. CASE IsArray(d)
    <2> DEFINE s == basePath(d)
               h == Lower(x)
               g == Closed(r, d, k)
    <2>1. Full(f, d, n) /\ n \in Nat
      BY <1>1, <1>6, <1>9, FullArrays, Finite
    <2>2. k \in MembersOf(f, d)
      BY <1>1 DEF MembersOf
    <2>3. NamesOf(MembersOf(f, d)) = 1 .. n /\ x \in 1 .. n
      BY <2>1, <2>2 DEF Full, NamesOf
    <2>4. NamesOf(MembersOf(r, d)) = (1 .. n) \ {x}
      <3>1. MembersOf(r, d) = MembersOf(f, d) \ {k}
        BY <1>4, <1>5
      <3>2. \A m \in MembersOf(f, d) : name(m) = x => m = k
        BY <2>2, OneMember
      <3> HIDE DEF x
      <3>3. x = name(k)
        BY DEF x
      <3> QED BY <2>2, <2>3, <3>1, <3>2, <3>3 DEF NamesOf
    <2>5. 1 .. n \subseteq Indices
      <3>1. Star \notin NamesOf(MembersOf(f, d))
        BY OfMember DEF NamesOf
      <3> QED BY <2>1, <2>3, <3>1, PathAssumption DEF Indices
    <2>6. ASSUME NEW q \in DOMAIN r, Inside(q, s), q[Len(s) + 1] = x PROVE FALSE
      <3>1. q \in Places /\ q \in DOMAIN f /\ q \notin G
        BY <1>3 DEF Tree
      <3> DEFINE c == basePath(q)
      <3>2. c \in Seq(Nat) /\ Inside(c, s) /\ c[Len(s) + 1] = x /\ Len(s) + 1 \in 1 .. Len(c)
        BY <1>1, <2>6, <3>1, InsideBase, OfPlace
      <3> HIDE DEF c
      <3>3. \A i \in 1 .. Len(s) : c[i] = s[i]
        BY <1>1, <3>2, OfInside
      <3>4. /\ Len(s) \in Nat /\ Len(b) = Len(s) + 1 /\ b[Len(s) + 1] = x
            /\ \A i \in 1 .. Len(s) : b[i] = s[i]
        <4> HIDE DEF s, b, x
        <4>1. s \in Seq(Nat) /\ x \in Nat /\ b = Append(s, x)
          BY <1>1 DEF s
        <4> QED BY <4>1, OfAppend
      <3>5. Len(b) <= Len(c)
        BY <3>2, <3>4
      <3>6. ASSUME NEW i \in 1 .. Len(b) PROVE b[i] = c[i]
        <4>1. i = Len(s) + 1 \/ i \in 1 .. Len(s)
          BY <3>4
        <4> QED BY <3>2, <3>3, <3>4, <4>1
      <3>7. IsPrefix(b, c)
        BY <1>1, <3>2, <3>5, <3>6, OfPrefix
      <3> QED BY <3>1, <3>7 DEF G, Under, c
    <2>7. Reindexes(r, s, h, g)
      <3>1. name(k) \in Indices
        BY <2>3, <2>5
      <3> QED BY <1>1, <1>3, <2>6, <3>1, ClosedReindexes
    <2>8. \A m \in MembersOf(r, d) : IsIndex(name(m))
      BY <2>4, <2>5 DEF NamesOf, IsIndex, Indices
    <2>9. {h[i] : i \in (1 .. n) \ {x}} = 1 .. n - 1
      <3>1. ASSUME NEW i \in (1 .. n) \ {x} PROVE h[i] \in 1 .. n - 1
        <4>1. h[i] = IF i > x THEN i - 1 ELSE i
          BY <2>5 DEF Lower
        <4> QED BY <2>1, <2>3, <4>1
      <3>2. ASSUME NEW j \in 1 .. n - 1 PROVE \E i \in (1 .. n) \ {x} : h[i] = j
        <4>1. CASE j < x
          <5>1. j \in (1 .. n) \ {x} /\ ~(j > x)
            BY <2>1, <2>3, <4>1
          <5>2. h[j] = j
            BY <2>5, <5>1 DEF Lower
          <5> QED BY <5>1, <5>2
        <4>2. CASE j >= x
          <5>1. j + 1 \in (1 .. n) \ {x} /\ j + 1 > x /\ j + 1 - 1 = j
            BY <2>1, <2>3, <4>2
          <5>2. h[j + 1] = j
            BY <2>5, <5>1 DEF Lower
          <5> QED BY <5>1, <5>2
        <4> QED BY <2>3, <4>1, <4>2
      <3> HIDE DEF h, x
      <3> QED BY <3>1, <3>2
    <2> HIDE DEF g, h, s, x, n
    <2>10. /\ Tree(g)
           /\ \A e \in DOMAIN r \ {d} :
                NamesOf(MembersOf(g, Reindex(e, s, h))) = NamesOf(MembersOf(r, e))
           /\ Reindex(d, s, h) = d /\ NamesOf(MembersOf(g, d)) = {h[i] : i \in NamesOf(MembersOf(r, d))}
      <3>1. s \in Seq(Nat) /\ d = Append(s, Dot)
        BY <1>1, <1>4 DEF s
      <3> HIDE DEF d
      <3> QED BY <1>3, <1>4, <2>7, <2>8, <3>1, ReindexedTree
    <2>11. Full(g, d, n - 1)
      <3>1. n - 1 \in Nat
        BY <2>1, <2>3
      <3> QED BY <2>4, <2>9, <2>10, <3>1 DEF Full
    <2>12. ASSUME NEW y \in DOMAIN g, g[y].t = "A" PROVE \E i \in Nat : Full(g, y, i)
      <3>1. PICK e \in DOMAIN r : y = Reindex(e, s, h) /\ g[y].t = r[e].t
        BY <2>7 DEF Reindexes
      <3>2. CASE e = d
        BY <2>10, <2>11, <3>1, <3>2 DEF Full
      <3>3. CASE e # d
        <4>1. PICK i \in Nat : Full(r, e, i)
          BY <1>7, <2>12, <3>1, <3>3
        <4>2. Full(g, y, i)
          BY <2>10, <3>1, <3>3, <4>1 DEF Full
        <4> QED BY <4>2
      <3> QED BY <3>2, <3>3
    <2>13. Dense(g)
      BY <2>10, <2>12, FullArrays
    <2> QED BY <1>2, <1>9, <2>10, <2>13 DEF g
  <1> QED BY <1>8, <1>9

\* remove, of one record or of the members of a directory.
LEMMA RemoveSound ==
  ASSUME Sound, NEW c, Fits(c), Accepts(c), c.op = "remove"
  PROVE  Tree(Effect(c)) /\ Dense(Effect(c))
  <1>1. c.at \in (Places \cup Ranges) \ {Root} /\ Home(c.at) \in DOMAIN doc /\ Effect(c) = Removed(doc, c.at)
    BY DEF Fits, Accepts, Effect
  <1>2. CASE c.at \in Ranges
    <2>1. asDirectory(c.at) \in DOMAIN doc
      BY <1>1, <1>2 DEF Home, Ranges
    <2> QED BY <1>1, <1>2, <2>1, RemovedRange
  <1>3. CASE c.at \in Places
    <2>1. c.at \in DOMAIN doc /\ c.at # Root
      BY <1>1, <1>3, OfPlace DEF Home
    <2>2. Tree(doc) /\ Dense(doc) /\ Kept(doc, doc)
      BY DEF Sound, Kept
    <2>3. Subtree(c.at) = Under(doc, basePath(c.at))
      BY <2>1, <2>2, SubtreeUnder
    <2> QED BY <1>1, <2>1, <2>2, <2>3, RemovedSound
  <1> QED BY <1>1, <1>2, <1>3

-----------------------------------------------------------------------------
\* move.

\* Of two prefixes the shorter is a prefix of the longer.
LEMMA PrefixesNest ==
  ASSUME NEW s \in Seq(Nat), NEW t \in Seq(Nat), NEW u \in Seq(Nat),
         IsPrefix(s, u), IsPrefix(t, u)
  PROVE  IsPrefix(s, t) \/ IsPrefix(t, s)
  <1>1. Len(s) \in Nat /\ Len(t) \in Nat
    BY LenProperties
  <1>2. (\A i \in 1 .. Len(s) : s[i] = u[i]) /\ (\A i \in 1 .. Len(t) : t[i] = u[i])
    BY OfPrefix
  <1>3. CASE Len(s) <= Len(t)
    <2>1. \A i \in 1 .. Len(s) : i \in 1 .. Len(t)
      BY <1>1, <1>3
    <2>2. \A i \in 1 .. Len(s) : s[i] = t[i]
      BY <1>2, <2>1
    <2> QED BY <1>3, <2>2, OfPrefix
  <1>4. CASE Len(t) <= Len(s)
    <2>1. \A i \in 1 .. Len(t) : i \in 1 .. Len(s)
      BY <1>1, <1>4
    <2>2. \A i \in 1 .. Len(t) : t[i] = s[i]
      BY <1>2, <2>1
    <2> QED BY <1>4, <2>2, OfPrefix
  <1> QED BY <1>1, <1>3, <1>4

\* A copy that is not made below its original does not go with it.
LEMMA CopyApart ==
  ASSUME Tree(doc), NEW k \in DOMAIN doc, NEW d, Fresh(doc, d), IsDirectory(k), IsDirectory(d),
         ~above(k, d)
  PROVE  Under(Copied(k, d), basePath(k)) = Under(doc, basePath(k)) /\ k # Root
  <1> DEFINE a == basePath(k)
             b == basePath(d)
             nw == [m \in {k} |-> d]
             g == Copied(k, d)
  <1>1. k \in Places /\ d \in Places /\ d # Root
    BY DEF Tree, Fresh
  <1>2. /\ a \in Seq(Nat) /\ b \in Seq(Nat) /\ b \in Names
        /\ k = Append(a, Dot) /\ d = Append(b, Dot) /\ Dot \in Nat
    BY <1>1, OfPlace DEF Dot
  <1>3. Imports(doc, parent(d), {k}, nw, g)
    BY CopiedImports
  <1>4. Under(doc, b) = {}
    BY NothingUnder
  <1>5. ~IsPrefix(a, b)
    <2> SUFFICES ASSUME IsPrefix(a, b) PROVE FALSE
      OBVIOUS
    <2> HIDE DEF a, b
    <2>1. Front(k) = a /\ Len(k) = Len(a) + 1 /\ Len(d) = Len(b) + 1
      BY <1>2, OfAppend
    <2>2. IsPrefix(a, d)
      BY <1>2, PrefixOfAppend
    <2>3. Len(a) <= Len(b) /\ Len(a) \in Nat /\ Len(b) \in Nat
      BY <1>2, OfPrefix, LenProperties
    <2>4. Len(d) >= Len(k)
      BY <2>1, <2>3
    <2> QED BY <2>1, <2>2, <2>4 DEF above
  <1>6. ~IsPrefix(b, a)
    BY <1>4 DEF Under
  <1>7. ASSUME NEW y \in DOMAIN g \ DOMAIN doc PROVE ~IsPrefix(a, basePath(y))
    <2>1. PICK q \in Under(doc, a) : y = Copy(q, k, nw)
      BY <1>3, <1>7 DEF Imports
    <2>2. y = Moved(q, a, b)
      BY <2>1 DEF Copy
    <2>3. q \in Places /\ IsPrefix(a, basePath(q))
      BY DEF Under, Tree
    <2> HIDE DEF a, b, g
    <2>4. IsPrefix(b, basePath(y)) /\ y \in Places
      BY <1>2, <2>2, <2>3, MovedPlace
    <2>5. basePath(y) \in Seq(Nat)
      BY <2>4, OfPlace
    <2> QED BY <1>2, <1>5, <1>6, <2>4, <2>5, PrefixesNest
  <1>8. DOMAIN doc \subseteq DOMAIN g
    BY <1>3 DEF Imports, Kept
  <1>9. k # Root
    <2>1. IsPrefix(<<>>, b)
      <3>1. <<>> \in Seq(Nat) /\ Len(<<>>) = 0 /\ Len(b) \in Nat
        BY <1>2, LenProperties, OfRoot
      <3>2. Len(<<>>) <= Len(b) /\ \A i \in 1 .. Len(<<>>) : <<>>[i] = b[i]
        BY <3>1
      <3> HIDE DEF b
      <3> QED BY <1>2, <3>1, <3>2, OfPrefix
    <2> QED BY <1>5, <2>1, OfRoot
  <1> QED BY <1>7, <1>8, <1>9 DEF Under

\* A directory takes another name, a value takes the place of another.
LEMMA MoveSound ==
  ASSUME Sound, NEW c, Fits(c), Accepts(c), c.op = "move"
  PROVE  Tree(Effect(c)) /\ Dense(Effect(c))
  <1> DEFINE k == c.from
             d == c.at
  <1>1. /\ k \in Places /\ d \in Places
        /\ IF IsDirectory(k) THEN IsDirectory(d) /\ ~above(k, d) ELSE IsValue(d)
    BY DEF Fits
  <1>2. k \in DOMAIN doc /\ IF IsDirectory(k) THEN InPlace(d) /\ Free(d) ELSE d \in DOMAIN doc
    BY DEF Accepts
  <1>3. Tree(doc) /\ Dense(doc) /\ Subtree(k) = Under(doc, basePath(k))
    BY <1>2, SubtreeUnder DEF Sound
  <1>4. CASE IsDirectory(k)
    <2> DEFINE f == Copied(k, d)
    <2>1. Effect(c) = Removed(f, k)
      BY <1>4 DEF Effect
    <2>2. Fresh(doc, d)
      <3>1. d # Root
        BY <1>2, <1>3, <1>4, OfRoot DEF Free, Tree
      <3> QED BY <1>1, <1>2, <1>4, <3>1 DEF Fresh, InPlace, Free
    <2>3. Tree(f) /\ Dense(f)
      BY <1>2, <1>4, <2>2, CopiedSound
    <2>4. Under(f, basePath(k)) = Under(doc, basePath(k)) /\ k # Root
      BY <1>1, <1>2, <1>3, <1>4, <2>2, CopyApart
    <2>5. Kept(doc, f)
      BY <1>2, <1>3, <2>2, CopiedImports DEF Imports
    <2> HIDE DEF f
    <2> QED BY <1>2, <1>3, <2>1, <2>3, <2>4, <2>5, RemovedSound
  <1>5. CASE ~IsDirectory(k)
    <2> DEFINE f == Put(doc, d, doc[k])
    <2>1. Effect(c) = Removed(f, k)
      BY <1>5 DEF Effect
    <2>2. d \in DOMAIN doc /\ ~IsDirectory(d) /\ k # Root
      BY <1>1, <1>2, <1>5, OfPlace, OfRoot
    <2>3. doc[k].t = doc[d].t
      BY <1>2, <1>3, <1>5, <2>2 DEF Tree
    <2>4. Tree(f) /\ Dense(f)
      BY <2>2, <2>3, PutOver
    <2>5. DOMAIN f = DOMAIN doc /\ Kept(doc, f)
      BY <2>2, <2>3 DEF Put, Kept
    <2>6. Under(f, basePath(k)) = Under(doc, basePath(k))
      BY <2>5 DEF Under
    <2> HIDE DEF f
    <2> QED BY <1>2, <1>3, <2>1, <2>2, <2>4, <2>5, <2>6, RemovedSound
  <1> QED BY <1>4, <1>5

-----------------------------------------------------------------------------
\* shift.

\* The index that element x had before the shift, and that x gets by it.
Was(from, to, x) ==
  IF x = to THEN from
  ELSE IF x > to /\ x <= from THEN x - 1 ELSE IF x >= from /\ x < to THEN x + 1 ELSE x
Becomes(from, to) ==
  [x \in Indices |->
     IF x = from THEN to
     ELSE IF x >= to /\ x < from THEN x + 1 ELSE IF x > from /\ x <= to THEN x - 1 ELSE x]

\* The two are inverse to each other and leave alone what is not an element.
LEMMA ShiftedIndex ==
  ASSUME NEW n \in Nat, NEW from \in 1 .. n, NEW to \in 1 .. n, n < Star, NEW x \in Indices
  PROVE  LET h == Becomes(from, to)
         IN /\ h[x] \in Indices /\ Was(from, to, x) \in Indices
            /\ Was(from, to, h[x]) = x /\ h[Was(from, to, x)] = x
            /\ x \in 1 .. n => h[x] \in 1 .. n /\ Was(from, to, x) \in 1 .. n
            /\ x \notin 1 .. n => h[x] = x
  <1> DEFINE h == Becomes(from, to)
             B(i) == IF i = from THEN to
                     ELSE IF i >= to /\ i < from THEN i + 1 ELSE IF i > from /\ i <= to THEN i - 1 ELSE i
  <1>1. \A i \in Indices : h[i] = B(i)
    BY DEF Becomes
  <1>2. Star \in Nat /\ x \in Nat /\ 1 <= x /\ x <= Star - 1 /\ \A i \in Int : i \in Indices <=> 1 <= i /\ i <= Star - 1
    BY PathAssumption DEF Indices
  <1>3. from \in Nat /\ to \in Nat /\ 1 <= from /\ from <= n /\ 1 <= to /\ to <= n
    OBVIOUS
  <1>4. B(x) \in Indices /\ (x \in 1 .. n => B(x) \in 1 .. n) /\ (x \notin 1 .. n => B(x) = x)
    BY <1>2, <1>3
  <1>5. Was(from, to, x) \in Indices /\ (x \in 1 .. n => Was(from, to, x) \in 1 .. n)
    BY <1>2, <1>3 DEF Was
  <1>6. Was(from, to, B(x)) = x
    BY <1>2, <1>3 DEF Was
  <1>7. B(Was(from, to, x)) = x
    BY <1>2, <1>3 DEF Was
  <1> HIDE DEF B
  <1> QED BY <1>1, <1>4, <1>5, <1>6, <1>7

\* A shift gives the elements other indices and nothing else.
LEMMA ShiftedReindexes ==
  ASSUME Tree(doc), NEW d \in DOMAIN doc, NEW k \in MembersOf(doc, d), NEW m \in MembersOf(doc, d),
         NEW n \in Nat, Full(doc, d, n), n < Star
  PROVE  Reindexes(doc, basePath(d), Becomes(name(k), name(m)), Shifted(k, m))
  <1> DEFINE s == basePath(d)
             at == Len(basePath(k))
             from == name(k)
             to == name(m)
             In(q) == Len(q) >= at /\ SubSeq(q, 1, at - 1) = Front(basePath(k)) /\ IsIndex(q[at])
             OldPath(q) == IF In(q) THEN [q EXCEPT ![at] = Was(from, to, @)] ELSE q
             C(q) == {q} \cup {[q EXCEPT ![at] = Index(i)] : i \in 0 .. Cardinality(DOMAIN doc)}
             New1(q) == CHOOSE r \in C(q) : OldPath(r) = q
             To(q) == IF In(q) THEN New1(q) ELSE q
             g == Shifted(k, m)
             h == Becomes(from, to)
  <1>1. g = [q \in {To(r) : r \in DOMAIN doc} |-> doc[OldPath(q)]]
    BY DEF Shifted, Was
  <1>2. /\ s \in Seq(Nat) /\ Len(s) \in Nat /\ at = Len(s) + 1 /\ Front(basePath(k)) = s
        /\ from \in 1 .. n /\ to \in 1 .. n
    <2>1. d \in Places /\ basePath(k) = Append(s, from) /\ from \in Nat /\ Front(basePath(k)) = s
      BY OfMember
    <2>2. s \in Seq(Nat)
      BY <2>1, OfPlace
    <2>3. Len(basePath(k)) = Len(s) + 1 /\ Len(s) \in Nat
      <3> HIDE DEF s, from
      <3> QED BY <2>1, <2>2, OfAppend
    <2>4. from \in 1 .. n /\ to \in 1 .. n
      BY DEF Full, NamesOf
    <2> QED BY <2>1, <2>2, <2>3, <2>4
  <1>3. \A q : In(q) <=> Inside(q, s)
    <2>1. at - 1 = Len(s)
      BY <1>2
    <2> QED BY <1>2, <2>1 DEF Inside
  <1>4. n <= Cardinality(DOMAIN doc) /\ Cardinality(DOMAIN doc) \in Nat
    <2>1. Cardinality(MembersOf(doc, d)) = n
      BY Counted
    <2>2. MembersOf(doc, d) \subseteq DOMAIN doc /\ IsFiniteSet(DOMAIN doc)
      BY DEF MembersOf, Tree
    <2> QED BY <2>1, <2>2, FS_Subset, FS_CardinalityType
  <1>5. \A q : OldPath(q) = IF Inside(q, s) THEN SetAt(q, at, Was(from, to, q[at])) ELSE q
    BY <1>3 DEF SetAt
  <1>6. \A q : C(q) = {q} \cup {SetAt(q, at, Index(i)) : i \in 0 .. Cardinality(DOMAIN doc)}
    BY DEF SetAt
  <1>7. h \in [Indices -> Indices]
    <2>1. ASSUME NEW x \in Indices PROVE h[x] \in Indices
      BY <1>2, ShiftedIndex
    <2> QED BY <2>1 DEF Becomes
  <1> HIDE DEF s, at, In, g, OldPath, C
  <1>8. ASSUME NEW r \in Seq(Nat), Inside(r, s)
        PROVE  New1(r) = SetAt(r, at, h[r[at]]) /\ OldPath(New1(r)) = r
    <2> DEFINE y == r[at]
               w == SetAt(r, at, h[y])
    <2>1. at \in 1 .. Len(r) /\ y \in Indices /\ y \in Nat
      BY <1>2, <1>8, InsideHere
    <2>2. h[y] \in Indices /\ Was(from, to, h[y]) = y /\ (y \notin 1 .. n => h[y] = y)
          /\ (y \in 1 .. n => h[y] \in 1 .. n)
      BY <1>2, <2>1, ShiftedIndex
    <2>3. w \in Seq(Nat) /\ Inside(w, s) /\ w[at] = h[y]
      <3> DEFINE x == h[y]
      <3> HIDE DEF x
      <3>1. x \in Indices
        BY <2>2 DEF x
      <3>2. LET v == SetAt(r, at, x) IN v \in Seq(Nat) /\ Inside(v, s) /\ v[at] = x
        BY <1>2, <1>8, <3>1, InsideSet
      <3> QED BY <3>2 DEF x
    <2>4. w \in C(r)
      <3>1. CASE y \in 1 .. n
        <4>1. h[y] - 1 \in 0 .. Cardinality(DOMAIN doc) /\ Index(h[y] - 1) = h[y]
          BY <1>4, <2>2, <3>1 DEF Index
        <4> QED BY <1>6, <4>1
      <3>2. CASE y \notin 1 .. n
        <4>1. w = r
          BY <2>1, <2>2, <3>2, SetBack
        <4> QED BY <1>6, <4>1
      <3> QED BY <3>1, <3>2
    <2>5. OldPath(w) = r
      <3>1. SetAt(SetAt(r, at, h[y]), at, y) = r
        <4>1. h[y] \in Nat
          BY <2>2 DEF Indices
        <4> HIDE DEF h
        <4> QED BY <2>1, <4>1, SetBack
      <3>2. OldPath(w) = SetAt(w, at, Was(from, to, w[at]))
        BY <1>5, <2>3
      <3> QED BY <2>2, <2>3, <3>1, <3>2
    <2>6. ASSUME NEW v \in C(r), OldPath(v) = r PROVE v = w
      <3>1. Inside(v, s)
        BY <1>5, <1>8, <2>6
      <3>2. \E x \in Nat : v = SetAt(r, at, x)
        <4>1. CASE v = r
          BY <2>1, <4>1, SetBack
        <4>2. CASE v # r
          <5>1. PICK i \in 0 .. Cardinality(DOMAIN doc) : v = SetAt(r, at, Index(i))
            BY <1>6, <2>6, <4>2
          <5>2. Index(i) \in Nat
            BY <1>4 DEF Index
          <5> QED BY <5>1, <5>2
        <4> QED BY <4>1, <4>2
      <3>3. PICK x \in Nat : v = SetAt(r, at, x)
        BY <3>2
      <3>4. v \in Seq(Nat) /\ v[at] = x /\ Len(v) = Len(r)
        BY <2>1, <3>3, OfSetAt
      <3>5. x \in Indices
        BY <1>2, <3>1, <3>4, InsideHere
      <3>6. SetAt(v, at, Was(from, to, x)) = r
        BY <1>5, <2>6, <3>1, <3>4
      <3>7. Was(from, to, x) \in Indices /\ h[Was(from, to, x)] = x
        BY <1>2, <3>5, ShiftedIndex
      <3>8. SetAt(v, at, Was(from, to, x))[at] = Was(from, to, x)
        <4>1. Was(from, to, x) \in Nat /\ at \in 1 .. Len(v)
          BY <2>1, <3>4, <3>7 DEF Indices
        <4> QED BY <3>4, <4>1, OfSetAt
      <3>9. h[y] = x
        BY <3>6, <3>7, <3>8
      <3> QED BY <3>3, <3>9
    <2> HIDE DEF w
    <2>7. New1(r) = w
      BY <2>4, <2>5, <2>6
    <2> QED BY <2>5, <2>7 DEF w
  <1>9. ASSUME NEW q \in DOMAIN doc PROVE To(q) = Reindex(q, s, h) /\ OldPath(To(q)) = q
    <2>1. q \in Seq(Nat)
      BY OfPlace DEF Tree
    <2>2. CASE Inside(q, s)
      BY <1>2, <1>3, <1>8, <2>1, <2>2 DEF Reindex
    <2>3. CASE ~Inside(q, s)
      BY <1>3, <1>5, <2>3 DEF Reindex
    <2> QED BY <2>2, <2>3
  <1> HIDE DEF To, h
  <1>10. DOMAIN g = {Reindex(q, s, h) : q \in DOMAIN doc}
    BY <1>1, <1>9
  <1>11. ASSUME NEW q \in DOMAIN doc PROVE g[Reindex(q, s, h)].t = doc[q].t
    <2>1. To(q) \in {To(r) : r \in DOMAIN doc}
      OBVIOUS
    <2>2. g[To(q)] = doc[OldPath(To(q))]
      BY <1>1, <2>1
    <2> QED BY <1>9, <2>2
  <1>12. ASSUME NEW p \in DOMAIN doc, NEW q \in DOMAIN doc, Inside(p, s), Inside(q, s), h[p[at]] = h[q[at]]
         PROVE  p[at] = q[at]
    <2>1. p \in Seq(Nat) /\ q \in Seq(Nat)
      BY OfPlace DEF Tree
    <2>2. p[at] \in Indices /\ q[at] \in Indices
      BY <1>2, <1>12, <2>1, InsideHere
    <2>3. Was(from, to, h[p[at]]) = p[at] /\ Was(from, to, h[q[at]]) = q[at]
      BY <1>2, <2>2, ShiftedIndex DEF h
    <2> QED BY <1>12, <2>3
  <1>13. Reindexes(doc, s, h, g)
    BY <1>2, <1>7, <1>10, <1>11, <1>12 DEF Reindexes
  <1> QED BY <1>13 DEF s, h, g

\* Afterwards the elements have the same indices as before, in another order.
LEMMA ShiftSound ==
  ASSUME Sound, NEW c, Accepts(c), c.op = "shift"
  PROVE  Tree(Effect(c)) /\ Dense(Effect(c))
  <1> DEFINE k == c.from
             m == c.at
             d == parent(m)
             s == basePath(d)
             n == Cardinality(MembersOf(doc, d))
             h == Becomes(name(k), name(m))
             g == Shifted(k, m)
  <1>1. Tree(doc) /\ Dense(doc) /\ k \in DOMAIN doc /\ m \in DOMAIN doc /\ parent(k) = d /\ IsArray(d)
        /\ Effect(c) = g
    BY DEF Sound, Accepts, Effect
  <1>2. d \in DOMAIN doc /\ doc[d].t = "A" /\ d # Root
    BY <1>1 DEF IsArray, Tree
  <1>3. k \in MembersOf(doc, d) /\ m \in MembersOf(doc, d)
    <2>1. k # Root /\ m # Root /\ k \in Places /\ m \in Places
      BY <1>1, <1>2, OfRoot DEF Tree
    <2> QED BY <1>1, <2>1, OfParent DEF MembersOf
  <1>4. n \in Nat /\ Full(doc, d, n)
    BY <1>1, <1>2, FullArrays, Finite
  <1>5. NamesOf(MembersOf(doc, d)) = 1 .. n
    BY <1>4 DEF Full
  <1>6. n < Star /\ 1 .. n \subseteq Indices
    <2>1. Star \notin NamesOf(MembersOf(doc, d))
      BY <1>1, OfMember DEF NamesOf
    <2> QED BY <1>4, <1>5, <2>1, PathAssumption DEF Indices
  <1>7. Reindexes(doc, s, h, g)
    BY <1>1, <1>2, <1>3, <1>4, <1>6, ShiftedReindexes
  <1>8. {h[x] : x \in 1 .. n} = 1 .. n
    <2>1. name(k) \in 1 .. n /\ name(m) \in 1 .. n
      BY <1>3, <1>5 DEF NamesOf
    <2>2. ASSUME NEW x \in 1 .. n PROVE h[x] \in 1 .. n /\ \E y \in 1 .. n : h[y] = x
      <3>1. x \in Indices
        BY <1>6
      <3>2. h[x] \in 1 .. n /\ Was(name(k), name(m), x) \in 1 .. n
            /\ h[Was(name(k), name(m), x)] = x
        BY <1>4, <1>6, <2>1, <3>1, ShiftedIndex
      <3> QED BY <3>2
    <2> HIDE DEF h, n
    <2> QED BY <2>2
  <1>9. /\ Tree(g)
        /\ \A e \in DOMAIN doc \ {d} :
             NamesOf(MembersOf(g, Reindex(e, s, h))) = NamesOf(MembersOf(doc, e))
        /\ Reindex(d, s, h) = d /\ NamesOf(MembersOf(g, d)) = {h[x] : x \in NamesOf(MembersOf(doc, d))}
    <2>1. d \in Places /\ IsDirectory(d)
      BY <1>1, <1>3, OfMember
    <2>2. s \in Seq(Nat) /\ d = Append(s, Dot)
      BY <2>1, OfPlace
    <2>3. \A x \in MembersOf(doc, d) : IsIndex(name(x))
      BY <1>5, <1>6 DEF NamesOf, IsIndex, Indices
    <2> HIDE DEF d, s, h, g
    <2> QED BY <1>1, <1>2, <1>7, <2>2, <2>3, ReindexedTree
  <1> HIDE DEF d, s, h, g, n
  <1>10. ASSUME NEW y \in DOMAIN g, g[y].t = "A" PROVE \E i \in Nat : Full(g, y, i)
    <2>1. PICK e \in DOMAIN doc : y = Reindex(e, s, h) /\ g[y].t = doc[e].t
      BY <1>7 DEF Reindexes
    <2>2. PICK i \in Nat : Full(doc, e, i)
      BY <1>1, <1>10, <2>1, FullArrays
    <2>3. NamesOf(MembersOf(g, y)) = NamesOf(MembersOf(doc, e))
      BY <1>5, <1>8, <1>9, <2>1
    <2> QED BY <2>2, <2>3 DEF Full
  <1>11. Dense(g)
    BY <1>9, <1>10, FullArrays
  <1> QED BY <1>1, <1>9, <1>11

-----------------------------------------------------------------------------
\* patch.

\* The directory that component i of a path names something in.
On(p, i) == Append(SubSeq(p, 1, i - 1), Dot)
First(text, p, i) ==
  i \in 1 .. Len(p) /\ Meets(text, p, i) /\ \A j \in 1 .. i - 1 : ~Meets(text, p, j)
Ahead(p, i) == Cardinality(Members(On(p, i)))

\* Paths that agree up to a component agree on the directory it is in.
LEMMA SameWay ==
  ASSUME NEW p \in Seq(Nat), NEW q \in Seq(Nat), NEW i \in 1 .. Len(p), i \in 1 .. Len(q),
         \A j \in 1 .. i - 1 : p[j] = q[j]
  PROVE  On(p, i) = On(q, i)
  <1>1. Len(p) \in Nat /\ Len(q) \in Nat /\ i - 1 \in 0 .. Len(p) /\ i - 1 \in 0 .. Len(q)
    BY LenProperties
  <1> DEFINE g == SubSeq(p, 1, i - 1)
             h == SubSeq(q, 1, i - 1)
  <1>2. g \in Seq(Nat) /\ Len(g) = i - 1 /\ \A j \in 1 .. i - 1 : g[j] = p[j]
    BY <1>1, OfHead
  <1>3. h \in Seq(Nat) /\ Len(h) = i - 1 /\ \A j \in 1 .. i - 1 : h[j] = q[j]
    BY <1>1, OfHead
  <1> HIDE DEF g, h
  <1>4. g = h
    BY <1>2, <1>3, SeqEqual
  <1> QED BY <1>4 DEF g, h, On

\* A path lands in at most one array, the first that it meets.
LEMMA LandsOnce ==
  ASSUME NEW text, NEW p \in Seq(Nat)
  PROVE  \/ Lands(text, p) = p /\ \A i \in 1 .. Len(p) : ~Meets(text, p, i)
         \/ \E i \in 1 .. Len(p) : First(text, p, i) /\ Lands(text, p) = SetAt(p, i, p[i] + Ahead(p, i))
  <1>1. DOMAIN p = 1 .. Len(p) /\ Len(p) \in Nat /\ p = [i \in 1 .. Len(p) |-> p[i]]
    BY LenProperties
  <1>2. \A i : i \in Onto(text, p) <=> First(text, p, i)
    BY <1>1 DEF Onto, First
  <1>3. Lands(text, p) = [i \in 1 .. Len(p) |-> IF First(text, p, i) THEN p[i] + Ahead(p, i) ELSE p[i]]
    <2>1. Lands(text, p) = [i \in DOMAIN p |-> IF i \notin Onto(text, p) THEN p[i] ELSE p[i] + Ahead(p, i)]
      BY DEF Lands, Ahead, On
    <2> QED BY <1>1, <1>2, <2>1
  <1>4. CASE \A i \in 1 .. Len(p) : ~Meets(text, p, i)
    <2>1. \A i \in 1 .. Len(p) : ~First(text, p, i)
      BY <1>4 DEF First
    <2> QED BY <1>1, <1>3, <1>4, <2>1
  <1>5. CASE \E i \in 1 .. Len(p) : Meets(text, p, i)
    <2> DEFINE T == {i \in 1 .. Len(p) : Meets(text, p, i)}
    <2>1. T \in SUBSET Nat /\ T # {}
      BY <1>5
    <2>2. PICK i \in T : \A j \in T : i <= j
      BY <2>1, Least
    <2>3. First(text, p, i)
      <3>1. ASSUME NEW j \in 1 .. i - 1, Meets(text, p, j) PROVE FALSE
        <4>1. j \in 1 .. Len(p) /\ ~(i <= j)
          BY <1>1
        <4> QED BY <2>2, <3>1, <4>1
      <3> QED BY <3>1 DEF First
    <2>4. ASSUME NEW j \in 1 .. Len(p), First(text, p, j) PROVE j = i
      <3>1. i \in 1 .. Len(p) /\ Meets(text, p, i) /\ Meets(text, p, j) /\ i \notin 1 .. j - 1 /\ j \notin 1 .. i - 1
        BY <2>3, <2>4 DEF First
      <3> QED BY <1>1, <3>1
    <2>5. Lands(text, p) = [j \in 1 .. Len(p) |-> IF j = i THEN p[j] + Ahead(p, j) ELSE p[j]]
      BY <1>3, <2>3, <2>4
    <2>6. i \in 1 .. Len(p)
      OBVIOUS
    <2> HIDE DEF T
    <2>7. Lands(text, p) = SetAt(p, i, p[i] + Ahead(p, i))
      BY <1>1, <2>5, <2>6 DEF SetAt
    <2> QED BY <2>3, <2>6, <2>7
  <1> QED BY <1>4, <1>5

\* What a component names is a member of the directory before it.
LEMMA OnTheWay ==
  ASSUME NEW f, Tree(f), NEW p \in DOMAIN f, NEW i \in 1 .. Len(basePath(p))
  PROVE  \E m \in MembersOf(f, On(basePath(p), i)) : name(m) = basePath(p)[i]
  <1> DEFINE b == basePath(p)
             h == SubSeq(b, 1, i)
  <1>1. p \in Places /\ b \in Seq(Nat) /\ Len(b) \in Nat /\ Dot \in Nat
    BY OfPlace, LenProperties DEF Tree, Dot
  <1>2. h # <<>> /\ Front(h) = SubSeq(b, 1, i - 1) /\ Last(h) = b[i]
    BY <1>1, FrontOfHead
  <1>3. ASSUME NEW m \in DOMAIN f, basePath(m) = h PROVE m \in MembersOf(f, On(b, i)) /\ name(m) = b[i]
    <2>1. m \in Places /\ m # Root
      BY <1>2, <1>3, OfRoot DEF Tree
    <2>2. parent(m) = Append(Front(h), Dot) /\ name(m) = Last(h) /\ parent(m) # m
      BY <1>3, <2>1, OfPlace, OfParent
    <2> QED BY <1>2, <2>2 DEF MembersOf, On
  <1>4. \E m \in DOMAIN f : basePath(m) = h
    <2>1. CASE i = Len(b)
      <3>1. h = b
        BY <1>1, <2>1, SubSeqFull
      <3> QED BY <3>1
    <2>2. CASE i # Len(b)
      <3>1. i \in 0 .. Len(b) - 1 /\ i \in 0 .. Len(b)
        BY <1>1, <2>2
      <3>2. Append(h, Dot) \in DOMAIN f /\ h \in Seq(Nat)
        BY <1>1, <3>1, Ancestors, OfHead
      <3> DEFINE d == Append(h, Dot)
      <3> HIDE DEF h
      <3>3. Last(d) = Dot /\ Front(d) = h /\ d # <<>>
        BY <1>1, <3>2, OfAppend
      <3>4. basePath(d) = h
        BY <3>3 DEF basePath, IsDirectory, IsValue
      <3> QED BY <3>2, <3>4 DEF h
    <2> QED BY <2>1, <2>2
  <1> QED BY <1>3, <1>4

\* A text for this document.
Texts(text) ==
  /\ Tree(text) /\ Dense(text)
  /\ Cardinality(DOMAIN doc) + Cardinality(DOMAIN text) < Star

\* Where a path of a text lands there is an array in both, and the place is free.
LEMMA LandsBehind ==
  ASSUME Sound, NEW text, Texts(text), NEW p \in DOMAIN text, NEW i, First(text, p, i)
  PROVE  LET b == basePath(p)
             d == On(b, i)
             n == Ahead(p, i)
         IN /\ i \in 1 .. Len(b) /\ On(p, i) = d /\ p[i] = b[i] /\ p # Root
            /\ d \in DOMAIN doc /\ doc[d].t = "A" /\ d \in DOMAIN text /\ text[d].t = "A"
            /\ Full(doc, d, n) /\ n \in Nat /\ b[i] \in Nat
            /\ b[i] + n \in Nat \ {Dot, Star} /\ b[i] + n \notin 1 .. n
  <1> DEFINE b == basePath(p)
             d == On(b, i)
             n == Ahead(p, i)
             j == Cardinality(MembersOf(text, d))
  <1>1. /\ Tree(doc) /\ Dense(doc) /\ Tree(text) /\ Dense(text) /\ p \in Places
        /\ Cardinality(DOMAIN doc) + Cardinality(DOMAIN text) < Star
    BY DEF Sound, Texts, Tree
  <1>2. p \in Seq(Nat) /\ b \in Seq(Nat) /\ (p = b \/ p = Append(b, Dot)) /\ Dot \in Nat /\ Len(b) \in Nat
    BY <1>1, OfPlace, LenProperties DEF Dot
  <1>3. i \in 1 .. Len(p) /\ p[i] # Dot /\ IsArray(On(p, i)) /\ text[On(p, i)].t = "A"
    BY DEF First, Meets, On
  <1>4. i \in 1 .. Len(b) /\ \A k \in 1 .. Len(b) : p[k] = b[k]
    <2>1. CASE p = b
      BY <1>3, <2>1
    <2>2. CASE p = Append(b, Dot)
      <3>1. Len(p) = Len(b) + 1 /\ p[Len(b) + 1] = Dot /\ \A k \in 1 .. Len(b) : p[k] = b[k]
        <4> HIDE DEF b
        <4> QED BY <1>2, <2>2, OfAppend
      <3> QED BY <1>2, <1>3, <3>1
    <2> QED BY <1>2, <2>1, <2>2
  <1>5. On(p, i) = d
    <2>1. \A k \in 1 .. i - 1 : p[k] = b[k]
      BY <1>2, <1>4
    <2> HIDE DEF b
    <2> QED BY <1>2, <1>3, <1>4, <2>1, SameWay
  <1>6. b[i] \in NamesOf(MembersOf(text, d)) /\ p # Root
    <2>1. \E m \in MembersOf(text, d) : name(m) = b[i]
      BY <1>1, <1>4, OnTheWay
    <2>2. p # Root
      <3>1. b # <<>>
        BY <1>2, <1>4, EmptySeq
      <3> QED BY <3>1, OfRoot
    <2> QED BY <2>1, <2>2 DEF NamesOf
  <1>7. d \in DOMAIN doc /\ doc[d].t = "A" /\ d \in DOMAIN text /\ text[d].t = "A"
    <2>1. PICK m \in MembersOf(text, d) : TRUE
      BY <1>6 DEF NamesOf
    <2>2. d \in DOMAIN text
      BY <1>1, <2>1, OfMember
    <2> QED BY <1>3, <1>5, <2>2 DEF IsArray
  <1>8. n = Cardinality(MembersOf(doc, d)) /\ n \in Nat /\ Full(doc, d, n)
    <2>1. n = Cardinality(MembersOf(doc, d))
      BY <1>5, AsMembers DEF Ahead
    <2> QED BY <1>1, <1>7, <2>1, FullArrays, Finite
  <1>9. j \in Nat /\ NamesOf(MembersOf(text, d)) = 1 .. j
    BY <1>1, <1>7, FullArrays, Finite DEF Full
  <1>10. n <= Cardinality(DOMAIN doc) /\ Cardinality(DOMAIN doc) \in Nat
    <2>1. MembersOf(doc, d) \subseteq DOMAIN doc /\ IsFiniteSet(DOMAIN doc)
      BY <1>1 DEF MembersOf, Tree
    <2> QED BY <1>8, <2>1, FS_Subset, FS_CardinalityType
  <1>11. j <= Cardinality(DOMAIN text) /\ Cardinality(DOMAIN text) \in Nat
    <2>1. MembersOf(text, d) \subseteq DOMAIN text /\ IsFiniteSet(DOMAIN text)
      BY <1>1 DEF MembersOf, Tree
    <2> QED BY <2>1, FS_Subset, FS_CardinalityType
  <1>12. b[i] \in 1 .. j
    BY <1>6, <1>9
  <1> HIDE DEF n, j
  <1>13. b[i] + n \in Nat \ {Dot, Star} /\ b[i] + n \notin 1 .. n /\ b[i] \in Nat
    BY <1>1, <1>8, <1>9, <1>10, <1>11, <1>12, PathAssumption DEF Dot
  <1> QED BY <1>4, <1>5, <1>6, <1>7, <1>8, <1>13 DEF n

\* What a path meets depends on its components up to there.
LEMMA SameMeets ==
  ASSUME NEW text, NEW p \in Seq(Nat), NEW q \in Seq(Nat), NEW i \in 1 .. Len(p), i \in 1 .. Len(q),
         \A j \in 1 .. i - 1 : p[j] = q[j], p[i] # Dot <=> q[i] # Dot
  PROVE  On(p, i) = On(q, i) /\ (Meets(text, p, i) <=> Meets(text, q, i))
  <1>1. On(p, i) = On(q, i)
    BY SameWay
  <1> QED BY <1>1 DEF Meets, On

\* Where a path of a text lands.
LEMMA LandsPlace ==
  ASSUME Sound, NEW text, Texts(text), NEW p \in DOMAIN text
  PROVE  LET b == basePath(p)
             r == Lands(text, p)
         IN /\ r \in Places /\ (IsDirectory(r) <=> IsDirectory(p))
            /\ parent(r) = Lands(text, parent(p))
            /\ \/ r = p /\ \A i \in 1 .. Len(b) : ~Meets(text, p, i)
               \/ \E i \in 1 .. Len(b) :
                    /\ First(text, p, i) /\ r # Root
                    /\ basePath(r) = SetAt(b, i, b[i] + Ahead(p, i))
                    /\ name(r) = IF i = Len(b) THEN name(p) + Ahead(p, i) ELSE name(p)
                    /\ i = Len(b) => parent(r) = parent(p)
  <1> DEFINE b == basePath(p)
             r == Lands(text, p)
             q == parent(p)
  <1>1. p \in Places /\ q \in DOMAIN text /\ q \in Places
    BY DEF Texts, Tree
  <1>2. /\ p \in Seq(Nat) /\ b \in Seq(Nat) /\ (p = b \/ p = Append(b, Dot)) /\ Dot \in Nat
        /\ q \in Seq(Nat) /\ Len(b) \in Nat /\ Len(p) \in Nat
    BY <1>1, OfPlace, LenProperties DEF Dot
  <1>3. (\A i \in 1 .. Len(b) : p[i] = b[i]) /\ Len(b) <= Len(p)
    <2>1. CASE p = b
      BY <1>2, <2>1
    <2>2. CASE p = Append(b, Dot)
      <3>1. Len(p) = Len(b) + 1 /\ \A k \in 1 .. Len(b) : p[k] = b[k]
        <4> HIDE DEF b
        <4> QED BY <1>2, <2>2, OfAppend
      <3> QED BY <1>2, <3>1
    <2> QED BY <1>2, <2>1, <2>2
  <1>4. ASSUME p # Root
        PROVE  /\ Len(q) = Len(b) /\ Len(b) # 0 /\ ~Meets(text, q, Len(b))
               /\ \A i \in 1 .. Len(b) - 1 :
                    q[i] = p[i] /\ On(q, i) = On(p, i) /\ (Meets(text, q, i) <=> Meets(text, p, i))
    <2> DEFINE f == Front(b)
    <2>1. /\ q = Append(f, Dot) /\ f \in Seq(Nat) /\ Len(f) = Len(b) - 1 /\ Len(b) \in Nat \ {0}
          /\ Len(q) = Len(b) /\ \A i \in 1 .. Len(b) - 1 : f[i] = b[i]
      BY <1>1, <1>4, OfPlace, OfParent
    <2> HIDE DEF f, b, q
    <2>2. q[Len(f) + 1] = Dot /\ \A i \in 1 .. Len(f) : q[i] = f[i]
      BY <1>2, <2>1, OfAppend
    <2>3. q[Len(b)] = Dot /\ \A i \in 1 .. Len(b) - 1 : q[i] = p[i]
      BY <1>3, <2>1, <2>2
    <2>4. ASSUME NEW i \in 1 .. Len(b) - 1
          PROVE  On(q, i) = On(p, i) /\ (Meets(text, q, i) <=> Meets(text, p, i))
      <3>1. /\ i \in 1 .. Len(q) /\ i \in 1 .. Len(p) /\ q[i] = p[i]
            /\ \A j \in 1 .. i - 1 : q[j] = p[j]
        <4>1. i \in 1 .. Len(q) /\ q[i] = p[i]
          BY <2>1, <2>3
        <4>2. i \in 1 .. Len(p)
          BY <1>2, <1>3, <2>1
        <4>3. \A j \in 1 .. i - 1 : j \in 1 .. Len(b) - 1
          BY <2>1
        <4> QED BY <2>3, <4>1, <4>2, <4>3
      <3> QED BY <1>2, <3>1, SameMeets
    <2> QED BY <2>1, <2>3, <2>4 DEF Meets
  <1>5. \/ Lands(text, q) = q
        \/ \E i \in 1 .. Len(q) : First(text, q, i) /\ Lands(text, q) = SetAt(q, i, q[i] + Ahead(q, i))
    BY <1>2, LandsOnce
  <1>6. \/ r = p /\ \A i \in 1 .. Len(p) : ~Meets(text, p, i)
        \/ \E i \in 1 .. Len(p) : First(text, p, i) /\ r = SetAt(p, i, p[i] + Ahead(p, i))
    BY <1>2, LandsOnce
  <1>7. CASE r = p /\ \A i \in 1 .. Len(p) : ~Meets(text, p, i)
    <2>1. \A i \in 1 .. Len(b) : ~Meets(text, p, i)
      BY <1>2, <1>3, <1>7
    <2>2. CASE p = Root
      BY <1>1, <1>7, <2>1, <2>2, OfRoot
    <2>3. CASE p # Root
      <3>1. \A i \in 1 .. Len(q) : ~Meets(text, q, i)
        <4>1. ASSUME NEW i \in 1 .. Len(q) PROVE ~Meets(text, q, i)
          <5>1. i = Len(b) \/ (i \in 1 .. Len(b) - 1 /\ i \in 1 .. Len(b))
            BY <1>2, <1>4, <2>3
          <5> QED BY <1>4, <2>1, <2>3, <5>1
        <4> QED BY <4>1
      <3>2. Lands(text, q) = q
        BY <1>5, <3>1 DEF First
      <3> QED BY <1>1, <1>7, <2>1, <3>2
    <2> QED BY <2>2, <2>3
  <1>8. CASE \E i \in 1 .. Len(p) : First(text, p, i) /\ r = SetAt(p, i, p[i] + Ahead(p, i))
    <2>1. PICK i \in 1 .. Len(p) : First(text, p, i) /\ r = SetAt(p, i, p[i] + Ahead(p, i))
      BY <1>8
    <2> DEFINE n == Ahead(p, i)
               x == b[i] + n
    <2>2. /\ i \in 1 .. Len(b) /\ p[i] = b[i] /\ p # Root
          /\ n \in Nat /\ b[i] \in Nat /\ x \in Nat \ {Dot, Star}
      BY <2>1, LandsBehind
    <2> HIDE DEF n, r
    <2>3. r = SetAt(p, i, x)
      BY <2>1, <2>2 DEF n
    <2>4. b[Len(b)] = name(p)
      BY <1>1, <2>2, OfPlace DEF Last
    <2> HIDE DEF x
    <2>5. /\ r \in Places /\ r # Root /\ (IsDirectory(r) <=> IsDirectory(p))
          /\ basePath(r) = SetAt(b, i, x)
          /\ i = Len(b) => parent(r) = q /\ name(r) = x
          /\ i # Len(b) => parent(r) = SetAt(q, i, x) /\ name(r) = name(p)
      <3>1. LET s == SetAt(p, i, x)
            IN /\ s \in Places /\ s # Root /\ (IsDirectory(s) <=> IsDirectory(p))
               /\ basePath(s) = SetAt(basePath(p), i, x)
               /\ i = Len(basePath(p)) => parent(s) = parent(p) /\ name(s) = x
               /\ i # Len(basePath(p)) => parent(s) = SetAt(parent(p), i, x) /\ name(s) = name(p)
        BY <1>1, <2>2, SetInPlace
      <3> QED BY <2>3, <3>1
    <2>6. parent(r) = Lands(text, q)
      <3>1. \A j \in 1 .. Len(b) - 1 : Meets(text, q, j) <=> Meets(text, p, j)
        BY <1>4, <2>2
      <3>2. Len(q) = Len(b) /\ ~Meets(text, q, Len(b))
        BY <1>4, <2>2
      <3>3. Meets(text, p, i) /\ \A j \in 1 .. i - 1 : ~Meets(text, p, j)
        BY <2>1 DEF First
      <3>4. CASE i = Len(b)
        <4>1. ASSUME NEW j \in 1 .. Len(q), First(text, q, j) PROVE FALSE
          <5>1. Meets(text, q, j)
            BY <4>1 DEF First
          <5>2. j # Len(b) /\ j \in 1 .. Len(b) - 1
            BY <1>2, <3>2, <5>1
          <5> QED BY <3>1, <3>3, <3>4, <5>1, <5>2
        <4> QED BY <1>5, <2>5, <3>4, <4>1
      <3>5. CASE i # Len(b)
        <4>1. i \in 1 .. Len(b) - 1 /\ i \in 1 .. Len(q)
          BY <1>2, <2>2, <3>2, <3>5
        <4>2. q[i] = p[i] /\ On(q, i) = On(p, i) /\ Meets(text, q, i)
          BY <1>4, <2>2, <3>1, <3>3, <4>1
        <4>3. q[i] + Ahead(q, i) = x
          BY <2>2, <4>2 DEF Ahead, x, n
        <4>4. \/ Lands(text, q) = q /\ \A j \in 1 .. Len(q) : ~Meets(text, q, j)
              \/ \E j \in 1 .. Len(q) : First(text, q, j) /\ Lands(text, q) = SetAt(q, j, q[j] + Ahead(q, j))
          BY <1>2, LandsOnce
        <4>5. PICK j \in 1 .. Len(q) : First(text, q, j) /\ Lands(text, q) = SetAt(q, j, q[j] + Ahead(q, j))
          BY <4>1, <4>2, <4>4
        <4>6. Meets(text, q, j) /\ \A k \in 1 .. j - 1 : ~Meets(text, q, k)
          BY <4>5 DEF First
        <4>7. ~(i < j)
          <5> SUFFICES ASSUME i < j PROVE FALSE
            OBVIOUS
          <5>1. i \in 1 .. j - 1
            BY <1>2, <3>2, <4>1
          <5> QED BY <4>2, <4>6, <5>1
        <4>8. ~(j < i)
          <5> SUFFICES ASSUME j < i PROVE FALSE
            OBVIOUS
          <5>1. j \in 1 .. i - 1 /\ j \in 1 .. Len(b) - 1
            BY <1>2, <3>2, <4>1
          <5> QED BY <3>1, <3>3, <4>6, <5>1
        <4>9. i = j
          BY <1>2, <3>2, <4>1, <4>7, <4>8
        <4> QED BY <2>5, <3>5, <4>3, <4>5, <4>9
      <3> QED BY <3>4, <3>5
    <2>7. name(r) = IF i = Len(b) THEN name(p) + n ELSE name(p)
      BY <2>4, <2>5 DEF x
    <2>8. x = b[i] + n /\ n = Ahead(p, i)
      BY DEF x, n
    <2>9. /\ First(text, p, i) /\ r # Root /\ basePath(r) = SetAt(b, i, b[i] + Ahead(p, i))
          /\ name(r) = IF i = Len(b) THEN name(p) + Ahead(p, i) ELSE name(p)
          /\ i = Len(b) => parent(r) = parent(p)
      BY <2>1, <2>5, <2>7, <2>8
    <2> HIDE DEF x, n
    <2> QED BY <2>2, <2>5, <2>6, <2>9 DEF r
  <1> QED BY <1>6, <1>7, <1>8

\* A path of the text that starts like a landed one lands there itself, or before.
LEMMA Crossing ==
  ASSUME Sound, NEW text, Texts(text), NEW p \in DOMAIN text, NEW q \in DOMAIN text,
         NEW i, First(text, p, i), i \in 1 .. Len(basePath(q)),
         \A k \in 1 .. i - 1 : basePath(q)[k] = basePath(p)[k],
         basePath(q)[i] # Dot
  PROVE  Meets(text, q, i) /\ Ahead(q, i) = Ahead(p, i)
  <1> DEFINE b == basePath(p)
             c == basePath(q)
  <1>1. i \in 1 .. Len(b) /\ p[i] = b[i] /\ i \in 1 .. Len(p) /\ Meets(text, p, i)
    BY LandsBehind DEF First
  <1>2. \A s \in DOMAIN text : /\ s \in Seq(Nat) /\ Len(basePath(s)) \in Nat /\ Len(s) \in Nat
                               /\ Len(basePath(s)) <= Len(s)
                               /\ \A k \in 1 .. Len(basePath(s)) : s[k] = basePath(s)[k]
    <2> SUFFICES ASSUME NEW s \in DOMAIN text
                 PROVE  /\ s \in Seq(Nat) /\ Len(basePath(s)) \in Nat /\ Len(s) \in Nat
                        /\ Len(basePath(s)) <= Len(s)
                        /\ \A k \in 1 .. Len(basePath(s)) : s[k] = basePath(s)[k]
      OBVIOUS
    <2> DEFINE e == basePath(s)
    <2>1. s \in Places
      BY DEF Texts, Tree
    <2>2. s \in Seq(Nat) /\ e \in Seq(Nat) /\ (s = e \/ s = Append(e, Dot)) /\ Dot \in Nat /\ Len(e) \in Nat
          /\ Len(s) \in Nat
      BY <2>1, OfPlace, LenProperties DEF Dot
    <2> HIDE DEF e
    <2>3. s = Append(e, Dot) => Len(s) = Len(e) + 1 /\ \A k \in 1 .. Len(e) : s[k] = e[k]
      BY <2>2, OfAppend
    <2>4. CASE s = e
      BY <2>2, <2>4 DEF e
    <2>5. CASE s = Append(e, Dot)
      <3>1. Len(s) = Len(e) + 1 /\ \A k \in 1 .. Len(e) : s[k] = e[k]
        BY <2>3, <2>5
      <3>2. Len(e) <= Len(s)
        BY <2>2, <3>1
      <3> QED BY <2>2, <3>1, <3>2 DEF e
    <2> QED BY <2>2, <2>4, <2>5
  <1>3. /\ p \in Seq(Nat) /\ Len(b) \in Nat
        /\ \A k \in 1 .. Len(b) : p[k] = b[k]
    BY <1>2
  <1>4. /\ q \in Seq(Nat) /\ Len(c) \in Nat /\ Len(q) \in Nat /\ Len(c) <= Len(q)
        /\ \A k \in 1 .. Len(c) : q[k] = c[k]
    BY <1>2
  <1> HIDE DEF b, c
  <1>5. i \in 1 .. Len(c) /\ c[i] # Dot /\ \A k \in 1 .. i - 1 : c[k] = b[k]
    BY DEF b, c
  <1>6. i \in 1 .. Len(q) /\ q[i] = c[i]
    BY <1>4, <1>5
  <1>7. ASSUME NEW k \in 1 .. i - 1 PROVE p[k] = q[k]
    <2>1. k \in 1 .. Len(b) /\ k \in 1 .. Len(c)
      BY <1>1, <1>3, <1>4, <1>5
    <2> QED BY <1>3, <1>4, <1>5, <2>1
  <1>8. p[i] # Dot
    BY <1>1 DEF Meets
  <1>9. On(p, i) = On(q, i) /\ (Meets(text, p, i) <=> Meets(text, q, i))
    BY <1>1, <1>3, <1>4, <1>5, <1>6, <1>7, <1>8, SameMeets
  <1> QED BY <1>1, <1>9 DEF Ahead

\* No two paths of the text land on one name.
LEMMA LandsApart ==
  ASSUME Sound, NEW text, Texts(text), NEW p \in DOMAIN text, NEW q \in DOMAIN text,
         basePath(Lands(text, p)) = basePath(Lands(text, q))
  PROVE  p = q
  <1> DEFINE b == basePath(p)
             c == basePath(q)
  <1>1. b \in Seq(Nat) /\ c \in Seq(Nat) /\ Len(b) \in Nat /\ Len(c) \in Nat
    BY OfPlace, LenProperties DEF Texts, Tree
  <1>2. ASSUME NEW s \in DOMAIN text
        PROVE  \/ /\ basePath(Lands(text, s)) = basePath(s)
                  /\ \A i \in 1 .. Len(basePath(s)) : ~Meets(text, s, i)
               \/ \E i \in 1 .. Len(basePath(s)) :
                    /\ First(text, s, i)
                    /\ basePath(Lands(text, s)) = SetAt(basePath(s), i, basePath(s)[i] + Ahead(s, i))
    <2>1. \/ Lands(text, s) = s /\ \A i \in 1 .. Len(basePath(s)) : ~Meets(text, s, i)
          \/ \E i \in 1 .. Len(basePath(s)) :
               /\ First(text, s, i)
               /\ basePath(Lands(text, s)) = SetAt(basePath(s), i, basePath(s)[i] + Ahead(s, i))
      BY LandsPlace
    <2> QED BY <2>1
  <1>3. ASSUME NEW s \in DOMAIN text, NEW i \in 1 .. Len(basePath(s)), First(text, s, i),
               basePath(Lands(text, s)) = SetAt(basePath(s), i, basePath(s)[i] + Ahead(s, i))
        PROVE  LET e == basePath(s)
                   l == basePath(Lands(text, s))
               IN /\ Len(l) = Len(e) /\ l[i] = e[i] + Ahead(s, i) /\ l[i] # Dot
                  /\ e[i] \in Nat /\ Ahead(s, i) \in Nat
                  /\ \A k \in 1 .. Len(e) : k # i => l[k] = e[k]
    <2> DEFINE e == basePath(s)
               x == e[i] + Ahead(s, i)
    <2>1. e \in Seq(Nat)
      BY OfPlace DEF Texts, Tree
    <2>2. x \in Nat /\ x # Dot /\ e[i] \in Nat /\ Ahead(s, i) \in Nat
      BY <1>3, LandsBehind
    <2> HIDE DEF x
    <2>3. /\ Len(SetAt(e, i, x)) = Len(e) /\ SetAt(e, i, x)[i] = x
          /\ \A k \in 1 .. Len(e) : k # i => SetAt(e, i, x)[k] = e[k]
      BY <2>1, <2>2, OfSetAt
    <2> QED BY <1>3, <2>2, <2>3 DEF x
  <1>4. ASSUME NEW s \in DOMAIN text, NEW t \in DOMAIN text,
               NEW i \in 1 .. Len(basePath(s)), First(text, s, i),
               basePath(Lands(text, s)) = SetAt(basePath(s), i, basePath(s)[i] + Ahead(s, i)),
               basePath(Lands(text, s)) = basePath(Lands(text, t))
        PROVE  \/ /\ First(text, t, i) /\ i \in 1 .. Len(basePath(t)) /\ Ahead(t, i) = Ahead(s, i)
                  /\ basePath(Lands(text, t)) = SetAt(basePath(t), i, basePath(t)[i] + Ahead(t, i))
               \/ \E j \in 1 .. i - 1 : First(text, t, j) /\ j \in 1 .. Len(basePath(t))
                    /\ basePath(Lands(text, t)) = SetAt(basePath(t), j, basePath(t)[j] + Ahead(t, j))
    <2> DEFINE e == basePath(s)
               g == basePath(t)
               l == basePath(Lands(text, s))
    <2>1. Len(l) = Len(e) /\ l[i] # Dot /\ Len(e) \in Nat /\ \A k \in 1 .. Len(e) : k # i => l[k] = e[k]
      <3>1. e \in Seq(Nat)
        BY OfPlace DEF Texts, Tree
      <3> QED BY <1>3, <1>4, <3>1, LenProperties
    <2>2. CASE l = g /\ \A k \in 1 .. Len(g) : ~Meets(text, t, k)
      <3>1. i \in 1 .. Len(g) /\ g[i] # Dot /\ \A k \in 1 .. i - 1 : g[k] = e[k]
        BY <2>1, <2>2
      <3>2. Meets(text, t, i)
        BY <1>4, <3>1, Crossing
      <3> QED BY <2>2, <3>1, <3>2
    <2>3. CASE \E j \in 1 .. Len(g) : First(text, t, j) /\ l = SetAt(g, j, g[j] + Ahead(t, j))
      <3>1. PICK j \in 1 .. Len(g) : First(text, t, j) /\ l = SetAt(g, j, g[j] + Ahead(t, j))
        BY <2>3
      <3>2. Len(l) = Len(g) /\ l[j] # Dot /\ \A k \in 1 .. Len(g) : k # j => l[k] = g[k]
        BY <1>3, <1>4, <3>1
      <3>3. CASE j < i
        <4>1. j \in 1 .. i - 1
          BY <2>1, <3>1, <3>3
        <4> QED BY <1>4, <3>1, <4>1
      <3>4. CASE i < j
        <4>1. i \in 1 .. Len(g) /\ g[i] = l[i] /\ \A k \in 1 .. i - 1 : g[k] = e[k]
          BY <2>1, <3>2, <3>4
        <4>2. Meets(text, t, i)
          BY <1>4, <2>1, <4>1, Crossing
        <4>3. i \in 1 .. j - 1
          BY <2>1, <3>2, <3>4
        <4> QED BY <3>1, <4>2, <4>3 DEF First
      <3>5. CASE i = j
        <4>1. /\ i \in 1 .. Len(g) /\ \A k \in 1 .. i - 1 : g[k] = e[k]
          BY <2>1, <3>2, <3>5
        <4>2. g[i] # Dot
          <5>1. t[i] # Dot /\ t[i] = g[i]
            BY <3>1, <3>5, LandsBehind DEF First, Meets
          <5> QED BY <5>1
        <4>3. Ahead(t, i) = Ahead(s, i)
          BY <1>4, <4>1, <4>2, Crossing
        <4> QED BY <1>4, <3>1, <3>5, <4>3
      <3> QED BY <2>1, <3>2, <3>3, <3>4, <3>5
    <2> QED BY <1>2, <1>4, <2>2, <2>3
  <1>5. ASSUME NEW s \in DOMAIN text, NEW t \in DOMAIN text,
               NEW i \in 1 .. Len(basePath(s)), First(text, s, i),
               basePath(Lands(text, s)) = SetAt(basePath(s), i, basePath(s)[i] + Ahead(s, i)),
               basePath(Lands(text, s)) = basePath(Lands(text, t))
        PROVE  basePath(s) = basePath(t)
    <2> DEFINE e == basePath(s)
               g == basePath(t)
               l == basePath(Lands(text, s))
    <2>1. \/ /\ First(text, t, i) /\ i \in 1 .. Len(g) /\ Ahead(t, i) = Ahead(s, i)
             /\ l = SetAt(g, i, g[i] + Ahead(t, i))
          \/ \E j \in 1 .. i - 1 : First(text, t, j) /\ j \in 1 .. Len(g)
               /\ l = SetAt(g, j, g[j] + Ahead(t, j))
      BY <1>4, <1>5
    <2>2. ASSUME NEW j \in 1 .. i - 1, First(text, t, j), j \in 1 .. Len(g),
                 l = SetAt(g, j, g[j] + Ahead(t, j))
          PROVE  FALSE
      <3>1. Len(e) \in Nat /\ ~(i <= j)
        <4>1. e \in Seq(Nat)
          BY OfPlace DEF Texts, Tree
        <4> QED BY <4>1, LenProperties
      <3>2. First(text, s, j) \/ \E k \in 1 .. j - 1 : First(text, s, k)
        BY <1>4, <1>5, <2>2
      <3>3. PICK k \in 1 .. i - 1 : First(text, s, k)
        <4>1. \A k \in 1 .. j - 1 : k \in 1 .. i - 1
          BY <3>1
        <4> QED BY <3>2, <4>1
      <3> QED BY <1>5, <3>3 DEF First
    <2>3. First(text, t, i) /\ i \in 1 .. Len(g) /\ Ahead(t, i) = Ahead(s, i)
          /\ l = SetAt(g, i, g[i] + Ahead(t, i))
      BY <2>1, <2>2
    <2>4. /\ Len(l) = Len(e) /\ l[i] = e[i] + Ahead(s, i)
          /\ \A k \in 1 .. Len(e) : k # i => l[k] = e[k]
          /\ e[i] \in Nat /\ Ahead(s, i) \in Nat
      BY <1>3, <1>5
    <2>5. /\ Len(l) = Len(g) /\ l[i] = g[i] + Ahead(t, i)
          /\ \A k \in 1 .. Len(g) : k # i => l[k] = g[k]
          /\ g[i] \in Nat
      BY <1>3, <1>5, <2>3
    <2>6. e[i] = g[i]
      <3> DEFINE x == e[i]
                 y == g[i]
                 n == Ahead(s, i)
      <3>1. x \in Nat /\ n \in Nat /\ l[i] = x + n
        BY <2>4
      <3>2. y \in Nat /\ l[i] = y + n
        BY <2>3, <2>5
      <3> HIDE DEF x, y, n, l
      <3>3. x = y
        BY <3>1, <3>2
      <3> QED BY <3>3 DEF x, y
    <2>7. e \in Seq(Nat) /\ g \in Seq(Nat)
      BY OfPlace DEF Texts, Tree
    <2>8. \A k \in 1 .. Len(e) : e[k] = g[k]
      BY <2>4, <2>5, <2>6
    <2> HIDE DEF e, g
    <2>9. e = g
      BY <2>4, <2>5, <2>7, <2>8, SeqEqual
    <2> QED BY <2>9 DEF e, g
  <1>6. b = c
    BY <1>2, <1>5
  <1> QED BY <1>6, OneRecord DEF Texts

\* A path that lands in the directory that it lies in does so by its last component.
LEMMA LandsHere ==
  ASSUME Sound, NEW text, Texts(text), NEW p \in DOMAIN text, p # Root
  PROVE  LET i == Len(basePath(p))
         IN /\ i \in 1 .. Len(p) /\ On(p, i) = parent(p) /\ p[i] = name(p) /\ p[i] # Dot
            /\ i \in Nat \ {0}
  <1> DEFINE b == basePath(p)
             i == Len(b)
  <1>1. p \in Places /\ Dot \in Nat
    BY DEF Texts, Tree, Dot
  <1>2. /\ p \in Seq(Nat) /\ b \in Seq(Nat) /\ (p = b \/ p = Append(b, Dot))
        /\ name(p) = Last(b) /\ name(p) # Dot /\ parent(p) = Append(Front(b), Dot)
        /\ i \in Nat \ {0} /\ Len(p) \in Nat
    BY <1>1, OfPlace, OfParent, LenProperties
  <1>3. i <= Len(p) /\ \A k \in 1 .. i : p[k] = b[k]
    <2>1. CASE p = b
      BY <1>2, <2>1
    <2>2. CASE p = Append(b, Dot)
      <3> HIDE DEF b
      <3>1. Len(p) = Len(b) + 1 /\ \A k \in 1 .. Len(b) : p[k] = b[k]
        BY <1>1, <1>2, <2>2, OfAppend
      <3>2. i <= Len(p)
        BY <1>2, <3>1
      <3> QED BY <3>1, <3>2
    <2> QED BY <1>2, <2>1, <2>2
  <1>4. i \in 1 .. Len(p) /\ i \in 1 .. Len(b) /\ \A k \in 1 .. i - 1 : p[k] = b[k]
    BY <1>2, <1>3
  <1>5. On(p, i) = On(b, i)
    <2> HIDE DEF b
    <2> QED BY <1>2, <1>4, SameWay
  <1>6. On(b, i) = parent(p)
    BY <1>2 DEF On, Front
  <1>7. p[i] = name(p)
    BY <1>2, <1>3 DEF Last
  <1> QED BY <1>2, <1>4, <1>5, <1>6, <1>7

\* Where a path of the text lands, no record of the document lies in the way.
LEMMA LandsOutside ==
  ASSUME Sound, NEW text, Texts(text), NEW p \in DOMAIN text, NEW i, First(text, p, i),
         NEW q \in DOMAIN doc, i \in 1 .. Len(basePath(q)),
         \A k \in 1 .. i - 1 : basePath(q)[k] = basePath(p)[k]
  PROVE  basePath(q)[i] # basePath(p)[i] + Ahead(p, i)
  <1> DEFINE b == basePath(p)
             c == basePath(q)
             n == Ahead(p, i)
  <1>1. /\ i \in 1 .. Len(b) /\ On(p, i) = On(b, i) /\ Full(doc, On(b, i), n)
        /\ b[i] + n \notin 1 .. n
    BY LandsBehind
  <1>2. b \in Seq(Nat) /\ c \in Seq(Nat)
    BY OfPlace DEF Sound, Texts, Tree
  <1>3. On(c, i) = On(b, i)
    <2>1. i \in 1 .. Len(c) /\ \A k \in 1 .. i - 1 : c[k] = b[k]
      OBVIOUS
    <2> HIDE DEF b, c
    <2> QED BY <1>1, <1>2, <2>1, SameWay
  <1>4. \E m \in MembersOf(doc, On(c, i)) : name(m) = c[i]
    BY OnTheWay DEF Sound
  <1>5. c[i] \in 1 .. n
    <2>1. c[i] \in NamesOf(MembersOf(doc, On(b, i)))
      BY <1>3, <1>4 DEF NamesOf
    <2> QED BY <1>1, <2>1 DEF Full
  <1> QED BY <1>1, <1>5

\* The nodes of a text under the paths where they land.
Landed(text) == [p \in DOMAIN text |-> Lands(text, p)]
LandedTree(text) ==
  [k \in {Lands(text, p) : p \in DOMAIN text} |->
     text[CHOOSE p \in DOMAIN text : Lands(text, p) = k]]

\* They are a tree again.
LEMMA LandedRenames ==
  ASSUME Sound, NEW text, Texts(text)
  PROVE  Renames(text, Landed(text), LandedTree(text))
  <1> DEFINE u == Landed(text)
             g == LandedTree(text)
  <1>1. \A p \in DOMAIN text : u[p] = Lands(text, p)
    BY DEF Landed
  <1>2. \A p, q \in DOMAIN text : basePath(u[p]) = basePath(u[q]) => p = q
    BY <1>1, LandsApart
  <1>3. DOMAIN g = {u[q] : q \in DOMAIN text}
    BY <1>1 DEF LandedTree
  <1>4. ASSUME NEW p \in DOMAIN text PROVE g[u[p]].t = text[p].t
    <2> DEFINE q == CHOOSE q \in DOMAIN text : Lands(text, q) = u[p]
    <2>1. q \in DOMAIN text /\ Lands(text, q) = u[p]
      BY <1>1
    <2>2. q = p
      BY <1>1, <1>2, <2>1
    <2>3. g[u[p]] = text[q]
      BY <1>1 DEF LandedTree
    <2> QED BY <2>2, <2>3
  <1>5. u[Root] = Root
    <2>1. Root \in DOMAIN text /\ Len(basePath(Root)) = 0
      BY OfRoot, EmptySeq DEF Texts, Tree
    <2>2. Lands(text, Root) = Root
      BY <2>1, LandsPlace
    <2> QED BY <1>1, <2>1, <2>2
  <1>6. ASSUME NEW q \in DOMAIN text
        PROVE  u[q] \in Places /\ (IsDirectory(u[q]) <=> IsDirectory(q)) /\ parent(u[q]) = u[parent(q)]
    <2>1. parent(q) \in DOMAIN text
      BY DEF Texts, Tree
    <2>2. /\ Lands(text, q) \in Places /\ (IsDirectory(Lands(text, q)) <=> IsDirectory(q))
          /\ parent(Lands(text, q)) = Lands(text, parent(q))
      BY LandsPlace
    <2> QED BY <1>1, <2>1, <2>2
  <1> HIDE DEF u, g
  <1>7. Renames(text, u, g)
    BY <1>2, <1>3, <1>4, <1>5, <1>6 DEF Renames
  <1> QED BY <1>7 DEF u, g

\* The text has no other kind of node where the document has one, and gives no
\* name a second record.
Matches(text) ==
  \A p \in DOMAIN text :
    LET q == Lands(text, p)
    IN /\ q \in DOMAIN doc => doc[q].t = text[p].t
       /\ (IF IsDirectory(p) THEN basePath(q) ELSE asDirectory(q)) \notin DOMAIN doc

\* A patched document has the records of both, those of the text with their types.
LEMMA PatchedNodes ==
  ASSUME Sound, NEW text, Texts(text), Matches(text)
  PROVE  LET g == Patched(text)
         IN /\ DOMAIN g = DOMAIN doc \cup {Lands(text, p) : p \in DOMAIN text} /\ Kept(doc, g)
            /\ \A p \in DOMAIN text : g[Lands(text, p)].t = text[p].t
  <1> DEFINE g == Patched(text)
             From(k) == {p \in DOMAIN text : Lands(text, p) = k}
  <1>1. DOMAIN g = DOMAIN doc \cup {Lands(text, p) : p \in DOMAIN text}
    BY DEF Patched
  <1>2. ASSUME NEW k \in DOMAIN g
        PROVE  g[k] = IF From(k) = {} \/ (k \in DOMAIN doc /\ IsDirectory(k)) THEN doc[k]
                      ELSE LET p == CHOOSE p \in From(k) : TRUE
                           IN IF IsDirectory(p) THEN Node(text[p].t) ELSE text[p]
    BY <1>1 DEF Patched
  <1>3. ASSUME NEW p \in DOMAIN text, NEW q \in DOMAIN text, Lands(text, p) = Lands(text, q)
        PROVE  p = q
    BY <1>3, LandsApart
  <1>4. ASSUME NEW p \in DOMAIN text, NEW k, k = Lands(text, p)
        PROVE  (CHOOSE q \in From(k) : TRUE) = p /\ From(k) # {} /\ k \in DOMAIN g
    BY <1>1, <1>3, <1>4
  <1>5. ASSUME NEW p \in DOMAIN text, NEW k, k = Lands(text, p), ~(k \in DOMAIN doc /\ IsDirectory(k))
        PROVE  g[k].t = text[p].t
    <2>1. g[k] = IF IsDirectory(p) THEN Node(text[p].t) ELSE text[p]
      BY <1>2, <1>4, <1>5
    <2> QED BY <2>1 DEF Node
  <1>6. ASSUME NEW k \in DOMAIN doc PROVE g[k].t = doc[k].t
    <2>1. CASE From(k) = {} \/ IsDirectory(k)
      BY <1>1, <1>2, <1>6, <2>1
    <2>2. CASE ~IsDirectory(k) /\ From(k) # {}
      <3>1. PICK p \in DOMAIN text : k = Lands(text, p)
        BY <2>2
      <3> QED BY <1>5, <2>2, <3>1 DEF Matches
    <2> QED BY <2>1, <2>2
  <1>7. ASSUME NEW p \in DOMAIN text PROVE g[Lands(text, p)].t = text[p].t
    <2>1. CASE Lands(text, p) \in DOMAIN doc
      BY <1>6, <2>1 DEF Matches
    <2>2. CASE Lands(text, p) \notin DOMAIN doc
      BY <1>5, <2>2
    <2> QED BY <2>1, <2>2
  <1>8. Kept(doc, g)
    BY <1>1, <1>6 DEF Kept
  <1> HIDE DEF g
  <1>9. DOMAIN g = DOMAIN doc \cup {Lands(text, p) : p \in DOMAIN text} /\ Kept(doc, g)
        /\ \A p \in DOMAIN text : g[Lands(text, p)].t = text[p].t
    BY <1>1, <1>7, <1>8
  <1> QED BY <1>9 DEF g

\* The elements of an array of the text follow those of the array that exists.
LEMMA LandsAfter ==
  ASSUME Sound, NEW text, Texts(text), NEW e \in DOMAIN text, text[e].t = "A",
         Lands(text, e) \in DOMAIN doc, doc[Lands(text, e)].t = "A", NEW m \in MembersOf(text, e)
  PROVE  Lands(text, e) = e /\ name(Lands(text, m)) = name(m) + Cardinality(MembersOf(doc, e))
  <1> DEFINE b == basePath(m)
             i == Len(b)
             y == Lands(text, e)
             r == Lands(text, m)
  <1>1. Tree(text) /\ Tree(doc) /\ e \in Places /\ y \in Places
    BY DEF Texts, Tree, Sound
  <1>2. y = e
    <2> SUFFICES ASSUME y # e PROVE FALSE
      OBVIOUS
    <2> DEFINE c == basePath(e)
    <2>1. PICK j \in 1 .. Len(c) : First(text, e, j) /\ basePath(y) = SetAt(c, j, c[j] + Ahead(e, j))
      BY LandsPlace
    <2> DEFINE x == c[j] + Ahead(e, j)
    <2>2. x \in Nat /\ c \in Seq(Nat)
      BY <1>1, <2>1, LandsBehind, OfPlace
    <2> HIDE DEF x
    <2>3. /\ Len(SetAt(c, j, x)) = Len(c) /\ SetAt(c, j, x)[j] = x
          /\ \A k \in 1 .. Len(c) : k # j => SetAt(c, j, x)[k] = c[k]
      BY <2>2, OfSetAt
    <2>4. basePath(y) = SetAt(c, j, x)
      BY <2>1 DEF x
    <2>5. j \in 1 .. Len(basePath(y)) /\ basePath(y)[j] = x /\ \A k \in 1 .. j - 1 : basePath(y)[k] = c[k]
      <3>1. Len(c) \in Nat
        BY <2>2, LenProperties
      <3>2. \A k \in 1 .. j - 1 : k \in 1 .. Len(c) /\ k # j
        BY <3>1
      <3> QED BY <2>3, <2>4, <3>2
    <2>6. basePath(y)[j] # c[j] + Ahead(e, j)
      BY <2>1, <2>5, LandsOutside
    <2> QED BY <2>5, <2>6 DEF x
  <1>3. m \in DOMAIN text /\ m # Root /\ parent(m) = e /\ m \in Places
    BY <1>1, OfMember
  <1>4. Meets(text, m, i) /\ On(m, i) = e /\ i \in Nat \ {0}
    <2>1. On(m, i) = e /\ m[i] # Dot /\ i \in Nat \ {0}
      BY <1>3, LandsHere
    <2> QED BY <1>2, <2>1 DEF Meets, On, IsArray
  <1>5. PICK j \in 1 .. i :
          /\ First(text, m, j) /\ r # Root /\ basePath(r) = SetAt(b, j, b[j] + Ahead(m, j))
          /\ name(r) = IF j = i THEN name(m) + Ahead(m, j) ELSE name(m)
    <2>1. i \in 1 .. i
      BY <1>4
    <2> QED BY <1>3, <1>4, <2>1, LandsPlace
  <1>6. r \in Places /\ parent(r) = e
    BY <1>2, <1>3, LandsPlace
  <1>7. j = i
    <2> SUFFICES ASSUME j # i PROVE FALSE
      OBVIOUS
    <2> DEFINE x == b[j] + Ahead(m, j)
    <2>1. x \in Nat /\ b \in Seq(Nat)
      BY <1>3, <1>5, LandsBehind, OfPlace
    <2> HIDE DEF x
    <2>2. /\ Len(SetAt(b, j, x)) = Len(b) /\ SetAt(b, j, x)[j] = x
          /\ \A k \in 1 .. Len(b) : k # j => SetAt(b, j, x)[k] = b[k]
      BY <2>1, OfSetAt
    <2>3. basePath(r) = SetAt(b, j, x)
      BY <1>5 DEF x
    <2>4. /\ basePath(e) = Front(basePath(r)) /\ Len(Front(basePath(r))) = Len(basePath(r)) - 1
          /\ \A k \in 1 .. Len(basePath(r)) - 1 : Front(basePath(r))[k] = basePath(r)[k]
      BY <1>5, <1>6, OfParent
    <2>5. \A k \in 1 .. j : k \in 1 .. i - 1 /\ k \in 1 .. Len(b)
      BY <1>4
    <2>6. j \in 1 .. Len(basePath(e)) /\ basePath(e)[j] = x
      BY <1>4, <2>2, <2>3, <2>4, <2>5
    <2>7. ASSUME NEW k \in 1 .. j - 1 PROVE basePath(e)[k] = b[k]
      <3>1. k \in 1 .. j /\ k # j
        BY <1>4
      <3> QED BY <2>2, <2>3, <2>4, <2>5, <3>1
    <2>8. e \in DOMAIN doc
      BY <1>2
    <2>9. basePath(e)[j] # b[j] + Ahead(m, j)
      BY <1>3, <1>5, <2>6, <2>7, <2>8, LandsOutside
    <2> QED BY <2>6, <2>9 DEF x
  <1>8. Ahead(m, j) = Cardinality(MembersOf(doc, e))
    BY <1>4, <1>7, AsMembers DEF Ahead
  <1> QED BY <1>2, <1>5, <1>7, <1>8

\* Where no array exists yet the elements keep their names.
LEMMA LandsBeside ==
  ASSUME Sound, NEW text, Texts(text), NEW e, Lands(text, e) \notin DOMAIN doc, NEW m \in MembersOf(text, e)
  PROVE  name(Lands(text, m)) = name(m)
  <1>1. m \in DOMAIN text /\ m \in Places /\ m # Root /\ parent(m) = e
    BY OfMember DEF Texts
  <1> DEFINE b == basePath(m)
             r == Lands(text, m)
  <1>2. r = m \/ \E i \in 1 .. Len(b) :
                   /\ First(text, m, i) /\ name(r) = IF i = Len(b) THEN name(m) + Ahead(m, i) ELSE name(m)
                   /\ i = Len(b) => parent(r) = parent(m)
    BY <1>1, LandsPlace
  <1>3. ASSUME NEW i \in 1 .. Len(b), First(text, m, i), i = Len(b), parent(r) = parent(m) PROVE FALSE
    <2>1. On(m, i) = e
      BY <1>1, <1>3, LandsHere
    <2>2. e \in DOMAIN doc
      BY <1>3, <2>1 DEF First, Meets, On, IsArray
    <2>3. parent(r) = Lands(text, e)
      BY <1>1, LandsPlace
    <2> QED BY <1>1, <1>3, <2>2, <2>3
  <1> QED BY <1>2, <1>3

\* patch: the text goes over the document, its elements behind those that exist.
LEMMA PatchSound ==
  ASSUME Sound, NEW c, Fits(c), Accepts(c), c.op = "patch"
  PROVE  Tree(Effect(c)) /\ Dense(Effect(c))
  <1> DEFINE text == c.text
             g == Patched(text)
             u == Landed(text)
             h == LandedTree(text)
  <1>1. Texts(text) /\ Matches(text)
    BY DEF Fits, Texts, Matches
  <1>2. Effect(c) = g
    BY DEF Effect
  <1>3. Tree(doc) /\ Dense(doc) /\ Tree(text) /\ Dense(text)
    BY <1>1 DEF Sound, Texts
  <1> HIDE DEF text
  <1>4. /\ DOMAIN g = DOMAIN doc \cup {Lands(text, p) : p \in DOMAIN text} /\ Kept(doc, g)
        /\ \A p \in DOMAIN text : g[Lands(text, p)].t = text[p].t
    BY <1>1, PatchedNodes
  <1>5. Renames(text, u, h)
    BY <1>1, LandedRenames
  <1>6. \A p \in DOMAIN text : u[p] = Lands(text, p)
    BY DEF Landed
  <1>7. Tree(h) /\ \A e \in DOMAIN text : MembersOf(h, u[e]) = {u[m] : m \in MembersOf(text, e)}
    BY <1>3, <1>5, RenamedTree
  <1> HIDE DEF g, u, h
  <1>8. DOMAIN h = {u[p] : p \in DOMAIN text} /\ DOMAIN g = DOMAIN doc \cup DOMAIN h
        /\ \A p \in DOMAIN text : /\ g[u[p]].t = text[p].t /\ u[p] \in DOMAIN h
                                  /\ (IsDirectory(u[p]) <=> IsDirectory(p))
    BY <1>4, <1>5, <1>6 DEF Renames
  <1>9. Tree(g)
    <2>1. IsFiniteSet(DOMAIN g)
      <3>1. IsFiniteSet(DOMAIN doc) /\ IsFiniteSet(DOMAIN h)
        BY <1>3, <1>7 DEF Tree
      <3>2. IsFiniteSet(DOMAIN doc \cup DOMAIN h)
        BY <3>1, FS_Union
      <3> QED BY <1>8, <3>2
    <2>2. ASSUME NEW k \in DOMAIN g \ DOMAIN doc
          PROVE  /\ k \in Places /\ parent(k) \in DOMAIN g /\ g[k].t \in Kinds(k)
                 /\ IF IsDirectory(k) THEN basePath(k) \notin DOMAIN doc ELSE asDirectory(k) \notin DOMAIN g
      <3>1. PICK p \in DOMAIN text : k = u[p]
        BY <1>8
      <3>2. k \in DOMAIN h /\ k \in Places /\ parent(k) \in DOMAIN g
        BY <1>7, <1>8, <3>1 DEF Tree
      <3>3. g[k].t = text[p].t /\ (IsDirectory(k) <=> IsDirectory(p))
        BY <1>8, <3>1
      <3>4. g[k].t \in Kinds(k)
        BY <1>3, <3>1, <3>3 DEF Tree, Kinds
      <3>5. (IF IsDirectory(p) THEN basePath(k) ELSE asDirectory(k)) \notin DOMAIN doc
        BY <1>1, <1>6, <3>1 DEF Matches
      <3>6. ~IsDirectory(k) => asDirectory(k) \notin DOMAIN h
        BY <1>7, <3>2 DEF Tree
      <3> QED BY <1>8, <3>2, <3>3, <3>4, <3>5, <3>6
    <2> QED BY <1>3, <1>4, <2>1, <2>2, Grafted
  <1>10. \A y : MembersOf(g, y) = MembersOf(doc, y) \cup MembersOf(h, y)
    BY <1>8 DEF MembersOf
  <1>11. ASSUME NEW y \in DOMAIN g, g[y].t = "A" PROVE \E n \in Nat : Full(g, y, n)
    <2>1. CASE y \notin DOMAIN h
      <3>1. MembersOf(h, y) = {} /\ y \in DOMAIN doc /\ doc[y].t = "A"
        <4>1. MembersOf(h, y) = {}
          BY <1>7, <2>1, OfMember
        <4> QED BY <1>4, <1>8, <1>11, <2>1, <4>1 DEF Kept
      <3>2. \E n \in Nat : Full(doc, y, n)
        BY <1>3, <3>1, FullArrays
      <3> QED BY <1>10, <3>1, <3>2 DEF Full
    <2>2. CASE y \in DOMAIN h
      <3>1. PICK e \in DOMAIN text : y = u[e]
        BY <1>8, <2>2
      <3> DEFINE j == Cardinality(MembersOf(text, e))
      <3>2. text[e].t = "A" /\ y = Lands(text, e) /\ MembersOf(h, y) = {u[m] : m \in MembersOf(text, e)}
        BY <1>6, <1>7, <1>8, <1>11, <3>1
      <3>3. j \in Nat /\ NamesOf(MembersOf(text, e)) = 1 .. j
        BY <1>3, <3>2, FullArrays, Finite DEF Full
      <3> HIDE DEF j
      <3>4. \A m \in MembersOf(text, e) : m \in DOMAIN text /\ u[m] = Lands(text, m)
        BY <1>6 DEF MembersOf
      <3>5. CASE y \notin DOMAIN doc
        <4>1. MembersOf(doc, y) = {}
          BY <1>3, <3>5, OfMember
        <4>2. \A m \in MembersOf(text, e) : name(u[m]) = name(m)
          BY <1>1, <3>2, <3>4, <3>5, LandsBeside
        <4>3. NamesOf(MembersOf(h, y)) = NamesOf(MembersOf(text, e))
          BY <3>2, <4>2 DEF NamesOf
        <4>4. Full(g, y, j)
          BY <1>10, <3>3, <4>1, <4>3 DEF Full
        <4> QED BY <3>3, <4>4
      <3>6. CASE y \in DOMAIN doc
        <4> DEFINE n == Cardinality(MembersOf(doc, y))
        <4>1. doc[y].t = "A"
          BY <1>4, <1>11, <3>6 DEF Kept
        <4>2. n \in Nat /\ NamesOf(MembersOf(doc, y)) = 1 .. n
          BY <1>3, <3>6, <4>1, FullArrays, Finite DEF Full
        <4>3. \A m \in MembersOf(text, e) : name(u[m]) = name(m) + n
          BY <1>1, <3>2, <3>4, <3>6, <4>1, LandsAfter
        <4> HIDE DEF n
        <4>4. NamesOf(MembersOf(h, y)) = n + 1 .. n + j
          <5>1. NamesOf(MembersOf(h, y)) = {name(m) + n : m \in MembersOf(text, e)}
            BY <3>2, <4>3 DEF NamesOf
          <5>2. {name(m) + n : m \in MembersOf(text, e)} = {x + n : x \in NamesOf(MembersOf(text, e))}
            BY DEF NamesOf
          <5>3. {x + n : x \in 1 .. j} = n + 1 .. n + j
            <6>1. ASSUME NEW z \in n + 1 .. n + j PROVE z \in {x + n : x \in 1 .. j}
              <7>1. z - n \in 1 .. j /\ z = (z - n) + n
                BY <3>3, <4>2
              <7> QED BY <7>1
            <6>2. ASSUME NEW x \in 1 .. j PROVE x + n \in n + 1 .. n + j
              BY <3>3, <4>2
            <6> QED BY <6>1, <6>2
          <5> QED BY <3>3, <5>1, <5>2, <5>3
        <4>5. NamesOf(MembersOf(g, y)) = NamesOf(MembersOf(doc, y)) \cup NamesOf(MembersOf(h, y))
          BY <1>10 DEF NamesOf
        <4>6. (1 .. n) \cup (n + 1 .. n + j) = 1 .. n + j /\ n + j \in Nat
          BY <3>3, <4>2
        <4>7. Full(g, y, n + j)
          BY <4>2, <4>4, <4>5, <4>6 DEF Full
        <4> QED BY <4>6, <4>7
      <3> QED BY <3>5, <3>6
    <2> QED BY <2>1, <2>2
  <1>12. Dense(g)
    BY <1>9, <1>11, FullArrays
  <1> QED BY <1>2, <1>9, <1>12

-----------------------------------------------------------------------------
\* Every command that clients issue within the contract leaves a tree with dense arrays.
LEMMA EffectSound ==
  ASSUME Sound, NEW c, Fits(c), Accepts(c)
  PROVE  Tree(Effect(c)) /\ Dense(Effect(c))
  <1>1. c.op \in {"set", "add", "replace", "mkarr", "mkobj", "remove", "append", "copy", "move",
                  "shift", "load", "patch", "truncate"}
    BY DEF Fits
  <1>2. CASE c.op \in {"set", "add", "replace", "mkarr", "mkobj"}
    BY <1>2, WriteSound
  <1>3. CASE c.op = "remove"
    BY <1>3, RemoveSound
  <1>4. CASE c.op = "append"
    BY <1>4, AppendSound
  <1>5. CASE c.op = "copy"
    BY <1>5, CopySound
  <1>6. CASE c.op = "move"
    BY <1>6, MoveSound
  <1>7. CASE c.op = "shift"
    BY <1>7, ShiftSound
  <1>8. CASE c.op = "load"
    BY <1>8, LoadSound
  <1>9. CASE c.op = "patch"
    BY <1>9, PatchSound
  <1>10. CASE c.op = "truncate"
    BY <1>10, TruncateSound
  <1> QED BY <1>1, <1>2, <1>3, <1>4, <1>5, <1>6, <1>7, <1>8, <1>9, <1>10

\* For any number of commands, nodes and elements: as long as clients keep to
\* Fits, no sequence of commands gives a name two records, leaves a record
\* without its directory or a gap in an array.
THEOREM DocumentSound == Spec /\ ClientsFit => []Sound
  <1>1. Init => Sound
    <2> SUFFICES ASSUME Init PROVE Sound
      OBVIOUS
    <2> DEFINE c == [op |-> "truncate"]
    <2>1. Tree(Effect(c)) /\ Dense(Effect(c))
      BY TruncateSound
    <2>2. Effect(c) = doc
      BY DEF Effect, Init
    <2> QED BY <2>1, <2>2 DEF Sound
  <1>2. Sound /\ [Next]_<<doc, reply>> /\ [reply'.ok => Fits(reply'.c)]_<<doc, reply>> => Sound'
    <2> SUFFICES ASSUME Sound, [Next]_<<doc, reply>>, [reply'.ok => Fits(reply'.c)]_<<doc, reply>>
                 PROVE  Sound'
      OBVIOUS
    <2>1. CASE UNCHANGED doc
      BY <2>1 DEF Sound, Tree, Dense, MembersOf
    <2>2. CASE Execute(reply'.c) /\ Fits(reply'.c)
      <3>1. doc' = Effect(reply'.c) /\ Accepts(reply'.c)
        BY <2>2 DEF Execute
      <3>2. Tree(Effect(reply'.c)) /\ Dense(Effect(reply'.c))
        BY <2>2, <3>1, EffectSound
      <3>3. Tree(doc') /\ Dense(doc')
        BY <3>1, <3>2
      <3> QED BY <3>3 DEF Sound, Tree, Dense, MembersOf
    <2>3. UNCHANGED doc \/ (Execute(reply'.c) /\ reply'.ok)
      BY DEF Next, Refuse, Execute
    <2> QED BY <2>1, <2>2, <2>3
  <1> QED BY <1>1, <1>2, PTL DEF Spec, ClientsFit
=============================================================================
