------------------------------ MODULE Document ------------------------------
(***************************************************************************)
(* What the document promises to a client: a tree of objects, arrays and   *)
(* values without any stored sizes, and for every command either its       *)
(* effect or a refusal that changes nothing.                               *)
(***************************************************************************)
EXTENDS Integers, Sequences, FiniteSets, Functions, DocumentPaths

CONSTANT Commands          \* the commands clients issue

VARIABLES doc,             \* path |-> [t |-> "s", "A" or "O", n |-> content]
          reply            \* the last command and whether it was accepted

Node(kind) == [t |-> kind, n |-> 0]
Members(d) == {k \in DOMAIN doc : k # d /\ parent(k) = d}
Home(p) == IF IsWildcard(p) THEN asDirectory(p) ELSE p
Below(p) == {k \in DOMAIN doc : basePath(p) # k /\ IsPrefix(basePath(p), k)} \ {asDirectory(p)}
Subtree(p) == IF IsDirectory(p) THEN Below(p) \cup {p} ELSE {p}
IsArray(p) == p \in DOMAIN doc /\ doc[p].t = "A"

Init == doc = [k \in {Root} |-> Node("O")] /\ reply = [c |-> "none", ok |-> TRUE]
-----------------------------------------------------------------------------
\* k may be the path of a new or an existing record.
InPlace(k) ==
  /\ parent(k) \in DOMAIN doc
  /\ IsArray(parent(k)) =>
       IsIndex(name(k)) /\ IndexOf(name(k)) <= Cardinality(Members(parent(k)))
Free(k) == basePath(k) \notin DOMAIN doc /\ asDirectory(k) \notin DOMAIN doc

Put(f, k, v) == [q \in DOMAIN f \cup {k} |-> IF q = k THEN v ELSE f[q]]

\* Element k has left array d: the later elements move up by one.
Closed(f, d, k) ==
  LET at == Len(d)
      In(q) == Len(q) >= at /\ SubSeq(q, 1, at - 1) = Front(d) /\ IsIndex(q[at])
      Up(q) == IF In(q) /\ q[at] > name(k) THEN [q EXCEPT ![at] = @ - 1] ELSE q
      Down(q) == IF In(q) /\ q[at] >= name(k) THEN [q EXCEPT ![at] = @ + 1] ELSE q
  IN [q \in {Up(r) : r \in DOMAIN f} |-> f[Down(q)]]

Removed(f, k) ==
  LET gone == IF IsWildcard(k) THEN Below(k) ELSE Subtree(k)
      rest == Restrict(f, DOMAIN f \ gone)
  IN IF IsArray(parent(k)) /\ ~IsWildcard(k) THEN Closed(rest, parent(k), k) ELSE rest

\* Element k takes the place of element m, those between make room.
Shifted(k, m) ==
  LET at == Len(basePath(k))
      from == name(k)
      to == name(m)
      Old(x) == IF x = to THEN from
                ELSE IF x > to /\ x <= from THEN x - 1 ELSE IF x >= from /\ x < to THEN x + 1 ELSE x
      In(q) == Len(q) >= at /\ SubSeq(q, 1, at - 1) = Front(basePath(k)) /\ IsIndex(q[at])
      OldPath(q) == IF In(q) THEN [q EXCEPT ![at] = Old(@)] ELSE q
      New(q) == CHOOSE r \in {q} \cup {[q EXCEPT ![at] = Index(i)] : i \in 0 .. Cardinality(DOMAIN doc)} :
                  OldPath(r) = q
  IN [q \in {IF In(r) THEN New(r) ELSE r : r \in DOMAIN doc} |-> doc[OldPath(q)]]

Copied(s, d) ==
  [k \in DOMAIN doc \cup {Rebased(q, s, d) : q \in Subtree(s)} |->
     IF k \in DOMAIN doc THEN doc[k] ELSE doc[Rebased(k, d, s)]]

\* The members of s become members of d, at its end if d is an array.
CopiedMembers(s, d) ==
  LET rank(m) == Cardinality({x \in Members(s) : Before(x, m)})
      new(m) == IF IsArray(d) THEN withChild(d, Index(Cardinality(Members(d)) + rank(m)))
                              ELSE withChild(d, name(m))
      Copies == UNION {{<<Rebased(q, m, new(m)), doc[q]>> : q \in Subtree(m)} : m \in Members(s)}
  IN [k \in DOMAIN doc \cup {c[1] : c \in Copies} |->
        IF k \in DOMAIN doc THEN doc[k] ELSE (CHOOSE c \in Copies : c[1] = k)[2]]

\* Component i of a path of the text is an element of an array that exists.
Meets(text, p, i) ==
  LET d == Append(SubSeq(p, 1, i - 1), Dot)
  IN p[i] # Dot /\ IsArray(d) /\ text[d].t = "A"
Onto(text, p) ==
  {i \in DOMAIN p : Meets(text, p, i) /\ \A j \in 1 .. i - 1 : ~Meets(text, p, j)}

\* What the text has in an array that exists comes after its elements.
Lands(text, p) ==
  [i \in DOMAIN p |-> IF i \notin Onto(text, p) THEN p[i]
     ELSE p[i] + Cardinality(Members(Append(SubSeq(p, 1, i - 1), Dot)))]

\* The nodes of a text are put over those that exist.
Patched(text) ==
  LET New(k) == {p \in DOMAIN text : Lands(text, p) = k}
  IN [k \in DOMAIN doc \cup {Lands(text, p) : p \in DOMAIN text} |->
        IF New(k) = {} \/ (k \in DOMAIN doc /\ IsDirectory(k)) THEN doc[k]
        ELSE LET p == CHOOSE p \in New(k) : TRUE
             IN IF IsDirectory(p) THEN Node(text[p].t) ELSE text[p]]
-----------------------------------------------------------------------------
\* When a command is carried out.
Accepts(c) ==
  CASE c.op = "set" -> InPlace(c.at)
    [] c.op = "add" -> InPlace(c.at) /\ c.at \notin DOMAIN doc
    [] c.op = "replace" -> c.at \in DOMAIN doc
    [] c.op \in {"mkarr", "mkobj"} -> InPlace(c.at) /\ Free(c.at)
    [] c.op = "remove" -> Home(c.at) \in DOMAIN doc
    [] c.op = "append" -> IsArray(c.at)
    [] c.op = "copy" ->
         /\ Home(c.from) \in DOMAIN doc
         /\ IF IsWildcard(c.from)
            THEN c.at \in DOMAIN doc /\ Members(Home(c.from)) # {}
            ELSE InPlace(c.at) /\ Free(c.at) /\ IsDirectory(c.from) = IsDirectory(c.at)
    [] c.op = "move" ->
         /\ c.from \in DOMAIN doc
         /\ IF IsDirectory(c.from) THEN InPlace(c.at) /\ Free(c.at) ELSE c.at \in DOMAIN doc
    [] c.op = "shift" ->
         {c.from, c.at} \subseteq DOMAIN doc /\ parent(c.from) = parent(c.at) /\ IsArray(parent(c.at))
    [] c.op \in {"load", "patch", "truncate"} -> TRUE

\* What it does then.
Effect(c) ==
  CASE c.op \in {"set", "add", "replace"} -> Put(doc, c.at, [t |-> "s", n |-> c.value])
    [] c.op = "mkarr" -> Put(doc, c.at, Node("A"))
    [] c.op = "mkobj" -> Put(doc, c.at, Node("O"))
    [] c.op = "remove" -> Removed(doc, c.at)
    [] c.op = "append" ->
         LET n == Cardinality(Members(c.at))
             New == {withChild(c.at, Index(n + i - 1)) : i \in DOMAIN c.values}
         IN [k \in DOMAIN doc \cup New |->
               IF k \in DOMAIN doc THEN doc[k]
               ELSE [t |-> "s", n |-> c.values[IndexOf(name(k)) - n + 1]]]
    [] c.op = "copy" -> IF IsWildcard(c.from) THEN CopiedMembers(Home(c.from), c.at)
                                              ELSE Copied(c.from, c.at)
    [] c.op = "move" ->
         Removed(IF IsDirectory(c.from) THEN Copied(c.from, c.at)
                                        ELSE Put(doc, c.at, doc[c.from]), c.from)
    [] c.op = "shift" -> Shifted(c.from, c.at)
    [] c.op = "load" ->
         [p \in DOMAIN c.text |-> IF IsDirectory(p) THEN Node(c.text[p].t) ELSE c.text[p]]
    [] c.op = "patch" -> Patched(c.text)
    [] c.op = "truncate" -> [k \in {Root} |-> Node("O")]

Execute(c) == Accepts(c) /\ doc' = Effect(c) /\ reply' = [c |-> c, ok |-> TRUE]
Refuse(c) == ~Accepts(c) /\ UNCHANGED doc /\ reply' = [c |-> c, ok |-> FALSE]

\* The command is the one the reply is for.
Next == LET c == reply'.c IN c \in Commands /\ (Execute(c) \/ Refuse(c))

Spec == Init /\ [][Next]_<<doc, reply>>
-----------------------------------------------------------------------------
Names == {b \in Seq(Nat) : b # <<>> /\ Last(b) \notin {Dot, Star}}
Places == {p \in Seq(Nat) : p = Root \/ (~IsWildcard(p) /\ basePath(p) \in Names)}
Ranges == {p \in Seq(Nat) : IsWildcard(p) /\ asDirectory(p) \in Places}

MembersOf(f, d) == {k \in DOMAIN f : k # d /\ parent(k) = d}

\* Every record lies in a directory of the document, and a name is a value or a
\* directory, never both.
Tree(f) ==
  /\ IsFiniteSet(DOMAIN f) /\ DOMAIN f \subseteq Places
  /\ Root \in DOMAIN f /\ f[Root].t = "O"
  /\ \A p \in DOMAIN f :
       /\ parent(p) \in DOMAIN f
       /\ IF IsDirectory(p) THEN f[p].t \in {"A", "O"}
                            ELSE f[p].t = "s" /\ asDirectory(p) \notin DOMAIN f

\* The elements of an array are numbered from 0 without a gap.
Dense(f) ==
  \A d \in DOMAIN f : f[d].t = "A" =>
    {name(m) : m \in MembersOf(f, d)} = {Index(i) : i \in 0 .. Cardinality(MembersOf(f, d)) - 1}

\* No command leaves an orphan, gives a name two records or leaves a gap in an
\* array, for whatever clients that keep to Fits.
Sound == Tree(doc) /\ Dense(doc)

\* What a client has to see to: that a value and a directory do not get the
\* name of each other, that a text is a document and that nothing is moved into
\* itself.  Star is above the indices that come up.
Fits(c) ==
  \/ c.op \in {"set", "add"} /\ c.at \in Names /\ asDirectory(c.at) \notin DOMAIN doc
  \/ c.op = "replace" /\ c.at \in Names
  \/ c.op \in {"mkarr", "mkobj"} /\ c.at \in Places /\ IsDirectory(c.at)
  \/ c.op = "remove" /\ c.at \in (Places \cup Ranges) \ {Root}
  \/ /\ c.op = "append" /\ DOMAIN c.values = 1 .. Len(c.values) /\ Len(c.values) \in Nat
     /\ Cardinality(Members(c.at)) + Len(c.values) < Star
  \/ c.op = "copy" /\ {c.from, c.at} \subseteq Places
  \/ /\ c.op = "copy" /\ c.from \in Ranges /\ c.at \in Places /\ IsDirectory(c.at)
     /\ IF IsArray(c.at)
        THEN Cardinality(Members(c.at)) + Cardinality(Members(Home(c.from))) < Star
        ELSE \A m \in Members(Home(c.from)) : Free(withChild(c.at, name(m)))
  \/ /\ c.op = "move" /\ {c.from, c.at} \subseteq Places
     /\ IF IsDirectory(c.from) THEN IsDirectory(c.at) /\ ~above(c.from, c.at) ELSE IsValue(c.at)
  \/ c.op \in {"shift", "truncate"}
  \/ c.op = "load" /\ Tree(c.text) /\ Dense(c.text)
  \/ /\ c.op = "patch" /\ Tree(c.text) /\ Dense(c.text)
     /\ Cardinality(DOMAIN doc) + Cardinality(DOMAIN c.text) < Star
     /\ \A p \in DOMAIN c.text :
          LET q == Lands(c.text, p)
          IN /\ q \in DOMAIN doc => doc[q].t = c.text[p].t
             /\ (IF IsDirectory(p) THEN basePath(q) ELSE asDirectory(q)) \notin DOMAIN doc

\* No command outside of it is carried out.
ClientsFit == [][reply'.ok => Fits(reply'.c)]_<<doc, reply>>
=============================================================================
