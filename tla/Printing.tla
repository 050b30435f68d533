----------------------------- MODULE Printing -----------------------------
(***************************************************************************)
(* What get prints of the document (recurseDirectory and recurseValue of   *)
(* janosh.cpp with the visitor of json.cpp): the calls of the visitor, in  *)
(* their order.  The records come from a cursor that knows nothing of the  *)
(* tree, so a stack of names decides which directories have ended.         *)
(***************************************************************************)
EXTENDS JanoshStore

NoName == -1               \* of the root, and of what lies in an array
NameOf(p) == IF basePath(p) = <<>> THEN NoName ELSE name(p)

\* Calls of the visitor: `first' spares the comma, elements have no name.
Label(p, inArray) == IF inArray THEN NoName ELSE NameOf(p)
Begin(f, p, inArray, first) ==
  [call |-> "begin", t |-> f[p].t, name |-> Label(p, inArray), first |-> first]
record(f, p, inArray, first) ==
  [call |-> "record", n |-> f[p].n, name |-> Label(p, inArray), first |-> first]
Ending(t) == [call |-> "end", t |-> t]

\* A traversal: the stack of directories, the record before, the calls so far.
Start == [hierachy |-> <<>>, last |-> <<>>, out |-> <<>>]

\* The stack is cut back to its first n entries.
Cut(s, n) ==
  [s EXCEPT !.hierachy = SubSeq(@, 1, n),
            !.out = @ \o [i \in 1 .. Len(s.hierachy) - n |->
                            Ending(s.hierachy[Len(s.hierachy) + 1 - i].t)]]

\* Directories end when the record is not below the last one and its parent
\* has another name than the directory the traversal is in.
Ends(s, p) ==
  LET here == IF IsDirectory(s.last) THEN s.last ELSE parent(s.last)
  IN s.hierachy # <<>> /\ ~above(s.last, p) /\ NameOf(parent(p)) # NameOf(here)

\* Slip: only the innermost directory is ended.
CloseOne(s, p) == IF Ends(s, p) THEN Cut(s, Len(s.hierachy) - 1) ELSE s

Close(s, p) ==
  LET found == {i \in DOMAIN s.hierachy : s.hierachy[i].name = NameOf(parent(p))}
  IN IF Ends(s, p) THEN Cut(s, CHOOSE i \in found \cup {0} : \A j \in found : j <= i) ELSE s

\* One round of the loops.
Visit(f, s, p, rootType) ==
  LET c == Close(s, p)
      top == IF c.hierachy = <<>> THEN rootType ELSE Last(c.hierachy).t
      first == c.last = <<>> \/ c.last = parent(p)
  IN IF IsDirectory(p)
     THEN [hierachy |-> Append(c.hierachy, [name |-> NameOf(p), t |-> f[p].t]), last |-> p,
           out |-> Append(c.out, Begin(f, p, top = "A", first))]
     ELSE [c EXCEPT !.last = p,
                    !.out = Append(@, record(f, p, c.hierachy # <<>> /\ top = "A", first))]

Traverse(f, ps, rootType) ==
  LET s == FoldLeft(LAMBDA r, p : Visit(f, r, p, rootType), Start, ps)
  IN Cut(s, 0).out

InOrder(ps) == SetToSortSeq(ps, Before)

\* From d on, up to the first record that is not in d.
recurseDirectory(f, d, rootType) ==
  LET Behind(p) == p = d \/ Before(d, p)
  IN Traverse(f, InOrder({p \in DOMAIN f : Behind(p) /\
                            \A q \in DOMAIN f : Behind(q) /\ ~Before(p, q) => above(d, q)}), rootType)

\* The directories above a value, the root left out, and the value.
recurseValue(f, v, rootType) ==
  Traverse(f, InOrder({p \in DOMAIN f \ {Root} : p = v \/ (IsDirectory(p) /\ above(p, v))}), rootType)

\* rootType is "A" for one record and "O" for one of several.
get(f, p, rootType) ==
  IF IsDirectory(p) THEN recurseDirectory(f, p, rootType) ELSE recurseValue(f, p, rootType)
-----------------------------------------------------------------------------
\* The JSON text of node p of the tree f, written by descending into it.
RECURSIVE TextOf(_, _, _, _)
TextOf(f, p, inArray, first) ==
  LET ms == InOrder(Members(f, p))
      parts == [i \in DOMAIN ms |-> TextOf(f, ms[i], f[p].t = "A", i = 1)]
  IN IF IsValue(p) THEN <<record(f, p, inArray, first)>>
     ELSE <<Begin(f, p, inArray, first)>> \o FoldLeft(LAMBDA x, y : x \o y, <<>>, parts)
            \o <<Ending(f[p].t)>>

\* A value is printed in its directories, as if it were all that they hold.
TextFor(f, p, rootType) ==
  LET chain == [q \in {p} \cup {d \in DOMAIN f \ {Root} : IsDirectory(d) /\ above(d, p)} |-> f[q]]
      top == CHOOSE q \in DOMAIN chain : \A r \in DOMAIN chain \ {q} : Before(q, r)
  IN IF IsDirectory(p) THEN TextOf(f, p, rootType = "A", TRUE)
     ELSE TextOf(chain, top, IsDirectory(top) /\ rootType = "A", TRUE)

\* No directory in d has the name of one it lies in.
NamesNest(f, d) ==
  LET Inside == {p \in DOMAIN f : IsDirectory(p) /\ above(d, p)}
  IN \A p, q \in Inside : p # q /\ above(p, q) => NameOf(p) # NameOf(q)

\* Whatever commands built the document, get prints a directory and a value as
\* their JSON text: every directory is ended where it ends, elements have no
\* names, commas are where they belong (janosh.cpp 350-425).  A directory with
\* one of the same name inside is excepted: what follows the inner one is
\* printed as part of it, for only names are compared.
GetPrintsDocument ==
  \A p \in DOMAIN db, rootType \in {"A", "O"} :
    (IsDirectory(p) => NamesNest(db, p)) => get(db, p, rootType) = TextFor(db, p, rootType)
=============================================================================
