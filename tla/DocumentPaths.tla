--------------------------- MODULE DocumentPaths ---------------------------
(***************************************************************************)
(* Paths of the document (path.cpp, component.cpp).  A path is the         *)
(* sequence of its components, a component is the rank of its key string:  *)
(* "!" (written ".") sorts before "$<bits>" (written "#i"), which sorts    *)
(* before "*" and the names.  Comparing two paths component by component   *)
(* is then comparing the two key strings of the database.                  *)
(***************************************************************************)
EXTENDS Integers, Sequences, SequencesExt

CONSTANT Star                   \* last component of a range, above every index

ASSUME PathAssumption == Star \in Nat \ {0}

Dot == 0                        \* last component of a directory record
Index(i) == i + 1               \* the element i of an array
IsIndex(c) == c \in 1 .. Star - 1
IndexOf(c) == c - 1

IsDirectory(p) == p # <<>> /\ Last(p) = Dot
IsWildcard(p) == p # <<>> /\ Last(p) = Star
IsValue(p) == ~IsDirectory(p) /\ ~IsWildcard(p)

basePath(p) == IF IsValue(p) THEN p ELSE Front(p)
asDirectory(p) == Append(basePath(p), Dot)
asWildcard(p) == Append(basePath(p), Star)
withChild(p, c) == Append(basePath(p), c)

Root == <<Dot>>

\* The directory a path lies in; for a range the directory itself.
parent(p) ==
  IF IsWildcard(p) \/ basePath(p) = <<>> THEN asDirectory(p)
  ELSE Append(Front(basePath(p)), Dot)

name(p) == Last(basePath(p))

\* Path::above: q is p or lies below it.
above(p, q) == Len(q) >= Len(p) /\ IsPrefix(IF IsDirectory(p) THEN Front(p) ELSE p, q)

\* The order of the records in the database.
Before(p, q) ==
  \E i \in 1 .. Len(q) :
    /\ Len(p) >= i - 1
    /\ SubSeq(p, 1, i - 1) = SubSeq(q, 1, i - 1)
    /\ Len(p) >= i => p[i] < q[i]

\* p with the part it shares with s replaced by d.
Rebased(p, s, d) ==
  basePath(d) \o SubSeq(p, Len(basePath(s)) + 1, Len(p))
=============================================================================
