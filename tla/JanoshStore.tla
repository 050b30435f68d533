---------------------------- MODULE JanoshStore ----------------------------
(***************************************************************************)
(* All commands of the document store: those of StoreRecords, and those    *)
(* that walk over directories with cursors (janosh.cpp on the cursors of   *)
(* record.cpp).                                                            *)
(***************************************************************************)
EXTENDS StoreRecords

End == <<Star, Star>>    \* a cursor that has left the database
-----------------------------------------------------------------------------
\* The cursor m steps after p; where it stays if it leaves the database.
StepsLeft(f, p) == Cardinality({q \in DOMAIN f : Before(p, q)})
Walk(f, p, m) ==
  CHOOSE q \in DOMAIN f \cup {p} :
    Cardinality({r \in DOMAIN f : Before(p, r) /\ ~Before(q, r)})
      = IF m <= StepsLeft(f, p) THEN m ELSE StepsLeft(f, p)
step(f, p) == IF StepsLeft(f, p) = 0 THEN End ELSE Walk(f, p, 1)

\* Record::next skips as many records as the directory has members: all of
\* them only when none of them has records of its own.
\* Slip: the members are not skipped.
StrideOfValue(r, p) == 1
Stride(r, p) == IF IsDirectory(p) THEN r.n + 1 ELSE 1

RECURSIVE appendRange(_, _, _)

\* The member at cursor `at' becomes target, or the directory target.
appendMember(f, at, target) ==
  LET dir == asDirectory(target)
  IN IF ~IsDirectory(at)
     THEN IF target \in DOMAIN f THEN Threw(f) ELSE Returned(With(f, target, f[at]), 1)
     ELSE IF above(at, dir) THEN Threw(f)
     ELSE Then(makeDirectory(f, dir, f[at].t), LAMBDA made :
            Then(appendRange(made.db, asWildcard(at), dir), LAMBDA inner :
              IF inner.n = 0 THEN Threw(inner.db) ELSE inner))

\* The loop of append(src, dest): c of the n members are done, the next one
\* is at `at'.
RECURSIVE AppendFrom(_, _, _, _, _, _)
AppendFrom(f, at, d, n, s, c) ==
  LET target == withChild(d, IF isArray(f, d) THEN Index(s + c) ELSE name(at))
      stride == Stride(f[at], at)
  IN IF above(at, d) THEN Threw(f)
     ELSE Then(appendMember(f, at, target), LAMBDA done :
            IF c + 1 = n THEN Returned(setContainerSize(done.db, d, s + n), n)
            ELSE IF StepsLeft(done.db, at) < stride THEN Threw(done.db)
            ELSE AppendFrom(done.db, Walk(done.db, at, stride), d, n, s, c + 1))

\* The members of the directory of range r become members of directory d.
appendRange(f, r, d) ==
  LET n == f[asDirectory(r)].n
      first == step(f, asDirectory(r))
  IN IF n = 0 THEN Returned(f, 0)
     ELSE IF first = End THEN Threw(f)
     ELSE AppendFrom(f, first, d, n, f[d].n, 0)

copy(f, s, d) ==
  IF IsValue(s) /\ IsValue(d) THEN copyValue(f, s, d)
  ELSE IF IsValue(s) \/ (exists(f, d) /\ ~IsWildcard(s)) THEN Threw(f)
  ELSE IF IsDirectory(s) THEN
    IF ~IsDirectory(d) THEN Threw(f)
    ELSE Then(makeDirectory(f, d, f[s].t),
              LAMBDA made : appendRange(made.db, asWildcard(s), d))
  ELSE IF d \notin DOMAIN f THEN Threw(f)           \* assert(false)
  ELSE IF IsValue(d) THEN set(f, d, f[asDirectory(s)])
  ELSE appendRange(f, s, d)
-----------------------------------------------------------------------------
RECURSIVE remove(_, _, _), RemoveFrom(_, _, _, _)

\* The loop of remove over n members, `at' is where its cursor stands.
\* Directories removed on the way are not counted.
RemoveFrom(f, at, n, cnt) ==
  IF n = 0 THEN Returned(f, cnt)
  ELSE IF at = End THEN Threw(f)
  ELSE IF IsDirectory(at)
       THEN Then(remove(f, at, FALSE),
                 LAMBDA o : RemoveFrom(o.db, step(o.db, at), n - 1, cnt))
       ELSE RemoveFrom(Without(f, at), step(f, at), n - 1, cnt + 1)

\* The loop of remove that closes the gap in array d of `left' elements: the
\* element at the cursor becomes element i.
RECURSIVE Pack(_, _, _, _, _)
Pack(f, d, at, i, left) ==
  LET target == withChild(d, Index(i))
  IN IF i = left THEN Returned(setContainerSize(f, d, left), 0)
     ELSE IF at = End \/ parent(at) # d \/ ~Parses(name(at)) THEN Threw(f)  \* corrupted array
     ELSE IF parseIndex(name(at)) <= i THEN Pack(f, d, Walk(f, at, Stride(f[at], at)), i + 1, left)
     ELSE Then(copy(f, at, IF IsDirectory(at) THEN asDirectory(target) ELSE target), LAMBDA moved :
            Then(IF IsDirectory(at) THEN remove(moved.db, at, FALSE)
                                    ELSE Returned(Without(moved.db, at), 1), LAMBDA taken :
              Pack(taken.db, d, step(taken.db, at), i + 1, left)))

\* Slip: the gap in the array is not closed.
removeUnpacked(f, p, pack) ==
  LET d == parent(p)
      gone == IF IsValue(p) THEN RemoveFrom(f, p, 1, 0) ELSE RemoveFrom(f, step(f, p), f[p].n, 0)
  IN IF p \notin DOMAIN f THEN Threw(f)
     ELSE Returned(setContainerSize(Without(gone.db, p), d, f[d].n - 1), gone.n)

remove(f, p, pack) ==
  LET d == parent(p)
      home == IF IsWildcard(p) THEN d ELSE p
      removed == IF IsValue(p) THEN removeValue(f, p)
                 ELSE IF home \notin DOMAIN f THEN Threw(f)
                 ELSE Then(RemoveFrom(f, step(f, home), f[home].n, 0), LAMBDA gone : Uncount(f, p, gone))
  IN Then(removed, LAMBDA left :
       IF ~pack \/ f[d].t # "A" THEN left
       ELSE Then(Pack(left.db, d, step(left.db, d), 0, left.db[d].n),
                 LAMBDA packed : Returned(packed.db, left.n)))

\* A destination that exists is removed first, except for a value moved to the
\* path of a value: that replaces it, or does nothing if there is none.
moveOver(f, s, d) ==
  LET target == IF IsDirectory(s) THEN IF IsDirectory(d) THEN d ELSE parent(d) ELSE basePath(d)
  IN IF IsValue(s) /\ IsValue(d)
     THEN replaceBy(f, s, d)
     ELSE Then(IF d \in DOMAIN f THEN remove(f, d, TRUE) ELSE Returned(f, 0), LAMBDA cleared :
            IF target = d /\ d \in DOMAIN f THEN Threw(cleared.db)
            ELSE copy(cleared.db, s, target))

move(f, s, d) ==
  IF d = Root \/ ~boundsCheck(f, d) THEN Threw(f)
  ELSE Then(moveOver(f, s, d), LAMBDA copied :
         Then(remove(copied.db, s, TRUE), LAMBDA left : Returned(left.db, copied.n)))
-----------------------------------------------------------------------------
\* Record::previous steps back over the records inside of elements.
Previous(f, p) ==
  LET d == parent(p)
      Stops(q) == Before(q, p) /\ (parent(q) = d \/ ~above(d, q))
  IN CHOOSE q \in DOMAIN f : Stops(q) /\ \A r \in DOMAIN f : Stops(r) => ~Before(q, r)

\* What replace(from, dest) makes of dest: it takes the kind of from.
Replaced(s, d) == IF IsDirectory(s) THEN asDirectory(d) ELSE basePath(d)

\* Not followed further: a source that lay in the record that is removed.
replaceRecord(f, s, d) ==
  IF {s, d} \ DOMAIN f # {} \/ ~boundsCheck(f, d) THEN Threw(f)
  ELSE IF IsValue(s) /\ IsValue(d) THEN Returned([f EXCEPT ![d] = f[s]], 1)
  ELSE Then(remove(f, d, FALSE), LAMBDA gone :
         IF s \in DOMAIN gone.db THEN copy(gone.db, s, Replaced(s, d)) ELSE Threw(gone.db))

\* makeTemp and what shift puts there: element s of the array.
Temp(f, s) == Replaced(s, withChild(tmpDir, Index(IF tmpDir \in DOMAIN f THEN f[tmpDir].n ELSE 0)))
makeTemp(f, s) ==
  Then(IF tmpDir \in DOMAIN f THEN Returned(f, 0) ELSE makeDirectory(f, tmpDir, "A"), LAMBDA o :
    IF IsValue(s)
    THEN Then(add(o.db, Temp(f, s), [t |-> "s", n |-> 0]), LAMBDA made : set(made.db, Temp(f, s), f[s]))
    ELSE Then(makeDirectory(o.db, Temp(f, s), f[s].t), LAMBDA made :
           appendRange(made.db, asWildcard(s), Temp(f, s))))

\* The loop of shift: two cursors, `back' takes over the record of `forward'.
RECURSIVE ShiftBack(_, _, _, _), ShiftForward(_, _, _, _)
ShiftBack(f, forward, back, rounds) ==
  IF rounds = 0 THEN Returned(f, 1)
  ELSE Then(replaceRecord(f, forward, back), LAMBDA o :
         ShiftBack(o.db, Previous(o.db, forward), Previous(o.db, Replaced(forward, back)), rounds - 1))

ShiftForward(f, forward, back, rounds) ==
  IF rounds = 0 THEN Returned(f, 1)
  ELSE Then(replaceRecord(f, forward, back), LAMBDA o :
         LET taken == Replaced(forward, back)
             strideBack == Stride(o.db[taken], taken)
             stride == Stride(o.db[forward], forward)
         IN IF StepsLeft(o.db, taken) < strideBack \/ StepsLeft(o.db, forward) < stride
            THEN Threw(o.db)
            ELSE ShiftForward(o.db, Walk(o.db, forward, stride), Walk(o.db, taken, strideBack),
                              rounds - 1))

shift(f, s, d) ==
  LET i == parseIndex(name(s))
      j == parseIndex(name(d))
      stride == Stride(f[s], s)
  IN IF ~isArray(f, parent(s)) \/ parent(d) # parent(s)
          \/ i >= f[parent(s)].n \/ j >= f[parent(s)].n
     THEN Threw(f)
     ELSE IF i <= j /\ StepsLeft(f, s) < stride THEN Threw(f)
     ELSE Then(makeTemp(f, s), LAMBDA kept :
            Then(IF i > j THEN ShiftBack(kept.db, Previous(kept.db, s), s, i - j)
                          ELSE ShiftForward(kept.db, Walk(f, s, stride), s, j - i), LAMBDA moved :
              Then(replaceRecord(moved.db, Temp(f, s), d), LAMBDA put : remove(put.db, tmpDir, TRUE))))
-----------------------------------------------------------------------------
RECURSIVE patch(_, _, _, _), PatchMembers(_, _, _, _, _)

\* Node p of the text is written to q.
patch(f, text, p, q) ==
  IF IsValue(p) THEN set(f, q, text[p])
  ELSE Then(IF q \in DOMAIN f THEN Returned(f, 0) ELSE makeDirectory(f, q, text[p].t), LAMBDA o :
         PatchMembers(o.db, text, Members(text, p), q, IF q \in DOMAIN f THEN f[q].n ELSE 0))

\* The loops of patch: members ms, in the order of the text, go to directory d;
\* the elements of an array are numbered on from `start'.
PatchMembers(f, text, ms, d, start) ==
  LET m == CHOOSE x \in ms : \A y \in ms \ {x} : Before(x, y)
      c == IF isArray(text, parent(m)) THEN Index(start + IndexOf(name(m))) ELSE name(m)
  IN IF ms = {} THEN Returned(f, 1)
     ELSE Then(patch(f, text, m, Replaced(m, withChild(d, c))), LAMBDA o :
            PatchMembers(o.db, text, ms \ {m}, d, start))
-----------------------------------------------------------------------------
\* Those that StoreRecords does not have already.
RemoveCommand(c) ==
  c.op = "remove" /\ ~OfObject(c.at) /\ Done(c, remove(db, c.at, TRUE))

CopyCommand(c) ==
  /\ c.op = "copy" /\ exists(db, c.from)
  /\ ~(IsValue(c.from) /\ IsValue(c.at))
  /\ Counted(c, copy(db, c.from, c.at))

\* Not modelled: a destination that is removed first while the source is in it,
\* or in the array that closes the gap, where move goes on with a stale cursor.
MoveCommand(c) ==
  /\ c.op = "move" /\ exists(db, c.from)
  /\ ~(OfObject(c.from) /\ IsValue(c.at))
  /\ c.at \in DOMAIN db => ~isArray(db, parent(c.at)) /\ ~above(c.at, c.from)
  /\ Counted(c, move(db, c.from, c.at))

ShiftCommand(c) ==
  /\ c.op = "shift" /\ exists(db, c.from)
  /\ Done(c, shift(db, c.from, c.at))

PatchCommand(c) == c.op = "patch" /\ Done(c, patch(db, c.text, Root, Root))

Next ==
  \/ NextRecord
  \/ \E c \in Commands :
       RemoveCommand(c) \/ CopyCommand(c) \/ MoveCommand(c) \/ ShiftCommand(c) \/ PatchCommand(c)

Spec == Init /\ [][Next]_vars
-----------------------------------------------------------------------------
\* A document without damage, from which the two findings below start.
Undamaged == SizesExact /\ ArraysDense /\ OneRecordPerName

\* A value that is moved to a path where there is none is afterwards found
\* there, or where it was: "Copies source record value to the destination record -
\* eventually removing the source record" (janosh.cpp 627-633).
MoveKeepsValue ==
  [][LET c == reply'.c IN
       /\ c.op = "move" /\ Undamaged
       /\ c.from \in DOMAIN db /\ IsValue(c.from)
       /\ c.at \notin DOMAIN db /\ IsValue(c.at)
       => \E p \in {c.from, c.at} \cap DOMAIN db' : db'[p] = db[c.from]]_vars

\* After `remove "/array/*"' the size of the array is 0 (test.sh 85-87).
RangeRemovalEmpties ==
  [][LET c == reply'.c IN
       /\ c.op = "remove" /\ Undamaged
       /\ IsWildcard(c.at) /\ isArray(db, parent(c.at))
       => db'[parent(c.at)].n = 0]_vars
=============================================================================
