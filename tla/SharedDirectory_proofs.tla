----------------------- MODULE SharedDirectory_proofs -----------------------
(***************************************************************************)
(* Proofs about SharedDirectory, for any finite set of workers, any number *)
(* of names and any contents.                                              *)
(***************************************************************************)
EXTENDS SharedDirectory, FiniteSetTheorems, SequenceTheorems, TLAPS

\* size_t does not wrap below Width, and never leaves its range.
LEMMA SizeFits ==
  /\ \A i \in Int : size_t(i) \in 0 .. Width - 1
  /\ \A i \in 0 .. MaxName + 1 : size_t(i) = i
  <1>1. Width \in Nat /\ Width > 0 /\ MaxName \in Nat /\ MaxName + 1 < Width
    BY DirectoryAssumption
  <1> QED BY <1>1 DEF size_t

\* A queue of values without its first.
LEMMA QueueOfValues ==
  ASSUME NEW q \in Seq(Values), q # <<>>
  PROVE  /\ Head(q) \in Values /\ Tail(q) \in Seq(Values)
         /\ Len(q) \in Nat \ {0} /\ Len(Tail(q)) = Len(q) - 1
         /\ Len(q) # 1 => Tail(q) # <<>>
  <1> DEFINE t == Tail(q)
  <1>1. Head(q) \in Values /\ t \in Seq(Values) /\ Len(t) = Len(q) - 1
    BY HeadTailProperties
  <1>2. Len(<<>>) = 0 /\ Len(q) \in Nat \ {0}
    BY EmptySeq
  <1> HIDE DEF t
  <1>3. Len(q) # 1 => t # <<>>
    BY <1>1, <1>2
  <1> QED BY <1>1, <1>2, <1>3 DEF t

\* Which commands each request belongs to, and what they carry by then.
Fits(w) ==
  /\ pc[w] = "idle" <=> op[w] = "none"
  /\ pc[w] = "bounds" => op[w] \in {"set", "add", "replace", "make"}
  /\ pc[w] = "fetch" => op[w] \in {"set", "replace", "append", "make", "remove"}
  /\ pc[w] = "announce" => op[w] \in {"add", "replace", "append", "remove"}
  /\ pc[w] = "write" => op[w] \in {"add", "replace", "append", "make", "remove"}
  /\ pc[w] = "count" => op[w] \in {"add", "make", "remove"}
  /\ pc[w] = "resize" => op[w] \in {"add", "append", "make", "remove"}
  /\ key[w] \in Names \/ (op[w] = "append" /\ pc[w] = "resize")
  /\ op[w] \in {"set", "add", "replace"} => vals[w] # <<>>
  /\ op[w] = "append" /\ pc[w] # "resize" => vals[w] # <<>>
  /\ op[w] = "append" /\ pc[w] \in {"announce", "write", "resize"} =>
       /\ s[w] <= key[w] /\ key[w] + Len(vals[w]) <= MaxName + 1
       /\ pc[w] = "resize" => s[w] < key[w]
  /\ op[w] = "append" => kind = "A"
  /\ op[w] = "remove" => kind = "O"
  /\ op[w] \in {"make", "remove"} => op[w] \in issued

Shape == \A w \in Workers : Fits(w)

NoDirs == "make" \notin issued => dirs = {}

BaseInv == TypeOK /\ Shape /\ NoDirs

Labels == {"idle", "bounds", "fetch", "announce", "write", "count", "resize"}
Operations == {"none", "set", "add", "replace", "append", "make", "remove"}

\* The shape of commands and data at first.
LEMMA InitBase == Init => BaseInv
  <1> SUFFICES ASSUME Init PROVE BaseInv
    OBVIOUS
  <1>1. clean \in BOOLEAN /\ crashed \in BOOLEAN
    BY DEF Init
  <1>2. Shape /\ NoDirs
    BY DirectoryAssumption DEF Init, Shape, Fits, NoDirs, Names
  <1> QED BY <1>1, <1>2, DirectoryAssumption DEF Init, BaseInv, TypeOK, Names

\* What a worker does leaves the commands of the others as they are.
Others(w) ==
  \A u \in Workers \ {w} :
    /\ pc'[u] = pc[u] /\ op'[u] = op[u] /\ key'[u] = key[u]
    /\ vals'[u] = vals[u] /\ s'[u] = s[u]

\* The command of a worker ends.
LEMMA Ending ==
  ASSUME TypeOK, NEW w \in Workers, End(w)
  PROVE  /\ Others(w)
         /\ pc'[w] = "idle" /\ op'[w] = "none" /\ key'[w] = 0 /\ vals'[w] = <<>> /\ s'[w] = 0
  BY DEF TypeOK, End, Goto, Others

\* A worker goes on to its next request without a change of its command.
LEMMA Going ==
  ASSUME TypeOK, NEW w \in Workers, NEW l, Goto(w, l), UNCHANGED <<command, s>>
  PROVE  /\ Others(w)
         /\ pc'[w] = l /\ op'[w] = op[w] /\ key'[w] = key[w]
         /\ vals'[w] = vals[w] /\ s'[w] = s[w]
  BY DEF TypeOK, Goto, command, Others

\* Only one worker at a time moves.
LEMMA OthersStay == ASSUME TypeOK, NEW w \in Workers, Step(w) PROVE Others(w)
  <1>1. CASE StartSome(w)
    <2>1. PICK o, k, vs : Start(w, o, k, vs)
      BY <1>1 DEF StartSome
    <2> QED BY <2>1 DEF Start, Goto, Others, TypeOK
  <1>2. CASE Bounds(w)
    BY <1>2, Ending, Going DEF Bounds
  <1>3. CASE FetchRecord(w)
    <2>1. CASE op[w] = "set"
      BY <1>3, <2>1 DEF FetchRecord, Goto, Others, TypeOK
    <2>2. CASE op[w] # "set"
      BY <1>3, <2>2, Ending, Going DEF FetchRecord
    <2> QED BY <2>1, <2>2
  <1>4. CASE FetchArray(w)
    BY <1>4 DEF FetchArray, Goto, Others, TypeOK
  <1>5. CASE Announce(w) \/ Add(w) \/ Remove(w)
    BY <1>5, Going DEF Announce, Add, Remove
  <1>6. CASE WriteRefused(w) \/ Replace(w) \/ Make(w)
    BY <1>6, Ending DEF WriteRefused, Replace, Make
  <1>7. CASE AppendValue(w)
    BY <1>7 DEF AppendValue, Goto, Others, TypeOK
  <1>8. CASE ReadSize(w)
    BY <1>8 DEF ReadSize, Goto, command, Others, TypeOK
  <1>9. CASE WriteSize(w)
    BY <1>9, Ending, Going DEF WriteSize
  <1> QED BY <1>1, <1>2, <1>3, <1>4, <1>5, <1>6, <1>7, <1>8, <1>9 DEF Step

\* A step of one worker leaves the commands of the others in shape.
LEMMA StepShape ==
  ASSUME Shape, NEW w \in Workers, Others(w), kind' = kind, issued \subseteq issued', Fits(w)'
  PROVE  Shape'
  <1>1. ASSUME NEW u \in Workers \ {w} PROVE Fits(u)'
    BY <1>1 DEF Shape, Fits, Others
  <1> QED BY <1>1 DEF Shape

\* The types of what a worker keeps, after its command has ended or moved on.
CommandTypes ==
  /\ pc \in [Workers -> Labels]
  /\ op \in [Workers -> Operations]
  /\ key \in [Workers -> Nat]
  /\ vals \in [Workers -> Seq(Values)]
  /\ s \in [Workers -> 0 .. Width - 1]

DataTypes ==
  /\ kind \in {"A", "O"}
  /\ size \in 0 .. Width - 1
  /\ value \in [Names -> Values \cup {None}]
  /\ announced \in [Names -> Values \cup {None}]
  /\ dirs \subseteq Names
  /\ left \in 0 .. MaxCommands
  /\ issued \subseteq {"make", "remove"}
  /\ clean \in BOOLEAN /\ crashed \in BOOLEAN
  /\ mixed \subseteq Names

\* TypeOK, in its part about commands and its part about data.
LEMMA Types == TypeOK <=> CommandTypes /\ DataTypes
  BY DEF TypeOK, CommandTypes, DataTypes, Labels, Operations

\* The end of a command.
LEMMA EndBase ==
  ASSUME BaseInv, NEW w \in Workers, End(w), UNCHANGED <<kind, issued>>
  PROVE  CommandTypes' /\ Shape'
  <1>1. CommandTypes'
    <2>1. 0 \in 0 .. Width - 1
      BY DirectoryAssumption
    <2> QED BY <2>1 DEF End, Goto, BaseInv, TypeOK, CommandTypes, Labels, Operations
  <1>2. Fits(w)'
    <2>1. 0 \in Names
      BY DirectoryAssumption DEF Names
    <2> QED BY <2>1, Ending DEF BaseInv, Fits
  <1> QED BY <1>1, <1>2, Ending, StepShape DEF BaseInv

\* A step within a command.
LEMMA GoBase ==
  ASSUME BaseInv, NEW w \in Workers, NEW l \in Labels, Goto(w, l),
         UNCHANGED <<kind, issued, command, s>>, Fits(w)'
  PROVE  CommandTypes' /\ Shape'
  <1>1. CommandTypes'
    BY DEF Goto, command, BaseInv, TypeOK, CommandTypes, Labels, Operations
  <1> QED BY <1>1, Going, StepShape DEF BaseInv

\* Every step keeps commands and data in shape.
LEMMA NextBase == BaseInv /\ [Next]_vars => BaseInv'
  <1> SUFFICES ASSUME BaseInv, [Next]_vars PROVE BaseInv'
    OBVIOUS
  <1>d. MaxName \in Nat /\ Names \subseteq Nat /\ 0 \in Names /\ Width \in Nat /\ MaxName + 1 < Width
    BY DirectoryAssumption DEF Names
  <1>b. TypeOK /\ Shape /\ NoDirs /\ CommandTypes /\ DataTypes
    BY Types DEF BaseInv
  <1>f. ASSUME NEW w \in Workers PROVE Fits(w)
    BY <1>b DEF Shape
  <1>t. CommandTypes' /\ DataTypes' /\ Shape' /\ NoDirs' => BaseInv'
    BY Types DEF BaseInv, TypeOK, CommandTypes, DataTypes, Labels, Operations
  <1>1. CASE UNCHANGED vars
    BY <1>1, <1>b DEF vars, BaseInv, TypeOK, Shape, Fits, NoDirs
  <1>2. CASE Crash
    <2>1. /\ pc' = [w \in Workers |-> "idle"]
          /\ op' = [w \in Workers |-> "none"]
          /\ key' = [w \in Workers |-> 0]
          /\ vals' = [w \in Workers |-> <<>>]
          /\ s' = [w \in Workers |-> 0]
          /\ UNCHANGED <<kind, size, value, dirs, announced, left, issued>>
          /\ clean' \in BOOLEAN /\ crashed' \in BOOLEAN
      BY <1>2 DEF Crash, stored
    <2>2. Shape' /\ NoDirs'
      BY <2>1, <1>b, <1>d DEF Shape, Fits, NoDirs
    <2>3. mixed' \subseteq Names
      BY <1>2, <1>b DEF Crash, TypeOK, Shape, Fits
    <2>4. CommandTypes'
      BY <2>1, <1>d DEF CommandTypes, Labels, Operations
    <2> QED BY <2>1, <2>2, <2>3, <2>4, <1>b, <1>t DEF DataTypes
  <1>3. ASSUME NEW w \in Workers, NEW o \in {"set", "add", "replace", "append", "make", "remove"},
               NEW k \in Names, NEW vs \in Seq(Values), Start(w, o, k, vs),
               o \in {"set", "add", "replace", "append"} => vs # <<>>,
               o = "append" => kind = "A", o = "remove" => kind = "O"
        PROVE  BaseInv'
    <2>1. /\ pc' = [pc EXCEPT ![w] = IF o \in {"set", "add"} THEN "bounds" ELSE "fetch"]
          /\ op' = [op EXCEPT ![w] = o]
          /\ key' = [key EXCEPT ![w] = k]
          /\ vals' = [vals EXCEPT ![w] = vs]
          /\ UNCHANGED <<kind, size, value, dirs, announced, s, clean, mixed, crashed>>
          /\ issued' = issued \cup ({o} \cap {"make", "remove"})
          /\ left > 0 /\ left' = left - 1
      BY <1>3 DEF Start, Goto, stored
    <2>2. CommandTypes'
      BY <2>1, <1>3, <1>b, <1>d DEF CommandTypes, Labels, Operations
    <2>3. DataTypes'
      <3>1. left' \in 0 .. MaxCommands
        BY <2>1, <1>b, DirectoryAssumption DEF DataTypes
      <3> QED BY <2>1, <3>1, <1>b DEF DataTypes
    <2>4. Others(w) /\ Fits(w)'
      BY <2>1, <1>3, <1>b DEF Others, Fits, CommandTypes
    <2> QED BY <2>1, <2>2, <2>3, <2>4, <1>b, <1>t, StepShape DEF NoDirs
  <1>4. ASSUME NEW w \in Workers, StartSome(w) PROVE BaseInv'
    <2>1. \A v \in Values : <<v>> \in Seq(Values) /\ <<v, v>> \in Seq(Values)
                             /\ <<v>> # <<>> /\ <<v, v>> # <<>>
      OBVIOUS
    <2>2. <<>> \in Seq(Values)
      OBVIOUS
    <2> QED BY <1>3, <1>4, <1>d, <2>1, <2>2 DEF StartSome
  <1>5. ASSUME NEW w \in Workers, Bounds(w) PROVE BaseInv'
    <2>1. DataTypes' /\ NoDirs' /\ UNCHANGED <<kind, issued>>
      BY <1>5, <1>b DEF Bounds, stored, history, DataTypes, NoDirs
    <2>2. CASE End(w)
      BY <2>1, <2>2, <1>t, EndBase
    <2>3. CASE ~End(w)
      <3> DEFINE l == IF op[w] = "set" THEN "fetch" ELSE IF op[w] = "make" THEN "count" ELSE "announce"
      <3>1. pc[w] = "bounds" /\ Goto(w, l) /\ UNCHANGED <<command, s>>
        BY <1>5, <2>3 DEF Bounds
      <3>2. l \in Labels
        BY DEF Labels
      <3>3. Fits(w)'
        <4>1. op[w] \in {"set", "add", "replace", "make"}
          BY <3>1, <1>f DEF Fits
        <4>2. /\ pc'[w] = l /\ op'[w] = op[w] /\ key'[w] = key[w]
              /\ vals'[w] = vals[w] /\ s'[w] = s[w]
          BY <3>1, <1>b, Going
        <4> QED BY <2>1, <3>1, <4>1, <4>2, <1>f DEF Fits
      <3> HIDE DEF l
      <3> QED BY <2>1, <3>1, <3>2, <3>3, <1>t, GoBase
    <2> QED BY <2>2, <2>3
  <1>6. ASSUME NEW w \in Workers, FetchRecord(w) PROVE BaseInv'
    <2>1. DataTypes' /\ NoDirs' /\ UNCHANGED <<kind, issued>> /\ pc[w] = "fetch"
      BY <1>6, <1>b DEF FetchRecord, stored, history, DataTypes, NoDirs
    <2>2. CASE End(w)
      BY <2>1, <2>2, <1>t, EndBase
    <2>3. CASE op[w] = "set"
      <3>1. PICK o \in {"replace", "add"} :
              op' = [op EXCEPT ![w] = o] /\ Goto(w, "bounds") /\ UNCHANGED <<key, vals, s>>
        BY <1>6, <2>3 DEF FetchRecord
      <3>2. CommandTypes'
        BY <3>1, <1>b DEF Goto, CommandTypes, Labels, Operations
      <3>3. Others(w) /\ Fits(w)'
        BY <3>1, <2>1, <2>3, <1>b, <1>f DEF Goto, Others, Fits, CommandTypes
      <3> QED BY <2>1, <3>2, <3>3, <1>b, <1>t, StepShape
    <2>4. CASE op[w] # "set" /\ ~End(w)
      <3> DEFINE l == IF op[w] = "remove" THEN "count" ELSE "bounds"
      <3>1. op[w] \in {"replace", "make", "remove"} /\ Goto(w, l) /\ UNCHANGED <<command, s>>
        BY <1>6, <2>4 DEF FetchRecord
      <3>2. l \in Labels
        BY DEF Labels
      <3>3. Fits(w)'
        <4>1. /\ pc'[w] = l /\ op'[w] = op[w] /\ key'[w] = key[w]
              /\ vals'[w] = vals[w] /\ s'[w] = s[w]
          BY <3>1, <1>b, Going
        <4> QED BY <2>1, <3>1, <4>1, <1>f DEF Fits
      <3> HIDE DEF l
      <3> QED BY <2>1, <3>1, <3>2, <3>3, <1>t, GoBase
    <2> QED BY <2>2, <2>3, <2>4
  <1>7. ASSUME NEW w \in Workers, FetchArray(w) PROVE BaseInv'
    <2>1. DataTypes' /\ NoDirs' /\ UNCHANGED <<kind, issued>>
      BY <1>7, <1>b DEF FetchArray, stored, history, DataTypes, NoDirs
    <2>2. /\ pc[w] = "fetch" /\ op[w] = "append" /\ size + Len(vals[w]) - 1 \in Names
          /\ pc' = [pc EXCEPT ![w] = "announce"] /\ UNCHANGED <<op, vals>>
          /\ key' = [key EXCEPT ![w] = size] /\ s' = [s EXCEPT ![w] = size]
      BY <1>7 DEF FetchArray, Goto
    <2>3. vals[w] # <<>> /\ Len(vals[w]) \in Nat \ {0} /\ size \in 0 .. Width - 1
      BY <2>2, <1>b, <1>f, EmptySeq DEF CommandTypes, DataTypes, Fits
    <2>4. size \in Names /\ size + Len(vals[w]) <= MaxName + 1
      BY <2>2, <2>3, <1>d DEF Names
    <2>5. CommandTypes'
      BY <2>2, <2>3, <1>b, <1>d DEF CommandTypes, Labels, Operations
    <2>6. Others(w) /\ pc'[w] = "announce" /\ key'[w] = size /\ s'[w] = size
      BY <2>2, <1>b DEF Others, CommandTypes
    <2>7. Fits(w)'
      BY <2>1, <2>2, <2>3, <2>4, <2>6, <1>d, <1>f DEF Fits
    <2> QED BY <2>1, <2>5, <2>6, <2>7, <1>b, <1>t, StepShape
  <1>8. ASSUME NEW w \in Workers, Announce(w) PROVE BaseInv'
    <2>1. /\ pc[w] = "announce" /\ Goto(w, "write") /\ UNCHANGED <<stored, command, s>>
          /\ UNCHANGED <<left, issued, clean, crashed>>
          /\ announced' = [announced EXCEPT ![key[w]] = Outcome(w)]
          /\ mixed' = mixed \cup ({key[w]} \cap BeingWritten(w))
      BY <1>8 DEF Announce
    <2>2. op[w] \in {"add", "replace", "append", "remove"} /\ vals[w] \in Seq(Values)
          /\ (op[w] # "remove" => vals[w] # <<>>) /\ key[w] \in Names
      BY <2>1, <1>b, <1>f DEF Fits, CommandTypes
    <2>3. Outcome(w) \in Values \cup {None}
      BY <2>2, QueueOfValues DEF Outcome
    <2>4. DataTypes' /\ NoDirs' /\ UNCHANGED <<kind, issued>>
      BY <2>1, <2>2, <2>3, <1>b DEF stored, DataTypes, NoDirs
    <2>5. Fits(w)'
      <3>1. /\ pc'[w] = "write" /\ op'[w] = op[w] /\ key'[w] = key[w]
            /\ vals'[w] = vals[w] /\ s'[w] = s[w]
        BY <2>1, <1>b, Going
      <3> QED BY <2>1, <2>2, <2>4, <3>1, <1>f DEF Fits
    <2> QED BY <2>1, <2>4, <2>5, <1>t, GoBase DEF Labels
  <1>9. ASSUME NEW w \in Workers, WriteRefused(w) PROVE BaseInv'
    <2>1. key[w] \in Names
      BY <1>9, <1>f DEF WriteRefused, Fits
    <2>2. End(w) /\ UNCHANGED <<kind, size, value, dirs, announced, left, issued, crashed>>
      BY <1>9 DEF WriteRefused, stored
    <2>3. clean' \in BOOLEAN /\ mixed' \subseteq Names
      BY <1>9, <1>b, <2>1 DEF WriteRefused, DataTypes
    <2>4. DataTypes' /\ NoDirs'
      BY <2>2, <2>3, <1>b DEF DataTypes, NoDirs
    <2> QED BY <2>2, <2>4, <1>t, EndBase
  <1>10. ASSUME NEW w \in Workers, Add(w) PROVE BaseInv'
    <2>1. /\ pc[w] = "write" /\ op[w] = "add" /\ Goto(w, "count") /\ UNCHANGED <<command, s>>
          /\ value' = [value EXCEPT ![key[w]] = Head(vals[w])]
          /\ UNCHANGED <<kind, size, dirs, announced, left, issued, clean, mixed, crashed>>
      BY <1>10 DEF Add, Put, history
    <2>2. Head(vals[w]) \in Values
      BY <2>1, <1>b, <1>f, QueueOfValues DEF Fits, CommandTypes
    <2>3. DataTypes' /\ NoDirs'
      BY <2>1, <2>2, <1>b DEF DataTypes, NoDirs
    <2>4. Fits(w)'
      <3>1. /\ pc'[w] = "count" /\ op'[w] = op[w] /\ key'[w] = key[w]
            /\ vals'[w] = vals[w] /\ s'[w] = s[w]
        BY <2>1, <1>b, Going
      <3> QED BY <2>1, <3>1, <1>f DEF Fits
    <2> QED BY <2>1, <2>3, <2>4, <1>t, GoBase DEF Labels
  <1>11. ASSUME NEW w \in Workers, AppendValue(w) PROVE BaseInv'
    <2>1. vals[w] \in Seq(Values) /\ vals[w] # <<>>
      BY <1>11, <1>b, <1>f DEF AppendValue, CommandTypes, Fits
    <2>2. /\ Head(vals[w]) \in Values /\ Tail(vals[w]) \in Seq(Values)
          /\ Len(vals[w]) # 1 => Tail(vals[w]) # <<>>
          /\ Len(vals[w]) \in Nat \ {0} /\ Len(Tail(vals[w])) = Len(vals[w]) - 1
      BY <2>1, QueueOfValues
    <2> DEFINE h == Head(vals[w])
               tl == Tail(vals[w])
    <2>3. /\ op[w] = "append" /\ pc[w] = "write"
          /\ value' = [value EXCEPT ![key[w]] = h]
          /\ key' = [key EXCEPT ![w] = key[w] + 1]
          /\ vals' = [vals EXCEPT ![w] = tl]
          /\ pc' = [pc EXCEPT ![w] = IF Len(vals[w]) = 1 THEN "resize" ELSE "announce"]
          /\ UNCHANGED <<kind, size, dirs, announced, op, s, left, issued, clean, mixed, crashed>>
      BY <1>11 DEF AppendValue, Put, Goto, history
    <2>4. /\ h \in Values /\ tl \in Seq(Values) /\ (Len(vals[w]) # 1 => tl # <<>>)
          /\ Len(tl) = Len(vals[w]) - 1
      BY <2>2
    <2> HIDE DEF h, tl
    <2>5. DataTypes' /\ NoDirs'
      BY <2>3, <2>4, <1>b DEF DataTypes, NoDirs
    <2>6. CommandTypes'
      <3>1. key' \in [Workers -> Nat] /\ vals' \in [Workers -> Seq(Values)]
        BY <2>3, <2>4, <1>b DEF CommandTypes
      <3> QED BY <2>3, <3>1, <1>b DEF CommandTypes, Labels
    <2>7. /\ Others(w) /\ key'[w] = key[w] + 1 /\ vals'[w] = tl
          /\ pc'[w] = IF Len(vals[w]) = 1 THEN "resize" ELSE "announce"
      BY <2>3, <1>b DEF Others, CommandTypes
    <2>8. Fits(w)'
      <3>1. key[w] \in Nat /\ s[w] \in Nat /\ s[w] <= key[w] /\ key[w] + Len(vals[w]) <= MaxName + 1
        BY <2>3, <1>b, <1>d, <1>f DEF CommandTypes, Fits
      <3>2. /\ s[w] < key[w] + 1 /\ key[w] + 1 + Len(tl) <= MaxName + 1
            /\ Len(vals[w]) # 1 => key[w] + 1 \in Names
        <4>1. Len(vals[w]) # 1 => key[w] + 1 <= MaxName
          BY <2>2, <3>1, <1>d
        <4>2. key[w] + 1 + Len(tl) = key[w] + Len(vals[w])
          BY <2>2, <2>4, <3>1
        <4> QED BY <3>1, <4>1, <4>2, <1>d DEF Names
      <3> QED BY <2>3, <2>4, <2>7, <3>1, <3>2, <1>f DEF Fits
    <2> QED BY <2>3, <2>5, <2>6, <2>7, <2>8, <1>b, <1>t, StepShape
  <1>12. ASSUME NEW w \in Workers, Replace(w) PROVE BaseInv'
    <2>1. /\ pc[w] = "write" /\ op[w] = "replace" /\ End(w)
          /\ value' = [value EXCEPT ![key[w]] = Head(vals[w])]
          /\ UNCHANGED <<kind, size, dirs, announced, left, issued, clean, mixed, crashed>>
      BY <1>12 DEF Replace, Put, history
    <2>2. Head(vals[w]) \in Values
      BY <2>1, <1>b, <1>f, QueueOfValues DEF Fits, CommandTypes
    <2>3. DataTypes' /\ NoDirs'
      BY <2>1, <2>2, <1>b DEF DataTypes, NoDirs
    <2> QED BY <2>1, <2>3, <1>t, EndBase
  <1>13. ASSUME NEW w \in Workers, Remove(w) PROVE BaseInv'
    <2>1. /\ pc[w] = "write" /\ op[w] = "remove" /\ Goto(w, "resize") /\ UNCHANGED <<command, s>>
          /\ value' = [value EXCEPT ![key[w]] = None]
          /\ UNCHANGED <<kind, size, dirs, announced, left, issued, clean, mixed, crashed>>
      BY <1>13 DEF Remove, Put, history
    <2>2. DataTypes' /\ NoDirs'
      BY <2>1, <1>b DEF DataTypes, NoDirs
    <2>3. Fits(w)'
      <3>1. /\ pc'[w] = "resize" /\ op'[w] = op[w] /\ key'[w] = key[w]
            /\ vals'[w] = vals[w] /\ s'[w] = s[w]
        BY <2>1, <1>b, Going
      <3> QED BY <2>1, <3>1, <1>f DEF Fits
    <2> QED BY <2>1, <2>2, <2>3, <1>t, GoBase DEF Labels
  <1>14. ASSUME NEW w \in Workers, Make(w) PROVE BaseInv'
    <2>1. /\ pc[w] = "write" /\ op[w] = "make" /\ End(w)
          /\ dirs' = dirs \cup {key[w]} /\ clean' \in BOOLEAN
          /\ UNCHANGED <<kind, size, value, announced, left, issued, mixed, crashed>>
      BY <1>14 DEF Make
    <2>2. key[w] \in Names /\ "make" \in issued
      BY <2>1, <1>f DEF Fits
    <2>3. DataTypes' /\ NoDirs'
      BY <2>1, <2>2, <1>b DEF DataTypes, NoDirs
    <2> QED BY <2>1, <2>3, <1>t, EndBase
  <1>15. ASSUME NEW w \in Workers, ReadSize(w) PROVE BaseInv'
    <2>1. /\ pc[w] = "count" /\ UNCHANGED <<op, key, vals>>
          /\ s' = [s EXCEPT ![w] = size]
          /\ pc' = [pc EXCEPT ![w] = IF op[w] = "remove" THEN "announce" ELSE "resize"]
          /\ UNCHANGED <<kind, size, value, dirs, announced, left, issued, clean, mixed, crashed>>
      BY <1>15 DEF ReadSize, Goto, stored, command, history
    <2>2. DataTypes' /\ NoDirs'
      BY <2>1, <1>b DEF DataTypes, NoDirs
    <2>3. CommandTypes'
      BY <2>1, <1>b DEF CommandTypes, DataTypes, Labels
    <2>4. Others(w) /\ pc'[w] = IF op[w] = "remove" THEN "announce" ELSE "resize"
      BY <2>1, <1>b DEF Others, CommandTypes
    <2>5. Fits(w)'
      BY <2>1, <2>4, <1>f DEF Fits
    <2> QED BY <2>1, <2>2, <2>3, <2>4, <2>5, <1>b, <1>t, StepShape
  <1>16. ASSUME NEW w \in Workers, WriteSize(w) PROVE BaseInv'
    <2>1. size' \in 0 .. Width - 1
      <3>1. key[w] \in Int /\ s[w] \in Int
        BY <1>b, <1>d DEF CommandTypes
      <3> QED BY <1>16, <3>1, SizeFits DEF WriteSize, NewSize
    <2>2. /\ pc[w] = "resize" /\ clean' \in BOOLEAN
          /\ UNCHANGED <<kind, value, dirs, announced, left, issued, mixed, crashed>>
      BY <1>16 DEF WriteSize
    <2>3. DataTypes' /\ NoDirs'
      BY <2>1, <2>2, <1>b DEF DataTypes, NoDirs
    <2>4. CASE op[w] # "make"
      <3>1. End(w)
        BY <1>16, <2>4 DEF WriteSize
      <3> QED BY <2>2, <2>3, <3>1, <1>t, EndBase
    <2>5. CASE op[w] = "make"
      <3>1. Goto(w, "write") /\ UNCHANGED <<command, s>>
        BY <1>16, <2>5 DEF WriteSize
      <3>2. Fits(w)'
        <4>1. /\ pc'[w] = "write" /\ op'[w] = op[w] /\ key'[w] = key[w]
              /\ vals'[w] = vals[w] /\ s'[w] = s[w]
          BY <3>1, <1>b, Going
        <4> QED BY <2>2, <2>5, <4>1, <1>f DEF Fits
      <3> QED BY <2>2, <2>3, <3>1, <3>2, <1>t, GoBase DEF Labels
    <2> QED BY <2>4, <2>5
  <1> QED BY <1>1, <1>2, <1>4, <1>5, <1>6, <1>7, <1>8, <1>9, <1>10, <1>11,
             <1>12, <1>13, <1>14, <1>15, <1>16 DEF Next, Step

\* The type invariant of the directory and its workers.
THEOREM TypeCorrect == Spec => []TypeOK
  <1>1. BaseInv => TypeOK
    BY DEF BaseInv
  <1> QED BY <1>1, InitBase, NextBase, PTL DEF Spec

-----------------------------------------------------------------------------
\* About to write at the end of an array, as it was when w read its size.
Entering(w) ==
  /\ pc[w] \in {"announce", "write"}
  /\ op[w] = "add" \/ (op[w] = "append" /\ key[w] = s[w])

\* The size from which a command that is half way started, and the one it
\* will write if it goes no further.
Base(w) == IF op[w] = "add" THEN key[w] ELSE s[w]
Top(w) == IF op[w] = "add" THEN key[w] + 1 ELSE key[w]

Filled(n) == \A k \in Names : k \in Elements <=> k < n

\* The array is filled up to the size, or beyond it by the one command that is
\* half way; before a crash, by nothing else.
InTurns ==
  /\ size <= MaxName + 1
  /\ \A k \in Names : k < size => k \in Elements
  /\ Dense
  /\ \A w \in Workers : Entering(w) => key[w] <= size
  /\ \A w \in Workers : Halfway(w) => size = Base(w) /\ Filled(Top(w))
  /\ \A w \in Workers : op[w] = "add" /\ pc[w] = "resize" => s[w] = size
  /\ \A u, w \in Workers : Halfway(u) /\ Halfway(w) => u = w
  /\ ~crashed => clean
  /\ ~crashed /\ (\A w \in Workers : ~Halfway(w)) => Filled(size)

ArrayInv == kind = "A" /\ issued = {} => InTurns

\* Only w has moved, and it is half way now if and where it was before.
LEMMA QuietInTurns ==
  ASSUME InTurns, NEW w \in Workers,
         \A u \in Workers \ {w} :
           pc'[u] = pc[u] /\ op'[u] = op[u] /\ key'[u] = key[u] /\ s'[u] = s[u],
         UNCHANGED <<size, Elements, clean, crashed>>,
         Halfway(w)' <=> Halfway(w),
         Halfway(w) => /\ op'[w] = op[w] /\ key'[w] = key[w] /\ s'[w] = s[w]
                       /\ pc'[w] = "resize" <=> pc[w] = "resize",
         Entering(w)' => key'[w] <= size
  PROVE  InTurns'
  <1>1. \A u \in Workers : Halfway(u)' <=> Halfway(u)
    BY DEF Halfway
  <1>2. \A u \in Workers : Halfway(u) => Base(u)' = Base(u) /\ Top(u)' = Top(u)
    BY DEF Base, Top
  <1>3. \A u \in Workers : Entering(u)' => key'[u] <= size'
    BY DEF Entering, InTurns
  <1>4. \A u \in Workers : op'[u] = "add" /\ pc'[u] = "resize" => s'[u] = size'
    BY DEF Halfway, InTurns
  <1>5. Dense' <=> Dense
    BY DEF Dense
  <1>6. /\ \A n : Filled(n)' <=> Filled(n)
        /\ \A u \in Workers : Halfway(u)' => size' = Base(u)' /\ Filled(Top(u))'
    BY <1>1, <1>2 DEF InTurns, Filled
  <1> QED BY <1>1, <1>3, <1>4, <1>5, <1>6 DEF InTurns

\* A write at the end, by w that finds the name free, makes w the one command
\* that is half way.
LEMMA WriteInTurns ==
  ASSUME BaseInv, InTurns, issued = {}, NEW w \in Workers,
         Entering(w) \/ Halfway(w),
         key[w] \in Names, key[w] \notin Elements,
         \A u \in Workers \ {w} :
           pc'[u] = pc[u] /\ op'[u] = op[u] /\ key'[u] = key[u] /\ s'[u] = s[u],
         Elements' = Elements \cup {key[w]},
         op'[w] = op[w] /\ s'[w] = s[w],
         ~Entering(w)', Halfway(w)', Top(w)' = key[w] + 1,
         Base(w)' = IF Halfway(w) THEN Base(w) ELSE key[w],
         Halfway(w) => Top(w) = key[w],
         ~(op[w] = "add" /\ pc'[w] = "resize"),
         UNCHANGED <<size, clean, crashed>>
  PROVE  InTurns'
  <1>d. MaxName \in Nat /\ Names = 0 .. MaxName /\ size \in Nat
    BY DirectoryAssumption DEF Names, BaseInv, TypeOK
  <1>1. Filled(key[w]) /\ size = (IF Halfway(w) THEN Base(w) ELSE key[w]) /\ size <= key[w]
    <2>1. CASE Halfway(w)
      <3>1. size = Base(w) /\ Filled(key[w])
        BY <2>1 DEF InTurns
      <3>2. size <= key[w]
        BY <3>1, <1>d DEF InTurns
      <3> QED BY <2>1, <3>1, <3>2
    <2>2. CASE ~Halfway(w)
      <3>1. key[w] <= size
        BY <2>2 DEF InTurns
      <3>2. key[w] = size
        BY <3>1, <1>d DEF InTurns
      <3>3. Filled(key[w])
        BY <3>2, <1>d DEF InTurns, Dense, Filled
      <3> QED BY <2>2, <3>2, <3>3, <1>d
    <2> QED BY <2>1, <2>2
  <1>2. \A k \in Names : k \in Elements' <=> k < key[w] + 1
    BY <1>1, <1>d DEF Filled
  <1>3. \A u \in Workers \ {w} : ~Halfway(u)
    <2> SUFFICES ASSUME NEW u \in Workers \ {w}, Halfway(u) PROVE FALSE
      OBVIOUS
    <2>1. CASE Halfway(w)
      BY <2>1 DEF InTurns
    <2>2. CASE ~Halfway(w)
      <3>1. size = Base(u) /\ Filled(Top(u)) /\ size = key[w]
        BY <1>1, <2>2 DEF InTurns
      <3>2. key[u] \in Nat /\ s[u] \in Nat
        BY DirectoryAssumption DEF BaseInv, TypeOK
      <3>3. Base(u) < Top(u) /\ Top(u) \in Nat
        <4>1. op[u] \in {"add", "append"} /\ (op[u] = "append" => s[u] < key[u])
          BY DEF Halfway, BaseInv, Shape, Fits
        <4> QED BY <3>2, <4>1 DEF Base, Top
      <3> QED BY <3>1, <3>3, <1>d DEF Filled
    <2> QED BY <2>1, <2>2
  <1>4. \A u \in Workers : Halfway(u)' <=> u = w
    BY <1>3 DEF Halfway
  <1>5. Dense' /\ \A k \in Names : k < size' => k \in Elements'
    <2>1. key[w] \in Nat
      BY DEF BaseInv, TypeOK
    <2>2. \A k \in Names : k < size => k < key[w] + 1
      BY <1>1, <1>d, <2>1
    <2>3. \A j, k \in Names : j < k /\ k < key[w] + 1 => j < key[w] + 1
      BY <1>d, <2>1
    <2> QED BY <1>2, <2>2, <2>3 DEF Dense
  <1>6. size' = Base(w)' /\ Filled(Top(w))'
    BY <1>1, <1>2 DEF Filled
  <1>7. \A u \in Workers : Entering(u)' => key'[u] <= size'
    BY DEF Entering, InTurns
  <1>8. \A u \in Workers : op'[u] = "add" /\ pc'[u] = "resize" => s'[u] = size'
    BY DEF InTurns
  <1> QED BY <1>4, <1>5, <1>6, <1>7, <1>8 DEF InTurns

\* The size is written by the one command that is half way, over the size it
\* has read.
LEMMA ResizeInTurns ==
  ASSUME BaseInv, InTurns, NEW w \in Workers, WriteSize(w),
         op[w] \in {"add", "append"}
  PROVE  InTurns'
  <1>d. MaxName \in Nat /\ Names = 0 .. MaxName /\ size \in Nat /\ Workers # {}
    BY DirectoryAssumption DEF Names, BaseInv, TypeOK
  <1>1. pc[w] = "resize" /\ Halfway(w)
    BY DEF WriteSize, Halfway, BaseInv, Shape, Fits
  <1>2. /\ size = Base(w) /\ Filled(Top(w)) /\ s[w] = size
        /\ \A u \in Workers \ {w} : ~Halfway(u)
    BY <1>1 DEF InTurns, Base
  <1>3. Top(w) \in 0 .. MaxName + 1 /\ size < Top(w)
    <2>1. Len(vals[w]) \in Nat /\ key[w] \in Nat /\ s[w] \in Nat
      BY LenProperties, DirectoryAssumption DEF BaseInv, TypeOK
    <2>2. CASE op[w] = "add"
      <3>1. key[w] \in Names
        BY <2>2 DEF BaseInv, Shape, Fits
      <3> QED BY <1>2, <1>d, <2>1, <2>2, <3>1 DEF Base, Top
    <2>3. CASE op[w] = "append"
      <3>1. s[w] < key[w] /\ key[w] + Len(vals[w]) <= MaxName + 1
        BY <1>1, <2>3 DEF BaseInv, Shape, Fits
      <3> QED BY <1>2, <1>d, <2>1, <2>3, <3>1 DEF Base, Top
    <2> QED BY <2>2, <2>3
  <1>4. size' = Top(w)
    <2>1. NewSize(w) = size_t(Top(w))
      BY <1>2 DEF NewSize, Top, Base
    <2> QED BY <1>3, <2>1, SizeFits DEF WriteSize
  <1>5. End(w) /\ UNCHANGED <<value, crashed>> /\ clean' = clean
    <2>1. clean' = (clean /\ s[w] = size)
      BY DEF WriteSize
    <2>2. clean' = clean
      BY <2>1, <1>2 DEF BaseInv, TypeOK
    <2> QED BY <2>2 DEF WriteSize
  <1>6. /\ \A u \in Workers \ {w} :
               pc'[u] = pc[u] /\ op'[u] = op[u] /\ key'[u] = key[u] /\ s'[u] = s[u]
        /\ pc'[w] = "idle" /\ op'[w] = "none"
    BY <1>5 DEF End, Goto, BaseInv, TypeOK
  <1>7. \A u \in Workers : ~Halfway(u)'
    BY <1>2, <1>6 DEF Halfway
  <1>8. Elements' = Elements
    BY <1>5 DEF Elements
  <1>9. Filled(size)' /\ Dense' /\ \A k \in Names : k < size' => k \in Elements'
    BY <1>2, <1>4, <1>8 DEF Filled, InTurns, Dense
  <1>10. \A u \in Workers : Entering(u)' => key'[u] <= size'
    <2> SUFFICES ASSUME NEW u \in Workers, Entering(u)' PROVE key'[u] <= size'
      OBVIOUS
    <2>1. u # w /\ Entering(u) /\ key'[u] = key[u]
      BY <1>6 DEF Entering
    <2>2. key[u] <= size /\ key[u] \in Nat
      BY <2>1 DEF InTurns, BaseInv, TypeOK
    <2> QED BY <2>1, <2>2, <1>3, <1>4, <1>d
  <1>11. \A u \in Workers : ~(op'[u] = "add" /\ pc'[u] = "resize")
    BY <1>6, <1>7 DEF Halfway
  <1> QED BY <1>3, <1>4, <1>5, <1>7, <1>9, <1>10, <1>11 DEF InTurns

\* An array that nobody removes from or makes directories in.
LEMMA NextInTurns ==
  ASSUME BaseInv, BaseInv', ArrayInv, [Next]_vars, kind = "A", issued' = {}
  PROVE  InTurns'
  <1>d. MaxName \in Nat /\ Names = 0 .. MaxName /\ size \in Nat
    BY DirectoryAssumption DEF Names, BaseInv, TypeOK
  <1>i. issued = {} /\ InTurns /\ \A w \in Workers : op[w] \notin {"make", "remove"}
    <2>1. issued = {}
      BY DEF Next, vars, Step, StartSome, Start, Bounds, FetchRecord, FetchArray, Announce,
             WriteRefused, Add, AppendValue, Replace, Remove, Make, ReadSize, WriteSize,
             Crash, history
    <2> QED BY <2>1 DEF ArrayInv, BaseInv, Shape, Fits
  <1>1. CASE UNCHANGED vars
    BY <1>1, <1>i DEF vars, InTurns, Elements, Dense, Entering, Halfway, Base, Top, Filled
  <1>2. CASE Crash
    <2>1. \A w \in Workers : ~Halfway(w)' /\ ~Entering(w)' /\ op'[w] = "none"
      BY <1>2 DEF Crash, Halfway, Entering
    <2>2. crashed' = TRUE /\ size' = size /\ Elements' = Elements
      BY <1>2 DEF Crash, stored, Elements
    <2> QED BY <1>i, <2>1, <2>2 DEF InTurns, Dense
  <1>3. ASSUME NEW w \in Workers, StartSome(w) PROVE InTurns'
    <2>1. PICK o, k, vs : Start(w, o, k, vs)
      BY <1>3 DEF StartSome
    <2>2. /\ ~Halfway(w) /\ ~Halfway(w)' /\ ~Entering(w)'
          /\ UNCHANGED <<size, Elements, clean, crashed>>
      BY <2>1 DEF Start, Goto, stored, Elements, Halfway, Entering, BaseInv, TypeOK
    <2>3. \A u \in Workers \ {w} :
            pc'[u] = pc[u] /\ op'[u] = op[u] /\ key'[u] = key[u] /\ s'[u] = s[u]
      BY <1>3, OthersStay DEF Step, Others, BaseInv
    <2> QED BY <1>i, <2>2, <2>3, QuietInTurns
  <1>4. ASSUME NEW w \in Workers, Bounds(w) PROVE InTurns'
    <2>1. /\ pc[w] = "bounds" /\ pc'[w] \in {"idle", "fetch", "count", "announce"}
          /\ op[w] # "append" /\ op[w] # "make"
          /\ ~Halfway(w) /\ UNCHANGED <<size, Elements, clean, crashed>>
      <3>1. pc[w] = "bounds" /\ op[w] # "append" /\ op[w] # "make"
        BY <1>4, <1>i DEF Bounds, BaseInv, Shape, Fits
      <3>2. pc'[w] \in {"idle", "fetch", "count", "announce"}
        BY <1>4 DEF Bounds, End, Goto, BaseInv, TypeOK
      <3>3. UNCHANGED <<size, Elements, clean, crashed>>
        BY <1>4 DEF Bounds, stored, history, Elements
      <3> QED BY <3>1, <3>2, <3>3 DEF Halfway
    <2>2. \A u \in Workers \ {w} :
            pc'[u] = pc[u] /\ op'[u] = op[u] /\ key'[u] = key[u] /\ s'[u] = s[u]
      BY <1>4, OthersStay DEF Step, Others, BaseInv
    <2>3. ~Halfway(w)'
      BY <1>4, <1>i, <2>1 DEF Bounds, End, Goto, command, Halfway, BaseInv, TypeOK, Shape, Fits
    <2>4. Entering(w)' => key'[w] <= size
      BY <1>4, <1>d DEF Bounds, End, Goto, command, Entering, BaseInv, TypeOK
    <2> QED BY <1>i, <2>1, <2>2, <2>3, <2>4, QuietInTurns
  <1>5. ASSUME NEW w \in Workers, FetchRecord(w) PROVE InTurns'
    <2>1. /\ ~Halfway(w) /\ UNCHANGED <<size, Elements, clean, crashed>>
          /\ pc'[w] \in {"idle", "bounds", "count"}
          /\ pc'[w] = "count" => op'[w] = "remove"
      BY <1>5, <1>i DEF FetchRecord, End, Goto, stored, history, command, Elements, Halfway, BaseInv, TypeOK
    <2>2. \A u \in Workers \ {w} :
            pc'[u] = pc[u] /\ op'[u] = op[u] /\ key'[u] = key[u] /\ s'[u] = s[u]
      BY <1>5, OthersStay DEF Step, Others, BaseInv
    <2>3. ~Halfway(w)' /\ ~Entering(w)'
      BY <2>1 DEF Halfway, Entering
    <2> QED BY <1>i, <2>1, <2>2, <2>3, QuietInTurns
  <1>6. ASSUME NEW w \in Workers, FetchArray(w) PROVE InTurns'
    <2>1. /\ pc[w] = "fetch" /\ op'[w] = "append" /\ key'[w] = size /\ s'[w] = size
          /\ ~Halfway(w) /\ UNCHANGED <<size, Elements, clean, crashed>>
      BY <1>6 DEF FetchArray, Goto, stored, history, Elements, Halfway, BaseInv, TypeOK
    <2>2. \A u \in Workers \ {w} :
            pc'[u] = pc[u] /\ op'[u] = op[u] /\ key'[u] = key[u] /\ s'[u] = s[u]
      BY <1>6, OthersStay DEF Step, Others, BaseInv
    <2>3. ~Halfway(w)' /\ key'[w] <= size
      BY <2>1, <1>d DEF Halfway
    <2> QED BY <1>i, <2>1, <2>2, <2>3, QuietInTurns
  <1>7. ASSUME NEW w \in Workers, Announce(w) PROVE InTurns'
    <2>1. /\ pc[w] = "announce" /\ pc'[w] = "write"
          /\ UNCHANGED <<op, key, s, size, Elements, clean, crashed>>
      BY <1>7 DEF Announce, Goto, stored, command, Elements, BaseInv, TypeOK
    <2>2. \A u \in Workers \ {w} : pc'[u] = pc[u]
      BY <1>7 DEF Announce, Goto, BaseInv, TypeOK
    <2>3. Halfway(w)' <=> Halfway(w)
      BY <1>i, <2>1 DEF Halfway
    <2>4. Entering(w)' => Entering(w)
      BY <2>1 DEF Entering
    <2>5. Entering(w)' => key'[w] <= size
      BY <1>i, <2>1, <2>4 DEF InTurns
    <2> QED BY <1>i, <2>1, <2>2, <2>3, <2>5, QuietInTurns
  <1>8. ASSUME NEW w \in Workers, WriteRefused(w) PROVE InTurns'
    <2>1. ~Halfway(w)
      <3>1. SUFFICES ASSUME Halfway(w) PROVE FALSE
        OBVIOUS
      <3>2. op[w] = "append" /\ pc[w] = "write" /\ Filled(key[w])
        BY <1>8, <1>i, <3>1 DEF WriteRefused, Halfway, InTurns, Top
      <3> QED BY <1>8, <3>2, <1>d DEF WriteRefused, Filled, Elements, BaseInv, TypeOK, Shape, Fits
    <2>2. /\ UNCHANGED <<size, Elements, crashed>> /\ pc'[w] = "idle" /\ op'[w] = "none"
      BY <1>8 DEF WriteRefused, End, Goto, stored, Elements, BaseInv, TypeOK
    <2>3. clean' = clean
      BY <1>8, <2>1 DEF WriteRefused, BaseInv, TypeOK
    <2>4. \A u \in Workers \ {w} :
            pc'[u] = pc[u] /\ op'[u] = op[u] /\ key'[u] = key[u] /\ s'[u] = s[u]
      BY <1>8 DEF WriteRefused, End, Goto, BaseInv, TypeOK
    <2>5. ~Halfway(w)' /\ ~Entering(w)'
      BY <2>2 DEF Halfway, Entering
    <2> QED BY <1>i, <2>1, <2>2, <2>3, <2>4, <2>5, QuietInTurns
  <1>9. ASSUME NEW w \in Workers, Add(w) PROVE InTurns'
    <2>1. /\ op[w] = "add" /\ pc[w] = "write" /\ pc'[w] = "count" /\ key[w] \in Names
          /\ UNCHANGED <<op, key, s, size, clean, crashed>>
      BY <1>9 DEF Add, Put, Goto, command, history, BaseInv, TypeOK, Shape, Fits
    <2>2. Entering(w) /\ ~Halfway(w) /\ Halfway(w)' /\ ~Entering(w)'
      BY <2>1 DEF Entering, Halfway
    <2>3. Elements' = Elements \cup {key[w]} /\ key[w] \notin Elements
      <3>1. Head(vals[w]) # None
        BY <2>1, QueueOfValues, DirectoryAssumption DEF BaseInv, TypeOK, Shape, Fits
      <3> QED BY <1>9, <2>1, <3>1 DEF Add, Put, Elements, BaseInv, TypeOK
    <2>4. Top(w)' = key[w] + 1 /\ Base(w)' = key[w]
      BY <2>1 DEF Top, Base
    <2>5. \A u \in Workers \ {w} : pc'[u] = pc[u]
      BY <1>9 DEF Add, Goto, BaseInv, TypeOK
    <2> QED BY <1>i, <2>1, <2>2, <2>3, <2>4, <2>5, WriteInTurns
  <1>10. ASSUME NEW w \in Workers, AppendValue(w) PROVE InTurns'
    <2>1. /\ op[w] = "append" /\ pc[w] = "write" /\ pc'[w] \in {"announce", "resize"}
          /\ key'[w] = key[w] + 1 /\ s[w] <= key[w] /\ key[w] \in Names
          /\ UNCHANGED <<op, s, size, clean, crashed>>
      BY <1>10 DEF AppendValue, Put, Goto, history, BaseInv, TypeOK, Shape, Fits
    <2>2. s[w] \in Nat
      BY DirectoryAssumption DEF BaseInv, TypeOK
    <2>3. (Entering(w) \/ Halfway(w)) /\ (Halfway(w) <=> s[w] < key[w])
      BY <2>1, <2>2, <1>d DEF Entering, Halfway
    <2>4. Halfway(w)' /\ ~Entering(w)'
      BY <2>1, <2>2, <1>d DEF Entering, Halfway
    <2>5. Elements' = Elements \cup {key[w]} /\ key[w] \notin Elements
      <3>1. Head(vals[w]) # None
        BY <2>1, QueueOfValues, DirectoryAssumption DEF BaseInv, TypeOK, Shape, Fits
      <3> QED BY <1>10, <2>1, <3>1 DEF AppendValue, Put, Elements, BaseInv, TypeOK
    <2>6. /\ Top(w)' = key[w] + 1 /\ (Halfway(w) => Top(w) = key[w])
          /\ Base(w)' = IF Halfway(w) THEN Base(w) ELSE key[w]
      BY <2>1, <2>2, <2>3, <1>d DEF Top, Base
    <2>7. \A u \in Workers \ {w} :
            pc'[u] = pc[u] /\ op'[u] = op[u] /\ key'[u] = key[u] /\ s'[u] = s[u]
      BY <1>10, OthersStay DEF Step, Others, BaseInv
    <2> QED BY <1>i, <2>1, <2>3, <2>4, <2>5, <2>6, <2>7, WriteInTurns
  <1>11. ASSUME NEW w \in Workers, Replace(w) PROVE InTurns'
    <2>1. /\ op[w] = "replace" /\ pc[w] = "write" /\ pc'[w] = "idle" /\ key[w] \in Names
          /\ op'[w] = "none" /\ UNCHANGED <<size, clean, crashed>>
      BY <1>11 DEF Replace, Put, End, Goto, history, BaseInv, TypeOK, Shape, Fits
    <2>2. Elements' = Elements
      <3>1. Head(vals[w]) # None
        BY <2>1, QueueOfValues, DirectoryAssumption DEF BaseInv, TypeOK, Shape, Fits
      <3> QED BY <1>11, <2>1, <3>1 DEF Replace, Put, Elements, BaseInv, TypeOK
    <2>3. ~Halfway(w) /\ ~Halfway(w)' /\ ~Entering(w)'
      BY <2>1 DEF Halfway, Entering
    <2>4. \A u \in Workers \ {w} :
            pc'[u] = pc[u] /\ op'[u] = op[u] /\ key'[u] = key[u] /\ s'[u] = s[u]
      BY <1>11, OthersStay DEF Step, Others, BaseInv
    <2> QED BY <1>i, <2>1, <2>2, <2>3, <2>4, QuietInTurns
  <1>12. ASSUME NEW w \in Workers, ReadSize(w) PROVE InTurns'
    <2>1. /\ op[w] = "add" /\ pc[w] = "count" /\ pc'[w] = "resize" /\ s'[w] = size
          /\ UNCHANGED <<op, key, size, value, clean, crashed>>
      BY <1>12, <1>i DEF ReadSize, Goto, command, stored, history, BaseInv, TypeOK, Shape, Fits
    <2>2. \A u \in Workers \ {w} : pc'[u] = pc[u] /\ s'[u] = s[u]
      BY <1>12 DEF ReadSize, Goto, BaseInv, TypeOK
    <2>3. \A u \in Workers : /\ Halfway(u)' <=> Halfway(u)
                             /\ Entering(u)' => Entering(u)
                             /\ Halfway(u) => Base(u)' = Base(u) /\ Top(u)' = Top(u)
      BY <2>1, <2>2 DEF Halfway, Base, Top, Entering
    <2>4. Elements' = Elements
      BY <2>1 DEF Elements
    <2>5. \A u \in Workers : Halfway(u)' => size' = Base(u)' /\ Filled(Top(u))'
      BY <1>i, <2>1, <2>3, <2>4 DEF InTurns, Filled
    <2>6. \A u \in Workers : op'[u] = "add" /\ pc'[u] = "resize" => s'[u] = size'
      BY <1>i, <2>1, <2>2 DEF InTurns
    <2>7. (Dense' <=> Dense) /\ (Filled(size)' <=> Filled(size))
      BY <2>1, <2>4 DEF Dense, Filled
    <2>8. \A u \in Workers : Entering(u)' => key'[u] <= size'
      BY <1>i, <2>1, <2>3 DEF InTurns
    <2> QED BY <1>i, <2>1, <2>3, <2>4, <2>5, <2>6, <2>7, <2>8 DEF InTurns
  <1>13. ASSUME NEW w \in Workers, WriteSize(w) PROVE InTurns'
    <2>1. op[w] \in {"add", "append"}
      BY <1>13, <1>i DEF WriteSize, BaseInv, Shape, Fits
    <2> QED BY <1>13, <1>i, <2>1, ResizeInTurns
  <1>14. ASSUME NEW w \in Workers, Remove(w) \/ Make(w) PROVE FALSE
    BY <1>14, <1>i DEF Remove, Make
  <1> QED BY <1>1, <1>2, <1>3, <1>4, <1>5, <1>6, <1>7, <1>8, <1>9, <1>10, <1>11,
             <1>12, <1>13, <1>14 DEF Next, Step

-----------------------------------------------------------------------------
\* The numbers below n are n.
LEMMA Initial ==
  ASSUME NEW n \in Nat
  PROVE  IsFiniteSet(0 .. n - 1) /\ Cardinality(0 .. n - 1) = n
  <1>1. 0 \in Int /\ n - 1 \in Int /\ (0 > n - 1 => n = 0) /\ n - 1 - 0 + 1 = n
    OBVIOUS
  <1> QED BY <1>1, FS_Interval

\* In an object every add that is half way leaves the size one more behind,
\* and every size that will be written still leaves room for all of them.
Adding == {w \in Workers : op[w] = "add" /\ pc[w] \in {"count", "resize"}}

LeavesRoom ==
  /\ size + Cardinality(Adding) <= Cardinality(Elements)
  /\ \A w \in Workers : op[w] = "add" /\ pc[w] = "resize" =>
       s[w] + Cardinality(Adding) <= Cardinality(Elements)

ObjectInv == kind = "O" /\ issued = {} => LeavesRoom

\* The sets of names that are counted are finite.
LEMMA Finite ==
  /\ IsFiniteSet(Names) /\ Cardinality(Names) = MaxName + 1
  /\ IsFiniteSet(Elements) /\ Cardinality(Elements) \in 0 .. MaxName + 1
  /\ IsFiniteSet(Adding) /\ Cardinality(Adding) \in Nat
  <1>1. IsFiniteSet(Names) /\ Cardinality(Names) = MaxName + 1
    BY FS_Interval, DirectoryAssumption DEF Names
  <1>2. IsFiniteSet(Elements) /\ Cardinality(Elements) <= MaxName + 1
    BY <1>1, FS_Subset DEF Elements
  <1>3. IsFiniteSet(Adding)
    BY FS_Subset, DirectoryAssumption DEF Adding
  <1> QED BY <1>1, <1>2, <1>3, FS_CardinalityType, DirectoryAssumption

\* While only values are set in an object, the size stays within the elements and
\* those on their way.
LEMMA NextLeavesRoom ==
  ASSUME BaseInv, BaseInv', ObjectInv, [Next]_vars, kind = "O", issued' = {}
  PROVE  LeavesRoom'
  <1>d. /\ MaxName \in Nat /\ size \in Nat /\ \A w \in Workers : s[w] \in Nat
        /\ Cardinality(Adding) \in Nat /\ Cardinality(Elements) \in 0 .. MaxName + 1
    BY Finite, DirectoryAssumption DEF BaseInv, TypeOK
  <1>i. /\ issued = {} /\ LeavesRoom
        /\ \A w \in Workers : op[w] \notin {"make", "remove", "append"}
    <2>1. issued = {}
      BY DEF Next, vars, Step, StartSome, Start, Bounds, FetchRecord, FetchArray, Announce,
             WriteRefused, Add, AppendValue, Replace, Remove, Make, ReadSize, WriteSize,
             Crash, history
    <2> QED BY <2>1 DEF ObjectInv, BaseInv, Shape, Fits
  <1>1. ASSUME Adding' = Adding, UNCHANGED <<size, Elements>>,
               \A w \in Adding : s'[w] = s[w] /\ pc'[w] = pc[w]
        PROVE  LeavesRoom'
    BY <1>1, <1>i DEF LeavesRoom, Adding
  <1>2. CASE UNCHANGED vars
    <2>1. Adding' = Adding /\ UNCHANGED <<size, Elements, s, pc>>
      BY <1>2 DEF vars, Adding, Elements
    <2> QED BY <1>1, <2>1
  <1>3. CASE Crash
    <2>1. Adding' = {} /\ UNCHANGED <<size, Elements>> /\ \A w \in Workers : op'[w] = "none"
      BY <1>3 DEF Crash, stored, Adding, Elements
    <2>2. Cardinality({}) = 0
      BY FS_EmptySet
    <2> QED BY <1>d, <1>i, <2>1, <2>2 DEF LeavesRoom
  <1>4. ASSUME NEW w \in Workers,
               \/ StartSome(w) \/ Bounds(w) \/ FetchRecord(w) \/ FetchArray(w)
               \/ Announce(w) \/ WriteRefused(w)
        PROVE  LeavesRoom'
    <2>1. /\ w \notin Adding /\ UNCHANGED <<size, Elements>>
          /\ \A u \in Workers \ {w} : pc'[u] = pc[u] /\ op'[u] = op[u] /\ s'[u] = s[u]
      <3>1. pc[w] \notin {"count", "resize"} /\ UNCHANGED stored
        BY <1>4 DEF StartSome, Start, Bounds, FetchRecord, FetchArray, Announce, WriteRefused
      <3>2. \A u \in Workers \ {w} : pc'[u] = pc[u] /\ op'[u] = op[u] /\ s'[u] = s[u]
        BY <1>4, OthersStay DEF Step, Others, BaseInv
      <3> QED BY <3>1, <3>2 DEF stored, Adding, Elements
    <2>2. w \notin Adding'
      <3>1. CASE StartSome(w)
        <4>1. PICK o, k, vs : Start(w, o, k, vs)
          BY <3>1 DEF StartSome
        <4>2. pc'[w] \notin {"count", "resize"}
          BY <4>1 DEF Start, Goto, BaseInv, TypeOK
        <4> QED BY <4>2 DEF Adding
      <3>4. CASE FetchArray(w) \/ Announce(w)
        <4>1. pc'[w] \notin {"count", "resize"}
          BY <3>4 DEF FetchArray, Announce, Goto, BaseInv, TypeOK
        <4> QED BY <4>1 DEF Adding
      <3>5. CASE WriteRefused(w)
        BY <3>5, Ending DEF WriteRefused, Adding, BaseInv
      <3>2. CASE Bounds(w)
        <4>1. pc'[w] \notin {"count", "resize"}
          BY <3>2, <1>i DEF Bounds, End, Goto, BaseInv, TypeOK
        <4> QED BY <4>1 DEF Adding
      <3>3. CASE FetchRecord(w)
        <4>1. pc'[w] \notin {"count", "resize"}
          BY <3>3, <1>i DEF FetchRecord, End, Goto, BaseInv, TypeOK
        <4> QED BY <4>1 DEF Adding
      <3> QED BY <1>4, <3>1, <3>2, <3>3, <3>4, <3>5
    <2>3. Adding' = Adding
      BY <2>1, <2>2 DEF Adding
    <2> QED BY <1>1, <2>1, <2>3 DEF Adding
  <1>5. ASSUME NEW w \in Workers, Replace(w) PROVE LeavesRoom'
    <2>1. /\ op[w] = "replace" /\ pc[w] = "write" /\ key[w] \in Names
          /\ op'[w] = "none" /\ UNCHANGED size
          /\ \A u \in Workers \ {w} : pc'[u] = pc[u] /\ op'[u] = op[u] /\ s'[u] = s[u]
      BY <1>5 DEF Replace, Put, End, Goto, BaseInv, TypeOK, Shape, Fits
    <2>2. Elements' = Elements
      <3>1. Head(vals[w]) # None
        BY <2>1, QueueOfValues, DirectoryAssumption DEF BaseInv, TypeOK, Shape, Fits
      <3> QED BY <1>5, <2>1, <3>1 DEF Replace, Put, Elements, BaseInv, TypeOK
    <2>3. Adding' = Adding /\ w \notin Adding
      BY <2>1 DEF Adding
    <2> QED BY <1>1, <2>1, <2>2, <2>3 DEF Adding
  <1>6. ASSUME NEW w \in Workers, Add(w) PROVE LeavesRoom'
    <2>1. /\ op[w] = "add" /\ pc[w] = "write" /\ pc'[w] = "count" /\ key[w] \in Names
          /\ UNCHANGED <<op, s, size>> /\ \A u \in Workers \ {w} : pc'[u] = pc[u]
      BY <1>6 DEF Add, Put, Goto, command, BaseInv, TypeOK, Shape, Fits
    <2>2. Elements' = Elements \cup {key[w]} /\ key[w] \notin Elements
      <3>1. Head(vals[w]) # None
        BY <2>1, QueueOfValues, DirectoryAssumption DEF BaseInv, TypeOK, Shape, Fits
      <3> QED BY <1>6, <2>1, <3>1 DEF Add, Put, Elements, BaseInv, TypeOK
    <2>3. Adding' = Adding \cup {w} /\ w \notin Adding
      BY <2>1 DEF Adding
    <2>4. /\ Cardinality(Elements') = Cardinality(Elements) + 1
          /\ Cardinality(Adding') = Cardinality(Adding) + 1
      BY <2>2, <2>3, FS_AddElement, Finite
    <2>5. \A u \in Workers : op'[u] = "add" /\ pc'[u] = "resize" => op[u] = "add" /\ pc[u] = "resize"
      BY <2>1
    <2> QED BY <1>d, <1>i, <2>1, <2>4, <2>5 DEF LeavesRoom
  <1>7. ASSUME NEW w \in Workers, ReadSize(w) PROVE LeavesRoom'
    <2>1. /\ op[w] = "add" /\ pc[w] = "count" /\ pc'[w] = "resize" /\ s'[w] = size
          /\ UNCHANGED <<op, size, Elements>>
          /\ \A u \in Workers \ {w} : pc'[u] = pc[u] /\ s'[u] = s[u]
      BY <1>7, <1>i DEF ReadSize, Goto, command, stored, Elements, BaseInv, TypeOK, Shape, Fits
    <2>2. Adding' = Adding
      BY <2>1 DEF Adding
    <2> QED BY <1>i, <2>1, <2>2 DEF LeavesRoom
  <1>8. ASSUME NEW w \in Workers, WriteSize(w) PROVE LeavesRoom'
    <2>1. /\ op[w] = "add" /\ pc[w] = "resize" /\ op'[w] = "none" /\ End(w)
          /\ UNCHANGED value
          /\ \A u \in Workers \ {w} : pc'[u] = pc[u] /\ op'[u] = op[u] /\ s'[u] = s[u]
      BY <1>8, <1>i DEF WriteSize, End, Goto, BaseInv, TypeOK, Shape, Fits
    <2>2. Adding' = Adding \ {w} /\ w \in Adding /\ Elements' = Elements
      BY <2>1 DEF Adding, Elements
    <2>3. Cardinality(Adding') = Cardinality(Adding) - 1 /\ Cardinality(Adding) # 0
      BY <2>2, FS_RemoveElement, FS_EmptySet, Finite
    <2>4. s[w] + Cardinality(Adding) <= Cardinality(Elements)
      BY <1>i, <2>1 DEF LeavesRoom
    <2>5. size' = s[w] + 1
      <3>1. s[w] + 1 \in 0 .. MaxName + 1
        BY <1>d, <2>3, <2>4
      <3> QED BY <1>8, <2>1, <3>1, SizeFits DEF WriteSize, NewSize
    <2>6. \A u \in Workers : op'[u] = "add" /\ pc'[u] = "resize" =>
            op[u] = "add" /\ pc[u] = "resize" /\ s'[u] = s[u]
      BY <2>1
    <2>7. \A u \in Workers : op'[u] = "add" /\ pc'[u] = "resize" =>
            s'[u] + Cardinality(Adding) <= Cardinality(Elements) /\ s'[u] \in Nat
      BY <1>d, <1>i, <2>6 DEF LeavesRoom
    <2>8. size' + Cardinality(Adding') <= Cardinality(Elements)
      BY <1>d, <2>3, <2>4, <2>5
    <2>9. \A u \in Workers : op'[u] = "add" /\ pc'[u] = "resize" =>
            s'[u] + Cardinality(Adding') <= Cardinality(Elements)
      BY <1>d, <2>3, <2>7
    <2> QED BY <2>2, <2>8, <2>9 DEF LeavesRoom
  <1>9. ASSUME NEW w \in Workers, AppendValue(w) \/ Remove(w) \/ Make(w) PROVE FALSE
    BY <1>9, <1>i DEF AppendValue, Remove, Make
  <1> QED BY <1>2, <1>3, <1>4, <1>5, <1>6, <1>7, <1>8, <1>9 DEF Next, Step

-----------------------------------------------------------------------------
\* A name that never had two writers at once has at most one, and the last
\* announcement is its.
Writing(w) == pc[w] = "write" /\ op[w] # "make"

FeedInv ==
  /\ FeedTellsStore
  /\ \A w \in Workers : Writing(w) /\ key[w] \notin mixed => announced[key[w]] = Outcome(w)
  /\ \A u, w \in Workers :
       Writing(u) /\ Writing(w) /\ key[u] = key[w] /\ key[w] \notin mixed => u = w

\* A step that neither writes nor announces leaves the feed in order.
LEMMA QuietFeed ==
  ASSUME FeedInv, NEW w \in Workers, Others(w), ~Writing(w), ~Writing(w)',
         UNCHANGED <<value, announced, mixed>>
  PROVE  FeedInv'
  <1>1. \A u \in Workers :
          Writing(u)' => Writing(u) /\ u # w /\ key'[u] = key[u] /\ Outcome(u)' = Outcome(u)
    BY DEF Writing, Others, Outcome
  <1>2. \A u \in Workers : Writing(u) => Writing(u)' /\ key'[u] = key[u]
    BY DEF Writing, Others
  <1>3. FeedTellsStore'
    BY <1>2 DEF FeedTellsStore, FeedInv, Writing
  <1> QED BY <1>1, <1>3 DEF FeedInv

\* What w has announced is stored.
LEMMA StoredFeed ==
  ASSUME BaseInv, FeedInv, NEW w \in Workers, Others(w), Writing(w), ~Writing(w)',
         value' = [value EXCEPT ![key[w]] = Outcome(w)],
         UNCHANGED <<announced, mixed>>
  PROVE  FeedInv'
  <1>1. \A u \in Workers :
          Writing(u)' => Writing(u) /\ u # w /\ key'[u] = key[u] /\ Outcome(u)' = Outcome(u)
    BY DEF Writing, Others, Outcome
  <1>2. \A u \in Workers \ {w} : Writing(u) => Writing(u)' /\ key'[u] = key[u]
    BY DEF Writing, Others
  <1>3. FeedTellsStore'
    <2> SUFFICES ASSUME NEW k \in Names \ mixed, announced[k] # value'[k]
                 PROVE  \E u \in Workers : Writing(u)' /\ key'[u] = k
      BY DEF FeedTellsStore, Writing
    <2>1. k # key[w]
      <3> SUFFICES ASSUME k = key[w] PROVE FALSE
        OBVIOUS
      <3>1. announced[k] = Outcome(w)
        BY DEF FeedInv
      <3> QED BY <3>1 DEF BaseInv, TypeOK
    <2>2. value'[k] = value[k]
      BY <2>1 DEF BaseInv, TypeOK
    <2>3. PICK u \in Workers : Writing(u) /\ key[u] = k
      BY <2>2 DEF FeedInv, FeedTellsStore, Writing
    <2> QED BY <1>2, <2>1, <2>3
  <1> QED BY <1>1, <1>3 DEF FeedInv

\* Every step keeps feed and values in agreement.
LEMMA NextFeed == BaseInv /\ FeedInv /\ [Next]_vars => FeedInv'
  <1> SUFFICES ASSUME BaseInv, FeedInv, [Next]_vars PROVE FeedInv'
    OBVIOUS
  <1>1. CASE UNCHANGED vars
    BY <1>1 DEF vars, FeedInv, FeedTellsStore, Writing, Outcome
  <1>2. CASE Crash
    <2>1. \A w \in Workers : ~Writing(w)'
      BY <1>2 DEF Crash, Writing
    <2>2. UNCHANGED <<value, announced>> /\ mixed' = mixed \cup {key[w] : w \in {w \in Workers : Writing(w)}}
      BY <1>2 DEF Crash, stored, Writing
    <2>3. \A k \in Names \ mixed' : announced[k] = value[k]
      BY <2>2 DEF FeedInv, FeedTellsStore, Writing
    <2> QED BY <2>1, <2>2, <2>3 DEF FeedInv, FeedTellsStore
  <1>3. ASSUME NEW w \in Workers, StartSome(w) PROVE FeedInv'
    <2>1. PICK o, k, vs : Start(w, o, k, vs)
      BY <1>3 DEF StartSome
    <2>2. /\ Others(w) /\ UNCHANGED <<value, announced, mixed>>
          /\ ~Writing(w) /\ ~Writing(w)'
      BY <2>1 DEF Start, Goto, stored, Others, Writing, BaseInv, TypeOK
    <2> QED BY <2>2, QuietFeed
  <1>4. ASSUME NEW w \in Workers, Bounds(w) PROVE FeedInv'
    <2>1. Others(w) /\ UNCHANGED <<value, announced, mixed>>
      BY <1>4 DEF Bounds, End, Goto, stored, command, history, Others, BaseInv, TypeOK
    <2>2. ~Writing(w) /\ ~Writing(w)'
      BY <1>4 DEF Bounds, End, Goto, Writing, BaseInv, TypeOK
    <2> QED BY <2>1, <2>2, QuietFeed
  <1>5. ASSUME NEW w \in Workers, FetchRecord(w) PROVE FeedInv'
    <2>1. Others(w) /\ UNCHANGED <<value, announced, mixed>>
      BY <1>5 DEF FetchRecord, End, Goto, stored, command, history, Others, BaseInv, TypeOK
    <2>2. ~Writing(w) /\ ~Writing(w)'
      BY <1>5 DEF FetchRecord, End, Goto, Writing, BaseInv, TypeOK
    <2> QED BY <2>1, <2>2, QuietFeed
  <1>6. ASSUME NEW w \in Workers, FetchArray(w) PROVE FeedInv'
    <2>1. Others(w) /\ UNCHANGED <<value, announced, mixed>>
      BY <1>6 DEF FetchArray, Goto, stored, history, Others, BaseInv, TypeOK
    <2>2. ~Writing(w) /\ ~Writing(w)'
      BY <1>6 DEF FetchArray, Goto, Writing, BaseInv, TypeOK
    <2> QED BY <2>1, <2>2, QuietFeed
  <1>7. ASSUME NEW w \in Workers, Announce(w) PROVE FeedInv'
    <2>1. /\ pc[w] = "announce" /\ op[w] # "make" /\ key[w] \in Names
          /\ pc' = [pc EXCEPT ![w] = "write"]
          /\ announced' = [announced EXCEPT ![key[w]] = Outcome(w)]
          /\ mixed' = mixed \cup ({key[w]} \cap BeingWritten(w))
          /\ UNCHANGED <<value, op, key, vals>>
      BY <1>7 DEF Announce, Goto, stored, command, BaseInv, Shape, Fits
    <2>2. \A u \in Workers : /\ Writing(u)' <=> Writing(u) \/ u = w
                             /\ Outcome(u)' = Outcome(u)
      BY <2>1 DEF Writing, Outcome, BaseInv, TypeOK
    <2>3. \A u \in Workers \ {w} : Writing(u) /\ key[u] = key[w] => key[w] \in mixed'
      BY <2>1 DEF BeingWritten, Writing
    <2>4. /\ announced'[key[w]] = Outcome(w)
          /\ \A k \in Names \ {key[w]} : announced'[k] = announced[k]
      BY <2>1 DEF BaseInv, TypeOK
    <2>5. \A u \in Workers : Writing(u)' /\ key[u] \notin mixed' => announced'[key[u]] = Outcome(u)
      <3> SUFFICES ASSUME NEW u \in Workers \ {w}, Writing(u), key[u] \notin mixed'
                   PROVE  announced'[key[u]] = Outcome(u)
        BY <2>2, <2>4
      <3>1. key[u] # key[w] /\ key[u] \notin mixed /\ key[u] \in Names
        BY <2>1, <2>3 DEF Writing, BaseInv, Shape, Fits
      <3> QED BY <3>1, <2>4 DEF FeedInv
    <2>6. FeedTellsStore'
      <3> SUFFICES ASSUME NEW k \in Names \ mixed', announced'[k] # value[k]
                   PROVE  \E u \in Workers : Writing(u)' /\ key[u] = k
        BY <2>1 DEF FeedTellsStore, Writing
      <3>1. CASE k = key[w]
        BY <2>2, <3>1
      <3>2. CASE k # key[w]
        BY <2>1, <2>2, <2>4, <3>2 DEF FeedInv, FeedTellsStore, Writing
      <3> QED BY <3>1, <3>2
    <2>7. \A u, v \in Workers :
            Writing(u)' /\ Writing(v)' /\ key[u] = key[v] /\ key[v] \notin mixed' => u = v
      BY <2>1, <2>2, <2>3 DEF FeedInv
    <2> QED BY <2>1, <2>2, <2>5, <2>6, <2>7 DEF FeedInv
  <1>8. ASSUME NEW w \in Workers, WriteRefused(w) PROVE FeedInv'
    <2>1. /\ Writing(w) /\ Others(w) /\ pc'[w] = "idle"
          /\ mixed' = mixed \cup {key[w]} /\ UNCHANGED <<value, announced>>
      BY <1>8 DEF WriteRefused, Writing, Others, End, Goto, stored, BaseInv, TypeOK
    <2>2. \A u \in Workers :
            Writing(u)' => Writing(u) /\ u # w /\ key'[u] = key[u] /\ Outcome(u)' = Outcome(u)
      BY <2>1 DEF Writing, Others, Outcome
    <2>3. FeedTellsStore'
      BY <2>1 DEF FeedInv, FeedTellsStore, Writing, Others
    <2> QED BY <2>1, <2>2, <2>3 DEF FeedInv
  <1>9. ASSUME NEW w \in Workers, Add(w) PROVE FeedInv'
    <2>1. Writing(w) /\ Others(w) /\ ~Writing(w)' /\ UNCHANGED <<announced, mixed>>
      BY <1>9 DEF Add, Writing, Others, Goto, command, history, BaseInv, TypeOK
    <2>2. value' = [value EXCEPT ![key[w]] = Outcome(w)]
      BY <1>9 DEF Add, Put, Outcome
    <2> QED BY <2>1, <2>2, StoredFeed
  <1>10. ASSUME NEW w \in Workers, AppendValue(w) PROVE FeedInv'
    <2>1. Writing(w) /\ Others(w) /\ ~Writing(w)' /\ UNCHANGED <<announced, mixed>>
      BY <1>10 DEF AppendValue, Writing, Others, Goto, history, BaseInv, TypeOK
    <2>2. value' = [value EXCEPT ![key[w]] = Outcome(w)]
      BY <1>10 DEF AppendValue, Put, Outcome
    <2> QED BY <2>1, <2>2, StoredFeed
  <1>11. ASSUME NEW w \in Workers, Replace(w) PROVE FeedInv'
    <2>1. Writing(w) /\ Others(w) /\ ~Writing(w)' /\ UNCHANGED <<announced, mixed>>
      BY <1>11 DEF Replace, Writing, Others, End, Goto, history, BaseInv, TypeOK
    <2>2. value' = [value EXCEPT ![key[w]] = Outcome(w)]
      BY <1>11 DEF Replace, Put, Outcome
    <2> QED BY <2>1, <2>2, StoredFeed
  <1>12. ASSUME NEW w \in Workers, Remove(w) PROVE FeedInv'
    <2>1. Writing(w) /\ Others(w) /\ ~Writing(w)' /\ UNCHANGED <<announced, mixed>>
      BY <1>12 DEF Remove, Writing, Others, Goto, command, history, BaseInv, TypeOK
    <2>2. value' = [value EXCEPT ![key[w]] = Outcome(w)]
      BY <1>12 DEF Remove, Put, Outcome
    <2> QED BY <2>1, <2>2, StoredFeed
  <1>13. ASSUME NEW w \in Workers, Make(w) PROVE FeedInv'
    <2>1. /\ ~Writing(w) /\ ~Writing(w)' /\ Others(w) /\ UNCHANGED <<value, announced, mixed>>
      BY <1>13 DEF Make, Writing, Others, End, Goto, BaseInv, TypeOK
    <2> QED BY <2>1, QuietFeed
  <1>14. ASSUME NEW w \in Workers, ReadSize(w) PROVE FeedInv'
    <2>1. /\ ~Writing(w) /\ ~Writing(w)' /\ Others(w) /\ UNCHANGED <<value, announced, mixed>>
      BY <1>14 DEF ReadSize, Writing, Others, Goto, stored, command, history, BaseInv, TypeOK
    <2> QED BY <2>1, QuietFeed
  <1>15. ASSUME NEW w \in Workers, WriteSize(w) PROVE FeedInv'
    <2>1. ~Writing(w) /\ ~Writing(w)'
      BY <1>15 DEF WriteSize, Writing, End, Goto, command, BaseInv, TypeOK
    <2>2. Others(w) /\ UNCHANGED <<value, announced, mixed>>
      BY <1>15 DEF WriteSize, Others, End, Goto, command, BaseInv, TypeOK
    <2> QED BY <2>1, <2>2, QuietFeed
  <1> QED BY <1>1, <1>2, <1>3, <1>4, <1>5, <1>6, <1>7, <1>8, <1>9, <1>10, <1>11,
             <1>12, <1>13, <1>14, <1>15 DEF Next, Step

-----------------------------------------------------------------------------
IInv == BaseInv /\ ArrayInv /\ ObjectInv /\ FeedInv

\* The inductive invariant holds always.
LEMMA Invariance == Spec => []IInv
  <1>1. Init => IInv
    <2> SUFFICES ASSUME Init PROVE IInv
      OBVIOUS
    <2>1. Elements = {} /\ Adding = {} /\ \A w \in Workers : pc[w] = "idle" /\ op[w] = "none"
      BY DEF Init, Elements, Adding
    <2>2. MaxName \in Nat /\ Names \subseteq Nat
      BY DirectoryAssumption DEF Names
    <2>3. ArrayInv
      BY <2>1, <2>2 DEF Init, ArrayInv, InTurns, Dense, Entering, Halfway, Filled
    <2>4. ObjectInv
      BY <2>1, FS_EmptySet DEF Init, ObjectInv, LeavesRoom
    <2>5. FeedInv
      BY <2>1 DEF Init, FeedInv, FeedTellsStore, Writing
    <2> QED BY <2>3, <2>4, <2>5, InitBase DEF IInv
  <1>2. IInv /\ [Next]_vars => IInv'
    <2> SUFFICES ASSUME IInv, [Next]_vars PROVE IInv'
      OBVIOUS
    <2>1. BaseInv'
      BY NextBase DEF IInv
    <2>2. kind' = kind
      BY DEF Next, vars, Step, StartSome, Start, Bounds, FetchRecord, FetchArray, Announce,
             WriteRefused, Add, AppendValue, Replace, Remove, Make, ReadSize, WriteSize,
             Crash, stored, Put
    <2>3. ArrayInv'
      BY <2>1, <2>2, NextInTurns DEF IInv, ArrayInv
    <2>4. ObjectInv'
      BY <2>1, <2>2, NextLeavesRoom DEF IInv, ObjectInv
    <2>5. FeedInv'
      BY NextFeed DEF IInv
    <2> QED BY <2>1, <2>3, <2>4, <2>5 DEF IInv
  <1> QED BY <1>1, <1>2, PTL DEF Spec

\* Without removals and new directories the size never exceeds the members:
\* add and append store before they count, and what they count is what they
\* have stored or less.
THEOREM NeverAhead == Spec => []SizeNeverAhead
  <1>1. IInv => SizeNeverAhead
    <2> SUFFICES ASSUME IInv, issued = {} PROVE size <= Count
      BY DEF SizeNeverAhead
    <2>1. size \in Nat /\ MaxName \in Nat
      BY DirectoryAssumption DEF IInv, BaseInv, TypeOK
    <2>2. Count = Cardinality(Elements)
      <3>1. dirs = {} /\ Cardinality({}) = 0
        BY FS_EmptySet DEF IInv, BaseInv, NoDirs
      <3> QED BY <3>1, Finite DEF Count
    <2>3. CASE kind = "A"
      <3>1. 0 .. size - 1 \subseteq Elements
        BY <2>1, <2>3 DEF IInv, ArrayInv, InTurns, Names
      <3>2. Cardinality(0 .. size - 1) = size
        BY <2>1, Initial
      <3>3. Cardinality(0 .. size - 1) <= Cardinality(Elements)
        BY <3>1, Finite, FS_Subset
      <3> QED BY <3>2, <3>3, <2>2
    <2>4. CASE kind = "O"
      <3>1. size + Cardinality(Adding) <= Cardinality(Elements)
        BY <2>4 DEF IInv, ObjectInv, LeavesRoom
      <3> QED BY <3>1, <2>1, <2>2, Finite
    <2> QED BY <2>3, <2>4 DEF IInv, BaseInv, TypeOK
  <1> QED BY <1>1, Invariance, PTL

\* The commands that share an array take turns at its end.
THEOREM TakesTurns == Spec => []GrowsInTurns
  <1>1. IInv => GrowsInTurns
    BY DEF IInv, ArrayInv, InTurns, GrowsInTurns
  <1> QED BY <1>1, Invariance, PTL

\* An append that has begun to store its values is never refused.
THEOREM AppendNotRefused == Spec => []AppendsWhole
  <1>1. IInv => AppendsWhole
    <2> SUFFICES ASSUME IInv, NEW w \in Workers, kind = "A", issued = {}, op[w] = "append",
                        Halfway(w), NEW k \in Names, k >= key[w]
                 PROVE  value[k] = None
      BY DEF AppendsWhole
    <2>1. Filled(key[w])
      BY DEF IInv, ArrayInv, InTurns, Top
    <2>2. key[w] \in Nat /\ k \in Nat
      BY DirectoryAssumption DEF IInv, BaseInv, TypeOK, Names
    <2> QED BY <2>1, <2>2 DEF Filled, Elements
  <1> QED BY <1>1, Invariance, PTL

\* What is announced for a name without overlapping writers is what it holds.
THEOREM FeedIsRight == Spec => []FeedTellsStore
  <1>1. IInv => FeedTellsStore
    BY DEF IInv, FeedInv
  <1> QED BY <1>1, Invariance, PTL

\* After a crash half way the array never changes its length again.
THEOREM Frozen == Spec => FrozenBehind
  <1>1. IInv /\ [Next]_vars =>
          [kind = "A" /\ issued' = {} /\ size < Cardinality(Elements)
             /\ (\A w \in Workers : ~Halfway(w)) => UNCHANGED <<size, Elements>>]_vars
    <2> SUFFICES ASSUME IInv, [Next]_vars, kind = "A", issued' = {},
                        size < Cardinality(Elements), \A w \in Workers : ~Halfway(w)
                 PROVE  UNCHANGED <<size, Elements>>
      OBVIOUS
    <2>i. issued = {} /\ BaseInv /\ \A w \in Workers : op[w] \notin {"make", "remove"}
      <3>1. issued = {}
        BY DEF Next, vars, Step, StartSome, Start, Bounds, FetchRecord, FetchArray, Announce,
               WriteRefused, Add, AppendValue, Replace, Remove, Make, ReadSize, WriteSize,
               Crash, history
      <3> QED BY <3>1 DEF IInv, BaseInv, Shape, Fits
    <2>d. size \in Nat /\ MaxName \in Nat /\ Names = 0 .. MaxName /\ InTurns
      BY <2>i, DirectoryAssumption DEF IInv, BaseInv, TypeOK, Names, ArrayInv
    <2>1. \A k \in Names : k <= size => k \in Elements
      <3>1. PICK k \in Elements : k >= size
        <4> SUFFICES ASSUME \A k \in Elements : k < size PROVE FALSE
          BY <2>d DEF Elements
        <4>1. Elements \subseteq 0 .. size - 1
          BY <2>d DEF Elements
        <4>2. Cardinality(0 .. size - 1) = size /\ IsFiniteSet(0 .. size - 1)
          BY <2>d, Initial
        <4>3. Cardinality(Elements) <= Cardinality(0 .. size - 1)
          BY <4>1, <4>2, FS_Subset
        <4>4. Cardinality(Elements) \in Nat
          BY Finite
        <4> QED BY <4>2, <4>3, <4>4, <2>d
      <3> QED BY <3>1, <2>d DEF InTurns, Dense, Elements
    <2>2. ASSUME NEW w \in Workers, Add(w) \/ AppendValue(w) PROVE FALSE
      <3>1. Entering(w) /\ key[w] \in Names /\ value[key[w]] = None
        <4>1. op[w] \in {"add", "append"} /\ pc[w] = "write" /\ value[key[w]] = None
          BY <2>2 DEF Add, AppendValue
        <4>2. key[w] \in Names /\ (op[w] = "append" => s[w] <= key[w]) /\ s[w] \in Nat
          BY <4>1, <2>i, DirectoryAssumption DEF BaseInv, TypeOK, Shape, Fits
        <4>3. op[w] = "append" => key[w] = s[w]
          BY <4>1, <4>2, <2>d DEF Halfway
        <4> QED BY <4>1, <4>2, <4>3 DEF Entering
      <3> QED BY <3>1, <2>1, <2>d DEF InTurns, Elements
    <2>3. ASSUME NEW w \in Workers, WriteSize(w) PROVE FALSE
      BY <2>3, <2>i, DirectoryAssumption DEF WriteSize, Halfway, BaseInv, TypeOK, Shape, Fits
    <2>4. ASSUME NEW w \in Workers, Replace(w) PROVE UNCHANGED <<size, Elements>>
      <3>1. Head(vals[w]) # None /\ key[w] \in Names
        BY <2>4, <2>i, QueueOfValues, DirectoryAssumption DEF Replace, BaseInv, TypeOK, Shape, Fits
      <3> QED BY <2>4, <2>i, <3>1 DEF Replace, Put, Elements, BaseInv, TypeOK
    <2>5. ASSUME UNCHANGED stored PROVE UNCHANGED <<size, Elements>>
      BY <2>5 DEF stored, Elements
    <2> QED BY <2>i, <2>2, <2>3, <2>4, <2>5 DEF Next, Step, vars, stored, StartSome, Start,
              Bounds, FetchRecord, FetchArray, Announce, WriteRefused, Remove, Make, ReadSize,
              Crash
  <1> QED BY <1>1, Invariance, PTL DEF Spec, FrozenBehind
-----------------------------------------------------------------------------
(***************************************************************************)
(* Nothing but the races named in ExactUnlessRaced makes a stored size     *)
(* wrong.  While there is none, the size differs from the number of        *)
(* members by what the commands that are half way have stored and not      *)
(* counted, or counted and not stored, modulo the width of size_t.         *)
(***************************************************************************)
\* The members that w has stored and no size counts yet.
Fresh(w) ==
  {k \in Names :
     /\ Halfway(w)
     /\ \/ op[w] = "add" /\ k = key[w]
        \/ op[w] = "append" /\ s[w] <= k /\ k < key[w]}

Uncounted == {p \in Workers \X Names : p[2] \in Fresh(p[1])}

\* Workers whose member is counted and not yet, or no longer, there.
Overcounted == {w \in Workers : Halfway(w) /\ op[w] \in {"remove", "make"}}

\* m is n, counted modulo the width of size_t.
Wrapped(m, n) == \E d \in Int : m + d * Width = n

Balanced == Wrapped(size + Cardinality(Uncounted), Count + Cardinality(Overcounted))

ExactInv == clean => Balanced

\* The sets are finite, and the counts and the size are numbers.
LEMMA FiniteSides ==
  ASSUME BaseInv
  PROVE  /\ IsFiniteSet(Uncounted) /\ Cardinality(Uncounted) \in Nat
         /\ IsFiniteSet(Overcounted) /\ Cardinality(Overcounted) \in Nat
         /\ IsFiniteSet(dirs) /\ Cardinality(dirs) \in 0 .. MaxName + 1
         /\ Count \in 0 .. 2 * (MaxName + 1) /\ size \in Nat
  <1>1. IsFiniteSet(Workers) /\ IsFiniteSet(Names) /\ MaxName \in Nat /\ Width \in Nat
    BY Finite, DirectoryAssumption
  <1>2. IsFiniteSet(Workers \X Names)
    BY <1>1, FS_Product
  <1>3. Uncounted \subseteq Workers \X Names /\ Overcounted \subseteq Workers
    BY DEF Uncounted, Overcounted
  <1>4. IsFiniteSet(Uncounted) /\ IsFiniteSet(Overcounted)
    BY <1>1, <1>2, <1>3, FS_Subset
  <1>5. IsFiniteSet(dirs) /\ Cardinality(dirs) <= MaxName + 1
    BY <1>1, Finite, FS_Subset DEF BaseInv, TypeOK
  <1>6. Cardinality(dirs) \in Nat /\ Cardinality(Uncounted) \in Nat /\ Cardinality(Overcounted) \in Nat
    BY <1>4, <1>5, FS_CardinalityType
  <1>7. size \in Nat
    BY <1>1 DEF BaseInv, TypeOK
  <1>8. Count \in 0 .. 2 * (MaxName + 1)
    BY <1>1, <1>5, <1>6, Finite DEF Count
  <1> QED BY <1>1, <1>4, <1>5, <1>6, <1>7, <1>8

\* size_t takes away a multiple of the width.
LEMMA Wraps == \A i \in Int : Wrapped(size_t(i), i)
  <1>1. Width \in Nat \ {0}
    BY DirectoryAssumption
  <1> SUFFICES ASSUME NEW i \in Int PROVE \E d \in Int : size_t(i) + d * Width = i
    BY DEF Wrapped
  <1>2. (i \div Width) \in Int /\ (i % Width) + (i \div Width) * Width = i
    BY <1>1
  <1> QED BY <1>2 DEF size_t

-----------------------------------------------------------------------------
\* Nobody else stores or counts when w moves.
LEMMA OthersKeepSides ==
  ASSUME NEW w \in Workers, Others(w)
  PROVE  \A u \in Workers \ {w} : Fresh(u)' = Fresh(u) /\ (u \in Overcounted' <=> u \in Overcounted)
  <1> SUFFICES ASSUME NEW u \in Workers \ {w}
               PROVE  Fresh(u)' = Fresh(u) /\ (u \in Overcounted' <=> u \in Overcounted)
    OBVIOUS
  <1>1. Halfway(u)' <=> Halfway(u)
    BY DEF Halfway, Others
  <1> QED BY <1>1 DEF Fresh, Overcounted, Others

\* w stores nothing and counts nothing it has stored.
LEMMA SameSides ==
  ASSUME NEW w \in Workers, Others(w), Fresh(w)' = Fresh(w)
  PROVE  Uncounted' = Uncounted
  <1>1. \A u \in Workers : Fresh(u)' = Fresh(u)
    BY OthersKeepSides
  <1> QED BY <1>1 DEF Uncounted

\* w stays on its side of what is counted and not there.
LEMMA SameOver ==
  ASSUME NEW w \in Workers, Others(w), w \in Overcounted' <=> w \in Overcounted
  PROVE  Overcounted' = Overcounted
  BY OthersKeepSides DEF Overcounted

\* w has stored one more member.
LEMMA OneMore ==
  ASSUME BaseInv, NEW w \in Workers, Others(w), NEW k \in Names,
         k \notin Fresh(w), Fresh(w)' = Fresh(w) \cup {k}
  PROVE  Cardinality(Uncounted') = Cardinality(Uncounted) + 1
  <1>1. \A u \in Workers \ {w} : Fresh(u)' = Fresh(u)
    BY OthersKeepSides
  <1>2. Uncounted' = Uncounted \cup {<<w, k>>} /\ <<w, k>> \notin Uncounted
    BY <1>1 DEF Uncounted
  <1> QED BY <1>2, FiniteSides, FS_AddElement

\* The members of w are all counted.
LEMMA AllCounted ==
  ASSUME BaseInv, NEW w \in Workers, Others(w), Fresh(w)' = {}
  PROVE  Cardinality(Uncounted') = Cardinality(Uncounted) - Cardinality(Fresh(w))
  <1> DEFINE mine == {w} \X Fresh(w)
  <1>1. \A u \in Workers \ {w} : Fresh(u)' = Fresh(u)
    BY OthersKeepSides
  <1>2. Uncounted' = Uncounted \ mine
    BY <1>1 DEF Uncounted
  <1>3. Uncounted \cap mine = mine
    BY DEF Uncounted, Fresh
  <1>4. IsFiniteSet(Fresh(w)) /\ Cardinality(Fresh(w)) \in Nat
    BY Finite, FS_Subset, FS_CardinalityType DEF Fresh
  <1>5. Cardinality(mine) = Cardinality(Fresh(w))
    <2>1. IsFiniteSet({w}) /\ Cardinality({w}) = 1
      BY FS_Singleton
    <2>2. Cardinality(mine) = Cardinality({w}) * Cardinality(Fresh(w))
      BY <1>4, <2>1, FS_Product
    <2> QED BY <1>4, <2>1, <2>2
  <1> HIDE DEF mine
  <1>6. Cardinality(Uncounted \ mine) = Cardinality(Uncounted) - Cardinality(Uncounted \cap mine)
    BY FiniteSides, FS_Difference
  <1> QED BY <1>2, <1>3, <1>5, <1>6

\* w has counted a member it will store, or removed one it will count.
LEMMA OverMore ==
  ASSUME BaseInv, NEW w \in Workers, Others(w), w \notin Overcounted, w \in Overcounted'
  PROVE  Cardinality(Overcounted') = Cardinality(Overcounted) + 1
  <1>1. Overcounted' = Overcounted \cup {w}
    BY OthersKeepSides DEF Overcounted
  <1> QED BY <1>1, FiniteSides, FS_AddElement

\* That member is stored now, or no longer counted.
LEMMA OverLess ==
  ASSUME BaseInv, NEW w \in Workers, Others(w), w \in Overcounted, w \notin Overcounted'
  PROVE  Cardinality(Overcounted') = Cardinality(Overcounted) - 1
  <1>1. Overcounted' = Overcounted \ {w}
    BY OthersKeepSides DEF Overcounted
  <1> QED BY <1>1, FiniteSides, FS_RemoveElement

\* A step of w that stores and counts nothing.
LEMMA QuietExact ==
  ASSUME ExactInv, NEW w \in Workers, Others(w), clean' => clean,
         UNCHANGED <<size, Elements, dirs>>,
         Fresh(w)' = Fresh(w), w \in Overcounted' <=> w \in Overcounted
  PROVE  ExactInv'
  BY SameSides, SameOver DEF ExactInv, Balanced, Count

\* A step that changes both sides of the balance alike.
LEMMA Rebalanced ==
  ASSUME ExactInv, BaseInv, BaseInv', clean' => clean,
         NEW by \in Int, NEW du \in Int, NEW dc \in Int, NEW do \in Int,
         clean' => Wrapped(size', size + by),
         Cardinality(Uncounted') = Cardinality(Uncounted) + du,
         Count' = Count + dc,
         Cardinality(Overcounted') = Cardinality(Overcounted) + do,
         by + du = dc + do
  PROVE  ExactInv'
  <1> SUFFICES ASSUME clean' PROVE Balanced'
    BY DEF ExactInv
  <1>1. PICK d \in Int : size + Cardinality(Uncounted) + d * Width = Count + Cardinality(Overcounted)
    BY DEF ExactInv, Balanced, Wrapped
  <1>2. PICK e \in Int : size' + e * Width = size + by
    BY DEF Wrapped
  <1>3. /\ Cardinality(Uncounted) \in Int /\ Cardinality(Overcounted) \in Int
        /\ size \in Int /\ size' \in Int /\ Count \in Int /\ Width \in Int
    <2>1. size' \in Int /\ Width \in Int
      BY DirectoryAssumption DEF BaseInv, TypeOK
    <2> QED BY <2>1, FiniteSides
  <1>4. PICK x \in Int, y \in Int : x = d * Width /\ y = e * Width
    BY <1>3
  <1>5. (d + e) * Width = x + y
    BY <1>3, <1>4
  <1>6. PICK a \in Int, b \in Int : a = size + Cardinality(Uncounted) /\ b = Count + Cardinality(Overcounted)
    BY <1>3
  <1>7. PICK a1 \in Int, b1 \in Int :
          a1 = size' + Cardinality(Uncounted') /\ b1 = Count' + Cardinality(Overcounted')
    BY <1>3
  <1>8. a + x = b /\ a1 + y = a + (by + du) /\ b1 = b + (dc + do)
    <2>1. a + x = b
      BY <1>1, <1>4, <1>6
    <2>2. a1 + y = a + (by + du)
      <3>1. size' + y = size + by
        BY <1>2, <1>4
      <3>2. PICK m \in Int, n \in Int, u \in Int : m = size' /\ n = size /\ u = Cardinality(Uncounted)
        BY <1>3
      <3>3. a1 = m + (u + du) /\ a = n + u /\ m + y = n + by
        BY <1>6, <1>7, <3>1, <3>2
      <3> QED BY <3>3
    <2>3. b1 = b + (dc + do)
      BY <1>3, <1>6, <1>7
    <2> QED BY <2>1, <2>2, <2>3
  <1>9. a1 + (x + y) = b1
    BY <1>8
  <1>10. size' + Cardinality(Uncounted') + (d + e) * Width = Count' + Cardinality(Overcounted')
    BY <1>5, <1>7, <1>9
  <1>11. d + e \in Int
    OBVIOUS
  <1> QED BY <1>10, <1>11 DEF Balanced, Wrapped

-----------------------------------------------------------------------------
\* A value stored where there was none is one member more, one taken away
\* is one less.
LEMMA Storing ==
  ASSUME BaseInv, NEW w \in Workers, key[w] \in Names, NEW v,
         value' = [value EXCEPT ![key[w]] = v], UNCHANGED dirs
  PROVE  /\ v = None /\ value[key[w]] # None => Count' = Count - 1
         /\ v # None /\ value[key[w]] = None => Count' = Count + 1
         /\ v # None /\ value[key[w]] # None => Elements' = Elements
  <1>1. \A k \in Names : value'[k] = IF k = key[w] THEN v ELSE value[k]
    BY DEF BaseInv, TypeOK
  <1>2. ASSUME v = None, value[key[w]] # None PROVE Count' = Count - 1
    <2>1. Elements' = Elements \ {key[w]} /\ key[w] \in Elements
      BY <1>1, <1>2 DEF Elements
    <2>2. Cardinality(Elements') = Cardinality(Elements) - 1
      BY <2>1, Finite, FS_RemoveElement
    <2> QED BY <2>2, Finite, FiniteSides DEF Count
  <1>3. ASSUME v # None, value[key[w]] = None PROVE Count' = Count + 1
    <2>1. Elements' = Elements \cup {key[w]} /\ key[w] \notin Elements
      BY <1>1, <1>3 DEF Elements
    <2>2. Cardinality(Elements') = Cardinality(Elements) + 1
      BY <2>1, Finite, FS_AddElement
    <2> QED BY <2>2, Finite, FiniteSides DEF Count
  <1>4. ASSUME v # None, value[key[w]] # None PROVE Elements' = Elements
    BY <1>1, <1>4 DEF Elements
  <1> QED BY <1>2, <1>3, <1>4

\* Steps that leave w where it was with respect to the size.
LEMMA NotHalfway ==
  ASSUME ExactInv, NEW w \in Workers, Others(w), clean' => clean,
         UNCHANGED <<size, Elements, dirs>>, ~Halfway(w), ~Halfway(w)'
  PROVE  ExactInv'
  <1>1. Fresh(w) = {} /\ Fresh(w)' = {} /\ w \notin Overcounted /\ w \notin Overcounted'
    BY DEF Fresh, Overcounted
  <1> QED BY <1>1, QuietExact

\* A value is stored, by add or append.
LEMMA StoreExact ==
  ASSUME BaseInv, BaseInv', ExactInv, NEW w \in Workers, Add(w) \/ AppendValue(w)
  PROVE  ExactInv'
  <1>1. /\ pc[w] = "write" /\ value[key[w]] = None /\ Others(w)
        /\ value' = [value EXCEPT ![key[w]] = Head(vals[w])]
        /\ UNCHANGED <<size, dirs, op, s, clean>>
    <2>1. Others(w)
      BY OthersStay DEF Step, BaseInv
    <2> QED BY <2>1 DEF Add, AppendValue, Put, command, history
  <1>2. key[w] \in Names /\ Head(vals[w]) # None
    <2>1. key[w] \in Names /\ vals[w] \in Seq(Values) /\ vals[w] # <<>>
      BY <1>1 DEF Add, AppendValue, BaseInv, TypeOK, Shape, Fits
    <2> QED BY <2>1, QueueOfValues, DirectoryAssumption
  <1>3. Count' = Count + 1
    BY <1>1, <1>2, Storing
  <1>4. key[w] \notin Fresh(w) /\ Fresh(w)' = Fresh(w) \cup {key[w]}
    <2>1. CASE Add(w)
      <3>1. op[w] = "add" /\ op'[w] = "add" /\ pc'[w] = "count" /\ key' = key
        BY <1>1, <2>1 DEF Add, Goto, command, BaseInv, TypeOK
      <3>2. ~Halfway(w) /\ Halfway(w)'
        BY <1>1, <3>1 DEF Halfway
      <3> QED BY <1>2, <3>1, <3>2 DEF Fresh
    <2>2. CASE AppendValue(w)
      <3>1. /\ op[w] = "append" /\ op'[w] = "append" /\ pc'[w] \in {"announce", "resize"}
            /\ key'[w] = key[w] + 1 /\ s'[w] = s[w]
        BY <1>1, <2>2 DEF AppendValue, Goto, BaseInv, TypeOK
      <3>2. key[w] \in Nat /\ s[w] \in Nat /\ s[w] <= key[w] /\ Names \subseteq Nat
        BY <1>1, <3>1, DirectoryAssumption DEF BaseInv, TypeOK, Shape, Fits, Names
      <3>3. (Halfway(w) <=> key[w] > s[w]) /\ Halfway(w)'
        BY <1>1, <3>1, <3>2 DEF Halfway
      <3>4. \A k : k \in Fresh(w) <=> k \in Names /\ s[w] <= k /\ k < key[w]
        <4>1. \A k \in Names : s[w] <= k /\ k < key[w] => key[w] > s[w]
          BY <3>2
        <4> QED BY <3>1, <3>3, <4>1 DEF Fresh
      <3>5. \A k : k \in Fresh(w)' <=> k \in Names /\ s'[w] <= k /\ k < key'[w]
        BY <3>1, <3>3 DEF Fresh
      <3>6. \A k \in Names : s[w] <= k /\ k < key[w] + 1 <=> (s[w] <= k /\ k < key[w]) \/ k = key[w]
        BY <3>2
      <3>7. \A k : k \in Fresh(w)' <=> k \in Fresh(w) \cup {key[w]}
        BY <1>2, <3>1, <3>4, <3>5, <3>6
      <3> QED BY <3>2, <3>4, <3>7
    <2> QED BY <2>1, <2>2
  <1>5. Cardinality(Uncounted') = Cardinality(Uncounted) + 1
    BY <1>1, <1>2, <1>4, OneMore
  <1>6. Overcounted' = Overcounted
    <2>1. op[w] \notin {"remove", "make"}
      BY DEF Add, AppendValue
    <2> QED BY <1>1, <2>1, SameOver DEF Overcounted
  <1>7. size' + 0 * Width = size + 0
    BY <1>1, DirectoryAssumption DEF BaseInv, TypeOK
  <1>8. Cardinality(Overcounted') = Cardinality(Overcounted) + 0
    BY <1>6, FiniteSides
  <1> QED BY <1>1, <1>3, <1>5, <1>7, <1>8, Rebalanced DEF Wrapped

\* A value is removed that is still counted.
LEMMA RemoveExact ==
  ASSUME BaseInv, BaseInv', ExactInv, NEW w \in Workers, Remove(w)
  PROVE  ExactInv'
  <1>1. /\ pc[w] = "write" /\ op[w] = "remove" /\ value[key[w]] # None /\ Others(w)
        /\ value' = [value EXCEPT ![key[w]] = None]
        /\ pc'[w] = "resize" /\ UNCHANGED <<size, dirs, op, key, s, clean>>
    <2>1. Others(w)
      BY OthersStay DEF Step, BaseInv
    <2> QED BY <2>1 DEF Remove, Put, Goto, command, history, BaseInv, TypeOK
  <1>2. key[w] \in Names
    BY <1>1 DEF BaseInv, Shape, Fits
  <1>3. Count' = Count + (-1)
    BY <1>1, <1>2, Storing, FiniteSides
  <1>4. ~Halfway(w) /\ Halfway(w)'
    BY <1>1 DEF Halfway
  <1>5. Uncounted' = Uncounted
    <2>1. Fresh(w)' = {} /\ Fresh(w) = {}
      BY <1>1 DEF Fresh
    <2> QED BY <1>1, <2>1, SameSides
  <1>6. Cardinality(Overcounted') = Cardinality(Overcounted) + 1
    BY <1>1, <1>4, OverMore DEF Overcounted
  <1>7. size' + 0 * Width = size + 0
    BY <1>1, DirectoryAssumption DEF BaseInv, TypeOK
  <1>8. Cardinality(Uncounted') = Cardinality(Uncounted) + 0
    BY <1>5, FiniteSides
  <1> QED BY <1>1, <1>3, <1>6, <1>7, <1>8, Rebalanced DEF Wrapped

\* A directory is stored that was counted before.
LEMMA MakeExact ==
  ASSUME BaseInv, BaseInv', ExactInv, NEW w \in Workers, Make(w)
  PROVE  ExactInv'
  <1> SUFFICES ASSUME clean' PROVE ExactInv'
    BY DEF ExactInv
  <1>1. /\ pc[w] = "write" /\ op[w] = "make" /\ Others(w) /\ key[w] \notin dirs /\ clean
        /\ dirs' = dirs \cup {key[w]} /\ pc'[w] = "idle" /\ UNCHANGED <<size, value>>
    <2>1. Others(w)
      BY OthersStay DEF Step, BaseInv
    <2> QED BY <2>1, Ending DEF Make, BaseInv
  <1>2. Count' = Count + 1
    <2>1. Cardinality(dirs') = Cardinality(dirs) + 1
      BY <1>1, FiniteSides, FS_AddElement
    <2>2. Elements' = Elements
      BY <1>1 DEF Elements
    <2> QED BY <2>1, <2>2, Finite, FiniteSides DEF Count
  <1>3. Halfway(w) /\ ~Halfway(w)'
    BY <1>1 DEF Halfway
  <1>4. Cardinality(Uncounted') = Cardinality(Uncounted) + 0
    <2>1. Fresh(w)' = {} /\ Fresh(w) = {}
      BY <1>1, <1>3 DEF Fresh
    <2> QED BY <1>1, <2>1, SameSides, FiniteSides
  <1>5. Cardinality(Overcounted') = Cardinality(Overcounted) + (-1)
    BY <1>1, <1>3, OverLess, FiniteSides DEF Overcounted
  <1>6. size' + 0 * Width = size + 0
    BY <1>1, DirectoryAssumption DEF BaseInv, TypeOK
  <1> QED BY <1>1, <1>2, <1>4, <1>5, <1>6, Rebalanced DEF Wrapped

\* The size is written over the one it was made from.
LEMMA ResizeExact ==
  ASSUME BaseInv, BaseInv', ExactInv, NEW w \in Workers, WriteSize(w)
  PROVE  ExactInv'
  <1> SUFFICES ASSUME clean' PROVE ExactInv'
    BY DEF ExactInv
  <1>1. /\ pc[w] = "resize" /\ Others(w) /\ clean /\ s[w] = size /\ size' = NewSize(w)
        /\ op[w] \in {"add", "append", "remove", "make"}
        /\ UNCHANGED <<value, dirs>>
    <2>1. Others(w)
      BY OthersStay DEF Step, BaseInv
    <2> QED BY <2>1 DEF WriteSize, BaseInv, Shape, Fits
  <1>2. Count' = Count + 0
    <2>1. Elements' = Elements
      BY <1>1 DEF Elements
    <2> QED BY <1>1, <2>1, FiniteSides DEF Count
  <1>d. size \in Int /\ key[w] \in Nat /\ Names \subseteq Nat
    BY FiniteSides, DirectoryAssumption DEF BaseInv, TypeOK, Names
  <1>3. op[w] # "make" => pc'[w] = "idle" /\ op'[w] = "none"
    BY Ending DEF WriteSize, BaseInv
  <1>4. op[w] # "make" => ~Halfway(w)' /\ Fresh(w)' = {} /\ w \notin Overcounted'
    BY <1>3 DEF Halfway, Fresh, Overcounted
  <1>5. CASE op[w] = "add"
    <2>1. Wrapped(size', size + 1)
      BY <1>1, <1>5, <1>d, Wraps DEF NewSize
    <2>2. Cardinality(Uncounted') = Cardinality(Uncounted) + (-1)
      <3>1. key[w] \in Names /\ Halfway(w)
        BY <1>1, <1>5 DEF Halfway, BaseInv, Shape, Fits
      <3>2. Fresh(w) = {key[w]}
        BY <1>5, <3>1 DEF Fresh
      <3>3. Cardinality(Fresh(w)) = 1
        BY <3>2, FS_Singleton
      <3> QED BY <1>1, <1>4, <1>5, <3>3, AllCounted, FiniteSides
    <2>3. Cardinality(Overcounted') = Cardinality(Overcounted) + 0
      <3>1. w \notin Overcounted
        BY <1>5 DEF Overcounted
      <3> QED BY <1>1, <1>4, <1>5, <3>1, SameOver, FiniteSides
    <2> QED BY <1>1, <1>2, <2>1, <2>2, <2>3, Rebalanced
  <1>6. CASE op[w] = "append"
    <2>1. key[w] > size /\ key[w] <= MaxName + 1 /\ Halfway(w) /\ MaxName \in Nat /\ size \in Nat
      <3>1. s[w] < key[w] /\ key[w] + Len(vals[w]) <= MaxName + 1
        BY <1>1, <1>6 DEF BaseInv, Shape, Fits
      <3>2. Len(vals[w]) \in Nat /\ MaxName \in Nat
        BY LenProperties, DirectoryAssumption DEF BaseInv, TypeOK
      <3> QED BY <1>1, <1>6, <1>d, <3>1, <3>2, FiniteSides DEF Halfway
    <2>2. PICK n \in Int : key[w] = size + n
      <3>1. key[w] - size \in Int /\ key[w] = size + (key[w] - size)
        BY <1>d
      <3> QED BY <3>1
    <2>3. Wrapped(size', size + n)
      <3>1. NewSize(w) = size_t(key[w])
        BY <1>6 DEF NewSize
      <3> QED BY <1>1, <1>d, <2>2, <3>1, Wraps
    <2>4. Cardinality(Uncounted') = Cardinality(Uncounted) + (-n)
      <3>1. Fresh(w) = size .. key[w] - 1
        <4>1. \A k : k \in Fresh(w) <=> k \in Names /\ size <= k /\ k < key[w]
          BY <1>1, <1>6, <2>1 DEF Fresh
        <4>2. \A k \in Nat : k < key[w] => k \in Names
          BY <1>d, <2>1 DEF Names
        <4>3. \A k : k \in size .. key[w] - 1 <=> k \in Nat /\ size <= k /\ k < key[w]
          BY <1>d, <2>1
        <4>4. \A k : k \in Fresh(w) <=> k \in size .. key[w] - 1
          BY <1>d, <4>1, <4>2, <4>3
        <4> QED BY <4>4
      <3>2. Cardinality(size .. key[w] - 1) = n
        <4>1. key[w] - 1 \in Int /\ ~(size > key[w] - 1) /\ key[w] - 1 - size + 1 = n
          BY <1>d, <2>1, <2>2
        <4> QED BY <1>d, <4>1, FS_Interval
      <3>3. Cardinality(Uncounted') = Cardinality(Uncounted) - n
        BY <1>1, <1>4, <1>6, <3>1, <3>2, AllCounted
      <3> QED BY <3>3, FiniteSides
    <2>5. Cardinality(Overcounted') = Cardinality(Overcounted) + 0
      <3>1. w \notin Overcounted
        BY <1>6 DEF Overcounted
      <3> QED BY <1>1, <1>4, <1>6, <3>1, SameOver, FiniteSides
    <2>6. -n \in Int /\ n + (-n) = 0 + 0
      OBVIOUS
    <2> QED BY <1>1, <1>2, <2>3, <2>4, <2>5, <2>6, Rebalanced
  <1>7. CASE op[w] = "remove"
    <2>1. Wrapped(size', size + (-1))
      <3>1. NewSize(w) = size_t(size + (-1))
        <4>1. size - 1 = size + (-1)
          BY <1>d
        <4> QED BY <1>1, <1>7, <4>1 DEF NewSize
      <3> QED BY <1>1, <1>d, <3>1, Wraps
    <2>2. Cardinality(Uncounted') = Cardinality(Uncounted) + 0
      <3>1. Fresh(w) = {}
        BY <1>7 DEF Fresh
      <3> QED BY <1>1, <1>4, <1>7, <3>1, SameSides, FiniteSides
    <2>3. Cardinality(Overcounted') = Cardinality(Overcounted) + (-1)
      <3>1. w \in Overcounted
        BY <1>1, <1>7 DEF Overcounted, Halfway
      <3> QED BY <1>1, <1>4, <1>7, <3>1, OverLess, FiniteSides
    <2> QED BY <1>1, <1>2, <2>1, <2>2, <2>3, Rebalanced
  <1>8. CASE op[w] = "make"
    <2>1. Wrapped(size', size + 1)
      BY <1>1, <1>8, <1>d, Wraps DEF NewSize
    <2>2. pc'[w] = "write" /\ op'[w] = "make" /\ ~Halfway(w) /\ Halfway(w)'
      <3>1. pc'[w] = "write" /\ op'[w] = "make"
        BY <1>8, Going DEF WriteSize, BaseInv
      <3> QED BY <1>1, <1>8, <3>1 DEF Halfway
    <2>3. Cardinality(Uncounted') = Cardinality(Uncounted) + 0
      <3>1. Fresh(w) = {} /\ Fresh(w)' = {}
        BY <1>8, <2>2 DEF Fresh
      <3> QED BY <1>1, <3>1, SameSides, FiniteSides
    <2>4. Cardinality(Overcounted') = Cardinality(Overcounted) + 1
      BY <1>1, <2>2, OverMore DEF Overcounted
    <2> QED BY <1>1, <1>2, <2>1, <2>3, <2>4, Rebalanced
  <1> QED BY <1>1, <1>5, <1>6, <1>7, <1>8

\* Every step keeps the balance.
LEMMA NextExact == ASSUME BaseInv, BaseInv', ExactInv, [Next]_vars PROVE ExactInv'
  <1>0. ASSUME NEW w \in Workers, Step(w) PROVE Others(w)
    BY <1>0, OthersStay DEF BaseInv
  <1>1. CASE UNCHANGED vars
    <2>1. UNCHANGED <<size, Count, Uncounted, Overcounted, clean>>
      BY <1>1 DEF vars, Count, Elements, Uncounted, Fresh, Overcounted, Halfway
    <2> QED BY <2>1 DEF ExactInv, Balanced
  <1>2. CASE Crash
    <2> SUFFICES ASSUME clean' PROVE Balanced'
      BY DEF ExactInv
    <2>1. /\ clean /\ \A w \in Workers : ~Halfway(w)
          /\ \A w \in Workers : pc'[w] = "idle" /\ op'[w] = "none"
          /\ UNCHANGED <<size, value, dirs>>
      BY <1>2 DEF Crash, stored
    <2>2. \A w \in Workers : ~Halfway(w)'
      BY <2>1 DEF Halfway
    <2>3. Uncounted' = Uncounted /\ Overcounted' = Overcounted
      BY <2>1, <2>2 DEF Uncounted, Overcounted, Fresh
    <2>4. Count' = Count
      BY <2>1 DEF Count, Elements
    <2> QED BY <2>1, <2>3, <2>4 DEF ExactInv, Balanced
  <1>3. ASSUME NEW w \in Workers, StartSome(w) PROVE ExactInv'
    <2>1. PICK o, k, vs : Start(w, o, k, vs)
      BY <1>3 DEF StartSome
    <2>2. /\ pc[w] = "idle" /\ pc'[w] \in {"bounds", "fetch"}
          /\ UNCHANGED <<size, value, dirs, clean>>
      BY <2>1 DEF Start, Goto, stored, BaseInv, TypeOK
    <2>3. ~Halfway(w) /\ ~Halfway(w)' /\ Elements' = Elements
      BY <2>2 DEF Halfway, Elements
    <2> QED BY <1>0, <1>3, <2>2, <2>3, NotHalfway DEF Step
  <1>4. ASSUME NEW w \in Workers, Bounds(w) PROVE ExactInv'
    <2>1. pc[w] = "bounds" /\ UNCHANGED <<size, value, dirs, clean>>
      BY <1>4 DEF Bounds, stored, history
    <2>2. ~Halfway(w)'
      <3>1. CASE End(w)
        BY <3>1, Ending DEF Halfway, BaseInv
      <3>2. CASE ~End(w)
        <4>1. /\ op'[w] = op[w] /\ op[w] # "append"
              /\ pc'[w] = IF op[w] = "set" THEN "fetch" ELSE IF op[w] = "make" THEN "count" ELSE "announce"
          BY <1>4, <2>1, <3>2, Going DEF Bounds, BaseInv, Shape, Fits
        <4> QED BY <4>1 DEF Halfway
      <3> QED BY <3>1, <3>2
    <2>3. ~Halfway(w) /\ Elements' = Elements
      BY <2>1 DEF Halfway, Elements
    <2> QED BY <1>0, <1>4, <2>1, <2>2, <2>3, NotHalfway DEF Step
  <1>5. ASSUME NEW w \in Workers, FetchRecord(w) PROVE ExactInv'
    <2>1. pc[w] = "fetch" /\ UNCHANGED <<size, value, dirs, clean>>
      BY <1>5 DEF FetchRecord, stored, history
    <2>2. ~Halfway(w)'
      <3>1. CASE End(w)
        BY <3>1, Ending DEF Halfway, BaseInv
      <3>2. CASE Goto(w, "bounds")
        BY <3>2 DEF Halfway, Goto, BaseInv, TypeOK
      <3>3. CASE op[w] = "remove" /\ Goto(w, "count") /\ UNCHANGED <<command, s>>
        BY <3>3, Going DEF Halfway, BaseInv
      <3> QED BY <1>5, <3>1, <3>2, <3>3 DEF FetchRecord
    <2>3. ~Halfway(w) /\ Elements' = Elements
      BY <2>1 DEF Halfway, Elements
    <2> QED BY <1>0, <1>5, <2>1, <2>2, <2>3, NotHalfway DEF Step
  <1>6. ASSUME NEW w \in Workers, FetchArray(w) PROVE ExactInv'
    <2>1. /\ pc[w] = "fetch" /\ op'[w] = "append" /\ key'[w] = size /\ s'[w] = size
          /\ UNCHANGED <<size, value, dirs, clean>>
      BY <1>6 DEF FetchArray, Goto, stored, history, BaseInv, TypeOK
    <2>2. ~Halfway(w) /\ ~Halfway(w)' /\ Elements' = Elements
      BY <2>1, FiniteSides DEF Halfway, Elements
    <2> QED BY <1>0, <1>6, <2>1, <2>2, NotHalfway DEF Step
  <1>7. ASSUME NEW w \in Workers, Announce(w) PROVE ExactInv'
    <2>1. /\ pc[w] = "announce" /\ pc'[w] = "write" /\ op'[w] = op[w] /\ op[w] # "make"
          /\ key'[w] = key[w] /\ s'[w] = s[w] /\ UNCHANGED <<size, value, dirs, clean>>
      BY <1>7, Going DEF Announce, stored, BaseInv, Shape, Fits
    <2>2. (Halfway(w)' <=> Halfway(w)) /\ Elements' = Elements
      BY <2>1 DEF Halfway, Elements
    <2>3. Fresh(w)' = Fresh(w) /\ (w \in Overcounted' <=> w \in Overcounted)
      BY <2>1, <2>2 DEF Fresh, Overcounted
    <2> QED BY <1>0, <1>7, <2>1, <2>2, <2>3, QuietExact DEF Step
  <1>8. ASSUME NEW w \in Workers, WriteRefused(w) PROVE ExactInv'
    <2> SUFFICES ASSUME clean' PROVE ExactInv'
      BY DEF ExactInv
    <2>1. ~Halfway(w) /\ ~Halfway(w)' /\ clean /\ UNCHANGED <<size, value, dirs>>
      BY <1>8, Ending DEF WriteRefused, Halfway, stored, BaseInv
    <2>2. Elements' = Elements
      BY <2>1 DEF Elements
    <2> QED BY <1>0, <1>8, <2>1, <2>2, NotHalfway DEF Step
  <1>9. ASSUME NEW w \in Workers, Replace(w) PROVE ExactInv'
    <2>1. /\ pc[w] = "write" /\ op[w] = "replace" /\ value[key[w]] # None /\ pc'[w] = "idle"
          /\ value' = [value EXCEPT ![key[w]] = Head(vals[w])] /\ UNCHANGED <<size, dirs, clean>>
      BY <1>9, Ending DEF Replace, Put, history, BaseInv
    <2>2. key[w] \in Names /\ Head(vals[w]) # None
      <3>1. key[w] \in Names /\ vals[w] \in Seq(Values) /\ vals[w] # <<>>
        BY <2>1 DEF BaseInv, TypeOK, Shape, Fits
      <3> QED BY <3>1, QueueOfValues, DirectoryAssumption
    <2>3. Elements' = Elements
      BY <2>1, <2>2, Storing
    <2>4. ~Halfway(w) /\ ~Halfway(w)'
      BY <2>1 DEF Halfway
    <2> QED BY <1>0, <1>9, <2>1, <2>3, <2>4, NotHalfway DEF Step
  <1>10. ASSUME NEW w \in Workers, ReadSize(w) PROVE ExactInv'
    <2>1. /\ pc[w] = "count" /\ op[w] \in {"add", "make", "remove"}
          /\ pc'[w] = (IF op[w] = "remove" THEN "announce" ELSE "resize")
          /\ op' = op /\ key' = key /\ UNCHANGED <<size, value, dirs, clean>>
      BY <1>10 DEF ReadSize, Goto, stored, command, history, BaseInv, TypeOK, Shape, Fits
    <2>2. (Halfway(w)' <=> Halfway(w)) /\ Elements' = Elements
      BY <2>1 DEF Halfway, Elements
    <2>3. Fresh(w)' = Fresh(w) /\ (w \in Overcounted' <=> w \in Overcounted)
      BY <2>1, <2>2 DEF Fresh, Overcounted
    <2> QED BY <1>0, <1>10, <2>1, <2>2, <2>3, QuietExact DEF Step
  <1> QED BY <1>1, <1>2, <1>3, <1>4, <1>5, <1>6, <1>7, <1>8, <1>9, <1>10,
             StoreExact, RemoveExact, MakeExact, ResizeExact DEF Next, Step

\* The invariant holds in every behaviour.
LEMMA ExactInvariance == Spec => [](BaseInv /\ ExactInv)
  <1>1. Init => BaseInv /\ ExactInv
    <2> SUFFICES ASSUME Init PROVE ExactInv
      BY InitBase
    <2>1. Elements = {} /\ dirs = {} /\ size = 0 /\ \A w \in Workers : pc[w] = "idle"
      BY DEF Init, Elements
    <2>2. \A w \in Workers : ~Halfway(w)
      BY <2>1 DEF Halfway
    <2>3. Uncounted = {} /\ Overcounted = {}
      BY <2>2 DEF Uncounted, Overcounted, Fresh
    <2>4. Count = 0 /\ Cardinality(Uncounted) = 0 /\ Cardinality(Overcounted) = 0
      BY <2>1, <2>3, FS_EmptySet DEF Count
    <2>5. 0 * Width = 0
      BY DirectoryAssumption
    <2> QED BY <2>1, <2>4, <2>5 DEF ExactInv, Balanced, Wrapped
  <1>2. BaseInv /\ ExactInv /\ [Next]_vars => (BaseInv /\ ExactInv)'
    BY NextBase, NextExact
  <1> QED BY <1>1, <1>2, PTL DEF Spec

\* A stored size is the number of members whenever no command is half way and
\* none of the races has happened that ExactUnlessRaced names: they are the only
\* ones (changeContainerSize and setContainerSize, janosh.cpp).
THEOREM OnlyTheseRaces == Spec => []ExactUnlessRaced
  <1>1. BaseInv /\ ExactInv => ExactUnlessRaced
    <2> SUFFICES ASSUME BaseInv, ExactInv, clean, \A w \in Workers : ~Halfway(w)
                 PROVE  size = Count
      BY DEF ExactUnlessRaced
    <2>1. Uncounted = {} /\ Overcounted = {}
      BY DEF Uncounted, Overcounted, Fresh
    <2>2. Cardinality(Uncounted) = 0 /\ Cardinality(Overcounted) = 0
      BY <2>1, FS_EmptySet
    <2>3. PICK d \in Int : size + Cardinality(Uncounted) + d * Width = Count + Cardinality(Overcounted)
      BY DEF ExactInv, Balanced, Wrapped
    <2>4. PICK n \in Nat, c \in Nat, i \in Nat :
            n = size /\ c = Count /\ i = Width /\ n < i /\ c < i
      <3>1. size \in Nat /\ Count \in Nat /\ Width \in Nat /\ size < Width /\ Count < Width
        BY FiniteSides, DirectoryAssumption DEF BaseInv, TypeOK
      <3> QED BY <3>1
    <2>5. n + d * i = c
      BY <2>2, <2>3, <2>4
    <2>6. n = c
      <3>1. CASE d = 0
        BY <2>5, <3>1
      <3>2. CASE d >= 1
        <4>1. d * i >= i
          BY <3>2
        <4> QED BY <2>4, <2>5, <4>1
      <3>3. CASE d <= -1
        <4>1. d * i <= -i
          BY <3>3
        <4> QED BY <2>4, <2>5, <4>1
      <3> QED BY <3>1, <3>2, <3>3
    <2> QED BY <2>4, <2>6
  <1> QED BY <1>1, ExactInvariance, PTL
=============================================================================
