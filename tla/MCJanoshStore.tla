--------------------------- MODULE MCJanoshStore ---------------------------
(***************************************************************************)
(* The document store on the paths /a and /b with members below them.      *)
(***************************************************************************)
EXTENDS Printing

a == 100
b == 102                 \* a name like b0
MCNumbered == [c \in {b} |-> 0]

MCBases == {<<a>>, <<b>>, <<a, Index(0)>>, <<a, Index(1)>>, <<a, Index(2)>>,
            <<a, b>>, <<a, Index(0), a>>, <<a, Index(1), a>>, <<b, Index(0)>>, <<b, Index(0), a>>}

O(n) == [t |-> "O", n |-> n]
A(n) == [t |-> "A", n |-> n]
V(n) == [t |-> "s", n |-> n]
Text(nodes) == [p \in {x[1] : x \in nodes} |-> (CHOOSE x \in nodes : x[1] = p)[2]]

\* {"a":[1,{"a":0}]}, {"a":{"b":1},"b":0}, {"a":[1,null]}, {"a":[null,1]},
\* {"a":1,"b":[{"a":1}]}
MCFiles == {
  Text({<<Root, O(1)>>, <<<<a, Dot>>, A(2)>>, <<<<a, Index(0)>>, V(1)>>,
        <<<<a, Index(1), Dot>>, O(1)>>, <<<<a, Index(1), a>>, V(0)>>}),
  Text({<<Root, O(2)>>, <<<<a, Dot>>, O(1)>>, <<<<a, b>>, V(1)>>, <<<<b>>, V(0)>>}),
  Text({<<Root, O(1)>>, <<<<a, Dot>>, A(2)>>, <<<<a, Index(0)>>, V(1)>>}),
  Text({<<Root, O(1)>>, <<<<a, Dot>>, A(2)>>, <<<<a, Index(1)>>, V(1)>>}),
  Text({<<Root, O(2)>>, <<<<a>>, V(1)>>, <<<<b, Dot>>, A(1)>>, <<<<b, Index(0), Dot>>, O(1)>>,
        <<<<b, Index(0), a>>, V(1)>>})}
MCBatches == {<<0>>, <<1>>, <<1, 0>>}

MCView == db
=============================================================================
