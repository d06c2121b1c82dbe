------------------------------ MODULE AVLDemo -------------------------------
(***************************************************************************)
(* demo/AVLDemo.java: a search tree that insert() balances by rotations.   *)
(* Each node stores its height, which the rotations and insert() compute   *)
(* from the stored heights of the children, in the order of the code.      *)
(***************************************************************************)
EXTENDS Integers

CONSTANT Value  \* the values that are inserted

ASSUME ValueAssumption == Value \subseteq Int

VARIABLES
  root,     \* the tree
  inserted  \* history: the values of the calls of insert()

avlVars == <<root, inserted>>

Nil == [height |-> -1]  \* null, with what getHeight() answers for it

Node(left, value, right, height) ==
  [left |-> left, value |-> value, right |-> right, height |-> height]

Higher(a, b) == IF a.height >= b.height THEN a.height ELSE b.height

\* The assignment of node.height from the children.
Measured(node) == [node EXCEPT !.height = Higher(node.left, node.right) + 1]

\* left(): tmpNode takes the place of node.  Its height is computed while that
\* of node is still the old one.
RotateLeft(node) ==
  LET tmpNode == node.right
      lowered == [node EXCEPT !.right = tmpNode.left]
  IN  Node(Measured(lowered), tmpNode.value, tmpNode.right, Higher(lowered, lowered.right) + 1)

\* right(), likewise.
RotateRight(node) ==
  LET tmpNode == node.left
      lowered == [node EXCEPT !.left = tmpNode.right]
  IN  Node(tmpNode.left, tmpNode.value, Measured(lowered), Higher(tmpNode.left, lowered.right) + 1)

\* Fault: a single rotation where two are due.
SingleLeft(node) == RotateLeft(node)

DoubleLeft(node) == RotateLeft([node EXCEPT !.right = RotateRight(@)])

DoubleRight(node) == RotateRight([node EXCEPT !.left = RotateLeft(@)])

\* The trees with at most n nodes on a way down.
Tree[n \in Nat] ==
  IF n = 0 THEN {Nil}
  ELSE {Nil} \cup [left : Tree[n - 1], value : Value, right : Tree[n - 1], height : Int]

\* The rotations after node.left, or node.right, has been assigned.
BalanceLeft(value, node) ==
  IF node.left.height - node.right.height <= 1 THEN node
  ELSE IF value < node.left.value THEN RotateRight(node)
  ELSE IF value > node.left.value THEN DoubleRight(node) ELSE node

BalanceRight(value, node) ==
  IF node.right.height - node.left.height <= 1 THEN node
  ELSE IF value > node.right.value THEN RotateLeft(node)
  ELSE IF value < node.right.value THEN DoubleLeft(node) ELSE node

\* insert(), of a tree with at most n nodes on a way down.  The second test is
\* of what the rotations have put in the place of node: the value may be to the
\* right of it, and is inserted there a second time.
InsertInto(value) ==
  LET into[n \in Nat] ==
        [node \in Tree[n] |->
           IF node = Nil THEN Node(Nil, value, Nil, 0)
           ELSE LET first == IF value < node.value
                             THEN BalanceLeft(value, [node EXCEPT !.left = into[n - 1][@]])
                             ELSE node
                    second == IF value > first.value
                              THEN BalanceRight(value, [first EXCEPT !.right = into[n - 1][@]])
                              ELSE first
                IN  Measured(second)]
  IN  into

AvlInit == root = Nil /\ inserted = {}

\* One turn of the loop of create().
Insert(value) ==
  /\ root' = InsertInto(value)[root.height + 1][root]
  /\ inserted' = inserted \cup {value}

AvlNext == \E value \in Value : Insert(value)

AvlSpec == AvlInit /\ [][AvlNext]_avlVars

-----------------------------------------------------------------------------
\* A tree and what is below its root.
Subtrees[n \in Nat] ==
  [node \in Tree[n] |->
     IF node = Nil THEN {} ELSE {node} \cup Subtrees[n - 1][node.left] \cup Subtrees[n - 1][node.right]]

Nodes(node) == Subtrees[node.height + 1][node]

Values(node) == {n.value : n \in Nodes(node)}

\* Order and balance at one node, and its stored height is not stale: as null
\* counts -1, it is one more than the higher one of the children.
Placed(node) ==
  /\ \A v \in Values(node.left) : v < node.value
  /\ \A v \in Values(node.right) : v > node.value
  /\ node.height = Higher(node.left, node.right) + 1
  /\ node.left.height - node.right.height \in -1 .. 1

\* In whatever order values are inserted, and repeated, the tree holds exactly
\* them, in order and balanced, and no stored height is stale.
AvlRight ==
  /\ Values(root) = inserted
  /\ \A node \in Nodes(root) : Placed(node)
=============================================================================
