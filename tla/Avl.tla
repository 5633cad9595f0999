--------------------------------- MODULE Avl ---------------------------------
(***************************************************************************)
(* The balanced tree of vmm_avl.c, kept by the start addresses of regions. *)
(* A tree is a value: NoTree, or a node with its fields and two trees.     *)
(* What goes through a NULL pointer is Broken, and so is any tree built of *)
(* it: it is not followed further.                                         *)
(***************************************************************************)
EXTENDS Integers

NoTree == [height |-> 0]
Broken == [height |-> -1]

Highest(a, b) == IF a > b THEN a ELSE b

\* The same region over other children, with its height.
Over(node, left, right) ==
  IF Broken \in {left, right} THEN Broken
  ELSE [node EXCEPT !.left = left, !.right = right, !.height = 1 + Highest(left.height, right.height)]

\* vmm_avl_new.
VmmAvlNew(start_addr, data) ==
  [start_addr |-> start_addr, data |-> data, height |-> 1, left |-> NoTree, right |-> NoTree]

GetBalance(tree) == IF tree = NoTree THEN 0 ELSE tree.left.height - tree.right.height

RotateRight(tree) ==
  IF tree.left = NoTree THEN Broken
  ELSE Over(tree.left, tree.left.left, Over(tree, tree.left.right, tree.right))

RotateLeft(tree) ==
  IF tree.right = NoTree THEN Broken
  ELSE Over(tree.right, Over(tree, tree.left, tree.right.left), tree.right.right)

\* A rotation of a tree whose child has been rotated.
RotateRightOver(tree) ==
  LET left == RotateLeft(tree.left)
  IN IF left = Broken THEN Broken ELSE RotateRight([tree EXCEPT !.left = left])
RotateLeftOver(tree) ==
  LET right == RotateRight(tree.right)
  IN IF right = Broken THEN Broken ELSE RotateLeft([tree EXCEPT !.right = right])

----------------------------------------------------------------------------
(* Insertion                                                               *)

\* The end of vmm_avl_insert.  On the right side the two tests have changed
\* places: a region behind the right child's gets the double rotation.
Inserted(tree, start_addr) ==
  CASE GetBalance(tree) > 1 /\ start_addr < tree.left.start_addr -> RotateRight(tree)
    [] GetBalance(tree) < -1 /\ start_addr < tree.right.start_addr -> RotateLeft(tree)
    [] GetBalance(tree) > 1 /\ start_addr > tree.left.start_addr -> RotateRightOver(tree)
    [] GetBalance(tree) < -1 /\ start_addr > tree.right.start_addr -> RotateLeftOver(tree)
    [] OTHER -> tree

RECURSIVE VmmAvlInsert(_, _, _)
VmmAvlInsert(tree, start_addr, data) ==
  IF tree = NoTree THEN VmmAvlNew(start_addr, data)
  ELSE IF tree.start_addr = start_addr THEN tree
  ELSE LET grown == IF tree.start_addr > start_addr
                    THEN Over(tree, VmmAvlInsert(tree.left, start_addr, data), tree.right)
                    ELSE Over(tree, tree.left, VmmAvlInsert(tree.right, start_addr, data))
       IN IF grown = Broken THEN Broken ELSE Inserted(grown, start_addr)

----------------------------------------------------------------------------
(* Deletion                                                                *)

RECURSIVE GetMinNode(_)
GetMinNode(tree) == IF tree.left = NoTree THEN tree ELSE GetMinNode(tree.left)

DeletedSingle(tree) ==   \* mutant: the double rotations are left out
  CASE GetBalance(tree) > 1 -> RotateRight(tree)
    [] GetBalance(tree) < -1 -> RotateLeft(tree)
    [] OTHER -> tree

\* The end of vmm_avl_delete.
Deleted(tree) ==
  CASE GetBalance(tree) > 1 /\ GetBalance(tree.left) >= 0 -> RotateRight(tree)
    [] GetBalance(tree) > 1 /\ GetBalance(tree.left) < 0 -> RotateRightOver(tree)
    [] GetBalance(tree) < -1 /\ GetBalance(tree.right) <= 0 -> RotateLeft(tree)
    [] GetBalance(tree) < -1 /\ GetBalance(tree.right) > 0 -> RotateLeftOver(tree)
    [] OTHER -> tree

RECURSIVE VmmAvlDelete(_, _)
VmmAvlDelete(tree, start_addr) ==
  LET below == CASE start_addr < tree.start_addr ->
                      Over(tree, VmmAvlDelete(tree.left, start_addr), tree.right)
                 [] start_addr > tree.start_addr ->
                      Over(tree, tree.left, VmmAvlDelete(tree.right, start_addr))
                 [] start_addr = tree.start_addr /\ tree.left = NoTree -> tree.right
                 [] start_addr = tree.start_addr /\ tree.left # NoTree /\ tree.right = NoTree -> tree.left
                 [] OTHER ->
                      LET least == GetMinNode(tree.right)
                      IN Over([tree EXCEPT !.start_addr = least.start_addr, !.data = least.data],
                              tree.left, VmmAvlDelete(tree.right, least.start_addr))
  IN IF tree = NoTree THEN NoTree
     ELSE IF below \in {NoTree, Broken} THEN below
     ELSE Deleted(below)

----------------------------------------------------------------------------
(* What a tree says                                                        *)

RECURSIVE NodesOf(_)
NodesOf(tree) == IF tree = NoTree THEN {} ELSE {tree} \cup NodesOf(tree.left) \cup NodesOf(tree.right)

\* The tree before anything is rotated.
RECURSIVE PlainInsert(_, _, _)
PlainInsert(tree, start_addr, data) ==
  CASE tree = NoTree -> VmmAvlNew(start_addr, data)
    [] tree # NoTree /\ start_addr < tree.start_addr ->
         Over(tree, PlainInsert(tree.left, start_addr, data), tree.right)
    [] tree # NoTree /\ start_addr > tree.start_addr ->
         Over(tree, tree.left, PlainInsert(tree.right, start_addr, data))
    [] OTHER -> tree

\* Its regions: <<start, data>>.
RegionsOf(tree) == {<<n.start_addr, n.data>> : n \in NodesOf(tree)}

\* What is found goes left and right as a search does.
Searchable(tree) ==
  \A n \in NodesOf(tree) :
    /\ \A m \in NodesOf(n.left) : m.start_addr < n.start_addr
    /\ \A m \in NodesOf(n.right) : m.start_addr > n.start_addr

HeightsRight(tree) ==
  \A n \in NodesOf(tree) : n.height = 1 + Highest(n.left.height, n.right.height)
BalancedTree(tree) == \A n \in NodesOf(tree) : GetBalance(n) \in -1..1

\* The deepest node an insertion leaves out of balance is so on the right.
Tilts(tree, start_addr, data) ==
  \E n \in NodesOf(PlainInsert(tree, start_addr, data)) :
    GetBalance(n) < -1 /\ BalancedTree(n.left) /\ BalancedTree(n.right)

=============================================================================
