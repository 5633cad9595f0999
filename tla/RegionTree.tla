----------------------------- MODULE RegionTree -----------------------------
(***************************************************************************)
(* The tree of vmm_avl.c through its operations, beside the regions it is  *)
(* to have.                                                                *)
(***************************************************************************)
EXTENDS Avl

CONSTANTS Starts, Data   \* the start addresses of regions, and the rest of them

VARIABLES
  tree,      \* the balanced tree
  regions,   \* the regions that are to be in it
  tilted     \* history: an insertion has met the tests that have changed places

treeVars == <<tree, regions, tilted>>

TreeInit == tree = NoTree /\ regions = {} /\ tilted = FALSE

InsertRegion(start_addr, data) ==
  /\ tree # Broken
  /\ tree' = VmmAvlInsert(tree, start_addr, data)
  /\ regions' = regions \cup
                 {region \in {<<start_addr, data>>} : \A other \in regions : other[1] # start_addr}
  /\ tilted' = (tilted \/ Tilts(tree, start_addr, data))

DeleteRegion(start_addr) ==
  /\ tree # Broken
  /\ tree' = VmmAvlDelete(tree, start_addr)
  /\ regions' = {region \in regions : region[1] # start_addr}
  /\ UNCHANGED tilted

TreeNext ==
  \/ \E start_addr \in Starts, data \in Data : InsertRegion(start_addr, data)
  \/ \E start_addr \in Starts : DeleteRegion(start_addr)

\* The tree has the regions inserted and not deleted, where a search finds
\* them and with their heights, whatever is rotated: unless an insertion on
\* the right has gone through a NULL pointer.  Until an insertion takes one of
\* the two tests that have changed places, it is balanced as well.
TreeKeeps ==
  /\ tree # Broken => /\ Searchable(tree)
                      /\ RegionsOf(tree) = regions
                      /\ HeightsRight(tree)
  /\ ~tilted => tree # Broken /\ BalancedTree(tree)

=============================================================================
