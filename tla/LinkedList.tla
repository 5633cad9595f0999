----------------------------- MODULE LinkedList ----------------------------
(***************************************************************************)
(* The doubly linked list of kernel/ds/list.c, pointer by pointer.  Nodes  *)
(* come from kmalloc (any free one) and go back to kfree, which clears     *)
(* them.  Callers of list_remove have got the node from a walk of the      *)
(* list; list_pop_front may find none.                                     *)
(* A definition marked "mutant" is used by no action (README, "Mutants").  *)
(***************************************************************************)
EXTENDS KList, FiniteSets

CONSTANTS
  Nodes,    \* the addresses kmalloc can give to a node: bounds the list
  Items,   \* what callers put in
  NULL,
  LENGTH_MAX   \* the largest number a length can be: 2^64 - 1 in the code

ASSUME LinkedListAssumption == NULL \notin Nodes \cup Items /\ IsFiniteSet(Nodes)
ASSUME LengthAssumption == LENGTH_MAX \in Nat

VARIABLES
  made,                \* the list has been created and not destroyed
  head, tail, length,  \* the fields of list_t
  next, prev, value,   \* the fields of each node
  used,                \* the nodes kmalloc has given out
  lost                 \* history: nodes no walk ever met

listVars == <<made, head, tail, length, next, prev, value, used, lost>>

----------------------------------------------------------------------------
(* Walking                                                                 *)

\* The node a walk of i steps from head has reached: what list_find has come to,
\* and list_at for an index it has found below length.  Behind the last node
\* there is none.
Nth[i \in 0..Cardinality(Nodes)] ==
  IF i = 0 THEN head ELSE IF Nth[i - 1] = NULL THEN NULL ELSE next[Nth[i - 1]]

\* The nodes a walk meets, in order; those list_find looks at.
Walked == {i \in 0..Cardinality(Nodes) : Nth[i] # NULL}
Walk == [i \in 1..Cardinality(Walked) |-> Nth[i - 1]]
OnList == {Nth[i] : i \in Walked}

----------------------------------------------------------------------------
(* Operations                                                              *)

ListInit ==
  /\ made = FALSE
  /\ head = NULL /\ tail = NULL /\ length = 0
  /\ next = [n \in Nodes |-> NULL]
  /\ prev = [n \in Nodes |-> NULL]
  /\ value = [n \in Nodes |-> NULL]
  /\ used = {} /\ lost = {}

\* list_create.
Create ==
  /\ ~made
  /\ made' = TRUE
  /\ head' = NULL /\ tail' = NULL /\ length' = 0
  /\ UNCHANGED <<next, prev, value, used, lost>>

\* list_destroy frees what it can walk to, and the list.
Destroy ==
  /\ made
  /\ made' = FALSE
  /\ head' = NULL /\ tail' = NULL /\ length' = 0
  /\ used' = used \ OnList
  /\ next' = [n \in Nodes |-> IF n \in OnList THEN NULL ELSE next[n]]
  /\ prev' = [n \in Nodes |-> IF n \in OnList THEN NULL ELSE prev[n]]
  /\ value' = [n \in Nodes |-> IF n \in OnList THEN NULL ELSE value[n]]
  /\ UNCHANGED lost

\* list_append.
AppendNode(n, v) ==
  /\ made
  /\ n \notin used
  /\ used' = used \cup {n}
  /\ value' = [value EXCEPT ![n] = v]
  /\ prev' = [prev EXCEPT ![n] = tail]
  /\ next' = [m \in Nodes |-> IF m = n THEN NULL ELSE IF m = tail THEN n ELSE next[m]]
  /\ head' = IF tail = NULL THEN n ELSE head
  /\ tail' = n
  /\ length' = Longer(length, LENGTH_MAX)
  /\ UNCHANGED <<made, lost>>

\* list_remove, and list_pop_front of a list that is not empty: n is head then.
RemoveNode(n) ==
  /\ made
  /\ n \in OnList
  /\ head' = IF n = head THEN next[n] ELSE head
  /\ tail' = IF n = tail THEN prev[n] ELSE tail
  /\ next' = [m \in Nodes |-> IF m = n THEN NULL
                              ELSE IF m = prev[n] THEN next[n] ELSE next[m]]
  /\ prev' = [m \in Nodes |-> IF m = n THEN NULL
                              ELSE IF m = next[n] THEN prev[n] ELSE prev[m]]
  /\ value' = [value EXCEPT ![n] = NULL]
  /\ length' = Shorter(length, LENGTH_MAX)
  /\ used' = used \ {n}
  /\ UNCHANGED <<made, lost>>

\* list_pop_front of an empty list goes on into list_remove(list, NULL).  The
\* fields it reads there are small addresses, not 0, so the page fault handler
\* gives it a page of zeros: head and tail become NULL, which they were, no node
\* is changed, kfree(NULL) does nothing, and length, which may be 0, goes down.
PopNothing ==
  /\ made
  /\ head = NULL
  /\ length' = Shorter(length, LENGTH_MAX)
  /\ UNCHANGED <<made, head, tail, next, prev, value, used, lost>>

BeforeNone(after) == NULL   \* mutant: the node in front is not linked to the new one
\* The node behind which list_insert_before links a new one: prev of after,
\* or nothing when after is NULL.
Before(after) == IF after = NULL THEN NULL ELSE prev[after]

InsertNodeOneWay(n, after, v) ==   \* mutant: after->prev is not set
  /\ made
  /\ n \notin used
  /\ after \in OnList \cup {NULL}
  /\ used' = used \cup {n}
  /\ value' = [value EXCEPT ![n] = v]
  /\ prev' = [prev EXCEPT ![n] = Before(after)]
  /\ next' = [m \in Nodes |-> IF m = n THEN after
                              ELSE IF m = Before(after) THEN n ELSE next[m]]
  /\ head' = IF head = after THEN n ELSE head
  /\ tail' = IF tail = NULL THEN n ELSE tail
  /\ length' = Longer(length, LENGTH_MAX)
  /\ lost' = IF after = NULL /\ head # NULL THEN lost \cup {n} ELSE lost
  /\ UNCHANGED made

\* list_insert_before.  With after = NULL and a list that is not empty nothing
\* points to the new node.
InsertNode(n, after, v) ==
  /\ made
  /\ n \notin used
  /\ after \in OnList \cup {NULL}
  /\ used' = used \cup {n}
  /\ value' = [value EXCEPT ![n] = v]
  /\ prev' = [m \in Nodes |-> IF m = n THEN Before(after)
                              ELSE IF m = after THEN n ELSE prev[m]]
  /\ next' = [m \in Nodes |-> IF m = n THEN after
                              ELSE IF m = Before(after) THEN n ELSE next[m]]
  /\ head' = IF head = after THEN n ELSE head
  /\ tail' = IF tail = NULL THEN n ELSE tail
  /\ length' = Longer(length, LENGTH_MAX)
  /\ lost' = IF after = NULL /\ head # NULL THEN lost \cup {n} ELSE lost
  /\ UNCHANGED made

ListNext ==
  \/ Create
  \/ Destroy
  \/ \E n \in Nodes, v \in Items : AppendNode(n, v)
  \/ \E n \in Nodes : RemoveNode(n)
  \/ PopNothing
  \/ \E n \in Nodes, after \in Nodes \cup {NULL}, v \in Items : InsertNode(n, after, v)

ListSpec == ListInit /\ [][ListNext]_listVars

----------------------------------------------------------------------------
(* Properties                                                              *)

\* A walk ends at NULL and at tail, and a walk back along prev meets the same
\* nodes: removals in the middle and at either end leave both directions and
\* both ends in agreement.  Every node given out is on the list or lost, none
\* is both, and no pointer of the list leads into freed memory.
WellLinked ==
  /\ Nth[Cardinality(Nodes)] = NULL
  /\ tail = IF head = NULL THEN NULL ELSE Walk[Len(Walk)]
  /\ head # NULL => prev[head] = NULL
  /\ \A i \in 1..(Len(Walk) - 1) : prev[Walk[i + 1]] = Walk[i]
  /\ used = OnList \cup lost /\ OnList \cap lost = {}

\* The pointers implement the sequence the users of the list see.
S == INSTANCE SeqList WITH Values <- Items, seq <- [i \in DOMAIN Walk |-> value[Walk[i]]], count <- length

SequenceSpec == S!SSpec

============================================================================
