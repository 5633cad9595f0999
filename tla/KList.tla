------------------------------- MODULE KList -------------------------------
(***************************************************************************)
(* The kernel's doubly linked list (kernel/ds/list.c) as its users see it: *)
(* the sequence met by a walk from head along next.  LinkedList.tla models *)
(* the pointers and is checked to behave like these operators.             *)
(***************************************************************************)
EXTENDS Integers, Sequences

\* list_append.
Appended(s, v) == Append(s, v)

\* list_remove of the node at position i; list_pop_front is i = 1.
Without(s, i) == SubSeq(s, 1, i - 1) \o SubSeq(s, i + 1, Len(s))

\* list_insert_before the node at position i.  Position Len(s) + 1 stands for
\* after = NULL.  Into a list that is not empty the code then links the node
\* nowhere: no walk meets it.
NodeLost(s, i) == i > Len(s) /\ s # <<>>

InsertedBefore(s, i, v) ==
  IF NodeLost(s, i) THEN s ELSE SubSeq(s, 1, i - 1) \o <<v>> \o SubSeq(s, i, Len(s))

\* length++ and length-- of a size_t, whose largest value is max.
Longer(length, max) == IF length = max THEN 0 ELSE length + 1
Shorter(length, max) == IF length = 0 THEN max ELSE length - 1

============================================================================
