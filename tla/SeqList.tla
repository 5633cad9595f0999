------------------------------ MODULE SeqList ------------------------------
(***************************************************************************)
(* What kernel/ds/list.c promises its users: a sequence of values, and the *)
(* count kept with it.  LinkedList.tla implements it.                      *)
(***************************************************************************)
EXTENDS KList

CONSTANTS
  Values,
  LENGTH_MAX   \* the largest count: 2^64 - 1 in the code

VARIABLES
  seq,     \* the values, in the order of a walk
  count,   \* the count the list keeps: lost nodes are in it, and pops of nothing are taken off
  made     \* the list exists

svars == <<seq, count, made>>

SInit == seq = <<>> /\ count = 0 /\ made = FALSE

Create == ~made /\ made' = TRUE /\ seq' = <<>> /\ count' = 0

Destroy == made /\ made' = FALSE /\ seq' = <<>> /\ count' = 0

Push(v) ==
  /\ made
  /\ seq' = Appended(seq, v) /\ count' = Longer(count, LENGTH_MAX)
  /\ UNCHANGED made

Remove(i) ==
  /\ i \in DOMAIN seq
  /\ seq' = Without(seq, i) /\ count' = Shorter(count, LENGTH_MAX)
  /\ UNCHANGED made

\* A pop of an empty list gives nothing and is counted all the same.
PopNothing ==
  /\ made /\ seq = <<>>
  /\ count' = Shorter(count, LENGTH_MAX)
  /\ UNCHANGED <<seq, made>>

Insert(i, v) ==
  /\ made
  /\ seq' = InsertedBefore(seq, i, v) /\ count' = Longer(count, LENGTH_MAX)
  /\ UNCHANGED made

SNext ==
  \/ Create \/ Destroy
  \/ \E v \in Values : Push(v) \/ \E i \in 1..(Len(seq) + 1) : Insert(i, v)
  \/ \E i \in DOMAIN seq : Remove(i)
  \/ PopNothing

SSpec == SInit /\ [][SNext]_svars

============================================================================
