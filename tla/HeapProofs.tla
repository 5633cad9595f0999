----------------------------- MODULE HeapProofs ----------------------------
(***************************************************************************)
(* Theorems about Heap, for every Base, every set of sizes and every       *)
(* bound: its invariants, that it implements Allocator, that no byte is    *)
(* lost, and what holds of a kmalloc that interrupts stop (HeapRace).      *)
(*                                                                         *)
(* IInv is inductive as it stands.  Its parts lean on each other: the      *)
(* merge in kfree needs the links to be inverse and in order, the order is *)
(* kept because blocks are disjoint, and an expansion never has size zero  *)
(* because next_free is a free block.                                      *)
(*                                                                         *)
(* The account of the bytes is a sum over the blocks, which Folding says   *)
(* how to take apart: one block more or less, or one that changes size.    *)
(*                                                                         *)
(* Between the Take and the Advance of an interrupted kmalloc next_free    *)
(* may point to the block just taken, so IInv does not hold there; Shape   *)
(* and NextFreeLow do, and every whole call keeps them from there.         *)
(***************************************************************************)
EXTENDS HeapRace, FiniteSetTheorems, WellFoundedInduction, TLAPS

IInv ==
  /\ TypeOK
  /\ Linked
  /\ Ordered
  /\ Disjoint
  /\ NextFreeFirst
  /\ ForeignBelow
  /\ ForeignApart

\* What the operations keep of the blocks, wherever next_free points: an
\* interrupted kmalloc keeps this and not IInv.
Shape ==
  /\ blocks \subseteq Addr
  /\ next \in [blocks -> blocks \cup {NULL}]
  /\ prev \in [blocks -> blocks \cup {NULL}]
  /\ used \in [blocks -> BOOLEAN]
  /\ size \in [blocks -> Nat]
  /\ curr_brk \in Addr
  /\ foreign \subseteq [lo : Addr, hi : Addr]
  /\ crossed \in BOOLEAN
  /\ Linked
  /\ Ordered
  /\ Disjoint
  /\ ForeignBelow
  /\ ForeignApart

\* No free block lies below next_free, which may be taken.
NextFreeLow ==
  /\ next_free \in blocks
  /\ \A b \in blocks : ~used[b] => next_free <= b

\* The parts of the invariant.
LEMMA IInvIs == IInv <=> Shape /\ NextFreeLow /\ ~used[next_free] /\ req \in Nat \cup {NoReq}
BY DEF IInv, Shape, TypeOK, NextFreeFirst, NextFreeLow

\* The same after a step.
LEMMA IInvIsNext == (IInv <=> Shape /\ NextFreeLow /\ ~used[next_free] /\ req \in Nat \cup {NoReq})'
BY IInvIs, PTL

----------------------------------------------------------------------------
(* Arithmetic                                                              *)

\* kmalloc's rounding gives a natural number no smaller than its argument.
LEMMA RoundUpNat ==
  ASSUME NEW n \in Nat
  PROVE  RoundUp(n) \in Nat /\ RoundUp(n) >= n
BY DEF RoundUp, HEAP_ALIGN

\* A request of at least one byte asks for at least one page.
LEMMA NumPagesPositive ==
  ASSUME NEW n \in Nat, n > 0
  PROVE  NumPages(n) \in Nat /\ NumPages(n) >= 1
BY DEF NumPages, PAGE

----------------------------------------------------------------------------
(* Init                                                                    *)

\* init_heap establishes the invariant.
LEMMA InitIInv == Init => IInv
<1> SUFFICES ASSUME Init PROVE IInv
  OBVIOUS
<1> USE HeapAssumption DEF Init, NULL, PAGE, HDR, INIT_HEAP_PAGES, NoReq, Addr
<1>1. TypeOK
  <2>1. Base \in Addr /\ curr_brk \in Addr /\ 4096 - 32 \in Nat
    OBVIOUS
  <2>2. /\ next \in [blocks -> blocks \cup {NULL}]
        /\ prev \in [blocks -> blocks \cup {NULL}]
        /\ used \in [blocks -> BOOLEAN]
    OBVIOUS
  <2>3. size \in [blocks -> Nat]
    BY <2>1
  <2>4. blocks \subseteq Addr /\ next_free \in blocks
    BY <2>1
  <2>5. req \in Nat \cup {NoReq} /\ foreign \subseteq [lo : Addr, hi : Addr]
    OBVIOUS
  <2>6. crossed \in BOOLEAN
    OBVIOUS
  <2> HIDE DEF Init, Addr
  <2> QED
    BY <2>1, <2>2, <2>3, <2>4, <2>5, <2>6 DEF TypeOK
<1>2. Linked /\ Ordered /\ NextFreeFirst
  BY DEF Linked, Ordered, NextFreeFirst
<1>3. Disjoint
  BY DEF Disjoint, End
<1>4. ForeignBelow /\ ForeignApart
  BY DEF ForeignBelow, ForeignApart
<1> QED
  BY <1>1, <1>2, <1>3, <1>4 DEF IInv

----------------------------------------------------------------------------
(* The heap grows: shared by ExpandHeap and TakeLast                       *)

\* Linking a new block after the last one keeps the shape of the list.  taken
\* is the used flags of the blocks already there.
LEMMA ExpandedKeeps ==
  ASSUME Shape,
         NEW last \in blocks, next[last] = NULL,
         NEW n \in Nat, n > 0,
         NEW taken \in [blocks -> BOOLEAN],
         Expanded(last, n, taken),
         foreign' = foreign, crossed' = crossed
  PROVE  /\ blocks' = blocks \cup {curr_brk}
         /\ curr_brk \notin blocks
         /\ \A b \in blocks : b < curr_brk
         /\ \A b \in blocks : used'[b] = taken[b] /\ size'[b] = size[b]
         /\ ~used'[curr_brk]
         /\ size'[curr_brk] = NumPages(n) * PAGE - HDR
         /\ Shape'
<1> USE DEF NULL, PAGE, HDR, Addr
<1>1. NumPages(n) \in Nat /\ NumPages(n) >= 1
  BY NumPagesPositive
<1>2. /\ blocks \subseteq Addr
      /\ next \in [blocks -> blocks \cup {NULL}]
      /\ prev \in [blocks -> blocks \cup {NULL}]
      /\ size \in [blocks -> Nat]
      /\ curr_brk \in Addr
  BY DEF Shape
<1>3. \A b \in blocks : b < curr_brk
  BY <1>2 DEF Shape, Disjoint, End
<1>4. curr_brk \notin blocks
  BY <1>2, <1>3
<1>5. \A b \in blocks : b <= last
  BY <1>2 DEF Shape, Ordered
<1>6. /\ blocks' = blocks \cup {curr_brk}
      /\ next' = [b \in blocks \cup {curr_brk} |-> IF b = curr_brk THEN NULL
                               ELSE IF b = last THEN curr_brk ELSE next[b]]
      /\ prev' = [b \in blocks \cup {curr_brk} |-> IF b = curr_brk THEN last ELSE prev[b]]
      /\ used' = [b \in blocks \cup {curr_brk} |-> IF b = curr_brk THEN FALSE ELSE taken[b]]
      /\ size' = [b \in blocks \cup {curr_brk} |-> IF b = curr_brk THEN NumPages(n) * PAGE - HDR
                               ELSE size[b]]
      /\ curr_brk' = curr_brk + NumPages(n) * PAGE
  BY DEF Expanded, NewSize
<1>7. NumPages(n) * PAGE - HDR \in Nat /\ curr_brk + NumPages(n) * PAGE \in Addr
  BY <1>1, <1>2
<1>8. /\ blocks' \subseteq Addr
      /\ next' \in [blocks' -> blocks' \cup {NULL}]
      /\ prev' \in [blocks' -> blocks' \cup {NULL}]
      /\ used' \in [blocks' -> BOOLEAN]
      /\ size' \in [blocks' -> Nat]
      /\ curr_brk' \in Addr
  <2>1. blocks' \subseteq Addr /\ curr_brk' \in Addr
    BY <1>2, <1>6, <1>7
  <2>2. next' \in [blocks' -> blocks' \cup {NULL}]
    BY <1>2, <1>6
  <2>3. prev' \in [blocks' -> blocks' \cup {NULL}]
    BY <1>2, <1>6
  <2>4. used' \in [blocks' -> BOOLEAN]
    BY <1>2, <1>6
  <2>5. size' \in [blocks' -> Nat]
    BY <1>2, <1>6, <1>7
  <2> QED
    BY <2>1, <2>2, <2>3, <2>4, <2>5
<1>9. Linked'
  <2>1. Linked
    BY DEF Shape
  <2>2. \A b \in blocks : next[b] # last \/ prev[last] = b
    BY <2>1, <1>2 DEF Linked
  <2> QED
    BY <2>1, <1>2, <1>4, <1>6 DEF Linked
<1>10. Ordered'
  <2>1. Ordered
    BY DEF Shape
  <2>2. \A b \in blocks' : next'[b] # NULL => b < next'[b]
    BY <2>1, <1>2, <1>3, <1>4, <1>6 DEF Ordered
  <2>3. ASSUME NEW b \in blocks', NEW c \in blocks', b < c
        PROVE  next'[b] # NULL /\ next'[b] <= c
    <3>1. b # curr_brk /\ b \in blocks
      BY <2>3, <1>2, <1>3, <1>6
    <3>2. CASE b = last
      BY <2>3, <3>1, <3>2, <1>2, <1>4, <1>5, <1>6
    <3>3. CASE b # last
      <4>1. b < last /\ next[b] # NULL /\ next[b] \in blocks
        BY <2>1, <3>1, <3>3, <1>2, <1>5 DEF Ordered
      <4>2. next'[b] = next[b]
        BY <3>1, <3>3, <1>4, <1>6
      <4>3. CASE c = curr_brk
        <5>1. next[b] < curr_brk
          BY <4>1, <1>3
        <5>2. next[b] \in Nat /\ curr_brk \in Nat
          BY <4>1, <1>2
        <5> QED
          BY <4>1, <4>2, <4>3, <5>1, <5>2
      <4>4. CASE c # curr_brk
        <5>1. c \in blocks
          BY <4>4, <1>6
        <5> QED
          BY <2>1, <2>3, <3>1, <4>1, <4>2, <5>1 DEF Ordered
      <4> QED
        BY <4>3, <4>4
    <3> QED
      BY <3>2, <3>3
  <2> QED
    BY <2>2, <2>3 DEF Ordered
<1>11. Disjoint'
  <2>1. Disjoint
    BY DEF Shape
  <2>2. \A b \in blocks : size'[b] = size[b]
    BY <1>4, <1>6
  <2>3. size'[curr_brk] = NumPages(n) * PAGE - HDR
    BY <1>6
  <2> QED
    BY <2>1, <2>2, <2>3, <1>1, <1>2, <1>3, <1>4, <1>6 DEF Disjoint, End
<1>12. ForeignBelow'
  <2>1. foreign \subseteq [lo : Addr, hi : Addr] /\ ForeignBelow
    BY DEF Shape
  <2>2. curr_brk' > curr_brk
    BY <1>1, <1>2, <1>6
  <2> QED
    BY <2>1, <2>2, <1>2, <1>8 DEF ForeignBelow
<1>13. ForeignApart'
  <2>1. foreign \subseteq [lo : Addr, hi : Addr] /\ ForeignBelow /\ ForeignApart
    BY DEF Shape
  <2>2. \A b \in blocks : size'[b] = size[b]
    BY <1>4, <1>6
  <2> QED
    BY <2>1, <2>2, <1>2, <1>6 DEF ForeignApart, ForeignBelow, End
<1>14. /\ \A b \in blocks : used'[b] = taken[b] /\ size'[b] = size[b]
       /\ ~used'[curr_brk]
       /\ size'[curr_brk] = NumPages(n) * PAGE - HDR
  <2>1. \A b \in blocks : used'[b] = taken[b]
    BY <1>4, <1>6
  <2>2. \A b \in blocks : size'[b] = size[b]
    BY <1>4, <1>6
  <2>3. ~used'[curr_brk]
    BY <1>6
  <2>4. size'[curr_brk] = NumPages(n) * PAGE - HDR
    BY <1>6
  <2> QED
    BY <2>1, <2>2, <2>3, <2>4
<1> QED
  <2>1. blocks' = blocks \cup {curr_brk} /\ curr_brk \notin blocks
    BY <1>4, <1>6
  <2>2. foreign' \subseteq [lo : Addr, hi : Addr] /\ crossed' \in BOOLEAN
    BY DEF Shape
  <2>3. Shape'
    BY <2>2, <1>8, <1>9, <1>10, <1>11, <1>12, <1>13 DEF Shape
  <2> QED
    BY <2>1, <2>3, <1>3, <1>14

\* expand_heap(req) in the loop of kmalloc, for a size that is not zero.
LEMMA ExpandHeapShape ==
  ASSUME Shape, NextFreeLow, req \in Nat, req > 0, ExpandHeap
  PROVE  Shape' /\ NextFreeLow' /\ next_free' = next_free /\ used'[next_free] = used[next_free]
<1>1. PICK last \in blocks : next[last] = NULL /\ Expanded(last, req, used)
  BY DEF ExpandHeap
<1>2. used \in [blocks -> BOOLEAN] /\ blocks \subseteq Addr /\ curr_brk \in Addr
  BY DEF Shape
<1>3. UNCHANGED <<next_free, req, foreign, crossed>>
  BY DEF ExpandHeap
<1>4. /\ blocks' = blocks \cup {curr_brk}
      /\ \A b \in blocks : b < curr_brk
      /\ \A b \in blocks : used'[b] = used[b]
      /\ Shape'
  BY <1>1, <1>2, <1>3, ExpandedKeeps
<1> QED
  BY <1>2, <1>3, <1>4 DEF NextFreeLow, Addr

\* The size is not zero: next_free is free and anything free serves a request
\* of zero bytes.
LEMMA ExpandHeapIInv == IInv /\ ExpandHeap => IInv'
<1> SUFFICES ASSUME IInv, ExpandHeap PROVE IInv'
  OBVIOUS
<1>1. TypeOK /\ NextFreeFirst
  BY DEF IInv
<1>2. req \in Nat /\ req > 0
  BY <1>1 DEF ExpandHeap, TypeOK, NextFreeFirst, Fits, NoReq, Addr
<1>3. req' = req
  BY DEF ExpandHeap
<1> QED
  BY <1>2, <1>3, ExpandHeapShape, IInvIs, IInvIsNext

\* expand_heap(1) when the block taken was the last free one: every other
\* block is used, so the new one is the first free block.
LEMMA TakeLastShape ==
  ASSUME Shape, NextFreeLow, NEW b \in blocks, TakeLast(b)
  PROVE  Shape' /\ NextFreeLow' /\ ~used'[next_free'] /\ req' = NoReq
<1> DEFINE taken == [used EXCEPT ![b] = TRUE]
<1>1. used \in [blocks -> BOOLEAN] /\ blocks \subseteq Addr /\ curr_brk \in Addr
  BY DEF Shape
<1>2. taken \in [blocks -> BOOLEAN] /\ taken[b]
      /\ \A c \in blocks : c # b => taken[c] = used[c]
  BY <1>1
<1>3. PICK last \in blocks : next[last] = NULL /\ Expanded(last, 1, taken)
  BY DEF TakeLast
<1>4. /\ next_free' = curr_brk /\ req' = NoReq
      /\ UNCHANGED <<foreign, crossed>>
      /\ next_free = b
      /\ \A c \in blocks : c > b => used[c]
  BY DEF TakeLast
<1> HIDE DEF taken
<1>5. /\ blocks' = blocks \cup {curr_brk}
      /\ \A c \in blocks : c < curr_brk
      /\ \A c \in blocks : used'[c] = taken[c]
      /\ ~used'[curr_brk]
      /\ Shape'
  BY <1>2, <1>3, <1>4, ExpandedKeeps
<1>6. NextFreeLow' /\ ~used'[next_free']
  <2>1. \A c \in blocks : taken[c]
    BY <1>1, <1>2, <1>4 DEF NextFreeLow, Addr
  <2>2. next_free' = curr_brk /\ curr_brk \in blocks' /\ curr_brk \in Nat /\ ~used'[curr_brk]
    BY <1>1, <1>4, <1>5 DEF Addr
  <2>3. ASSUME NEW c \in blocks', ~used'[c] PROVE c = curr_brk
    BY <1>5, <2>1, <2>3
  <2>4. NextFreeLow'
    BY <2>2, <2>3 DEF NextFreeLow
  <2> QED
    BY <2>2, <2>4
<1> QED
  BY <1>4, <1>5, <1>6

\* Taking the last block keeps the invariant.
LEMMA TakeLastIInv ==
  ASSUME NEW b \in blocks
  PROVE  IInv /\ TakeLast(b) => IInv'
BY TakeLastShape, IInvIs, IInvIsNext

----------------------------------------------------------------------------
(* A block is taken                                                        *)

\* The split in kmalloc: the block is cut in two without a byte lost, and
\* the second half goes into the list after the first.
\* A split makes b a used block of n bytes and new a free one of rest.
SplitInto(b, n, new, rest) ==
  /\ blocks' = blocks \cup {new}
  /\ next' = NextSplit(b, new)
  /\ prev' = PrevSplit(b, new)
  /\ used' = [c \in blocks \cup {new} |-> IF c = new THEN FALSE
                                           ELSE IF c = b THEN TRUE ELSE used[c]]
  /\ size' = [c \in blocks \cup {new} |-> IF c = new THEN rest
                                           ELSE IF c = b THEN n ELSE size[c]]
  /\ UNCHANGED <<curr_brk, foreign, crossed>>

\* What that does to the blocks there were.
NewBehind(b, new) ==
  /\ new \notin blocks /\ b < new
  /\ \A c \in blocks : c # b => c > new \/ c < b
  /\ used'[b] /\ ~used'[new]
  /\ \A c \in blocks : c # b => used'[c] = used[c]

\* Room for a header and no less between the two parts of a block keeps the
\* list in shape.
LEMMA SplitKeeps ==
  ASSUME Shape, NEW b \in blocks, NEW n \in Nat, NEW new \in Nat, NEW rest \in Nat,
         new >= b + HDR + n, new + HDR + rest <= End(b),
         SplitInto(b, n, new, rest)
  PROVE  Shape' /\ NewBehind(b, new)
<1> USE DEF NULL, HDR, HEAP_ALIGN, Addr
<1>1. /\ blocks \subseteq Addr /\ curr_brk \in Addr
      /\ next \in [blocks -> blocks \cup {NULL}]
      /\ prev \in [blocks -> blocks \cup {NULL}]
      /\ used \in [blocks -> BOOLEAN]
      /\ size \in [blocks -> Nat]
      /\ foreign \subseteq [lo : Addr, hi : Addr]
      /\ crossed \in BOOLEAN
  BY DEF Shape
<1>2. b \in Nat /\ size[b] \in Nat
  BY <1>1
<1>3. /\ new \in Addr
      /\ b < new /\ new < End(b) /\ new + HDR + rest <= End(b)
      /\ End(b) = b + HDR + size[b]
  BY <1>2 DEF End
<1>4. \A c \in blocks : (b < c => End(b) <= c) /\ (c < b => End(c) <= b)
  BY DEF Shape, Disjoint
<1>5. \A c \in blocks : End(c) \in Nat /\ c < End(c)
  BY <1>1 DEF End
<1>6. \A c \in blocks : c # b => c > new \/ c < b
  BY <1>1, <1>3, <1>4, <1>5
<1>7. new \notin blocks
  BY <1>1, <1>3, <1>6
<1>8. /\ blocks' = blocks \cup {new}
      /\ next' = [c \in blocks \cup {new} |-> IF c = b THEN new
                               ELSE IF c = new THEN next[b] ELSE next[c]]
      /\ prev' = [c \in blocks \cup {new} |-> IF c = new THEN b
                               ELSE IF c = next[b] THEN new ELSE prev[c]]
      /\ used' = [c \in blocks \cup {new} |-> IF c = new THEN FALSE
                               ELSE IF c = b THEN TRUE ELSE used[c]]
      /\ size' = [c \in blocks \cup {new} |-> IF c = new THEN rest
                               ELSE IF c = b THEN n ELSE size[c]]
      /\ UNCHANGED <<curr_brk, foreign, crossed>>
  BY DEF SplitInto, NextSplit, PrevSplit
<1>10. /\ blocks' \subseteq Addr /\ curr_brk' \in Addr
       /\ next' \in [blocks' -> blocks' \cup {NULL}]
       /\ prev' \in [blocks' -> blocks' \cup {NULL}]
       /\ used' \in [blocks' -> BOOLEAN]
       /\ size' \in [blocks' -> Nat]
       /\ foreign' \subseteq [lo : Addr, hi : Addr]
       /\ crossed' \in BOOLEAN
  <2>1. blocks' \subseteq Addr /\ curr_brk' \in Addr
    BY <1>1, <1>3, <1>8
  <2>2. next' \in [blocks' -> blocks' \cup {NULL}]
    BY <1>1, <1>8
  <2>3. prev' \in [blocks' -> blocks' \cup {NULL}]
    BY <1>1, <1>8
  <2>4. used' \in [blocks' -> BOOLEAN]
    BY <1>1, <1>8
  <2>5. size' \in [blocks' -> Nat]
    BY <1>1, <1>8
  <2> QED
    BY <2>1, <2>2, <2>3, <2>4, <2>5, <1>1, <1>8
<1>11. Linked'
  <2>1. Linked
    BY DEF Shape
  <2>2. \A c \in blocks : next[c] = next[b] /\ next[b] # NULL => c = b
    BY <2>1, <1>1 DEF Linked
  <2>3. next[b] # b /\ next[b] # new
    <3>1. next[b] # NULL => b < next[b]
      BY DEF Shape, Ordered
    <3> QED
      BY <3>1, <1>1, <1>3, <1>7
  <2>4. \A c \in blocks : next'[c] # NULL => prev'[next'[c]] = c
    BY <2>1, <2>2, <2>3, <1>1, <1>3, <1>7, <1>8 DEF Linked
  <2>5. next'[new] # NULL => prev'[next'[new]] = new
    BY <2>1, <2>2, <2>3, <1>1, <1>3, <1>7, <1>8 DEF Linked
  <2>6. \A c \in blocks : prev'[c] # NULL => next'[prev'[c]] = c
    BY <2>1, <2>2, <2>3, <1>1, <1>3, <1>7, <1>8 DEF Linked
  <2>7. prev'[new] # NULL => next'[prev'[new]] = new
    BY <2>1, <2>2, <2>3, <1>1, <1>3, <1>7, <1>8 DEF Linked
  <2> QED
    BY <2>4, <2>5, <2>6, <2>7, <1>8 DEF Linked
<1>12. Ordered'
  <2>1. Ordered
    BY DEF Shape
  <2>2. next'[b] = new /\ next'[new] = next[b]
    BY <1>7, <1>8
  <2>3. \A c \in blocks : c # b => next'[c] = next[c]
    BY <1>7, <1>8
  <2>4. ASSUME next[b] # NULL PROVE new < next[b]
    <3>1. next[b] \in blocks /\ b < next[b]
      BY <2>1, <2>4, <1>1 DEF Ordered
    <3>2. b \in Nat /\ next[b] \in Nat
      BY <3>1, <1>1
    <3> QED
      BY <3>1, <3>2, <1>6
  <2>5. \A c \in blocks' : next'[c] # NULL => c < next'[c]
    BY <2>1, <2>2, <2>3, <2>4, <1>3, <1>8 DEF Ordered
  <2>6. ASSUME NEW c \in blocks', NEW d \in blocks', c < d
        PROVE  next'[c] # NULL /\ next'[c] <= d
    <3>1. CASE c = new
      <4>1. d \in blocks /\ b < d
        BY <2>6, <3>1, <1>1, <1>3, <1>8
      <4> QED
        BY <2>1, <2>2, <3>1, <4>1 DEF Ordered
    <3>2. CASE c = b
      BY <2>2, <2>6, <3>2, <1>1, <1>3, <1>6, <1>8
    <3>3. CASE c # b /\ c # new
      <4>1. c \in blocks /\ next'[c] = next[c]
        BY <2>3, <3>3, <1>8
      <4>2. CASE d = new
        <5>1. c < b
          BY <2>6, <3>3, <4>1, <4>2, <1>1, <1>3, <1>6
        <5>2. next[c] # NULL /\ next[c] <= b /\ next[c] \in blocks
          BY <2>1, <4>1, <5>1, <1>1 DEF Ordered
        <5>3. b \in Nat /\ next[c] \in Nat /\ new \in Nat
          BY <5>2, <1>1, <1>3
        <5> QED
          BY <4>1, <4>2, <5>2, <5>3, <1>3
      <4>3. CASE d # new
        BY <2>1, <2>6, <4>1, <4>3, <1>8 DEF Ordered
      <4> QED
        BY <4>2, <4>3
    <3> QED
      BY <3>1, <3>2, <3>3
  <2> QED
    BY <2>5, <2>6 DEF Ordered
<1>13. /\ size'[b] = n /\ size'[new] = rest
       /\ \A c \in blocks : c # b => size'[c] = size[c]
  BY <1>7, <1>8
<1>14. Disjoint'
  <2>1. Disjoint
    BY DEF Shape
  <2>2. ASSUME NEW c \in blocks'
        PROVE  c + HDR + size'[c] <= curr_brk
    <3>1. CASE c = b \/ c = new
      <4>1. End(b) <= curr_brk
        BY <2>1 DEF Disjoint
      <4> QED
        BY <3>1, <4>1, <1>1, <1>2, <1>3, <1>13 DEF End
    <3>2. CASE c # b /\ c # new
      BY <2>1, <3>2, <1>8, <1>13 DEF Disjoint, End
    <3> QED
      BY <3>1, <3>2
  <2>3. ASSUME NEW c \in blocks', NEW d \in blocks', c < d
        PROVE  c + HDR + size'[c] <= d
    <3>1. CASE c # b /\ c # new
      <4>1. c \in blocks /\ size'[c] = size[c] /\ End(c) = c + HDR + size[c]
        BY <3>1, <1>8, <1>13 DEF End
      <4>2. CASE d \in blocks
        BY <2>1, <2>3, <4>1, <4>2 DEF Disjoint
      <4>3. CASE d = new
        <5>1. c < b
          BY <2>3, <3>1, <4>1, <4>3, <1>1, <1>3, <1>6
        <5>2. End(c) <= b /\ End(c) \in Nat
          BY <4>1, <5>1, <1>4, <1>5
        <5> QED
          BY <4>1, <4>3, <5>2, <1>1, <1>3
      <4> QED
        BY <4>2, <4>3, <1>8
    <3>2. CASE c = new
      <4>1. d \in blocks /\ b < d
        BY <2>3, <3>2, <1>1, <1>3, <1>8
      <4>2. End(b) <= d
        BY <4>1, <1>4
      <4> QED
        BY <3>2, <4>1, <4>2, <1>1, <1>3, <1>5, <1>13
    <3>3. CASE c = b
      <4>1. b + HDR + size'[b] <= new /\ b + HDR + size'[b] \in Nat
        BY <1>2, <1>13
      <4>2. d = new \/ d > new
        BY <2>3, <3>3, <1>1, <1>6, <1>8
      <4> QED
        BY <3>3, <4>1, <4>2, <1>1
    <3> QED
      BY <3>1, <3>2, <3>3
  <2> QED
    BY <2>2, <2>3, <1>8 DEF Disjoint, End
<1>15. /\ used'[b] /\ ~used'[new]
       /\ \A c \in blocks : c # b => used'[c] = used[c]
  BY <1>3, <1>7, <1>8
<1>16. ForeignBelow'
  BY <1>8 DEF Shape, ForeignBelow
<1>17. ForeignApart'
  <2>1. ASSUME ~crossed, NEW r \in foreign, NEW c \in blocks'
        PROVE  c + HDR + size'[c] <= r.lo \/ r.hi <= c
    <3>1. r.lo \in Nat /\ r.hi \in Nat
      BY <1>1
    <3>2. \A d \in blocks : End(d) <= r.lo \/ r.hi <= d
      BY <2>1 DEF Shape, ForeignApart
    <3>3. CASE c = b \/ c = new
      BY <3>1, <3>2, <3>3, <1>1, <1>2, <1>3, <1>13
    <3>4. CASE c # b /\ c # new
      BY <3>2, <3>4, <1>8, <1>13 DEF End
    <3> QED
      BY <3>3, <3>4
  <2> QED
    BY <2>1, <1>8 DEF ForeignApart, End
<1>18. Shape'
  BY <1>10, <1>11, <1>12, <1>14, <1>16, <1>17 DEF Shape
<1> QED
  BY <1>3, <1>6, <1>7, <1>15, <1>18 DEF NewBehind

\* kmalloc takes a block it splits; next_free moves on with it.
LEMMA TakeSplitShape ==
  ASSUME Shape, NextFreeLow, req \in Nat \cup {NoReq}, NEW b \in blocks, TakeSplit(b)
  PROVE  /\ Shape' /\ NextFreeLow' /\ req' = NoReq
         /\ used'[next_free'] => used[next_free] /\ next_free' = next_free
<1>1. blocks \subseteq Nat
  BY DEF Shape, Addr
<1>2. req \in Nat /\ ~used[b] /\ next_free <= b /\ size[b] > req + HDR + HEAP_ALIGN
  BY DEF TakeSplit, Splits, FirstFit, Fits, NoReq
<1>3. PICK new \in Nat, rest \in Nat :
        new = b + HDR + req /\ rest = size[b] - req - HDR /\ new + HDR + rest = End(b)
  <2>1. size[b] \in Nat
    BY DEF Shape
  <2>2. b + HDR + req \in Nat /\ size[b] - req - HDR \in Nat
    BY <1>1, <1>2, <2>1 DEF HDR, HEAP_ALIGN
  <2>3. b + HDR + req + HDR + (size[b] - req - HDR) = End(b)
    BY <1>1, <1>2, <2>1 DEF HDR, End
  <2> QED
    BY <2>2, <2>3
<1>4. /\ blocks' = blocks \cup {new}
      /\ next' = NextSplit(b, new)
      /\ prev' = PrevSplit(b, new)
      /\ used' = [c \in blocks \cup {new} |-> IF c = new THEN FALSE
                                              ELSE IF c = b THEN TRUE ELSE used[c]]
      /\ size' = [c \in blocks \cup {new} |-> IF c = new THEN rest
                                              ELSE IF c = b THEN req ELSE size[c]]
      /\ UNCHANGED <<curr_brk, foreign, crossed>>
  BY <1>3 DEF TakeSplit, Rest
<1>5. /\ Shape'
      /\ new \notin blocks /\ b < new
      /\ \A c \in blocks : c # b => c > new \/ c < b
      /\ used'[b] /\ ~used'[new]
      /\ \A c \in blocks : c # b => used'[c] = used[c]
  <2>1. new >= b + HDR + req /\ new + HDR + rest <= End(b)
    <3>1. End(b) \in Nat
      BY <1>1 DEF End, Shape, HDR
    <3> QED
      BY <1>3, <3>1
  <2> QED
    <3>1. SplitInto(b, req, new, rest)
      BY <1>4 DEF SplitInto
    <3>2. Shape' /\ NewBehind(b, new)
      BY <1>2, <2>1, <3>1, SplitKeeps
    <3> QED
      BY <3>2 DEF NewBehind
<1>6. next_free' = (IF next_free = b THEN new ELSE next_free) /\ req' = NoReq
  BY <1>3 DEF TakeSplit
<1>7. NextFreeLow'
  <2>1. next_free' \in blocks'
    BY <1>4, <1>6 DEF NextFreeLow
  <2>2. ASSUME NEW c \in blocks', ~used'[c] PROVE next_free' <= c
    <3>1. CASE c = new
      BY <1>1, <1>2, <1>5, <1>6, <3>1 DEF NextFreeLow
    <3>2. CASE c # new
      <4>1. c \in blocks /\ c # b /\ ~used[c] /\ next_free <= c
        BY <1>4, <1>5, <2>2, <3>2 DEF NextFreeLow
      <4> QED
        BY <1>1, <1>5, <1>6, <4>1
    <3> QED
      BY <3>1, <3>2
  <2> QED
    BY <2>1, <2>2 DEF NextFreeLow
<1>8. used'[next_free'] => used[next_free] /\ next_free' = next_free
  BY <1>5, <1>6 DEF NextFreeLow
<1> QED
  BY <1>5, <1>6, <1>7, <1>8

\* Splitting a block keeps the invariant.
LEMMA TakeSplitIInv ==
  ASSUME NEW b \in blocks
  PROVE  IInv /\ TakeSplit(b) => IInv'
BY TakeSplitShape, IInvIs, IInvIsNext

\* A block taken whole: only used and next_free change, and next_free moves
\* to the next free block.
LEMMA WholeKeeps ==
  ASSUME Shape, NEW b \in blocks, used' = [used EXCEPT ![b] = TRUE],
         UNCHANGED <<blocks, next, prev, size, curr_brk, foreign, crossed>>
  PROVE  /\ Shape' /\ used'[b]
         /\ \A c \in blocks : c # b => used'[c] = used[c]
BY DEF Shape, Linked, Ordered, Disjoint, End, ForeignBelow, ForeignApart

\* Taking a block whole keeps the shape, and moves next_free up to a free
\* block or leaves it where it was.
LEMMA TakeWholeShape ==
  ASSUME Shape, NextFreeLow, NEW b \in blocks, TakeWhole(b)
  PROVE  /\ Shape' /\ NextFreeLow' /\ req' = NoReq
         /\ used'[next_free'] => used[next_free] /\ next_free' = next_free
<1>1. /\ used' = [used EXCEPT ![b] = TRUE]
      /\ req' = NoReq
      /\ UNCHANGED <<blocks, next, prev, size, curr_brk, foreign, crossed>>
  BY DEF TakeWhole
<1>2. Shape' /\ used'[b] /\ \A c \in blocks : c # b => used'[c] = used[c]
  BY <1>1, WholeKeeps
<1>3. blocks \subseteq Nat /\ ~used[b]
  BY DEF Shape, Addr, TakeWhole, FirstFit, Fits
<1>4. CASE next_free # b /\ UNCHANGED next_free
  BY <1>1, <1>2, <1>4 DEF NextFreeLow
<1>5. CASE next_free = b
  <2>1. PICK f \in blocks : /\ f > b /\ ~used[f]
                             /\ \A c \in blocks : c > b /\ ~used[c] => f <= c
                             /\ next_free' = f
    BY <1>5 DEF TakeWhole
  <2>2. f # b /\ ~used'[f]
    BY <1>2, <1>3, <2>1
  <2>3. ASSUME NEW c \in blocks, ~used'[c] PROVE f <= c
    <3>1. c # b /\ ~used[c] /\ b <= c
      BY <1>2, <1>5, <2>3 DEF NextFreeLow
    <3> QED
      BY <1>3, <2>1, <3>1
  <2> QED
    BY <1>1, <1>2, <2>1, <2>2, <2>3 DEF NextFreeLow
<1> QED
  BY <1>4, <1>5 DEF TakeWhole

\* Taking a block whole keeps the invariant.
LEMMA TakeWholeIInv ==
  ASSUME NEW b \in blocks
  PROVE  IInv /\ TakeWhole(b) => IInv'
BY TakeWholeShape, IInvIs, IInvIsNext

----------------------------------------------------------------------------
(* A block is freed                                                        *)

\* What the merge in kfree relies on: the blocks it joins are neighbours, in
\* order, and nothing lies between or beyond them but free bytes.
LEMMA Neighbours ==
  ASSUME Shape, NEW b \in blocks, used[b]
  PROVE  /\ Low(b) \in blocks /\ High(b) \in blocks
         /\ Low(b) <= b /\ b <= High(b)
         /\ Low(b) # b => ~used[Low(b)] /\ next[Low(b)] = b /\ prev[b] = Low(b)
         /\ High(b) # b => ~used[High(b)] /\ prev[High(b)] = b /\ next[b] = High(b)
         /\ \A c \in blocks : c > Low(b) => c >= b
         /\ \A c \in blocks : c > b => c >= High(b)
<1> USE DEF NULL
<1>1. /\ next \in [blocks -> blocks \cup {NULL}]
      /\ prev \in [blocks -> blocks \cup {NULL}]
      /\ \A c \in blocks : c \in Nat /\ c # 0
  BY DEF Shape, Addr
<1>2. Linked /\ Ordered
  BY DEF Shape
<1>3. /\ High(b) \in blocks /\ b <= High(b)
      /\ High(b) # b => ~used[High(b)] /\ prev[High(b)] = b /\ next[b] = High(b)
      /\ \A c \in blocks : c > b => c >= High(b)
  <2>1. CASE High(b) = b
    BY <2>1, <1>1
  <2>2. CASE High(b) # b
    <3>1. next[b] # NULL /\ ~used[next[b]] /\ High(b) = next[b]
      BY <2>2 DEF High
    <3>2. High(b) \in blocks /\ prev[High(b)] = b
      BY <3>1, <1>1, <1>2 DEF Linked
    <3>3. b < High(b) /\ \A c \in blocks : c > b => c >= High(b)
      <4>1. b \in Nat /\ High(b) \in Nat
        BY <3>2, <1>1
      <4> QED
        BY <3>1, <4>1, <1>1, <1>2 DEF Ordered
    <3> QED
      BY <3>1, <3>2, <3>3, <1>1
  <2> QED
    BY <2>1, <2>2
<1>4. CASE Low(b) # b
  <2>1. /\ prev[b] # NULL /\ ~used[prev[b]] /\ Low(b) = prev[b]
    BY <1>4 DEF Low
  <2>2. Low(b) \in blocks /\ next[Low(b)] = b
    BY <2>1, <1>1, <1>2 DEF Linked
  <2>3. Low(b) < b /\ \A c \in blocks : c > Low(b) => c >= b
    <3>1. b \in Nat /\ b # NULL /\ Low(b) \in Nat
      BY <2>2, <1>1
    <3> QED
      BY <2>2, <3>1, <1>1, <1>2 DEF Ordered
  <2> QED
    BY <2>1, <2>2, <2>3, <1>1, <1>3
<1> QED
  <2>1. CASE Low(b) = b
    BY <2>1, <1>1, <1>3
  <2> QED
    BY <2>1, <1>3, <1>4

\* kfree joins a block with its free neighbours.  The joined block ends no
\* later than the last of them did, and exactly there unless a region of
\* another caller lies in between (crossed).
LEMMA KfreeShape ==
  ASSUME Shape, NextFreeLow, NEW b \in blocks, Kfree(b)
  PROVE  /\ Shape' /\ NextFreeLow' /\ req' = req
         /\ used'[next_free'] => used[next_free] /\ next_free' = next_free
<1> USE DEF NULL, HDR
<1>1. /\ blocks \subseteq Addr /\ curr_brk \in Addr
      /\ next \in [blocks -> blocks \cup {NULL}]
      /\ prev \in [blocks -> blocks \cup {NULL}]
      /\ used \in [blocks -> BOOLEAN]
      /\ size \in [blocks -> Nat]
      /\ foreign \subseteq [lo : Addr, hi : Addr]
      /\ crossed \in BOOLEAN
  BY DEF Shape
<1>2. \A c \in blocks : c \in Nat /\ c # 0 /\ size[c] \in Nat
  BY <1>1 DEF Addr
<1>3. used[b]
  BY DEF Kfree
<1>4. PICK low \in blocks, high \in blocks : low = Low(b) /\ high = High(b)
  BY <1>3, Neighbours
<1>5. /\ low <= b /\ b <= high
      /\ low # b => ~used[low] /\ next[low] = b /\ prev[b] = low
      /\ high # b => ~used[high] /\ prev[high] = b /\ next[b] = high
  BY <1>3, <1>4, Neighbours
<1>6. /\ \A c \in blocks : c > low => c >= b
      /\ \A c \in blocks : c > b => c >= high
  BY <1>3, <1>4, Neighbours
<1>7. PICK left \in SUBSET blocks : left = blocks \ ({b, high} \ {low})
  OBVIOUS
<1>8. /\ low \in left
      /\ \A c \in left : c # low => c # b /\ c # high
      /\ \A c \in blocks : c # b /\ c # high => c \in left
  BY <1>7
<1>9. /\ blocks' = left
      /\ next' = [c \in left |-> IF c = low THEN next[high] ELSE next[c]]
      /\ prev' = [c \in left |-> IF c = next[high] THEN low ELSE prev[c]]
      /\ used' = [c \in left |-> IF c = low THEN FALSE ELSE used[c]]
      /\ size' = [c \in left |->
                    IF c # low THEN size[c]
                    ELSE size[b] + (IF low = b THEN 0 ELSE size[low] + HDR)
                                 + (IF high = b THEN 0 ELSE size[high] + HDR)]
      /\ next_free' = IF next_free > low THEN low ELSE next_free
      /\ crossed' = \/ crossed
                    \/ low # b /\ End(low) # b
                    \/ high # b /\ End(b) # high
      /\ UNCHANGED <<curr_brk, req, foreign>>
  BY <1>4, <1>7 DEF Kfree, MergedSize, Lowered
<1>10. \A c \in left : c < low \/ c = low \/ c > high
  <2> SUFFICES ASSUME NEW c \in left, c # low, ~(c < low) PROVE c > high
    BY <1>2
  <2>1. c >= b /\ c # b /\ c # high
    BY <1>2, <1>6, <1>8
  <2> QED
    BY <2>1, <1>2, <1>6
<1>11. /\ next'[low] = next[high]
       /\ \A c \in left : c # low => next'[c] = next[c]
       /\ \A c \in left : prev'[c] = IF c = next[high] THEN low ELSE prev[c]
       /\ ~used'[low]
       /\ \A c \in left : c # low => used'[c] = used[c] /\ size'[c] = size[c]
  BY <1>8, <1>9
<1>12. size'[low] = size[b] + (IF low = b THEN 0 ELSE size[low] + HDR)
                            + (IF high = b THEN 0 ELSE size[high] + HDR)
  BY <1>8, <1>9
<1>13. size'[low] \in Nat
  BY <1>2, <1>12
<1>14. Linked /\ Ordered /\ Disjoint
  BY DEF Shape
<1>15. next[high] \in left \cup {NULL} /\ next[high] # low
       /\ (next[high] # NULL => high < next[high] /\ next[high] \in left)
  <2>1. ASSUME next[high] # NULL PROVE next[high] \in left /\ high < next[high]
    <3>1. next[high] \in blocks /\ high < next[high]
      BY <2>1, <1>1, <1>14 DEF Ordered
    <3>2. next[high] # b /\ next[high] # high
      BY <3>1, <1>2, <1>5
    <3> QED
      BY <3>1, <3>2, <1>8
  <2>2. next[high] # low
    BY <2>1, <1>2, <1>5
  <2> QED
    BY <2>1, <2>2
<1>16. \A c \in left : c # low => next[c] \in left \cup {NULL}
  <2> SUFFICES ASSUME NEW c \in left, c # low, next[c] # NULL PROVE next[c] \in left
    OBVIOUS
  <2>1. c \in blocks /\ next[c] \in blocks /\ prev[next[c]] = c
    BY <1>1, <1>7, <1>14 DEF Linked
  <2>2. c # b
    BY <1>8
  <2>3. ASSUME next[c] \in {b, high} \ {low} PROVE FALSE
    BY <2>1, <2>2, <2>3, <1>5
  <2> QED
    BY <2>1, <2>3, <1>7
<1>17. \A c \in left : c # next[high] => prev[c] \in left \cup {NULL}
  <2> SUFFICES ASSUME NEW c \in left, c # next[high], prev[c] # NULL
               PROVE  prev[c] \in left
    OBVIOUS
  <2>1. c \in blocks /\ prev[c] \in blocks /\ next[prev[c]] = c
    BY <1>1, <1>7, <1>14 DEF Linked
  <2>2. ASSUME prev[c] \in {b, high} \ {low} PROVE FALSE
    <3>1. prev[c] = b /\ b # high /\ b # low
      BY <2>1, <2>2
    <3>2. c = high
      BY <2>1, <3>1, <1>5
    <3> QED
      BY <3>1, <3>2, <1>2, <1>5, <1>8
  <2> QED
    BY <2>1, <2>2, <1>7
<1>18. /\ blocks' \subseteq Addr /\ curr_brk' \in Addr
       /\ next' \in [blocks' -> blocks' \cup {NULL}]
       /\ prev' \in [blocks' -> blocks' \cup {NULL}]
       /\ used' \in [blocks' -> BOOLEAN]
       /\ size' \in [blocks' -> Nat]
       /\ foreign' \subseteq [lo : Addr, hi : Addr]
       /\ crossed' \in BOOLEAN
  <2>1. blocks' \subseteq Addr
    BY <1>1, <1>9
  <2>2. next' \in [blocks' -> blocks' \cup {NULL}]
    BY <1>9, <1>15, <1>16
  <2>3. prev' \in [blocks' -> blocks' \cup {NULL}]
    BY <1>8, <1>9, <1>17
  <2>4. used' \in [blocks' -> BOOLEAN]
    BY <1>1, <1>9
  <2>5. size' \in [blocks' -> Nat]
    BY <1>2, <1>9, <1>11, <1>13
  <2>6. crossed' \in BOOLEAN
    BY <1>9
  <2> QED
    BY <2>1, <2>2, <2>3, <2>4, <2>5, <2>6, <1>1, <1>9
<1>19. Linked'
  <2>1. ASSUME NEW c \in left, next'[c] # NULL PROVE prev'[next'[c]] = c
    <3>1. CASE c = low
      BY <2>1, <3>1, <1>11, <1>15
    <3>2. CASE c # low
      <4>1. next'[c] = next[c] /\ next[c] \in left
        BY <2>1, <3>2, <1>11, <1>16
      <4>2. prev[next[c]] = c /\ c \in blocks
        BY <2>1, <4>1, <1>7, <1>14 DEF Linked
      <4>3. next[c] # next[high]
        <5>1. next[high] # NULL => prev[next[high]] = high
          BY <1>14 DEF Linked
        <5>2. c # high
          BY <3>2, <1>8
        <5> QED
          BY <2>1, <4>1, <4>2, <5>1, <5>2
      <4> QED
        BY <4>1, <4>2, <4>3, <1>11
    <3> QED
      BY <3>1, <3>2
  <2>2. ASSUME NEW c \in left, prev'[c] # NULL PROVE next'[prev'[c]] = c
    <3>1. CASE c = next[high]
      BY <3>1, <1>11
    <3>2. CASE c # next[high]
      <4>1. prev'[c] = prev[c] /\ prev[c] \in left
        BY <2>2, <3>2, <1>11, <1>17
      <4>2. next[prev[c]] = c /\ c \in blocks
        BY <2>2, <4>1, <1>7, <1>14 DEF Linked
      <4>3. prev[c] # low
        <5>1. CASE low = b /\ high = b
          BY <3>2, <4>2, <5>1
        <5>2. CASE low # b
          BY <4>2, <5>2, <1>2, <1>5, <1>8
        <5>3. CASE high # b /\ low = b
          BY <4>2, <5>3, <1>5, <1>8, <1>2
        <5> QED
          BY <5>1, <5>2, <5>3
      <4> QED
        BY <4>1, <4>2, <4>3, <1>11
    <3> QED
      BY <3>1, <3>2
  <2> QED
    BY <2>1, <2>2, <1>9 DEF Linked
<1>20. Ordered'
  <2>1. ASSUME NEW c \in left, next'[c] # NULL PROVE c < next'[c]
    <3>1. CASE c = low
      <4>1. next'[c] = next[high] /\ high < next[high] /\ next[high] \in blocks
        BY <2>1, <3>1, <1>7, <1>11, <1>15
      <4> QED
        BY <3>1, <4>1, <1>2, <1>5
    <3>2. CASE c # low
      BY <2>1, <3>2, <1>7, <1>11, <1>14 DEF Ordered
    <3> QED
      BY <3>1, <3>2
  <2>2. ASSUME NEW c \in left, NEW d \in left, c < d
        PROVE  next'[c] # NULL /\ next'[c] <= d
    <3>1. CASE c = low
      <4>1. d > high
        BY <2>2, <3>1, <1>2, <1>7, <1>10
      <4> QED
        BY <3>1, <4>1, <1>7, <1>11, <1>14 DEF Ordered
    <3>2. CASE c # low
      BY <2>2, <3>2, <1>7, <1>11, <1>14 DEF Ordered
    <3> QED
      BY <3>1, <3>2
  <2> QED
    BY <2>1, <2>2, <1>9 DEF Ordered
<1>21. low + HDR + size'[low] <= End(high)
  <2>1. (low # b => End(low) <= b) /\ (high # b => End(b) <= high)
    BY <1>2, <1>5, <1>14 DEF Disjoint
  <2> QED
    BY <2>1, <1>2, <1>12 DEF End
<1>22. Disjoint'
  <2>1. ASSUME NEW c \in left PROVE c + HDR + size'[c] <= curr_brk
    <3>1. End(c) <= curr_brk /\ End(high) <= curr_brk
      BY <1>7, <1>14 DEF Disjoint
    <3>2. CASE c = low
      <4>1. End(high) \in Nat /\ curr_brk \in Nat
        BY <1>1, <1>2 DEF End, Addr
      <4> QED
        BY <3>1, <3>2, <4>1, <1>2, <1>13, <1>21
    <3>3. CASE c # low
      BY <3>1, <3>3, <1>11 DEF End
    <3> QED
      BY <3>2, <3>3
  <2>2. ASSUME NEW c \in left, NEW d \in left, c < d
        PROVE  c + HDR + size'[c] <= d
    <3>1. CASE c = low
      <4>1. d > high
        BY <2>2, <3>1, <1>2, <1>7, <1>10
      <4>2. End(high) <= d
        BY <4>1, <1>7, <1>14 DEF Disjoint
      <4>3. End(high) \in Nat /\ d \in Nat
        BY <1>2, <1>7 DEF End
      <4> QED
        BY <3>1, <4>2, <4>3, <1>2, <1>13, <1>21
    <3>2. CASE c # low
      BY <2>2, <3>2, <1>7, <1>11, <1>14 DEF Disjoint, End
    <3> QED
      BY <3>1, <3>2
  <2> QED
    BY <2>1, <2>2, <1>9 DEF Disjoint, End
<1>23. NextFreeLow' /\ (used'[next_free'] => used[next_free] /\ next_free' = next_free)
  <2>1. next_free \in blocks
    BY DEF NextFreeLow
  <2>2. next_free' \in left
    <3>1. CASE next_free > low
      BY <3>1, <1>8, <1>9
    <3>2. CASE ~(next_free > low)
      <4>1. next_free = b => low = b
        BY <3>2, <1>2, <1>5
      <4>2. next_free = high => high = b
        BY <3>2, <1>2, <1>5
      <4>3. next_free \in left
        BY <2>1, <4>1, <4>2, <1>7
      <4> QED
        BY <3>2, <4>3, <1>9
    <3> QED
      BY <3>1, <3>2
  <2>3. ASSUME NEW c \in left, ~used'[c] PROVE next_free' <= c
    <3>1. CASE c = low
      BY <2>1, <3>1, <1>1, <1>2, <1>9
    <3>2. CASE c # low
      <4>1. c \in blocks /\ next_free <= c
        BY <2>3, <3>2, <1>7, <1>11 DEF NextFreeLow
      <4>2. next_free' <= next_free
        BY <2>1, <1>1, <1>2, <1>9
      <4> QED
        BY <2>1, <4>1, <4>2, <1>1, <1>2, <1>9
    <3> QED
      BY <3>1, <3>2
  <2>4. used'[next_free'] => used[next_free] /\ next_free' = next_free
    <3>1. CASE next_free > low
      BY <3>1, <1>9, <1>11
    <3>2. CASE ~(next_free > low)
      BY <2>2, <3>2, <1>9, <1>11
    <3> QED
      BY <3>1, <3>2
  <2> QED
    BY <2>2, <2>3, <2>4, <1>9 DEF NextFreeLow
<1>24. ForeignBelow'
  BY <1>9 DEF Shape, ForeignBelow
<1>25. ForeignApart'
  <2> SUFFICES ASSUME ~crossed', NEW r \in foreign, NEW c \in left
               PROVE  c + HDR + size'[c] <= r.lo \/ r.hi <= c
    BY <1>9 DEF ForeignApart, End
  <2>1. /\ ~crossed
        /\ low # b => End(low) = b
        /\ high # b => End(b) = high
    BY <1>9
  <2>2. \A d \in blocks : End(d) <= r.lo \/ r.hi <= d
    BY <2>1 DEF Shape, ForeignApart
  <2>3. r.lo \in Nat /\ r.hi \in Nat /\ r.lo < r.hi
    <3>1. r.lo < r.hi
      BY DEF Shape, ForeignBelow
    <3> QED
      BY <3>1, <1>1 DEF Addr
  <2>4. CASE c # low
    BY <2>2, <2>4, <1>7, <1>11 DEF End
  <2>5. CASE c = low
    <3>1. End(low) \in Nat /\ End(b) \in Nat /\ End(high) \in Nat
      BY <1>2 DEF End
    <3>2. End(high) <= r.lo \/ r.hi <= low
      <4>1. End(high) <= r.lo \/ r.hi <= b
        BY <2>1, <2>2, <2>3, <3>1, <1>2
      <4>2. r.hi <= b => (r.hi <= low \/ low = b)
        BY <2>1, <2>2, <2>3, <3>1, <1>2
      <4>3. (low = b /\ r.hi <= b) => r.hi <= low
        OBVIOUS
      <4> QED
        BY <4>1, <4>2, <4>3
    <3> QED
      BY <2>3, <2>5, <3>1, <3>2, <1>2, <1>13, <1>21
  <2> QED
    BY <2>4, <2>5
<1>26. Shape'
  BY <1>18, <1>19, <1>20, <1>22, <1>24, <1>25 DEF Shape
<1> QED
  BY <1>9, <1>23, <1>26

\* Freeing a block, with the merges, keeps the invariant.
LEMMA KfreeIInv ==
  ASSUME NEW b \in blocks
  PROVE  IInv /\ Kfree(b) => IInv'
BY KfreeShape, IInvIs, IInvIsNext

----------------------------------------------------------------------------
(* The other actions, and the theorems                                     *)

\* A call of kmalloc touches no block.
LEMMA KmallocIInv ==
  ASSUME NEW n \in Sizes
  PROVE  IInv /\ Kmalloc(n) => IInv'
<1> SUFFICES ASSUME IInv, Kmalloc(n) PROVE IInv'
  OBVIOUS
<1>1. req' \in Nat
  BY HeapAssumption, RoundUpNat DEF Kmalloc
<1>2. TypeOK'
  BY <1>1 DEF IInv, TypeOK, Kmalloc, hvars
<1> QED
  BY <1>2 DEF IInv, Kmalloc, hvars, Linked, Ordered, Disjoint, End,
              NextFreeFirst, ForeignBelow, ForeignApart

\* A region taken by another caller starts where every block has ended.
LEMMA VmmAllocRegionShape ==
  ASSUME Shape, NextFreeLow, NEW n \in RegionPages, VmmAllocRegion(n)
  PROVE  Shape' /\ NextFreeLow' /\ UNCHANGED <<blocks, next, used, size, next_free, req>>
<1>1. n \in Nat /\ n >= 1
  BY HeapAssumption
<1>2. /\ blocks \subseteq Addr /\ size \in [blocks -> Nat] /\ curr_brk \in Addr
      /\ foreign \subseteq [lo : Addr, hi : Addr]
      /\ Disjoint /\ ForeignBelow /\ ForeignApart
  BY DEF Shape
<1>3. curr_brk \in Nat /\ curr_brk > 0
  BY <1>2 DEF Addr
<1>4. PICK brk \in Nat : brk = curr_brk + n * PAGE /\ brk > curr_brk
  BY <1>1, <1>3 DEF PAGE
<1>5. /\ curr_brk' = brk
      /\ foreign' = foreign \cup {[lo |-> curr_brk, hi |-> brk]}
      /\ UNCHANGED <<blocks, next, prev, used, size, next_free, req, crossed>>
  BY <1>4 DEF VmmAllocRegion, hvars
<1>6. \A r \in foreign : r.lo \in Nat /\ r.hi \in Nat
  BY <1>2 DEF Addr
<1>7. curr_brk' \in Addr /\ foreign' \subseteq [lo : Addr, hi : Addr]
  <2>1. brk \in Addr /\ curr_brk \in Addr
    BY <1>3, <1>4 DEF Addr
  <2> QED
    BY <2>1, <1>2, <1>5
<1>8. Linked' /\ Ordered' /\ NextFreeLow'
  BY <1>5 DEF Shape, Linked, Ordered, NextFreeLow
<1>9. \A b \in blocks : End(b) <= curr_brk /\ End(b) \in Nat
  BY <1>2 DEF Disjoint, End, Addr, HDR
<1>10. Disjoint'
  <2>1. \A b \in blocks : End(b) <= brk
    BY <1>3, <1>4, <1>9
  <2> QED
    BY <2>1, <1>2, <1>5 DEF Disjoint, End
<1>11. ForeignBelow'
  BY <1>2, <1>3, <1>4, <1>5, <1>6 DEF ForeignBelow
<1>12. ForeignApart'
  BY <1>2, <1>5, <1>9 DEF ForeignApart, End
<1>13. Shape'
  BY <1>5, <1>7, <1>8, <1>10, <1>11, <1>12 DEF Shape
<1> QED
  BY <1>5, <1>8, <1>13

\* A region for another caller keeps the invariant.
LEMMA VmmAllocRegionIInv ==
  ASSUME NEW n \in RegionPages
  PROVE  IInv /\ VmmAllocRegion(n) => IInv'
BY VmmAllocRegionShape, IInvIs, IInvIsNext

\* Every step of the heap keeps the invariant.
LEMMA NextIInv == IInv /\ [Next]_vars => IInv'
<1> SUFFICES ASSUME IInv, [Next]_vars PROVE IInv'
  OBVIOUS
<1>1. ASSUME NEW n \in Sizes, Kmalloc(n) PROVE IInv'
  BY <1>1, KmallocIInv
<1>2. CASE ExpandHeap
  BY <1>2, ExpandHeapIInv
<1>3. ASSUME NEW b \in blocks, TakeSplit(b) PROVE IInv'
  BY <1>3, TakeSplitIInv
<1>4. ASSUME NEW b \in blocks, TakeWhole(b) PROVE IInv'
  BY <1>4, TakeWholeIInv
<1>5. ASSUME NEW b \in blocks, TakeLast(b) PROVE IInv'
  BY <1>5, TakeLastIInv
<1>6. ASSUME NEW b \in blocks, Kfree(b) PROVE IInv'
  BY <1>6, KfreeIInv
<1>7. ASSUME NEW n \in RegionPages, VmmAllocRegion(n) PROVE IInv'
  BY <1>7, VmmAllocRegionIInv
<1>8. CASE UNCHANGED vars
  BY <1>8 DEF vars, IInv, TypeOK, Linked, Ordered, Disjoint, End, NextFreeFirst,
              ForeignBelow, ForeignApart
<1> QED
  BY <1>1, <1>2, <1>3, <1>4, <1>5, <1>6, <1>7, <1>8 DEF Next

\* The invariant holds in every reachable state of the heap.
THEOREM HeapInvariant == Spec => []IInv
<1> QED
  BY InitIInv, NextIInv, PTL DEF Spec

\* The fields of the headers keep their types, and next_free never points
\* to a block that a merge has removed.
THEOREM HeapTypeCorrect == Spec => []TypeOK
<1>1. IInv => TypeOK
  BY DEF IInv
<1> QED
  BY <1>1, HeapInvariant, PTL

\* However blocks are split, merged and grown, no byte belongs to two of them.
THEOREM BlocksDisjoint == Spec => []Disjoint
<1>1. IInv => Disjoint
  BY DEF IInv
<1> QED
  BY <1>1, HeapInvariant, PTL

\* The links stay inverse and in address order: a walk from heap_start meets
\* every block.
THEOREM ListIntact == Spec => [](Linked /\ Ordered)
<1>1. IInv => Linked /\ Ordered
  BY DEF IInv
<1> QED
  BY <1>1, HeapInvariant, PTL

\* No free block is ever below next_free, where kmalloc would not find it.
THEOREM FreeBlocksFound == Spec => []NextFreeFirst
<1>1. IInv => NextFreeFirst
  BY DEF IInv
<1> QED
  BY <1>1, HeapInvariant, PTL

\* Until kfree merges across a region of another caller, the heap stays out
\* of all of them.
THEOREM RegionsUntouched == Spec => []ForeignApart
<1>1. IInv => ForeignApart
  BY DEF IInv
<1> QED
  BY <1>1, HeapInvariant, PTL

\* Outside the gap, the pages asked for hold the request and a header.
LEMMA NumPagesServe ==
  ASSUME NEW n \in Nat, n > 0, ~InGap(n)
  PROVE  NumPages(n) * PAGE - HDR >= n
BY DEF NumPages, InGap, PAGE, HDR

\* An expansion in kmalloc's loop makes room for the request unless its size
\* is in the gap, where the loop would expand the heap for ever.
THEOREM ExpansionMakesRoom == Spec => ExpansionServes
<1>1. ASSUME IInv, ExpandHeap
      PROVE  InGap(req) \/ \E b \in blocks' : ~used'[b] /\ size'[b] >= req
  <2>1. TypeOK /\ NextFreeFirst
    BY <1>1 DEF IInv
  <2>2. req \in Nat /\ req > 0
    BY <1>1, <2>1 DEF ExpandHeap, TypeOK, NextFreeFirst, Fits, NoReq, Addr
  <2>3. PICK last \in blocks : next[last] = NULL /\ Expanded(last, req, used)
    BY <1>1 DEF ExpandHeap
  <2>4. used \in [blocks -> BOOLEAN] /\ foreign' = foreign /\ crossed' = crossed
    BY <1>1, <2>1 DEF ExpandHeap, TypeOK
  <2>5. /\ curr_brk \in blocks' /\ ~used'[curr_brk]
        /\ size'[curr_brk] = NumPages(req) * PAGE - HDR
    BY <1>1, <2>2, <2>3, <2>4, IInvIs, ExpandedKeeps
  <2>6. NumPages(req) \in Nat
    BY <2>2, NumPagesPositive
  <2> QED
    BY <2>2, <2>5, <2>6, NumPagesServe
<1>2. IInv /\ [Next]_vars =>
        [ExpandHeap => InGap(req) \/ \E b \in blocks' : ~used'[b] /\ size'[b] >= req]_vars
  BY <1>1
<1> QED
  BY <1>2, HeapInvariant, PTL DEF Spec, ExpansionServes

----------------------------------------------------------------------------
(* The heap implements the allocator                                       *)

\* A block that is taken becomes a region the allocator may grant: it was
\* free, and it lies apart from every used block.
LEMMA TakenIsGranted ==
  ASSUME IInv, NEW b \in blocks, ~used[b],
         req \in Nat, req' = NoReq,
         NEW len \in Nat, len >= req, len <= size[b],
         held' = held \cup {[ptr |-> b + HDR, len |-> len]}
  PROVE  A!ANext
<1> DEFINE r == [ptr |-> b + HDR, len |-> len]
<1>1. /\ blocks \subseteq Nat /\ size \in [blocks -> Nat]
      /\ Disjoint
  BY DEF IInv, TypeOK, Addr
<1>2. r \in A!Region
  BY <1>1 DEF A!Region, HDR
<1>3. ASSUME NEW s \in held PROVE s.ptr # r.ptr /\ A!Apart(r, s)
  <2>1. PICK c \in blocks : used[c] /\ s = [ptr |-> c + HDR, len |-> size[c]]
    BY DEF held
  <2>2. c # b /\ b \in Nat /\ c \in Nat /\ size[c] \in Nat /\ size[b] \in Nat
    BY <2>1, <1>1
  <2>3. b + HDR + size[b] <= c \/ c + HDR + size[c] <= b
    BY <1>1, <2>2 DEF Disjoint, End
  <2> QED
    BY <2>1, <2>2, <2>3 DEF A!Apart, HDR
<1>4. r \notin held
  BY <1>3
<1>5. r \in held' \ held
  BY <1>4
<1>6. req # NoReq
  BY DEF NoReq
<1>7. r.len >= req
  OBVIOUS
<1> HIDE DEF r
<1>8. held' = held \cup {r}
  BY DEF r
<1>9. A!Grant(r)
  BY <1>2, <1>3, <1>6, <1>7, <1>8 DEF A!Grant
<1> QED
  BY <1>5, <1>9 DEF A!ANext

\* Every step of the heap is a step of the allocator or leaves it alone.
LEMMA StepRefines == IInv /\ [Next]_vars => [A!ANext]_(A!avars)
<1> SUFFICES ASSUME IInv, [Next]_vars PROVE [A!ANext]_(A!avars)
  OBVIOUS
<1>1. TypeOK /\ NextFreeFirst
  BY DEF IInv
<1>2. ASSUME NEW n \in Sizes, Kmalloc(n) PROVE A!ANext
  <2>1. held' = held
    BY <1>2 DEF Kmalloc, hvars, held
  <2>2. A!Ask(RoundUp(n))
    BY <1>2, <2>1 DEF Kmalloc, A!Ask
  <2> QED
    BY <2>2 DEF A!ANext
<1>3. ASSUME ExpandHeap PROVE UNCHANGED A!avars
  <2>1. req \in Nat /\ req > 0
    BY <1>1, <1>3 DEF ExpandHeap, TypeOK, NextFreeFirst, Fits, NoReq, Addr
  <2>2. PICK last \in blocks : next[last] = NULL /\ Expanded(last, req, used)
    BY <1>3 DEF ExpandHeap
  <2>3. /\ used \in [blocks -> BOOLEAN]
        /\ UNCHANGED <<req, foreign, crossed>>
    BY <1>1, <1>3 DEF ExpandHeap, TypeOK
  <2>4. /\ blocks' = blocks \cup {curr_brk}
        /\ \A b \in blocks : used'[b] = used[b] /\ size'[b] = size[b]
        /\ ~used'[curr_brk]
    BY <2>1, <2>2, <2>3, IInvIs, ExpandedKeeps
  <2>5. held' = held
    BY <2>4 DEF held
  <2> QED
    BY <2>3, <2>5 DEF A!avars
<1>4. ASSUME NEW b \in blocks, TakeSplit(b) PROVE A!ANext
  <2>1. ~used[b] /\ size[b] >= req /\ req \in Nat /\ req' = NoReq
    BY <1>1, <1>4 DEF TakeSplit, FirstFit, Fits, TypeOK, NoReq
  <2>2. PICK new \in Nat : new = b + HDR + req
    BY <1>1, <2>1 DEF TypeOK, Addr, HDR
  <2>3. new \notin blocks
    <3>1. b < new /\ new < End(b) /\ b \in Nat
      BY <1>1, <1>4, <2>1, <2>2 DEF TakeSplit, Splits, End, TypeOK, Addr, HDR, HEAP_ALIGN
    <3>2. ASSUME new \in blocks PROVE End(b) <= new
      BY <3>1, <3>2 DEF IInv, Disjoint
    <3> QED
      BY <3>1, <3>2, <2>2, <1>1 DEF End, TypeOK, Addr, HDR
  <2>4. /\ blocks' = blocks \cup {new}
        /\ ~used'[new] /\ used'[b] /\ size'[b] = req
        /\ \A c \in blocks : c # b => used'[c] = used[c] /\ size'[c] = size[c]
    BY <1>4, <2>2, <2>3 DEF TakeSplit
  <2>5. held' = held \cup {[ptr |-> b + HDR, len |-> req]}
    BY <2>1, <2>4 DEF held
  <2>6. size[b] \in Nat
    BY <1>1 DEF TypeOK
  <2> QED
    BY <2>1, <2>5, <2>6, TakenIsGranted
<1>5. ASSUME NEW b \in blocks, TakeWhole(b) PROVE A!ANext
  <2>1. ~used[b] /\ size[b] >= req /\ req \in Nat /\ req' = NoReq /\ size[b] \in Nat
    BY <1>1, <1>5 DEF TakeWhole, FirstFit, Fits, TypeOK, NoReq
  <2>2. /\ blocks' = blocks /\ size' = size /\ used'[b]
        /\ \A c \in blocks : c # b => used'[c] = used[c]
    BY <1>1, <1>5 DEF TakeWhole, TypeOK
  <2>3. held' = held \cup {[ptr |-> b + HDR, len |-> size[b]]}
    BY <2>1, <2>2 DEF held
  <2> QED
    BY <2>1, <2>3, TakenIsGranted
<1>6. ASSUME NEW b \in blocks, TakeLast(b) PROVE A!ANext
  <2> DEFINE taken == [used EXCEPT ![b] = TRUE]
  <2>1. ~used[b] /\ size[b] >= req /\ req \in Nat /\ req' = NoReq /\ size[b] \in Nat
    BY <1>1, <1>6 DEF TakeLast, FirstFit, Fits, TypeOK, NoReq
  <2>2. PICK last \in blocks : next[last] = NULL /\ Expanded(last, 1, taken)
    BY <1>6 DEF TakeLast
  <2>3. /\ taken \in [blocks -> BOOLEAN] /\ taken[b]
        /\ \A c \in blocks : c # b => taken[c] = used[c]
        /\ UNCHANGED <<foreign, crossed>>
    BY <1>1, <1>6 DEF TakeLast, TypeOK
  <2> HIDE DEF taken
  <2>4. /\ blocks' = blocks \cup {curr_brk}
        /\ \A c \in blocks : used'[c] = taken[c] /\ size'[c] = size[c]
        /\ ~used'[curr_brk]
    BY <2>2, <2>3, IInvIs, ExpandedKeeps
  <2>5. held' = held \cup {[ptr |-> b + HDR, len |-> size[b]]}
    BY <2>1, <2>3, <2>4 DEF held
  <2> QED
    BY <2>1, <2>5, TakenIsGranted
<1>7. ASSUME NEW b \in blocks, Kfree(b) PROVE A!ANext
  <2> DEFINE r == [ptr |-> b + HDR, len |-> size[b]]
  <2>1. used[b] /\ req = NoReq /\ req' = req
    BY <1>7 DEF Kfree
  <2>2. /\ Low(b) \in blocks /\ High(b) \in blocks
        /\ Low(b) # b => ~used[Low(b)]
        /\ High(b) # b => ~used[High(b)]
    BY <2>1, IInvIs, Neighbours
  <2>3. /\ blocks' = blocks \ ({b, High(b)} \ {Low(b)})
        /\ \A c \in blocks' : c # Low(b) => used'[c] = used[c] /\ size'[c] = size[c]
        /\ ~used'[Low(b)]
    BY <1>7, <2>2 DEF Kfree
  <2>4. \A c \in blocks : c # b /\ used[c] => c \in blocks' /\ c # Low(b)
    BY <2>2, <2>3
  <2>5. \A c \in blocks' : used'[c] => c \in blocks /\ c # b /\ used[c]
    BY <2>2, <2>3
  <2>6. \A c \in blocks : c \in Nat
    BY <1>1 DEF TypeOK, Addr
  <2>7. held' = {[ptr |-> c + HDR, len |-> size[c]] : c \in {d \in blocks : d # b /\ used[d]}}
    BY <2>3, <2>4, <2>5 DEF held
  <2>8. \A c \in blocks : c # b => [ptr |-> c + HDR, len |-> size[c]] # r
    BY <2>6 DEF HDR
  <2>9. held' = held \ {r}
    BY <2>7, <2>8 DEF held
  <2>10. r \in held
    BY <2>1 DEF held
  <2> HIDE DEF r
  <2>11. A!Release(r)
    BY <2>1, <2>9, <2>10 DEF A!Release
  <2> QED
    BY <2>10, <2>11 DEF A!ANext
<1>8. ASSUME NEW n \in RegionPages, VmmAllocRegion(n) PROVE UNCHANGED A!avars
  BY <1>8 DEF VmmAllocRegion, hvars, held, A!avars
<1>9. ASSUME UNCHANGED vars PROVE UNCHANGED A!avars
  BY <1>9 DEF vars, held, A!avars
<1> QED
  BY <1>2, <1>3, <1>4, <1>5, <1>6, <1>7, <1>8, <1>9 DEF Next

\* kmalloc and kfree implement the allocator their callers rely on: a region
\* is granted at least as long as asked for and apart from every region in
\* use, and nothing but its own kfree moves, resizes or takes it back.
THEOREM HeapImplementsAllocator == Spec => AllocatorSpec
<1>1. Init => A!AInit
  BY DEF Init, A!AInit, held
<1> QED
  BY <1>1, StepRefines, HeapInvariant, PTL DEF Spec, AllocatorSpec, A!ASpec


----------------------------------------------------------------------------
(* Sums                                                                    *)

Adding == INSTANCE Folding WITH Op <- LAMBDA total, n : n + total

\* Takes an element of each set.
Any(D) == [s \in SUBSET D |-> CHOOSE x \in s : TRUE]

\* The sum over the set D is what the recursion over its subsets ends with.
LEMMA SumIs ==
  ASSUME NEW D, IsFiniteSet(D), NEW val
  PROVE  \E f : Adding!Solves(f, D, 0, val, Any(D)) /\ SumFunctionOnSet(val, D) = f[D]
<1> DEFINE Unfold(f) == [s \in SUBSET D |-> IF s = {} THEN 0
                                          ELSE val[CHOOSE x \in s : TRUE] + f[s \ {CHOOSE x \in s : TRUE}]]
           iter == CHOOSE f : f = Unfold(f)
<1>1. SumFunctionOnSet(val, D) = iter[D]
  BY DEF SumFunctionOnSet, FoldFunctionOnSet, MapThenFoldSet
<1>2. \A s \in SUBSET D : s # {} => Any(D)[s] \in s
  BY DEF Any
<1>3. \E f : f = Unfold(f)
  <2>1. PICK f : Adding!Solves(f, D, 0, val, Any(D))
    BY <1>2, Adding!Solved DEF IsFiniteSet, Adding!IsFiniteSet
  <2>2. f = [s \in SUBSET D |-> f[s]]
    BY <2>1 DEF Adding!Solves
  <2>3. \A s \in SUBSET D : Any(D)[s] = CHOOSE x \in s : TRUE
    BY DEF Any
  <2>4. \A s \in SUBSET D : f[s] = IF s = {} THEN 0
                                   ELSE val[CHOOSE x \in s : TRUE] + f[s \ {CHOOSE x \in s : TRUE}]
    BY <2>1, <2>3 DEF Adding!Solves
  <2>5. f = Unfold(f)
    BY <2>2, <2>4
  <2> QED
    BY <2>5
<1>4. iter = Unfold(iter)
  <2> HIDE DEF Unfold
  <2> QED
    BY <1>3
<1>5. Adding!Solves(iter, D, 0, val, Any(D))
  <2> HIDE DEF iter
  <2>1. iter = [s \in SUBSET D |-> iter[s]]
    BY <1>4
  <2>2. \A s \in SUBSET D : Any(D)[s] = CHOOSE x \in s : TRUE
    BY DEF Any
  <2>3. \A s \in SUBSET D : iter[s] = IF s = {} THEN 0
                                      ELSE val[CHOOSE x \in s : TRUE] + iter[s \ {CHOOSE x \in s : TRUE}]
    BY <1>4
  <2> QED
    BY <2>1, <2>2, <2>3 DEF Adding!Solves
<1> QED
  BY <1>1, <1>5

\* Induction over the sizes of the subsets of a finite set.
LEMMA SubsetsUpTo ==
  ASSUME NEW D, IsFiniteSet(D), NEW Good,
         \A s \in SUBSET D : (\A x \in s : s \ {x} \in Good) => s \in Good
  PROVE  SUBSET D \subseteq Good
<1> DEFINE N == Cardinality(D)
           Q == {k \in 0..N : \A s \in SUBSET D : Cardinality(s) = k => s \in Good}
<1>1. N \in Nat /\ \A s \in SUBSET D : IsFiniteSet(s) /\ Cardinality(s) \in 0..N
  <2>1. N \in Nat
    BY FS_CardinalityType
  <2>2. ASSUME NEW s \in SUBSET D PROVE IsFiniteSet(s) /\ Cardinality(s) \in 0..N
    <3>1. IsFiniteSet(s) /\ Cardinality(s) <= N
      BY FS_Subset
    <3> QED
      BY <2>1, <3>1, FS_CardinalityType
  <2> QED
    BY <2>1, <2>2
<1>2. 0 \in Q
  <2>1. ASSUME NEW s \in SUBSET D, Cardinality(s) = 0 PROVE s \in Good
    <3>1. s = {}
      BY <1>1, <2>1, FS_EmptySet
    <3> QED
      BY <3>1
  <2> QED
    BY <1>1, <2>1
<1>3. ASSUME NEW k \in 1..N, k - 1 \in Q PROVE k \in Q
  <2>1. ASSUME NEW s \in SUBSET D, Cardinality(s) = k PROVE s \in Good
    <3>1. ASSUME NEW x \in s PROVE s \ {x} \in Good
      <4>1. s \ {x} \in SUBSET D /\ Cardinality(s \ {x}) = k - 1
        BY <1>1, <2>1, FS_RemoveElement
      <4> QED
        BY <1>3, <4>1
    <3> QED
      BY <3>1
  <2> QED
    BY <1>1, <2>1
<1> HIDE DEF Q
<1>4. 0..N \subseteq Q
  BY <1>1, <1>2, <1>3, Adding!UpTo
<1> QED
  BY <1>1, <1>4 DEF Q

\* A sum of integers is one.
LEMMA SolvedInt ==
  ASSUME NEW D, IsFiniteSet(D), NEW val, \A x \in D : val[x] \in Int,
         NEW f, Adding!Solves(f, D, 0, val, Any(D))
  PROVE  \A s \in SUBSET D : f[s] \in Int
<1> DEFINE Good == {s \in SUBSET D : f[s] \in Int}
<1>1. ASSUME NEW s \in SUBSET D, \A x \in s : s \ {x} \in Good PROVE s \in Good
  <2>1. CASE s = {}
    <3>1. f[s] = 0
      BY <2>1 DEF Adding!Solves
    <3> QED
      BY <3>1
  <2>2. CASE s # {}
    <3>1. Any(D)[s] \in s
      BY <2>2 DEF Any
    <3>2. f[s] = val[Any(D)[s]] + f[s \ {Any(D)[s]}]
      BY <2>2 DEF Adding!Solves
    <3>3. f[s \ {Any(D)[s]}] \in Int /\ val[Any(D)[s]] \in Int
      BY <1>1, <3>1
    <3> QED
      BY <3>2, <3>3
  <2> QED
    BY <2>1, <2>2
<1> HIDE DEF Good
<1>2. SUBSET D \subseteq Good
  BY <1>1, SubsetsUpTo
<1> QED
  BY <1>2 DEF Good

\* The order in which elements are taken does not matter.
LEMMA SolvedSum ==
  ASSUME NEW D, IsFiniteSet(D), NEW val, \A x \in D : val[x] \in Int,
         NEW f, Adding!Solves(f, D, 0, val, Any(D))
  PROVE  \A s \in SUBSET D : \A x \in s : f[s] = val[x] + f[s \ {x}]
<1> DEFINE Good == {s \in SUBSET D : \A x \in s : f[s] = val[x] + f[s \ {x}]}
<1>1. \A s \in SUBSET D : f[s] \in Int
  BY SolvedInt
<1>2. ASSUME NEW s \in SUBSET D, \A x \in s : s \ {x} \in Good PROVE s \in Good
  <2>1. CASE s = {}
    BY <2>1
  <2>2. CASE s # {}
    <3>1. PICK y \in s : f[s] = val[y] + f[s \ {y}]
      <4>1. Any(D)[s] \in s
        BY <2>2 DEF Any
      <4>2. f[s] = val[Any(D)[s]] + f[s \ {Any(D)[s]}]
        BY <2>2 DEF Adding!Solves
      <4> QED
        BY <4>1, <4>2
    <3>2. ASSUME NEW x \in s PROVE f[s] = val[x] + f[s \ {x}]
      <4>1. CASE x = y
        BY <3>1, <4>1
      <4>2. CASE x # y
        <5>1. x \in s \ {y} /\ y \in s \ {x} /\ (s \ {y}) \ {x} = (s \ {x}) \ {y}
          BY <4>2
        <5>2. s \ {x} \in Good /\ s \ {y} \in Good
          BY <1>2
        <5>3. f[s \ {y}] = val[x] + f[(s \ {y}) \ {x}]
          BY <5>1, <5>2
        <5>4. f[s \ {x}] = val[y] + f[(s \ {y}) \ {x}]
          BY <5>1, <5>2
        <5>5. f[(s \ {y}) \ {x}] \in Int /\ val[x] \in Int /\ val[y] \in Int
          <6>1. (s \ {y}) \ {x} \in SUBSET D /\ x \in D /\ y \in D
            OBVIOUS
          <6> QED
            BY <1>1, <6>1
        <5> QED
          BY <3>1, <5>3, <5>4, <5>5
      <4> QED
        BY <4>1, <4>2
    <3> QED
      BY <3>2
  <2> QED
    BY <2>1, <2>2
<1> HIDE DEF Good
<1>3. SUBSET D \subseteq Good
  BY <1>2, SubsetsUpTo
<1> QED
  BY <1>3 DEF Good

\* Sums over sets of which one has the other, with the same summands.
LEMMA SolvedSame ==
  ASSUME NEW D, IsFiniteSet(D), NEW E \in SUBSET D, NEW val, NEW wal, \A x \in E : val[x] = wal[x],
         NEW f, Adding!Solves(f, D, 0, val, Any(D)),
         NEW g, Adding!Solves(g, E, 0, wal, Any(E))
  PROVE  f[E] = g[E]
<1> DEFINE Good == {s \in SUBSET E : f[s] = g[s]}
<1>1. ASSUME NEW s \in SUBSET E, \A x \in s : s \ {x} \in Good PROVE s \in Good
  <2>1. CASE s = {}
    BY <2>1 DEF Adding!Solves
  <2>2. CASE s # {}
    <3>1. Any(D)[s] \in s /\ Any(E)[s] = Any(D)[s]
      BY <2>2 DEF Any
    <3>2. f[s] = val[Any(D)[s]] + f[s \ {Any(D)[s]}]
      BY <2>2 DEF Adding!Solves
    <3>3. g[s] = wal[Any(D)[s]] + g[s \ {Any(D)[s]}]
      BY <2>2, <3>1 DEF Adding!Solves
    <3>4. f[s \ {Any(D)[s]}] = g[s \ {Any(D)[s]}] /\ val[Any(D)[s]] = wal[Any(D)[s]]
      BY <1>1, <3>1
    <3> QED
      BY <3>2, <3>3, <3>4
  <2> QED
    BY <2>1, <2>2
<1>2. IsFiniteSet(E)
  BY FS_Subset
<1> HIDE DEF Good
<1>3. SUBSET E \subseteq Good
  BY <1>1, <1>2, SubsetsUpTo
<1>4. E \in SUBSET E
  OBVIOUS
<1> QED
  BY <1>3, <1>4 DEF Good

\* The sum of nothing.
LEMMA SumEmpty == ASSUME NEW val PROVE SumFunctionOnSet(val, {}) = 0
<1>1. PICK f : Adding!Solves(f, {}, 0, val, Any({})) /\ SumFunctionOnSet(val, {}) = f[{}]
  BY FS_EmptySet, SumIs
<1> QED
  BY <1>1 DEF Adding!Solves

\* One summand more or less.
LEMMA SumRemove ==
  ASSUME NEW D, IsFiniteSet(D), NEW val, \A x \in D : val[x] \in Int, NEW x \in D
  PROVE  /\ SumFunctionOnSet(val, D) = val[x] + SumFunctionOnSet(val, D \ {x})
         /\ SumFunctionOnSet(val, D \ {x}) \in Int
<1>1. PICK f : Adding!Solves(f, D, 0, val, Any(D)) /\ SumFunctionOnSet(val, D) = f[D]
  BY SumIs
<1> DEFINE E == D \ {x}
<1>2. IsFiniteSet(E) /\ E \in SUBSET D
  BY FS_Subset
<1>3. PICK g : Adding!Solves(g, E, 0, val, Any(E)) /\ SumFunctionOnSet(val, E) = g[E]
  BY <1>2, SumIs
<1> HIDE DEF E
<1>4. f[E] = g[E]
  BY <1>1, <1>2, <1>3, SolvedSame
<1>5. f[D] = val[x] + f[E] /\ f[E] \in Int
  BY <1>1, <1>2, SolvedSum, SolvedInt DEF E
<1> QED
  BY <1>1, <1>3, <1>4, <1>5 DEF E

\* A sum depends on the values of its elements only.
LEMMA SumSame ==
  ASSUME NEW D, IsFiniteSet(D), NEW val, NEW wal, \A x \in D : val[x] = wal[x]
  PROVE  SumFunctionOnSet(val, D) = SumFunctionOnSet(wal, D)
<1>1. PICK f : Adding!Solves(f, D, 0, val, Any(D)) /\ SumFunctionOnSet(val, D) = f[D]
  BY SumIs
<1>2. PICK g : Adding!Solves(g, D, 0, wal, Any(D)) /\ SumFunctionOnSet(wal, D) = g[D]
  BY SumIs
<1>3. D \in SUBSET D
  OBVIOUS
<1>4. f[D] = g[D]
  BY <1>1, <1>2, <1>3, SolvedSame
<1> QED
  BY <1>1, <1>2, <1>4

\* A sum of integers is one.
LEMMA SumInt ==
  ASSUME NEW D, IsFiniteSet(D), NEW val, \A x \in D : val[x] \in Int
  PROVE  SumFunctionOnSet(val, D) \in Int
<1>1. PICK f : Adding!Solves(f, D, 0, val, Any(D)) /\ SumFunctionOnSet(val, D) = f[D]
  BY SumIs
<1> QED
  BY <1>1, SolvedInt

\* The same of a function whose domain is one larger.
LEMMA SumAdd ==
  ASSUME NEW D, IsFiniteSet(D), NEW val, \A x \in D : val[x] \in Int, NEW x, x \notin D, val[x] \in Int
  PROVE  SumFunctionOnSet(val, D \cup {x}) = val[x] + SumFunctionOnSet(val, D)
<1> DEFINE E == D \cup {x}
<1>1. IsFiniteSet(E) /\ x \in E /\ E \ {x} = D /\ \A y \in E : val[y] \in Int
  BY FS_AddElement
<1> HIDE DEF E
<1> QED
  BY <1>1, SumRemove DEF E

----------------------------------------------------------------------------
(* Nothing is lost                                                         *)

\* The bytes of blocks, headers included, and of regions.
InBlocks(D, sz) == SumFunctionOnSet([b \in D |-> HDR + sz[b]], D)
InRegions(R) == SumFunctionOnSet([r \in R |-> r.hi - r.lo], R)

Accounted ==
  /\ IsFiniteSet(blocks) /\ IsFiniteSet(foreign)
  /\ curr_brk - Base = InBlocks(blocks, size) + InRegions(foreign)

\* What the heap says of its sums, in the words of this section.
LEMMA NothingLostIs == NothingLost <=> curr_brk - Base = InBlocks(blocks, size) + InRegions(foreign)
BY DEF NothingLost, InBlocks, InRegions, SumFunction

\* The bytes of finitely many blocks are a number.
LEMMA InBlocksInt ==
  ASSUME NEW D, IsFiniteSet(D), NEW sz, \A b \in D : sz[b] \in Int
  PROVE  InBlocks(D, sz) \in Int
<1> DEFINE val == [b \in D |-> HDR + sz[b]]
<1>1. \A b \in D : val[b] \in Int
  BY DEF HDR
<1> HIDE DEF val
<1>2. SumFunctionOnSet(val, D) \in Int
  BY <1>1, SumInt
<1> QED
  BY <1>2 DEF InBlocks, val

\* The bytes of finitely many regions are a number.
LEMMA InRegionsInt ==
  ASSUME NEW R, IsFiniteSet(R), \A r \in R : r.lo \in Int /\ r.hi \in Int
  PROVE  InRegions(R) \in Int
<1> DEFINE val == [r \in R |-> r.hi - r.lo]
<1>1. \A r \in R : val[r] \in Int
  OBVIOUS
<1> HIDE DEF val
<1>2. SumFunctionOnSet(val, R) \in Int
  BY <1>1, SumInt
<1> QED
  BY <1>2 DEF InRegions, val

\* A block less.
LEMMA InBlocksRemove ==
  ASSUME NEW D, IsFiniteSet(D), NEW sz, \A b \in D : sz[b] \in Int, NEW x \in D
  PROVE  /\ InBlocks(D, sz) = HDR + sz[x] + InBlocks(D \ {x}, sz)
         /\ InBlocks(D \ {x}, sz) \in Int /\ IsFiniteSet(D \ {x})
<1> DEFINE val == [b \in D |-> HDR + sz[b]]
           E == D \ {x}
           wal == [b \in E |-> HDR + sz[b]]
<1>1. \A b \in D : val[b] \in Int
  BY DEF HDR
<1>2. val[x] = HDR + sz[x] /\ \A b \in E : val[b] = wal[b]
  OBVIOUS
<1>3. IsFiniteSet(E)
  BY FS_Subset
<1> HIDE DEF val, wal
<1>4. SumFunctionOnSet(val, D) = val[x] + SumFunctionOnSet(val, E) /\ SumFunctionOnSet(val, E) \in Int
  BY <1>1, SumRemove
<1> HIDE DEF E
<1>5. SumFunctionOnSet(val, E) = SumFunctionOnSet(wal, E)
  BY <1>2, <1>3, SumSame
<1>6. InBlocks(D, sz) = SumFunctionOnSet(val, D) /\ InBlocks(E, sz) = SumFunctionOnSet(wal, E)
  BY DEF InBlocks, val, wal
<1> QED
  BY <1>2, <1>3, <1>4, <1>5, <1>6 DEF E

\* A block more.
LEMMA InBlocksAdd ==
  ASSUME NEW D, IsFiniteSet(D), NEW sz, NEW x, x \notin D, \A b \in D \cup {x} : sz[b] \in Int
  PROVE  /\ InBlocks(D \cup {x}, sz) = HDR + sz[x] + InBlocks(D, sz)
         /\ IsFiniteSet(D \cup {x})
<1> DEFINE E == D \cup {x}
<1>1. IsFiniteSet(E) /\ x \in E /\ E \ {x} = D
  BY FS_AddElement
<1>2. \A b \in E : sz[b] \in Int
  OBVIOUS
<1> HIDE DEF E
<1> QED
  BY <1>1, <1>2, InBlocksRemove DEF E

\* Only the sizes count.
LEMMA InBlocksSame ==
  ASSUME NEW D, IsFiniteSet(D), NEW sz, NEW tz, \A b \in D : sz[b] = tz[b]
  PROVE  InBlocks(D, sz) = InBlocks(D, tz)
<1> DEFINE val == [b \in D |-> HDR + sz[b]]
           wal == [b \in D |-> HDR + tz[b]]
<1>1. \A b \in D : val[b] = wal[b]
  OBVIOUS
<1> HIDE DEF val, wal
<1>2. SumFunctionOnSet(val, D) = SumFunctionOnSet(wal, D)
  BY <1>1, SumSame
<1> QED
  BY <1>2 DEF InBlocks, val, wal

\* A region more.
LEMMA InRegionsAdd ==
  ASSUME NEW R, IsFiniteSet(R), NEW x, x \notin R, \A r \in R \cup {x} : r.lo \in Int /\ r.hi \in Int
  PROVE  InRegions(R \cup {x}) = x.hi - x.lo + InRegions(R) /\ IsFiniteSet(R \cup {x})
<1> DEFINE E == R \cup {x}
           val == [r \in E |-> r.hi - r.lo]
           wal == [r \in R |-> r.hi - r.lo]
<1>1. IsFiniteSet(E)
  BY FS_AddElement
<1>2. val[x] = x.hi - x.lo /\ val[x] \in Int /\ \A r \in R : val[r] = wal[r] /\ val[r] \in Int
  OBVIOUS
<1> HIDE DEF val, wal
<1>3. SumFunctionOnSet(val, E) = val[x] + SumFunctionOnSet(val, R)
  BY <1>2, SumAdd
<1>4. SumFunctionOnSet(val, R) = SumFunctionOnSet(wal, R)
  BY <1>2, SumSame
<1>5. InRegions(E) = SumFunctionOnSet(val, E) /\ InRegions(R) = SumFunctionOnSet(wal, R)
  BY DEF InRegions, val, wal
<1> QED
  BY <1>1, <1>2, <1>3, <1>4, <1>5

\* An expansion takes as much from the break as the new block has.
LEMMA ExpandedAccounted ==
  ASSUME Shape, Accounted,
         NEW last \in blocks, next[last] = NULL,
         NEW n \in Nat, n > 0,
         NEW taken \in [blocks -> BOOLEAN],
         Expanded(last, n, taken),
         foreign' = foreign, crossed' = crossed
  PROVE  Accounted'
<1>1. /\ blocks' = blocks \cup {curr_brk} /\ curr_brk \notin blocks
      /\ \A b \in blocks : size'[b] = size[b]
      /\ size'[curr_brk] = NumPages(n) * PAGE - HDR
      /\ Shape'
  BY ExpandedKeeps
<1>2. NumPages(n) \in Nat /\ curr_brk' = curr_brk + NumPages(n) * PAGE
  BY NumPagesPositive DEF Expanded
<1>3. /\ IsFiniteSet(blocks) /\ curr_brk \in Int /\ Base \in Int
      /\ \A b \in blocks : size[b] \in Int
      /\ \A b \in blocks \cup {curr_brk} : size'[b] \in Int
  BY <1>1, HeapAssumption DEF Accounted, Shape, Addr
<1>4. /\ InBlocks(blocks', size') = HDR + size'[curr_brk] + InBlocks(blocks, size')
      /\ IsFiniteSet(blocks')
  BY <1>1, <1>3, InBlocksAdd
<1>5. InBlocks(blocks, size') = InBlocks(blocks, size) /\ InBlocks(blocks, size) \in Int
  BY <1>1, <1>3, InBlocksSame, InBlocksInt
<1>6. InRegions(foreign') = InRegions(foreign) /\ InRegions(foreign) \in Int /\ IsFiniteSet(foreign')
  BY InRegionsInt DEF Accounted, Shape, Addr
<1> QED
  BY <1>1, <1>2, <1>3, <1>4, <1>5, <1>6 DEF Accounted, HDR, PAGE

\* The two halves of a split are as large as the block was.
LEMMA TakeSplitAccounted ==
  ASSUME IInv, Accounted, NEW b \in blocks, TakeSplit(b)
  PROVE  Accounted'
<1>1. Shape /\ Shape' /\ req \in Nat
  BY TakeSplitIInv, IInvIs, IInvIsNext DEF TakeSplit, NoReq
<1>2. PICK new \in Nat : new = b + HDR + req
  BY <1>1 DEF Shape, Addr, HDR
<1>3. new \notin blocks
  <2>1. b < new /\ new < End(b) /\ b \in Nat
    BY <1>1, <1>2 DEF TakeSplit, Splits, End, Shape, Addr, HDR, HEAP_ALIGN
  <2>2. ASSUME new \in blocks PROVE End(b) <= new
    BY <1>1, <2>1, <2>2 DEF Shape, Disjoint
  <2> QED
    BY <1>1, <1>2, <2>1, <2>2 DEF End, Shape, Addr, HDR
<1>4. /\ blocks' = blocks \cup {new} /\ b # new
      /\ size'[new] = Rest(b) /\ size'[b] = req
      /\ \A c \in blocks : c # b => size'[c] = size[c]
      /\ curr_brk' = curr_brk /\ foreign' = foreign
  BY <1>2, <1>3 DEF TakeSplit
<1>5. /\ IsFiniteSet(blocks)
      /\ \A c \in blocks : size[c] \in Int
      /\ \A c \in blocks \cup {new} : size'[c] \in Int
  BY <1>1, <1>4 DEF Accounted, Shape
<1>6. InBlocks(blocks', size') = HDR + size'[new] + InBlocks(blocks, size') /\ IsFiniteSet(blocks')
  BY <1>3, <1>4, <1>5, InBlocksAdd
<1>7. /\ InBlocks(blocks, size') = HDR + size'[b] + InBlocks(blocks \ {b}, size')
      /\ InBlocks(blocks, size) = HDR + size[b] + InBlocks(blocks \ {b}, size)
      /\ InBlocks(blocks \ {b}, size) \in Int /\ IsFiniteSet(blocks \ {b})
  BY <1>5, InBlocksRemove
<1>8. InBlocks(blocks \ {b}, size') = InBlocks(blocks \ {b}, size)
  BY <1>4, <1>7, InBlocksSame
<1>9. HDR + Rest(b) + (HDR + req) = HDR + size[b]
  BY <1>1, <1>5 DEF Rest, HDR
<1>10. InBlocks(blocks', size') = InBlocks(blocks, size)
  BY <1>1, <1>4, <1>5, <1>6, <1>7, <1>8, <1>9 DEF HDR
<1> QED
  BY <1>4, <1>6, <1>10 DEF Accounted

\* A merge keeps the headers of the blocks that are gone.
LEMMA KfreeAccounted ==
  ASSUME IInv, Accounted, NEW b \in blocks, Kfree(b)
  PROVE  Accounted'
<1>1. Shape /\ Shape' /\ used[b]
  BY KfreeIInv, IInvIs, IInvIsNext DEF Kfree
<1>2. PICK low \in blocks : low = Low(b)
  BY <1>1, Neighbours
<1>3. PICK high \in blocks : high = High(b)
  BY <1>1, Neighbours
<1>4. low <= b /\ b <= high /\ low \in Nat /\ b \in Nat /\ high \in Nat
  BY <1>1, <1>2, <1>3, Neighbours DEF Shape, Addr
<1>5. /\ blocks' = blocks \ ({b, high} \ {low})
      /\ size'[low] = MergedSize(b)
      /\ \A c \in blocks' : c # low => size'[c] = size[c]
      /\ curr_brk' = curr_brk /\ foreign' = foreign
  BY <1>2, <1>3 DEF Kfree
<1>6. MergedSize(b) = size[b] + (IF low = b THEN 0 ELSE size[low] + HDR)
                              + (IF high = b THEN 0 ELSE size[high] + HDR)
  BY <1>2, <1>3 DEF MergedSize
<1>7. /\ IsFiniteSet(blocks) /\ low \in blocks'
      /\ \A c \in blocks : size[c] \in Int
      /\ \A c \in blocks' : size'[c] \in Int
  BY <1>1, <1>5 DEF Accounted, Shape
<1>8. IsFiniteSet(blocks')
  BY <1>5, <1>7, FS_Subset
<1> DEFINE rest == blocks' \ {low}
<1>9. /\ InBlocks(blocks', size') = HDR + size'[low] + InBlocks(rest, size')
      /\ IsFiniteSet(rest)
  BY <1>7, <1>8, InBlocksRemove
<1>10. InBlocks(rest, size') = InBlocks(rest, size) /\ InBlocks(rest, size) \in Int
  <2>1. \A c \in rest : size'[c] = size[c] /\ size[c] \in Int
    BY <1>5, <1>7
  <2> HIDE DEF rest
  <2> QED
    BY <1>9, <2>1, InBlocksSame, InBlocksInt
<1> DEFINE D1 == blocks \ {b}
           D2 == D1 \ {low}
           D3 == D2 \ {high}
<1>11. /\ InBlocks(blocks, size) = HDR + size[b] + InBlocks(D1, size)
       /\ InBlocks(D1, size) \in Int /\ IsFiniteSet(D1)
  BY <1>7, InBlocksRemove
<1>12. low # b => /\ InBlocks(D1, size) = HDR + size[low] + InBlocks(D2, size)
                  /\ InBlocks(D2, size) \in Int /\ IsFiniteSet(D2)
  <2> SUFFICES ASSUME low # b
               PROVE  /\ InBlocks(D1, size) = HDR + size[low] + InBlocks(D2, size)
                      /\ InBlocks(D2, size) \in Int /\ IsFiniteSet(D2)
    OBVIOUS
  <2>1. low \in D1 /\ \A c \in D1 : size[c] \in Int
    BY <1>7
  <2> HIDE DEF D1
  <2> QED
    BY <1>11, <2>1, InBlocksRemove
<1>13. low = b => D2 = D1
  OBVIOUS
<1>14. high # b => InBlocks(D2, size) = HDR + size[high] + InBlocks(D3, size)
  <2> SUFFICES ASSUME high # b
               PROVE  InBlocks(D2, size) = HDR + size[high] + InBlocks(D3, size)
    OBVIOUS
  <2>1. high \in D2 /\ \A c \in D2 : size[c] \in Int
    BY <1>4, <1>7
  <2>2. IsFiniteSet(D2)
    BY <1>11, <1>12, <1>13
  <2> HIDE DEF D2
  <2> QED
    BY <2>1, <2>2, InBlocksRemove
<1>15. high = b => D3 = D2
  OBVIOUS
<1>16. rest = D3
  BY <1>5
<1> HIDE DEF rest, D1, D2, D3
<1>17. InBlocks(blocks', size') = InBlocks(blocks, size)
  <2>1. size[b] \in Int /\ size[low] \in Int /\ size[high] \in Int /\ size'[low] \in Int
    BY <1>7
  <2>2. HDR = 32
    BY DEF HDR
  <2>3. CASE low = b /\ high = b
    BY <1>5, <1>6, <1>9, <1>10, <1>11, <1>13, <1>15, <1>16, <2>1, <2>2, <2>3
  <2>4. CASE low # b /\ high = b
    BY <1>5, <1>6, <1>9, <1>10, <1>11, <1>12, <1>15, <1>16, <2>1, <2>2, <2>4
  <2>5. CASE low = b /\ high # b
    BY <1>5, <1>6, <1>9, <1>10, <1>11, <1>13, <1>14, <1>16, <2>1, <2>2, <2>5
  <2>6. CASE low # b /\ high # b
    BY <1>5, <1>6, <1>9, <1>10, <1>11, <1>12, <1>14, <1>16, <2>1, <2>2, <2>6
  <2> QED
    BY <2>3, <2>4, <2>5, <2>6
<1> QED
  BY <1>5, <1>8, <1>17 DEF Accounted

\* A region moves the break by its own length.
LEMMA VmmAllocRegionAccounted ==
  ASSUME IInv, Accounted, NEW n \in RegionPages, VmmAllocRegion(n)
  PROVE  Accounted'
<1> DEFINE x == [lo |-> curr_brk, hi |-> curr_brk + n * PAGE]
<1>1. /\ foreign' = foreign \cup {x} /\ curr_brk' = curr_brk + n * PAGE
      /\ blocks' = blocks /\ size' = size
  BY DEF VmmAllocRegion, hvars
<1>2. curr_brk \in Nat /\ n \in Nat /\ n > 0 /\ Base \in Nat
  BY HeapAssumption DEF IInv, TypeOK, Addr
<1>3. x.lo = curr_brk /\ x.hi = curr_brk + n * PAGE /\ x.hi \in Nat /\ x.hi > curr_brk
  BY <1>2 DEF PAGE
<1>4. \A r \in foreign : r.lo \in Nat /\ r.hi \in Nat /\ r.hi <= curr_brk
  BY DEF IInv, TypeOK, Addr, ForeignBelow
<1> HIDE DEF x
<1>5. x \notin foreign
  BY <1>2, <1>3, <1>4
<1>6. InRegions(foreign \cup {x}) = x.hi - x.lo + InRegions(foreign) /\ IsFiniteSet(foreign \cup {x})
  BY <1>2, <1>3, <1>4, <1>5, InRegionsAdd DEF Accounted
<1>7. InRegions(foreign) \in Int /\ InBlocks(blocks, size) \in Int
  BY <1>4, InRegionsInt, InBlocksInt DEF Accounted, IInv, TypeOK
<1> QED
  BY <1>1, <1>2, <1>3, <1>6, <1>7 DEF Accounted

\* The first block is all there is.
LEMMA InitAccounted == Init => Accounted
<1> SUFFICES ASSUME Init PROVE Accounted
  OBVIOUS
<1>1. IsFiniteSet({Base}) /\ IsFiniteSet({}) /\ Base \in Nat
  BY FS_EmptySet, FS_Singleton, HeapAssumption
<1>2. blocks = {} \cup {Base} /\ foreign = {} /\ size[Base] = 4064 /\ curr_brk = Base + 4096
  BY <1>1 DEF Init, INIT_HEAP_PAGES, PAGE, HDR
<1>3. InBlocks({}, size) = 0 /\ InRegions({}) = 0
  BY SumEmpty DEF InBlocks, InRegions
<1>4. InBlocks(blocks, size) = HDR + size[Base] + InBlocks({}, size) /\ IsFiniteSet(blocks)
  <2>1. Base \notin {} /\ \A b \in {} \cup {Base} : size[b] \in Int
    BY <1>2
  <2>2. InBlocks({} \cup {Base}, size) = HDR + size[Base] + InBlocks({}, size) /\ IsFiniteSet({} \cup {Base})
    BY ONLY <1>1, <2>1, InBlocksAdd
  <2> QED
    BY <1>2, <2>2
<1> QED
  BY <1>1, <1>2, <1>3, <1>4 DEF Accounted, HDR

\* Every step keeps the account.
LEMMA NextAccounted == IInv /\ Accounted /\ [Next]_vars => Accounted'
<1> SUFFICES ASSUME IInv, Accounted, [Next]_vars PROVE Accounted'
  OBVIOUS
<1>1. Shape /\ TypeOK /\ NextFreeFirst
  BY IInvIs DEF IInv
<1>2. ASSUME NEW n \in Sizes, Kmalloc(n) PROVE Accounted'
  BY <1>2 DEF Kmalloc, hvars, Accounted
<1>3. CASE ExpandHeap
  <2>1. req \in Nat /\ req > 0
    BY <1>1, <1>3 DEF ExpandHeap, TypeOK, NextFreeFirst, Fits, NoReq, Addr
  <2>2. PICK last \in blocks : next[last] = NULL /\ Expanded(last, req, used)
    BY <1>3 DEF ExpandHeap
  <2>3. used \in [blocks -> BOOLEAN] /\ UNCHANGED <<foreign, crossed>>
    BY <1>1, <1>3 DEF ExpandHeap, TypeOK
  <2> QED
    BY <1>1, <2>1, <2>2, <2>3, ExpandedAccounted
<1>4. ASSUME NEW b \in blocks, TakeSplit(b) PROVE Accounted'
  BY <1>4, TakeSplitAccounted
<1>5. ASSUME NEW b \in blocks, TakeWhole(b) PROVE Accounted'
  BY <1>5 DEF TakeWhole, Accounted
<1>6. ASSUME NEW b \in blocks, TakeLast(b) PROVE Accounted'
  <2> DEFINE taken == [used EXCEPT ![b] = TRUE]
  <2>1. PICK last \in blocks : next[last] = NULL /\ Expanded(last, 1, taken)
    BY <1>6 DEF TakeLast
  <2>2. taken \in [blocks -> BOOLEAN] /\ UNCHANGED <<foreign, crossed>>
    BY <1>1, <1>6 DEF TakeLast, TypeOK
  <2> HIDE DEF taken
  <2> QED
    BY <1>1, <2>1, <2>2, ExpandedAccounted
<1>7. ASSUME NEW b \in blocks, Kfree(b) PROVE Accounted'
  BY <1>7, KfreeAccounted
<1>8. ASSUME NEW n \in RegionPages, VmmAllocRegion(n) PROVE Accounted'
  BY <1>8, VmmAllocRegionAccounted
<1>9. CASE UNCHANGED vars
  BY <1>9 DEF vars, Accounted
<1> QED
  BY <1>2, <1>3, <1>4, <1>5, <1>6, <1>7, <1>8, <1>9 DEF Next

\* Every byte between the start of the heap and the break belongs to a block
\* or to a region of another caller, after any calls.
THEOREM NoByteLost == Spec => []NothingLost
<1>1. Accounted => NothingLost
  BY NothingLostIs DEF Accounted
<1> QED
  BY <1>1, InitIInv, NextIInv, InitAccounted, NextAccounted, PTL DEF Spec

----------------------------------------------------------------------------
(* An interrupted kmalloc                                                  *)

\* No caller asks for zero bytes: with next_free at a block in use, a kmalloc
\* of nothing that finds no block free would have expand_heap make a block of
\* no pages.
NoEmptyRequest == 0 \notin Sizes \cup Wanted

\* What the interrupted kmalloc knows, at each of its points, of the block it
\* points to.
BlockKnown ==
  /\ at # "out" => block \in blocks /\ want \in Nat /\ want > 0
  /\ at = "take" => ~used[block] /\ size[block] >= want
  /\ at = "grow" => next[block] = NULL
  /\ at = "move" => next[block] # NULL
  /\ at = "advance" => used[block]

\* As long as no call has spoilt the interrupted one, the blocks are in shape
\* and next_free points to a free one, or to the one just taken.
Sound ==
  /\ Shape
  /\ NextFreeLow
  /\ req \in Nat \cup {NoReq} /\ req # 0
  /\ used[next_free] => at = "advance" /\ next_free = block
  /\ BlockKnown

RInv ==
  /\ at \in {"out", "test", "take", "move", "grow", "advance"}
  /\ torn \in BOOLEAN
  /\ ~torn => Sound

----------------------------------------------------------------------------
(* The whole calls                                                         *)

\* A call that is not interrupted keeps the heap in shape, and next_free at a
\* free block, unless it leaves it where it was.
LEMMA CallKeeps ==
  ASSUME NoEmptyRequest, Shape, NextFreeLow, req \in Nat \cup {NoReq}, req # 0, Next
  PROVE  /\ Shape' /\ NextFreeLow' /\ req' \in Nat \cup {NoReq} /\ req' # 0
         /\ used'[next_free'] => used[next_free] /\ next_free' = next_free
<1>1. ASSUME NEW n \in Sizes, Kmalloc(n)
      PROVE  /\ Shape' /\ NextFreeLow' /\ req' \in Nat /\ req' # 0
             /\ used'[next_free'] = used[next_free] /\ next_free' = next_free
  <2>1. n \in Nat /\ n > 0 /\ RoundUp(n) \in Nat /\ RoundUp(n) >= n
    BY HeapAssumption, RoundUpNat DEF NoEmptyRequest
  <2>2. req' = RoundUp(n) /\ UNCHANGED <<blocks, next, prev, used, size, next_free, curr_brk, foreign, crossed>>
    BY <1>1 DEF Kmalloc, hvars
  <2>3. Shape' /\ NextFreeLow'
    BY <2>2 DEF Shape, Linked, Ordered, Disjoint, End, ForeignBelow, ForeignApart, NextFreeLow
  <2> QED
    BY <2>1, <2>2, <2>3
<1>2. CASE ExpandHeap
  <2>1. req \in Nat /\ req > 0 /\ req' = req
    BY <1>2 DEF ExpandHeap
  <2> QED
    BY <1>2, <2>1, ExpandHeapShape
<1>3. ASSUME NEW b \in blocks, TakeSplit(b)
      PROVE  /\ Shape' /\ NextFreeLow' /\ req' = NoReq
             /\ used'[next_free'] => used[next_free] /\ next_free' = next_free
  BY <1>3, TakeSplitShape
<1>4. ASSUME NEW b \in blocks, TakeWhole(b)
      PROVE  /\ Shape' /\ NextFreeLow' /\ req' = NoReq
             /\ used'[next_free'] => used[next_free] /\ next_free' = next_free
  BY <1>4, TakeWholeShape
<1>5. ASSUME NEW b \in blocks, TakeLast(b)
      PROVE  /\ Shape' /\ NextFreeLow' /\ req' = NoReq /\ ~used'[next_free']
  BY <1>5, TakeLastShape
<1>6. ASSUME NEW b \in blocks, Kfree(b)
      PROVE  /\ Shape' /\ NextFreeLow' /\ req' = req
             /\ used'[next_free'] => used[next_free] /\ next_free' = next_free
  BY <1>6, KfreeShape
<1>7. ASSUME NEW n \in RegionPages, VmmAllocRegion(n)
      PROVE  Shape' /\ NextFreeLow' /\ UNCHANGED <<used, next_free, req>>
  BY <1>7, VmmAllocRegionShape
<1>8. NoReq \notin Nat /\ NoReq # 0
  BY DEF NoReq
<1> QED
  BY <1>1, <1>2, <1>3, <1>4, <1>5, <1>6, <1>7, <1>8 DEF Next

\* Whatever calls come in between, the interrupted kmalloc still knows what it
\* knew of its block, or is spoilt.
LEMMA OthersStep ==
  ASSUME NoEmptyRequest, RInv, Others
  PROVE  RInv'
<1>1. ~torn /\ Sound /\ Next /\ at' = at /\ block' = block /\ want' = want
  BY DEF Others, RInv, walk
<1>2. torn' \in BOOLEAN
  BY DEF Others
<1>3. ASSUME ~torn' PROVE Sound'
  <2>1. /\ Shape' /\ NextFreeLow' /\ req' \in Nat \cup {NoReq} /\ req' # 0
        /\ used'[next_free'] => used[next_free] /\ next_free' = next_free
    BY <1>1, CallKeeps DEF Sound
  <2>2. used'[next_free'] => at' = "advance" /\ next_free' = block'
    BY <1>1, <2>1 DEF Sound
  <2>3. /\ at # "out" => block \in blocks'
        /\ at = "take" => ~used'[block] /\ size'[block] >= want
        /\ at = "grow" => next'[block] = NULL
        /\ at = "move" => next'[block] # NULL
        /\ at = "advance" => used'[block]
    BY <1>1, <1>3 DEF Others, W!Fits
  <2>4. BlockKnown'
    BY <1>1, <2>3 DEF BlockKnown, Sound
  <2> QED
    BY <2>1, <2>2, <2>4 DEF Sound
<1> QED
  BY <1>1, <1>2, <1>3 DEF RInv

----------------------------------------------------------------------------
(* The interrupted call                                                    *)

\* The interrupted kmalloc starts at next_free, which is free.
LEMMA EnterStep ==
  ASSUME NoEmptyRequest, RInv, NEW n \in Wanted, Enter(n)
  PROVE  RInv'
<1>1. /\ at = "out" /\ at' = "test" /\ ~torn /\ torn' = torn /\ req = NoReq
      /\ want' = RoundUp(n) /\ block' = next_free
      /\ UNCHANGED <<blocks, next, prev, used, size, next_free, curr_brk, req, foreign, crossed>>
  BY DEF Enter, Step, vars
<1>2. want' \in Nat /\ want' > 0
  <2>1. n \in Nat /\ n > 0
    BY HeapRaceAssumption DEF NoEmptyRequest
  <2> QED
    BY <1>1, <2>1, RoundUpNat
<1>3. Sound
  BY <1>1 DEF RInv
<1>4. Shape' /\ NextFreeLow'
  BY <1>1, <1>3
     DEF Sound, Shape, Linked, Ordered, Disjoint, End, ForeignBelow, ForeignApart, NextFreeLow
<1>5. BlockKnown'
  BY <1>1, <1>2, <1>3 DEF Sound, NextFreeLow, BlockKnown
<1>6. ~used'[next_free'] /\ req' = req
  BY <1>1, <1>3 DEF Sound
<1>8. at' \in {"out", "test", "take", "move", "grow", "advance"}
  BY <1>1
<1>9. Sound'
  <2>1. used'[next_free'] => at' = "advance" /\ next_free' = block'
    BY <1>6
  <2>2. req' \in Nat \cup {NoReq} /\ req' # 0
    BY <1>1, <1>3 DEF Sound
  <2> QED
    BY <2>1, <2>2, <1>4, <1>5 DEF Sound
<1>10. torn' \in BOOLEAN
  BY <1>1 DEF RInv
<1> QED
  BY <1>8, <1>9, <1>10 DEF RInv

\* The tests, and the step to the next block.
LEMMA WalkStep ==
  ASSUME RInv, Test \/ Move
  PROVE  RInv'
<1>1. /\ at \in {"test", "move"} /\ at' \in {"test", "take", "move", "grow"}
      /\ ~torn /\ torn' = torn /\ want' = want
      /\ UNCHANGED <<blocks, next, prev, used, size, next_free, curr_brk, req, foreign, crossed>>
  BY DEF Test, Move, Step, vars
<1>2. Sound
  BY <1>1 DEF RInv
<1>3. Shape' /\ NextFreeLow'
  BY <1>1, <1>2
     DEF Sound, Shape, Linked, Ordered, Disjoint, End, ForeignBelow, ForeignApart, NextFreeLow
<1>4. BlockKnown'
  <2>1. block \in blocks /\ want \in Nat /\ want > 0
    BY <1>1, <1>2 DEF Sound, BlockKnown
  <2>2. CASE Test
    <3>1. /\ block' = block
          /\ at' = "take" => ~used[block] /\ size[block] >= want
          /\ at' = "grow" => next[block] = NULL
          /\ at' = "move" => next[block] # NULL
      BY <2>2 DEF Test, Step, W!Fits
    <3> QED
      BY <1>1, <2>1, <3>1 DEF BlockKnown
  <2>3. CASE Move
    <3>1. block' = next[block] /\ at' = "test" /\ next[block] # NULL
      BY <1>2, <2>3 DEF Move, Step, Sound, BlockKnown
    <3>2. next[block] \in blocks
      BY <1>2, <2>1, <3>1 DEF Sound, Shape
    <3> QED
      BY <1>1, <2>1, <3>1, <3>2 DEF BlockKnown
  <2> QED
    BY <2>2, <2>3
<1>5. ~used'[next_free'] /\ req' = req
  BY <1>1, <1>2 DEF Sound
<1>8. at' \in {"out", "test", "take", "move", "grow", "advance"}
  BY <1>1
<1>9. Sound'
  <2>1. used'[next_free'] => at' = "advance" /\ next_free' = block'
    BY <1>5
  <2>2. req' \in Nat \cup {NoReq} /\ req' # 0
    BY <1>1, <1>2 DEF Sound
  <2> QED
    BY <2>1, <2>2, <1>3, <1>4 DEF Sound
<1>10. torn' \in BOOLEAN
  BY <1>1 DEF RInv
<1> QED
  BY <1>8, <1>9, <1>10 DEF RInv

\* expand_heap behind the last block.
LEMMA GrowStep ==
  ASSUME RInv, Grow
  PROVE  RInv'
<1>1. /\ at = "grow" /\ at' = "move" /\ ~torn /\ torn' = torn
      /\ Expanded(block, want, used)
      /\ UNCHANGED <<next_free, req, foreign, crossed, block, want>>
  BY DEF Grow, Step
<1>2. Sound
  BY <1>1 DEF RInv
<1>3. /\ block \in blocks /\ want \in Nat /\ want > 0 /\ next[block] = NULL
      /\ used \in [blocks -> BOOLEAN] /\ Shape /\ NextFreeLow
      /\ blocks \subseteq Nat /\ curr_brk \in Nat /\ curr_brk # NULL
  BY <1>1, <1>2 DEF Sound, BlockKnown, Shape, Addr, NULL
<1>4. /\ blocks' = blocks \cup {curr_brk} /\ curr_brk \notin blocks
      /\ \A b \in blocks : b < curr_brk
      /\ \A b \in blocks : used'[b] = used[b]
      /\ Shape'
  BY <1>1, <1>3, ExpandedKeeps
<1>5. NextFreeLow' /\ ~used'[next_free']
  <2>1. ~used[next_free]
    BY <1>1, <1>2 DEF Sound
  <2> QED
    BY <1>1, <1>3, <1>4, <2>1 DEF NextFreeLow
<1>6. next'[block] = curr_brk
  BY <1>1, <1>3, <1>4 DEF Expanded
<1>7. BlockKnown'
  BY <1>1, <1>3, <1>4, <1>6 DEF BlockKnown
<1>8. at' \in {"out", "test", "take", "move", "grow", "advance"}
  BY <1>1
<1>9. Sound'
  <2>1. used'[next_free'] => at' = "advance" /\ next_free' = block'
    BY <1>5
  <2>2. req' \in Nat \cup {NoReq} /\ req' # 0
    BY <1>1, <1>2 DEF Sound
  <2> QED
    BY <2>1, <2>2, <1>4, <1>5, <1>7 DEF Sound
<1>10. torn' \in BOOLEAN
  BY <1>1 DEF RInv
<1> QED
  BY <1>8, <1>9, <1>10 DEF RInv

\* The block found is split or taken whole: next_free may now point to it.
LEMMA TakeStep ==
  ASSUME RInv, Take
  PROVE  RInv'
<1>1. /\ at = "take" /\ at' = "advance" /\ ~torn /\ torn' = torn
      /\ UNCHANGED <<next_free, curr_brk, req, foreign, crossed, block, want>>
  BY DEF Take, Step
<1>2. Sound
  BY <1>1 DEF RInv
<1>3. /\ block \in blocks /\ want \in Nat /\ want > 0
      /\ ~used[block] /\ size[block] >= want
      /\ Shape /\ NextFreeLow /\ ~used[next_free]
      /\ blocks \subseteq Nat /\ size[block] \in Nat /\ used \in [blocks -> BOOLEAN]
      /\ size \in [blocks -> Nat]
  BY <1>1, <1>2 DEF Sound, BlockKnown, Shape, Addr
<1>4. next_free \in blocks /\ next_free <= block
  BY <1>3 DEF NextFreeLow
<1>5. /\ Shape' /\ block \in blocks' /\ used'[block]
      /\ next_free \in blocks'
      /\ \A c \in blocks' : ~used'[c] => next_free <= c
      /\ next_free # block => ~used'[next_free]
  <2>1. CASE W!Splits(block)
    <3>1. size[block] > want + HDR + HEAP_ALIGN
      BY <2>1 DEF W!Splits, W!HDR, W!HEAP_ALIGN, HDR, HEAP_ALIGN
    <3>2. PICK new \in Nat, rest \in Nat :
            new = block + HDR + want /\ rest = size[block] - want - HDR /\ new + HDR + rest = End(block)
      <4>1. block + HDR + want \in Nat /\ size[block] - want - HDR \in Nat
        BY <1>3, <3>1 DEF HDR, HEAP_ALIGN
      <4>2. block + HDR + want + HDR + (size[block] - want - HDR) = End(block)
        BY <1>3 DEF HDR, End
      <4> QED
        BY <4>1, <4>2
    <3>3. W!Rest(block) = rest
      BY <3>2 DEF W!Rest, W!HDR, HDR
    <3>4. /\ blocks' = blocks \cup {new}
          /\ next' = NextSplit(block, new)
          /\ prev' = PrevSplit(block, new)
          /\ used' = [b \in blocks \cup {new} |->
                        IF b = block THEN TRUE ELSE IF b \notin blocks THEN FALSE ELSE used[b]]
          /\ size' = [b \in blocks \cup {new} |->
                        IF b = block THEN want ELSE IF b \notin blocks THEN rest ELSE size[b]]
      BY <2>1, <3>2, <3>3 DEF Take
    <3>5. new \notin blocks
      <4>1. block < new /\ new < End(block) /\ End(block) \in Nat
        BY <1>3, <3>1, <3>2 DEF End, HDR, HEAP_ALIGN
      <4>2. ASSUME new \in blocks PROVE End(block) <= new
        BY <1>3, <4>1, <4>2 DEF Shape, Disjoint
      <4> QED
        BY <4>1, <4>2
    <3>6. /\ used' = [c \in blocks \cup {new} |-> IF c = new THEN FALSE
                                              ELSE IF c = block THEN TRUE ELSE used[c]]
          /\ size' = [c \in blocks \cup {new} |-> IF c = new THEN rest
                                              ELSE IF c = block THEN want ELSE size[c]]
      BY <1>3, <3>4, <3>5
    <3>7. /\ Shape' /\ block < new /\ used'[block] /\ ~used'[new]
          /\ \A c \in blocks : c # block => used'[c] = used[c]
      <4>1. new >= block + HDR + want /\ new + HDR + rest <= End(block)
        <5>1. End(block) \in Nat
          BY <1>3 DEF End, HDR
        <5> QED
          BY <3>2, <5>1
      <4>2. UNCHANGED <<curr_brk, foreign, crossed>>
        BY <1>1
      <4>3. Shape /\ block \in blocks /\ want \in Nat
        BY <1>3
      <4> QED
        <5>1. SplitInto(block, want, new, rest)
          BY <3>4, <3>6, <4>2 DEF SplitInto
        <5>2. Shape' /\ NewBehind(block, new)
          BY <4>1, <4>3, <5>1, SplitKeeps
        <5> QED
          BY <5>2 DEF NewBehind
    <3>8. ASSUME NEW c \in blocks', ~used'[c] PROVE next_free <= c
      <4>1. CASE c = new
        BY <1>3, <1>4, <3>7, <4>1
      <4>2. CASE c # new
        BY <1>3, <3>4, <3>7, <3>8, <4>2 DEF NextFreeLow
      <4> QED
        BY <4>1, <4>2
    <3> QED
      BY <1>3, <1>4, <3>4, <3>7, <3>8
  <2>2. CASE ~W!Splits(block)
    <3>1. /\ UNCHANGED <<blocks, next, prev>>
          /\ used' = [b \in blocks |-> IF b = block THEN TRUE ELSE used[b]]
          /\ size' = [b \in blocks |-> size[b]]
      BY <2>2 DEF Take
    <3>2. used' = [used EXCEPT ![block] = TRUE] /\ size' = size
      BY <1>3, <3>1
    <3>3. Shape' /\ used'[block] /\ \A c \in blocks : c # block => used'[c] = used[c]
      BY <1>1, <1>3, <3>1, <3>2, WholeKeeps
    <3> QED
      BY <1>3, <1>4, <3>1, <3>3 DEF NextFreeLow
  <2> QED
    BY <2>1, <2>2
<1>6. NextFreeLow' /\ (used'[next_free'] => next_free' = block')
  BY <1>1, <1>5 DEF NextFreeLow
<1>7. BlockKnown'
  BY <1>1, <1>3, <1>5 DEF BlockKnown
<1>8. at' \in {"out", "test", "take", "move", "grow", "advance"}
  BY <1>1
<1>9. Sound'
  <2>1. used'[next_free'] => at' = "advance" /\ next_free' = block'
    BY <1>1, <1>6
  <2>2. req' \in Nat \cup {NoReq} /\ req' # 0
    BY <1>1, <1>2 DEF Sound
  <2> QED
    BY <2>1, <2>2, <1>5, <1>6, <1>7 DEF Sound
<1>10. torn' \in BOOLEAN
  BY <1>1 DEF RInv
<1> QED
  BY <1>8, <1>9, <1>10 DEF RInv

\* next_free moves on, if it still is the block taken.
LEMMA AdvanceStep ==
  ASSUME RInv, Advance
  PROVE  RInv'
<1>1. at = "advance" /\ at' = "out" /\ ~torn /\ torn' = torn /\ UNCHANGED <<req, foreign, crossed>>
  BY DEF Advance, Step
<1>2. Sound
  BY <1>1 DEF RInv
<1>3. /\ block \in blocks /\ used[block] /\ Shape /\ NextFreeLow
      /\ blocks \subseteq Nat /\ used \in [blocks -> BOOLEAN] /\ curr_brk \in Nat
  BY <1>1, <1>2 DEF Sound, BlockKnown, Shape, Addr
<1>4. Shape' /\ NextFreeLow' /\ ~used'[next_free']
  <2>1. CASE next_free # block /\ UNCHANGED <<hvars, curr_brk>>
    <3>1. /\ UNCHANGED <<blocks, next, prev, used, size, next_free, curr_brk>>
      BY <2>1 DEF hvars
    <3>2. ~used[next_free]
      BY <1>2, <2>1 DEF Sound
    <3> QED
      BY <1>1, <1>3, <3>1, <3>2
         DEF Shape, Linked, Ordered, Disjoint, End, ForeignBelow, ForeignApart, NextFreeLow
  <2>2. ASSUME next_free = block,
               NEW f \in blocks, f > block, ~used[f],
               \A b \in blocks : b > block /\ ~used[b] => f <= b,
               next_free' = f,
               UNCHANGED <<blocks, next, prev, used, size, curr_brk>>
        PROVE  Shape' /\ NextFreeLow' /\ ~used'[next_free']
    <3>1. ASSUME NEW b \in blocks, ~used[b] PROVE f <= b
      <4>1. block <= b /\ b # block
        BY <1>3, <2>2, <3>1 DEF NextFreeLow
      <4> QED
        BY <1>3, <2>2, <3>1, <4>1
    <3> QED
      BY <1>1, <1>3, <2>2, <3>1
         DEF Shape, Linked, Ordered, Disjoint, End, ForeignBelow, ForeignApart, NextFreeLow
  <2>3. ASSUME next_free = block, \A b \in blocks : b > block => used[b],
               NEW last \in blocks, next[last] = NULL, Expanded(last, 1, used),
               next_free' = curr_brk
        PROVE  Shape' /\ NextFreeLow' /\ ~used'[next_free']
    <3>1. /\ blocks' = blocks \cup {curr_brk}
          /\ \A b \in blocks : used'[b] = used[b]
          /\ ~used'[curr_brk]
          /\ Shape'
      BY <1>1, <1>3, <2>3, ExpandedKeeps
    <3>2. \A b \in blocks : used[b]
      BY <1>3, <2>3 DEF NextFreeLow
    <3> QED
      BY <1>3, <2>3, <3>1, <3>2 DEF NextFreeLow
  <2> QED
    BY <2>1, <2>2, <2>3 DEF Advance
<1>5. BlockKnown'
  BY <1>1 DEF BlockKnown
<1>8. at' \in {"out", "test", "take", "move", "grow", "advance"}
  BY <1>1
<1>9. Sound'
  <2>1. used'[next_free'] => at' = "advance" /\ next_free' = block'
    BY <1>4
  <2>2. req' \in Nat \cup {NoReq} /\ req' # 0
    BY <1>1, <1>2 DEF Sound
  <2> QED
    BY <2>1, <2>2, <1>4, <1>5 DEF Sound
<1>10. torn' \in BOOLEAN
  BY <1>1 DEF RInv
<1> QED
  BY <1>8, <1>9, <1>10 DEF RInv

----------------------------------------------------------------------------
(* The theorems                                                            *)

\* Every step of the interrupted call and of the others keeps the invariant.
LEMMA RaceStep == NoEmptyRequest /\ RInv /\ [RaceNext]_raceVars => RInv'
<1> SUFFICES ASSUME NoEmptyRequest, RInv, [RaceNext]_raceVars PROVE RInv'
  OBVIOUS
<1>1. CASE UNCHANGED raceVars
  <2>1. /\ UNCHANGED <<blocks, next, prev, used, size, next_free, curr_brk, req, foreign, crossed>>
        /\ UNCHANGED <<at, block, want, torn>>
    BY <1>1 DEF raceVars, vars, walk
  <2>2. Sound => Shape' /\ NextFreeLow' /\ BlockKnown'
    BY <2>1 DEF Sound, Shape, Linked, Ordered, Disjoint, End, ForeignBelow, ForeignApart,
                NextFreeLow, BlockKnown
  <2> QED
    BY <2>1, <2>2 DEF RInv, Sound
<1> QED
  BY <1>1, EnterStep, WalkStep, GrowStep, TakeStep, AdvanceStep, OthersStep DEF RaceNext

\* It holds at the start.
LEMMA RaceInitStep == RaceInit => RInv
<1> SUFFICES ASSUME RaceInit PROVE RInv
  OBVIOUS
<1>1. Shape /\ NextFreeLow /\ ~used[next_free]
  BY InitIInv, IInvIs DEF RaceInit
<1>2. req = NoReq /\ at = "out" /\ torn = FALSE
  BY DEF RaceInit, Init
<1>3. BlockKnown
  BY <1>2 DEF BlockKnown
<1>4. Sound
  BY <1>1, <1>2, <1>3 DEF Sound, NoReq
<1>5. at \in {"out", "test", "take", "move", "grow", "advance"} /\ torn \in BOOLEAN
  BY <1>2
<1> QED
  BY <1>4, <1>5 DEF RInv

\* Wherever between the steps of HeapRace interrupts stop kmalloc, and whatever
\* whole calls come in between: until one of those spoils the interrupted one, the list is in shape and
\* the interrupted call knows what it needs of its block.
THEOREM RaceInvariant == NoEmptyRequest /\ RaceSpec => []RInv
<1>1. ASSUME NoEmptyRequest PROVE RaceSpec => []RInv
  <2>1. RInv /\ [RaceNext]_raceVars => RInv'
    BY <1>1, RaceStep
  <2> QED
    BY <2>1, RaceInitStep, PTL DEF RaceSpec
<1> QED
  BY <1>1

\* Whole calls between the turns of kmalloc's search, and between its search, its
\* split and its walk to the next free block, leave the list linked, no byte with
\* two owners, and next_free the first free block again when it is done, as long
\* as torn is FALSE.  Nothing is said of an interrupt inside the split or the
\* walk, nor of what follows a call that spoils the interrupted one.
THEOREM SoundBetweenSteps == NoEmptyRequest /\ RaceSpec => []RaceSound
<1>1. RInv => RaceSound
  BY DEF RInv, Sound, Shape, NextFreeLow, NextFreeFirst, RaceSound
<1> QED
  BY <1>1, RaceInvariant, PTL

============================================================================
