---------------------------- MODULE LibraryProofs ----------------------------
EXTENDS Library, SequenceTheorems, FiniteSetTheorems, WellFoundedInduction, TLAPS

(***************************************************************************)
(* Proofs about Library.                                                   *)
(*                                                                         *)
(* The list: its pointers are described by one sequence of nodes,          *)
(* Chain(w); every operation of kernel/ds/list.c is shown to make a chain  *)
(* of the next state, and the walk of a chain to be the chain.  From that  *)
(* follow WellLinked and the refinement of SeqList.                        *)
(*                                                                         *)
(* The terminal: every character put on the screen and on paper keeps the  *)
(* screen equal to the bottom of the paper.                                *)
(*                                                                         *)
(* Paths: the walk from the end of a path and the walk from its start are  *)
(* compared at the point to which each has come.                           *)
(*                                                                         *)
(* The file: the pieces of every range are worked out, and the bytes of    *)
(* the one block are shown to be those last written.                       *)
(*                                                                         *)
(* The log: what each call of _vsnprintf leaves in the message's buffer,   *)
(* which outputs have a place in the table, and which of them are met.     *)
(*                                                                         *)
(* Archives: where an image has each header and each byte of data, and     *)
(* what a read of any range of it copies, block by block.                  *)
(*                                                                         *)
(* The clock: the days before a year and before a month in closed form,    *)
(* what each register is taken for, and then the difference field by       *)
(* field.                                                                  *)
(***************************************************************************)

Going    == INSTANCE Folding WITH Op <- Gone
Skipping == INSTANCE Folding WITH Op <- LAMBDA done, dir : Moved(dir, done)
Papering == INSTANCE Folding WITH Op <- OnPaper
Texting  == INSTANCE Folding WITH Op <- Texted
Printing == INSTANCE Folding WITH Op <- Printed
Handing  == INSTANCE Folding WITH Op <- Handed
Flat     == INSTANCE Folding WITH Op <- LAMBDA s, t : s \o t
Adding   == INSTANCE Folding WITH Op <- LAMBDA n, x : n + x

----------------------------------------------------------------------------
(* The list                                                                *)

(* The inductive invariant                                                 *)

\* The walk from head along next meets w, and the walk from tail along prev
\* meets it backwards; its nodes are those in use that are not lost.
Chain(w) ==
  /\ \A i, j \in 1..Len(w) : w[i] = w[j] => i = j
  /\ head = IF Len(w) = 0 THEN NULL ELSE w[1]
  /\ tail = IF Len(w) = 0 THEN NULL ELSE w[Len(w)]
  /\ \A i \in 1..Len(w) : next[w[i]] = IF i = Len(w) THEN NULL ELSE w[i + 1]
  /\ \A i \in 1..Len(w) : prev[w[i]] = IF i = 1 THEN NULL ELSE w[i - 1]
  /\ \A i \in 1..Len(w) : value[w[i]] \in Items
  /\ \A n \in Nodes : n \in used <=> n \in lost \/ \E i \in 1..Len(w) : w[i] = n
  /\ \A i \in 1..Len(w) : w[i] \notin lost

LinkTypes ==
  /\ made \in BOOLEAN
  /\ next \in [Nodes -> Nodes \cup {NULL}]
  /\ prev \in [Nodes -> Nodes \cup {NULL}]
  /\ value \in [Nodes -> Items \cup {NULL}]
  /\ used \subseteq Nodes /\ lost \subseteq Nodes

IInv == LinkTypes /\ Walk \in Seq(Nodes) /\ Chain(Walk) /\ (~made => Len(Walk) = 0)

----------------------------------------------------------------------------
(* The walk                                                                *)

\* What list_at gives for a chain.
LEMMA NthIs ==
  ASSUME NEW w \in Seq(Nodes), Chain(w)
  PROVE  \A i \in 0..Cardinality(Nodes) : Nth[i] = IF i < Len(w) THEN w[i + 1] ELSE NULL
<1> DEFINE N == Cardinality(Nodes)
           Step(f) == [i \in 0..N |-> IF i = 0 THEN head
                                      ELSE IF f[i - 1] = NULL THEN NULL ELSE next[f[i - 1]]]
           g == [i \in 0..N |-> IF i < Len(w) THEN w[i + 1] ELSE NULL]
<1>1. N \in Nat /\ Len(w) \in Nat /\ NULL \notin Nodes /\ \A i \in 1..Len(w) : w[i] \in Nodes
  BY LinkedListAssumption, FS_CardinalityType, ElementOfSeq, LenProperties DEF LinkedListAssumption
<1>2. g = Step(g)
  <2> SUFFICES ASSUME NEW i \in 0..N PROVE g[i] = Step(g)[i]
    OBVIOUS
  <2>1. CASE i = 0
    <3>1. 0 \in 0..N /\ (0 < Len(w) <=> Len(w) # 0) /\ 0 + 1 = 1
      BY <1>1
    <3> QED
      BY <2>1, <3>1 DEF Chain
  <2>2. CASE i # 0
    <3>1. i - 1 \in 0..N /\ (i - 1) + 1 = i
      BY <1>1, <2>2
    <3>2. CASE i - 1 < Len(w)
      <4>1. i \in 1..Len(w) /\ (i = Len(w) <=> ~(i < Len(w)))
        BY <1>1, <2>2, <3>2
      <4>2. g[i - 1] = w[i] /\ w[i] # NULL
        BY <1>1, <3>1, <3>2, <4>1
      <4> QED
        BY <2>2, <4>1, <4>2 DEF Chain
    <3>3. CASE ~(i - 1 < Len(w))
      <4>1. ~(i < Len(w))
        BY <1>1, <3>3
      <4> QED
        BY <2>2, <3>1, <3>3, <4>1
    <3> QED
      BY <3>2, <3>3
  <2> QED
    BY <2>1, <2>2
<1>3. Nth = CHOOSE f : f = Step(f)
  BY SMTT(40) DEF Nth
<1>4. Nth = Step(Nth)
  BY ZenonT(40), <1>2, <1>3
<1> HIDE DEF g
<1>5. \A i \in 0..N : Nth[i] = g[i]
  <2> DEFINE A == {i \in 0..N : Nth[i] = g[i]}
  <2>1. 0 \in A
    BY <1>1, <1>2, <1>4
  <2>2. ASSUME NEW i \in 1..N, i - 1 \in A PROVE i \in A
    BY <1>1, <1>2, <1>4, <2>2
  <2> HIDE DEF A
  <2>3. 0..N \subseteq A
    BY <1>1, <2>1, <2>2, Going!UpTo
  <2> QED
    BY <2>3 DEF A
<1> QED
  BY <1>5 DEF g

\* The walk of a chain is the chain.
LEMMA WalkIs ==
  \A w \in Seq(Nodes) :
    Chain(w) => /\ Walk = w
                /\ Nth[Cardinality(Nodes)] = NULL
                /\ \A n : n \in OnList <=> \E i \in 1..Len(w) : w[i] = n
<1> SUFFICES ASSUME NEW w \in Seq(Nodes), Chain(w)
             PROVE  /\ Walk = w
                    /\ Nth[Cardinality(Nodes)] = NULL
                    /\ \A n : n \in OnList <=> \E i \in 1..Len(w) : w[i] = n
  OBVIOUS
<1> DEFINE N == Cardinality(Nodes)
           L == Len(w)
<1>1. N \in Nat /\ L \in Nat /\ NULL \notin Nodes /\ \A i \in 1..L : w[i] \in Nodes
  BY LinkedListAssumption, FS_CardinalityType, ElementOfSeq, LenProperties DEF LinkedListAssumption
<1>2. L <= N
  <2>1. w \in Injection(1..L, Nodes)
    <3>1. w \in [1..L -> Nodes]
      BY <1>1, LenProperties, SeqDef
    <3> QED
      BY <3>1 DEF Injection, IsInjective, Chain
  <2>2. Cardinality(1..L) = L
    <3>1. 1 \in Int /\ L \in Int /\ (IF 1 > L THEN 0 ELSE L - 1 + 1) = L
      BY <1>1
    <3> HIDE DEF L
    <3> QED
      BY <3>1, FS_Interval
  <2> QED
    BY SMTT(40), <2>1, <2>2, FS_Injection, LinkedListAssumption DEF LinkedListAssumption
<1>3. \A i \in 0..N : Nth[i] = IF i < L THEN w[i + 1] ELSE NULL
  BY NthIs
<1>4. Walked = 0..(L - 1)
  <2>1. \A i : i \in Walked <=> i \in 0..N /\ i < L
    <3>1. \A i \in 0..N : i < L => i + 1 \in 1..L
      BY <1>1
    <3> QED
      BY <1>1, <1>3, <3>1 DEF Walked
  <2>2. \A i : i \in 0..(L - 1) <=> i \in 0..N /\ i < L
    BY <1>1, <1>2
  <2> QED
    BY <2>1, <2>2
<1>5. Cardinality(Walked) = L
  <2>1. Cardinality(0..(L - 1)) = L
    <3>1. /\ 0 \in Int /\ L - 1 \in Int
          /\ IF 0 > L - 1 THEN L = 0 ELSE L = (L - 1) - 0 + 1
      BY <1>1
    <3> QED
      BY <3>1, FS_Interval
  <2> QED
    BY <1>4, <2>1
<1>6. \A i \in 1..L : i - 1 \in 0..N /\ i - 1 < L /\ (i - 1) + 1 = i
  BY <1>1, <1>2
<1>7. Walk = [i \in 1..L |-> w[i]]
  BY <1>3, <1>5, <1>6 DEF Walk
<1>8. w = [i \in 1..L |-> w[i]]
  BY LenProperties, SeqDef
<1>9. N \in 0..N /\ ~(N < L)
  BY <1>1, <1>2
<1>10. \A n : n \in OnList <=> \E i \in 1..L : w[i] = n
  <2>1. ASSUME NEW n, n \in OnList PROVE \E i \in 1..L : w[i] = n
    <3>1. PICK i \in 0..(L - 1) : Nth[i] = n
      BY <1>4, <2>1 DEF OnList
    <3>2. i \in 0..N /\ i < L /\ i + 1 \in 1..L
      BY <1>1, <1>2
    <3> QED
      BY <1>3, <3>1, <3>2
  <2>2. ASSUME NEW i \in 1..L PROVE w[i] \in OnList
    <3>1. i - 1 \in 0..(L - 1)
      BY <1>1
    <3> QED
      BY <1>3, <1>4, <1>6, <3>1 DEF OnList
  <2> QED
    BY <2>1, <2>2
<1> QED
  BY <1>3, <1>7, <1>8, <1>9, <1>10

\* The same of the next state.
LEMMA WalkIsNext ==
  (\A w \in Seq(Nodes) :
     Chain(w) => /\ Walk = w
                 /\ Nth[Cardinality(Nodes)] = NULL
                 /\ \A n : n \in OnList <=> \E i \in 1..Len(w) : w[i] = n)'
BY WalkIs, PTL

\* It is enough to find the chain of the next state.
LEMMA NewWalk ==
  ASSUME NEW w \in Seq(Nodes), Chain(w)', LinkTypes', ~made' => Len(w) = 0
  PROVE  IInv' /\ Walk' = w
BY WalkIsNext DEF IInv

----------------------------------------------------------------------------
(* Sequences, element by element                                           *)

\* What list_append, list_remove and list_insert_before make of a sequence,
\* place by place.
LEMMA AppendIs ==
  ASSUME NEW V, NEW s \in Seq(V), NEW v \in V
  PROVE  Append(s, v) = [j \in 1..(Len(s) + 1) |-> IF j <= Len(s) THEN s[j] ELSE v]
<1> DEFINE r == Append(s, v)
           L == Len(s)
<1>1. /\ r \in Seq(V) /\ Len(r) = L + 1 /\ r[L + 1] = v /\ L \in Nat
      /\ \A j \in 1..L : r[j] = s[j]
  BY AppendProperties, LenProperties
<1>2. r = [j \in 1..(L + 1) |-> r[j]]
  BY <1>1, LenProperties, SeqDef
<1>3. \A j \in 1..(L + 1) : r[j] = IF j <= L THEN s[j] ELSE v
  <2>1. \A j \in 1..(L + 1) : IF j <= L THEN j \in 1..L ELSE j = L + 1
    BY <1>1
  <2> HIDE DEF r
  <2> QED
    BY <1>1, <2>1
<1> HIDE DEF r
<1>4. r = [j \in 1..(L + 1) |-> IF j <= L THEN s[j] ELSE v]
  BY <1>2, <1>3
<1> QED
  BY <1>4 DEF r

\* A place taken out: what lies behind it moves up.
LEMMA WithoutIs ==
  ASSUME NEW V, NEW s \in Seq(V), NEW k \in 1..Len(s)
  PROVE  Without(s, k) = [j \in 1..(Len(s) - 1) |-> IF j < k THEN s[j] ELSE s[j + 1]]
<1> DEFINE a == SubSeq(s, 1, k - 1)
           b == SubSeq(s, k + 1, Len(s))
           r == a \o b
           L == Len(s)
<1>1. L \in Nat /\ k \in Nat /\ 1 <= k /\ k <= L
  BY LenProperties
<1>2. a \in Seq(V) /\ Len(a) = k - 1 /\ \A j \in 1..(k - 1) : a[j] = s[j]
  <2>1. /\ 1 \in Nat /\ k - 1 \in Nat /\ 1 <= (k - 1) + 1 /\ (k - 1) - 1 + 1 = k - 1
        /\ \A j \in 1..(k - 1) : 1 + j - 1 = j /\ j \in 1..L
    BY <1>1
  <2> QED
    BY <1>1, <2>1, SubSeqProperties
<1>3. b \in Seq(V) /\ Len(b) = L - k /\ \A j \in 1..(L - k) : b[j] = s[k + j]
  <2> DEFINE k1 == k + 1
             n == (L - k1) + 1
  <2>1. k1 \in Nat /\ L \in Nat /\ k1 <= L + 1 /\ \A i \in k1..L : i \in 1..L
    BY <1>1
  <2>2. n = L - k /\ (k1 <= L + 1 \/ L = 0)
    BY <1>1
  <2> HIDE DEF k1
  <2>3. b \in Seq(V) /\ Len(b) = n /\ \A j \in 1..n : b[j] = s[k1 + j - 1]
    BY <2>1, SubSeqProperties DEF k1
  <2>4. \A j \in 1..(L - k) : k1 + j - 1 = k + j
    BY <1>1 DEF k1
  <2> HIDE DEF b
  <2> QED
    BY <2>2, <2>3, <2>4
<1> HIDE DEF a, b
<1>4. /\ r \in Seq(V) /\ Len(r) = L - 1
      /\ \A j \in 1..(L - 1) : r[j] = IF j <= k - 1 THEN a[j] ELSE b[j - (k - 1)]
  <2>1. /\ r \in Seq(V) /\ Len(r) = Len(a) + Len(b)
        /\ \A j \in 1..Len(r) : r[j] = IF j <= Len(a) THEN a[j] ELSE b[j - Len(a)]
    <3>1. a \in Seq(V) /\ b \in Seq(V)
      BY <1>2, <1>3
    <3> QED
      BY <3>1, ConcatProperties
  <2>2. Len(a) + Len(b) = L - 1
    BY <1>1, <1>2, <1>3
  <2> HIDE DEF r
  <2> QED
    BY <1>2, <2>1, <2>2
<1>5. \A j \in 1..(L - 1) : r[j] = IF j < k THEN s[j] ELSE s[j + 1]
  <2> HIDE DEF r
  <2> SUFFICES ASSUME NEW j \in 1..(L - 1) PROVE r[j] = IF j < k THEN s[j] ELSE s[j + 1]
    OBVIOUS
  <2>1. CASE j < k
    <3>1. j <= k - 1 /\ j \in 1..(k - 1)
      BY <1>1, <2>1
    <3> QED
      BY <1>2, <1>4, <2>1, <3>1
  <2>2. CASE ~(j < k)
    <3>1. ~(j <= k - 1) /\ j - (k - 1) \in 1..(L - k) /\ k + (j - (k - 1)) = j + 1
      BY <1>1, <2>2
    <3> QED
      BY <1>3, <1>4, <2>2, <3>1
  <2> QED
    BY <2>1, <2>2
<1>6. r = [j \in 1..(L - 1) |-> r[j]]
  BY <1>4, LenProperties, SeqDef
<1>7. r = [j \in 1..(L - 1) |-> IF j < k THEN s[j] ELSE s[j + 1]]
  <2> HIDE DEF r
  <2> QED
    BY <1>5, <1>6
<1> QED
  BY <1>7 DEF a, b, Without

\* s with v in the place k.
With(s, k, v) ==
  [j \in 1..(Len(s) + 1) |-> IF j < k THEN s[j] ELSE IF j = k THEN v ELSE s[j - 1]]

\* A place put in: what lies behind it moves down.
LEMMA InsertedIs ==
  ASSUME NEW V, NEW s \in Seq(V), NEW v \in V, NEW k \in 1..(Len(s) + 1), ~NodeLost(s, k)
  PROVE  InsertedBefore(s, k, v) = With(s, k, v)
<1> DEFINE a == SubSeq(s, 1, k - 1)
           b == SubSeq(s, k, Len(s))
           m == a \o <<v>>
           r == m \o b
           L == Len(s)
<1>1. L \in Nat /\ k \in Nat /\ 1 <= k /\ k <= L + 1
  BY LenProperties
<1>2. a \in Seq(V) /\ Len(a) = k - 1 /\ \A j \in 1..(k - 1) : a[j] = s[j]
  <2>1. /\ 1 \in Nat /\ k - 1 \in Nat /\ 1 <= (k - 1) + 1 /\ (k - 1) - 1 + 1 = k - 1
        /\ \A j \in 1..(k - 1) : 1 + j - 1 = j /\ j \in 1..L
    BY <1>1
  <2> QED
    BY <1>1, <2>1, SubSeqProperties
<1>3. b \in Seq(V) /\ Len(b) = L - k + 1 /\ \A j \in 1..(L - k + 1) : b[j] = s[k + j - 1]
  <2>1. /\ k \in Nat /\ k <= L + 1
        /\ \A j \in 1..(L - k + 1) : k + j - 1 \in 1..L
    BY <1>1
  <2> QED
    BY <1>1, <2>1, SubSeqProperties
<1>4. /\ m \in Seq(V) /\ Len(m) = k /\ m[k] = v
      /\ \A j \in 1..(k - 1) : m[j] = s[j]
  <2>1. <<v>> \in Seq(V) /\ Len(<<v>>) = 1 /\ <<v>>[1] = v
    OBVIOUS
  <2> HIDE DEF a
  <2>2. /\ m \in Seq(V) /\ Len(m) = Len(a) + 1
        /\ \A j \in 1..Len(m) : m[j] = IF j <= Len(a) THEN a[j] ELSE <<v>>[j - Len(a)]
    BY <1>2, <2>1, ConcatProperties
  <2>3. k \in 1..Len(m) /\ ~(k <= Len(a)) /\ k - Len(a) = 1 /\ Len(a) + 1 = k
    BY <1>1, <1>2, <2>2
  <2>4. \A j \in 1..(k - 1) : j \in 1..Len(m) /\ j <= Len(a)
    BY <1>1, <1>2, <2>2
  <2> HIDE DEF m
  <2> QED
    BY <1>2, <2>1, <2>2, <2>3, <2>4
<1> HIDE DEF m, b
<1>5. /\ r \in Seq(V) /\ Len(r) = L + 1
      /\ \A j \in 1..(L + 1) : r[j] = IF j <= k THEN m[j] ELSE b[j - k]
  BY <1>1, <1>3, <1>4, ConcatProperties
<1>6. \A j \in 1..(L + 1) : r[j] = IF j < k THEN s[j] ELSE IF j = k THEN v ELSE s[j - 1]
  <2> HIDE DEF r
  <2> SUFFICES ASSUME NEW j \in 1..(L + 1)
               PROVE  r[j] = IF j < k THEN s[j] ELSE IF j = k THEN v ELSE s[j - 1]
    OBVIOUS
  <2>1. CASE j <= k
    <3>1. j = k \/ (j < k /\ j \in 1..(k - 1))
      BY <1>1, <2>1
    <3> QED
      BY <1>1, <1>4, <1>5, <2>1, <3>1
  <2>2. CASE ~(j <= k)
    <3>1. ~(j < k) /\ j # k /\ j - k \in 1..(L - k + 1) /\ k + (j - k) - 1 = j - 1
      BY <1>1, <2>2
    <3> QED
      BY <1>3, <1>5, <2>2, <3>1
  <2> QED
    BY <2>1, <2>2
<1>7. r = [j \in 1..(L + 1) |-> r[j]]
  BY <1>5, LenProperties, SeqDef
<1>8. r = With(s, k, v)
  <2> HIDE DEF r
  <2> QED
    BY <1>6, <1>7 DEF With
<1> QED
  BY <1>8 DEF a, b, m, InsertedBefore

----------------------------------------------------------------------------
(* The operations and the chain                                            *)

\* What a chain says of its nodes, in the form the steps use.
LEMMA ChainFacts ==
  ASSUME LinkTypes, NEW w \in Seq(Nodes), Chain(w)
  PROVE  /\ Len(w) \in Nat
         /\ \A i \in 1..Len(w) : w[i] \in Nodes /\ w[i] # NULL /\ w[i] \in used
         /\ NULL \notin Nodes /\ NULL \notin Items
         /\ head = NULL <=> Len(w) = 0
         /\ tail = NULL <=> Len(w) = 0
         /\ \A i \in 1..Len(w) : w[i] = head <=> i = 1
         /\ \A i \in 1..Len(w) : w[i] = tail <=> i = Len(w)
<1>1. Len(w) \in Nat /\ \A i \in 1..Len(w) : w[i] \in Nodes
  BY LenProperties, ElementOfSeq
<1>2. NULL \notin Nodes /\ NULL \notin Items
  BY LinkedListAssumption DEF LinkedListAssumption
<1>3. \A i \in 1..Len(w) : w[i] \in used
  BY <1>1 DEF Chain
<1>4. Len(w) # 0 => 1 \in 1..Len(w) /\ Len(w) \in 1..Len(w)
  BY <1>1
<1>5. \A i \in 1..Len(w) : Len(w) # 0
  BY <1>1
<1>6. (head = NULL <=> Len(w) = 0) /\ (tail = NULL <=> Len(w) = 0)
  BY <1>1, <1>2, <1>4 DEF Chain
<1>7. ASSUME NEW i \in 1..Len(w)
      PROVE  (w[i] = head <=> i = 1) /\ (w[i] = tail <=> i = Len(w))
  <2>1. head = w[1] /\ tail = w[Len(w)]
    BY <1>5 DEF Chain
  <2> QED
    BY <1>4, <1>5, <2>1 DEF Chain
<1> QED
  BY <1>1, <1>2, <1>3, <1>6, <1>7

\* A chain of the next state from its parts.
LEMMA ChainNext ==
  ASSUME NEW u, NEW M, Len(u) = M,
         \A i, j \in 1..M : u[i] = u[j] => i = j,
         head' = IF M = 0 THEN NULL ELSE u[1],
         tail' = IF M = 0 THEN NULL ELSE u[M],
         \A i \in 1..M : /\ next'[u[i]] = IF i = M THEN NULL ELSE u[i + 1]
                         /\ prev'[u[i]] = IF i = 1 THEN NULL ELSE u[i - 1]
                         /\ value'[u[i]] \in Items
                         /\ u[i] \notin lost',
         \A m \in Nodes : m \in used' <=> m \in lost' \/ \E i \in 1..M : u[i] = m
  PROVE  Chain(u)'
BY DEF Chain

\* list_append.
LEMMA AppendChain ==
  ASSUME LinkTypes, NEW w \in Seq(Nodes), Chain(w),
         NEW n \in Nodes, NEW v \in Items, AppendNode(n, v),
         NEW u \in Seq(Nodes), Len(u) = Len(w) + 1,
         \A j \in 1..(Len(w) + 1) : u[j] = IF j <= Len(w) THEN w[j] ELSE n
  PROVE  LinkTypes' /\ Chain(u)'
<1> DEFINE L == Len(w)
<1>1. /\ L \in Nat /\ \A i \in 1..L : w[i] \in Nodes /\ w[i] # NULL /\ w[i] \in used
      /\ NULL \notin Nodes /\ NULL \notin Items
      /\ tail = NULL <=> L = 0
      /\ \A i \in 1..L : w[i] = tail <=> i = L
  BY ChainFacts
<1>2. n \notin used /\ (\A i \in 1..L : w[i] # n) /\ n \notin lost
  BY <1>1 DEF AppendNode, Chain
<1>3. Len(u) = L + 1
  OBVIOUS
<1>4. /\ u[L + 1] = n /\ \A j \in 1..L : u[j] = w[j]
      /\ \A j \in 1..(L + 1) : j \in 1..L \/ j = L + 1
  BY <1>1
<1>5. LinkTypes'
  <2>1. tail \in Nodes \cup {NULL}
    BY <1>1 DEF Chain
  <2> QED
    BY <2>1 DEF LinkTypes, AppendNode
<1> HIDE DEF L
<1>6. \A i, j \in 1..(L + 1) : u[i] = u[j] => i = j
  BY SMTT(40), <1>2, <1>4 DEF Chain, L
<1>7. head' = u[1] /\ tail' = u[L + 1] /\ L + 1 # 0
  <2>1. CASE L = 0
    BY <1>1, <1>4, <2>1 DEF AppendNode
  <2>2. CASE L # 0
    <3>1. 1 \in 1..L
      BY <1>1, <2>2
    <3> QED
      BY <1>1, <1>4, <2>2, <3>1 DEF AppendNode, Chain, L
  <2> QED
    BY <2>1, <2>2
<1>8. ASSUME NEW i \in 1..(L + 1)
      PROVE  /\ next'[u[i]] = IF i = L + 1 THEN NULL ELSE u[i + 1]
             /\ prev'[u[i]] = IF i = 1 THEN NULL ELSE u[i - 1]
             /\ value'[u[i]] \in Items
             /\ u[i] \notin lost'
  <2>1. CASE i = L + 1
    <3>1. next'[n] = NULL /\ prev'[n] = tail /\ value'[n] = v /\ n \notin lost'
      BY <1>2 DEF AppendNode, LinkTypes
    <3>2. tail = IF i = 1 THEN NULL ELSE u[i - 1]
      <4>1. i = 1 <=> L = 0
        BY <1>1, <2>1
      <4>2. L # 0 => L \in 1..L /\ i - 1 = L
        BY <1>1, <2>1
      <4> QED
        BY <1>4, <4>1, <4>2 DEF Chain, L
    <3> QED
      BY <1>4, <2>1, <3>1, <3>2
  <2>2. CASE i \in 1..L
    <3>1. /\ i # L + 1 /\ u[i] = w[i] /\ w[i] \in Nodes /\ w[i] # n
      BY <1>1, <1>2, <1>4, <2>2
    <3>2. next'[w[i]] = IF i = L THEN n ELSE next[w[i]]
      BY <1>1, <2>2, <3>1 DEF AppendNode, LinkTypes
    <3>3. prev'[w[i]] = prev[w[i]] /\ value'[w[i]] = value[w[i]]
      BY <3>1 DEF AppendNode, LinkTypes
    <3>4. next'[w[i]] = u[i + 1]
      <4>1. CASE i = L
        BY <1>4, <3>2, <4>1
      <4>2. CASE i # L
        <5>1. i + 1 \in 1..L
          BY <1>1, <2>2, <4>2
        <5> QED
          BY <1>4, <2>2, <3>2, <4>2, <5>1 DEF Chain, L
      <4> QED
        BY <4>1, <4>2
    <3>5. prev[w[i]] = IF i = 1 THEN NULL ELSE u[i - 1]
      <4>1. i # 1 => i - 1 \in 1..L
        BY <1>1, <2>2
      <4> QED
        BY <1>4, <2>2, <4>1 DEF Chain, L
    <3>6. value[w[i]] \in Items /\ w[i] \notin lost'
      BY <2>2 DEF Chain, AppendNode, L
    <3> QED
      BY <3>1, <3>3, <3>4, <3>5, <3>6
  <2> QED
    BY <1>4, <2>1, <2>2
<1>9. ASSUME NEW m \in Nodes
      PROVE  m \in used' <=> m \in lost' \/ \E i \in 1..(L + 1) : u[i] = m
  <2>1. m \in used' <=> m = n \/ m \in used
    BY DEF AppendNode
  <2>2. L + 1 \in 1..(L + 1) /\ \A i \in 1..L : i \in 1..(L + 1)
    BY <1>1
  <2>3. (\E i \in 1..(L + 1) : u[i] = m) <=> m = n \/ \E i \in 1..L : w[i] = m
    BY <1>4, <2>2
  <2> QED
    BY <2>1, <2>3 DEF AppendNode, Chain, L
<1> DEFINE M == L + 1
<1>10. /\ Len(u) = M /\ \A i, j \in 1..M : u[i] = u[j] => i = j
       /\ head' = IF M = 0 THEN NULL ELSE u[1]
       /\ tail' = IF M = 0 THEN NULL ELSE u[M]
  BY <1>3, <1>6, <1>7
<1>11. /\ \A i \in 1..M : /\ next'[u[i]] = IF i = M THEN NULL ELSE u[i + 1]
                          /\ prev'[u[i]] = IF i = 1 THEN NULL ELSE u[i - 1]
                          /\ value'[u[i]] \in Items
                          /\ u[i] \notin lost'
       /\ \A m \in Nodes : m \in used' <=> m \in lost' \/ \E i \in 1..M : u[i] = m
  BY <1>8, <1>9
<1> HIDE DEF M
<1>12. Chain(u)'
  BY SMTT(40), <1>10, <1>11, ChainNext
<1> QED
  BY <1>5, <1>12

\* list_remove.
LEMMA RemoveChain ==
  ASSUME LinkTypes, NEW w \in Seq(Nodes), Chain(w),
         NEW k \in 1..Len(w), RemoveNode(w[k]),
         NEW u \in Seq(Nodes), Len(u) = Len(w) - 1,
         \A j \in 1..(Len(w) - 1) : u[j] = IF j < k THEN w[j] ELSE w[j + 1]
  PROVE  LinkTypes' /\ Chain(u)'
<1> DEFINE L == Len(w)
           M == L - 1
           n == w[k]
<1>1. /\ L \in Nat /\ \A i \in 1..L : w[i] \in Nodes /\ w[i] # NULL /\ w[i] \in used
      /\ NULL \notin Nodes /\ NULL \notin Items
      /\ \A i \in 1..L : w[i] = head <=> i = 1
      /\ \A i \in 1..L : w[i] = tail <=> i = L
  BY ChainFacts
<1>2. k \in 1..L /\ k \in Nat /\ M \in Nat /\ Len(u) = M
  BY <1>1
<1>3. \A j \in 1..M : u[j] = IF j < k THEN w[j] ELSE w[j + 1]
  OBVIOUS
<1>4. /\ n \in Nodes
      /\ next[n] = IF k = L THEN NULL ELSE w[k + 1]
      /\ prev[n] = IF k = 1 THEN NULL ELSE w[k - 1]
  BY <1>1, <1>2 DEF Chain
<1>5. LinkTypes'
  BY <1>4 DEF LinkTypes, RemoveNode
<1>6. \A i, j \in 1..L : w[i] = w[j] => i = j
  BY DEF Chain
<1>7. \A i \in 1..L : /\ next[w[i]] = IF i = L THEN NULL ELSE w[i + 1]
                      /\ prev[w[i]] = IF i = 1 THEN NULL ELSE w[i - 1]
                      /\ value[w[i]] \in Items
                      /\ w[i] \notin lost
  BY DEF Chain
<1>8. RemoveNode(n)
  OBVIOUS
<1> HIDE DEF L, M, n
<1>9. (k # 1 => k - 1 \in 1..L) /\ (k # L => k + 1 \in 1..L)
  BY <1>1, <1>2
<1>10. ASSUME NEW i \in 1..L, i # k
       PROVE  /\ next'[w[i]] = IF i = k - 1 THEN next[n] ELSE next[w[i]]
              /\ prev'[w[i]] = IF i = k + 1 THEN prev[n] ELSE prev[w[i]]
              /\ value'[w[i]] = value[w[i]]
              /\ w[i] # n
  <2>1. w[i] # n /\ w[i] \in Nodes /\ w[i] # NULL
    BY <1>1, <1>2, <1>6, <1>10 DEF n
  <2>2. w[i] = prev[n] <=> i = k - 1
    <3>1. CASE k = 1
      BY <1>1, <1>4, <2>1, <3>1
    <3>2. CASE k # 1
      BY <1>4, <1>6, <1>9, <3>2
    <3> QED
      BY <3>1, <3>2
  <2>3. w[i] = next[n] <=> i = k + 1
    <3>1. CASE k = L
      BY <1>1, <1>4, <2>1, <3>1
    <3>2. CASE k # L
      BY <1>4, <1>6, <1>9, <3>2
    <3> QED
      BY <3>1, <3>2
  <2> QED
    BY <1>8, <2>1, <2>2, <2>3 DEF RemoveNode, LinkTypes
<1>11. \A i, j \in 1..M : u[i] = u[j] => i = j
  <2> SUFFICES ASSUME NEW i \in 1..M, NEW j \in 1..M, u[i] = u[j] PROVE i = j
    OBVIOUS
  <2>1. i \in 1..L /\ i + 1 \in 1..L /\ j \in 1..L /\ j + 1 \in 1..L
    BY <1>1 DEF M
  <2>2. (i < k => u[i] = w[i]) /\ (~(i < k) => u[i] = w[i + 1])
    BY <1>3
  <2>3. (j < k => u[j] = w[j]) /\ (~(j < k) => u[j] = w[j + 1])
    BY <1>3
  <2>4. (IF i < k THEN i ELSE i + 1) = (IF j < k THEN j ELSE j + 1)
    BY <1>6, <2>1, <2>2, <2>3
  <2> QED
    BY <1>2, <2>1, <2>4
<1>12. head' = IF M = 0 THEN NULL ELSE u[1]
  <2>1. head' = IF k = 1 THEN next[n] ELSE head
    BY <1>1, <1>2, <1>8 DEF RemoveNode, n
  <2>2. CASE k = 1
    <3>1. M = 0 <=> k = L
      BY <1>1, <2>2 DEF M
    <3>2. M # 0 => 1 \in 1..M /\ ~(1 < k) /\ k + 1 = 1 + 1
      BY <1>2, <2>2
    <3> QED
      BY <1>3, <1>4, <2>1, <2>2, <3>1, <3>2
  <2>3. CASE k # 1
    <3>1. M # 0 /\ 1 \in 1..M /\ 1 < k /\ 1 \in 1..L
      BY <1>1, <1>2, <2>3 DEF M
    <3> QED
      BY <1>1, <1>3, <2>1, <2>3, <3>1
  <2> QED
    BY <2>2, <2>3
<1>13. tail' = IF M = 0 THEN NULL ELSE u[M]
  <2>1. tail' = IF k = L THEN prev[n] ELSE tail
    BY <1>1, <1>2, <1>8 DEF RemoveNode, n
  <2>2. CASE k = L
    <3>1. M = 0 <=> k = 1
      BY <1>1, <2>2 DEF M
    <3>2. M # 0 => M \in 1..M /\ M < k /\ k - 1 = M
      BY <1>1, <1>2, <2>2 DEF M
    <3> QED
      BY <1>3, <1>4, <2>1, <2>2, <3>1, <3>2
  <2>3. CASE k # L
    <3>1. M # 0 /\ M \in 1..M /\ ~(M < k) /\ M + 1 = L /\ L \in 1..L
      BY <1>1, <1>2, <2>3 DEF M
    <3>2. u[M] = w[L]
      BY <1>3, <3>1
    <3> QED
      BY <1>1, <2>1, <2>3, <3>1, <3>2
  <2> QED
    BY <2>2, <2>3
<1>14. ASSUME NEW j \in 1..M
       PROVE  /\ next'[u[j]] = IF j = M THEN NULL ELSE u[j + 1]
              /\ prev'[u[j]] = IF j = 1 THEN NULL ELSE u[j - 1]
              /\ value'[u[j]] \in Items
              /\ u[j] \notin lost'
  <2>1. (j # M => j + 1 \in 1..M) /\ (j # 1 => j - 1 \in 1..M) /\ M + 1 = L /\ j \in Int
    BY <1>1, <1>2 DEF M
  <2>2. CASE j < k
    <3>1. j \in 1..L /\ j # k /\ u[j] = w[j] /\ j # k + 1 /\ j # L
      BY <1>1, <1>2, <1>3, <2>1, <2>2
    <3>2. CASE j = k - 1
      <4>1. next'[w[j]] = IF k = L THEN NULL ELSE w[k + 1]
        BY <1>4, <1>10, <3>1, <3>2
      <4>2. (k = L <=> j = M) /\ j + 1 = k /\ ~(j + 1 < k)
        BY <1>1, <1>2, <2>1, <3>2
      <4>3. j # M => u[j + 1] = w[k + 1]
        BY <1>3, <2>1, <4>2
      <4> QED
        <5>1. next'[u[j]] = IF j = M THEN NULL ELSE u[j + 1]
          BY <3>1, <4>1, <4>2, <4>3
        <5>2. j # 1 => u[j - 1] = w[j - 1]
          BY <1>2, <1>3, <2>1, <2>2
        <5>3. prev'[u[j]] = IF j = 1 THEN NULL ELSE u[j - 1]
          BY <1>7, <1>10, <3>1, <5>2
        <5> QED
          BY ZenonT(40), <1>7, <1>8, <1>10, <3>1, <5>1, <5>3 DEF RemoveNode
    <3>3. CASE j # k - 1
      <4>1. j + 1 < k /\ j # M
        BY <1>1, <1>2, <2>1, <2>2, <3>3
      <4>2. next'[w[j]] = w[j + 1] /\ u[j + 1] = w[j + 1]
        BY <1>3, <1>7, <1>10, <2>1, <3>1, <3>3, <4>1
      <4>3. j # 1 => u[j - 1] = w[j - 1]
        BY <1>2, <1>3, <2>1, <2>2
      <4>4. prev'[w[j]] = IF j = 1 THEN NULL ELSE u[j - 1]
        BY <1>7, <1>10, <3>1, <4>3
      <4> QED
        BY ZenonT(40), <1>7, <1>8, <1>10, <3>1, <4>1, <4>2, <4>4 DEF RemoveNode
    <3> QED
      BY <3>2, <3>3
  <2>3. CASE ~(j < k)
    <3> DEFINE i == j + 1
    <3>1. i \in 1..L /\ i # k /\ u[j] = w[i] /\ i # k - 1 /\ i # 1
      BY <1>1, <1>2, <1>3, <2>1, <2>3
    <3>2. next'[w[i]] = IF j = M THEN NULL ELSE u[j + 1]
      <4>1. i = L <=> j = M
        BY <1>1, <1>2, <2>1
      <4>2. j # M => u[j + 1] = w[i + 1]
        BY <1>2, <1>3, <2>1, <2>3
      <4> QED
        BY ZenonT(40), <1>7, <1>10, <3>1, <4>1, <4>2
    <3>3. prev'[w[i]] = IF j = 1 THEN NULL ELSE u[j - 1]
      <4>1. CASE i = k + 1
        <5>1. j = k /\ (j # 1 => u[j - 1] = w[k - 1])
          BY <1>2, <1>3, <2>1, <4>1
        <5> QED
          BY <1>4, <1>10, <3>1, <4>1, <5>1
      <4>2. CASE i # k + 1
        <5>1. j # 1 /\ ~(j - 1 < k) /\ (j - 1) + 1 = i - 1 /\ j - 1 \in 1..M
          BY <1>2, <2>1, <2>3, <4>2
        <5>2. u[j - 1] = w[i - 1]
          BY <1>3, <5>1
        <5> QED
          BY ZenonT(40), <1>7, <1>10, <3>1, <4>2, <5>1, <5>2
      <4> QED
        BY <4>1, <4>2
    <3> HIDE DEF i
    <3> QED
      BY ZenonT(40), <1>7, <1>8, <1>10, <3>1, <3>2, <3>3 DEF RemoveNode
  <2> QED
    BY <2>2, <2>3
<1>15. ASSUME NEW m \in Nodes
       PROVE  m \in used' <=> m \in lost' \/ \E j \in 1..M : u[j] = m
  <2>1. (m \in used' <=> m \in used /\ m # n) /\ lost' = lost
    BY <1>8 DEF RemoveNode
  <2>2. m \in used <=> m \in lost \/ \E i \in 1..L : w[i] = m
    BY DEF Chain, L
  <2>3. n \notin lost
    BY <1>2, <1>7 DEF n
  <2>4. (\E j \in 1..M : u[j] = m) <=> (\E i \in 1..L : w[i] = m) /\ m # n
    <3>1. ASSUME NEW j \in 1..M, u[j] = m PROVE (\E i \in 1..L : w[i] = m) /\ m # n
      <4>1. j \in 1..L /\ j + 1 \in 1..L /\ (j < k => j # k) /\ (~(j < k) => j + 1 # k)
        BY <1>1, <1>2 DEF M
      <4> QED
        BY <1>3, <1>10, <3>1, <4>1
    <3>2. ASSUME NEW i \in 1..L, w[i] = m, m # n PROVE \E j \in 1..M : u[j] = m
      <4>1. i # k
        BY <3>2 DEF n
      <4>2. CASE i < k
        <5>1. i \in 1..M
          BY <1>1, <1>2, <4>2 DEF M
        <5> QED
          BY <1>3, <3>2, <4>2, <5>1
      <4>3. CASE ~(i < k)
        <5>1. i - 1 \in 1..M /\ ~(i - 1 < k) /\ (i - 1) + 1 = i
          BY <1>1, <1>2, <4>1, <4>3 DEF M
        <5>2. u[i - 1] = w[i]
          BY <1>3, <5>1
        <5> QED
          BY <3>2, <5>1, <5>2
      <4> QED
        BY <4>2, <4>3
    <3> QED
      BY <3>1, <3>2
  <2> QED
    BY <2>1, <2>2, <2>3, <2>4
<1>16. /\ \A j \in 1..M : /\ next'[u[j]] = IF j = M THEN NULL ELSE u[j + 1]
                          /\ prev'[u[j]] = IF j = 1 THEN NULL ELSE u[j - 1]
                          /\ value'[u[j]] \in Items
                          /\ u[j] \notin lost'
       /\ \A m \in Nodes : m \in used' <=> m \in lost' \/ \E j \in 1..M : u[j] = m
  BY <1>14, <1>15
<1>17. /\ Len(u) = M /\ \A i, j \in 1..M : u[i] = u[j] => i = j
       /\ head' = IF M = 0 THEN NULL ELSE u[1]
       /\ tail' = IF M = 0 THEN NULL ELSE u[M]
  BY <1>2, <1>11, <1>12, <1>13
<1>18. Chain(u)'
  BY <1>16, <1>17 DEF Chain
<1> QED
  BY <1>5, <1>18

\* list_insert_before: in front of the node k, or, where k is the end, into
\* an empty list.
\* u is w with n at k, as list_insert_before makes it.
HasNode(u, w, k, n) ==
  /\ u \in Seq(Nodes) /\ Len(u) = Len(w) + 1
  /\ \A j \in 1..(Len(w) + 1) : u[j] = IF j < k THEN w[j] ELSE IF j = k THEN n ELSE w[j - 1]

\* after is the node at k of w; behind its end only when it is empty.
IsAt(after, w, k) ==
  /\ k \in 1..(Len(w) + 1) /\ (k = Len(w) + 1 => Len(w) = 0)
  /\ k = Len(w) + 1 => after = NULL
  /\ k # Len(w) + 1 => after = w[k]

LEMMA InsertChain ==
  ASSUME LinkTypes, NEW w \in Seq(Nodes), Chain(w),
         NEW n \in Nodes, NEW v \in Items, NEW after, InsertNode(n, after, v),
         NEW k, IsAt(after, w, k), NEW u, HasNode(u, w, k, n)
  PROVE  LinkTypes' /\ Chain(u)'
<1> DEFINE L == Len(w)
           M == L + 1
<1>1. /\ L \in Nat /\ \A i \in 1..L : w[i] \in Nodes /\ w[i] # NULL /\ w[i] \in used
      /\ NULL \notin Nodes /\ NULL \notin Items
      /\ head = NULL <=> L = 0
      /\ tail = NULL <=> L = 0
      /\ \A i \in 1..L : w[i] = head <=> i = 1
      /\ \A i \in 1..L : w[i] = tail <=> i = L
  BY ChainFacts
<1>2. k \in 1..M /\ k \in Nat /\ M \in Nat /\ Len(u) = M /\ (k = M => L = 0)
  BY <1>1 DEF IsAt, HasNode
<1>3. \A j \in 1..M : u[j] = IF j < k THEN w[j] ELSE IF j = k THEN n ELSE w[j - 1]
  BY DEF HasNode
<1>4. \A i, j \in 1..L : w[i] = w[j] => i = j
  BY DEF Chain
<1>5. \A i \in 1..L : /\ next[w[i]] = IF i = L THEN NULL ELSE w[i + 1]
                      /\ prev[w[i]] = IF i = 1 THEN NULL ELSE w[i - 1]
                      /\ value[w[i]] \in Items
                      /\ w[i] \notin lost
  BY DEF Chain
<1>6. /\ head = IF L = 0 THEN NULL ELSE w[1]
      /\ tail = IF L = 0 THEN NULL ELSE w[L]
  BY DEF Chain
<1>7. after = IF k = M THEN NULL ELSE w[k]
  BY DEF IsAt
<1>8. n \notin used /\ n # NULL /\ (\A i \in 1..L : w[i] # n) /\ n \notin lost
  BY <1>1 DEF InsertNode, Chain
<1> HIDE DEF L, M
<1>9. /\ (k # M => k \in 1..L) /\ (k # 1 => k - 1 \in 1..L)
      /\ (k = M => k = 1)
  BY <1>1, <1>2 DEF M
<1>10. Before(after) = IF k = 1 THEN NULL ELSE w[k - 1]
  <2>1. CASE k = M
    BY <1>7, <1>9, <2>1 DEF Before
  <2>2. CASE k # M
    <3>1. after = w[k] /\ after # NULL
      BY <1>1, <1>7, <1>9, <2>2
    <3> QED
      BY <1>5, <1>9, <2>2, <3>1 DEF Before
  <2> QED
    BY <2>1, <2>2
<1>11. LinkTypes'
  <2>1. after \in Nodes \cup {NULL} /\ Before(after) \in Nodes \cup {NULL}
    BY <1>1, <1>7, <1>9, <1>10
  <2> QED
    BY <2>1 DEF LinkTypes, InsertNode
<1>12. lost' = lost
  <2>1. after = NULL => head = NULL
    BY <1>1, <1>2, <1>7, <1>9
  <2> QED
    BY <2>1 DEF InsertNode
<1>13. ASSUME NEW i \in 1..L
       PROVE  /\ next'[w[i]] = IF i = k - 1 THEN n ELSE next[w[i]]
              /\ prev'[w[i]] = IF i = k THEN n ELSE prev[w[i]]
              /\ value'[w[i]] = value[w[i]]
  <2>1. w[i] # n /\ w[i] \in Nodes /\ w[i] # NULL
    BY <1>1, <1>8
  <2>2. w[i] = Before(after) <=> i = k - 1
    <3>1. CASE k = 1
      BY <1>1, <1>10, <2>1, <3>1
    <3>2. CASE k # 1
      BY <1>4, <1>9, <1>10, <3>2
    <3> QED
      BY <3>1, <3>2
  <2>3. w[i] = after <=> i = k
    <3>1. CASE k = M
      <4>1. i # k
        BY <1>1, <3>1 DEF M
      <4> QED
        BY <1>7, <2>1, <3>1, <4>1
    <3>2. CASE k # M
      BY <1>4, <1>7, <1>9, <3>2
    <3> QED
      BY <3>1, <3>2
  <2> QED
    BY <2>1, <2>2, <2>3 DEF InsertNode, LinkTypes
<1>14. /\ next'[n] = after /\ prev'[n] = IF k = 1 THEN NULL ELSE w[k - 1]
       /\ value'[n] = v
  BY <1>10 DEF InsertNode, LinkTypes
<1>15. \A i, j \in 1..M : u[i] = u[j] => i = j
  <2> SUFFICES ASSUME NEW i \in 1..M, NEW j \in 1..M, u[i] = u[j] PROVE i = j
    OBVIOUS
  <2>1. /\ (i < k => i \in 1..L) /\ (k < i => i - 1 \in 1..L)
        /\ (j < k => j \in 1..L) /\ (k < j => j - 1 \in 1..L)
    BY <1>1, <1>2 DEF M
  <2>2. i = k <=> j = k
    <3>1. i # k => u[i] # n
      BY <1>2, <1>3, <1>8, <2>1
    <3>2. j # k => u[j] # n
      <4>1. (j < k => u[j] = w[j]) /\ (k < j => u[j] = w[j - 1]) /\ (j # k => j < k \/ k < j)
        BY <1>2, <1>3
      <4> QED
        BY <1>8, <2>1, <4>1
    <3>3. (i = k => u[i] = n) /\ (j = k => u[j] = n)
      BY <1>2, <1>3
    <3> QED
      BY <3>1, <3>2, <3>3
  <2>3. CASE i # k
    <3>1. (i < k => u[i] = w[i]) /\ (k < i => u[i] = w[i - 1])
      BY <1>2, <1>3
    <3>2. (j < k => u[j] = w[j]) /\ (k < j => u[j] = w[j - 1])
      BY <1>2, <1>3
    <3>3. (i < k \/ k < i) /\ (j < k \/ k < j)
      BY <1>2, <2>2, <2>3
    <3>4. (IF i < k THEN i ELSE i - 1) = (IF j < k THEN j ELSE j - 1)
      BY <1>2, <1>4, <2>1, <3>1, <3>2, <3>3
    <3> QED
      BY <1>2, <3>3, <3>4
  <2> QED
    BY <2>2, <2>3
<1>16. head' = IF M = 0 THEN NULL ELSE u[1]
  <2>1. head = after <=> k = 1
    <3>1. CASE k = M
      BY <1>1, <1>2, <1>7, <1>9, <3>1
    <3>2. CASE k # M
      BY <1>1, <1>7, <1>9, <3>2
    <3> QED
      BY <3>1, <3>2
  <2>2. 1 \in 1..M /\ M # 0 /\ (k # 1 => 1 < k /\ L # 0 /\ ~(k = 1))
    BY <1>1, <1>2, <1>9 DEF M
  <2>3. u[1] = IF k = 1 THEN n ELSE w[1]
    BY <1>2, <1>3, <2>2
  <2> QED
    BY <1>6, <2>1, <2>2, <2>3 DEF InsertNode
<1>17. tail' = IF M = 0 THEN NULL ELSE u[M]
  <2>1. M # 0 /\ M \in 1..M /\ (L = 0 => k = M) /\ (L # 0 => k < M /\ ~(M < k) /\ M # k /\ M - 1 = L)
    BY <1>1, <1>2 DEF M
  <2>2. u[M] = IF L = 0 THEN n ELSE w[L]
    BY <1>2, <1>3, <2>1
  <2> QED
    BY <1>1, <1>6, <2>1, <2>2 DEF InsertNode
<1>18. ASSUME NEW j \in 1..M
       PROVE  /\ next'[u[j]] = IF j = M THEN NULL ELSE u[j + 1]
              /\ prev'[u[j]] = IF j = 1 THEN NULL ELSE u[j - 1]
              /\ value'[u[j]] \in Items
              /\ u[j] \notin lost'
  <2>1. /\ j \in Int /\ (j # M => j + 1 \in 1..M) /\ (j # 1 => j - 1 \in 1..M) /\ M = L + 1
    BY <1>1, <1>2 DEF M
  <2>2. CASE j < k
    <3>1. j \in 1..L /\ j # k /\ u[j] = w[j] /\ j # M /\ j # L + 1
      BY <1>1, <1>2, <1>3, <2>1, <2>2
    <3>2. next'[w[j]] = u[j + 1]
      <4>1. CASE j = k - 1
        <5>1. u[j + 1] = n
          BY <1>2, <1>3, <2>1, <3>1, <4>1
        <5> QED
          BY <1>13, <3>1, <4>1, <5>1
      <4>2. CASE j # k - 1
        <5>1. j + 1 < k /\ j # L
          BY <1>2, <1>9, <2>1, <2>2, <4>2
        <5>2. u[j + 1] = w[j + 1]
          BY <1>3, <2>1, <3>1, <5>1
        <5> QED
          BY <1>5, <1>13, <3>1, <4>2, <5>1, <5>2
      <4> QED
        BY <4>1, <4>2
    <3>3. prev'[w[j]] = IF j = 1 THEN NULL ELSE u[j - 1]
      <4>1. j # 1 => u[j - 1] = w[j - 1]
        BY <1>2, <1>3, <2>1, <2>2
      <4> QED
        BY <1>5, <1>13, <3>1, <4>1
    <3> QED
      BY <1>5, <1>12, <1>13, <3>1, <3>2, <3>3
  <2>3. CASE j = k
    <3>1. u[j] = n
      BY <1>2, <1>3, <2>3
    <3>2. j # M => u[j + 1] = w[k]
      <4>1. ~(j + 1 < k) /\ j + 1 # k /\ (j + 1) - 1 = k
        BY <1>2, <2>1, <2>3
      <4> QED
        BY <1>3, <2>1, <4>1
    <3>3. j # 1 => u[j - 1] = w[k - 1]
      <4>1. j - 1 < k
        BY <1>2, <2>1, <2>3
      <4> QED
        BY <1>3, <2>1, <2>3, <4>1
    <3> QED
      BY <1>7, <1>8, <1>12, <1>14, <2>3, <3>1, <3>2, <3>3
  <2>4. CASE k < j
    <3> DEFINE i == j - 1
    <3>1. i \in 1..L /\ ~(j < k) /\ j # k /\ i # k - 1 /\ j # 1
      BY <1>1, <1>2, <2>1, <2>4
    <3>2. u[j] = w[i]
      BY <1>3, <3>1
    <3>3. next'[w[i]] = IF j = M THEN NULL ELSE u[j + 1]
      <4>1. (i = L <=> j = M) /\ i + 1 = j
        BY <1>1, <2>1
      <4>2. j # M => u[j + 1] = w[j]
        <5>1. ~(j + 1 < k) /\ j + 1 # k /\ (j + 1) - 1 = j
          BY <1>2, <2>1, <2>4
        <5> QED
          BY <1>3, <2>1, <5>1
      <4> HIDE DEF i
      <4> QED
        BY <1>5, <1>13, <3>1, <4>1, <4>2
    <3>4. prev'[w[i]] = u[j - 1]
      <4>1. CASE i = k
        <5>1. u[j - 1] = n
          BY <1>2, <1>3, <4>1
        <5> QED
          BY <1>13, <3>1, <4>1, <5>1
      <4>2. CASE i # k
        <5>1. ~(j - 1 < k) /\ j - 1 # k /\ i # 1 /\ (j - 1) - 1 = i - 1
          BY <1>2, <2>1, <2>4, <4>2
        <5>2. u[j - 1] = w[i - 1]
          BY <1>3, <2>1, <3>1, <5>1
        <5> QED
          BY <1>5, <1>13, <3>1, <4>2, <5>1, <5>2
      <4> QED
        BY <4>1, <4>2
    <3> HIDE DEF i
    <3> QED
      BY <1>5, <1>12, <1>13, <3>1, <3>2, <3>3, <3>4
  <2>5. j < k \/ j = k \/ k < j
    BY <1>2, <2>1
  <2> QED
    BY <2>2, <2>3, <2>4, <2>5
<1>19. ASSUME NEW m \in Nodes
       PROVE  m \in used' <=> m \in lost' \/ \E j \in 1..M : u[j] = m
  <2>1. m \in used' <=> m \in used \/ m = n
    BY DEF InsertNode
  <2>2. m \in used <=> m \in lost \/ \E i \in 1..L : w[i] = m
    BY DEF Chain, L
  <2>3. (\E j \in 1..M : u[j] = m) <=> (\E i \in 1..L : w[i] = m) \/ m = n
    <3>1. ASSUME NEW j \in 1..M, u[j] = m PROVE (\E i \in 1..L : w[i] = m) \/ m = n
      <4>1. (j < k => j \in 1..L) /\ (k < j => j - 1 \in 1..L) /\ (j < k \/ j = k \/ k < j)
        BY <1>1, <1>2 DEF M
      <4>2. k < j => ~(j < k) /\ j # k
        BY <1>2
      <4> QED
        BY <1>3, <3>1, <4>1, <4>2
    <3>2. u[k] = n
      BY <1>2, <1>3
    <3>3. ASSUME NEW i \in 1..L, w[i] = m PROVE \E j \in 1..M : u[j] = m
      <4>1. CASE i < k
        <5>1. i \in 1..M
          BY <1>1 DEF M
        <5> QED
          BY <1>3, <3>3, <4>1, <5>1
      <4>2. CASE ~(i < k)
        <5>1. i + 1 \in 1..M /\ ~(i + 1 < k) /\ i + 1 # k /\ (i + 1) - 1 = i
          BY <1>1, <1>2, <4>2 DEF M
        <5>2. u[i + 1] = w[i]
          BY <1>3, <5>1
        <5> QED
          BY <3>3, <5>1, <5>2
      <4> QED
        BY <4>1, <4>2
    <3> QED
      BY <1>2, <3>1, <3>2, <3>3
  <2> QED
    BY <1>12, <2>1, <2>2, <2>3
<1>20. /\ \A j \in 1..M : /\ next'[u[j]] = IF j = M THEN NULL ELSE u[j + 1]
                          /\ prev'[u[j]] = IF j = 1 THEN NULL ELSE u[j - 1]
                          /\ value'[u[j]] \in Items
                          /\ u[j] \notin lost'
       /\ \A m \in Nodes : m \in used' <=> m \in lost' \/ \E j \in 1..M : u[j] = m
  BY <1>18, <1>19
<1>21. /\ Len(u) = M /\ \A i, j \in 1..M : u[i] = u[j] => i = j
       /\ head' = IF M = 0 THEN NULL ELSE u[1]
       /\ tail' = IF M = 0 THEN NULL ELSE u[M]
  BY <1>2, <1>15, <1>16, <1>17
<1>22. Chain(u)'
  BY <1>20, <1>21 DEF Chain
<1> QED
  BY <1>11, <1>22

\* list_insert_before with after = NULL and a list that is not empty.
LEMMA LostChain ==
  ASSUME LinkTypes, NEW w \in Seq(Nodes), Chain(w),
         NEW n \in Nodes, NEW v \in Items, InsertNode(n, NULL, v), Len(w) # 0
  PROVE  LinkTypes' /\ Chain(w)' /\ \A i \in 1..Len(w) : value'[w[i]] = value[w[i]]
<1> DEFINE L == Len(w)
<1>1. /\ L \in Nat /\ \A i \in 1..L : w[i] \in Nodes /\ w[i] # NULL /\ w[i] \in used
      /\ NULL \notin Nodes /\ NULL \notin Items
      /\ head # NULL /\ tail # NULL
  BY ChainFacts
<1>2. n \notin used /\ (\A i \in 1..L : w[i] # n)
  BY <1>1 DEF InsertNode
<1>3. /\ Before(NULL) = NULL /\ head' = head /\ tail' = tail
      /\ lost' = lost \cup {n} /\ used' = used \cup {n}
  BY <1>1 DEF Before, InsertNode
<1>4. LinkTypes'
  BY <1>3 DEF LinkTypes, InsertNode
<1>5. \A i \in 1..L : /\ next'[w[i]] = next[w[i]]
                      /\ prev'[w[i]] = prev[w[i]]
                      /\ value'[w[i]] = value[w[i]]
  BY <1>1, <1>2, <1>3 DEF InsertNode, LinkTypes
<1>6. Chain(w)'
  BY <1>2, <1>3, <1>5 DEF Chain
<1> QED
  BY <1>4, <1>5, <1>6

----------------------------------------------------------------------------
(* What the users see                                                      *)

\* The values a walk meets: what S, in LinkedList, takes for seq.
Seen == [i \in DOMAIN Walk |-> value[Walk[i]]]

\* A function on 1..L is the sequence of its values.
LEMMA SeqSeen ==
  ASSUME NEW V, NEW L \in Nat, NEW u \in [1..L -> V]
  PROVE  u \in Seq(V) /\ Len(u) = L
<1>1. u \in Seq(V)
  BY SeqDef
<1>2. Len(u) \in Nat /\ 1..Len(u) = 1..L
  BY <1>1, LenProperties
<1> QED
  BY <1>1, <1>2

\* The sequence has the chain's length, and the nodes' values.
LEMMA SeenIs ==
  ASSUME NEW w \in Seq(Nodes), w = Walk, Chain(w)
  PROVE  /\ Seen \in Seq(Items) /\ Len(Seen) = Len(w)
         /\ DOMAIN Seen = 1..Len(w)
         /\ \A i \in 1..Len(w) : Seen[i] = value[w[i]]
<1> DEFINE L == Len(w)
<1>1. L \in Nat /\ DOMAIN w = 1..L
  BY LenProperties
<1>2. Seen = [i \in 1..L |-> value[w[i]]]
  BY <1>1 DEF Seen
<1>3. \A i \in 1..L : value[w[i]] \in Items
  BY DEF Chain
<1> HIDE DEF L
<1>4. Seen \in [1..L -> Items]
  BY <1>2, <1>3
<1>5. Seen \in Seq(Items) /\ Len(Seen) = L
  BY <1>1, <1>4, SeqSeen
<1> QED
  BY <1>2, <1>4, <1>5 DEF L

\* list_append adds the value at the end.
LEMMA AppendStep ==
  ASSUME IInv, NEW n \in Nodes, NEW v \in Items, AppendNode(n, v)
  PROVE  IInv' /\ S!Push(v)
<1>1. PICK w \in Seq(Nodes) : w = Walk
  BY DEF IInv
<1> DEFINE L == Len(w)
           M == L + 1
           u == [j \in 1..M |-> IF j <= L THEN w[j] ELSE n]
<1>2. L \in Nat /\ M \in Nat /\ LinkTypes /\ Chain(w) /\ \A i \in 1..L : w[i] \in Nodes
  BY <1>1, LenProperties, ElementOfSeq DEF IInv
<1>3. \A j \in 1..M : /\ j <= L => j \in 1..L
                      /\ u[j] = IF j <= L THEN w[j] ELSE n
  BY <1>2
<1>4. u \in [1..M -> Nodes]
  <2> HIDE DEF M, L
  <2> QED
    BY <1>2, <1>3
<1> HIDE DEF u, M, L
<1>5. u \in Seq(Nodes) /\ Len(u) = M
  BY <1>2, <1>4, SeqSeen
<1>6. LinkTypes' /\ Chain(u)'
  BY <1>2, <1>3, <1>5, AppendChain DEF M, L
<1>7. IInv' /\ Walk' = u
  <2>1. ~made' => Len(u) = 0
    BY DEF AppendNode
  <2> QED
    BY <1>5, <1>6, <2>1, NewWalk
<1>8. /\ Seen \in Seq(Items) /\ Len(Seen) = L
      /\ \A i \in 1..L : Seen[i] = value[w[i]]
  BY <1>1, <1>2, SeenIs DEF L
<1>9. Append(Seen, v) = [j \in 1..M |-> IF j <= L THEN value[w[j]] ELSE v]
  <2>1. Append(Seen, v) = [j \in 1..(Len(Seen) + 1) |-> IF j <= Len(Seen) THEN Seen[j] ELSE v]
    BY <1>8, AppendIs
  <2> QED
    BY <1>3, <1>8, <2>1 DEF M
<1>10. Seen' = [j \in 1..M |-> value'[u[j]]]
  <2>1. DOMAIN u = 1..M
    BY <1>4
  <2> QED
    BY <1>7, <2>1 DEF Seen
<1>11. \A j \in 1..M : value'[u[j]] = IF j <= L THEN value[w[j]] ELSE v
  <2>1. n \notin used /\ \A i \in 1..L : w[i] \in used
    BY <1>2, ChainFacts DEF AppendNode, L
  <2>2. value'[n] = v /\ \A m \in Nodes : m # n => value'[m] = value[m]
    BY <1>2 DEF AppendNode, LinkTypes
  <2> QED
    BY <1>2, <1>3, <2>1, <2>2
<1>12. Seen' = Append(Seen, v)
  BY <1>9, <1>10, <1>11
<1> QED
  BY <1>7, <1>12 DEF S!Push, S!Appended, Appended, S!Longer, Longer, Seen, AppendNode

\* list_remove takes the value of one place out.
LEMMA RemoveStep ==
  ASSUME IInv, NEW n \in Nodes, RemoveNode(n)
  PROVE  IInv' /\ \E i \in DOMAIN Seen : S!Remove(i)
<1>1. PICK w \in Seq(Nodes) : w = Walk
  BY DEF IInv
<1> DEFINE L == Len(w)
           M == L - 1
<1>2. L \in Nat /\ LinkTypes /\ Chain(w) /\ \A i \in 1..L : w[i] \in Nodes
  BY <1>1, LenProperties, ElementOfSeq DEF IInv
<1>3. PICK k \in 1..L : w[k] = n
  <2>1. n \in OnList
    BY DEF RemoveNode
  <2> QED
    BY <1>2, <2>1, WalkIs
<1> DEFINE u == [j \in 1..M |-> IF j < k THEN w[j] ELSE w[j + 1]]
<1>4. \A j \in 1..M : /\ j \in 1..L /\ j + 1 \in 1..L
                      /\ j < k => j # k
                      /\ ~(j < k) => j + 1 # k
                      /\ u[j] = IF j < k THEN w[j] ELSE w[j + 1]
  BY <1>2
<1>5. M \in Nat
  BY <1>2
<1>6. u \in [1..M -> Nodes]
  <2> HIDE DEF M, L
  <2> QED
    BY <1>2, <1>4
<1> HIDE DEF u, M, L
<1>7. u \in Seq(Nodes) /\ Len(u) = M
  BY <1>5, <1>6, SeqSeen
<1>8. LinkTypes' /\ Chain(u)'
  <2>1. RemoveNode(w[k])
    BY <1>3
  <2> QED
    BY <1>2, <1>4, <1>7, <2>1, RemoveChain DEF M, L
<1>9. IInv' /\ Walk' = u
  <2>1. ~made' => Len(u) = 0
    BY DEF RemoveNode
  <2> QED
    BY <1>7, <1>8, <2>1, NewWalk
<1>10. /\ Seen \in Seq(Items) /\ Len(Seen) = L /\ DOMAIN Seen = 1..L
       /\ \A i \in 1..L : Seen[i] = value[w[i]]
  BY <1>1, <1>2, SeenIs DEF L
<1>11. Without(Seen, k) = [j \in 1..M |-> IF j < k THEN value[w[j]] ELSE value[w[j + 1]]]
  <2>1. Without(Seen, k) = [j \in 1..(Len(Seen) - 1) |-> IF j < k THEN Seen[j] ELSE Seen[j + 1]]
    BY <1>10, WithoutIs
  <2> QED
    BY <1>4, <1>10, <2>1 DEF M
<1>12. Seen' = [j \in 1..M |-> value'[u[j]]]
  <2>1. DOMAIN u = 1..M
    BY <1>6
  <2> QED
    BY <1>9, <2>1 DEF Seen
<1>13. \A j \in 1..M : value'[u[j]] = IF j < k THEN value[w[j]] ELSE value[w[j + 1]]
  <2>1. \A i \in 1..L : i # k => w[i] # n
    BY <1>2, <1>3 DEF Chain, L
  <2>2. \A m \in Nodes : m # n => value'[m] = value[m]
    BY <1>2 DEF RemoveNode, LinkTypes
  <2> QED
    BY <1>2, <1>4, <2>1, <2>2
<1>14. Seen' = Without(Seen, k)
  BY <1>11, <1>12, <1>13
<1>15. S!Remove(k)
  BY <1>10, <1>14 DEF S!Remove, S!Without, Without, S!Shorter, Shorter, Seen, RemoveNode
<1> QED
  BY <1>9, <1>10, <1>15

\* list_insert_before puts the value in front of one place, or, with NULL,
\* into an empty list; otherwise the sequence stays as it is.
LEMMA InsertStep ==
  ASSUME IInv, NEW n \in Nodes, NEW after, NEW v \in Items, InsertNode(n, after, v)
  PROVE  IInv' /\ \E i \in 1..(Len(Seen) + 1) : S!Insert(i, v)
<1>1. PICK w \in Seq(Nodes) : w = Walk
  BY DEF IInv
<1> DEFINE L == Len(w)
           M == L + 1
<1>2. L \in Nat /\ LinkTypes /\ Chain(w) /\ \A i \in 1..L : w[i] \in Nodes
  BY <1>1, LenProperties, ElementOfSeq DEF IInv
<1>3. /\ Seen \in Seq(Items) /\ Len(Seen) = L /\ DOMAIN Seen = 1..L
      /\ \A i \in 1..L : Seen[i] = value[w[i]]
  BY <1>1, <1>2, SeenIs
<1>4. PICK k \in 1..M : after = IF k = M THEN NULL ELSE w[k]
  <2>1. CASE after = NULL
    <3>1. M \in 1..M
      BY <1>2
    <3> QED
      BY <2>1, <3>1
  <2>2. CASE after # NULL
    <3>1. after \in OnList
      BY <2>2 DEF InsertNode
    <3>2. PICK i \in 1..L : w[i] = after
      BY <1>2, <3>1, WalkIs
    <3>3. i \in 1..M /\ i # M
      BY <1>2
    <3> QED
      BY <3>2, <3>3
  <2> QED
    BY <2>1, <2>2
<1>5. made /\ made' = made /\ length' = Longer(length, LENGTH_MAX)
  BY DEF InsertNode
<1>6. CASE k = M /\ L # 0
  <2>1. after = NULL
    BY <1>4, <1>6
  <2>2. /\ LinkTypes' /\ Chain(w)' /\ \A i \in 1..L : value'[w[i]] = value[w[i]]
    BY <1>2, <1>6, <2>1, LostChain
  <2>3. ~made' => Len(w) = 0
    BY <1>5
  <2>4. IInv' /\ Walk' = w
    BY <2>2, <2>3, NewWalk
  <2>5. Seen' = Seen
    BY <1>1, <1>2, <2>2, <2>4, LenProperties DEF Seen
  <2>6. NodeLost(Seen, k)
    <3>1. k > L
      BY <1>2, <1>6
    <3>2. Seen # <<>>
      BY <1>2, <1>3, <1>6
    <3> QED
      BY <1>3, <3>1, <3>2 DEF NodeLost
  <2>7. InsertedBefore(Seen, k, v) = Seen
    BY <2>6 DEF InsertedBefore
  <2>8. S!Insert(k, v)
    BY <1>5, <2>5, <2>7
       DEF S!Insert, S!InsertedBefore, S!NodeLost, InsertedBefore, NodeLost, S!Longer, Longer, Seen
  <2> QED
    BY <1>3, <2>4, <2>8
<1>7. CASE ~(k = M /\ L # 0)
  <2> DEFINE u == [j \in 1..M |-> IF j < k THEN w[j] ELSE IF j = k THEN n ELSE w[j - 1]]
  <2>1. \A j \in 1..M : /\ j < k => j \in 1..L
                        /\ ~(j < k) /\ j # k => j - 1 \in 1..L
                        /\ u[j] = IF j < k THEN w[j] ELSE IF j = k THEN n ELSE w[j - 1]
    BY <1>2
  <2>2. M \in Nat
    BY <1>2
  <2>3. u \in [1..M -> Nodes]
    <3> HIDE DEF M, L
    <3> QED
      BY <1>2, <2>1
  <2> HIDE DEF u, M, L
  <2>4. u \in Seq(Nodes) /\ Len(u) = M
    BY <2>2, <2>3, SeqSeen
  <2>5. LinkTypes' /\ Chain(u)'
    <3>1. /\ k \in 1..(Len(w) + 1) /\ (k = Len(w) + 1 => Len(w) = 0)
          /\ k = Len(w) + 1 => after = NULL
          /\ k # Len(w) + 1 => after = w[k]
          /\ Len(u) = Len(w) + 1
      BY <1>4, <1>7, <2>4 DEF M, L
    <3>2. \A j \in 1..(Len(w) + 1) : u[j] = IF j < k THEN w[j] ELSE IF j = k THEN n ELSE w[j - 1]
      BY <2>1 DEF M, L
    <3> QED
      <4>1. w \in Seq(Nodes) /\ n \in Nodes /\ v \in Items /\ InsertNode(n, after, v)
        OBVIOUS
      <4>2. LinkTypes /\ Chain(w) /\ u \in Seq(Nodes)
        BY <1>2, <2>4
      <4> QED
        <5>1. IsAt(after, w, k)
          BY <3>1 DEF IsAt
        <5>2. HasNode(u, w, k, n)
          BY <3>1, <3>2, <4>2 DEF HasNode
        <5> QED
          BY <4>1, <4>2, <5>1, <5>2, InsertChain
  <2>6. IInv' /\ Walk' = u
    <3>1. ~made' => Len(u) = 0
      BY <1>5
    <3> QED
      BY <2>4, <2>5, <3>1, NewWalk
  <2>7. InsertedBefore(Seen, k, v) =
          [j \in 1..M |-> IF j < k THEN value[w[j]] ELSE IF j = k THEN v ELSE value[w[j - 1]]]
    <3>1. ~NodeLost(Seen, k)
      <4>1. k > L => L = 0
        BY <1>2, <1>7 DEF M
      <4>2. L = 0 => Seen = <<>>
        BY <1>3, EmptySeq
      <4> QED
        BY <1>3, <4>1, <4>2 DEF NodeLost
    <3>2. k \in 1..(Len(Seen) + 1)
      BY <1>3 DEF M
    <3>3. InsertedBefore(Seen, k, v) = With(Seen, k, v)
      BY <1>3, <3>1, <3>2, InsertedIs
    <3>4. With(Seen, k, v) = [j \in 1..M |-> IF j < k THEN Seen[j] ELSE IF j = k THEN v ELSE Seen[j - 1]]
      BY <1>3 DEF With, M
    <3> QED
      BY <1>3, <2>1, <3>3, <3>4
  <2>8. Seen' = [j \in 1..M |-> value'[u[j]]]
    <3>1. DOMAIN u = 1..M
      BY <2>3
    <3> QED
      BY <2>6, <3>1 DEF Seen
  <2>9. \A j \in 1..M :
          value'[u[j]] = IF j < k THEN value[w[j]] ELSE IF j = k THEN v ELSE value[w[j - 1]]
    <3>1. n \notin used /\ \A i \in 1..L : w[i] \in used
      BY <1>2, ChainFacts DEF InsertNode, L
    <3>2. value'[n] = v /\ \A m \in Nodes : m # n => value'[m] = value[m]
      BY <1>2 DEF InsertNode, LinkTypes
    <3> QED
      BY <1>2, <2>1, <3>1, <3>2
  <2>10. Seen' = InsertedBefore(Seen, k, v)
    BY <2>7, <2>8, <2>9
  <2>11. S!Insert(k, v)
    BY <1>5, <2>10
       DEF S!Insert, S!InsertedBefore, S!NodeLost, InsertedBefore, NodeLost, S!Longer, Longer, Seen
  <2> QED
    BY <1>3, <2>6, <2>11 DEF M
<1> QED
  BY <1>6, <1>7

\* A list with no node is a chain.
LEMMA EmptyChain ==
  ASSUME head = NULL, tail = NULL, used = lost
  PROVE  Chain(<<>>)
BY DEF Chain

\* The same of the next state.
LEMMA EmptyChainNext ==
  (head = NULL /\ tail = NULL /\ used = lost => Chain(<<>>))'
<1>1. head = NULL /\ tail = NULL /\ used = lost => Chain(<<>>)
  BY EmptyChain
<1> QED
  BY <1>1, PTL

\* The list is empty before list_create.
LEMMA ListInitStep ==
  ASSUME ListInit
  PROVE  IInv /\ S!SInit
<1>1. Chain(<<>>)
  BY EmptyChain DEF ListInit
<1>2. Walk = <<>>
  <2>1. <<>> \in Seq(Nodes)
    OBVIOUS
  <2> QED
    BY <1>1, <2>1, WalkIs
<1>3. LinkTypes
  BY DEF ListInit, LinkTypes
<1>4. [i \in DOMAIN Walk |-> value[Walk[i]]] = <<>>
  BY <1>2
<1> QED
  BY <1>1, <1>2, <1>3, <1>4 DEF IInv, S!SInit, ListInit

\* list_create and list_destroy leave an empty list.
LEMMA EmptyStep ==
  ASSUME IInv, Create \/ Destroy
  PROVE  IInv' /\ (S!Create \/ S!Destroy)
<1>1. PICK w \in Seq(Nodes) : w = Walk
  BY DEF IInv
<1>2. Len(w) \in Nat /\ LinkTypes /\ Chain(w) /\ \A n : n \in OnList <=> \E i \in 1..Len(w) : w[i] = n
  BY <1>1, WalkIs, LenProperties DEF IInv
<1>3. head' = NULL /\ tail' = NULL /\ length' = 0 /\ lost' = lost /\ made' = ~made
  BY <1>2 DEF Create, Destroy, LinkTypes
<1>4. used' = lost
  <2>1. CASE Create
    <3>1. Len(w) = 0
      BY <1>1, <2>1 DEF Create, IInv
    <3>2. \A m \in Nodes : m \in used <=> m \in lost
      BY <1>2, <3>1 DEF Chain
    <3> QED
      BY <1>2, <2>1, <3>2 DEF Create, LinkTypes
  <2>2. CASE Destroy
    <3>1. \A m \in Nodes : m \in used /\ m \notin OnList <=> m \in lost
      BY <1>2 DEF Chain
    <3> QED
      BY <1>2, <2>2, <3>1 DEF Destroy, LinkTypes
  <2> QED
    BY <2>1, <2>2
<1>5. LinkTypes'
  <2>1. CASE Create
    BY <1>2, <2>1 DEF Create, LinkTypes
  <2>2. CASE Destroy
    BY <1>2, <2>2 DEF Destroy, LinkTypes
  <2> QED
    BY <2>1, <2>2
<1>6. Chain(<<>>)'
  BY <1>3, <1>4, EmptyChainNext
<1>7. IInv' /\ Walk' = <<>>
  <2>1. (~made' => Len(<<>>) = 0) /\ <<>> \in Seq(Nodes)
    OBVIOUS
  <2> QED
    BY <1>5, <1>6, <2>1, NewWalk
<1>8. Seen' = <<>>
  BY <1>7 DEF Seen
<1>9. made \in BOOLEAN
  BY <1>2 DEF LinkTypes
<1> QED
  BY <1>3, <1>7, <1>8, <1>9 DEF S!Create, S!Destroy, Seen, Create, Destroy

\* A pop of an empty list changes the count only.
LEMMA PopStep ==
  ASSUME IInv, PopNothing
  PROVE  IInv' /\ S!PopNothing
<1>1. PICK w \in Seq(Nodes) : w = Walk
  BY DEF IInv
<1>2. LinkTypes /\ Chain(w) /\ (~made => Len(w) = 0)
  BY <1>1 DEF IInv
<1>3. Len(w) = 0
  BY <1>2, ChainFacts DEF PopNothing
<1>4. LinkTypes' /\ Chain(w)'
  BY <1>2 DEF PopNothing, LinkTypes, Chain
<1>5. IInv' /\ Walk' = w
  BY <1>3, <1>4, NewWalk
<1>6. Seen' = Seen
  BY <1>1, <1>5 DEF Seen, PopNothing
<1>7. Seen = <<>>
  BY <1>1, <1>2, <1>3, SeenIs, EmptySeq
<1> QED
  BY <1>5, <1>6, <1>7 DEF S!PopNothing, S!Shorter, Shorter, Seen, PopNothing

----------------------------------------------------------------------------
(* Theorems                                                                *)

\* Every step of the pointers keeps the invariant and is a step of the
\* sequence, or changes nothing.
LEMMA ListSteps ==
  ASSUME IInv, [ListNext]_listVars
  PROVE  IInv' /\ [S!SNext]_S!svars
<1>1. CASE Create \/ Destroy
  BY <1>1, EmptyStep DEF S!SNext
<1>2. ASSUME NEW n \in Nodes, NEW v \in Items, AppendNode(n, v)
      PROVE  IInv' /\ [S!SNext]_S!svars
  BY <1>2, AppendStep DEF S!SNext
<1>3. ASSUME NEW n \in Nodes, RemoveNode(n)
      PROVE  IInv' /\ [S!SNext]_S!svars
  BY <1>3, RemoveStep DEF S!SNext, Seen
<1>4. ASSUME NEW n \in Nodes, NEW after \in Nodes \cup {NULL}, NEW v \in Items,
             InsertNode(n, after, v)
      PROVE  IInv' /\ [S!SNext]_S!svars
  BY <1>4, InsertStep DEF S!SNext, Seen
<1>5. CASE PopNothing
  BY <1>5, PopStep DEF S!SNext
<1>6. CASE UNCHANGED listVars
  <2>1. PICK w \in Seq(Nodes) : w = Walk
    BY DEF IInv
  <2>2. LinkTypes /\ Chain(w) /\ (~made => Len(w) = 0)
    BY <2>1 DEF IInv
  <2>3. LinkTypes' /\ Chain(w)' /\ (~made' => Len(w) = 0)
    BY <1>6, <2>2 DEF LinkTypes, Chain, listVars
  <2>4. IInv' /\ Walk' = w
    BY <2>3, NewWalk
  <2>5. Seen' = Seen
    BY <1>6, <2>1, <2>4 DEF Seen, listVars
  <2> QED
    BY <1>6, <2>4, <2>5 DEF S!svars, Seen, listVars
<1> QED
  BY <1>1, <1>2, <1>3, <1>4, <1>5, <1>6 DEF ListNext

\* The list of Library is LinkedList's.
LEMMA ListOnly == Spec => ListSpec
<1>1. Init => ListInit
  BY DEF Init
<1>2. [Next]_vars => [ListNext]_listVars
  <2>1. ASSUME Next PROVE ListNext \/ UNCHANGED listVars
    BY <2>1 DEF Next, Ask, AskCanonicize, AskTarfs, AskClock, AskPrint, AskFormat, Answer, Write,
                TerminalPutchar, TerminalClear, AddOutput, LogPrintf, ListStep
  <2>2. ASSUME UNCHANGED vars PROVE UNCHANGED listVars
    BY <2>2 DEF vars
  <2> QED
    BY <2>1, <2>2
<1> QED
  BY <1>1, <1>2, PTL DEF Spec, ListSpec

\* Whatever callers do, the nodes a walk meets form a chain in both
\* directions, and a list that does not exist has none.
THEOREM ListInvariant == Spec => []IInv
<1>1. ListInit => IInv
  BY ListInitStep
<1>2. IInv /\ [ListNext]_listVars => IInv'
  BY ListSteps
<1> QED
  BY <1>1, <1>2, ListOnly, PTL DEF ListSpec

\* A walk of the list in kernel/ds/list.c ends, at tail; a walk back meets the
\* same nodes; every node kmalloc gave is on the list or lost.
THEOREM ListWellLinked == Spec => []WellLinked
<1>1. IInv => WellLinked
  <2> SUFFICES ASSUME IInv PROVE WellLinked
    OBVIOUS
  <2>1. PICK w \in Seq(Nodes) : w = Walk
    BY DEF IInv
  <2>2. LinkTypes /\ Chain(w)
    BY <2>1 DEF IInv
  <2>3. /\ Nth[Cardinality(Nodes)] = NULL
        /\ \A n : n \in OnList <=> \E i \in 1..Len(w) : w[i] = n
    BY <2>2, WalkIs
  <2>4. /\ Len(w) \in Nat /\ \A i \in 1..Len(w) : w[i] \in Nodes
        /\ head = NULL <=> Len(w) = 0
    BY <2>2, ChainFacts
  <2>5. tail = IF head = NULL THEN NULL ELSE w[Len(w)]
    BY <2>2, <2>4 DEF Chain
  <2>6. head # NULL => prev[head] = NULL
    <3>1. Len(w) # 0 => 1 \in 1..Len(w)
      BY <2>4
    <3> QED
      BY <2>2, <2>4, <3>1 DEF Chain
  <2>7. ASSUME NEW i \in 1..(Len(w) - 1) PROVE prev[w[i + 1]] = w[i]
    <3>1. i + 1 \in 1..Len(w) /\ i + 1 # 1 /\ (i + 1) - 1 = i
      BY <2>4
    <3> QED
      BY <2>2, <3>1 DEF Chain
  <2>8. used = OnList \cup lost /\ OnList \cap lost = {}
    <3>1. used \subseteq Nodes /\ lost \subseteq Nodes
      BY <2>2 DEF LinkTypes
    <3>2. \A n \in OnList : n \in Nodes /\ n \notin lost
      BY <2>2, <2>3, <2>4 DEF Chain
    <3>3. \A n \in Nodes : n \in used <=> n \in lost \/ n \in OnList
      BY <2>2, <2>3 DEF Chain
    <3> QED
      BY <3>1, <3>2, <3>3
  <2> QED
    BY <2>1, <2>3, <2>5, <2>6, <2>7, <2>8 DEF WellLinked
<1> QED
  BY <1>1, ListInvariant, PTL

\* The pointers of kernel/ds/list.c implement the sequence its users see.
THEOREM ListImplementsSequence == Spec => SequenceSpec
<1>1. ListInit => S!SInit
  BY ListInitStep
<1>2. IInv /\ [ListNext]_listVars => [S!SNext]_S!svars
  BY ListSteps
<1> QED
  BY <1>1, <1>2, ListInvariant, ListOnly, PTL DEF ListSpec, SequenceSpec, S!SSpec

----------------------------------------------------------------------------
(* The terminal                                                            *)

LEMMA LinesFold == \A q : Lines(q) = Papering!Folded(<<<<>>>>, q)
BY DEF Lines, Papering!Folded, FoldLeft, Papering!FoldLeft, MapThenFoldSet, Papering!MapThenFoldSet, Max, Papering!Max

\* A text is put on paper character by character.
LEMMA LinesAre == ASSUME NEW U, NEW t \in Seq(U), NEW c PROVE Lines(Append(t, c)) = OnPaper(Lines(t), c)
BY LinesFold, Papering!FoldedAppend

LEMMA NoLines == Lines(<<>>) = <<<<>>>>
BY LinesFold, Papering!FoldedEmpty

\* Lines on paper.
Paper == {lines \in Seq(Seq(Glyphs)) : lines # <<>>}

\* How many of them the screen shows.
Height(lines) == IF Len(lines) <= terminal_height THEN Len(lines) ELSE terminal_height

LEMMA BottomIs ==
  ASSUME NEW lines \in Paper
  PROVE  /\ Height(lines) \in 1..terminal_height /\ Height(lines) <= Len(lines)
         /\ Len(Bottom(lines)) = Height(lines)
         /\ \A i \in 1..Height(lines) : Bottom(lines)[i] = lines[Len(lines) - Height(lines) + i]
         /\ Last(Bottom(lines)) = Last(lines)
<1>1. Len(lines) \in Nat \ {0} /\ terminal_height \in Nat \ {0}
  BY TerminalAssumption DEF Paper
<1>2. CASE Len(lines) <= terminal_height
  BY <1>1, <1>2 DEF Height, Bottom, Last
<1>3. CASE Len(lines) > terminal_height
  <2> DEFINE k == Len(lines) - terminal_height
  <2>1. k \in Nat /\ Height(lines) = terminal_height /\ Bottom(lines) = SubSeq(lines, k + 1, Len(lines))
    BY <1>1, <1>3 DEF Height, Bottom
  <2> HIDE DEF k
  <2>2. /\ Len(SubSeq(lines, k + 1, Len(lines))) = Len(lines) - k
        /\ \A i \in 1..(Len(lines) - k) : SubSeq(lines, k + 1, Len(lines))[i] = lines[k + i]
    BY <1>1, <1>3, <2>1 DEF Paper, k
  <2>3. Len(lines) - k = terminal_height
    BY <1>1 DEF k
  <2>4. Len(Bottom(lines)) = terminal_height /\ \A i \in 1..terminal_height : Bottom(lines)[i] = lines[k + i]
    BY <2>1, <2>2, <2>3
  <2>5. k + terminal_height = Len(lines) /\ terminal_height \in 1..terminal_height
    BY <1>1 DEF k
  <2>6. Last(Bottom(lines)) = Last(lines)
    BY <2>4, <2>5 DEF Last
  <2> QED
    BY <1>1, <1>3, <2>1, <2>4, <2>6 DEF k
<1> QED
  BY <1>1, <1>2, <1>3

\* The cell of a screen that shows these lines.
Cell(lines, y, x) ==
  LET above == Len(lines) - Height(lines)
  IN IF y < Height(lines) /\ x < Len(lines[above + y + 1]) THEN {lines[above + y + 1][x + 1]} ELSE {}

LEMMA ShowingIs ==
  ASSUME NEW lines \in Paper
  PROVE  Showing(Bottom(lines)) =
           [screen |-> [y \in Rows |-> [x \in Columns |-> Cell(lines, y, x)]],
            row |-> Height(lines) - 1, column |-> Len(Last(lines))]
<1>1. \A y \in Rows, x \in Columns :
        (IF y < Len(Bottom(lines)) /\ x < Len(Bottom(lines)[y + 1]) THEN {Bottom(lines)[y + 1][x + 1]} ELSE {})
          = Cell(lines, y, x)
  <2> SUFFICES ASSUME NEW y \in Rows, NEW x \in Columns
               PROVE (IF y < Len(Bottom(lines)) /\ x < Len(Bottom(lines)[y + 1]) THEN {Bottom(lines)[y + 1][x + 1]} ELSE {})
                        = Cell(lines, y, x)
    OBVIOUS
  <2>1. Len(Bottom(lines)) = Height(lines)
    BY BottomIs
  <2>2. ASSUME y < Height(lines) PROVE Bottom(lines)[y + 1] = lines[Len(lines) - Height(lines) + y + 1]
    <3>1. y + 1 \in 1..Height(lines) /\ y \in Nat
      BY <2>2, BottomIs DEF Rows
    <3>2. Len(lines) - Height(lines) + (y + 1) = Len(lines) - Height(lines) + y + 1
      BY BottomIs, <3>1 DEF Paper
    <3> QED
      BY <3>1, <3>2, BottomIs
  <2> QED
    BY <2>1, <2>2 DEF Cell
<1> QED
  BY <1>1, BottomIs DEF Showing

\* A new line, empty, as terminal_newline makes it.
LEMMA NewlineShows ==
  ASSUME NEW lines \in Paper
  PROVE  /\ Append(lines, <<>>) \in Paper /\ Last(Append(lines, <<>>)) = <<>>
         /\ Showing(Bottom(Append(lines, <<>>))) = Newline(Showing(Bottom(lines)))
<1> DEFINE more == Append(lines, <<>>)
           n == Len(lines)
           h == Height(lines)
<1>1. /\ n \in Nat \ {0} /\ terminal_height \in Nat \ {0}
      /\ h \in 1..terminal_height /\ h <= n
      /\ h = IF n <= terminal_height THEN n ELSE terminal_height
  BY TerminalAssumption, BottomIs DEF Paper, Height
<1>2. more \in Paper /\ Len(more) = n + 1 /\ more[n + 1] = <<>> /\ \A i \in 1..n : more[i] = lines[i]
  <2>1. <<>> \in Seq(Glyphs) /\ lines \in Seq(Seq(Glyphs))
    BY DEF Paper
  <2> QED
    BY <2>1 DEF Paper
<1>3. Last(more) = <<>>
  BY <1>2 DEF Last
<1>4. Height(more) = IF h = terminal_height THEN h ELSE h + 1
  BY <1>1, <1>2 DEF Height
<1>5. Height(more) \in 1..terminal_height
  BY <1>2, BottomIs
<1> HIDE DEF more, n, h
<1>6. ASSUME NEW y \in Rows, NEW x \in Columns
      PROVE  Cell(more, y, x) = IF h = terminal_height
                                THEN IF y < terminal_height - 1 THEN Cell(lines, y + 1, x) ELSE {}
                                ELSE Cell(lines, y, x)
  <2>0. y \in Nat /\ y < terminal_height /\ x \in Nat
    BY <1>1 DEF Rows, Columns
  <2>1. CASE h = terminal_height
    <3>1. Height(more) = h /\ y < h /\ Len(more) - Height(more) + y + 1 = n - h + y + 2
      BY <1>1, <1>2, <1>4, <2>0, <2>1
    <3>2. CASE y < terminal_height - 1
      <4>1. y + 1 < h /\ n - h + y + 2 \in 1..n /\ n - h + (y + 1) + 1 = n - h + y + 2
        BY <1>1, <2>0, <2>1, <3>2
      <4>2. more[n - h + y + 2] = lines[n - h + y + 2]
        BY <4>1, <1>2
      <4> QED
        BY <2>1, <3>1, <3>2, <4>1, <4>2 DEF Cell, n, h
    <3>3. CASE ~(y < terminal_height - 1)
      <4>1. n - h + y + 2 = n + 1
        BY <1>1, <2>0, <2>1, <3>3
      <4>2. ~(x < Len(more[Len(more) - Height(more) + y + 1]))
        BY <4>1, <3>1, <1>2, <2>0
      <4> QED
        BY <2>1, <3>3, <4>2 DEF Cell
    <3> QED
      BY <3>2, <3>3
  <2>2. CASE h # terminal_height
    <3>1. Height(more) = h + 1 /\ Len(more) = n + 1 /\ h = n /\ Len(more) - Height(more) + y + 1 = y + 1
          /\ n - h + y + 1 = y + 1
      BY <1>1, <1>2, <1>4, <2>0, <2>2
    <3>2. CASE y < h
      <4>1. y < h + 1 /\ y + 1 \in 1..n
        BY <1>1, <2>0, <3>1, <3>2
      <4>2. more[y + 1] = lines[y + 1]
        BY <4>1, <1>2
      <4> QED
        BY <2>2, <3>1, <3>2, <4>1, <4>2 DEF Cell, n, h
    <3>3. CASE ~(y < h)
      <4>1. y < h + 1 => y + 1 = n + 1
        BY <1>1, <2>0, <3>1, <3>3
      <4>2. ~(y < h + 1 /\ x < Len(more[y + 1]))
        BY <4>1, <1>2, <2>0
      <4> QED
        BY <2>2, <3>1, <3>3, <4>2 DEF Cell, h
    <3> QED
      BY <3>2, <3>3
  <2> QED
    BY <2>1, <2>2
<1>7. Showing(Bottom(more)) = [screen |-> [y \in Rows |-> [x \in Columns |-> Cell(more, y, x)]],
                               row |-> Height(more) - 1, column |-> 0]
  BY <1>2, <1>3, ShowingIs
<1> DEFINE t == Showing(Bottom(lines))
<1>8. t = [screen |-> [y \in Rows |-> [x \in Columns |-> Cell(lines, y, x)]],
           row |-> h - 1, column |-> Len(Last(lines))]
  BY ShowingIs DEF h
<1> HIDE DEF t
<1>9. CASE h = terminal_height
  <2>1. t.row + 1 = terminal_height
    BY <1>1, <1>8, <1>9
  <2>2. Newline(t) = [t EXCEPT !.column = 0, !.screen = Scrolled(t.screen)]
    BY <2>1 DEF Newline
  <2>3. Scrolled(t.screen) = [y \in Rows |-> [x \in Columns |-> Cell(more, y, x)]]
    <3>1. ASSUME NEW y \in Rows
          PROVE  (IF y < terminal_height - 1 THEN t.screen[y + 1] ELSE BlankRow) = [x \in Columns |-> Cell(more, y, x)]
      <4>1. CASE y < terminal_height - 1
        <5>1. y + 1 \in Rows
          BY <1>1, <4>1 DEF Rows
        <5>2. t.screen[y + 1] = [x \in Columns |-> Cell(lines, y + 1, x)]
          BY <1>8, <5>1
        <5> QED
          BY <5>2, <4>1, <1>6, <1>9
      <4>2. CASE ~(y < terminal_height - 1)
        BY <4>2, <1>6, <1>9 DEF BlankRow
      <4> QED
        BY <4>1, <4>2
    <3> QED
      BY <3>1 DEF Scrolled
  <2>4. Newline(t) = [screen |-> [y \in Rows |-> [x \in Columns |-> Cell(more, y, x)]], row |-> h - 1, column |-> 0]
    BY <2>2, <2>3, <1>8
  <2> QED
    BY <2>4, <1>2, <1>3, <1>4, <1>7, <1>9 DEF t, more
<1>10. CASE h # terminal_height
  <2>1. t.row + 1 # terminal_height /\ t.row = h - 1 /\ h - 1 + 1 = Height(more) - 1
    BY <1>1, <1>4, <1>8, <1>10
  <2>2. Newline(t) = [t EXCEPT !.column = 0, !.row = @ + 1]
    BY <2>1 DEF Newline
  <2>3. [y \in Rows |-> [x \in Columns |-> Cell(lines, y, x)]] = [y \in Rows |-> [x \in Columns |-> Cell(more, y, x)]]
    BY <1>6, <1>10
  <2>4. Newline(t) = [screen |-> [y \in Rows |-> [x \in Columns |-> Cell(more, y, x)]], row |-> Height(more) - 1, column |-> 0]
    BY <2>1, <2>2, <2>3, <1>8
  <2> QED
    BY <2>4, <1>2, <1>3, <1>7 DEF t, more
<1> QED
  BY <1>9, <1>10

\* A character more in the last line, as terminal_putchar draws it.
LEMMA DrawnShows ==
  ASSUME NEW lines \in Paper, Len(Last(lines)) < terminal_width, NEW c \in Glyphs
  PROVE  LET more == Append(Front(lines), Append(Last(lines), c))
         IN more \in Paper /\ Last(more) = Append(Last(lines), c)
            /\ Showing(Bottom(more)) = Drawn(Showing(Bottom(lines)), c)
<1> DEFINE n == Len(lines)
           h == Height(lines)
           last == lines[n]
           full == Append(last, c)
           more == Append(Front(lines), full)
<1>1. /\ n \in Nat \ {0} /\ terminal_height \in Nat \ {0} /\ terminal_width \in Nat \ {0}
      /\ h \in 1..terminal_height /\ h <= n /\ Last(lines) = last
  BY TerminalAssumption, BottomIs DEF Paper, Last
<1>2. last \in Seq(Glyphs) /\ Len(last) \in Nat /\ full \in Seq(Glyphs) /\ Len(full) = Len(last) + 1
      /\ full[Len(last) + 1] = c /\ \A i \in 1..Len(last) : full[i] = last[i]
  BY <1>1 DEF Paper
<1> HIDE DEF full
<1>3. more \in Paper /\ Len(more) = n /\ more[n] = full /\ \A i \in 1..(n - 1) : more[i] = lines[i]
  <2>1. lines \in Seq(Seq(Glyphs)) /\ n - 1 \in Nat /\ 1 <= n
    BY <1>1 DEF Paper
  <2>2. Front(lines) \in Seq(Seq(Glyphs)) /\ Len(Front(lines)) = n - 1 /\ \A i \in 1..(n - 1) : Front(lines)[i] = lines[i]
    <3>1. Front(lines) = SubSeq(lines, 1, n - 1)
      BY DEF Front
    <3>2. n - 1 \in 0..Len(lines)
      BY <2>1
    <3> HIDE DEF n
    <3> QED
      BY <2>1, <3>1, <3>2, SubSeqProperties
  <2> QED
    BY <1>1, <1>2, <2>2 DEF Paper
<1> HIDE DEF more, n, h, last
<1>4. Height(more) = h /\ Last(more) = full
  BY <1>3 DEF Height, Last, h, n
<1>5. ASSUME NEW y \in Rows, NEW x \in Columns
      PROVE  Cell(more, y, x) = IF y = h - 1 /\ x = Len(last) THEN Cell(lines, y, x) \cup {c} ELSE Cell(lines, y, x)
  <2>0. y \in Nat /\ x \in Nat
    BY <1>1 DEF Rows, Columns
  <2>1. CASE y = h - 1
    <3>1. y < h /\ n - h + y + 1 = n
      BY <1>1, <2>0, <2>1
    <3>2. Cell(more, y, x) = IF x < Len(full) THEN {full[x + 1]} ELSE {}
      BY <3>1, <1>3, <1>4 DEF Cell
    <3>3. Cell(lines, y, x) = IF x < Len(last) THEN {last[x + 1]} ELSE {}
      BY <3>1 DEF Cell, n, h, last
    <3>4. CASE x < Len(last)
      <4>1. x + 1 \in 1..Len(last) /\ x < Len(full) /\ x # Len(last)
        BY <1>2, <2>0, <3>4
      <4> QED
        BY <4>1, <3>2, <3>3, <3>4, <1>2
    <3>5. CASE x = Len(last)
      <4>1. x < Len(full) /\ ~(x < Len(last))
        BY <1>2, <2>0, <3>5
      <4> QED
        BY <4>1, <3>2, <3>3, <3>5, <2>1, <1>2
    <3>6. CASE x > Len(last)
      <4>1. ~(x < Len(full)) /\ ~(x < Len(last)) /\ x # Len(last)
        BY <1>2, <2>0, <3>6
      <4> QED
        BY <4>1, <3>2, <3>3
    <3> QED
      BY <3>4, <3>5, <3>6, <1>2, <2>0
  <2>2. CASE y # h - 1
    <3>1. y < h => n - h + y + 1 \in 1..(n - 1)
      BY <1>1, <2>0, <2>2
    <3>2. y < h => more[n - h + y + 1] = lines[n - h + y + 1]
      BY <3>1, <1>3
    <3>3. Cell(more, y, x) = Cell(lines, y, x)
      BY <3>2, <1>3, <1>4 DEF Cell, n, h
    <3> QED
      BY <3>3, <2>2
  <2> QED
    BY <2>1, <2>2
<1> DEFINE t == Showing(Bottom(lines))
           s == [y \in Rows |-> [x \in Columns |-> Cell(lines, y, x)]]
<1>6. t = [screen |-> s, row |-> h - 1, column |-> Len(last)]
  BY ShowingIs, <1>1 DEF h
<1>7. Showing(Bottom(more)) = [screen |-> [y \in Rows |-> [x \in Columns |-> Cell(more, y, x)]],
                               row |-> h - 1, column |-> Len(full)]
  BY <1>3, <1>4, ShowingIs
<1>8. h - 1 \in Rows /\ Len(last) \in Columns
  BY <1>1, <1>2 DEF Rows, Columns
<1>9. [y \in Rows |-> [x \in Columns |-> Cell(more, y, x)]]
        = [s EXCEPT ![h - 1] = [s[h - 1] EXCEPT ![Len(last)] = s[h - 1][Len(last)] \cup {c}]]
  BY <1>5, <1>8
<1> HIDE DEF t
<1>10. Drawn(t, c) = [screen |-> [s EXCEPT ![h - 1] = [s[h - 1] EXCEPT ![Len(last)] = s[h - 1][Len(last)] \cup {c}]],
                       row |-> h - 1, column |-> Len(last) + 1]
  <2>1. Drawn(t, c) = [t EXCEPT !.screen = [t.screen EXCEPT ![t.row] =
                                  [t.screen[t.row] EXCEPT ![t.column] = t.screen[t.row][t.column] \cup {c}]],
                                !.column = t.column + 1]
    BY DEF Drawn
  <2> HIDE DEF s
  <2> QED
    BY <2>1, <1>6
<1> QED
  BY <1>1, <1>2, <1>3, <1>4, <1>7, <1>9, <1>10 DEF t, more, full

\* A character put on paper and on the screen.
LEMMA PutcharShows ==
  ASSUME NEW lines \in Paper, Len(Last(lines)) < terminal_width, NEW c \in Glyphs \cup {"\n"}
  PROVE  /\ OnPaper(lines, c) \in Paper /\ Len(Last(OnPaper(lines, c))) < terminal_width
         /\ Showing(Bottom(OnPaper(lines, c))) = Putchar(Showing(Bottom(lines)), c)
<1> DEFINE full == Append(Last(lines), c)
           more == Append(Front(lines), full)
<1>1. terminal_width \in Nat \ {0} /\ Len(<<>>) < terminal_width
  BY TerminalAssumption
<1>2. CASE c = "\n"
  <2>1. OnPaper(lines, c) = Append(lines, <<>>) /\ Putchar(Showing(Bottom(lines)), c) = Newline(Showing(Bottom(lines)))
    BY <1>2 DEF OnPaper, Putchar
  <2> QED
    BY <1>1, <2>1, NewlineShows
<1>3. CASE c # "\n"
  <2> DEFINE drawn == Drawn(Showing(Bottom(lines)), c)
  <2>1. more \in Paper /\ Last(more) = full /\ Showing(Bottom(more)) = drawn
    BY <1>3, DrawnShows
  <2>2. Last(lines) \in Seq(Glyphs) /\ c \in Glyphs
    BY <1>3 DEF Paper, Last
  <2>3. Len(full) = Len(Last(lines)) + 1 /\ Len(Last(lines)) \in Nat
    BY <2>2
  <2>4. drawn.column = Len(full)
    BY <2>1, ShowingIs
  <2>5. Putchar(Showing(Bottom(lines)), c) = IF drawn.column = terminal_width THEN Newline(drawn) ELSE drawn
    BY <1>3 DEF Putchar
  <2>6. CASE Len(full) < terminal_width
    <3>1. OnPaper(lines, c) = more
      BY <1>3, <2>6 DEF OnPaper
    <3> QED
      BY <1>1, <2>1, <2>3, <2>4, <2>5, <2>6, <3>1
  <2>7. CASE Len(full) = terminal_width
    <3>1. OnPaper(lines, c) = Front(lines) \o <<full, <<>>>>
      BY <1>1, <1>3, <2>7 DEF OnPaper
    <3>2. Front(lines) \o <<full, <<>>>> = Append(more, <<>>)
      <4>1. Front(lines) \in Seq(Seq(Glyphs))
        <5>1. lines \in Seq(Seq(Glyphs)) /\ Len(lines) - 1 \in 0..Len(lines)
          BY DEF Paper
        <5> QED
          BY <5>1, SubSeqProperties DEF Front
      <4>2. full \in Seq(Glyphs) /\ <<>> \in Seq(Glyphs)
        BY <2>2
      <4> HIDE DEF full
      <4> QED
        BY <4>1, <4>2
    <3>3. Showing(Bottom(Append(more, <<>>))) = Newline(drawn) /\ Append(more, <<>>) \in Paper
          /\ Last(Append(more, <<>>)) = <<>>
      BY <2>1, NewlineShows
    <3> QED
      BY <1>1, <2>4, <2>5, <2>7, <3>1, <3>2, <3>3
  <2> QED
    BY <1>1, <2>3, <2>6, <2>7
<1> QED
  BY <1>2, <1>3

TerminalInv ==
  /\ text \in Seq(Glyphs \cup {"\n"})
  /\ Lines(text) \in Paper /\ Len(Last(Lines(text))) < terminal_width
  /\ ScreenShows

LEMMA ClearedShows == Lines(<<>>) \in Paper /\ Len(Last(Lines(<<>>))) < terminal_width /\ Cleared = Showing(Bottom(Lines(<<>>)))
<1> DEFINE none == <<<<>>>>
<1>1. Lines(<<>>) = none
  BY NoLines
<1>2. none \in Paper /\ Len(none) = 1 /\ Last(none) = <<>>
  <2>1. <<>> \in Seq(Glyphs)
    OBVIOUS
  <2> QED
    BY <2>1 DEF Paper, Last
<1>3. terminal_width \in Nat \ {0} /\ terminal_height \in Nat \ {0}
  BY TerminalAssumption
<1>4. Height(none) = 1
  BY <1>2, <1>3 DEF Height
<1> HIDE DEF none
<1>5. \A y \in Rows, x \in Columns : Cell(none, y, x) = {}
  <2> SUFFICES ASSUME NEW y \in Rows, NEW x \in Columns PROVE Cell(none, y, x) = {}
    OBVIOUS
  <2>1. y \in Nat /\ x \in Nat
    BY <1>3 DEF Rows, Columns
  <2>2. y < 1 => 1 - 1 + y + 1 = 1
    BY <2>1
  <2>3. none[1] = <<>>
    BY DEF none
  <2>4. ~(x < Len(<<>>))
    BY <2>1
  <2> QED
    BY <1>2, <1>4, <2>2, <2>3, <2>4 DEF Cell
<1>6. Showing(Bottom(none)) = [screen |-> [y \in Rows |-> [x \in Columns |-> {}]], row |-> 0, column |-> 0]
  BY <1>2, <1>4, <1>5, ShowingIs
<1> QED
  BY <1>1, <1>2, <1>3, <1>6 DEF Cleared, BlankRow

LEMMA TerminalStart == Init => TerminalInv
<1> SUFFICES ASSUME Init PROVE TerminalInv
  OBVIOUS
<1>1. text = <<>> /\ terminal = Cleared
  BY DEF Init
<1> QED
  BY <1>1, ClearedShows DEF TerminalInv, ScreenShows

LEMMA TerminalStep == TerminalInv /\ [Next]_vars => TerminalInv'
<1> SUFFICES ASSUME TerminalInv, [Next]_vars PROVE TerminalInv'
  OBVIOUS
<1>1. ASSUME NEW c \in Glyphs \cup {"\n"}, TerminalPutchar(c) PROVE TerminalInv'
  <2>1. text' = Append(text, c) /\ terminal' = Putchar(terminal, c)
    BY <1>1 DEF TerminalPutchar
  <2>2. text' \in Seq(Glyphs \cup {"\n"}) /\ Lines(text') = OnPaper(Lines(text), c)
    BY <2>1, LinesAre DEF TerminalInv
  <2>3. /\ OnPaper(Lines(text), c) \in Paper /\ Len(Last(OnPaper(Lines(text), c))) < terminal_width
        /\ Showing(Bottom(OnPaper(Lines(text), c))) = Putchar(Showing(Bottom(Lines(text))), c)
    BY PutcharShows DEF TerminalInv
  <2> QED
    BY <2>1, <2>2, <2>3 DEF TerminalInv, ScreenShows
<1>2. CASE TerminalClear
  BY <1>2, ClearedShows DEF TerminalClear, TerminalInv, ScreenShows
<1>3. CASE UNCHANGED <<terminal, text>>
  BY <1>3 DEF TerminalInv, ScreenShows
<1>4. ASSUME ~UNCHANGED <<terminal, text>>
      PROVE  TerminalClear \/ \E c \in Glyphs \cup {"\n"} : TerminalPutchar(c)
  BY <1>4 DEF Next, vars, terminalVars, AskCanonicize, AskTarfs, AskClock, AskPrint, AskFormat, Ask, Answer, Write, AddOutput,
              LogPrintf, ListStep
<1> QED
  BY <1>1, <1>2, <1>3, <1>4

\* The terminal shows the last lines of what terminal_putchar was given since
\* the screen was cleared, each where it belongs.
THEOREM TerminalShows == Spec => []ScreenShows
<1>1. TerminalInv => ScreenShows
  BY DEF TerminalInv
<1> QED
  BY <1>1, TerminalStart, TerminalStep, PTL DEF Spec

----------------------------------------------------------------------------
(* Paths                                                                   *)

LEMMA PathFolds ==
  /\ \A from, path : Led(from, path) = Going!Folded(from, path)
  /\ \A path, absolute, cwd :
       VfsCanonicizePath(path, absolute, cwd)
         = Skipping!FoldedRight(IF absolute THEN path ELSE cwd \o path, [path |-> <<>>, skip |-> 0]).path
<1>1. \A from, path : Led(from, path) = Going!Folded(from, path)
  BY DEF Led, Going!Folded, FoldLeft, Going!FoldLeft, MapThenFoldSet, Going!MapThenFoldSet, Max, Going!Max
<1>2. \A all, base : FoldRight(Moved, all, base) = Skipping!FoldedRight(all, base)
  BY DEF FoldRight, Skipping!FoldedRight, Skipping!FoldRight, MapThenFoldSet, Skipping!MapThenFoldSet, Min, Skipping!Min
<1> QED
  BY <1>1, <1>2 DEF VfsCanonicizePath

\* The directory that many levels up; the root is above itself.
Up(at, k) == SubSeq(at, 1, Len(at) - k)

\* Its elements.
LEMMA UpEach ==
  ASSUME NEW U, NEW at \in Seq(U), NEW k \in Nat
  PROVE  /\ Up(at, k) \in Seq(U)
         /\ Len(Up(at, k)) = IF k <= Len(at) THEN Len(at) - k ELSE 0
         /\ \A i \in 1..(Len(at) - k) : Up(at, k)[i] = at[i]
<1>1. Len(at) \in Nat /\ Len(at) - k \in Int /\ 1 \in Int /\ \A i \in 1..(Len(at) - k) : at[i] \in U
  OBVIOUS
<1>2. /\ Up(at, k) \in Seq(U)
      /\ Len(Up(at, k)) = IF 1 <= Len(at) - k THEN Len(at) - k - 1 + 1 ELSE 0
      /\ \A i \in 1..(Len(at) - k - 1 + 1) : Up(at, k)[i] = at[1 + i - 1]
  BY <1>1, SubSeqProperties DEF Up
<1>3. Len(at) - k - 1 + 1 = Len(at) - k /\ \A i \in 1..(Len(at) - k) : 1 + i - 1 = i
  BY <1>1, SMTT(40)
<1> HIDE DEF Up
<1>4. \A i \in 1..(Len(at) - k) : Up(at, k)[i] = at[i]
  BY <1>2, <1>3
<1>5. Len(Up(at, k)) = IF k <= Len(at) THEN Len(at) - k ELSE 0
  BY <1>1, <1>2
<1> QED
  BY <1>2, <1>4, <1>5

LEMMA UpIs ==
  ASSUME NEW U, NEW at \in Seq(U), NEW k \in Nat
  PROVE  /\ Up(at, 0) = at /\ Up(<<>>, k) = <<>>
         /\ Up(at, k + 1) = Up(IF at = <<>> THEN at ELSE Front(at), k)
         /\ \A dir \in U : Up(Append(at, dir), k + 1) = Up(at, k)
<1>1. Up(at, 0) = at
  <2>1. Up(at, 0) \in Seq(U) /\ Len(Up(at, 0)) = Len(at) /\ \A i \in 1..Len(at) : Up(at, 0)[i] = at[i]
    BY UpEach, 0 \in Nat
  <2> QED
    BY <2>1, SeqEqual
<1>2. \A q \in Nat : Up(<<>>, q) = <<>>
  <2> SUFFICES ASSUME NEW q \in Nat PROVE Up(<<>>, q) = <<>>
    OBVIOUS
  <2> DEFINE root == <<>>
  <2>1. root \in Seq(U) /\ Len(root) = 0
    OBVIOUS
  <2> HIDE DEF root, Up
  <2>2. Up(root, q) \in Seq(U) /\ Len(Up(root, q)) = IF q <= Len(root) THEN Len(root) - q ELSE 0
    BY <2>1, UpEach
  <2>3. Len(Up(root, q)) = 0
    BY <2>1, <2>2
  <2>4. Up(root, q) = <<>>
    BY <2>2, <2>3, EmptySeq
  <2> QED
    BY <2>4 DEF root
<1>3. ASSUME at # <<>> PROVE Up(at, k + 1) = Up(Front(at), k)
  <2>1. Len(at) \in Nat \ {0} /\ Len(at) - 1 \in Int
    BY <1>3
  <2>2. /\ Front(at) \in Seq(U) /\ Len(Front(at)) = Len(at) - 1
        /\ \A i \in 1..(Len(at) - 1) : Front(at)[i] = at[i]
    <3>1. Front(at) = Up(at, 1)
      BY DEF Front, Up
    <3>2. 1 \in Nat /\ 1 <= Len(at)
      BY <2>1
    <3> HIDE DEF Up
    <3> QED
      BY <3>1, <3>2, UpEach
  <2>3. /\ Up(Front(at), k) \in Seq(U)
        /\ Len(Up(Front(at), k)) = IF k <= Len(at) - 1 THEN Len(at) - 1 - k ELSE 0
        /\ \A i \in 1..(Len(at) - 1 - k) : Up(Front(at), k)[i] = Front(at)[i]
    BY <2>2, UpEach
  <2>4. /\ Up(at, k + 1) \in Seq(U)
        /\ Len(Up(at, k + 1)) = IF k + 1 <= Len(at) THEN Len(at) - (k + 1) ELSE 0
        /\ \A i \in 1..(Len(at) - (k + 1)) : Up(at, k + 1)[i] = at[i]
    BY UpEach, k + 1 \in Nat
  <2>5. Len(Up(at, k + 1)) = Len(Up(Front(at), k))
    BY <2>1, <2>3, <2>4
  <2>6. ASSUME NEW i \in 1..Len(Up(at, k + 1)) PROVE Up(at, k + 1)[i] = Up(Front(at), k)[i]
    <3>1. i \in 1..(Len(at) - 1 - k) /\ i \in 1..(Len(at) - (k + 1)) /\ i \in 1..(Len(at) - 1)
      BY <2>1, <2>4, <2>6
    <3> QED
      BY <3>1, <2>2, <2>3, <2>4
  <2> HIDE DEF Up
  <2> QED
    BY <2>3, <2>4, <2>5, <2>6, SeqEqual
<1>4. ASSUME NEW dir \in U PROVE Up(Append(at, dir), k + 1) = Up(at, k)
  <2> DEFINE more == Append(at, dir)
  <2>1. more \in Seq(U) /\ Len(more) = Len(at) + 1 /\ Len(at) \in Nat /\ \A i \in 1..Len(at) : more[i] = at[i]
    OBVIOUS
  <2> HIDE DEF more
  <2>2. /\ Up(more, k + 1) \in Seq(U)
        /\ Len(Up(more, k + 1)) = IF k + 1 <= Len(more) THEN Len(more) - (k + 1) ELSE 0
        /\ \A i \in 1..(Len(more) - (k + 1)) : Up(more, k + 1)[i] = more[i]
    BY <2>1, UpEach, k + 1 \in Nat
  <2>3. /\ Up(at, k) \in Seq(U) /\ Len(Up(at, k)) = IF k <= Len(at) THEN Len(at) - k ELSE 0
        /\ \A i \in 1..(Len(at) - k) : Up(at, k)[i] = at[i]
    BY UpEach
  <2>4. Len(Up(more, k + 1)) = Len(Up(at, k))
    BY <2>1, <2>2, <2>3
  <2>5. ASSUME NEW i \in 1..Len(Up(at, k)) PROVE Up(more, k + 1)[i] = Up(at, k)[i]
    <3>1. i \in 1..(Len(at) - k) /\ i \in 1..(Len(more) - (k + 1)) /\ i \in 1..Len(at)
      BY <2>1, <2>3, <2>5
    <3> QED
      BY <3>1, <2>1, <2>2, <2>3
  <2> HIDE DEF Up
  <2> QED
    BY <2>2, <2>3, <2>4, <2>5, SeqEqual DEF more
<1> HIDE DEF Up
<1>5. Up(at, k + 1) = Up(IF at = <<>> THEN at ELSE Front(at), k)
  BY <1>2, <1>3, k + 1 \in Nat
<1> QED
  BY <1>1, <1>2, <1>4, <1>5

\* What the walk from the end carries.
Skips(U) == [path : Seq(U), skip : Nat]
\* Where it leads, from a directory it has not yet come to.
Leads(at, done) == Up(at, done.skip) \o done.path

\* One component: what is skipped and put in front by the walk from the end
\* is what going there from the root does.
LEMMA BothWays ==
  ASSUME NEW U, NEW at \in Seq(U), NEW dir \in U, NEW done \in Skips(U)
  PROVE  /\ Gone(at, dir) \in Seq(U) /\ Moved(dir, done) \in Skips(U)
         /\ Leads(Gone(at, dir), done) = Leads(at, Moved(dir, done))
<1> DEFINE more == Moved(dir, done)
<1>0. done.path \in Seq(U) /\ done.skip \in Nat
  BY DEF Skips
<1> USE DEF Skips, Leads
<1>1. CASE dir \in Staying
  BY <1>1 DEF Moved, Gone
<1>2. CASE dir \notin Staying /\ dir = ".."
  <2>1. more = [done EXCEPT !.skip = @ + 1]
    BY <1>2 DEF Moved
  <2>2. more \in Skips(U) /\ more.skip = done.skip + 1 /\ more.path = done.path
    BY <2>1
  <2>3. Gone(at, dir) = IF at = <<>> THEN at ELSE Front(at)
    BY <1>2 DEF Gone
  <2>4. Up(at, done.skip + 1) = Up(Gone(at, dir), done.skip)
    BY <1>0, <2>3, UpIs
  <2>5. Gone(at, dir) \in Seq(U)
    <3>1. Front(at) = Up(at, 1) /\ 1 \in Nat
      BY DEF Up, Front
    <3>2. Front(at) \in Seq(U)
      BY <3>1, UpEach
    <3> QED
      BY <2>3, <3>2
  <2> HIDE DEF more
  <2> QED
    BY <2>2, <2>4, <2>5 DEF more
<1>3. CASE dir \notin Staying /\ dir # ".." /\ done.skip > 0
  <2>1. more = [done EXCEPT !.skip = @ - 1]
    BY <1>3 DEF Moved
  <2>2. more \in Skips(U) /\ more.skip + 1 = done.skip /\ more.path = done.path /\ more.skip \in Nat
    BY <1>3, <2>1
  <2>3. Gone(at, dir) = Append(at, dir) /\ Append(at, dir) \in Seq(U)
    BY <1>3 DEF Gone
  <2> HIDE DEF more
  <2>4. Up(Append(at, dir), more.skip + 1) = Up(at, more.skip)
    BY <2>2, UpIs
  <2> QED
    BY <2>2, <2>3, <2>4 DEF more
<1>4. CASE dir \notin Staying /\ dir # ".." /\ ~(done.skip > 0)
  <2> DEFINE longer == <<dir>> \o done.path
  <2>1. more = [done EXCEPT !.path = longer]
    BY <1>4 DEF Moved
  <2>2. Append(at, dir) \o done.path = at \o longer /\ longer \in Seq(U)
    BY <1>0
  <2> HIDE DEF longer
  <2>3. more \in Skips(U) /\ more.skip = 0 /\ done.skip = 0 /\ more.path = longer
    BY <1>0, <1>4, <2>1, <2>2
  <2>4. Gone(at, dir) = Append(at, dir) /\ Append(at, dir) \in Seq(U)
    BY <1>4 DEF Gone
  <2>5. Up(Append(at, dir), 0) = Append(at, dir) /\ Up(at, 0) = at
    BY <2>4, UpIs, 0 \in Nat
  <2> HIDE DEF more
  <2> QED
    BY <2>2, <2>3, <2>4, <2>5 DEF more
<1> QED
  BY <1>1, <1>2, <1>3, <1>4

\* vfs_canonicize_path goes where the path leads.
LEMMA SameWay ==
  ASSUME NEW U, NEW all \in Seq(U)
  PROVE  Skipping!FoldedRight(all, [path |-> <<>>, skip |-> 0]).path = Led(<<>>, all)
<1> DEFINE n == Len(all)
           none == [path |-> <<>>, skip |-> 0]
<1>1. n \in Nat /\ DOMAIN all = 1..n /\ \A i \in 1..n : all[i] \in U
  OBVIOUS
<1> HIDE DEF n
<1>2. PICK there : Going!Runs(there, <<>>, all, n) /\ Going!Folded(<<>>, all) = there[n]
  BY <1>1, Going!FoldedIs
<1>3. there[0] = <<>> /\ \A i \in 1..n : there[i] = Gone(there[i - 1], all[i])
  BY <1>2 DEF Going!Runs
<1>4. PICK back : Skipping!RunsRight(back, none, all, n) /\ Skipping!FoldedRight(all, none) = back[1]
  BY <1>1, Skipping!FoldedRightIs
<1>5. back[n + 1] = none /\ \A i \in 1..n : back[i] = Moved(all[i], back[i + 1])
  BY <1>4 DEF Skipping!RunsRight
<1>6. \A i \in 0..n : there[i] \in Seq(U)
  <2> DEFINE A == {i \in 0..n : there[i] \in Seq(U)}
  <2>1. 0 \in A
    <3>1. <<>> \in Seq(U) /\ 0 \in 0..n
      BY <1>1
    <3> QED
      BY <3>1, <1>3
  <2>2. ASSUME NEW i \in 1..n, i - 1 \in A PROVE i \in A
    <3>0. [path |-> <<>>, skip |-> 0] \in Skips(U)
      BY DEF Skips
    <3>1. there[i] \in Seq(U)
      BY <2>2, <1>1, <1>3, <3>0, BothWays
    <3> QED
      BY <3>1
  <2> HIDE DEF A
  <2>3. 0..n \subseteq A
    BY <1>1, <2>1, <2>2, Going!UpTo
  <2> QED
    BY <2>3 DEF A
<1> DEFINE Meets(i) == /\ back[i] \in Skips(U)
                       /\ Leads(there[i - 1], back[i]) = there[n]
           B == {k \in 0..n : Meets(n + 1 - k)}
<1>7. 0 \in B
  <2>1. n + 1 - 0 = n + 1 /\ n + 1 - 1 = n
    BY <1>1
  <2>2. there[n] \in Seq(U)
    BY <1>1, <1>6
  <2>3. Up(there[n], 0) = there[n] /\ there[n] \o <<>> = there[n]
    BY <2>2, UpIs, 0 \in Nat
  <2>4. none \in Skips(U) /\ Leads(there[n], none) = there[n]
    BY <2>3 DEF Skips, Leads
  <2> HIDE DEF none
  <2>5. back[n + 1] \in Skips(U) /\ Leads(there[n], back[n + 1]) = there[n]
    BY <1>5, <2>4
  <2>6. Meets(n + 1)
    BY <1>1, <2>1, <2>5
  <2> HIDE DEF Meets
  <2> QED
    BY <1>1, <2>1, <2>6
<1>8. ASSUME NEW k \in 1..n, k - 1 \in B PROVE k \in B
  <2> DEFINE i == n + 1 - k
  <2>1. i \in 1..n /\ n + 1 - (k - 1) = i + 1 /\ i + 1 - 1 = i /\ i - 1 \in 0..n
    BY <1>1
  <2> HIDE DEF i
  <2>2. back[i + 1] \in Skips(U) /\ Leads(there[i], back[i + 1]) = there[n]
    <3>1. Meets(n + 1 - (k - 1))
      BY <1>8
    <3> HIDE DEF Meets
    <3>2. Meets(i + 1)
      BY <2>1, <3>1
    <3> QED
      BY <1>1, <2>1, <3>2 DEF Meets
  <2>3. there[i] = Gone(there[i - 1], all[i]) /\ back[i] = Moved(all[i], back[i + 1])
    BY <1>3, <1>5, <2>1
  <2>4. there[i - 1] \in Seq(U) /\ all[i] \in U
    BY <1>1, <1>6, <2>1
  <2>5. /\ Moved(all[i], back[i + 1]) \in Skips(U)
        /\ Leads(Gone(there[i - 1], all[i]), back[i + 1]) = Leads(there[i - 1], Moved(all[i], back[i + 1]))
    <3> DEFINE at == there[i - 1]
               dir == all[i]
               done == back[i + 1]
    <3>1. at \in Seq(U) /\ dir \in U /\ done \in Skips(U)
      BY <2>2, <2>4
    <3> HIDE DEF at, dir, done
    <3>2. /\ Moved(dir, done) \in Skips(U)
          /\ Leads(Gone(at, dir), done) = Leads(at, Moved(dir, done))
      BY <3>1, BothWays
    <3> QED
      BY <3>2 DEF at, dir, done
  <2>6. Meets(i)
    BY <2>2, <2>3, <2>5
  <2> HIDE DEF Meets
  <2> QED
    BY <2>6 DEF i
<1>9. n \in B
  <2> HIDE DEF B
  <2>1. 0..n \subseteq B
    BY <1>1, <1>7, <1>8, Going!UpTo
  <2> QED
    BY <2>1, <1>1
<1>10. back[1] \in Skips(U) /\ Leads(there[0], back[1]) = there[n]
  <2>1. n + 1 - n = 1 /\ 1 - 1 = 0
    BY <1>1
  <2> QED
    BY <1>9, <2>1
<1>11. Up(<<>>, back[1].skip) = <<>> /\ <<>> \o back[1].path = back[1].path
  <2>1. back[1].skip \in Nat /\ back[1].path \in Seq(U) /\ <<>> \in Seq(U)
    BY <1>10 DEF Skips
  <2> QED
    BY <2>1, UpIs, ConcatEmptySeq
<1>12. back[1].path = there[n]
  BY <1>3, <1>10, <1>11 DEF Leads
<1> QED
  BY <1>2, <1>4, <1>12, PathFolds

\* A path behind another leads on from where that leads.
LEMMA LedOn ==
  ASSUME NEW U, NEW first \in Seq(U), NEW second \in Seq(U), NEW from
  PROVE  Led(from, first \o second) = Led(Led(from, first), second)
<1> DEFINE n == Len(first)
           m == Len(second)
           both == first \o second
<1>1. /\ n \in Nat /\ m \in Nat /\ n + m \in Nat
      /\ DOMAIN first = 1..n /\ DOMAIN second = 1..m /\ DOMAIN both = 1..(n + m)
      /\ \A i \in 1..n : both[i] = first[i]
      /\ \A i \in 1..m : both[n + i] = second[i]
  OBVIOUS
<1> HIDE DEF n, m, both
<1>2. PICK run : Going!Runs(run, from, both, n + m) /\ Going!Folded(from, both) = run[n + m]
  BY <1>1, Going!FoldedIs
<1> DEFINE start == [i \in 0..n |-> run[i]]
           rest  == [i \in 0..m |-> run[n + i]]
<1>3. run[0] = from /\ \A i \in 1..(n + m) : run[i] = Gone(run[i - 1], both[i])
  BY <1>2 DEF Going!Runs
<1>4. Going!Runs(start, from, first, n) /\ start[n] = run[n]
  <2>1. start[0] = from /\ start[n] = run[n] /\ DOMAIN start = 0..n
    BY <1>1, <1>3
  <2>2. ASSUME NEW i \in 1..n PROVE start[i] = Gone(start[i - 1], first[i])
    <3>1. i \in 1..(n + m) /\ i \in 0..n /\ i - 1 \in 0..n
      BY <1>1
    <3> QED
      BY <1>1, <1>3, <3>1
  <2> HIDE DEF start
  <2> QED
    BY <2>1, <2>2 DEF Going!Runs
<1>5. Going!Runs(rest, run[n], second, m) /\ rest[m] = run[n + m]
  <2>1. rest[0] = run[n] /\ rest[m] = run[n + m] /\ DOMAIN rest = 0..m
    <3>1. n + 0 = n /\ 0 \in 0..m /\ m \in 0..m
      BY <1>1
    <3> QED
      BY <3>1
  <2>2. ASSUME NEW i \in 1..m PROVE rest[i] = Gone(rest[i - 1], second[i])
    <3>1. n + i \in 1..(n + m) /\ i \in 0..m /\ i - 1 \in 0..m /\ n + i - 1 = n + (i - 1)
      BY <1>1
    <3>2. run[n + i] = Gone(run[n + i - 1], second[i])
      BY <1>1, <1>3, <3>1
    <3> QED
      BY <3>1, <3>2
  <2> HIDE DEF rest
  <2> QED
    BY <2>1, <2>2 DEF Going!Runs
<1> HIDE DEF start, rest
<1>6. Led(from, first) = run[n]
  BY <1>1, <1>4, Going!FoldedBy, PathFolds
<1>7. Led(run[n], second) = run[n + m]
  BY <1>1, <1>5, Going!FoldedBy, PathFolds
<1> QED
  BY <1>2, <1>6, <1>7, PathFolds DEF both

\* What callers of vfs_canonicize_path pass.
AskedPaths ==
  call.routine = "vfs_canonicize_path" =>
    call.args.path \in Seq(Components) /\ call.args.cwd \in Seq(STRING)

LEMMA PathsAsked == Spec => []AskedPaths
<1>1. Init => AskedPaths
  BY DEF Init, AskedPaths, Idle
<1>2. AskedPaths /\ [Next]_vars => AskedPaths'
  <2> SUFFICES ASSUME AskedPaths, [Next]_vars PROVE AskedPaths'
    OBVIOUS
  <2>1. CASE AskCanonicize
    <3>1. PICK path \in PathsOver(Components), absolute \in BOOLEAN, cwd \in Cwds :
            Ask("vfs_canonicize_path", [path |-> path, absolute |-> absolute, cwd |-> cwd])
      BY <2>1 DEF AskCanonicize
    <3>2. call'.args = [path |-> path, absolute |-> absolute, cwd |-> cwd]
      BY <3>1 DEF Ask
    <3>3. path \in Seq(Components) /\ cwd \in Seq(STRING)
      <4>1. PICK n \in 0..MaxComponents : path \in [1..n -> Components]
        BY DEF PathsOver
      <4>2. n \in Nat
        BY LibraryAssumption
      <4> QED
        BY <4>1, <4>2, LibraryAssumption
    <3> QED
      BY <3>2, <3>3 DEF AskedPaths
  <2>2. CASE AskTarfs \/ AskClock \/ AskPrint \/ AskFormat
    <3>1. \E routine \in {"tarfs", "read_cmos", "printf", "_vsnprintf"} : \E args : Ask(routine, args)
      BY <2>2, Zenon DEF AskTarfs, AskClock, AskPrint, AskFormat
    <3>2. call'.routine \in {"tarfs", "read_cmos", "printf", "_vsnprintf"}
      BY <3>1 DEF Ask
    <3> QED
      BY <3>2 DEF AskedPaths
  <2>3. CASE Answer
    BY <2>3 DEF Answer, AskedPaths, Idle
  <2>4. CASE UNCHANGED call
    BY <2>4 DEF AskedPaths
  <2> QED
    BY <2>1, <2>2, <2>3, <2>4 DEF Next, vars, Write, TerminalPutchar, TerminalClear, AddOutput, LogPrintf, ListStep
<1> QED
  BY <1>1, <1>2, PTL DEF Spec

\* vfs_canonicize_path, which goes through a path of any length from its end
\* to its start, arrives where the path leads from the root.
THEOREM PathsCanonical == Spec => []CanonicalRight
<1>1. AskedPaths => CanonicalRight
  <2> SUFFICES ASSUME AskedPaths, call.routine = "vfs_canonicize_path"
               PROVE VfsCanonicizePath(call.args.path, call.args.absolute, call.args.cwd)
                       = Led(IF call.args.absolute THEN <<>> ELSE Led(<<>>, call.args.cwd), call.args.path)
    BY DEF CanonicalRight
  <2> DEFINE path == call.args.path
             cwd == call.args.cwd
             absolute == call.args.absolute
             All == Components \cup STRING
  <2>1. path \in Seq(All) /\ cwd \in Seq(All) /\ cwd \o path \in Seq(All)
    <3>1. path \in Seq(All) /\ cwd \in Seq(All)
      BY SeqMonotonic DEF AskedPaths
    <3> HIDE DEF path, cwd, All
    <3> QED
      BY <3>1, ConcatProperties
  <2> HIDE DEF path, cwd, absolute, All
  <2>2. Led(<<>>, cwd \o path) = Led(Led(<<>>, cwd), path)
    BY <2>1, LedOn
  <2>3. VfsCanonicizePath(path, absolute, cwd) = Led(<<>>, IF absolute THEN path ELSE cwd \o path)
    BY <2>1, PathFolds, SameWay
  <2> QED
    BY <2>2, <2>3 DEF path, cwd, absolute
<1> QED
  BY <1>1, PathsAsked, PTL

----------------------------------------------------------------------------
(* A file of tmpfs                                                         *)

\* Division by its quotient and remainder.
LEMMA DivIs ==
  ASSUME NEW b \in Nat \ {0}, NEW x \in Int, NEW q \in Int, NEW r \in 0..(b - 1), x = q * b + r
  PROVE  x \div b = q /\ x % b = r
OBVIOUS

\* Places in the first blocks.
LEMMA BlockIs ==
  /\ BLOCK_SIZE \in Nat \ {0, 1}
  /\ \A x \in 0..(BLOCK_SIZE - 1) : x \div BLOCK_SIZE = 0 /\ x % BLOCK_SIZE = x
  /\ \A x \in BLOCK_SIZE..(2 * BLOCK_SIZE - 1) : x \div BLOCK_SIZE = 1 /\ x % BLOCK_SIZE = x - BLOCK_SIZE
  /\ (2 * BLOCK_SIZE) % BLOCK_SIZE = 0 /\ (2 * BLOCK_SIZE) \div BLOCK_SIZE = 2
<1> DEFINE b == BLOCK_SIZE
<1>1. b \in Nat \ {0, 1}
  BY BlocksAssumption
<1> HIDE DEF b
<1>2. ASSUME NEW x \in 0..(b - 1) PROVE x \div b = 0 /\ x % b = x
  <2>1. x = 0 * b + x
    BY <1>1
  <2> QED
    BY <1>1, <2>1, DivIs
<1>3. ASSUME NEW x \in b..(2 * b - 1) PROVE x \div b = 1 /\ x % b = x - b
  <2>1. x = 1 * b + (x - b) /\ x - b \in 0..(b - 1) /\ x \in Int
    BY <1>1
  <2> QED
    BY <1>1, <2>1, DivIs
<1>4. (2 * b) % b = 0 /\ (2 * b) \div b = 2
  <2>1. 2 * b = 2 * b + 0 /\ 0 \in 0..(b - 1) /\ 2 * b \in Int
    BY <1>1
  <2> QED
    BY <1>1, <2>1, DivIs
<1> QED
  BY <1>1, <1>2, <1>3, <1>4 DEF b

\* Numbers that wrap around, and how many blocks there could be.
LEMMA SizeIs ==
  /\ SIZE_MAX \in Nat /\ SIZE_MAX > 3 * BLOCK_SIZE
  /\ \A x \in 0..SIZE_MAX : Size(x) = x
  /\ \A x \in (-SIZE_MAX)..(-1) : Size(x) = x + SIZE_MAX + 1
  /\ SIZE_MAX \div BLOCK_SIZE \in Nat /\ SIZE_MAX \div BLOCK_SIZE >= 3
<1> DEFINE n == SIZE_MAX + 1  b == BLOCK_SIZE  q == n \div b
<1>1. n \in Nat \ {0} /\ b \in Nat \ {0, 1} /\ SIZE_MAX > 3 * b /\ n % b = 0 /\ SIZE_MAX \in Nat /\ SIZE_MAX = n - 1
  BY BlocksAssumption
<1> HIDE DEF n, b
<1>2. ASSUME NEW x \in 0..SIZE_MAX PROVE x % n = x
  <2>1. x = 0 * n + x /\ x \in 0..(n - 1)
    BY <1>1
  <2> QED
    BY <1>1, <2>1, DivIs
<1>3. ASSUME NEW x \in (-SIZE_MAX)..(-1) PROVE x % n = x + SIZE_MAX + 1
  <2>1. x = (-1) * n + (x + n) /\ x + n \in 0..(n - 1) /\ x \in Int /\ -1 \in Int /\ x + n = x + SIZE_MAX + 1
    BY <1>1
  <2>2. x % n = x + n
    BY <1>1, <2>1, DivIs
  <2> QED
    BY <2>1, <2>2
<1>4. n = q * b /\ q \in Int
  <2>1. q \in Int /\ n = q * b + (n % b)
    BY <1>1
  <2> QED
    BY <1>1, <2>1
<1> HIDE DEF q
<1>5. q >= 4
  <2>1. q * b > 3 * b
    BY <1>1, <1>4
  <2>2. ASSUME q <= 3 PROVE FALSE
    <3>1. q * b <= 3 * b
      BY <1>1, <1>4, <2>2
    <3> QED
      BY <1>1, <1>4, <2>1, <3>1
  <2> QED
    BY <1>4, <2>2
<1>6. SIZE_MAX \div b = q - 1
  <2>1. SIZE_MAX = (q - 1) * b + (b - 1) /\ b - 1 \in 0..(b - 1) /\ q - 1 \in Int /\ SIZE_MAX \in Int
    BY <1>1, <1>4
  <2>2. ASSUME NEW x \in Int, NEW y \in Int, NEW r \in 0..(b - 1), x = y * b + r PROVE x \div b = y
    BY <1>1, <2>2, DivIs
  <2> QED
    BY <2>1, <2>2
<1> QED
  BY <1>1, <1>2, <1>3, <1>4, <1>5, <1>6 DEF Size, n, b

\* A range inside the first block is one piece of it.
LEMMA PieceIs ==
  ASSUME NEW offset \in Nat, NEW size \in Nat, offset + size < BLOCK_SIZE, offset > 0 \/ size > 0
  PROVE  DOMAIN Pieces(offset, size) = 1..1 /\ Pieces(offset, size)[1] = Piece(0, offset, size)
<1>1. BLOCK_SIZE \in Nat \ {0, 1} /\ SIZE_MAX \in Nat /\ SIZE_MAX > 3 * BLOCK_SIZE
  BY BlockIs, SizeIs
<1>2. offset \div BLOCK_SIZE = 0 /\ offset % BLOCK_SIZE = offset
  BY <1>1, BlockIs
<1>3. Size(offset + size - 1) = offset + size - 1
  <2>1. offset + size - 1 \in 0..SIZE_MAX
    BY <1>1
  <2> QED
    BY <2>1, SizeIs
<1>4. (offset + size - 1) \div BLOCK_SIZE = 0
  <2>1. offset + size - 1 \in 0..(BLOCK_SIZE - 1)
    BY <1>1
  <2> QED
    BY <2>1, BlockIs
<1>5. Size(((offset + size) % BLOCK_SIZE) - offset) = size
  <2>1. offset + size \in 0..(BLOCK_SIZE - 1) /\ offset + size - offset = size /\ size \in 0..SIZE_MAX
    BY <1>1
  <2>2. (offset + size) % BLOCK_SIZE = offset + size
    BY <2>1, BlockIs
  <2> QED
    BY <2>1, <2>2, SizeIs
<1> QED
  BY <1>2, <1>3, <1>4, <1>5 DEF Pieces

\* The other ranges writes have: to the end of the block, over it, and behind it.
LEMMA OtherPieces ==
  ASSUME NEW offset \in 0..BLOCK_SIZE, NEW size \in 0..BLOCK_SIZE, offset + size >= BLOCK_SIZE
  PROVE  /\ offset < BLOCK_SIZE /\ offset + size = BLOCK_SIZE =>
              DOMAIN Pieces(offset, size) = 1..1 /\ Pieces(offset, size)[1] = Piece(0, offset, Size(0 - offset))
         /\ offset < BLOCK_SIZE /\ offset + size > BLOCK_SIZE =>
              /\ DOMAIN Pieces(offset, size) = 1..2
              /\ Pieces(offset, size)[2] = Piece(1, 0, offset + size - BLOCK_SIZE)
         /\ offset = BLOCK_SIZE /\ size = 0 => DOMAIN Pieces(offset, size) = {}
         /\ offset = BLOCK_SIZE /\ size > 0 =>
              /\ DOMAIN Pieces(offset, size) = 1..1
              /\ Pieces(offset, size)[1] = Piece(1, 0, IF size = BLOCK_SIZE THEN 0 ELSE size)
<1> DEFINE b == BLOCK_SIZE  last == Size(offset + size - 1) \div b  over == (offset + size) % b
<1>1. b \in Nat \ {0, 1} /\ SIZE_MAX \in Nat /\ SIZE_MAX > 3 * b
  BY BlockIs, SizeIs
<1>2. \A x \in 0..(2 * b) : Size(x) = x
  BY <1>1, SizeIs
<1>3. \A x \in 0..(b - 1) : x \div b = 0 /\ x % b = x
  BY BlockIs
<1>4. \A x \in b..(2 * b - 1) : x \div b = 1 /\ x % b = x - b
  BY BlockIs
<1>5. (2 * b) % b = 0
  BY BlockIs
<1>6. Size(offset + size - 1) = offset + size - 1
  BY <1>1, <1>2
<1>7. offset + size = b => last = 0 /\ over = 0
  BY <1>1, <1>3, <1>4, <1>6
<1>8. offset + size > b => last = 1
  BY <1>1, <1>4, <1>6
<1>9. over = IF offset + size = 2 * b THEN 0 ELSE offset + size - b
  BY <1>1, <1>4, <1>5
<1>10. /\ offset < b => offset \div b = 0 /\ offset % b = offset
       /\ offset = b => offset \div b = 1 /\ offset % b = 0
  BY <1>1, <1>3, <1>4
<1>11. Size(over - 0) = over
  BY <1>1, <1>2, <1>9
<1> DEFINE from(block) == IF block = offset \div b THEN offset % b ELSE 0
           at(k) == offset \div b + k - 1
<1>12. /\ DOMAIN Pieces(offset, size) = 1..(last - (offset \div b) + 1)
       /\ \A k \in 1..(last - (offset \div b) + 1) :
            Pieces(offset, size)[k] =
              Piece(at(k), from(at(k)), IF at(k) = last THEN Size(over - from(at(k))) ELSE b - from(at(k)))
  BY DEF Pieces
<1> DEFINE p == Pieces(offset, size)
<1> HIDE DEF b, last, over, p
<1>13. CASE offset < b /\ offset + size = b
  BY <1>1, <1>7, <1>10, <1>12, <1>13 DEF p, b
<1>14. CASE offset < b /\ offset + size > b
  <2>1. over = offset + size - b /\ last = 1 /\ offset \div b = 0
    BY <1>1, <1>8, <1>9, <1>10, <1>14 DEF b
  <2>2. at(2) = 1 /\ from(1) = 0 /\ 1..(1 - 0 + 1) = 1..2 /\ 2 \in 1..2
    BY <2>1
  <2>3. p[2] = Piece(1, 0, Size(over - 0)) /\ DOMAIN p = 1..2
    BY <1>12, <2>1, <2>2 DEF p
  <2> QED
    BY <1>11, <1>14, <2>1, <2>3 DEF p, b
<1>15. CASE offset = b /\ size = 0
  BY <1>1, <1>7, <1>10, <1>12, <1>15 DEF p, b
<1>16. CASE offset = b /\ size > 0
  <2>1. over = (IF size = b THEN 0 ELSE size) /\ last = 1 /\ offset \div b = 1 /\ offset % b = 0
    BY <1>1, <1>8, <1>9, <1>10, <1>16 DEF b
  <2>2. at(1) = 1 /\ from(1) = 0 /\ 1..(1 - 1 + 1) = 1..1 /\ 1 \in 1..1
    BY <2>1
  <2>3. p[1] = Piece(1, 0, Size(over - 0)) /\ DOMAIN p = 1..1
    BY <1>12, <2>1, <2>2, ZenonT(40) DEF p
  <2> QED
    BY <1>11, <1>16, <2>1, <2>3 DEF p, b
<1> QED
  BY <1>1, <1>13, <1>14, <1>15, <1>16 DEF b

\* The places a write goes to.
Places(offset, size) ==
  UNION {ToSet(Span(Pieces(offset, size)[k])) : k \in DOMAIN Pieces(offset, size)}

\* What one piece of the first block covers.
LEMMA OnePiece ==
  ASSUME NEW offset, NEW size, NEW from \in Nat, NEW count \in Nat, DOMAIN Pieces(offset, size) = 1..1,
         Pieces(offset, size)[1] = Piece(0, from, count)
  PROVE  Places(offset, size) = (from + 1)..(from + count)
<1>1. Places(offset, size) = ToSet(Span(Piece(0, from, count)))
  BY DEF Places
<1>2. Span(Piece(0, from, count)) = [j \in 1..count |-> from + j]
  BY BlockIs DEF Span, Piece
<1>3. ToSet([j \in 1..count |-> from + j]) = {from + j : j \in 1..count}
  BY DEF ToSet
<1>4. \A x \in (from + 1)..(from + count) : x - from \in 1..count /\ x = from + (x - from)
  OBVIOUS
<1>5. {from + j : j \in 1..count} = (from + 1)..(from + count)
  BY <1>4
<1> QED
  BY <1>1, <1>2, <1>3, <1>5

\* A write that stays in the first block goes where it should, if it ends
\* inside the block, and nowhere if not.
LEMMA Placed ==
  ASSUME NEW offset \in 0..BLOCK_SIZE, NEW size \in 0..BLOCK_SIZE, offset > 0 \/ size > 0,
         ~Astray(Pieces(offset, size), 1), NEW j \in 1..BLOCK_SIZE
  PROVE  j \in Places(offset, size) <=> EndsInside(offset, size) /\ j \in (offset + 1)..(offset + size)
<1> DEFINE b == BLOCK_SIZE  p == Pieces(offset, size)
<1>1. b \in Nat \ {0, 1} /\ SIZE_MAX \in Nat /\ SIZE_MAX > 3 * b
  BY BlockIs, SizeIs
<1>2. ASSUME NEW k \in DOMAIN p, p[k].count > 0
      PROVE  ~(p[k].block >= 1) /\ ~(p[k].from + p[k].count > b)
  BY <1>2 DEF Astray
<1>3. CASE offset + size < b
  <2>1. DOMAIN p = 1..1 /\ p[1] = Piece(0, offset, size)
    BY <1>1, <1>3, PieceIs
  <2>2. Places(offset, size) = (offset + 1)..(offset + size)
    BY <1>1, <2>1, OnePiece
  <2>3. EndsInside(offset, size)
    <3>1. offset + size \in 0..(b - 1)
      BY <1>1, <1>3
    <3>2. (offset + size) % b = offset + size
      BY <3>1, BlockIs
    <3> QED
      BY <1>1, <3>2 DEF EndsInside
  <2> QED
    BY <2>2, <2>3
<1>4. CASE offset = 0 /\ size = b
  <2>1. DOMAIN p = 1..1 /\ p[1] = Piece(0, 0, Size(0 - 0))
    BY <1>1, <1>4, OtherPieces
  <2>2. Size(0 - 0) = 0
    BY <1>1, SizeIs
  <2>3. Places(offset, size) = {}
    BY <2>1, <2>2, OnePiece
  <2>4. ~EndsInside(offset, size)
    BY <1>1, <1>4, BlockIs DEF EndsInside
  <2> QED
    BY <2>3, <2>4
<1>5. CASE offset \in 1..(b - 1) /\ offset + size = b
  <2>1. DOMAIN p = 1..1 /\ p[1] = Piece(0, offset, Size(0 - offset))
    BY <1>1, <1>5, OtherPieces
  <2>2. Size(0 - offset) = SIZE_MAX + 1 - offset
    <3>1. 0 - offset \in (-SIZE_MAX)..(-1)
      BY <1>1, <1>5
    <3> QED
      BY <1>1, <3>1, SizeIs
  <2>3. p[1].count = SIZE_MAX + 1 - offset /\ p[1].from = offset /\ 1 \in DOMAIN p
    BY <2>1, <2>2 DEF Piece
  <2>4. SIZE_MAX + 1 - offset > 0 /\ offset + (SIZE_MAX + 1 - offset) > b
    BY <1>1, <1>5
  <2> QED
    BY <1>2, <2>3, <2>4
<1>6. CASE offset < b /\ offset + size > b
  <2>1. 2 \in DOMAIN p /\ p[2] = Piece(1, 0, offset + size - b)
    BY <1>1, <1>6, OtherPieces
  <2>2. p[2].count = offset + size - b /\ p[2].block = 1
    BY <2>1 DEF Piece
  <2> QED
    BY <1>1, <1>2, <1>6, <2>1, <2>2
<1>7. CASE offset = b /\ size = 0
  <2>1. DOMAIN p = {}
    BY <1>1, <1>7, OtherPieces
  <2>2. Places(offset, size) = {}
    BY <2>1 DEF Places
  <2> QED
    BY <1>1, <1>7, <2>2
<1>8. CASE offset = b /\ size > 0
  <2>1. 1 \in DOMAIN p /\ DOMAIN p = 1..1 /\ p[1] = Piece(1, 0, IF size = b THEN 0 ELSE size)
    BY <1>1, <1>8, OtherPieces
  <2>2. p[1].count = (IF size = b THEN 0 ELSE size) /\ p[1].block = 1
    BY <2>1 DEF Piece
  <2>3. size = b /\ p[1].count = 0
    BY <1>1, <1>2, <1>8, <2>1, <2>2
  <2>4. Span(p[1]) = [i \in 1..0 |-> p[1].block * BLOCK_SIZE + p[1].from + i]
    BY <2>3 DEF Span
  <2>5. ToSet(Span(p[1])) = {}
    BY <2>4 DEF ToSet
  <2>6. Places(offset, size) = {}
    BY <2>1, <2>5 DEF Places
  <2>7. j \notin (offset + 1)..(offset + size)
    BY <1>1, <1>8
  <2> QED
    BY <2>6, <2>7
<1> QED
  BY <1>1, <1>3, <1>4, <1>5, <1>6, <1>7, <1>8

\* A file of no block or of one.
Filed(f) ==
  /\ f = [length |-> f.length, bytes |-> f.bytes]
  /\ f.length \in Nat
  /\ \/ f.bytes = <<>> /\ f.length = 0
     \/ f.bytes \in Seq(Bytes \cup {0}) /\ Len(f.bytes) = BLOCK_SIZE

\* New blocks are zero.
ZeroBlocks(m) == [j \in 1..(m * BLOCK_SIZE) |-> 0]

LEMMA ZeroBlocksAre ==
  /\ \A m \in 0..2 : ZeroBlocks(m) \in Seq(Bytes \cup {0}) /\ Len(ZeroBlocks(m)) = m * BLOCK_SIZE
  /\ ZeroBlocks(0) = <<>> /\ Len(ZeroBlocks(1)) = BLOCK_SIZE
  /\ \A j \in 1..BLOCK_SIZE : ZeroBlocks(1)[j] = 0
<1>1. BLOCK_SIZE \in Nat \ {0, 1} /\ 1 * BLOCK_SIZE = BLOCK_SIZE /\ 0 * BLOCK_SIZE = 0
  BY BlockIs
<1>2. ASSUME NEW m \in 0..2 PROVE ZeroBlocks(m) \in Seq(Bytes \cup {0}) /\ Len(ZeroBlocks(m)) = m * BLOCK_SIZE
  <2> DEFINE l == m * BLOCK_SIZE
  <2>1. l \in Nat
    BY <1>1
  <2>2. ZeroBlocks(m) = [j \in 1..l |-> 0]
    BY DEF ZeroBlocks
  <2> HIDE DEF l
  <2>3. [j \in 1..l |-> 0] \in Seq(Bytes \cup {0}) /\ Len([j \in 1..l |-> 0]) = l
    BY <2>1
  <2> QED
    BY <2>2, <2>3 DEF l
<1>3. ZeroBlocks(0) = <<>>
  BY <1>1 DEF ZeroBlocks
<1>4. Len(ZeroBlocks(1)) = BLOCK_SIZE
  BY <1>1, <1>2
<1>5. \A j \in 1..BLOCK_SIZE : ZeroBlocks(1)[j] = 0
  BY <1>1 DEF ZeroBlocks
<1> QED
  BY <1>2, <1>3, <1>4, <1>5

LEMMA Growing ==
  ASSUME NEW f, Filed(f)
  PROVE  \A m \in 1..2 : Grown(f, m).bytes = IF f.bytes = <<>> THEN ZeroBlocks(m) ELSE f.bytes \o ZeroBlocks(m - 1)
<1>1. BLOCK_SIZE \in Nat \ {0, 1} /\ BLOCK_SIZE \div BLOCK_SIZE = 1 /\ 0 \div BLOCK_SIZE = 0
  <2>1. BLOCK_SIZE \in BLOCK_SIZE..(2 * BLOCK_SIZE - 1) /\ 0 \in 0..(BLOCK_SIZE - 1)
    BY BlockIs
  <2> QED
    BY <2>1, BlockIs
<1>2. \A m \in 1..2 : Grown(f, m).bytes = f.bytes \o ZeroBlocks(m - NumBlocks(f))
  BY DEF Grown, Filed, ZeroBlocks
<1>3. CASE f.bytes = <<>>
  <2>1. NumBlocks(f) = 0
    BY <1>1, <1>3 DEF NumBlocks
  <2>2. ASSUME NEW m \in 1..2 PROVE Grown(f, m).bytes = ZeroBlocks(m)
    <3>1. m - 0 = m /\ ZeroBlocks(m) \in Seq(Bytes \cup {0})
      BY ZeroBlocksAre
    <3>2. Grown(f, m).bytes = <<>> \o ZeroBlocks(m)
      BY <1>2, <1>3, <2>1, <3>1
    <3> QED
      BY <3>1, <3>2, ConcatEmptySeq
  <2> QED
    BY <1>3, <2>2
<1>4. CASE f.bytes # <<>>
  <2>1. NumBlocks(f) = 1
    BY <1>1, <1>4 DEF NumBlocks, Filed
  <2> QED
    BY <1>2, <1>4, <2>1
<1> QED
  BY <1>3, <1>4

\* A file grows by zeros to the number of blocks there are to be.
LEMMA GrownIs ==
  ASSUME NEW f, Filed(f)
  PROVE  /\ NumBlocks(Grown(f, 1)) = 1 /\ NumBlocks(Grown(f, 2)) = 2
         /\ DOMAIN Grown(f, 1).bytes = 1..BLOCK_SIZE
         /\ \A j \in 1..BLOCK_SIZE : Grown(f, 1).bytes[j] = IF f.bytes = <<>> THEN 0 ELSE f.bytes[j]
<1> DEFINE b == BLOCK_SIZE  one == Grown(f, 1).bytes  two == Grown(f, 2).bytes
<1>1. b \in Nat \ {0, 1} /\ b \div b = 1 /\ (2 * b) \div b = 2
  <2>1. b \in b..(2 * b - 1)
    BY BlockIs
  <2> QED
    BY <2>1, BlockIs
<1>2. /\ one = IF f.bytes = <<>> THEN ZeroBlocks(1) ELSE f.bytes \o ZeroBlocks(0)
      /\ two = IF f.bytes = <<>> THEN ZeroBlocks(2) ELSE f.bytes \o ZeroBlocks(1)
  BY Growing
<1>3. f.bytes # <<>> => f.bytes \in Seq(Bytes \cup {0}) /\ Len(f.bytes) = b
  BY DEF Filed
<1>4. ZeroBlocks(0) = <<>> /\ ZeroBlocks(1) \in Seq(Bytes \cup {0}) /\ ZeroBlocks(2) \in Seq(Bytes \cup {0})
  BY ZeroBlocksAre
<1>5. Len(ZeroBlocks(1)) = b /\ Len(ZeroBlocks(2)) = 2 * b /\ \A j \in 1..b : ZeroBlocks(1)[j] = 0
  BY ZeroBlocksAre
<1> HIDE DEF b, one, two
<1>6. f.bytes # <<>> => f.bytes \o ZeroBlocks(0) = f.bytes
  BY <1>3, <1>4, ConcatEmptySeq
<1>7. f.bytes # <<>> => Len(f.bytes \o ZeroBlocks(1)) = 2 * b
  <2> SUFFICES ASSUME f.bytes # <<>> PROVE Len(f.bytes \o ZeroBlocks(1)) = 2 * b
    OBVIOUS
  <2>1. Len(f.bytes \o ZeroBlocks(1)) = Len(f.bytes) + Len(ZeroBlocks(1))
    BY <1>3, <1>4, ConcatProperties
  <2> QED
    BY <1>1, <1>3, <1>5, <2>1
<1>8. one \in Seq(Bytes \cup {0}) /\ Len(one) = b /\ Len(two) = 2 * b
  BY <1>2, <1>3, <1>4, <1>5, <1>6, <1>7
<1>9. DOMAIN one = 1..b
  BY <1>8
<1>10. \A j \in 1..b : one[j] = IF f.bytes = <<>> THEN 0 ELSE f.bytes[j]
  BY <1>2, <1>5, <1>6
<1>11. NumBlocks(Grown(f, 1)) = 1 /\ NumBlocks(Grown(f, 2)) = 2
  BY <1>1, <1>8 DEF NumBlocks, b, one, two
<1> QED
  BY <1>9, <1>10, <1>11 DEF b, one

\* tmpfs_write wants one block, but two for an empty write at 0.
LEMMA Wanted ==
  ASSUME NEW offset \in 0..(BLOCK_SIZE + 1), NEW size \in 0..(BLOCK_SIZE + 1)
  PROVE  NewNumBlocks(offset, size) = IF offset = 0 /\ size = 0 THEN 2 ELSE 1
<1>1. BLOCK_SIZE \in Nat \ {0, 1} /\ SIZE_MAX \in Nat \ {0} /\ SIZE_MAX > 3 * BLOCK_SIZE
  BY BlockIs, SizeIs
<1>2. CASE offset = 0 /\ size = 0
  <2>1. Size(-1) = SIZE_MAX
    <3>1. -1 \in (-SIZE_MAX)..(-1)
      BY <1>1
    <3>2. Size(-1) = -1 + SIZE_MAX + 1
      BY <3>1, SizeIs
    <3> QED
      BY <1>1, <3>2
  <2>2. SIZE_MAX \div SIZE_MAX = 1
    <3>1. SIZE_MAX = 1 * SIZE_MAX + 0 /\ 0 \in 0..(SIZE_MAX - 1)
      BY <1>1
    <3> QED
      BY <1>1, <3>1, DivIs
  <2>3. offset + size - 1 = -1
    BY <1>2
  <2> QED
    BY <1>2, <2>1, <2>2, <2>3 DEF NewNumBlocks
<1>3. CASE offset > 0 \/ size > 0
  <2> DEFINE x == offset + size - 1
  <2>1. x \in 0..SIZE_MAX /\ x \in 0..(SIZE_MAX - 1)
    BY <1>1, <1>3
  <2> HIDE DEF x
  <2>2. Size(x) = x
    BY <2>1, SizeIs
  <2>3. x \div SIZE_MAX = 0
    <3>1. x = 0 * SIZE_MAX + x /\ x \in Int
      BY <1>1, <2>1
    <3> QED
      BY <1>1, <2>1, <3>1, DivIs
  <2> QED
    BY <1>3, <2>2, <2>3 DEF NewNumBlocks, x
<1> QED
  BY <1>2, <1>3

\* An empty write at 0 goes astray: it has all blocks there could be.
LEMMA EmptyAstray == ASSUME NEW f, Filed(f) PROVE WriteAstray(f, 0, 0)
<1> DEFINE b == BLOCK_SIZE  most == SIZE_MAX \div b  p == Pieces(0, 0)
<1>1. b \in Nat \ {0, 1} /\ SIZE_MAX \in Nat /\ SIZE_MAX > 3 * b /\ most \in Nat /\ most >= 3
  BY BlockIs, SizeIs
<1>2. Size(0 + 0 - 1) = SIZE_MAX
  <2>1. -1 \in (-SIZE_MAX)..(-1) /\ 0 + 0 - 1 = -1
    BY <1>1
  <2>2. Size(-1) = -1 + SIZE_MAX + 1
    BY <2>1, SizeIs
  <2> QED
    BY <1>1, <2>1, <2>2
<1>3. 0 \div b = 0 /\ 0 % b = 0
  <2>1. 0 \in 0..(b - 1)
    BY <1>1
  <2> QED
    BY <2>1, BlockIs
<1> HIDE DEF most
<1>4. 3 \in 1..(most - 0 + 1) /\ 0 + 3 - 1 = 2 /\ 2 # most /\ 2 # 0 /\ b - 0 = b
  BY <1>1
<1>5. 3 \in DOMAIN p /\ p[3] = Piece(2, 0, b)
  BY <1>2, <1>3, <1>4 DEF Pieces, most
<1>6. NewNumBlocks(0, 0) = 2
  BY <1>1, Wanted
<1>7. NumBlocks(Grown(f, 2)) = 2
  BY GrownIs
<1> HIDE DEF p
<1>8. p[3].count > 0 /\ p[3].block >= 2
  BY <1>1, <1>5 DEF Piece
<1>9. Astray(p, 2)
  BY <1>5, <1>8 DEF Astray
<1> QED
  BY <1>6, <1>7, <1>9 DEF WriteAstray, p

\* So a write that stays in the file leaves it of one block, with the bytes
\* where they should be.
LEMMA WriteLeaves ==
  ASSUME NEW f, Filed(f), NEW offset \in 0..BLOCK_SIZE, NEW size \in 0..BLOCK_SIZE, NEW byte \in Bytes,
         ~WriteAstray(f, offset, size)
  PROVE  LET new == TmpfsWrite(f, offset, size, byte)
         IN /\ Filed(new) /\ new.bytes # <<>>
            /\ \A j \in 1..BLOCK_SIZE :
                 new.bytes[j] = IF EndsInside(offset, size) /\ j \in (offset + 1)..(offset + size) THEN byte
                                ELSE IF f.bytes = <<>> THEN 0 ELSE f.bytes[j]
<1> DEFINE new == TmpfsWrite(f, offset, size, byte)
           old == Grown(f, 1).bytes
<1>1. BLOCK_SIZE \in Nat \ {0, 1}
  BY BlockIs
<1>2. offset > 0 \/ size > 0
  BY EmptyAstray
<1>3. NewNumBlocks(offset, size) = 1
  BY <1>1, <1>2, Wanted
<1>4. /\ NumBlocks(Grown(f, 1)) = 1 /\ DOMAIN old = 1..BLOCK_SIZE
      /\ \A j \in 1..BLOCK_SIZE : old[j] = IF f.bytes = <<>> THEN 0 ELSE f.bytes[j]
  BY GrownIs
<1>5. ~Astray(Pieces(offset, size), 1)
  BY <1>3, <1>4 DEF WriteAstray
<1>6. DOMAIN old = 1..BLOCK_SIZE /\ \A j \in 1..BLOCK_SIZE : old[j] \in Bytes \cup {0}
  BY <1>1, <1>4 DEF Filed
<1>7. new = [length |-> offset + size,
             bytes  |-> [j \in 1..BLOCK_SIZE |-> IF j \in Places(offset, size) THEN byte ELSE old[j]]]
  BY <1>3, <1>6 DEF TmpfsWrite, Places
<1> HIDE DEF new, old
<1>8. new.bytes \in Seq(Bytes \cup {0}) /\ Len(new.bytes) = BLOCK_SIZE /\ new.length \in Nat
  BY <1>1, <1>6, <1>7
<1>9. \A j \in 1..BLOCK_SIZE : j \in Places(offset, size) <=> EndsInside(offset, size) /\ j \in (offset + 1)..(offset + size)
  BY <1>2, <1>5, Placed
<1>10. \A j \in 1..BLOCK_SIZE : old[j] = IF f.bytes = <<>> THEN 0 ELSE f.bytes[j]
  BY <1>4
<1>11. Filed(new) /\ new.bytes # <<>>
  BY <1>1, <1>7, <1>8 DEF Filed
<1> QED
  BY <1>7, <1>9, <1>10, <1>11 DEF new

\* The only sequence of a sequence of sequences.
LEMMA FlattenOne == ASSUME NEW s, s = [k \in 1..1 |-> s[k]] PROVE FlattenSeq(s) = s[1]
<1>1. Len(s) = 1
  OBVIOUS
<1> DEFINE Step(g) == [i \in 1..1 |-> IF i = 1 THEN s[i] ELSE g[i - 1] \o s[i]]
           flatten == CHOOSE g : g = Step(g)
           one == [i \in 1..1 |-> s[1]]
<1>2. FlattenSeq(s) = flatten[1]
  BY <1>1 DEF FlattenSeq
<1>3. one = Step(one)
  <2>1. ASSUME NEW i \in 1..1 PROVE one[i] = Step(one)[i]
    OBVIOUS
  <2>2. DOMAIN one = 1..1 /\ DOMAIN Step(one) = 1..1
    OBVIOUS
  <2> QED
    BY <2>1, <2>2
<1>4. flatten = Step(flatten)
  <2> HIDE DEF Step, one
  <2> QED
    BY <1>3
<1>5. Step(flatten)[1] = s[1]
  OBVIOUS
<1> QED
  BY <1>2, <1>4, <1>5

\* A read inside the first block gives the bytes there.
LEMMA ReadIs ==
  ASSUME NEW f, Filed(f), NEW offset \in 0..(BLOCK_SIZE + 1), NEW size \in 0..(BLOCK_SIZE + 1),
         EndsInside(offset, Readable(f.length, offset, size)),
         offset + Readable(f.length, offset, size) < BLOCK_SIZE
  PROVE  TmpfsRead(f, offset, size) = [j \in 1..Readable(f.length, offset, size) |-> f.bytes[offset + j]]
<1> DEFINE n == Readable(f.length, offset, size)
           p == Pieces(offset, n)
           spans == [k \in DOMAIN p |-> Span(p[k])]
<1>1. BLOCK_SIZE \in Nat \ {0, 1} /\ SIZE_MAX \in Nat /\ SIZE_MAX > 3 * BLOCK_SIZE /\ f.length \in Nat
  BY BlockIs, SizeIs DEF Filed
<1>2. n \in Nat
  BY <1>1 DEF Readable
<1>3. Clipped(f.length, offset, size) = n
  <2>1. offset + size \in 0..SIZE_MAX
    BY <1>1
  <2>2. Size(offset + size) = offset + size
    BY <2>1, SizeIs
  <2> QED
    BY <1>1, <2>2 DEF Clipped, Readable
<1> HIDE DEF n
<1>4. offset > 0 \/ n > 0
  BY <1>2 DEF EndsInside, n
<1>5. DOMAIN p = 1..1 /\ p[1] = Piece(0, offset, n)
  <2>1. offset + n < BLOCK_SIZE
    BY DEF n
  <2> QED
    BY <1>1, <1>2, <1>4, <2>1, PieceIs
<1>6. Span(p[1]) = [j \in 1..n |-> offset + j]
  BY <1>1, <1>5 DEF Span, Piece
<1>7. FlattenSeq(spans) = [j \in 1..n |-> offset + j]
  <2> HIDE DEF p
  <2>1. spans = [k \in 1..1 |-> spans[k]] /\ spans[1] = Span(p[1])
    BY <1>5
  <2> HIDE DEF spans
  <2> QED
    BY <1>6, <2>1, FlattenOne
<1>8. TmpfsRead(f, offset, size) = [j \in DOMAIN FlattenSeq(spans) |-> f.bytes[FlattenSeq(spans)[j]]]
  BY <1>3 DEF TmpfsRead, Copied
<1> HIDE DEF spans
<1>9. [j \in DOMAIN FlattenSeq(spans) |-> f.bytes[FlattenSeq(spans)[j]]] = [j \in 1..n |-> f.bytes[offset + j]]
  BY <1>2, <1>7
<1> QED
  BY <1>8, <1>9 DEF n

\* A write that ends inside the first block stays there.
LEMMA WriteStays ==
  ASSUME NEW f, Filed(f), NEW offset \in 0..(BLOCK_SIZE + 1), NEW size \in 0..(BLOCK_SIZE + 1),
         EndsInside(offset, size), offset + size < BLOCK_SIZE
  PROVE  ~WriteAstray(f, offset, size)
<1> DEFINE p == Pieces(offset, size)
<1>1. BLOCK_SIZE \in Nat \ {0, 1}
  BY BlockIs
<1>2. offset > 0 \/ size > 0
  BY <1>1 DEF EndsInside
<1>3. DOMAIN p = 1..1 /\ p[1] = Piece(0, offset, size)
  BY <1>1, <1>2, PieceIs
<1>4. NewNumBlocks(offset, size) = 1
  BY <1>2, Wanted
<1>5. NumBlocks(Grown(f, 1)) = 1
  BY GrownIs
<1> HIDE DEF p
<1>6. p[1].block = 0 /\ p[1].from = offset /\ p[1].count = size
  BY <1>3 DEF Piece
<1>7. ~Astray(p, 1)
  BY <1>1, <1>3, <1>6 DEF Astray
<1> QED
  BY <1>4, <1>5, <1>7 DEF WriteAstray, p

\* The file has no block and nothing is kept, or one with what is kept.
FileInv ==
  /\ Filed(file) /\ DOMAIN kept = 1..BLOCK_SIZE
  /\ ~astray => \A j \in 1..BLOCK_SIZE : kept[j] = IF file.bytes = <<>> THEN 0 ELSE file.bytes[j]

LEMMA FileStart == Init => FileInv
<1> SUFFICES ASSUME Init PROVE FileInv
  OBVIOUS
<1>1. file = [length |-> 0, bytes |-> <<>>] /\ kept = [j \in 1..BLOCK_SIZE |-> 0]
  BY DEF Init, NewFile
<1> QED
  BY <1>1 DEF FileInv, Filed

LEMMA FileStep == FileInv /\ [Next]_vars => FileInv'
<1> SUFFICES ASSUME FileInv, [Next]_vars PROVE FileInv'
  OBVIOUS
<1>1. CASE UNCHANGED fileVars
  BY <1>1 DEF fileVars, FileInv, Filed
<1>2. CASE \E offset \in 0..BLOCK_SIZE, size \in 0..BLOCK_SIZE, byte \in Bytes : Write(offset, size, byte)
  <2>1. PICK offset \in 0..BLOCK_SIZE, size \in 0..BLOCK_SIZE, byte \in Bytes : Write(offset, size, byte)
    BY <1>2
  <2>2. /\ ~astray
        /\ kept' = IF EndsInside(offset, size)
                   THEN [j \in 1..BLOCK_SIZE |-> IF j \in (offset + 1)..(offset + size) THEN byte ELSE kept[j]]
                   ELSE kept
    BY <2>1 DEF Write
  <2>3. DOMAIN kept' = 1..BLOCK_SIZE
    BY <2>2 DEF FileInv
  <2>4. CASE WriteAstray(file, offset, size)
    <3>1. astray' /\ file' = file
      BY <2>1, <2>4 DEF Write
    <3> QED
      BY <2>3, <3>1 DEF FileInv, Filed
  <2>5. CASE ~WriteAstray(file, offset, size)
    <3>1. file' = TmpfsWrite(file, offset, size, byte)
      BY <2>1, <2>5 DEF Write
    <3>2. Filed(file)
      BY DEF FileInv
    <3>3. /\ Filed(file') /\ file'.bytes # <<>>
          /\ \A j \in 1..BLOCK_SIZE :
               file'.bytes[j] = IF EndsInside(offset, size) /\ j \in (offset + 1)..(offset + size) THEN byte
                                ELSE IF file.bytes = <<>> THEN 0 ELSE file.bytes[j]
      BY <2>5, <3>1, <3>2, WriteLeaves
    <3>4. \A j \in 1..BLOCK_SIZE : kept[j] = IF file.bytes = <<>> THEN 0 ELSE file.bytes[j]
      BY <2>2 DEF FileInv
    <3>5. \A j \in 1..BLOCK_SIZE : kept'[j] = file'.bytes[j]
      <4>1. CASE EndsInside(offset, size)
        BY <2>2, <3>3, <3>4, <4>1
      <4>2. CASE ~EndsInside(offset, size)
        BY <2>2, <3>3, <3>4, <4>2
      <4> QED
        BY <4>1, <4>2
    <3>6. Filed(file)'
      BY <3>3 DEF Filed
    <3> QED
      BY <2>3, <3>3, <3>5, <3>6 DEF FileInv
  <2> QED
    BY <2>4, <2>5
<1>3. \/ UNCHANGED fileVars
      \/ \E offset \in 0..BLOCK_SIZE, size \in 0..BLOCK_SIZE, byte \in Bytes : Write(offset, size, byte)
  BY DEF Next, vars, Ask, AskCanonicize, AskTarfs, AskClock, AskPrint, AskFormat, Answer,
         TerminalPutchar, TerminalClear, AddOutput, LogPrintf, ListStep
<1> QED
  BY <1>1, <1>2, <1>3

\* A file of tmpfs gives back what was last written to each of its bytes, or
\* zero, by reads and after writes that end inside its one block, and such a
\* write stays in that block (tmpfs_write and tmpfs_read).
THEOREM TmpfsKeeps == Spec => []FileKeeps
<1>1. FileInv => FileKeeps
  <2> SUFFICES ASSUME FileInv, ~astray,
                      NEW offset \in 0..(BLOCK_SIZE + 1), NEW size \in 0..(BLOCK_SIZE + 1)
               PROVE  LET n == Readable(file.length, offset, size)
                      IN /\ EndsInside(offset, n) /\ offset + n < BLOCK_SIZE =>
                              TmpfsRead(file, offset, size) = [j \in 1..n |-> kept[offset + j]]
                         /\ EndsInside(offset, size) /\ offset + size < BLOCK_SIZE =>
                              ~WriteAstray(file, offset, size)
    BY DEF FileKeeps
  <2> DEFINE n == Readable(file.length, offset, size)
  <2>1. Filed(file) /\ BLOCK_SIZE \in Nat \ {0, 1} /\ file.length \in Nat
    BY BlockIs DEF FileInv, Filed
  <2>2. n \in Nat /\ (n > 0 => file.length > 0)
    BY <2>1 DEF Readable
  <2>3. ASSUME EndsInside(offset, n), offset + n < BLOCK_SIZE
        PROVE  TmpfsRead(file, offset, size) = [j \in 1..n |-> kept[offset + j]]
    <3>1. TmpfsRead(file, offset, size) = [j \in 1..n |-> file.bytes[offset + j]]
      BY <2>1, <2>3, ReadIs
    <3> HIDE DEF n
    <3>2. ASSUME NEW j \in 1..n PROVE file.bytes[offset + j] = kept[offset + j]
      <4>1. file.length > 0 /\ offset + j \in 1..BLOCK_SIZE
        BY <2>1, <2>2, <2>3
      <4>2. file.bytes # <<>>
        <5>1. ASSUME file.bytes = <<>> PROVE FALSE
          <6>1. Len(file.bytes) = 0
            BY <5>1
          <6> QED
            BY <2>1, <4>1, <6>1 DEF Filed
        <5> QED
          BY <5>1
      <4> QED
        BY <4>1, <4>2 DEF FileInv
    <3> QED
      BY <3>1, <3>2
  <2>4. ASSUME EndsInside(offset, size), offset + size < BLOCK_SIZE PROVE ~WriteAstray(file, offset, size)
    BY <2>1, <2>4, WriteStays
  <2> HIDE DEF n
  <2> QED
    BY <2>3, <2>4 DEF n
<1> QED
  BY <1>1, FileStart, FileStep, PTL DEF Spec

----------------------------------------------------------------------------
(* The log                                                                 *)

LEMMA LogFolds ==
  /\ \A pieces : TextOf(pieces) = Texting!Folded(<<>>, pieces)
  /\ \A buffer, from, max_len, pieces :
       FoldLeft(Printed, [from |-> from, max_len |-> max_len, buffer |-> buffer, written |-> 0, failed |-> FALSE],
                pieces)
         = Printing!Folded([from |-> from, max_len |-> max_len, buffer |-> buffer, written |-> 0, failed |-> FALSE],
                           pieces)
  /\ \A table, level : Outputs(table, level) = Handing!Folded([level |-> level, outputs |-> <<>>], table).outputs
<1>1. \A pieces : TextOf(pieces) = Texting!Folded(<<>>, pieces)
  BY DEF TextOf, Texting!Folded, FoldLeft, Texting!FoldLeft, MapThenFoldSet, Texting!MapThenFoldSet, Max, Texting!Max
<1>2. \A base, pieces : FoldLeft(Printed, base, pieces) = Printing!Folded(base, pieces)
  BY DEF Printing!Folded, FoldLeft, Printing!FoldLeft, MapThenFoldSet, Printing!MapThenFoldSet, Max, Printing!Max
<1>3. \A base, table : FoldLeft(Handed, base, table) = Handing!Folded(base, table)
  BY DEF Handing!Folded, FoldLeft, Handing!FoldLeft, MapThenFoldSet, Handing!MapThenFoldSet, Max, Handing!Max
<1> QED
  BY <1>1, <1>2, <1>3 DEF Outputs

\* The characters of messages, none of which ends a string, and the pieces.
Signs == {<<kind, k, j>> : kind \in {"level", "text"}, k \in Int, j \in Int}
Bits == [conversion : BOOLEAN, str : Seq(Signs)]

LEMMA SignsAre == Nul \notin Signs /\ Cr # Nul /\ Lf # Nul
BY DEF Signs, Nul, Cr, Lf

\* What _out_s leaves in a buffer.
OutSAre(b, from, idx, str, max_len) ==
  /\ DOMAIN OutS(b, from, idx, str, max_len) = 0..(MAX_MSG_SIZE - 1)
  /\ \A i \in 0..(MAX_MSG_SIZE - 1) :
       OutS(b, from, idx, str, max_len)[i] =
         IF idx <= i /\ i < idx + Len(str) /\ i < from + max_len THEN str[i - idx + 1] ELSE b[i]

LEMMA OutSIs ==
  ASSUME NEW b, DOMAIN b = 0..(MAX_MSG_SIZE - 1), NEW from \in Nat, NEW idx \in Nat, NEW str, Len(str) \in Nat,
         NEW max_len \in Nat
  PROVE  OutSAre(b, from, idx, str, max_len)
<1>1. DOMAIN OutS(b, from, idx, str, max_len) = 0..(MAX_MSG_SIZE - 1)
  BY DEF OutS
<1>2. ASSUME NEW i \in 0..(MAX_MSG_SIZE - 1)
      PROVE  OutS(b, from, idx, str, max_len)[i] =
               IF idx <= i /\ i < idx + Len(str) /\ i < from + max_len THEN str[i - idx + 1] ELSE b[i]
  <2>1. i \in Nat
    BY LogAssumption
  <2>2. i - idx \in 0..(Len(str) - 1) <=> idx <= i /\ i < idx + Len(str)
    BY <2>1
  <2>3. i - from < max_len <=> i < from + max_len
    BY <2>1
  <2>4. OutS(b, from, idx, str, max_len)[i] =
          IF i - idx \in 0..(Len(str) - 1) /\ i - from < max_len THEN str[i - idx + 1] ELSE b[i]
    BY DEF OutS
  <2> QED
    BY <2>2, <2>3, <2>4
<1> QED
  BY <1>1, <1>2 DEF OutSAre

\* The buffer holds the text from a place on, and what it held before there.
Holds(now, was, from, chars) ==
  /\ DOMAIN now = 0..(MAX_MSG_SIZE - 1)
  /\ \A i \in 0..(from - 1) : now[i] = was[i]
  /\ \A j \in 1..Len(chars) : now[from + j - 1] = chars[j]

\* How far a call of _vsnprintf has come, with the text up to there.
SoFar(out, was, from, max_len, chars) ==
  /\ out.from = from /\ out.max_len = max_len /\ out.failed \in BOOLEAN
  /\ Holds(out.buffer, was, from, <<>>)
  /\ out.failed => Len(chars) > max_len
  /\ ~out.failed => /\ out.written = Len(chars) /\ Len(chars) <= max_len
                    /\ Holds(out.buffer, was, from, chars)

LEMMA PrintedStep ==
  ASSUME NEW out, NEW was, NEW from \in Nat, NEW max_len \in Nat, from + max_len <= MAX_MSG_SIZE,
         NEW chars \in Seq(Signs), NEW piece \in Bits, SoFar(out, was, from, max_len, chars)
  PROVE  SoFar(Printed(out, piece), was, from, max_len, Texted(chars, piece))
<1> DEFINE str == piece.str
           all == Texted(chars, piece)
           fits == Len(str) <= max_len - out.written
           stored == OutS(out.buffer, from, from + out.written, str, max_len)
<1>1. str \in Seq(Signs) /\ Len(str) \in Nat /\ Len(chars) \in Nat /\ piece.conversion \in BOOLEAN
  BY DEF Bits
<1>2. /\ all \in Seq(Signs) /\ Len(all) = Len(chars) + Len(str)
      /\ \A j \in 1..Len(chars) : all[j] = chars[j]
      /\ \A j \in 1..Len(str) : all[Len(chars) + j] = str[j]
  <2>1. all = chars \o str
    BY DEF Texted
  <2> HIDE DEF all, str
  <2>2. /\ Len(chars \o str) = Len(chars) + Len(str)
        /\ \A i \in 1..(Len(chars) + Len(str)) :
             (chars \o str)[i] = IF i <= Len(chars) THEN chars[i] ELSE str[i - Len(chars)]
    BY <1>1, ConcatProperties
  <2>3. chars \o str \in Seq(Signs)
    BY <1>1, ConcatProperties
  <2>4. ASSUME NEW j \in 1..Len(str) PROVE all[Len(chars) + j] = str[j]
    <3>1. Len(chars) + j \in 1..(Len(chars) + Len(str)) /\ ~(Len(chars) + j <= Len(chars))
          /\ Len(chars) + j - Len(chars) = j
      BY <1>1
    <3> QED
      BY <2>1, <2>2, <3>1
  <2>5. ASSUME NEW j \in 1..Len(chars) PROVE all[j] = chars[j]
    <3>1. j \in 1..(Len(chars) + Len(str)) /\ j <= Len(chars)
      BY <1>1
    <3> QED
      BY <2>1, <2>2, <3>1
  <2> QED
    BY <2>1, <2>2, <2>3, <2>4, <2>5
<1>3. DOMAIN out.buffer = 0..(MAX_MSG_SIZE - 1) /\ \A i \in 0..(from - 1) : out.buffer[i] = was[i]
  BY DEF SoFar, Holds
<1> HIDE DEF str, all
<1>4. CASE out.failed
  <2>1. Printed(out, piece) = out
    BY <1>4 DEF Printed
  <2>2. Len(all) > max_len
    BY <1>1, <1>2, <1>4 DEF SoFar
  <2> QED
    BY <1>4, <2>1, <2>2 DEF SoFar, all
<1>5. CASE ~out.failed
  <2>1. out.written = Len(chars) /\ Len(chars) <= max_len /\ out.from = from /\ out.max_len = max_len
    BY <1>5 DEF SoFar
  <2>2. /\ DOMAIN stored = 0..(MAX_MSG_SIZE - 1)
        /\ \A i \in 0..(MAX_MSG_SIZE - 1) :
             stored[i] = IF from + out.written <= i /\ i < from + out.written + Len(str) /\ i < from + max_len
                         THEN str[i - (from + out.written) + 1] ELSE out.buffer[i]
    <3> DEFINE idx == from + out.written  b == out.buffer
    <3>1. idx \in Nat /\ DOMAIN b = 0..(MAX_MSG_SIZE - 1)
      BY <1>1, <1>3, <2>1
    <3> HIDE DEF idx, b
    <3>2. /\ DOMAIN OutS(b, from, idx, str, max_len) = 0..(MAX_MSG_SIZE - 1)
          /\ \A i \in 0..(MAX_MSG_SIZE - 1) :
               OutS(b, from, idx, str, max_len)[i] =
                 IF idx <= i /\ i < idx + Len(str) /\ i < from + max_len THEN str[i - idx + 1] ELSE b[i]
      <4>1. OutSAre(b, from, idx, str, max_len)
        BY <1>1, <3>1, OutSIs
      <4> QED
        BY <4>1 DEF OutSAre
    <3> QED
      BY <3>2 DEF idx, b
  <2>3. Printed(out, piece) =
          [from |-> from, max_len |-> max_len,
           buffer |-> IF fits \/ piece.conversion THEN stored ELSE out.buffer,
           written |-> IF fits THEN out.written + Len(str) ELSE out.written,
           failed |-> ~fits]
    BY <1>5, <2>1 DEF Printed, str
  <2> HIDE DEF stored
  <2>4. ASSUME NEW i \in 0..(from - 1) PROVE stored[i] = was[i]
    <3>1. i \in 0..(MAX_MSG_SIZE - 1) /\ ~(from + out.written <= i)
      BY <1>1, <2>1, LogAssumption
    <3> QED
      BY <1>3, <2>2, <3>1
  <2>5. Holds(stored, was, from, <<>>) /\ Holds(out.buffer, was, from, <<>>)
    BY <1>3, <2>2, <2>4 DEF Holds
  <2>6. CASE fits
    <3>1. Len(all) <= max_len /\ out.written + Len(str) = Len(all)
      BY <1>1, <1>2, <2>1, <2>6
    <3>2. ASSUME NEW j \in 1..Len(all) PROVE stored[from + j - 1] = all[j]
      <4> DEFINE i == from + j - 1
      <4>1. i \in 0..(MAX_MSG_SIZE - 1) /\ i < from + max_len /\ i < from + Len(chars) + Len(str) /\ i \in Nat
        BY <1>1, <1>2, <3>1, LogAssumption
      <4>2. CASE j <= Len(chars)
        <5>1. ~(from + Len(chars) <= i) /\ j \in 1..Len(chars)
          BY <1>1, <4>2
        <5>2. stored[i] = out.buffer[i]
          BY <2>1, <2>2, <4>1, <5>1
        <5>3. out.buffer[from + j - 1] = chars[j]
          BY <1>5, <5>1 DEF SoFar, Holds
        <5> QED
          BY <1>2, <5>1, <5>2, <5>3
      <4>3. CASE j > Len(chars)
        <5>1. /\ from + Len(chars) <= i /\ i - (from + Len(chars)) + 1 = j - Len(chars)
              /\ j - Len(chars) \in 1..Len(str) /\ Len(chars) + (j - Len(chars)) = j
          BY <1>1, <1>2, <4>3
        <5>2. stored[i] = str[i - (from + Len(chars)) + 1]
          BY <2>1, <2>2, <4>1, <5>1
        <5>3. all[Len(chars) + (j - Len(chars))] = str[j - Len(chars)]
          BY <1>2, <5>1
        <5> QED
          BY <5>1, <5>2, <5>3
      <4> QED
        BY <1>1, <1>2, <4>2, <4>3
    <3>3. Holds(stored, was, from, all)
      BY <2>5, <3>2 DEF Holds
    <3> DEFINE new == Printed(out, piece)
    <3>4. new.from = from /\ new.max_len = max_len /\ new.buffer = stored /\ new.written = Len(all)
      BY <2>3, <2>6, <3>1
    <3>5. new.failed = FALSE
      <4>1. new.failed = ~fits
        BY <2>3
      <4> HIDE DEF fits, new
      <4> QED
        BY <2>6, <4>1, Zenon
    <3> HIDE DEF new
    <3>6. SoFar(new, was, from, max_len, all)
      BY <2>5, <3>1, <3>3, <3>4, <3>5 DEF SoFar
    <3> QED
      BY <3>6 DEF new, all
  <2>7. CASE ~fits
    <3>1. Len(all) > max_len
      BY <1>1, <1>2, <2>1, <2>7
    <3>2. Holds(Printed(out, piece).buffer, was, from, <<>>)
      BY <2>3, <2>5, <2>7
    <3> DEFINE new == Printed(out, piece)
    <3>4. new.from = from /\ new.max_len = max_len
      BY <2>3
    <3>5. new.failed = TRUE
      <4>1. new.failed = ~fits
        BY <2>3
      <4> HIDE DEF fits, new
      <4> QED
        BY <2>7, <4>1, Zenon
    <3> HIDE DEF new
    <3>6. SoFar(new, was, from, max_len, all)
      BY <3>1, <3>2, <3>4, <3>5 DEF SoFar, new
    <3> QED
      BY <3>6 DEF new, all
  <2> QED
    BY <2>6, <2>7
<1> QED
  BY <1>4, <1>5 DEF SoFar

LEMMA TextedIs == ASSUME NEW chars \in Seq(Signs), NEW piece \in Bits PROVE Texted(chars, piece) \in Seq(Signs)
<1>1. piece.str \in Seq(Signs)
  BY DEF Bits
<1>2. chars \o piece.str \in Seq(Signs)
  BY <1>1, ConcatProperties
<1> QED
  BY <1>2 DEF Texted

\* _vsnprintf stores the text and its end where there is room for them, and
\* fails where there is not; it stores nothing before its place.
LEMMA VsnprintfIs ==
  ASSUME NEW b, DOMAIN b = 0..(MAX_MSG_SIZE - 1), NEW from \in Nat, NEW max_len \in Nat,
         from + max_len <= MAX_MSG_SIZE, NEW pieces \in Seq(Bits)
  PROVE  /\ TextOf(pieces) \in Seq(Signs)
         /\ Len(TextOf(pieces)) > max_len => /\ Vsnprintf(b, from, max_len, pieces).returns = -1
                                             /\ Holds(Vsnprintf(b, from, max_len, pieces).buffer, b, from, <<>>)
         /\ Len(TextOf(pieces)) < max_len =>
              /\ Vsnprintf(b, from, max_len, pieces).returns = Len(TextOf(pieces))
              /\ Holds(Vsnprintf(b, from, max_len, pieces).buffer, b, from, TextOf(pieces))
<1> DEFINE n == Len(pieces)
           start == [from |-> from, max_len |-> max_len, buffer |-> b, written |-> 0, failed |-> FALSE]
           out == Printing!Folded(start, pieces)
           all == TextOf(pieces)
           got == Vsnprintf(b, from, max_len, pieces)
           put == OutS(out.buffer, from, from + EndPlace(out.written, max_len), <<Nul>>, max_len)
<1>1. n \in Nat /\ DOMAIN pieces = 1..n /\ \A k \in 1..n : pieces[k] \in Bits
  OBVIOUS
<1>2. PICK texts : Texting!Runs(texts, <<>>, pieces, n) /\ all = texts[n]
  <2>1. PICK texts : Texting!Runs(texts, <<>>, pieces, n) /\ Texting!Folded(<<>>, pieces) = texts[n]
    <3> HIDE DEF n
    <3> QED
      BY <1>1, Texting!FoldedIs
  <2> QED
    BY <2>1, LogFolds
<1>3. PICK outs : Printing!Runs(outs, start, pieces, n) /\ out = outs[n]
  <2> HIDE DEF n, start
  <2> QED
    BY <1>1, Printing!FoldedIs
<1>4. /\ texts[0] = <<>> /\ outs[0] = start
      /\ \A k \in 1..n : texts[k] = Texted(texts[k - 1], pieces[k]) /\ outs[k] = Printed(outs[k - 1], pieces[k])
  <2> HIDE DEF n, start
  <2> QED
    BY <1>2, <1>3 DEF Texting!Runs, Printing!Runs
<1> DEFINE A == {k \in 0..n : texts[k] \in Seq(Signs) /\ SoFar(outs[k], b, from, max_len, texts[k])}
<1>5. 0 \in A
  <2>1. Holds(b, b, from, <<>>)
    BY DEF Holds
  <2>2. /\ start.from = from /\ start.max_len = max_len /\ start.failed = FALSE /\ start.buffer = b
        /\ start.written = 0
    OBVIOUS
  <2>3. SoFar(start, b, from, max_len, <<>>)
    <3>1. start.failed \in BOOLEAN /\ ~start.failed
      OBVIOUS
    <3>2. Len(<<>>) = 0 /\ 0 <= max_len
      OBVIOUS
    <3> HIDE DEF start
    <3> QED
      BY <2>1, <2>2, <3>1, <3>2 DEF SoFar
  <2>4. 0 \in 0..n /\ <<>> \in Seq(Signs)
    BY <1>1
  <2> HIDE DEF start, n
  <2> QED
    BY <1>4, <2>3, <2>4
<1>6. ASSUME NEW k \in 1..n, k - 1 \in A PROVE k \in A
  <2>1. texts[k - 1] \in Seq(Signs) /\ SoFar(outs[k - 1], b, from, max_len, texts[k - 1])
    BY <1>6
  <2>2. pieces[k] \in Bits /\ k \in 0..n
    BY <1>1
  <2> HIDE DEF n, start
  <2>3. SoFar(Printed(outs[k - 1], pieces[k]), b, from, max_len, Texted(texts[k - 1], pieces[k]))
    BY <2>1, <2>2, PrintedStep
  <2>4. Texted(texts[k - 1], pieces[k]) \in Seq(Signs)
    BY <2>1, <2>2, TextedIs
  <2>5. texts[k] = Texted(texts[k - 1], pieces[k]) /\ outs[k] = Printed(outs[k - 1], pieces[k])
    BY <1>4
  <2> QED
    BY <2>2, <2>3, <2>4, <2>5
<1>7. n \in A
  <2> HIDE DEF A, n
  <2>1. 0..n \subseteq A
    BY <1>1, <1>5, <1>6, Going!UpTo
  <2> QED
    BY <1>1, <2>1
<1>8. all \in Seq(Signs) /\ SoFar(out, b, from, max_len, all)
  <2> HIDE DEF start, out, all, n
  <2> QED
    BY <1>2, <1>3, <1>7
<1>9. got = IF out.failed THEN [buffer |-> out.buffer, returns |-> -1]
            ELSE [buffer |-> put, returns |-> out.written]
  BY LogFolds DEF Vsnprintf
<1> HIDE DEF got, start, out, all
<1>10. CASE Len(all) > max_len
  <2>1. out.failed
    BY <1>8, <1>10 DEF SoFar
  <2> QED
    BY <1>8, <1>9, <1>10, <2>1 DEF SoFar, got, all
<1>11. CASE Len(all) < max_len
  <2>1. ~out.failed /\ out.written = Len(all) /\ Holds(out.buffer, b, from, all) /\ Len(all) \in Nat
    BY <1>8, <1>11 DEF SoFar
  <2>2. EndPlace(out.written, max_len) = Len(all)
    BY <1>11, <2>1 DEF EndPlace
  <2> DEFINE idx == from + Len(all)  was == out.buffer
  <2>3. idx \in Nat /\ DOMAIN was = 0..(MAX_MSG_SIZE - 1) /\ Len(<<Nul>>) = 1
    BY <2>1 DEF Holds
  <2>4. OutSAre(was, from, idx, <<Nul>>, max_len)
    <3> HIDE DEF idx, was
    <3> QED
      BY <2>3, OutSIs
  <2>5. /\ DOMAIN put = 0..(MAX_MSG_SIZE - 1)
        /\ \A i \in 0..(MAX_MSG_SIZE - 1) : i < idx => put[i] = out.buffer[i]
    <3>1. put = OutS(was, from, idx, <<Nul>>, max_len)
      BY <2>2
    <3>2. \A i \in 0..(MAX_MSG_SIZE - 1) : i < idx => ~(idx <= i)
      BY <2>3
    <3> HIDE DEF put, idx
    <3> QED
      BY <2>4, <3>1, <3>2 DEF OutSAre
  <2> HIDE DEF put
  <2>6. ASSUME NEW i \in 0..(from - 1) PROVE put[i] = b[i]
    <3>1. i \in 0..(MAX_MSG_SIZE - 1) /\ i < idx
      BY <2>1, LogAssumption
    <3> QED
      BY <2>1, <2>5, <3>1 DEF Holds
  <2>7. ASSUME NEW j \in 1..Len(all) PROVE put[from + j - 1] = all[j]
    <3>1. from + j - 1 \in 0..(MAX_MSG_SIZE - 1) /\ from + j - 1 < idx
      BY <1>11, <2>1, LogAssumption
    <3> QED
      BY <2>1, <2>5, <3>1 DEF Holds
  <2>8. Holds(put, b, from, all)
    BY <2>5, <2>6, <2>7 DEF Holds
  <2>9. got.buffer = put /\ got.returns = Len(all)
    BY <1>9, <2>1
  <2> QED
    BY <1>8, <1>11, <2>1, <2>8, <2>9 DEF got, all
<1>12. Len(all) = max_len => ~(Len(all) > max_len) /\ ~(Len(all) < max_len)
  OBVIOUS
<1>13. Len(all) \in Nat
  BY <1>8
<1>14. Len(all) > max_len \/ Len(all) < max_len \/ Len(all) = max_len
  BY <1>13
<1> QED
  BY <1>8, <1>10, <1>11, <1>12, <1>14 DEF all

\* What an output writes of a buffer with a text at its start, once the end
\* of the line is behind it.
LEMMA WrittenIs ==
  ASSUME NEW b, DOMAIN b = 0..(MAX_MSG_SIZE - 1), NEW chars \in Seq(Signs), Len(chars) + 3 <= MAX_MSG_SIZE,
         \A j \in 1..Len(chars) : b[j - 1] = chars[j]
  PROVE  Written(OutS(b, 0, Len(chars), <<Cr, Lf, Nul>>, MAX_MSG_SIZE)) = chars \o <<Cr, Lf>>
<1> DEFINE m == Len(chars)
           put == OutS(b, 0, m, <<Cr, Lf, Nul>>, MAX_MSG_SIZE)
           line == chars \o <<Cr, Lf>>
           tail3 == <<Cr, Lf, Nul>>
           ends == {n \in DOMAIN put : put[n] = Nul}
<1>1. m \in Nat /\ MAX_MSG_SIZE \in Nat /\ \A j \in 1..m : chars[j] \in Signs
  BY LogAssumption
<1>2. Len(tail3) = 3 /\ tail3[1] = Cr /\ tail3[2] = Lf /\ tail3[3] = Nul
  OBVIOUS
<1> HIDE DEF tail3
<1>3. OutSAre(b, 0, m, tail3, MAX_MSG_SIZE)
  <2> HIDE DEF m
  <2> QED
    BY <1>1, <1>2, OutSIs
<1>4. /\ DOMAIN put = 0..(MAX_MSG_SIZE - 1)
      /\ \A i \in 0..(MAX_MSG_SIZE - 1) :
           put[i] = IF m <= i /\ i < m + Len(tail3) /\ i < 0 + MAX_MSG_SIZE THEN tail3[i - m + 1] ELSE b[i]
  BY <1>3 DEF OutSAre, tail3
<1> HIDE DEF put, m
<1>5. put[m] = Cr /\ put[m + 1] = Lf /\ put[m + 2] = Nul
  <2>1. /\ m \in 0..(MAX_MSG_SIZE - 1) /\ m + 1 \in 0..(MAX_MSG_SIZE - 1) /\ m + 2 \in 0..(MAX_MSG_SIZE - 1)
        /\ m - m + 1 = 1 /\ m + 1 - m + 1 = 2 /\ m + 2 - m + 1 = 3
    BY <1>1 DEF m
  <2> QED
    BY <1>1, <1>2, <1>4, <2>1
<1>6. ASSUME NEW j \in 1..m PROVE put[j - 1] = chars[j]
  <2>1. j - 1 \in 0..(MAX_MSG_SIZE - 1) /\ ~(m <= j - 1)
    BY <1>1 DEF m
  <2>2. put[j - 1] = b[j - 1]
    BY <1>4, <2>1
  <2> QED
    BY <2>2 DEF m
<1>7. /\ line \in Seq(Signs \cup {Cr, Lf}) /\ Len(line) = m + 2
      /\ \A j \in 1..m : line[j] = chars[j] 
      /\ line[m + 1] = Cr /\ line[m + 2] = Lf
  <2>1. chars \in Seq(Signs \cup {Cr, Lf}) /\ <<Cr, Lf>> \in Seq(Signs \cup {Cr, Lf}) /\ Len(<<Cr, Lf>>) = 2
        /\ <<Cr, Lf>>[1] = Cr /\ <<Cr, Lf>>[2] = Lf
    OBVIOUS
  <2> DEFINE two == <<Cr, Lf>>
  <2> HIDE DEF two
  <2>2. /\ chars \o two \in Seq(Signs \cup {Cr, Lf})
        /\ Len(chars \o two) = Len(chars) + Len(two)
        /\ \A i \in 1..(Len(chars) + Len(two)) :
             (chars \o two)[i] = IF i <= Len(chars) THEN chars[i] ELSE two[i - Len(chars)]
    BY <2>1, ConcatProperties DEF two
  <2>3. line = chars \o two /\ Len(two) = 2 /\ two[1] = Cr /\ two[2] = Lf
    BY <2>1 DEF two
  <2> HIDE DEF line
  <2>4. m + 1 \in 1..(m + 2) /\ m + 2 \in 1..(m + 2) /\ ~(m + 1 <= m) /\ ~(m + 2 <= m) /\ m + 1 - m = 1 /\ m + 2 - m = 2
    BY <1>1
  <2>5. \A i \in 1..m : i \in 1..(m + 2) /\ i <= m
    BY <1>1
  <2> QED
    BY <2>2, <2>3, <2>4, <2>5 DEF m
<1>8. m + 2 \in ends /\ \A n \in ends : m + 2 <= n
  <2>1. m + 2 \in ends
    <3>1. m + 2 \in 0..(MAX_MSG_SIZE - 1)
      BY <1>1 DEF m
    <3> QED
      BY <1>4, <1>5, <3>1
  <2>2. ASSUME NEW n \in ends PROVE m + 2 <= n
    <3>1. n \in Nat /\ put[n] = Nul
      BY <1>1, <1>4
    <3>2. n # m /\ n # m + 1
      BY <1>5, <3>1, SignsAre
    <3>3. ~(n < m)
      <4> SUFFICES ASSUME n < m PROVE FALSE
        OBVIOUS
      <4>1. n + 1 \in 1..m /\ n + 1 - 1 = n
        BY <1>1, <3>1
      <4>2. PICK j \in 1..m : n = j - 1
        BY <4>1, SMTT(40)
      <4>3. put[n] = chars[j] /\ chars[j] \in Signs
        BY <1>1, <1>6, <4>2
      <4> QED
        BY <3>1, <4>3, SignsAre
    <3> QED
      BY <1>1, <3>1, <3>2, <3>3
  <2> QED
    BY <2>1, <2>2
<1>9. \A n \in ends : n \in Nat
  BY <1>1, <1>4
<1> HIDE DEF ends, line
<1>10. (CHOOSE n \in ends : \A k \in ends : n <= k) = m + 2
  <2>1. \A n \in ends : (\A k \in ends : n <= k) => n = m + 2
    BY <1>1, <1>8, <1>9
  <2> QED
    BY <1>8, <2>1
<1>11. Written(put) = [j \in 1..(m + 2) |-> put[j - 1]]
  BY <1>10 DEF Written, ends
<1>12. ASSUME NEW j \in 1..(m + 2) PROVE put[j - 1] = line[j]
  <2>1. CASE j \in 1..m
    BY <1>6, <1>7, <2>1
  <2>2. CASE j = m + 1
    <3>1. j - 1 = m
      BY <1>1, <2>2
    <3> QED
      BY <1>5, <1>7, <2>2, <3>1
  <2>3. CASE j = m + 2
    <3>1. j - 1 = m + 1
      BY <1>1, <2>3
    <3> QED
      BY <1>5, <1>7, <2>3, <3>1
  <2> QED
    BY <1>1, <2>1, <2>2, <2>3
<1>13. line = [j \in 1..(m + 2) |-> line[j]]
  BY <1>1, <1>7
<1>14. Written(put) = line
  BY <1>11, <1>12, <1>13
<1> QED
  BY <1>14 DEF put, line, m, tail3

LEMMA LevelIs ==
  ASSUME NEW level \in Levels
  PROVE  /\ GetLevelString(level) \in Seq(Signs) /\ Len(GetLevelString(level)) = LevelLength
         /\ <<[conversion |-> TRUE, str |-> GetLevelString(level)]>> \in Seq(Bits)
         /\ TextOf(<<[conversion |-> TRUE, str |-> GetLevelString(level)]>>) = GetLevelString(level)
<1> DEFINE str == GetLevelString(level)  piece == [conversion |-> TRUE, str |-> str]
<1>1. LevelLength \in Nat
  BY LogAssumption
<1>2. str \in Seq(Signs) /\ Len(str) = LevelLength
  <2>1. \A j \in 1..LevelLength : <<"level", level, j>> \in Signs
    <3>1. level \in Int
      BY DEF Levels
    <3> QED
      BY <1>1, <3>1 DEF Signs
  <2> QED
    BY <1>1, <2>1 DEF GetLevelString
<1> HIDE DEF str
<1>3. piece \in Bits /\ piece.str = str
  BY <1>2 DEF Bits
<1> HIDE DEF piece
<1>4. <<piece>> \in Seq(Bits) /\ <<piece>> = Append(<<>>, piece) /\ <<>> \in Seq(Bits)
  BY <1>3
<1>5. Texting!Folded(<<>>, <<piece>>) = Texted(Texting!Folded(<<>>, <<>>), piece)
  <2> DEFINE none == <<>>
  <2>1. none \in Seq(Bits)
    BY <1>4
  <2> HIDE DEF none
  <2>2. Texting!Folded(none, Append(none, piece)) = Texted(Texting!Folded(none, none), piece)
    BY <2>1, Texting!FoldedAppend
  <2> QED
    BY <1>4, <2>2 DEF none
<1>6. Texting!Folded(<<>>, <<>>) = <<>>
  BY Texting!FoldedEmpty
<1>7. Texted(<<>>, piece) = str
  <2>1. <<>> \o str = str
    BY <1>2, ConcatEmptySeq
  <2> QED
    BY <1>3, <2>1 DEF Texted
<1>8. TextOf(<<piece>>) = str
  BY <1>5, <1>6, <1>7, LogFolds
<1> QED
  BY <1>2, <1>4, <1>8 DEF piece, str

\* The line that log_vprintf makes of a message.
LEMMA MessageIs ==
  ASSUME NEW level \in Levels, NEW pieces \in Seq(Bits), Len(TextOf(pieces)) # Room
  PROVE  Written(MsgBuffer(level, pieces)) =
           IF Len(TextOf(pieces)) < Room
           THEN GetLevelString(level) \o TextOf(pieces) \o <<Cr, Lf>>
           ELSE Front(GetLevelString(level)) \o <<Cr, Lf>>
<1> DEFINE str == GetLevelString(level)
           first == <<[conversion |-> TRUE, str |-> str]>>
           blank == [i \in 0..(MAX_MSG_SIZE - 1) |-> Garbage]
           prefix == Vsnprintf(blank, 0, MAX_MSG_SIZE - 2, first)
           all == TextOf(pieces)
           got == Vsnprintf(prefix.buffer, prefix.returns, MAX_MSG_SIZE - 2 - prefix.returns, pieces)
<1>1. /\ MAX_MSG_SIZE \in Nat /\ LevelLength \in Nat \ {0} /\ MAX_MSG_SIZE - 2 > LevelLength
      /\ Room = MAX_MSG_SIZE - 2 - LevelLength
  BY LogAssumption DEF Room
<1>2. str \in Seq(Signs) /\ Len(str) = LevelLength /\ first \in Seq(Bits) /\ TextOf(first) = str
  BY LevelIs
<1>3. prefix.returns = LevelLength /\ Holds(prefix.buffer, blank, 0, str)
  <2>1. DOMAIN blank = 0..(MAX_MSG_SIZE - 1) /\ MAX_MSG_SIZE - 2 \in Nat /\ 0 + (MAX_MSG_SIZE - 2) <= MAX_MSG_SIZE
        /\ Len(str) < MAX_MSG_SIZE - 2
    BY <1>1, <1>2
  <2> HIDE DEF blank, first, str
  <2>2. /\ prefix.returns = Len(TextOf(first))
        /\ Holds(prefix.buffer, blank, 0, TextOf(first))
    BY <1>2, <2>1, VsnprintfIs
  <2> QED
    BY <1>2, <2>2
<1>4. got = Vsnprintf(prefix.buffer, LevelLength, Room, pieces)
  BY <1>1, <1>3
<1>5. DOMAIN prefix.buffer = 0..(MAX_MSG_SIZE - 1) /\ \A j \in 1..LevelLength : prefix.buffer[j - 1] = str[j]
  <2>1. \A j \in 1..LevelLength : 0 + j - 1 = j - 1
    OBVIOUS
  <2> HIDE DEF prefix, str, blank
  <2> QED
    BY <1>2, <1>3, <2>1 DEF Holds
<1>6. MsgBuffer(level, pieces) = OutS(got.buffer, 0, LevelLength + got.returns, <<Cr, Lf, Nul>>, MAX_MSG_SIZE)
  BY <1>3 DEF MsgBuffer
<1> HIDE DEF prefix, blank, first, got
<1>7. Room \in Nat /\ LevelLength + Room <= MAX_MSG_SIZE
  BY <1>1
<1>8. /\ all \in Seq(Signs)
      /\ Len(all) > Room => got.returns = -1 /\ Holds(got.buffer, prefix.buffer, LevelLength, <<>>)
      /\ Len(all) < Room => got.returns = Len(all) /\ Holds(got.buffer, prefix.buffer, LevelLength, all)
  BY <1>1, <1>4, <1>5, <1>7, VsnprintfIs
<1> HIDE DEF str, all
<1>9. CASE Len(all) < Room
  <2> DEFINE chars == str \o all
  <2>1. /\ chars \in Seq(Signs) /\ Len(chars) = LevelLength + Len(all)
        /\ \A i \in 1..(LevelLength + Len(all)) :
             chars[i] = IF i <= LevelLength THEN str[i] ELSE all[i - LevelLength]
    BY <1>2, <1>8, ConcatProperties
  <2>2. Len(all) \in Nat
    BY <1>8
  <2>3. got.returns = Len(all) /\ DOMAIN got.buffer = 0..(MAX_MSG_SIZE - 1)
        /\ (\A i \in 0..(LevelLength - 1) : got.buffer[i] = prefix.buffer[i])
        /\ (\A j \in 1..Len(all) : got.buffer[LevelLength + j - 1] = all[j])
    BY <1>8, <1>9 DEF Holds
  <2> HIDE DEF chars
  <2>4. ASSUME NEW j \in 1..Len(chars) PROVE got.buffer[j - 1] = chars[j]
    <3>1. CASE j <= LevelLength
      <4>1. j - 1 \in 0..(LevelLength - 1) /\ j \in 1..LevelLength /\ j \in 1..(LevelLength + Len(all))
        BY <1>1, <2>1, <2>2, <3>1
      <4>2. got.buffer[j - 1] = prefix.buffer[j - 1] /\ prefix.buffer[j - 1] = str[j]
        BY <1>5, <2>3, <4>1
      <4> QED
        BY <2>1, <3>1, <4>1, <4>2
    <3>2. CASE ~(j <= LevelLength)
      <4>1. /\ j - LevelLength \in 1..Len(all) /\ LevelLength + (j - LevelLength) - 1 = j - 1
            /\ j \in 1..(LevelLength + Len(all))
        BY <1>1, <2>1, <2>2, <3>2
      <4>2. got.buffer[LevelLength + (j - LevelLength) - 1] = all[j - LevelLength]
        BY <2>3, <4>1
      <4> QED
        BY <2>1, <3>2, <4>1, <4>2
    <3> QED
      BY <3>1, <3>2
  <2>5. Len(chars) + 3 <= MAX_MSG_SIZE
    BY <1>1, <1>9, <2>1, <2>2
  <2>6. Written(OutS(got.buffer, 0, Len(chars), <<Cr, Lf, Nul>>, MAX_MSG_SIZE)) = chars \o <<Cr, Lf>>
    BY <2>1, <2>3, <2>4, <2>5, WrittenIs
  <2> QED
    BY <1>6, <1>9, <2>1, <2>3, <2>6 DEF chars, str, all
<1>10. CASE Len(all) > Room
  <2> DEFINE chars == Front(str)
  <2>1. chars = SubSeq(str, 1, LevelLength - 1)
    BY <1>2 DEF Front
  <2>2. /\ SubSeq(str, 1, LevelLength - 1) \in Seq(Signs)
        /\ Len(SubSeq(str, 1, LevelLength - 1)) = LevelLength - 1
        /\ \A i \in 1..(LevelLength - 1) : SubSeq(str, 1, LevelLength - 1)[i] = str[i]
    BY <1>1, <1>2
  <2>3. got.returns = -1 /\ DOMAIN got.buffer = 0..(MAX_MSG_SIZE - 1)
        /\ (\A i \in 0..(LevelLength - 1) : got.buffer[i] = prefix.buffer[i])
    BY <1>8, <1>10 DEF Holds
  <2> HIDE DEF chars
  <2>4. ASSUME NEW j \in 1..Len(chars) PROVE got.buffer[j - 1] = chars[j]
    <3>1. j - 1 \in 0..(LevelLength - 1) /\ j \in 1..LevelLength /\ j \in 1..(LevelLength - 1)
      BY <1>1, <2>1, <2>2
    <3>2. got.buffer[j - 1] = prefix.buffer[j - 1] /\ prefix.buffer[j - 1] = str[j]
      BY <1>5, <2>3, <3>1
    <3> QED
      BY <2>1, <2>2, <3>1, <3>2
  <2>5. Len(chars) + 3 <= MAX_MSG_SIZE /\ Len(chars) = LevelLength + (-1)
    BY <1>1, <2>1, <2>2
  <2>6. Written(OutS(got.buffer, 0, Len(chars), <<Cr, Lf, Nul>>, MAX_MSG_SIZE)) = chars \o <<Cr, Lf>>
    BY <2>1, <2>2, <2>3, <2>4, <2>5, WrittenIs
  <2>7. ~(Len(all) < Room)
    BY <1>7, <1>8, <1>10
  <2>8. LevelLength + got.returns = Len(chars)
    BY <2>3, <2>5
  <2> QED
    BY <1>6, <2>6, <2>7, <2>8 DEF chars, str, all
<1>11. Len(all) < Room \/ Len(all) > Room
  <2>1. Len(all) \in Nat /\ Len(all) # Room
    BY <1>8 DEF all
  <2> QED
    BY <1>7, <2>1
<1> QED
  BY <1>9, <1>10, <1>11

----------------------------------------------------------------------------
(* The table of outputs                                                    *)

\* The outputs that are to hear a message, and the table with those that
\* found a place.
Registered == [max_level : MaxLevels, write_func : Nat]
Hears(i, level) == added[i].max_level >= level
Tabled ==
  /\ added \in Seq(Registered)
  /\ \A i \in 1..Len(added) : added[i].write_func = i
  /\ DOMAIN log_outputs = 1..MAX_LOG_OUTPUTS
  /\ \A i \in 1..MAX_LOG_OUTPUTS : log_outputs[i] = IF i <= Len(added) THEN added[i] ELSE <<>>

\* The outputs met in the first k places, in order, each heard by its level.
Met(to, level, k) ==
  /\ to.level = level /\ to.outputs \in Seq(Registered)
  /\ \A j \in 1..Len(to.outputs) :
       /\ to.outputs[j].write_func \in 1..k /\ to.outputs[j].write_func <= Len(added)
       /\ Hears(to.outputs[j].write_func, level)
  /\ \A i \in 1..k : i <= Len(added) /\ Hears(i, level) =>
       \E j \in 1..Len(to.outputs) : to.outputs[j].write_func = i
  /\ \A i, j \in 1..Len(to.outputs) : i < j => to.outputs[i].write_func < to.outputs[j].write_func

LEMMA HandedStep ==
  ASSUME Tabled, NEW level, NEW k \in 1..MAX_LOG_OUTPUTS, NEW to, Met(to, level, k - 1)
  PROVE  Met(Handed(to, log_outputs[k]), level, k)
<1> DEFINE new == Handed(to, log_outputs[k])
<1>1. k \in Nat /\ k - 1 \in Nat /\ MAX_LOG_OUTPUTS \in Nat /\ Len(added) \in Nat /\ to.outputs \in Seq(Registered)
      /\ Len(to.outputs) \in Nat
  BY LogAssumption DEF Tabled, Met
<1>2. CASE k <= Len(added) /\ Hears(k, level)
  <2>1. log_outputs[k] = added[k] /\ k \in 1..Len(added) /\ added[k] \in Registered /\ added[k].write_func = k
    <3>1. k \in 1..Len(added) /\ k \in 1..MAX_LOG_OUTPUTS
      BY <1>1, <1>2
    <3>2. log_outputs[k] = added[k] /\ added[k].write_func = k
      BY <1>2, <3>1 DEF Tabled
    <3>3. added[k] \in Registered
      BY <3>1 DEF Tabled
    <3> QED
      BY <3>1, <3>2, <3>3
  <2>2. added[k] # <<>>
    <3>1. DOMAIN <<>> = {}
      OBVIOUS
    <3>2. "write_func" \in DOMAIN added[k]
      BY <2>1 DEF Registered
    <3> QED
      BY <3>1, <3>2
  <2>3. level <= added[k].max_level
    BY <1>2 DEF Hears
  <2>4. new.level = level /\ new.outputs = Append(to.outputs, added[k])
    BY <2>1, <2>2, <2>3 DEF Handed, Met
  <2> DEFINE n == Len(to.outputs)
  <2> HIDE DEF new
  <2>5. /\ new.outputs \in Seq(Registered) /\ Len(new.outputs) = n + 1
        /\ new.outputs[n + 1] = added[k]
        /\ \A j \in 1..n : new.outputs[j] = to.outputs[j]
    BY <1>1, <2>1, <2>4
  <2>6. ASSUME NEW j \in 1..(n + 1)
        PROVE  /\ new.outputs[j].write_func \in 1..k /\ new.outputs[j].write_func <= Len(added)
               /\ Hears(new.outputs[j].write_func, level)
    <3>1. CASE j = n + 1
      BY <1>1, <1>2, <2>1, <2>5, <3>1
    <3>2. CASE j # n + 1
      <4>1. j \in 1..n
        BY <1>1, <3>2
      <4>2. /\ to.outputs[j].write_func \in 1..(k - 1) /\ to.outputs[j].write_func <= Len(added)
            /\ Hears(to.outputs[j].write_func, level)
        BY <4>1 DEF Met
      <4>3. new.outputs[j] = to.outputs[j]
        BY <2>5, <4>1
      <4>4. \A w \in 1..(k - 1) : w \in 1..k
        BY <1>1
      <4> QED
        BY <4>2, <4>3, <4>4
    <3> QED
      BY <3>1, <3>2
  <2>7. ASSUME NEW i \in 1..k, i <= Len(added), Hears(i, level)
        PROVE  \E j \in 1..(n + 1) : new.outputs[j].write_func = i
    <3>1. CASE i = k
      <4>1. n + 1 \in 1..(n + 1)
        BY <1>1
      <4> QED
        BY <2>1, <2>5, <3>1, <4>1
    <3>2. CASE i # k
      <4>1. i \in 1..(k - 1)
        BY <1>1, <3>2
      <4>2. PICK j \in 1..n : to.outputs[j].write_func = i
        BY <2>7, <4>1 DEF Met
      <4>3. j \in 1..(n + 1)
        BY <1>1
      <4> QED
        BY <2>5, <4>2, <4>3
    <3> QED
      BY <3>1, <3>2
  <2>8. ASSUME NEW i \in 1..(n + 1), NEW j \in 1..(n + 1), i < j
        PROVE  new.outputs[i].write_func < new.outputs[j].write_func
    <3>1. i \in 1..n
      BY <1>1, <2>8
    <3>2. new.outputs[i].write_func = to.outputs[i].write_func /\ to.outputs[i].write_func \in 1..(k - 1)
      BY <2>5, <3>1 DEF Met
    <3>3. CASE j = n + 1
      <4>1. new.outputs[j].write_func = k
        BY <2>1, <2>5, <3>3
      <4>2. \A w \in 1..(k - 1) : w < k
        BY <1>1
      <4> QED
        BY <3>2, <4>1, <4>2
    <3>4. CASE j # n + 1
      <4>1. j \in 1..n
        BY <1>1, <3>4
      <4>2. to.outputs[i].write_func < to.outputs[j].write_func
        BY <2>8, <3>1, <4>1 DEF Met
      <4> QED
        BY <2>5, <3>2, <4>1, <4>2
    <3> QED
      BY <3>3, <3>4
  <2>9. Len(new.outputs) = n + 1
    BY <2>5
  <2> HIDE DEF n
  <2>10. Met(new, level, k)
    BY <2>4, <2>5, <2>6, <2>7, <2>8, <2>9 DEF Met
  <2> QED
    BY <2>10 DEF new
<1>3. CASE ~(k <= Len(added) /\ Hears(k, level))
  <2>1. log_outputs[k] = <<>> \/ ~(level <= log_outputs[k].max_level)
    <3>1. CASE k <= Len(added)
      <4>1. log_outputs[k] = added[k] /\ k \in 1..Len(added) /\ ~Hears(k, level)
        BY <1>1, <1>3, <3>1 DEF Tabled
      <4> QED
        BY <4>1 DEF Hears
    <3>2. CASE ~(k <= Len(added))
      BY <3>2 DEF Tabled
    <3> QED
      BY <3>1, <3>2
  <2>2. new = to
    BY <2>1 DEF Handed, Met
  <2>3. \A j \in 1..Len(to.outputs) : to.outputs[j].write_func \in 1..k
    <3>1. 1..(k - 1) \subseteq 1..k
      BY <1>1
    <3> QED
      BY <3>1 DEF Met
  <2>4. \A i \in 1..k : i <= Len(added) /\ Hears(i, level) => i \in 1..(k - 1)
    BY <1>1, <1>3
  <2> HIDE DEF new
  <2>5. Met(to, level, k)
    BY <2>3, <2>4 DEF Met
  <2> QED
    BY <2>2, <2>5 DEF new
<1> QED
  BY <1>2, <1>3

\* A message is handed to the outputs that hear it, in their order.
LEMMA OutputsAre ==
  ASSUME Tabled, NEW level
  PROVE  \E to : to.outputs = Outputs(log_outputs, level) /\ Met(to, level, MAX_LOG_OUTPUTS)
<1> DEFINE n == MAX_LOG_OUTPUTS
           start == [level |-> level, outputs |-> <<>>]
<1>1. n \in Nat /\ DOMAIN log_outputs = 1..n
  BY LogAssumption DEF Tabled
<1>2. PICK run : Handing!Runs(run, start, log_outputs, n) /\ Handing!Folded(start, log_outputs) = run[n]
  <2> HIDE DEF n, start
  <2> QED
    BY <1>1, Handing!FoldedIs
<1>3. run[0] = start /\ \A k \in 1..n : run[k] = Handed(run[k - 1], log_outputs[k])
  <2> HIDE DEF n, start
  <2> QED
    BY <1>2 DEF Handing!Runs
<1> DEFINE A == {k \in 0..n : Met(run[k], level, k)}
<1>4. 0 \in A
  <2>1. start.level = level /\ start.outputs = <<>> /\ Len(<<>>) = 0
    OBVIOUS
  <2>2. 0 \in 0..n /\ 1..0 = {} /\ <<>> \in Seq(Registered)
    BY <1>1
  <2> HIDE DEF start, n
  <2>3. Met(start, level, 0)
    BY <2>1, <2>2 DEF Met
  <2> QED
    BY <1>3, <2>2, <2>3
<1>5. ASSUME NEW k \in 1..n, k - 1 \in A PROVE k \in A
  <2>1. Met(run[k - 1], level, k - 1) /\ k \in 0..n
    BY <1>1, <1>5
  <2>2. Met(Handed(run[k - 1], log_outputs[k]), level, k)
    BY <2>1, HandedStep
  <2> QED
    BY <1>3, <2>1, <2>2
<1>6. n \in A
  <2> HIDE DEF A, n
  <2>1. 0..n \subseteq A
    BY <1>1, <1>4, <1>5, Going!UpTo
  <2> QED
    BY <1>1, <2>1
<1>7. run[n].outputs = Outputs(log_outputs, level)
  BY <1>2, LogFolds
<1> QED
  BY <1>6, <1>7

\* The log as it should be: the table, and of the last message what the
\* outputs got.
LogInv ==
  /\ Tabled
  /\ \/ message = NoMessage
     \/ /\ message.level \in Levels /\ message.pieces \in Seq(Bits)
        /\ sent = LogVprintf(log_outputs, message.level, message.pieces)

LEMMA LogStart == Init => LogInv
<1> SUFFICES ASSUME Init PROVE LogInv
  OBVIOUS
<1>1. added = <<>> /\ message = NoMessage /\ log_outputs = [i \in 1..MAX_LOG_OUTPUTS |-> <<>>]
  BY DEF Init, NoOutputs
<1>2. \A i \in 1..MAX_LOG_OUTPUTS : ~(i <= 0)
  BY LogAssumption
<1>3. added \in Seq(Registered) /\ Len(added) = 0
  BY <1>1
<1>4. Tabled
  BY <1>1, <1>2, <1>3 DEF Tabled
<1> QED
  BY <1>1, <1>4 DEF LogInv

\* log_add_output puts an output in the first free place, if there is one.
LEMMA AddStep ==
  ASSUME LogInv, NEW max_level \in MaxLevels, AddOutput(max_level)
  PROVE  LogInv'
<1> DEFINE n == Len(added)
           output == [max_level |-> max_level, write_func |-> n + 1]
           free == {i \in 1..Len(log_outputs) : log_outputs[i] = <<>>}
           place == IF free # {} THEN Min(free) ELSE 0
<1>1. /\ added' = Append(added, output) /\ message' = NoMessage
      /\ log_outputs' = IF place = 0 THEN log_outputs ELSE [log_outputs EXCEPT ![place] = output]
  BY DEF AddOutput, LogAddOutput, SelectInSeq
<1>2. /\ n \in Nat /\ MAX_LOG_OUTPUTS \in Nat /\ added \in Seq(Registered)
      /\ DOMAIN log_outputs = 1..MAX_LOG_OUTPUTS
      /\ \A i \in 1..MAX_LOG_OUTPUTS : log_outputs[i] = IF i <= n THEN added[i] ELSE <<>>
      /\ \A i \in 1..n : added[i].write_func = i
  BY LogAssumption DEF LogInv, Tabled
<1>3. output \in Registered /\ output.write_func = n + 1
  BY <1>2 DEF Registered
<1> HIDE DEF output
<1>4. /\ added' \in Seq(Registered) /\ Len(added') = n + 1
      /\ added'[n + 1] = output /\ \A i \in 1..n : added'[i] = added[i]
  BY <1>1, <1>2, <1>3
<1>5. \A i \in 1..n : added[i] # <<>>
  <2> SUFFICES ASSUME NEW i \in 1..n PROVE added[i] # <<>>
    OBVIOUS
  <2>1. DOMAIN <<>> = {}
    OBVIOUS
  <2>2. added[i] \in Registered
    BY <1>2
  <2>3. "write_func" \in DOMAIN added[i]
    BY <2>2 DEF Registered
  <2> QED
    BY <2>1, <2>3
<1>6. free = {i \in 1..MAX_LOG_OUTPUTS : i > n}
  <2>1. Len(log_outputs) = MAX_LOG_OUTPUTS
    BY <1>2
  <2>2. \A i \in 1..MAX_LOG_OUTPUTS : log_outputs[i] = <<>> <=> i > n
    <3> SUFFICES ASSUME NEW i \in 1..MAX_LOG_OUTPUTS PROVE log_outputs[i] = <<>> <=> i > n
      OBVIOUS
    <3>1. CASE i <= n
      <4>1. i \in 1..n /\ ~(i > n) /\ log_outputs[i] = added[i]
        BY <1>2, <3>1
      <4> QED
        BY <1>5, <4>1
    <3>2. CASE ~(i <= n)
      <4>1. i > n /\ log_outputs[i] = <<>>
        BY <1>2, <3>2
      <4> QED
        BY <4>1
    <3> QED
      BY <3>1, <3>2
  <2> QED
    BY <2>1, <2>2
<1>7. place = IF n + 1 <= MAX_LOG_OUTPUTS THEN n + 1 ELSE 0
  <2>1. CASE n + 1 <= MAX_LOG_OUTPUTS
    <3>1. n + 1 \in free /\ \A i \in free : n + 1 <= i /\ i \in Nat
      BY <1>2, <1>6, <2>1
    <3> HIDE DEF free
    <3>2. \A x \in free : (\A y \in free : x <= y) => x = n + 1
      BY <1>2, <3>1
    <3>3. Min(free) = n + 1
      BY <3>1, <3>2 DEF Min
    <3> QED
      BY <2>1, <3>1, <3>3
  <2>2. CASE ~(n + 1 <= MAX_LOG_OUTPUTS)
    <3>1. free = {}
      BY <1>2, <1>6, <2>2
    <3> HIDE DEF free
    <3> QED
      BY <2>2, <3>1
  <2> QED
    BY <2>1, <2>2
<1> HIDE DEF free, place
<1>8. ASSUME NEW i \in 1..(n + 1) PROVE added'[i].write_func = i
  <2>1. CASE i = n + 1
    BY <1>3, <1>4, <2>1
  <2>2. CASE i # n + 1
    <3>1. i \in 1..n
      BY <1>2, <2>2
    <3> QED
      BY <1>2, <1>4, <3>1
  <2> QED
    BY <2>1, <2>2
<1>9. DOMAIN log_outputs' = 1..MAX_LOG_OUTPUTS
  BY <1>1, <1>2
<1>10. ASSUME NEW i \in 1..MAX_LOG_OUTPUTS
       PROVE  log_outputs'[i] = IF i <= n + 1 THEN added'[i] ELSE <<>>
  <2>1. CASE i = n + 1
    <3>1. place = n + 1 /\ place # 0
      BY <1>2, <1>7, <2>1
    <3>2. log_outputs' = [log_outputs EXCEPT ![i] = output]
      BY <1>1, <2>1, <3>1
    <3>3. log_outputs'[i] = output
      BY <1>2, <3>2
    <3> QED
      BY <1>2, <1>4, <2>1, <3>3
  <2>2. CASE i # n + 1
    <3>1. place # i
      BY <1>2, <1>7, <2>2
    <3>2. log_outputs'[i] = log_outputs[i]
      BY <1>1, <1>2, <3>1
    <3>3. CASE i <= n
      <4>1. i \in 1..n /\ i <= n + 1
        BY <1>2, <3>3
      <4>2. log_outputs[i] = added[i]
        BY <1>2, <3>3
      <4> QED
        BY <1>4, <3>2, <4>1, <4>2
    <3>4. CASE ~(i <= n)
      <4>1. ~(i <= n + 1)
        BY <1>2, <2>2, <3>4
      <4>2. log_outputs[i] = <<>>
        BY <1>2, <3>4
      <4> QED
        BY <3>2, <4>1, <4>2
    <3> QED
      BY <3>3, <3>4
  <2> QED
    BY <2>1, <2>2
<1>11. Tabled'
  BY <1>4, <1>8, <1>9, <1>10 DEF Tabled
<1> QED
  BY <1>1, <1>11 DEF LogInv, NoMessage

LEMMA LogStep == LogInv /\ [Next]_vars => LogInv'
<1> SUFFICES ASSUME LogInv, [Next]_vars PROVE LogInv'
  OBVIOUS
<1>1. CASE UNCHANGED logVars
  BY <1>1 DEF logVars, LogInv, Tabled
<1>2. ASSUME NEW max_level \in MaxLevels, AddOutput(max_level) PROVE LogInv'
  BY <1>2, AddStep
<1>3. ASSUME NEW level \in Levels, NEW n \in 1..2, NEW lengths \in [1..n -> PieceLengths], NEW first \in BOOLEAN,
             LogPrintf(level, PiecesOf(lengths, first))
      PROVE  LogInv'
  <2> DEFINE pieces == PiecesOf(lengths, first)
  <2>1. pieces = [k \in 1..n |-> [conversion |-> (k % 2 = 1) = first, str |-> PieceText(k, lengths[k])]]
    BY DEF PiecesOf
  <2>2. ASSUME NEW k \in 1..n PROVE PieceText(k, lengths[k]) \in Seq(Signs)
    <3>1. lengths[k] \in Nat
      BY LibraryAssumption
    <3>2. \A j \in 1..lengths[k] : <<"text", k, j>> \in Signs
      BY <3>1 DEF Signs
    <3> QED
      BY <3>1, <3>2 DEF PieceText
  <2>3. \A k \in 1..n : ((k % 2 = 1) = first) \in BOOLEAN
    BY Zenon
  <2>4. \A k \in 1..n : [conversion |-> (k % 2 = 1) = first, str |-> PieceText(k, lengths[k])] \in Bits
    BY <2>2, <2>3, Zenon DEF Bits
  <2>5. pieces \in Seq(Bits)
    <3> DEFINE bit(k) == [conversion |-> (k % 2 = 1) = first, str |-> PieceText(k, lengths[k])]
    <3>1. \A k \in 1..n : bit(k) \in Bits
      BY <2>4
    <3>2. pieces = [k \in 1..n |-> bit(k)] /\ n \in Nat
      BY <2>1
    <3> HIDE DEF bit, pieces
    <3> QED
      BY <3>1, <3>2
  <2> HIDE DEF pieces
  <2>6. /\ message' = [level |-> level, pieces |-> pieces]
        /\ sent' = LogVprintf(log_outputs, level, pieces)
        /\ UNCHANGED <<log_outputs, added>>
    BY <1>3 DEF LogPrintf, pieces
  <2>7. message'.level = level /\ message'.pieces = pieces
    BY <2>6
  <2>8. Tabled'
    BY <2>6 DEF LogInv, Tabled
  <2>9. sent' = LogVprintf(log_outputs', message'.level, message'.pieces)
    BY <2>6, <2>7
  <2> QED
    BY <2>5, <2>7, <2>8, <2>9 DEF LogInv
<1>4. \/ UNCHANGED logVars
      \/ \E max_level \in MaxLevels : AddOutput(max_level)
      \/ \E level \in Levels, lengths \in UNION {[1..n -> PieceLengths] : n \in 1..2}, first \in BOOLEAN :
           LogPrintf(level, PiecesOf(lengths, first))
  BY DEF Next, vars, Ask, AskCanonicize, AskTarfs, AskClock, AskPrint, AskFormat, Answer, Write,
         TerminalPutchar, TerminalClear, ListStep
<1> QED
  BY <1>1, <1>2, <1>3, <1>4

\* A message that fits reaches each of the first outputs added, as many as
\* there are places, whose level it has, whole and as one line, and no other;
\* one that does not fit leaves out its text (log_vprintf, log_add_output and
\* _vsnprintf).
THEOREM LinesReach == Spec => []LogRight
<1>1. LogInv => LogRight
  <2> SUFFICES ASSUME LogInv, message # NoMessage, Len(TextOf(message.pieces)) # Room PROVE LogRight
    BY DEF LogRight
  <2> DEFINE level == message.level  pieces == message.pieces
             outputs == Outputs(log_outputs, level)
             line == IF Len(TextOf(pieces)) < Room
                     THEN GetLevelString(level) \o TextOf(pieces) \o <<Cr, Lf>>
                     ELSE Front(GetLevelString(level)) \o <<Cr, Lf>>
             hearing == {i \in DOMAIN added : i <= MAX_LOG_OUTPUTS /\ added[i].max_level >= level}
  <2>1. level \in Levels /\ pieces \in Seq(Bits) /\ Tabled
    BY DEF LogInv
  <2>2. sent = [k \in DOMAIN outputs |->
                  [output |-> outputs[k].write_func, string |-> Written(MsgBuffer(level, pieces))]]
    BY DEF LogInv, LogVprintf
  <2>3. Written(MsgBuffer(level, pieces)) = line
    <3> HIDE DEF level, pieces
    <3>1. Len(TextOf(pieces)) # Room
      BY DEF pieces
    <3> QED
      BY <2>1, <3>1, MessageIs
  <2>4. PICK to : to.outputs = outputs /\ Met(to, level, MAX_LOG_OUTPUTS)
    <3> HIDE DEF level
    <3> QED
      BY <2>1, OutputsAre
  <2> HIDE DEF outputs, level, pieces, line, hearing
  <2>5. DOMAIN outputs = 1..Len(outputs) /\ Len(outputs) \in Nat
    BY <2>4 DEF Met
  <2>6. DOMAIN added = 1..Len(added) /\ Len(added) \in Nat /\ MAX_LOG_OUTPUTS \in Nat
    BY <2>1, LogAssumption DEF Tabled
  <2>7. DOMAIN sent = 1..Len(outputs)
    BY <2>2, <2>5
  <2>8. \A k \in 1..Len(outputs) : sent[k].string = line /\ sent[k].output = outputs[k].write_func
    BY <2>2, <2>3, <2>5
  <2>9. \A k \in 1..Len(outputs) : outputs[k].write_func \in hearing
    <3> SUFFICES ASSUME NEW k \in 1..Len(outputs) PROVE outputs[k].write_func \in hearing
      OBVIOUS
    <3>1. /\ outputs[k].write_func \in 1..MAX_LOG_OUTPUTS /\ outputs[k].write_func <= Len(added)
          /\ Hears(outputs[k].write_func, level)
      BY <2>4 DEF Met
    <3>2. outputs[k].write_func \in 1..Len(added) /\ outputs[k].write_func <= MAX_LOG_OUTPUTS
      BY <2>6, <3>1
    <3> QED
      BY <2>6, <3>1, <3>2 DEF hearing, Hears
  <2>10. ASSUME NEW i \in hearing PROVE \E k \in 1..Len(outputs) : outputs[k].write_func = i
    <3>1. i \in 1..MAX_LOG_OUTPUTS /\ i <= Len(added) /\ Hears(i, level)
      BY <2>6 DEF hearing, Hears
    <3> QED
      BY <2>4, <3>1 DEF Met
  <2>11. {sent[k].output : k \in DOMAIN sent} = hearing
    BY <2>7, <2>8, <2>9, <2>10
  <2>12. \A j, k \in DOMAIN sent : j < k => sent[j].output < sent[k].output
    BY <2>4, <2>7, <2>8 DEF Met
  <2> QED
    BY <2>7, <2>8, <2>11, <2>12 DEF LogRight, line, hearing, level, pieces
<1> QED
  BY <1>1, LogStart, LogStep, PTL DEF Spec

----------------------------------------------------------------------------
(* Archives                                                                *)

\* FlattenSeq is a fold as well.
LEMMA Flattened ==
  ASSUME NEW U, NEW seqs \in Seq(Seq(U))
  PROVE  FlattenSeq(seqs) = Flat!Folded(<<>>, seqs)
<1> DEFINE n == Len(seqs)
           Def(f) == [i \in 1..n |-> IF i = 1 THEN seqs[i] ELSE f[i - 1] \o seqs[i]]
           flat == CHOOSE f : f = Def(f)
<1>0. n \in Nat /\ DOMAIN seqs = 1..n /\ \A i \in 1..n : seqs[i] \in Seq(U)
  BY LenProperties, ElementOfSeq
<1>1. PICK run : Flat!Runs(run, <<>>, seqs, n) /\ Flat!Folded(<<>>, seqs) = run[n]
  BY <1>0, Flat!FoldedIs
<1>2. DOMAIN run = 0..n /\ run[0] = <<>> /\ \A i \in 1..n : run[i] = run[i - 1] \o seqs[i]
  BY <1>1 DEF Flat!Runs
<1>3. CASE n = 0
  <2>1. FlattenSeq(seqs) = seqs /\ seqs = <<>>
    BY <1>3 DEF FlattenSeq
  <2> QED
    BY <1>1, <1>2, <1>3, <2>1
<1>4. CASE n # 0
  <2>1. FlattenSeq(seqs) = flat[n]
    BY <1>4 DEF FlattenSeq
  <2>2. run[1] = seqs[1]
    <3> DEFINE one == 1
    <3>0. one \in 1..n /\ one - 1 = 0
      BY <1>0, <1>4
    <3> HIDE DEF one
    <3>a. run[one] = run[one - 1] \o seqs[one] /\ run[one - 1] = <<>> /\ seqs[one] \in Seq(U)
      BY <1>0, <1>2, <3>0
    <3>1. seqs[1] \in Seq(U) /\ run[1] = <<>> \o seqs[1]
      BY <3>a DEF one
    <3>2. <<>> \o seqs[1] = seqs[1]
      BY <3>1, ConcatEmptySeq
    <3> QED
      BY <3>1, <3>2
  <2> DEFINE r == [i \in 1..n |-> run[i]]
  <2>3. r = Def(r)
    <3>1. ASSUME NEW i \in 1..n PROVE r[i] = IF i = 1 THEN seqs[i] ELSE r[i - 1] \o seqs[i]
      <4>1. CASE i = 1
        BY <2>2, <4>1
      <4>2. CASE i # 1
        <5>1. i - 1 \in 1..n
          BY <1>0, <4>2
        <5>2. run[i] = run[i - 1] \o seqs[i]
          BY <1>2
        <5> QED
          BY <4>2, <5>1, <5>2
      <4> QED
        BY <4>1, <4>2
    <3> QED
      BY <3>1
  <2> HIDE DEF r, Def
  <2>4. flat = Def(flat)
    BY <2>3
  <2> HIDE DEF flat
  <2>5. \A i \in 1..n : flat[i] = IF i = 1 THEN seqs[i] ELSE flat[i - 1] \o seqs[i]
    BY <2>4 DEF Def
  <2> DEFINE A == {i \in 0..n : i > 0 => flat[i] = run[i]}
  <2>6. ASSUME NEW i \in 1..n, i - 1 \in A PROVE i \in A
    <3>1. CASE i = 1
      BY <2>2, <2>5, <3>1
    <3>2. CASE i # 1
      <4>1. flat[i] = flat[i - 1] \o seqs[i] /\ run[i] = run[i - 1] \o seqs[i]
        BY <1>2, <2>5, <3>2
      <4>2. flat[i - 1] = run[i - 1]
        BY <1>0, <2>6, <3>2
      <4>3. flat[i] = run[i]
        BY <4>1, <4>2
      <4> QED
        BY <4>3
    <3> QED
      BY <3>1, <3>2
  <2>7. 0 \in A
    BY <1>0
  <2> HIDE DEF A
  <2>8. 0..n \subseteq A
    BY <1>0, <2>6, <2>7, Flat!UpTo
  <2>9. n \in A
    BY <1>0, <2>8
  <2> QED
    BY <1>0, <1>1, <1>4, <2>1, <2>9 DEF A
<1> QED
  BY <1>3, <1>4

\* Sequences put one behind the other: what there is after each of them.
Laid(run, seqs) ==
  /\ DOMAIN run = 0..Len(seqs) /\ run[0] = <<>>
  /\ \A i \in 1..Len(seqs) : run[i] = run[i - 1] \o seqs[i]

LEMMA LaidOut ==
  ASSUME NEW U, NEW seqs \in Seq(Seq(U))
  PROVE  \E run : Laid(run, seqs) /\ FlattenSeq(seqs) = run[Len(seqs)] /\ \A i \in 0..Len(seqs) : run[i] \in Seq(U)
<1> DEFINE n == Len(seqs)
<1>1. n \in Nat /\ DOMAIN seqs = 1..n /\ \A i \in 1..n : seqs[i] \in Seq(U)
  BY LenProperties, ElementOfSeq
<1>2. PICK run : Flat!Runs(run, <<>>, seqs, n) /\ Flat!Folded(<<>>, seqs) = run[n]
  BY <1>1, Flat!FoldedIs
<1>3. Laid(run, seqs)
  BY <1>2 DEF Flat!Runs, Laid
<1>4. DOMAIN run = 0..n /\ run[0] = <<>> /\ \A i \in 1..n : run[i] = run[i - 1] \o seqs[i]
  BY <1>3 DEF Laid
<1> DEFINE A == {i \in 0..n : run[i] \in Seq(U)}
<1>5. 0 \in A
  <2>1. <<>> \in Seq(U)
    OBVIOUS
  <2>2. 0 \in 0..n /\ run[0] \in Seq(U)
    BY <1>1, <1>4, <2>1
  <2> QED
    BY <2>2
<1>6. ASSUME NEW i \in 1..n, i - 1 \in A PROVE i \in A
  <2>1. run[i - 1] \in Seq(U) /\ seqs[i] \in Seq(U) /\ run[i] = run[i - 1] \o seqs[i]
    BY <1>1, <1>4, <1>6
  <2>2. run[i - 1] \o seqs[i] \in Seq(U)
    BY <2>1, ConcatProperties
  <2>3. i \in 0..n /\ run[i] \in Seq(U)
    BY <1>1, <2>1, <2>2
  <2> QED
    BY <2>3
<1> HIDE DEF A
<1>7. 0..n \subseteq A
  BY <1>1, <1>5, <1>6, Flat!UpTo
<1> QED
  BY <1>2, <1>3, <1>7, Flattened DEF A

----------------------------------------------------------------------------
(* Ranges over several blocks                                              *)

LEMMA OneMore == ASSUME NEW x \in Int, NEW b \in Int PROVE (x + 1) * b = x * b + b
OBVIOUS

\* The pieces of a range: n of them, from the place f in the block start to the
\* place g in the last.
CutInto(offset, size, start, n, f, g) ==
  /\ offset = start * BLOCK_SIZE + f
  /\ offset + size = (start + n - 1) * BLOCK_SIZE + g
  /\ Pieces(offset, size)
       = [k \in 1..n |-> Piece(start + k - 1, IF k = 1 THEN f ELSE 0,
                               (IF k = n THEN g ELSE BLOCK_SIZE) - (IF k = 1 THEN f ELSE 0))]
  /\ n = 1 => g > f

LEMMA PiecesAre ==
  ASSUME NEW offset \in Nat, NEW size \in Nat \ {0}, (offset + size) % BLOCK_SIZE # 0, offset + size <= SIZE_MAX
  PROVE  \E start \in Nat, n \in Nat \ {0}, f \in 0..(BLOCK_SIZE - 1), g \in 1..(BLOCK_SIZE - 1) :
           CutInto(offset, size, start, n, f, g)
<1> DEFINE b == BLOCK_SIZE
           last == offset + size - 1
           start == offset \div b
           end == last \div b
           f == offset % b
           g == (last % b) + 1
           n == end - start + 1
<1>1. b \in Nat \ {0, 1} /\ SIZE_MAX \in Nat /\ SIZE_MAX > 3 * b
  BY BlockIs, SizeIs
<1>2. last \in Nat /\ offset <= last /\ last + 1 = offset + size /\ last \in 0..SIZE_MAX
  BY <1>1
<1>3. (last + 1) % b # 0
  BY <1>2
<1>4. Size(last) = last
  BY <1>2, SizeIs
<1> HIDE DEF b, last
<1>5. ASSUME NEW x \in Nat PROVE x = (x \div b) * b + (x % b) /\ x \div b \in Nat /\ x % b \in 0..(b - 1)
  BY <1>1
<1>6. offset = start * b + f /\ start \in Nat /\ f \in 0..(b - 1)
  BY <1>5
<1>7. last = end * b + (last % b) /\ end \in Nat /\ last % b \in 0..(b - 1)
  BY <1>2, <1>5
<1> HIDE DEF start, end, f
<1>8. last % b # b - 1
  <2> SUFFICES ASSUME last % b = b - 1 PROVE FALSE
    OBVIOUS
  <2>1. last + 1 = (end + 1) * b + 0
    <3>1. (end + 1) * b = end * b + b
      BY <1>1, <1>7, OneMore
    <3>2. end * b \in Int
      BY <1>1, <1>7
    <3> QED
      BY <1>1, <1>7, <3>1, <3>2
  <2>2. end + 1 \in Int /\ 0 \in 0..(b - 1) /\ last + 1 \in Int
    BY <1>1, <1>2, <1>7
  <2>3. (last + 1) % b = 0
    BY <1>1, <2>1, <2>2, DivIs
  <2> QED
    BY <1>3, <2>3
<1>9. g \in 1..(b - 1) /\ last + 1 = end * b + g
  <2>1. end * b \in Int
    BY <1>1, <1>7
  <2> QED
    BY <1>1, <1>7, <1>8, <2>1
<1> HIDE DEF g
<1>10. (last + 1) % b = g
  <2>1. last + 1 \in Int /\ end \in Int /\ g \in 0..(b - 1) /\ b \in Nat \ {0}
    BY <1>1, <1>2, <1>7, <1>9
  <2> QED
    BY <1>9, <2>1, DivIs
<1>11. end >= start
  <2> SUFFICES ASSUME end + 1 <= start PROVE FALSE
    BY <1>6, <1>7
  <2>1. (end + 1) * b <= start * b
    BY <1>1, <1>6, <1>7
  <2>2. (end + 1) * b = end * b + b /\ end * b \in Int /\ start * b \in Int
    BY <1>1, <1>6, <1>7, OneMore
  <2> QED
    BY <1>1, <1>2, <1>6, <1>7, <2>1, <2>2
<1>12. n \in Nat \ {0} /\ start + n - 1 = end
  BY <1>6, <1>7, <1>11
<1>13. n = 1 => g > f
  <2> SUFFICES ASSUME n = 1 PROVE g > f
    OBVIOUS
  <2>1. end = start
    BY <1>12, <1>6, <1>7
  <2>2. last + 1 = start * b + g /\ offset = start * b + f /\ start * b \in Int
    BY <1>1, <1>6, <1>9, <2>1
  <2> QED
    BY <1>1, <1>2, <1>6, <1>9, <2>2
<1> HIDE DEF n
<1>14. Pieces(offset, size)
         = [k \in 1..n |-> Piece(start + k - 1, IF start + k - 1 = start THEN f ELSE 0,
                                 IF start + k - 1 = end
                                 THEN Size(g - (IF start + k - 1 = start THEN f ELSE 0))
                                 ELSE b - (IF start + k - 1 = start THEN f ELSE 0))]
  <2>1. Size(offset + size - 1) \div b = end /\ ((offset + size) % b) = g
    BY <1>2, <1>4, <1>10 DEF end, last
  <2> QED
    BY <2>1 DEF Pieces, n, start, f, b
<1>15. ASSUME NEW k \in 1..n
       PROVE  /\ start + k - 1 = start <=> k = 1
              /\ start + k - 1 = end <=> k = n
              /\ k = n => Size(g - (IF k = 1 THEN f ELSE 0)) = g - (IF k = 1 THEN f ELSE 0)
  <2>1. (start + k - 1 = start <=> k = 1) /\ (start + k - 1 = end <=> k = n)
    BY <1>6, <1>12
  <2>2. k = n => g - (IF k = 1 THEN f ELSE 0) \in 0..SIZE_MAX
    BY <1>1, <1>6, <1>9, <1>13
  <2> QED
    BY <2>1, <2>2, SizeIs
<1>16. Pieces(offset, size)
         = [k \in 1..n |-> Piece(start + k - 1, IF k = 1 THEN f ELSE 0,
                                 (IF k = n THEN g ELSE b) - (IF k = 1 THEN f ELSE 0))]
  BY <1>14, <1>15
<1>17. offset + size = (start + n - 1) * b + g
  BY <1>2, <1>9, <1>12
<1>18. CutInto(offset, size, start, n, f, g)
  BY <1>6, <1>13, <1>16, <1>17 DEF b, CutInto
<1> QED
  BY <1>6, <1>9, <1>12, <1>18 DEF b

\* Two stretches of numbers, one behind the other.
LEMMA Stretches ==
  ASSUME NEW x \in Int, NEW p \in Nat, NEW c \in Nat
  PROVE  [j \in 1..p |-> x + j] \o [j \in 1..c |-> x + p + j] = [j \in 1..(p + c) |-> x + j]
<1> DEFINE s == [j \in 1..p |-> x + j]  t == [j \in 1..c |-> x + p + j]  u == [j \in 1..(p + c) |-> x + j]
<1>1. s \in Seq(Int) /\ t \in Seq(Int) /\ Len(s) = p /\ Len(t) = c /\ u \in Seq(Int) /\ Len(u) = p + c
  OBVIOUS
<1>2. \A i \in 1..p : s[i] = x + i
  OBVIOUS
<1>3. \A i \in 1..c : t[i] = x + p + i
  OBVIOUS
<1>4. \A i \in 1..(p + c) : u[i] = x + i
  OBVIOUS
<1> HIDE DEF s, t, u
<1>5. s \o t \in Seq(Int) /\ Len(s \o t) = p + c
      /\ \A i \in 1..(p + c) : (s \o t)[i] = IF i <= p THEN s[i] ELSE t[i - p]
  BY <1>1, ConcatProperties
<1>6. ASSUME NEW i \in 1..(p + c) PROVE (s \o t)[i] = u[i]
  <2>1. CASE i <= p
    BY <1>2, <1>4, <1>5, <2>1
  <2>2. CASE i > p
    <3>1. i - p \in 1..c /\ x + p + (i - p) = x + i /\ ~(i <= p)
      BY <2>2
    <3>2. t[i - p] = x + p + (i - p)
      BY <1>3, <3>1
    <3>3. (s \o t)[i] = t[i - p]
      BY <1>5, <3>1
    <3> QED
      BY <1>4, <3>1, <3>2, <3>3
  <2>3. i <= p \/ i > p
    OBVIOUS
  <2> QED
    BY <2>1, <2>2, <2>3
<1> QED
  BY <1>1, <1>5, <1>6, SeqEqual DEF s, t, u

\* Where the bytes of a range come from: from the places it names.
LEMMA RangePlaces ==
  ASSUME NEW offset \in Nat, NEW size \in Nat \ {0}, (offset + size) % BLOCK_SIZE # 0, offset + size <= SIZE_MAX
  PROVE  FlattenSeq([k \in DOMAIN Pieces(offset, size) |-> Span(Pieces(offset, size)[k])])
           = [j \in 1..size |-> offset + j]
<1>1. PICK start \in Nat, n \in Nat \ {0}, f \in 0..(BLOCK_SIZE - 1), g \in 1..(BLOCK_SIZE - 1) :
        CutInto(offset, size, start, n, f, g)
  BY PiecesAre
<1> DEFINE b == BLOCK_SIZE
<1>2. b \in Nat \ {0, 1}
  BY BlockIs
<1>3. /\ f \in 0..(b - 1) /\ g \in 1..(b - 1)
      /\ offset = start * b + f
      /\ offset + size = (start + n - 1) * b + g
      /\ Pieces(offset, size)
             = [k \in 1..n |-> Piece(start + k - 1, IF k = 1 THEN f ELSE 0,
                                     (IF k = n THEN g ELSE b) - (IF k = 1 THEN f ELSE 0))]
      /\ n = 1 => g > f
  BY <1>1 DEF CutInto
<1> HIDE DEF b
<1> DEFINE p == Pieces(offset, size)
           from(k) == IF k = 1 THEN f ELSE 0
           till(k) == IF k = n THEN g ELSE b
           upto(k) == IF k = 0 THEN 0 ELSE IF k = n THEN size ELSE k * b - f
           spans == [k \in 1..n |-> Span(p[k])]
           run == [k \in 0..n |-> [j \in 1..upto(k) |-> offset + j]]
<1>4. DOMAIN p = 1..n /\ \A k \in 1..n : p[k] = Piece(start + k - 1, from(k), till(k) - from(k))
  BY <1>3
<1>5. \A k \in 1..n : spans[k] = [j \in 1..(till(k) - from(k)) |-> (start + k - 1) * b + from(k) + j]
  BY <1>4 DEF Span, Piece, b
<1>6. \A k \in Nat : k * b \in Nat
  BY <1>2
<1>7. ASSUME NEW k \in 1..n
      PROVE  /\ upto(k - 1) \in Nat /\ till(k) - from(k) \in Nat
             /\ upto(k) = upto(k - 1) + (till(k) - from(k))
             /\ (start + k - 1) * b + from(k) = offset + upto(k - 1)
  <2>0. k - 1 \in Nat /\ k \in Nat /\ start + k - 1 \in Nat /\ k - 1 # n
    OBVIOUS
  <2>1. (k - 1) * b \in Nat /\ k * b = (k - 1) * b + b /\ start * b \in Nat
    <3>1. ((k - 1) + 1) * b = (k - 1) * b + b /\ (k - 1) + 1 = k
      BY <1>2, <2>0, OneMore
    <3> QED
      BY <1>6, <2>0, <3>1
  <2>2. (start + k - 1) * b = start * b + (k - 1) * b
    BY <1>2, <2>0
  <2>3. k = 1 => (k - 1) * b = 0 /\ k * b = b
    BY <1>2
  <2>4. k > 1 => (k - 1) * b >= b
    BY <1>2, <2>0
  <2>5. k = n => size = (k - 1) * b + g - f
    <3>1. k = n => offset + size = (start + k - 1) * b + g
      BY <1>3
    <3> DEFINE y == start * b  z == (k - 1) * b
    <3>2. y \in Int /\ z \in Int /\ offset = y + f /\ f \in Int /\ g \in Int
      BY <1>2, <1>3, <2>1
    <3>3. k = n => offset + size = (y + z) + g
      BY <2>2, <3>1
    <3> HIDE DEF y, z
    <3>4. k = n => size = z + g - f
      BY <3>2, <3>3
    <3> QED
      BY <3>4 DEF z
  <2>6. CASE k = 1
    <3>1. upto(k - 1) = 0
      BY <2>6
    <3>2. upto(k) = IF k = n THEN size ELSE k * b - f
      BY <2>6
    <3>3. till(k) - from(k) = (IF k = n THEN g ELSE b) - f
      BY <2>6
    <3> HIDE DEF upto, till, from
    <3>4. from(k) = f
      BY <2>6 DEF from
    <3>5. (IF k = n THEN g ELSE b) - f \in Nat
      BY <1>2, <1>3, <2>6
    <3>6. (start + k - 1) * b + from(k) = offset
      BY <1>3, <2>1, <2>2, <2>3, <2>6, <3>4
    <3> QED
      BY <1>2, <2>3, <2>5, <2>6, <3>1, <3>2, <3>3, <3>5, <3>6
  <2>7. CASE k > 1
    <3>1. upto(k - 1) = (k - 1) * b - f
      BY <2>0, <2>7
    <3>2. upto(k) = IF k = n THEN size ELSE k * b - f
      BY <2>7
    <3>3. from(k) = 0 /\ till(k) = IF k = n THEN g ELSE b
      BY <2>7
    <3> HIDE DEF upto, till, from
    <3>4. offset = start * b + f /\ f \in 0..(b - 1) /\ g \in 1..(b - 1)
      BY <1>3
    <3>5. upto(k - 1) \in Nat
      BY <1>2, <2>1, <2>4, <2>7, <3>1, <3>4
    <3>6. till(k) - from(k) \in Nat
      BY <1>2, <3>3, <3>4
    <3>7. upto(k) = upto(k - 1) + (till(k) - from(k))
      BY <1>2, <2>1, <2>5, <3>1, <3>2, <3>3, <3>4
    <3>8. (start + k - 1) * b + from(k) = offset + upto(k - 1)
      BY <2>1, <2>2, <3>1, <3>3, <3>4
    <3> QED
      BY <3>5, <3>6, <3>7, <3>8
  <2>8. k = 1 \/ k > 1
    OBVIOUS
  <2> HIDE DEF upto, till, from
  <2> QED
    BY <2>6, <2>7, <2>8
<1>8. run[0] = <<>>
  <2>1. run[0] = [j \in 1..0 |-> offset + j]
    OBVIOUS
  <2> QED
    BY <2>1
<1>9. ASSUME NEW k \in 1..n PROVE run[k] = run[k - 1] \o spans[k]
  <2> DEFINE l == upto(k - 1)  c == till(k) - from(k)
  <2>1. l \in Nat /\ c \in Nat /\ upto(k) = l + c /\ (start + k - 1) * b + from(k) = offset + l
    BY <1>7
  <2>2. run[k] = [j \in 1..(l + c) |-> offset + j] /\ run[k - 1] = [j \in 1..l |-> offset + j]
    <3>1. k \in 0..n /\ k - 1 \in 0..n
      OBVIOUS
    <3> HIDE DEF upto, c
    <3> QED
      BY <2>1, <3>1
  <2>3. spans[k] = [j \in 1..c |-> (offset + l) + j]
    <3>1. spans[k] = [j \in 1..c |-> (start + k - 1) * b + from(k) + j]
      BY <1>5
    <3> HIDE DEF spans, c, l, from
    <3> QED
      BY <2>1, <3>1
  <2> HIDE DEF l, c, run, spans
  <2> QED
    BY <2>1, <2>2, <2>3, Stretches
<1>10. run[n] = [j \in 1..size |-> offset + j]
  BY <1>3
<1>11. spans \in Seq(Seq(Int)) /\ DOMAIN spans = 1..n
  <2>1. ASSUME NEW k \in 1..n PROVE spans[k] \in Seq(Int)
    <3> DEFINE c == till(k) - from(k)  at == (start + k - 1) * b + from(k)
    <3>1. c \in Nat
      BY <1>7
    <3>2. at \in Int
      <4>1. start + k - 1 \in Nat
        OBVIOUS
      <4> QED
        BY <1>6, <4>1
    <3>3. spans[k] = [j \in 1..c |-> at + j]
      BY <1>5
    <3> HIDE DEF c, at, spans
    <3> QED
      BY <3>1, <3>2, <3>3
  <2> HIDE DEF p, from, till, upto, run
  <2> QED
    BY <2>1
<1> HIDE DEF spans, run
<1>12. Flat!Runs(run, <<>>, spans, n)
  BY <1>8, <1>9 DEF Flat!Runs, run
<1>13. FlattenSeq(spans) = run[n]
  BY <1>11, <1>12, Flattened, Flat!FoldedBy
<1>14. [k \in DOMAIN Pieces(offset, size) |-> Span(Pieces(offset, size)[k])] = spans
  BY <1>4 DEF spans, p
<1> QED
  BY <1>10, <1>13, <1>14

Stretch(bytes, offset, size) == [j \in 1..size |-> bytes[offset + j]]

\* A range that ends inside a block, however many blocks it covers, gives its
\* bytes.
LEMMA CopiedRight ==
  ASSUME NEW bytes, NEW offset \in Nat, NEW size \in Nat, EndsInside(offset, size), offset + size <= SIZE_MAX
  PROVE  Copied(bytes, offset, size) = Stretch(bytes, offset, size)
<1> DEFINE places == FlattenSeq([k \in DOMAIN Pieces(offset, size) |-> Span(Pieces(offset, size)[k])])
<1>1. Copied(bytes, offset, size) = [j \in DOMAIN places |-> bytes[places[j]]]
  BY DEF Copied
<1>2. CASE size # 0
  <2>1. places = [j \in 1..size |-> offset + j]
    BY <1>2, RangePlaces DEF EndsInside
  <2> HIDE DEF places
  <2> QED
    BY <1>1, <2>1 DEF Stretch
<1>3. CASE size = 0
  <2> DEFINE b == BLOCK_SIZE  start == offset \div b  f == offset % b  end == (offset - 1) \div b
  <2>1. offset > 0 /\ b \in Nat \ {0, 1}
    BY <1>3, BlockIs DEF EndsInside
  <2>2. Size(offset + size - 1) = offset - 1
    <3>1. offset - 1 \in 0..SIZE_MAX /\ offset + size - 1 = offset - 1
      BY <1>3, <2>1, SizeIs
    <3> QED
      BY <3>1, SizeIs
  <2> HIDE DEF b
  <2>3. offset = start * b + f /\ start \in Nat /\ f \in 0..(b - 1)
    BY <2>1
  <2> HIDE DEF start, f
  <2>4. IF f = 0 THEN end = start - 1 ELSE end = start
    <3>1. CASE f = 0
      <4>1. start * b = (start - 1) * b + b
        <5>1. ((start - 1) + 1) * b = (start - 1) * b + b /\ (start - 1) + 1 = start
          BY <2>1, <2>3, OneMore
        <5> QED
          BY <5>1
      <4>2. (start - 1) * b \in Int
        BY <2>1, <2>3
      <4>3. offset - 1 = (start - 1) * b + (b - 1) /\ b - 1 \in 0..(b - 1) /\ start - 1 \in Int /\ offset - 1 \in Int
        BY <2>1, <2>3, <3>1, <4>1, <4>2
      <4>4. ASSUME NEW x \in Int, NEW y \in Int, NEW r \in 0..(b - 1), x = y * b + r PROVE x \div b = y
        BY <2>1, <4>4, DivIs
      <4> QED
        BY <3>1, <4>3, <4>4
    <3>2. CASE f # 0
      <4>1. start * b \in Int
        BY <2>1, <2>3
      <4>2. offset - 1 = start * b + (f - 1) /\ f - 1 \in 0..(b - 1) /\ offset - 1 \in Int
        BY <2>1, <2>3, <3>2, <4>1
      <4>3. ASSUME NEW x \in Int, NEW y \in Int, NEW r \in 0..(b - 1), x = y * b + r PROVE x \div b = y
        BY <2>1, <4>3, DivIs
      <4> QED
        BY <2>3, <3>2, <4>2, <4>3
    <3> QED
      BY <3>1, <3>2
  <2>5. Size(f - f) = 0
    BY <2>3, SizeIs
  <2>6. Pieces(offset, size)
          = [k \in 1..(end - start + 1) |->
               Piece(start + k - 1, IF start + k - 1 = start THEN f ELSE 0,
                     IF start + k - 1 = end THEN Size(f - (IF start + k - 1 = start THEN f ELSE 0))
                     ELSE b - (IF start + k - 1 = start THEN f ELSE 0))]
    <3>1. offset + size = offset
      BY <1>3
    <3>2. Size(offset - 1) = offset - 1
      BY <2>2, <3>1
    <3> QED
      BY <3>1, <3>2 DEF Pieces, start, f, b, end
  <2> DEFINE spans == [k \in DOMAIN Pieces(offset, size) |-> Span(Pieces(offset, size)[k])]
  <2> HIDE DEF end
  <2>7. FlattenSeq(spans) = <<>>
    <3>1. CASE f = 0
      <4>1. DOMAIN Pieces(offset, size) = {}
        <5>1. end - start + 1 = 0
          BY <2>3, <2>4, <3>1
        <5> QED
          BY <2>6, <5>1
      <4>2. spans = <<>>
        BY <4>1
      <4> QED
        BY <4>2 DEF FlattenSeq
    <3>2. CASE f # 0
      <4>1. end - start + 1 = 1 /\ start + 1 - 1 = start /\ end = start
        BY <2>3, <2>4, <3>2
      <4>2. DOMAIN Pieces(offset, size) = 1..1 /\ Pieces(offset, size)[1] = Piece(start, f, 0)
        BY <2>5, <2>6, <4>1
      <4>3. spans = [k \in 1..1 |-> Span(Piece(start, f, 0))]
        BY <4>2
      <4>4. Span(Piece(start, f, 0)) = <<>>
        BY DEF Span, Piece
      <4>5. spans = << <<>> >>
        BY <4>3, <4>4
      <4>6. spans \in Seq(Seq(Int)) /\ DOMAIN spans = 1..1
        <5>1. <<>> \in Seq(Int)
          OBVIOUS
        <5>2. << <<>> >> \in Seq(Seq(Int)) /\ DOMAIN << <<>> >> = 1..1
          BY <5>1
        <5> HIDE DEF spans
        <5> QED
          BY <4>5, <5>2
      <4> HIDE DEF spans
      <4>7. Flat!Runs([k \in 0..1 |-> <<>>], <<>>, spans, 1)
        <5>1. spans[1] = <<>>
          BY <4>5
        <5>2. <<>> = <<>> \o <<>>
          OBVIOUS
        <5> QED
          BY <5>1, <5>2 DEF Flat!Runs
      <4>8. Flat!Folded(<<>>, spans) = [k \in 0..1 |-> <<>>][1]
        BY <4>6, <4>7, Flat!FoldedBy
      <4> QED
        BY <4>6, <4>8, Flattened
    <3> QED
      BY <3>1, <3>2
  <2>8. places = <<>>
    BY <2>7
  <2> HIDE DEF places
  <2> QED
    BY <1>1, <1>3, <2>8 DEF Stretch
<1> QED
  BY <1>2, <1>3

----------------------------------------------------------------------------
(* The disk                                                                *)

TarBytes == {<<>>} \cup {<<kind, i, j>> : kind \in {"header", "data"}, i \in Nat, j \in Nat}

LEMMA TarSizes ==
  /\ TAR_BLOCK_SIZE \in Nat \ {0, 1} /\ HEADER_SIZE \in 1..(TAR_BLOCK_SIZE - 1)
  /\ \E q \in Nat : BLOCK_SIZE = q * TAR_BLOCK_SIZE
<1> DEFINE t == TAR_BLOCK_SIZE  b == BLOCK_SIZE
<1>1. t \in Nat \ {0, 1} /\ HEADER_SIZE \in 1..(t - 1) /\ b % t = 0 /\ b \in Nat
  BY TarfsAssumption, BlockIs
<1> HIDE DEF t, b
<1>2. b = (b \div t) * t + (b % t) /\ b \div t \in Nat
  BY <1>1
<1> QED
  BY <1>1, <1>2 DEF t, b

LEMMA TarByte ==
  ASSUME NEW i \in Nat, NEW j \in Nat
  PROVE  <<>> \in TarBytes /\ <<"header", i, j>> \in TarBytes /\ <<"data", i, j>> \in TarBytes
BY DEF TarBytes

LEMMA TarBytesDiffer ==
  ASSUME NEW i \in Nat, NEW j \in Nat, NEW e \in Nat
  PROVE  /\ <<"header", i, j>> = <<"header", e, 1>> => e = i /\ j = 1
         /\ <<"data", i, j>> # <<"header", e, 1>>
         /\ <<>> # <<"header", e, 1>>
OBVIOUS

LEMMA ZerosAre ==
  ASSUME NEW n \in Nat
  PROVE  Zeros(n) \in Seq(TarBytes) /\ Len(Zeros(n)) = n /\ \A j \in 1..n : Zeros(n)[j] = <<>>
BY DEF Zeros, TarBytes

\* What is filled up has its bytes and then zeros, to the next tar block.
LEMMA FilledIs ==
  ASSUME NEW bytes \in Seq(TarBytes)
  PROVE  /\ Filled(bytes) \in Seq(TarBytes)
         /\ Len(bytes) <= Len(Filled(bytes)) /\ Len(Filled(bytes)) < Len(bytes) + TAR_BLOCK_SIZE
         /\ \E q \in Nat : Len(Filled(bytes)) = q * TAR_BLOCK_SIZE
         /\ \A j \in 1..Len(Filled(bytes)) : Filled(bytes)[j] = IF j <= Len(bytes) THEN bytes[j] ELSE <<>>
<1> DEFINE t == TAR_BLOCK_SIZE  n == Len(bytes)  z == (-n) % t
<1>1. t \in Nat \ {0} /\ n \in Nat
  BY TarSizes, LenProperties
<1> HIDE DEF t, n
<1>2. PICK q \in Int : -n = q * t + z
  <2>1. -n \in Int
    BY <1>1
  <2>2. (-n) \div t \in Int /\ -n = ((-n) \div t) * t + z
    BY <1>1, <2>1
  <2> QED
    BY <2>2
<1>3. z \in 0..(t - 1)
  BY <1>1
<1> HIDE DEF z
<1>4. n + z = (-q) * t /\ -q \in Int
  BY <1>1, <1>2, <1>3
<1>5. -q \in Nat
  <2> SUFFICES ASSUME -q < 0 PROVE FALSE
    BY <1>4
  <2>1. (-q) * t < 0
    BY <1>1, <1>4
  <2> QED
    BY <1>1, <1>3, <1>4, <2>1
<1>6. Filled(bytes) = bytes \o Zeros(z)
  BY DEF Filled, z, n, t
<1>7. Zeros(z) \in Seq(TarBytes) /\ Len(Zeros(z)) = z /\ \A j \in 1..z : Zeros(z)[j] = <<>>
  BY <1>3, ZerosAre
<1>8. /\ bytes \o Zeros(z) \in Seq(TarBytes) /\ Len(bytes \o Zeros(z)) = n + z
      /\ \A j \in 1..(n + z) : (bytes \o Zeros(z))[j] = IF j <= n THEN bytes[j] ELSE Zeros(z)[j - n]
  BY <1>7, ConcatProperties DEF n
<1>9. ASSUME NEW j \in 1..(n + z) PROVE (bytes \o Zeros(z))[j] = IF j <= n THEN bytes[j] ELSE <<>>
  <2>1. j > n => j - n \in 1..z
    BY <1>1, <1>3
  <2> QED
    BY <1>1, <1>7, <1>8, <2>1
<1>10. /\ n <= n + z /\ n + z < n + t
       /\ \E q0 \in Nat : n + z = q0 * t
  <2> DEFINE r == -q
  <2>1. r \in Nat /\ n + z = r * t
    BY <1>4, <1>5
  <2> HIDE DEF r
  <2>2. \E q0 \in Nat : n + z = q0 * t
    BY <2>1
  <2>3. n <= n + z /\ n + z < n + t
    BY <1>1, <1>3
  <2> QED
    BY <2>2, <2>3, Zenon
<1> DEFINE f == bytes \o Zeros(z)
<1>11. f = Filled(bytes) /\ f \in Seq(TarBytes) /\ Len(f) = n + z
       /\ \A j \in 1..(n + z) : f[j] = IF j <= n THEN bytes[j] ELSE <<>>
  BY <1>6, <1>8, <1>9
<1> HIDE DEF f
<1>12. f \in Seq(TarBytes) /\ n <= Len(f) /\ Len(f) < n + t /\ \E q0 \in Nat : Len(f) = q0 * t
  BY <1>10, <1>11
<1>13. \A j \in 1..Len(f) : f[j] = IF j <= n THEN bytes[j] ELSE <<>>
  BY <1>11
<1> QED
  BY <1>11, <1>12, <1>13 DEF n, t

\* An entry's part of the archive: its header and its data.
Chunk(i, size) == Filled(HeaderBytes(i)) \o Filled(DataBytes(i, size))

LEMMA ChunkIs ==
  ASSUME NEW i \in Nat, NEW size \in Nat
  PROVE  /\ Chunk(i, size) \in Seq(TarBytes)
         /\ \E q \in Nat : Len(Chunk(i, size)) = q * TAR_BLOCK_SIZE
         /\ TAR_BLOCK_SIZE + size <= Len(Chunk(i, size))
         /\ \A j \in 1..HEADER_SIZE : Chunk(i, size)[j] = <<"header", i, j>>
         /\ \A j \in 1..size : Chunk(i, size)[TAR_BLOCK_SIZE + j] = <<"data", i, j>>
         /\ \A j \in 1..Len(Chunk(i, size)), e \in Nat : Chunk(i, size)[j] = <<"header", e, 1>> => e = i /\ j = 1
<1> DEFINE t == TAR_BLOCK_SIZE  h == HeaderBytes(i)  d == DataBytes(i, size)  fh == Filled(h)  fd == Filled(d)
<1>1. t \in Nat \ {0, 1} /\ HEADER_SIZE \in 1..(t - 1)
  BY TarSizes
<1> HIDE DEF t, h, d, fh, fd
<1>2. h \in Seq(TarBytes) /\ Len(h) = HEADER_SIZE /\ \A j \in 1..HEADER_SIZE : h[j] = <<"header", i, j>>
  <2>1. ASSUME NEW j \in 1..HEADER_SIZE PROVE <<"header", i, j>> \in TarBytes
    <3>1. j \in Nat
      BY <1>1
    <3> QED
      BY <3>1, TarByte
  <2>2. h = [j \in 1..HEADER_SIZE |-> <<"header", i, j>>]
    BY DEF h, HeaderBytes
  <2>3. h \in [1..HEADER_SIZE -> TarBytes]
    BY <2>1, <2>2
  <2> QED
    BY <1>1, <2>2, <2>3
<1>3. d \in Seq(TarBytes) /\ Len(d) = size /\ \A j \in 1..size : d[j] = <<"data", i, j>>
  <2>1. ASSUME NEW j \in 1..size PROVE <<"data", i, j>> \in TarBytes
    <3>1. j \in Nat
      OBVIOUS
    <3> QED
      BY <3>1, TarByte
  <2>2. d = [j \in 1..size |-> <<"data", i, j>>]
    BY DEF d, DataBytes
  <2>3. d \in [1..size -> TarBytes]
    BY <2>1, <2>2
  <2> QED
    BY <2>2, <2>3
<1>4. /\ fh \in Seq(TarBytes) /\ HEADER_SIZE <= Len(fh) /\ Len(fh) < HEADER_SIZE + t
      /\ \E q \in Nat : Len(fh) = q * t
      /\ \A j \in 1..Len(fh) : fh[j] = IF j <= HEADER_SIZE THEN h[j] ELSE <<>>
  BY <1>2, FilledIs DEF t, fh
<1>5. /\ fd \in Seq(TarBytes) /\ size <= Len(fd)
      /\ \E q \in Nat : Len(fd) = q * t
      /\ \A j \in 1..Len(fd) : fd[j] = IF j <= size THEN d[j] ELSE <<>>
  BY <1>3, FilledIs DEF t, fd
<1>6. Len(fh) = t
  <2>1. PICK q \in Nat : Len(fh) = q * t
    BY <1>4
  <2>2. q # 0
    BY <1>1, <1>4, <2>1
  <2>3. q < 2
    <3> SUFFICES ASSUME q >= 2 PROVE FALSE
      OBVIOUS
    <3>1. q * t >= 2 * t
      BY <1>1
    <3> QED
      BY <1>1, <1>4, <2>1, <3>1
  <2> QED
    BY <1>1, <2>1, <2>2, <2>3
<1>7. Chunk(i, size) = fh \o fd
  BY DEF Chunk, fh, fd, h, d
<1>8. /\ fh \o fd \in Seq(TarBytes) /\ Len(fh \o fd) = t + Len(fd) /\ Len(fd) \in Nat
      /\ \A j \in 1..(t + Len(fd)) : (fh \o fd)[j] = IF j <= t THEN fh[j] ELSE fd[j - t]
  BY <1>4, <1>5, <1>6, ConcatProperties, LenProperties
<1>9. \E q \in Nat : t + Len(fd) = q * t
  <2>1. PICK q \in Nat : Len(fd) = q * t
    BY <1>5
  <2>2. (q + 1) * t = q * t + t
    BY <1>1, OneMore
  <2>3. q * t \in Nat
    BY <1>8, <2>1
  <2> QED
    BY <1>1, <2>1, <2>2, <2>3
<1>10. ASSUME NEW j \in 1..HEADER_SIZE PROVE (fh \o fd)[j] = <<"header", i, j>>
  BY <1>1, <1>2, <1>4, <1>6, <1>8
<1>11. ASSUME NEW j \in 1..size PROVE (fh \o fd)[t + j] = <<"data", i, j>>
  <2>1. t + j \in 1..(t + Len(fd)) /\ ~(t + j <= t) /\ (t + j) - t = j /\ j \in 1..Len(fd) /\ j <= size
    BY <1>1, <1>5, <1>8
  <2>2. (fh \o fd)[t + j] = fd[j]
    BY <1>8, <2>1
  <2> QED
    BY <1>3, <1>5, <2>1, <2>2
<1>12. ASSUME NEW j \in 1..(t + Len(fd)), NEW e \in Nat, (fh \o fd)[j] = <<"header", e, 1>>
       PROVE  e = i /\ j = 1
  <2>1. CASE j <= t
    <3>1. j \in 1..Len(fh) /\ (fh \o fd)[j] = fh[j]
      BY <1>6, <1>8, <2>1
    <3>2. CASE j <= HEADER_SIZE
      <4>0. j \in 1..HEADER_SIZE /\ j \in Nat
        BY <1>1, <3>2
      <4>1. (fh \o fd)[j] = <<"header", i, j>>
        BY <1>10, <4>0
      <4>2. <<"header", i, j>> = <<"header", e, 1>>
        BY <1>12, <4>1
      <4> QED
        BY <4>0, <4>2, TarBytesDiffer
    <3>3. CASE ~(j <= HEADER_SIZE)
      BY <1>4, <1>12, <3>1, <3>3, TarBytesDiffer
    <3> QED
      BY <3>2, <3>3
  <2>2. CASE ~(j <= t)
    <3>1. j - t \in 1..Len(fd) /\ (fh \o fd)[j] = fd[j - t]
      BY <1>1, <1>8, <2>2
    <3>2. CASE j - t <= size
      <4>1. j - t \in 1..size /\ j - t \in Nat
        BY <3>1, <3>2
      <4>2. fd[j - t] = <<"data", i, j - t>>
        BY <1>3, <1>5, <3>1, <3>2, <4>1
      <4>3. <<"data", i, j - t>> = <<"header", e, 1>>
        BY <1>12, <3>1, <4>2
      <4> QED
        BY <4>1, <4>3, TarBytesDiffer
    <3>3. CASE ~(j - t <= size)
      BY <1>5, <1>12, <3>1, <3>3, TarBytesDiffer
    <3> QED
      BY <3>2, <3>3
  <2> QED
    BY <2>1, <2>2
<1> DEFINE f == fh \o fd
<1>13. f = Chunk(i, size) /\ f \in Seq(TarBytes) /\ Len(f) = t + Len(fd) /\ t + size <= Len(f)
  BY <1>1, <1>5, <1>7, <1>8
<1>14. \A j \in 1..HEADER_SIZE : f[j] = <<"header", i, j>>
  BY <1>10
<1>15. \A j \in 1..size : f[t + j] = <<"data", i, j>>
  BY <1>11
<1> HIDE DEF f
<1>16. \A j \in 1..Len(f), e \in Nat : f[j] = <<"header", e, 1>> => e = i /\ j = 1
  <2>1. \A j \in 1..(t + Len(fd)), e \in Nat : f[j] = <<"header", e, 1>> => e = i /\ j = 1
    BY <1>12 DEF f
  <2> QED
    BY <1>13, <2>1
<1>17. \E q \in Nat : Len(f) = q * t
  BY <1>9, <1>13
<1> QED
  BY <1>13, <1>14, <1>15, <1>16, <1>17, Zenon DEF t

LEMMA JoinedBytes ==
  ASSUME NEW s \in Seq(TarBytes), NEW u \in Seq(TarBytes)
  PROVE  /\ s \o u \in Seq(TarBytes) /\ Len(s) \in Nat /\ Len(u) \in Nat /\ Len(s \o u) = Len(s) + Len(u)
         /\ \A k \in 1..Len(s \o u) : (s \o u)[k] = IF k <= Len(s) THEN s[k] ELSE u[k - Len(s)]
BY ConcatProperties, LenProperties

\* An entry's header and data lie in the bytes from the place "at" on, where a
\* tar block starts.
LiesAt(bytes, at, e, size) ==
  /\ at \in Nat /\ \E q \in Nat : at = q * TAR_BLOCK_SIZE
  /\ at + TAR_BLOCK_SIZE + size <= Len(bytes)
  /\ \A j \in 1..HEADER_SIZE : bytes[at + j] = <<"header", e, j>>
  /\ \A j \in 1..size : bytes[at + TAR_BLOCK_SIZE + j] = <<"data", e, j>>

LEMMA LiesStill ==
  ASSUME NEW bytes \in Seq(TarBytes), NEW more \in Seq(TarBytes), NEW at, NEW e, NEW size \in Nat,
         LiesAt(bytes, at, e, size)
  PROVE  LiesAt(bytes \o more, at, e, size)
<1> DEFINE t == TAR_BLOCK_SIZE  n == Len(bytes)  all == bytes \o more
<1>1. t \in Nat \ {0, 1} /\ HEADER_SIZE \in 1..(t - 1) /\ n \in Nat /\ Len(more) \in Nat
  BY TarSizes, LenProperties
<1>2. /\ at \in Nat /\ \E q \in Nat : at = q * t
      /\ at + t + size <= n
      /\ \A j \in 1..HEADER_SIZE : bytes[at + j] = <<"header", e, j>>
      /\ \A j \in 1..size : bytes[at + t + j] = <<"data", e, j>>
  BY DEF LiesAt
<1>3. Len(all) = n + Len(more) /\ \A j \in 1..n : all[j] = bytes[j]
  BY <1>1, ConcatProperties
<1> HIDE DEF t, n, all
<1>0. at \in Nat /\ at + t + size <= n
  BY <1>2
<1>4. at + t + size <= Len(all)
  BY <1>0, <1>1, <1>3
<1>5. ASSUME NEW j \in 1..HEADER_SIZE PROVE all[at + j] = <<"header", e, j>>
  <2>1. at + j \in 1..n
    BY <1>0, <1>1
  <2> QED
    BY <1>2, <1>3, <2>1
<1>6. ASSUME NEW j \in 1..size PROVE all[at + t + j] = <<"data", e, j>>
  <2>1. at + t + j \in 1..n
    BY <1>0, <1>1
  <2> QED
    BY <1>2, <1>3, <2>1
<1>7. LiesAt(all, at, e, size)
  BY <1>2, <1>4, <1>5, <1>6, Zenon DEF LiesAt, t
<1> QED
  BY <1>7 DEF all

LEMMA LiesBehind ==
  ASSUME NEW bytes \in Seq(TarBytes), NEW e \in Nat, NEW size \in Nat, \E q \in Nat : Len(bytes) = q * TAR_BLOCK_SIZE
  PROVE  LiesAt(bytes \o Chunk(e, size), Len(bytes), e, size)
<1> DEFINE t == TAR_BLOCK_SIZE  n == Len(bytes)  c == Chunk(e, size)  all == bytes \o c
<1>1. t \in Nat \ {0, 1} /\ HEADER_SIZE \in 1..(t - 1) /\ n \in Nat
  BY TarSizes, LenProperties
<1>2. /\ c \in Seq(TarBytes) /\ t + size <= Len(c) /\ Len(c) \in Nat
      /\ \A j \in 1..HEADER_SIZE : c[j] = <<"header", e, j>>
      /\ \A j \in 1..size : c[t + j] = <<"data", e, j>>
  BY ChunkIs, LenProperties
<1>3. Len(all) = n + Len(c) /\ \A j \in 1..(n + Len(c)) : all[j] = IF j <= n THEN bytes[j] ELSE c[j - n]
  <2> HIDE DEF c
  <2> QED
    BY <1>2, ConcatProperties
<1> HIDE DEF t, n, c, all
<1>4. ASSUME NEW j \in 1..Len(c) PROVE all[n + j] = c[j]
  <2>1. n + j \in 1..(n + Len(c)) /\ ~(n + j <= n) /\ (n + j) - n = j
    BY <1>1, <1>2
  <2> QED
    BY <1>3, <2>1
<1>5. n + t + size <= Len(all)
  BY <1>1, <1>2, <1>3
<1>6. ASSUME NEW j \in 1..HEADER_SIZE PROVE all[n + j] = <<"header", e, j>>
  <2>1. j \in 1..Len(c)
    BY <1>1, <1>2
  <2> QED
    BY <1>2, <1>4, <2>1
<1>7. ASSUME NEW j \in 1..size PROVE all[n + t + j] = <<"data", e, j>>
  <2>1. t + j \in 1..Len(c) /\ n + t + j = n + (t + j)
    BY <1>1, <1>2
  <2>2. all[n + (t + j)] = c[t + j]
    BY <1>4, <2>1
  <2> QED
    BY <1>2, <2>1, <2>2
<1>8. \E q \in Nat : n = q * t
  BY DEF n, t
<1>9. LiesAt(all, n, e, size)
  BY <1>1, <1>5, <1>6, <1>7, <1>8, Zenon DEF LiesAt, t
<1> QED
  BY <1>9 DEF all, n, c

\* The headers in the bytes are those of the first i entries, each at its
\* place.
HeadersAt(bytes, at, i) ==
  \A k \in 1..Len(bytes), e \in Nat : bytes[k] = <<"header", e, 1>> => e \in 1..i /\ k = at[e] + 1

Archived == Seq([path : Seq(STRING), size : Nat])

\* What the image of an archive holds, and where.
LEMMA ImageIs ==
  ASSUME NEW archive \in Archived
  PROVE  /\ Image(archive) \in Seq(TarBytes)
         /\ \E at : /\ \A e \in 1..Len(archive) : LiesAt(Image(archive), at[e], e, archive[e].size)
                    /\ HeadersAt(Image(archive), at, Len(archive))
<1> DEFINE n == Len(archive)  t == TAR_BLOCK_SIZE
           chunks == [i \in DOMAIN archive |-> Chunk(i, archive[i].size)]
<1>1. n \in Nat /\ DOMAIN archive = 1..n /\ \A i \in 1..n : archive[i].size \in Nat
  <2>1. \A i \in 1..n : archive[i] \in [path : Seq(STRING), size : Nat]
    BY ElementOfSeq DEF Archived
  <2>2. n \in Nat /\ DOMAIN archive = 1..n
    BY LenProperties DEF Archived
  <2> HIDE DEF n
  <2>3. ASSUME NEW i \in 1..n PROVE archive[i].size \in Nat
    BY <2>1
  <2> QED
    BY <2>2, <2>3
<1>2. chunks \in Seq(Seq(TarBytes)) /\ Len(chunks) = n /\ \A i \in 1..n : chunks[i] = Chunk(i, archive[i].size)
  <2> HIDE DEF n
  <2>1. ASSUME NEW i \in 1..n PROVE Chunk(i, archive[i].size) \in Seq(TarBytes)
    <3>1. i \in Nat /\ archive[i].size \in Nat
      BY <1>1
    <3> QED
      BY <3>1, ChunkIs
  <2>2. chunks = [i \in 1..n |-> Chunk(i, archive[i].size)]
    BY <1>1
  <2>3. chunks \in [1..n -> Seq(TarBytes)]
    BY <2>1, <2>2
  <2> HIDE DEF chunks
  <2> QED
    BY <1>1, <2>2, <2>3
<1>3. Image(archive) = FlattenSeq(chunks) \o Zeros(2 * t)
  BY DEF Image, Chunk
<1> HIDE DEF chunks
<1>4. PICK run : Laid(run, chunks) /\ FlattenSeq(chunks) = run[n] /\ \A i \in 0..n : run[i] \in Seq(TarBytes)
  BY <1>2, LaidOut
<1>5. run[0] = <<>> /\ \A i \in 1..n : run[i] = run[i - 1] \o Chunk(i, archive[i].size)
  BY <1>2, <1>4 DEF Laid
<1> DEFINE at == [e \in 1..n |-> Len(run[e - 1])]
           A == {i \in 0..n : /\ \E q \in Nat : Len(run[i]) = q * t
                              /\ \A e \in 1..i : LiesAt(run[i], at[e], e, archive[e].size)
                              /\ HeadersAt(run[i], at, i)}
<1> HIDE DEF n
<1>t. t \in Nat \ {0, 1}
  BY TarSizes
<1> HIDE DEF t
<1>6. 0 \in A
  <2>1. Len(run[0]) = 0 /\ 0 = 0 * t /\ 0 \in 0..n
    BY <1>1, <1>5, <1>t
  <2>2. HeadersAt(run[0], at, 0)
    BY <2>1 DEF HeadersAt
  <2> HIDE DEF at
  <2> QED
    BY <2>1, <2>2
<1>7. ASSUME NEW i \in 1..n, i - 1 \in A PROVE i \in A
  <2> DEFINE before == run[i - 1]  size == archive[i].size  c == Chunk(i, size)  l == Len(before)
  <2>1. /\ before \in Seq(TarBytes) /\ size \in Nat /\ i \in Nat /\ i - 1 \in 0..n /\ i \in 0..n
        /\ run[i] = before \o c /\ at[i] = l
    <3>1. i \in Nat /\ i - 1 \in 0..n /\ i \in 0..n
      BY <1>1
    <3>2. at[i] = l
      OBVIOUS
    <3>3. run[i] = run[i - 1] \o Chunk(i, archive[i].size)
      BY <1>5
    <3>4. run[i - 1] \in Seq(TarBytes) /\ archive[i].size \in Nat
      BY <1>1, <1>4, <3>1
    <3> HIDE DEF at, A
    <3> QED
      BY <3>1, <3>2, <3>3, <3>4
  <2>2. /\ \E q \in Nat : l = q * t
        /\ \A e \in 1..(i - 1) : LiesAt(before, at[e], e, archive[e].size)
        /\ HeadersAt(before, at, i - 1)
    BY <1>7
  <2> HIDE DEF at
  <2>3. LiesAt(before \o c, l, i, size)
    <3> HIDE DEF before, size
    <3> QED
      BY <2>1, <2>2, LiesBehind DEF t
  <2>4. /\ c \in Seq(TarBytes) /\ \E q \in Nat : Len(c) = q * t
        /\ \A j \in 1..Len(c), e \in Nat : c[j] = <<"header", e, 1>> => e = i /\ j = 1
    <3> HIDE DEF size
    <3> QED
      BY <2>1, ChunkIs DEF t
  <2>5. ASSUME NEW e \in 1..i PROVE LiesAt(run[i], at[e], e, archive[e].size)
    <3>1. CASE e = i
      BY <2>1, <2>3, <3>1
    <3>2. CASE e # i
      <4>1. e \in 1..(i - 1) /\ e \in 1..n /\ archive[e].size \in Nat
        BY <1>1, <3>2
      <4>2. LiesAt(before, at[e], e, archive[e].size)
        BY <2>2, <4>1
      <4> HIDE DEF before, c
      <4>3. LiesAt(before \o c, at[e], e, archive[e].size)
        BY <2>1, <2>4, <4>1, <4>2, LiesStill
      <4> QED
        BY <2>1, <4>3
    <3> QED
      BY <3>1, <3>2
  <2> HIDE DEF c, before, size
  <2>6. /\ Len(run[i]) = l + Len(c) /\ l \in Nat /\ Len(c) \in Nat
        /\ \A k \in 1..Len(run[i]) : run[i][k] = IF k <= l THEN before[k] ELSE c[k - l]
    <3>1. before \in Seq(TarBytes) /\ c \in Seq(TarBytes)
      BY <2>1, <2>4
    <3>2. /\ Len(before) \in Nat /\ Len(c) \in Nat /\ Len(before \o c) = Len(before) + Len(c)
          /\ \A k \in 1..Len(before \o c) : (before \o c)[k] = IF k <= Len(before) THEN before[k] ELSE c[k - Len(before)]
      BY <3>1, JoinedBytes
    <3>3. run[i] = before \o c
      BY <2>1
    <3> QED
      BY <3>2, <3>3
  <2>7. \E q \in Nat : Len(run[i]) = q * t
    <3>1. PICK q1 \in Nat : l = q1 * t
      BY <2>2
    <3>2. PICK q2 \in Nat : Len(c) = q2 * t
      BY <2>4
    <3>3. (q1 + q2) * t = q1 * t + q2 * t /\ q1 + q2 \in Nat
      BY <1>t
    <3>4. Len(run[i]) = (q1 + q2) * t
      BY <2>6, <3>1, <3>2, <3>3
    <3> QED
      BY <3>3, <3>4
  <2>8. HeadersAt(run[i], at, i)
    <3> SUFFICES ASSUME NEW k \in 1..Len(run[i]), NEW e \in Nat, run[i][k] = <<"header", e, 1>>
                 PROVE  e \in 1..i /\ k = at[e] + 1
      BY DEF HeadersAt
    <3>1. CASE k <= l
      <4>1. k \in 1..l /\ before[k] = <<"header", e, 1>>
        BY <2>6, <3>1
      <4>2. e \in 1..(i - 1) /\ k = at[e] + 1
        BY <2>2, <4>1 DEF HeadersAt, l
      <4> QED
        BY <4>2
    <3>2. CASE ~(k <= l)
      <4>1. k - l \in 1..Len(c) /\ c[k - l] = <<"header", e, 1>>
        BY <2>6, <3>2
      <4>2. e = i /\ k - l = 1
        BY <2>4, <4>1
      <4> QED
        BY <2>1, <2>6, <4>2
    <3> QED
      BY <3>1, <3>2
  <2> QED
    BY <2>1, <2>5, <2>7, <2>8
<1> HIDE DEF A, at
<1>8. 0..n \subseteq A
  BY <1>1, <1>6, <1>7, Flat!UpTo
<1>9. /\ \A e \in 1..n : LiesAt(run[n], at[e], e, archive[e].size)
      /\ HeadersAt(run[n], at, n) /\ run[n] \in Seq(TarBytes)
  <2>1. n \in 0..n
    BY <1>1
  <2> QED
    BY <1>4, <1>8, <2>1 DEF A
<1> DEFINE z == Zeros(2 * t)  all == run[n] \o z
<1>10. z \in Seq(TarBytes) /\ Len(z) = 2 * t /\ \A j \in 1..(2 * t) : z[j] = <<>>
  BY <1>t, ZerosAre
<1> HIDE DEF z
<1>11. all = Image(archive)
  BY <1>3, <1>4 DEF z
<1>12. ASSUME NEW e \in 1..n PROVE LiesAt(all, at[e], e, archive[e].size)
  BY <1>1, <1>9, <1>10, LiesStill
<1>13. /\ all \in Seq(TarBytes) /\ Len(all) = Len(run[n]) + 2 * t /\ Len(run[n]) \in Nat
       /\ \A k \in 1..Len(all) : all[k] = IF k <= Len(run[n]) THEN run[n][k] ELSE z[k - Len(run[n])]
  BY <1>9, <1>10, JoinedBytes
<1>14. HeadersAt(all, at, n)
  <2> HIDE DEF all
  <2> SUFFICES ASSUME NEW k \in 1..Len(all), NEW e \in Nat, all[k] = <<"header", e, 1>>
               PROVE  e \in 1..n /\ k = at[e] + 1
    BY DEF HeadersAt
  <2>1. CASE k <= Len(run[n])
    <3>1. k \in 1..Len(run[n]) /\ run[n][k] = <<"header", e, 1>>
      BY <1>13, <2>1
    <3> QED
      BY <1>9, <3>1 DEF HeadersAt
  <2>2. CASE ~(k <= Len(run[n]))
    <3> DEFINE l == Len(run[n])
    <3>d. l \in Nat /\ Len(all) = l + 2 * t
      BY <1>13
    <3> HIDE DEF l
    <3>e. k \in 1..(l + 2 * t) /\ 2 * t \in Nat
      BY <1>t, <3>d
    <3>a. Len(run[n]) \in Nat /\ k \in 1..(Len(run[n]) + 2 * t) /\ 2 * t \in Nat
      BY <3>d, <3>e DEF l
    <3>b. all[k] = z[k - Len(run[n])]
      BY <1>13, <2>2
    <3>c. k - Len(run[n]) \in 1..(2 * t)
      BY <2>2, <3>a
    <3>0. k - Len(run[n]) \in 1..(2 * t) /\ all[k] = z[k - Len(run[n])]
      BY <3>b, <3>c
    <3>1. k - Len(run[n]) \in 1..(2 * t) /\ z[k - Len(run[n])] = <<"header", e, 1>>
      BY <3>0
    <3>2. <<>> = <<"header", e, 1>>
      BY <1>10, <3>1
    <3> QED
      BY <3>2
  <2> QED
    BY <2>1, <2>2
<1> HIDE DEF all
<1> QED
  BY <1>11, <1>12, <1>13, <1>14 DEF n

LEMMA LeastOfOne == ASSUME NEW p \in Int PROVE Min({p}) = p
BY DEF Min

LEMMA EntriesAre ==
  ASSUME NEW archive \in Archived
  PROVE  /\ Len(archive) \in Nat /\ DOMAIN archive = 1..Len(archive)
         /\ \A i \in 1..Len(archive) : archive[i].size \in Nat
<1>1. Len(archive) \in Nat /\ DOMAIN archive = 1..Len(archive)
  BY LenProperties DEF Archived
<1>2. ASSUME NEW i \in 1..Len(archive) PROVE archive[i].size \in Nat
  <2>1. archive[i] \in [path : Seq(STRING), size : Nat]
    BY ElementOfSeq DEF Archived
  <2> QED
    BY <2>1
<1> QED
  BY <1>1, <1>2

\* An entry's place is the one where its header and its data lie.
LEMMA PlaceIs ==
  ASSUME NEW archive \in Archived, NEW i \in 1..Len(archive)
  PROVE  LiesAt(Image(archive), PlaceOf(archive, i), i, archive[i].size)
<1> DEFINE image == Image(archive)  I == {k \in 1..Len(image) : image[k] = <<"header", i, 1>>}
<1>1. PICK at : /\ \A e \in 1..Len(archive) : LiesAt(image, at[e], e, archive[e].size)
                /\ HeadersAt(image, at, Len(archive))
  BY ImageIs
<1>2. LiesAt(image, at[i], i, archive[i].size) /\ i \in Nat /\ archive[i].size \in Nat
  BY <1>1, EntriesAre
<1>3. PlaceOf(archive, i) = (IF I # {} THEN Min(I) ELSE 0) - 1
  BY DEF PlaceOf, SelectInSeq
<1> HIDE DEF image
<1>4. at[i] \in Nat /\ at[i] + TAR_BLOCK_SIZE + archive[i].size <= Len(image)
  BY <1>2 DEF LiesAt
<1>5. 1 \in 1..HEADER_SIZE /\ TAR_BLOCK_SIZE \in Nat \ {0, 1}
  BY TarSizes
<1>6. image[at[i] + 1] = <<"header", i, 1>>
  BY <1>2, <1>5 DEF LiesAt
<1>7. Len(image) \in Nat
  BY ImageIs, LenProperties DEF image
<1>8. at[i] + 1 \in 1..Len(image)
  BY <1>2, <1>4, <1>5, <1>7
<1>9. \A k \in 1..Len(image) : image[k] = <<"header", i, 1>> => k = at[i] + 1
  BY <1>1, <1>2 DEF HeadersAt
<1>10. I = {at[i] + 1}
  BY <1>6, <1>8, <1>9
<1> HIDE DEF I
<1>11. PlaceOf(archive, i) = at[i]
  <2>1. I # {} /\ at[i] + 1 \in Int
    BY <1>4, <1>10
  <2>2. Min(I) = at[i] + 1
    BY <1>10, <2>1, LeastOfOne
  <2> QED
    BY <1>3, <1>4, <2>1, <2>2
<1> QED
  BY <1>2, <1>11 DEF image

\* A read of the disk that ends inside a block and inside the archive.
LEMMA DiskRead ==
  ASSUME NEW image \in Seq(TarBytes), NEW offset \in Nat, NEW size \in Nat, EndsInside(offset, size),
         size > 0 => offset + size <= Len(image), offset + size <= SIZE_MAX
  PROVE  RamdiskRead(Disk(image), offset, size) = [j \in 1..size |-> image[offset + j]]
<1> DEFINE more == Zeros((-Len(image)) % BLOCK_SIZE)  bytes == image \o more
<1>1. Len(image) \in Nat /\ BLOCK_SIZE \in Nat \ {0} /\ SIZE_MAX \in Nat
  BY LenProperties, BlockIs, SizeIs
<1>2. Disk(image).length = Len(image) /\ Disk(image).bytes = bytes
  BY DEF Disk
<1>3. Clipped(Len(image), offset, size) = size
  <2>1. CASE size = 0
    <3>1. offset + size = offset /\ offset \in 0..SIZE_MAX
      BY <2>1
    <3>2. Size(offset + size) = offset
      BY <3>1, SizeIs
    <3> QED
      BY <1>1, <2>1, <3>2 DEF Clipped
  <2>2. CASE size > 0
    <3>1. Size(offset + size) = offset + size
      BY <1>1, SizeIs
    <3> QED
      BY <1>1, <2>2, <3>1 DEF Clipped
  <2> QED
    BY <2>1, <2>2
<1>4. Copied(bytes, offset, size) = [j \in 1..size |-> bytes[offset + j]]
  <2> HIDE DEF bytes
  <2>1. Copied(bytes, offset, size) = Stretch(bytes, offset, size)
    BY CopiedRight
  <2> QED
    BY <2>1 DEF Stretch
<1>5. ASSUME NEW j \in 1..size PROVE bytes[offset + j] = image[offset + j]
  <2>1. (-Len(image)) % BLOCK_SIZE \in Nat
    BY <1>1
  <2>2. more \in Seq(TarBytes)
    BY <2>1, ZerosAre
  <2> HIDE DEF more
  <2>3. offset + j \in 1..Len(image)
    BY <1>1
  <2>4. offset + j \in 1..Len(image \o more) /\ offset + j <= Len(image)
    BY <2>2, <2>3, JoinedBytes
  <2> QED
    BY <2>2, <2>4, JoinedBytes
<1> HIDE DEF bytes
<1> QED
  BY <1>2, <1>3, <1>4, <1>5 DEF RamdiskRead

\* A header is read whole: it never ends with a block of the disk.
LEMMA HeaderInside ==
  ASSUME NEW at \in Nat, \E q \in Nat : at = q * TAR_BLOCK_SIZE
  PROVE  EndsInside(at, HEADER_SIZE)
<1> DEFINE t == TAR_BLOCK_SIZE  b == BLOCK_SIZE  h == HEADER_SIZE
<1>1. t \in Nat \ {0, 1} /\ h \in 1..(t - 1) /\ b \in Nat \ {0, 1}
  BY TarSizes, BlockIs
<1>2. PICK d \in Nat : b = d * t
  BY TarSizes
<1>3. PICK q \in Nat : at = q * t
  OBVIOUS
<1> HIDE DEF t, b, h
<1>4. (at + h) % b # 0
  <2> SUFFICES ASSUME (at + h) % b = 0 PROVE FALSE
    OBVIOUS
  <2> DEFINE c == (at + h) \div b
  <2>1. c \in Nat /\ at + h = c * b
    BY <1>1
  <2> HIDE DEF c
  <2> DEFINE m == c * d
  <2>2. c * b = m * t /\ m \in Nat
    BY <1>1, <1>2, <2>1
  <2> HIDE DEF m
  <2>3. h = (m - q) * t
    BY <1>1, <1>3, <2>1, <2>2
  <2>4. CASE m - q <= 0
    <3>1. (m - q) * t <= 0
      BY <1>1, <2>2, <2>4
    <3> QED
      BY <1>1, <2>3, <3>1
  <2>5. CASE m - q >= 1
    <3>1. (m - q) * t >= t
      BY <1>1, <2>2, <2>5
    <3> QED
      BY <1>1, <2>3, <3>1
  <2> QED
    BY <2>2, <2>4, <2>5
<1> QED
  BY <1>1, <1>4 DEF EndsInside, b, h

LEMMA HeaderMet ==
  ASSUME NEW archive \in Archived, Len(Image(archive)) + 2 * BLOCK_SIZE <= SIZE_MAX, NEW i \in 1..Len(archive)
  PROVE  HeaderAt(Disk(Image(archive)), PlaceOf(archive, i)) = i
<1> DEFINE image == Image(archive)  at == PlaceOf(archive, i)  h == HEADER_SIZE
           got == RamdiskRead(Disk(image), at, h)
<1>1. LiesAt(image, at, i, archive[i].size) /\ archive[i].size \in Nat /\ i \in Nat
  BY PlaceIs, EntriesAre
<1>2. image \in Seq(TarBytes) /\ Len(image) \in Nat
  BY ImageIs, LenProperties
<1>3. h \in Nat \ {0} /\ h < TAR_BLOCK_SIZE /\ TAR_BLOCK_SIZE \in Nat /\ BLOCK_SIZE \in Nat /\ SIZE_MAX \in Nat
  BY TarSizes, BlockIs, SizeIs
<1> HIDE DEF at, image
<1>4. at \in Nat /\ at + TAR_BLOCK_SIZE + archive[i].size <= Len(image) /\ EndsInside(at, h)
  <2>1. at \in Nat /\ at + TAR_BLOCK_SIZE + archive[i].size <= Len(image) /\ \E q \in Nat : at = q * TAR_BLOCK_SIZE
    BY <1>1, Zenon DEF LiesAt
  <2> QED
    BY <2>1, HeaderInside
<1>5. at + h <= Len(image) /\ at + h <= SIZE_MAX
  BY <1>1, <1>2, <1>3, <1>4 DEF image
<1>6. got = [j \in 1..h |-> image[at + j]]
  <2> HIDE DEF h
  <2> QED
    BY <1>2, <1>3, <1>4, <1>5, DiskRead
<1>7. \A j \in 1..h : image[at + j] = <<"header", i, j>>
  BY <1>1 DEF LiesAt
<1>8. got = HeaderBytes(i)
  BY <1>6, <1>7 DEF HeaderBytes
<1>9. got = [j \in 1..h |-> <<"header", i, j>>]
  BY <1>8 DEF HeaderBytes
<1> HIDE DEF got, h
<1>10. got # <<>> /\ Head(got) = <<"header", i, 1>>
  <2>1. 1 \in 1..h
    BY <1>3
  <2>2. 1 \in DOMAIN got /\ got[1] = <<"header", i, 1>>
    BY <1>9, <2>1
  <2>3. Head(got) = got[1]
    BY <1>3, <1>9
  <2> QED
    BY <2>2, <2>3
<1>11. Head(got) # <<>> /\ Head(got)[2] = i
  BY <1>10
<1> QED
  BY <1>8, <1>10, <1>11 DEF HeaderAt, got, h, image, at

\* What TarReadsRight says of one file.
LEMMA FileRead ==
  ASSUME NEW archive \in Archived, Len(Image(archive)) + 2 * BLOCK_SIZE <= SIZE_MAX, NEW i \in 1..Len(archive),
         NEW offset \in 0..(2 * BLOCK_SIZE), NEW size \in 0..(2 * BLOCK_SIZE), NEW node,
         node.inode_no = PlaceOf(archive, i),
         EndsInside(node.inode_no + TAR_BLOCK_SIZE + offset, Readable(archive[i].size, offset, size))
  PROVE  TarfsRead(archive, node, offset, size)
           = [j \in 1..Readable(archive[i].size, offset, size) |-> <<"data", i, offset + j>>]
<1> DEFINE image == Image(archive)  at == PlaceOf(archive, i)  t == TAR_BLOCK_SIZE  all == archive[i].size
           n == Readable(all, offset, size)
<1>1. HeaderAt(Disk(image), node.inode_no) = i
  BY HeaderMet
<1>2. TarfsRead(archive, node, offset, size)
        = RamdiskRead(Disk(image), at + t + offset, Clipped(all, offset, size))
  BY <1>1 DEF TarfsRead
<1>3. LiesAt(image, at, i, all) /\ all \in Nat /\ i \in Nat
  BY PlaceIs, EntriesAre
<1>4. image \in Seq(TarBytes) /\ Len(image) \in Nat
  BY ImageIs, LenProperties
<1>5. t \in Nat /\ BLOCK_SIZE \in Nat /\ SIZE_MAX \in Nat
  BY TarSizes, BlockIs, SizeIs
<1>6. Len(image) + 2 * BLOCK_SIZE <= SIZE_MAX /\ EndsInside(at + t + offset, n)
  OBVIOUS
<1> HIDE DEF image, at, t, all
<1>7. at \in Nat /\ at + t + all <= Len(image)
  BY <1>3, Zenon DEF LiesAt, t
<1>8. n \in Nat /\ (n > 0 => offset + n <= all)
  BY <1>3, <1>5 DEF Readable
<1>9. Clipped(all, offset, size) = n
  <2>1. CASE offset >= all
    BY <1>3, <1>5, <2>1 DEF Clipped, Readable
  <2>2. CASE ~(offset >= all)
    <3>1. offset + size \in 0..SIZE_MAX
      BY <1>3, <1>4, <1>5, <1>6, <1>7, <2>2, SMTT(40)
    <3>2. Size(offset + size) = offset + size
      BY <3>1, SizeIs
    <3> QED
      BY <1>3, <1>5, <2>2, <3>2 DEF Clipped, Readable
  <2> QED
    BY <2>1, <2>2
<1> HIDE DEF n
<1>10. /\ at + t + offset \in Nat
       /\ n > 0 => (at + t + offset) + n <= Len(image)
       /\ (at + t + offset) + n <= SIZE_MAX
  BY <1>3, <1>4, <1>5, <1>6, <1>7, <1>8
<1>11. RamdiskRead(Disk(image), at + t + offset, n) = [j \in 1..n |-> image[(at + t + offset) + j]]
  <2> DEFINE from == at + t + offset
  <2>1. from \in Nat /\ EndsInside(from, n) /\ (n > 0 => from + n <= Len(image)) /\ from + n <= SIZE_MAX
    BY <1>6, <1>10
  <2> HIDE DEF from
  <2>2. RamdiskRead(Disk(image), from, n) = [j \in 1..n |-> image[from + j]]
    BY <1>4, <1>8, <2>1, DiskRead
  <2> QED
    BY <2>2 DEF from
<1>12. ASSUME NEW j \in 1..n PROVE image[(at + t + offset) + j] = <<"data", i, offset + j>>
  <2>1. offset + j \in 1..all /\ (at + t + offset) + j = at + t + (offset + j)
    BY <1>3, <1>5, <1>7, <1>8
  <2>2. \A k \in 1..all : image[at + t + k] = <<"data", i, k>>
    BY <1>3, Zenon DEF LiesAt, t
  <2> QED
    BY <2>1, <2>2
<1>13. RamdiskRead(Disk(image), at + t + offset, n) = [j \in 1..n |-> <<"data", i, offset + j>>]
  BY <1>11, <1>12
<1> QED
  BY <1>2, <1>9, <1>13 DEF n, all

\* What tarfs is asked about.
AskedArchives == call.routine = "tarfs" => call.args \in Archives

LEMMA ArchivesAsked == Spec => []AskedArchives
<1>1. Init => AskedArchives
  BY DEF Init, AskedArchives, Idle
<1>2. AskedArchives /\ [Next]_vars => AskedArchives'
  <2> SUFFICES ASSUME AskedArchives, [Next]_vars PROVE AskedArchives'
    OBVIOUS
  <2>1. CASE AskTarfs
    BY <2>1 DEF AskTarfs, Ask, AskedArchives
  <2>2. CASE AskCanonicize \/ AskClock \/ AskPrint \/ AskFormat
    <3>1. \E routine \in {"vfs_canonicize_path", "read_cmos", "printf", "_vsnprintf"} : \E args : Ask(routine, args)
      BY <2>2, Zenon DEF AskCanonicize, AskClock, AskPrint, AskFormat
    <3>2. call'.routine \in {"vfs_canonicize_path", "read_cmos", "printf", "_vsnprintf"}
      BY <3>1 DEF Ask
    <3> QED
      BY <3>2 DEF AskedArchives
  <2>3. CASE Answer
    BY <2>3 DEF Answer, AskedArchives, Idle
  <2>4. CASE UNCHANGED call
    BY <2>4 DEF AskedArchives
  <2> QED
    BY <2>1, <2>2, <2>3, <2>4 DEF Next, vars, Write, TerminalPutchar, TerminalClear, AddOutput, LogPrintf, ListStep
<1> QED
  BY <1>1, <1>2, PTL DEF Spec

\* Every file of every archive there is room for reads as its bytes, from the
\* first to the last and over the ends of blocks, unless a read ends where a
\* block does.
THEOREM TarfsReads == Spec => []TarReadsRight
<1>1. AskedArchives => TarReadsRight
  <2> SUFFICES ASSUME AskedArchives, call.routine = "tarfs",
                      NEW i \in {j \in DOMAIN call.args : ~IsDir(call.args[j])},
                      NEW offset \in 0..(2 * BLOCK_SIZE), NEW size \in 0..(2 * BLOCK_SIZE),
                      EndsInside([inode_no |-> PlaceOf(call.args, i)].inode_no + TAR_BLOCK_SIZE + offset,
                                 Readable(call.args[i].size, offset, size))
               PROVE  TarfsRead(call.args, [inode_no |-> PlaceOf(call.args, i)], offset, size)
                        = [j \in 1..Readable(call.args[i].size, offset, size) |-> <<"data", i, offset + j>>]
    BY DEF TarReadsRight
  <2> DEFINE archive == call.args
  <2>1. archive \in Archived /\ Len(Image(archive)) + 2 * BLOCK_SIZE <= SIZE_MAX
    BY ArchivesAssumption DEF AskedArchives, Archived
  <2>2. i \in 1..Len(archive)
    BY <2>1, EntriesAre
  <2> DEFINE node == [inode_no |-> PlaceOf(archive, i)]
  <2>3. node.inode_no = PlaceOf(archive, i)
    OBVIOUS
  <2>4. EndsInside(node.inode_no + TAR_BLOCK_SIZE + offset, Readable(archive[i].size, offset, size))
    OBVIOUS
  <2> HIDE DEF archive, node
  <2>5. TarfsRead(archive, node, offset, size)
          = [j \in 1..Readable(archive[i].size, offset, size) |-> <<"data", i, offset + j>>]
    BY <2>1, <2>2, <2>3, <2>4, FileRead
  <2> QED
    BY <2>5 DEF archive, node
<1> QED
  BY <1>1, ArchivesAsked, PTL DEF Spec

----------------------------------------------------------------------------
(* The clock                                                               *)

\* A total is what a run that adds one number after the other ends with.
LEMMA Totals ==
  ASSUME NEW seq, NEW n \in Nat, DOMAIN seq = 1..n, NEW run, DOMAIN run = 0..n, run[0] = 0,
         \A i \in 1..n : run[i] = run[i - 1] + seq[i]
  PROVE  Total(seq) = run[n]
<1>1. Total(seq) = Adding!Folded(0, seq)
  BY DEF Total, Adding!Folded, FoldLeft, Adding!FoldLeft, MapThenFoldSet, Adding!MapThenFoldSet, Max, Adding!Max
<1>2. Adding!Runs(run, 0, seq, n)
  BY DEF Adding!Runs
<1> QED
  BY <1>1, <1>2, Adding!FoldedBy

----------------------------------------------------------------------------
(* The calendar                                                            *)

Years == 1970..2099
Extra(year) == IF IsLeap(year) THEN 1 ELSE 0   \* the 29th of February

\* One of four years is a leap year until 2099.
LEMMA FourthYears == ASSUME NEW year \in Years PROVE IsLeap(year) <=> year % 4 = 0
<1>1. year % 100 = 0 => year = 2000
  BY DEF Years
<1> QED
  BY <1>1 DEF IsLeap

\* The days from the start of 1970 to the start of a year, and from there to
\* the start of a month.
YearsBefore(year) == 365 * (year - 1970) + ((year - 1969) \div 4)
MonthsBefore(year) ==
  <<0, 31, 59 + Extra(year), 90 + Extra(year), 120 + Extra(year), 151 + Extra(year), 181 + Extra(year),
    212 + Extra(year), 243 + Extra(year), 273 + Extra(year), 304 + Extra(year), 334 + Extra(year)>>

LEMMA YearAfter ==
  ASSUME NEW year \in Years
  PROVE  /\ YearsBefore(year) \in Int /\ YearsBefore(year + 1) = YearsBefore(year) + YearLength(year)
         /\ YearLength(year) = 365 + Extra(year) /\ Extra(year) \in {0, 1}
<1>1. year \in Int
  BY DEF Years
<1>2. CASE year % 4 = 0
  <2>1. ((year + 1 - 1969) \div 4) = ((year - 1969) \div 4) + 1
    BY <1>2, <1>1
  <2>2. IsLeap(year)
    BY <1>2, FourthYears
  <2> QED
    BY <1>1, <2>1, <2>2 DEF YearsBefore, YearLength, Extra
<1>3. CASE year % 4 # 0
  <2>1. ((year + 1 - 1969) \div 4) = ((year - 1969) \div 4)
    BY <1>3, <1>1
  <2>2. ~IsLeap(year)
    BY <1>3, FourthYears
  <2> QED
    BY <1>1, <2>1, <2>2 DEF YearsBefore, YearLength, Extra
<1> QED
  BY <1>2, <1>3

LEMMA MonthAfter ==
  ASSUME NEW year \in Years, NEW m \in 1..12
  PROVE  /\ MonthsBefore(year)[m] \in Nat /\ MonthLengths(year)[m] \in 28..31
         /\ DaysOfMonth(m, year) = MonthLengths(year)[m]
         /\ m < 12 => MonthsBefore(year)[m + 1] = MonthsBefore(year)[m] + MonthLengths(year)[m]
         /\ m = 12 => MonthsBefore(year)[m] = 334 + Extra(year) /\ MonthLengths(year)[m] = 31
         /\ m = 1 => MonthsBefore(year)[m] = 0
<1>1. YearLength(year) = 365 + Extra(year) /\ Extra(year) \in {0, 1}
  BY YearAfter
<1>2. \A c : DaysOfMonth(m, year) = (CASE m = 2 -> YearLength(year) - 337 [] m \in {4, 6, 9, 11} -> 30 [] OTHER -> 31)
  BY DEF DaysOfMonth, YearLength
<1> DEFINE x == Extra(year)
           l == YearLength(year)
<1> HIDE DEF x, l
<1>3. l = 365 + x /\ x \in {0, 1}
  BY <1>1 DEF x, l
<1>4. m = 1 \/ m = 2 \/ m = 3 \/ m = 4 \/ m = 5 \/ m = 6 \/ m = 7 \/ m = 8 \/ m = 9 \/ m = 10 \/ m = 11 \/ m = 12
  OBVIOUS
<1>5. MonthsBefore(year) = <<0, 31, 59 + x, 90 + x, 120 + x, 151 + x, 181 + x, 212 + x, 243 + x, 273 + x, 304 + x, 334 + x>>
  BY DEF MonthsBefore, x
<1>6. MonthLengths(year) = <<31, l - 337, 31, 30, 31, 30, 31, 31, 30, 31, 30, 31>>
  BY DEF MonthLengths, l
<1>7. DaysOfMonth(m, year) = (CASE m = 2 -> l - 337 [] m \in {4, 6, 9, 11} -> 30 [] OTHER -> 31)
  BY <1>2 DEF l
<1>8. Extra(year) = x
  BY DEF x
<1> QED
  BY <1>3, <1>4, <1>5, <1>6, <1>7, <1>8

\* secs_to_month, and the same counted with the lengths of months.
LEMMA MonthTotals ==
  ASSUME NEW year \in Years, NEW month \in 1..12
  PROVE  /\ Total([m \in 1..(month - 1) |-> DaysOfMonth(m, year)]) = MonthsBefore(year)[month]
         /\ Total([m \in 1..(month - 1) |-> MonthLengths(year)[m]]) = MonthsBefore(year)[month]
<1> DEFINE n == month - 1
           run == [i \in 0..n |-> MonthsBefore(year)[i + 1]]
           seq == [m \in 1..n |-> DaysOfMonth(m, year)]
           len == [m \in 1..n |-> MonthLengths(year)[m]]
<1>1. n \in Nat /\ \A i \in 1..n : i \in 1..12 /\ i < 12
  OBVIOUS
<1>2. \A i \in 1..n : /\ MonthsBefore(year)[i + 1] = MonthsBefore(year)[i] + MonthLengths(year)[i]
                      /\ DaysOfMonth(i, year) = MonthLengths(year)[i]
  BY <1>1, MonthAfter
<1>3. MonthsBefore(year)[1] = 0
  BY MonthAfter
<1>4. run[n] = MonthsBefore(year)[month]
  BY <1>1
<1>5. run[0] = 0 /\ \A i \in 1..n : run[i] = run[i - 1] + seq[i] /\ run[i] = run[i - 1] + len[i]
  BY <1>1, <1>2, <1>3
<1>6. DOMAIN run = 0..n /\ DOMAIN seq = 1..n /\ DOMAIN len = 1..n
  OBVIOUS
<1> HIDE DEF run, n, seq, len
<1>7. Total(seq) = run[n]
  BY <1>1, <1>5, <1>6, Totals
<1>8. Total(len) = run[n]
  BY <1>1, <1>5, <1>6, Totals
<1> QED
  BY <1>4, <1>7, <1>8 DEF seq, len, n

LEMMA YearTotals ==
  ASSUME NEW year \in Years
  PROVE  Total([y \in 1..(year - 1970) |-> YearLength(1969 + y)]) = YearsBefore(year)
<1> DEFINE n == year - 1970
           run == [i \in 0..n |-> YearsBefore(1970 + i)]
           seq == [y \in 1..n |-> YearLength(1969 + y)]
<1>1. n \in Nat /\ \A i \in 1..n : 1969 + i \in Years
  BY DEF Years
<1>2. \A i \in 1..n : YearsBefore(1969 + i + 1) = YearsBefore(1969 + i) + YearLength(1969 + i)
  BY <1>1, YearAfter
<1>3. YearsBefore(1970) = 0
  BY DEF YearsBefore
<1>4. run[n] = YearsBefore(year) /\ run[0] = 0
  <2>1. 1970 + n = year /\ 1970 + 0 = 1970 /\ n \in 0..n /\ 0 \in 0..n
    BY <1>1 DEF Years
  <2> QED
    BY <1>3, <2>1
<1>5. \A i \in 1..n : run[i] = run[i - 1] + seq[i]
  <2> HIDE DEF run, seq
  <2> SUFFICES ASSUME NEW i \in 1..n PROVE run[i] = run[i - 1] + seq[i]
    OBVIOUS
  <2>1. 1970 + i = 1969 + i + 1 /\ 1970 + (i - 1) = 1969 + i /\ i \in 0..n /\ i - 1 \in 0..n
    BY <1>1
  <2>2. run[i] = YearsBefore(1969 + i + 1) /\ run[i - 1] = YearsBefore(1969 + i) /\ seq[i] = YearLength(1969 + i)
    BY <2>1 DEF run, seq
  <2> QED
    BY <1>2, <2>2
<1>6. DOMAIN run = 0..n /\ DOMAIN seq = 1..n
  OBVIOUS
<1> HIDE DEF run, n, seq
<1>7. Total(seq) = run[n]
  BY <1>1, <1>4, <1>5, <1>6, Totals
<1> QED
  BY <1>4, <1>7 DEF seq, n

\* secs_to_year is ahead by a day from the start of a leap year on.
LEMMA YearSeconds ==
  ASSUME NEW year \in Years PROVE SecsToYear(year) = (YearsBefore(year) + Extra(year)) * 86400
<1>1. year \in Int
  BY DEF Years
<1>2. ((year - 1968) \div 4) = ((year - 1969) \div 4) + Extra(year)
  <2>1. CASE year % 4 = 0
    <3>1. Extra(year) = 1
      BY <2>1, FourthYears DEF Extra
    <3>2. ((year - 1968) \div 4) = ((year - 1969) \div 4) + 1
      BY <1>1, <2>1
    <3> QED
      BY <3>1, <3>2
  <2>2. CASE year % 4 # 0
    <3>1. Extra(year) = 0
      BY <2>2, FourthYears DEF Extra
    <3>2. ((year - 1968) \div 4) = ((year - 1969) \div 4)
      BY <1>1, <2>2
    <3> QED
      BY <1>1, <3>1, <3>2
  <2> QED
    BY <2>1, <2>2
<1>3. ((year - 1969) \div 4) \in Int /\ Extra(year) \in Int
  BY <1>1 DEF Extra
<1> QED
  BY <1>1, <1>2, <1>3 DEF SecsToYear, YearsBefore

----------------------------------------------------------------------------
(* The chip                                                                *)

Instants ==
  {at \in [year : Years, month : 1..12, day : 1..31, hour : 0..23, minute : 0..59, second : 0..59] :
     at.year < 2099 /\ at.day <= MonthLengths(at.year)[at.month]}

LEMMA OneByte == ASSUME NEW n \in 0..99 PROVE BcdToBinary((n \div 10) * 16 + (n % 10)) = n
<1> DEFINE tens == (n \div 10)
           ones == n % 10
<1>1. tens \in 0..9 /\ ones \in 0..9 /\ n = tens * 10 + ones
  OBVIOUS
<1> HIDE DEF tens, ones
<1>2. ((tens * 16 + ones) \div 16) = tens /\ (tens * 16 + ones) % 16 = ones
  BY <1>1
<1>3. BcdToBinary(tens * 16 + ones) = n
  BY <1>1, <1>2 DEF BcdToBinary
<1> QED
  BY <1>3 DEF tens, ones

\* A register of the chip and what read_cmos takes it for.
Byte(binary, n) == IF binary THEN n ELSE (n \div 10) * 16 + (n % 10)
Taken(binary, byte) == IF binary THEN byte ELSE BcdToBinary(byte)

LEMMA TakenRight == ASSUME NEW binary, NEW n \in 0..99 PROVE Taken(binary, Byte(binary, n)) = n
  BY OneByte DEF Taken, Byte

\* The register of the hour, and what it is taken for: noon for midnight of
\* the next day.
HourByte(status_b, hour) ==
  LET hour12 == IF hour % 12 = 0 THEN 12 ELSE hour % 12
  IN IF status_b.HOURS24 THEN Byte(status_b.BINARY, hour)
     ELSE Byte(status_b.BINARY, hour12) + (IF hour >= 12 THEN PM ELSE 0)
HourTaken(status_b, byte) ==
  LET hour == IF status_b.BINARY THEN byte ELSE BcdToBinary(byte % PM) + (byte \div PM) * PM
  IN IF status_b.HOURS24 THEN hour ELSE Hour24(hour)

LEMMA HourRight ==
  ASSUME NEW status_b \in StatusB, NEW hour \in 0..23
  PROVE  HourTaken(status_b, HourByte(status_b, hour))
           = hour + (IF hour = 12 /\ ~status_b.HOURS24 THEN 12 ELSE 0)
<1> DEFINE binary == status_b.BINARY
           hour12 == IF hour % 12 = 0 THEN 12 ELSE hour % 12
           low == Byte(binary, hour12)
           pm == IF hour >= 12 THEN 1 ELSE 0
<1>1. hour12 \in 1..12 /\ (hour12 = 12 => hour \in {0, 12}) /\ (hour12 < 12 => hour = hour12 + pm * 12)
  OBVIOUS
<1>2. \A n \in 0..23 : /\ Byte(binary, n) \in 0..35
                       /\ (IF binary THEN Byte(binary, n) ELSE BcdToBinary(Byte(binary, n))) = n
  <2> SUFFICES ASSUME NEW n \in 0..23
               PROVE  /\ Byte(binary, n) \in 0..35
                      /\ (IF binary THEN Byte(binary, n) ELSE BcdToBinary(Byte(binary, n))) = n
    OBVIOUS
  <2>1. Byte(binary, n) \in 0..35
    BY DEF Byte
  <2>2. Taken(binary, Byte(binary, n)) = n
    BY TakenRight
  <2> QED
    BY <2>1, <2>2 DEF Taken
<1>3. CASE status_b.HOURS24
  <2>1. HourByte(status_b, hour) = Byte(binary, hour)
    BY <1>3 DEF HourByte
  <2> DEFINE byte == Byte(binary, hour)
  <2>2. byte \in 0..35 /\ (IF binary THEN byte ELSE BcdToBinary(byte)) = hour
    BY <1>2
  <2> HIDE DEF byte
  <2>3. byte % PM = byte /\ (byte \div PM) = 0
    BY <2>2 DEF PM
  <2>4. HourTaken(status_b, byte) = (IF binary THEN byte ELSE BcdToBinary(byte) + 0 * PM)
    BY <1>3, <2>3 DEF HourTaken
  <2>5. HourTaken(status_b, byte) = hour
    BY <2>2, <2>4 DEF PM
  <2> QED
    BY <1>3, <2>1, <2>5 DEF byte
<1>4. CASE ~status_b.HOURS24
  <2>1. HourByte(status_b, hour) = low + pm * PM
    BY <1>4, <1>2, <1>1 DEF HourByte, PM
  <2>2. low \in 0..35 /\ (IF binary THEN low ELSE BcdToBinary(low)) = hour12 /\ pm \in {0, 1}
    BY <1>1, <1>2
  <2>3. hour12 = 12 => hour = pm * 12
    BY <1>1
  <2> DEFINE byte == low + pm * PM
             once == IF hour12 + pm * PM >= PM THEN ((hour12 + pm * PM) % PM) + 12 ELSE hour12 + pm * PM
  <2> HIDE DEF low, hour12, pm
  <2>4. byte % PM = low /\ (byte \div PM) = pm
    BY <2>2 DEF PM
  <2>5. byte = hour12 + pm * PM \/ ~binary
    BY <2>2
  <2> HIDE DEF byte
  <2>6. HourTaken(status_b, byte) = Hour24(hour12 + pm * PM)
    BY <1>4, <2>2, <2>4, <2>5 DEF HourTaken
  <2>7. once = hour12 + pm * 12
    BY <1>1, <2>2 DEF PM
  <2>8. once < PM
    BY <1>1, <2>2, <2>7 DEF PM
  <2>9. Hour24(hour12 + pm * PM) = IF once = 12 THEN 0 ELSE once
    BY <1>1, <2>2, <2>7, <2>8 DEF Hour24, PM
  <2>10. (IF once = 12 THEN 0 ELSE once) = hour + (IF hour = 12 THEN 12 ELSE 0)
    BY <1>1, <2>2, <2>3, <2>7
  <2> QED
    BY <1>4, <2>1, <2>6, <2>9, <2>10 DEF byte
<1> QED
  BY <1>3, <1>4

LEMMA RegistersAre ==
  ASSUME NEW status_b, NEW at
  PROVE  /\ Registers(status_b, at).century = Byte(status_b.BINARY, at.year \div 100)
         /\ Registers(status_b, at).year = Byte(status_b.BINARY, at.year % 100)
         /\ Registers(status_b, at).month = Byte(status_b.BINARY, at.month)
         /\ Registers(status_b, at).day = Byte(status_b.BINARY, at.day)
         /\ Registers(status_b, at).hour = HourByte(status_b, at.hour)
         /\ Registers(status_b, at).minute = Byte(status_b.BINARY, at.minute)
         /\ Registers(status_b, at).second = Byte(status_b.BINARY, at.second)
  BY DEF Registers, Byte, HourByte

\* Which of the fields of two instants are seen behind the first k.
LEMMA ReadAre ==
  ASSUME NEW status_b, NEW at, NEW k \in 0..7
  PROVE  LET reg == ReadOneByOne(status_b, at, k)
             of(j) == IF j <= k THEN Registers(status_b, at) ELSE Registers(status_b, OneLater(at))
         IN /\ reg.second = of(1).second /\ reg.minute = of(2).minute /\ reg.hour = of(3).hour
            /\ reg.day = of(4).day /\ reg.month = of(5).month
            /\ reg.year = of(6).year /\ reg.century = of(7).century
<1> DEFINE old == Registers(status_b, at)
           new == Registers(status_b, OneLater(at))
           reg == ReadOneByOne(status_b, at, k)
<1>1. reg = [f \in ToSet(InOrder) |-> IF \E j \in 1..k : InOrder[j] = f THEN old[f] ELSE new[f]]
  BY DEF ReadOneByOne
<1> HIDE DEF old, new, reg
<1>2. DOMAIN InOrder = 1..7
  BY DEF InOrder
<1>3. \A i \in 1..7 : reg[InOrder[i]] = IF i <= k THEN old[InOrder[i]] ELSE new[InOrder[i]]
  <2> SUFFICES ASSUME NEW i \in 1..7
               PROVE  reg[InOrder[i]] = IF i <= k THEN old[InOrder[i]] ELSE new[InOrder[i]]
    OBVIOUS
  <2>1. InOrder[i] \in ToSet(InOrder)
    BY <1>2 DEF ToSet
  <2>2. \A j \in 1..7 : InOrder[j] = InOrder[i] => j = i
    BY DEF InOrder
  <2>3. (\E j \in 1..k : InOrder[j] = InOrder[i]) <=> i <= k
    BY <2>2
  <2> QED
    BY <1>1, <2>1, <2>3
<1>4. /\ reg.second = IF 1 <= k THEN old.second ELSE new.second
      /\ reg.minute = IF 2 <= k THEN old.minute ELSE new.minute
      /\ reg.hour = IF 3 <= k THEN old.hour ELSE new.hour
      /\ reg.day = IF 4 <= k THEN old.day ELSE new.day
      /\ reg.month = IF 5 <= k THEN old.month ELSE new.month
      /\ reg.year = IF 6 <= k THEN old.year ELSE new.year
      /\ reg.century = IF 7 <= k THEN old.century ELSE new.century
  BY <1>3 DEF InOrder
<1> QED
  BY <1>4 DEF old, new, reg

\* How many fields start again, and what becomes of them.
LEMMA RolledAre ==
  ASSUME NEW at \in Instants
  PROVE  LET r == RolledOver(at)
         IN /\ r \in 0..5
            /\ r >= 1 => at.second = 59
            /\ r >= 2 => at.minute = 59
            /\ r >= 3 => at.hour = 23
            /\ r >= 4 => at.day = MonthLengths(at.year)[at.month]
            /\ r = 5 => at.month = 12
            /\ r = 0 => at.second # 59
            /\ r = 1 => at.minute # 59
            /\ r = 2 => at.hour # 23
            /\ r = 3 => at.day # MonthLengths(at.year)[at.month]
            /\ r = 4 => at.month # 12
<1> DEFINE long == Longest(at)
           Rolled(n) == /\ n < 5 => at[InOrder[n + 1]] # long[InOrder[n + 1]]
                        /\ \A k \in 1..n : at[InOrder[k]] = long[InOrder[k]]
           n0 == IF at.second # long.second THEN 0 ELSE IF at.minute # long.minute THEN 1
                 ELSE IF at.hour # long.hour THEN 2 ELSE IF at.day # long.day THEN 3
                 ELSE IF at.month # long.month THEN 4 ELSE 5
<1>1. /\ InOrder[1] = "second" /\ InOrder[2] = "minute" /\ InOrder[3] = "hour" /\ InOrder[4] = "day"
      /\ InOrder[5] = "month"
  BY DEF InOrder
<1>2. /\ long.second = 59 /\ long.minute = 59 /\ long.hour = 23 /\ long.month = 12
      /\ long.day = MonthLengths(at.year)[at.month]
  BY DEF Longest
<1> HIDE DEF long
<1>3. n0 \in 0..5 /\ Rolled(n0)
  <2>1. n0 = 0 \/ n0 = 1 \/ n0 = 2 \/ n0 = 3 \/ n0 = 4 \/ n0 = 5
    OBVIOUS
  <2> QED
    BY <1>1, <2>1
<1>4. RolledOver(at) = CHOOSE n \in 0..5 : Rolled(n)
  BY DEF RolledOver, long
<1> DEFINE r == RolledOver(at)
<1> HIDE DEF n0, Rolled
<1>5. r \in 0..5 /\ Rolled(r)
  BY <1>3, <1>4
<1> HIDE DEF r
<1>6. /\ r >= 1 => at.second = long.second
      /\ r >= 2 => at.minute = long.minute
      /\ r >= 3 => at.hour = long.hour
      /\ r >= 4 => at.day = long.day
      /\ r = 5 => at.month = long.month
  BY <1>1, <1>5 DEF Rolled
<1>7. /\ r = 0 => at.second # long.second
      /\ r = 1 => at.minute # long.minute
      /\ r = 2 => at.hour # long.hour
      /\ r = 3 => at.day # long.day
      /\ r = 4 => at.month # long.month
  BY <1>1, <1>5 DEF Rolled
<1> QED
  BY <1>2, <1>5, <1>6, <1>7 DEF r

LEMMA LaterIs ==
  ASSUME NEW at \in Instants
  PROVE  LET r == RolledOver(at)
             later == OneLater(at)
         IN /\ later.second = IF r >= 1 THEN 0 ELSE at.second + 1
            /\ later.minute = IF r >= 2 THEN 0 ELSE IF r = 1 THEN at.minute + 1 ELSE at.minute
            /\ later.hour = IF r >= 3 THEN 0 ELSE IF r = 2 THEN at.hour + 1 ELSE at.hour
            /\ later.day = IF r >= 4 THEN 1 ELSE IF r = 3 THEN at.day + 1 ELSE at.day
            /\ later.month = IF r = 5 THEN 1 ELSE IF r = 4 THEN at.month + 1 ELSE at.month
            /\ later.year = IF r = 5 THEN at.year + 1 ELSE at.year
<1> DEFINE r == RolledOver(at)
           later == OneLater(at)
<1>1. r \in 0..5
  BY RolledAre
<1>2. DOMAIN at = {"year", "month", "day", "hour", "minute", "second"}
  BY DEF Instants
<1>3. later = [f \in DOMAIN at |->
                 IF \E k \in 1..r : InOrder[k] = f THEN (IF f \in {"day", "month"} THEN 1 ELSE 0)
                 ELSE IF f = InOrder[r + 1] THEN at[f] + 1 ELSE at[f]]
  BY DEF OneLater
<1> HIDE DEF r, later
<1>4. /\ InOrder[1] = "second" /\ InOrder[2] = "minute" /\ InOrder[3] = "hour" /\ InOrder[4] = "day"
      /\ InOrder[5] = "month" /\ InOrder[6] = "year"
  BY DEF InOrder
<1>5. \A i \in 1..6 : later[InOrder[i]] = IF i <= r THEN (IF InOrder[i] \in {"day", "month"} THEN 1 ELSE 0)
                                          ELSE IF i = r + 1 THEN at[InOrder[i]] + 1 ELSE at[InOrder[i]]
  <2> SUFFICES ASSUME NEW i \in 1..6
               PROVE  later[InOrder[i]] = IF i <= r THEN (IF InOrder[i] \in {"day", "month"} THEN 1 ELSE 0)
                                          ELSE IF i = r + 1 THEN at[InOrder[i]] + 1 ELSE at[InOrder[i]]
    OBVIOUS
  <2>1. InOrder[i] \in DOMAIN at
    BY <1>2, <1>4
  <2>2. \A j \in 1..6 : InOrder[j] = InOrder[i] => j = i
    BY DEF InOrder
  <2>3. (\E j \in 1..r : InOrder[j] = InOrder[i]) <=> i <= r
    BY <1>1, <2>2
  <2>4. InOrder[i] = InOrder[r + 1] <=> i = r + 1
    BY <1>1, <2>2
  <2> HIDE DEF r
  <2> QED
    BY <1>3, <2>1, <2>3, <2>4
<1>6. /\ later.second = IF 1 <= r THEN 0 ELSE IF 1 = r + 1 THEN at.second + 1 ELSE at.second
      /\ later.minute = IF 2 <= r THEN 0 ELSE IF 2 = r + 1 THEN at.minute + 1 ELSE at.minute
      /\ later.hour = IF 3 <= r THEN 0 ELSE IF 3 = r + 1 THEN at.hour + 1 ELSE at.hour
      /\ later.day = IF 4 <= r THEN 1 ELSE IF 4 = r + 1 THEN at.day + 1 ELSE at.day
      /\ later.month = IF 5 <= r THEN 1 ELSE IF 5 = r + 1 THEN at.month + 1 ELSE at.month
      /\ later.year = IF 6 <= r THEN 0 ELSE IF 6 = r + 1 THEN at.year + 1 ELSE at.year
  BY <1>4, <1>5
<1>7. /\ later.second = IF r >= 1 THEN 0 ELSE at.second + 1
      /\ later.minute = IF r >= 2 THEN 0 ELSE IF r = 1 THEN at.minute + 1 ELSE at.minute
      /\ later.hour = IF r >= 3 THEN 0 ELSE IF r = 2 THEN at.hour + 1 ELSE at.hour
      /\ later.day = IF r >= 4 THEN 1 ELSE IF r = 3 THEN at.day + 1 ELSE at.day
      /\ later.month = IF r = 5 THEN 1 ELSE IF r = 4 THEN at.month + 1 ELSE at.month
      /\ later.year = IF r = 5 THEN at.year + 1 ELSE at.year
  BY <1>1, <1>6
<1> QED
  BY <1>7 DEF r, later

----------------------------------------------------------------------------
(* The reading                                                             *)

LEMMA LaterRanges ==
  ASSUME NEW at \in Instants
  PROVE  LET later == OneLater(at)
         IN /\ later.second \in 0..59 /\ later.minute \in 0..59 /\ later.hour \in 0..23
            /\ later.day \in 1..31 /\ later.month \in 1..12 /\ later.year \in Years
<1> DEFINE r == RolledOver(at)
           later == OneLater(at)
<1>1. /\ at.second \in 0..59 /\ at.minute \in 0..59 /\ at.hour \in 0..23 /\ at.day \in 1..31
      /\ at.month \in 1..12 /\ at.year \in Years /\ at.year < 2099
      /\ at.day <= MonthLengths(at.year)[at.month]
  BY DEF Instants
<1>2. MonthLengths(at.year)[at.month] \in 28..31
  BY <1>1, MonthAfter
<1> DEFINE L == MonthLengths(at.year)[at.month]
<1>3. L \in 28..31 /\ at.day <= L
  BY <1>1, <1>2
<1>4. /\ r \in 0..5 /\ (r = 0 => at.second # 59) /\ (r = 1 => at.minute # 59) /\ (r = 2 => at.hour # 23)
      /\ (r = 3 => at.day # L) /\ (r = 4 => at.month # 12)
  BY RolledAre
<1>5. /\ later.second = IF r >= 1 THEN 0 ELSE at.second + 1
      /\ later.minute = IF r >= 2 THEN 0 ELSE IF r = 1 THEN at.minute + 1 ELSE at.minute
      /\ later.hour = IF r >= 3 THEN 0 ELSE IF r = 2 THEN at.hour + 1 ELSE at.hour
      /\ later.day = IF r >= 4 THEN 1 ELSE IF r = 3 THEN at.day + 1 ELSE at.day
      /\ later.month = IF r = 5 THEN 1 ELSE IF r = 4 THEN at.month + 1 ELSE at.month
      /\ later.year = IF r = 5 THEN at.year + 1 ELSE at.year
  BY LaterIs
<1> HIDE DEF r, later, L
<1>6. later.second \in 0..59 /\ later.minute \in 0..59 /\ later.hour \in 0..23
  BY <1>1, <1>4, <1>5
<1>7. later.day \in 1..31 /\ later.month \in 1..12
  BY <1>1, <1>3, <1>4, <1>5
<1>8. later.year \in Years
  BY <1>1, <1>4, <1>5 DEF Years
<1> QED
  BY <1>6, <1>7, <1>8 DEF later

\* The fields as read_cmos has them, k registers from before and the others
\* from after.
FieldsOf(at, k, j) == IF j <= k THEN at ELSE OneLater(at)
YearSeen(at, k) == IF k >= 6 THEN at.year ELSE OneLater(at).year

\* Year and century are read one after the other, which matters when both go up.
LEMMA YearRight ==
  ASSUME NEW at \in Instants, NEW k \in 0..7,
         ~(k = 6 /\ OneLater(at).year % 100 = 0 /\ at.year # OneLater(at).year)
  PROVE  /\ (FieldsOf(at, k, 7).year \div 100) * 100 + (FieldsOf(at, k, 6).year % 100) = YearSeen(at, k)
         /\ YearSeen(at, k) \in Years
<1> DEFINE year == at.year
           following == OneLater(at).year
<1>1. year \in Years /\ following \in Years
  BY LaterRanges DEF Instants
<1>2. following = year \/ following = year + 1
  BY LaterIs
<1>3. FieldsOf(at, k, 7).year = (IF k = 7 THEN year ELSE following) /\ FieldsOf(at, k, 6).year = (IF k >= 6 THEN year ELSE following)
  BY DEF FieldsOf
<1>4. ~(k = 6 /\ following % 100 = 0 /\ year # following)
  OBVIOUS
<1>5. YearSeen(at, k) = IF k >= 6 THEN year ELSE following
  BY DEF YearSeen
<1> HIDE DEF year, following
<1>6. \A y \in Years : (y \div 100) * 100 + (y % 100) = y
  BY DEF Years
<1>7. CASE k # 6 \/ year = following
  BY <1>1, <1>3, <1>5, <1>6, <1>7
<1>8. CASE k = 6 /\ following = year + 1
  <2>1. following % 100 # 0
    BY <1>4, <1>8, <1>1 DEF Years
  <2>2. (following \div 100) = (year \div 100)
    BY <1>1, <1>8, <2>1 DEF Years
  <2> QED
    BY <1>1, <1>3, <1>5, <1>6, <1>8, <2>2
<1> QED
  BY <1>2, <1>7, <1>8

Noon(status_b, hour) == IF hour = 12 /\ ~status_b.HOURS24 THEN 12 ELSE 0

\* What read_cmos returns, from the fields it has seen.
LEMMA CmosIs ==
  ASSUME NEW at \in Instants, NEW k \in 0..7, NEW status_b \in StatusB,
         ~(k = 6 /\ OneLater(at).year % 100 = 0 /\ at.year # OneLater(at).year)
  PROVE  LET year == YearSeen(at, k)
             month == FieldsOf(at, k, 5).month
             hour == FieldsOf(at, k, 3).hour
         IN ReadCmos(status_b, ReadOneByOne(status_b, at, k))
              = (YearsBefore(year) + Extra(year)) * 86400 + MonthsBefore(year)[month] * 86400
                + (FieldsOf(at, k, 4).day - 1) * 86400
                + (hour + Noon(status_b, hour)) * 3600
                + FieldsOf(at, k, 2).minute * 60 + FieldsOf(at, k, 1).second
<1> DEFINE reg == ReadOneByOne(status_b, at, k)
           binary == status_b.BINARY
           year == YearSeen(at, k)
           month == FieldsOf(at, k, 5).month
           hour == FieldsOf(at, k, 3).hour
<1>1. /\ reg.second = Byte(binary, FieldsOf(at, k, 1).second)
      /\ reg.minute = Byte(binary, FieldsOf(at, k, 2).minute)
      /\ reg.hour = HourByte(status_b, FieldsOf(at, k, 3).hour)
      /\ reg.day = Byte(binary, FieldsOf(at, k, 4).day)
      /\ reg.month = Byte(binary, FieldsOf(at, k, 5).month)
      /\ reg.year = Byte(binary, FieldsOf(at, k, 6).year % 100)
      /\ reg.century = Byte(binary, FieldsOf(at, k, 7).year \div 100)
  BY ReadAre, RegistersAre DEF FieldsOf
<1>2. /\ FieldsOf(at, k, 1).second \in 0..59 /\ FieldsOf(at, k, 2).minute \in 0..59 /\ FieldsOf(at, k, 3).hour \in 0..23
      /\ FieldsOf(at, k, 4).day \in 1..31 /\ FieldsOf(at, k, 5).month \in 1..12
      /\ FieldsOf(at, k, 6).year \in Years /\ FieldsOf(at, k, 7).year \in Years
  BY LaterRanges DEF Instants, FieldsOf
<1>3. (FieldsOf(at, k, 7).year \div 100) \in 0..99 /\ FieldsOf(at, k, 6).year % 100 \in 0..99
  BY <1>2 DEF Years
<1> HIDE DEF reg, binary
<1>4. /\ Taken(binary, reg.second) = FieldsOf(at, k, 1).second
      /\ Taken(binary, reg.minute) = FieldsOf(at, k, 2).minute
      /\ Taken(binary, reg.day) = FieldsOf(at, k, 4).day
      /\ Taken(binary, reg.month) = month
      /\ Taken(binary, reg.year) = FieldsOf(at, k, 6).year % 100
      /\ Taken(binary, reg.century) = (FieldsOf(at, k, 7).year \div 100)
  BY <1>1, <1>2, <1>3, TakenRight
<1>5. Taken(binary, reg.century) * 100 + Taken(binary, reg.year) = year /\ year \in Years
  BY <1>4, YearRight
<1>6. HourTaken(status_b, reg.hour) = hour + Noon(status_b, hour)
  BY <1>1, <1>2, HourRight DEF Noon
<1>7. ReadCmos(status_b, reg)
        = LET y == Taken(binary, reg.century) * 100 + Taken(binary, reg.year)
          IN SecsToYear(y) + SecsToMonth(Taken(binary, reg.month), y) + (Taken(binary, reg.day) - 1) * 86400
             + HourTaken(status_b, reg.hour) * 3600
             + Taken(binary, reg.minute) * 60 + Taken(binary, reg.second)
  BY DEF ReadCmos, Taken, HourTaken, binary
<1>8. ReadCmos(status_b, reg)
        = SecsToYear(year) + SecsToMonth(month, year) + (FieldsOf(at, k, 4).day - 1) * 86400
          + (hour + Noon(status_b, hour)) * 3600
          + FieldsOf(at, k, 2).minute * 60 + FieldsOf(at, k, 1).second
  BY <1>4, <1>5, <1>6, <1>7
<1>9. SecsToMonth(month, year) = MonthsBefore(year)[month] * 86400
  <2>1. month \in 1..12 /\ year \in Years
    BY <1>2, <1>5
  <2> HIDE DEF month, year
  <2>2. Total([n \in 1..(month - 1) |-> DaysOfMonth(n, year)]) = MonthsBefore(year)[month]
    BY <2>1, MonthTotals
  <2> QED
    BY <2>2 DEF SecsToMonth
<1>10. SecsToYear(year) = (YearsBefore(year) + Extra(year)) * 86400
  BY <1>5, YearSeconds
<1> QED
  BY <1>8, <1>9, <1>10 DEF reg

LEMMA UnixIs ==
  ASSUME NEW at \in Instants
  PROVE  UnixTime(at) = (YearsBefore(at.year) + MonthsBefore(at.year)[at.month] + at.day - 1) * 86400
                        + at.hour * 3600 + at.minute * 60 + at.second
<1>1. at.year \in Years /\ at.month \in 1..12
  BY DEF Instants
<1>2. Total([y \in 1..(at.year - 1970) |-> YearLength(1969 + y)]) = YearsBefore(at.year)
  BY <1>1, YearTotals
<1>3. Total([m \in 1..(at.month - 1) |-> MonthLengths(at.year)[m]]) = MonthsBefore(at.year)[at.month]
  BY <1>1, MonthTotals
<1> QED
  BY <1>2, <1>3 DEF UnixTime

\* The theorem's claim, of any instant, format and number of registers read
\* before the chip goes on.
ReadRight(status_b, at, k) ==
  LET later == OneLater(at)
      year == IF k >= 6 THEN at.year ELSE later.year
      hour == IF k >= 3 THEN at.hour ELSE later.hour
  IN \/ k = 6 /\ later.year % 100 = 0 /\ at.year # later.year
     \/ ReadCmos(status_b, ReadOneByOne(status_b, at, k)) - UnixTime(at)
          = (IF IsLeap(year) THEN 86400 ELSE 0)
            + (IF hour = 12 /\ ~status_b.HOURS24 THEN 43200 ELSE 0)
            + (IF k = 0 THEN 1 ELSE IF k <= RolledOver(at) THEN UnitBehind(k, at) ELSE 0)

LEMMA Apart ==
  ASSUME NEW b \in Int, NEW x \in Int, NEW n \in Int, NEW dm \in Int, NEW d \in Int, NEW h \in Int,
         NEW mi \in Int, NEW s \in Int, NEW d0 \in Int, NEW h0 \in Int, NEW mi0 \in Int, NEW s0 \in Int
  PROVE  ((b + x) * 86400 + dm * 86400 + (d - 1) * 86400 + (h + n) * 3600 + mi * 60 + s)
           - ((b + dm + d0 - 1) * 86400 + h0 * 3600 + mi0 * 60 + s0)
         = x * 86400 + n * 3600 + (d - d0) * 86400 + (h - h0) * 3600 + (mi - mi0) * 60 + (s - s0)
  OBVIOUS

LEMMA DateRight ==
  ASSUME NEW at \in Instants, NEW k \in 0..7, NEW status_b \in StatusB
  PROVE  ReadRight(status_b, at, k)
<1> DEFINE later == OneLater(at)
           year == YearSeen(at, k)
           month == FieldsOf(at, k, 5).month
           hour == FieldsOf(at, k, 3).hour
           r == RolledOver(at)
           y == at.year
           m == at.month
           L == MonthLengths(y)[m]
<1> SUFFICES ASSUME ~(k = 6 /\ later.year % 100 = 0 /\ at.year # later.year)
             PROVE  ReadCmos(status_b, ReadOneByOne(status_b, at, k)) - UnixTime(at)
                      = (IF IsLeap(year) THEN 86400 ELSE 0)
                        + (IF hour = 12 /\ ~status_b.HOURS24 THEN 43200 ELSE 0)
                        + (IF k = 0 THEN 1 ELSE IF k <= r THEN UnitBehind(k, at) ELSE 0)
  BY DEF ReadRight, YearSeen, FieldsOf
<1> DEFINE read == ReadCmos(status_b, ReadOneByOne(status_b, at, k))
           unix == UnixTime(at)
           noon == Noon(status_b, hour)
           B(z) == YearsBefore(z)
           X(z) == Extra(z)
           days(z, n) == MonthsBefore(z)[n]
           day == FieldsOf(at, k, 4).day
           minute == FieldsOf(at, k, 2).minute
           second == FieldsOf(at, k, 1).second
<1>1. read = (B(year) + X(year)) * 86400 + days(year, month) * 86400 + (day - 1) * 86400
             + (hour + noon) * 3600 + minute * 60 + second
  BY CmosIs
<1>2. unix = (B(y) + days(y, m) + at.day - 1) * 86400 + at.hour * 3600 + at.minute * 60 + at.second
  BY UnixIs
<1>3. /\ at.second \in 0..59 /\ at.minute \in 0..59 /\ at.hour \in 0..23 /\ at.day \in 1..31
      /\ m \in 1..12 /\ y \in Years /\ y < 2099
  BY DEF Instants
<1>4. (IF IsLeap(year) THEN 86400 ELSE 0) = X(year) * 86400 /\ X(year) \in {0, 1}
  BY DEF Extra
<1>5. (IF hour = 12 /\ ~status_b.HOURS24 THEN 43200 ELSE 0) = noon * 3600 /\ noon \in {0, 12}
  BY DEF Noon
<1>6. /\ r \in 0..5
      /\ r >= 1 => at.second = 59
      /\ r >= 2 => at.minute = 59
      /\ r >= 3 => at.hour = 23
      /\ r >= 4 => at.day = L
      /\ r = 5 => m = 12
      /\ r = 4 => m # 12
  BY RolledAre
<1>7. /\ second = IF k >= 1 THEN at.second ELSE IF r >= 1 THEN 0 ELSE at.second + 1
      /\ minute = IF k >= 2 THEN at.minute ELSE IF r >= 2 THEN 0 ELSE IF r = 1 THEN at.minute + 1 ELSE at.minute
      /\ hour = IF k >= 3 THEN at.hour ELSE IF r >= 3 THEN 0 ELSE IF r = 2 THEN at.hour + 1 ELSE at.hour
      /\ day = IF k >= 4 THEN at.day ELSE IF r >= 4 THEN 1 ELSE IF r = 3 THEN at.day + 1 ELSE at.day
      /\ month = IF k >= 5 THEN m ELSE IF r = 5 THEN 1 ELSE IF r = 4 THEN m + 1 ELSE m
      /\ year = IF k >= 6 THEN y ELSE IF r = 5 THEN y + 1 ELSE y
  BY LaterIs DEF FieldsOf, YearSeen
<1>8. /\ B(y) \in Int /\ B(y + 1) = B(y) + 365 + X(y) /\ X(y) \in {0, 1}
      /\ days(y, m) \in Nat /\ L \in 28..31
      /\ m < 12 => days(y, m + 1) = days(y, m) + L
      /\ m = 12 => days(y, m) = 334 + X(y) /\ L = 31
  BY <1>3, YearAfter, MonthAfter
<1>9. /\ X(y + 1) \in {0, 1} /\ YearLength(y + 1) = 365 + X(y + 1)
      /\ days(y + 1, 12) = 334 + X(y + 1) /\ days(y + 1, 1) = 0
  <2>1. y + 1 \in Years /\ 12 \in 1..12 /\ 1 \in 1..12
    BY <1>3 DEF Years
  <2> HIDE DEF y
  <2> QED
    BY <2>1, YearAfter, MonthAfter
<1>10. /\ k = 1 => UnitBehind(k, at) = 60
       /\ k = 2 => UnitBehind(k, at) = 3600
       /\ k = 3 => UnitBehind(k, at) = 86400
       /\ k = 4 => UnitBehind(k, at) = L * 86400
       /\ k = 5 => UnitBehind(k, at) = (365 + X(y + 1)) * 86400
  BY <1>9 DEF UnitBehind
<1> DEFINE unit == UnitBehind(k, at)
           goal == read - unix = X(year) * 86400 + noon * 3600 + (IF k = 0 THEN 1 ELSE IF k <= r THEN unit ELSE 0)
<1> HIDE DEF later, year, month, hour, r, y, m, L, read, unix, noon, B, X, days, day, minute, second, unit
<1>11. ASSUME r < 4 PROVE goal
  <2>1. year = y /\ month = m
    BY <1>6, <1>7, <1>11
  <2>2. second \in Int /\ minute \in Int /\ hour \in Int /\ day \in Int
    BY <1>3, <1>6, <1>7
  <2>7. read - unix = X(y) * 86400 + noon * 3600 + (day - at.day) * 86400 + (hour - at.hour) * 3600
                      + (minute - at.minute) * 60 + (second - at.second)
    <3>1. at.second \in Int /\ at.minute \in Int /\ at.hour \in Int /\ at.day \in Int /\ noon \in Int
      BY <1>3, <1>5
    <3>2. B(y) \in Int /\ X(y) \in Int /\ days(y, m) \in Int
      BY <1>8
    <3> QED
      BY <1>1, <1>2, <2>1, <2>2, <3>1, <3>2, Apart
  <2>8. k = 0 \/ k = 1 \/ k = 2 \/ k = 3 \/ k > 3
    OBVIOUS
  <2>3. CASE r = 0
    BY <1>3, <1>5, <1>7, <1>8, <2>1, <2>7, <2>3 DEF unit
  <2>4. CASE r = 1
    <3>1. /\ second - at.second = IF k >= 1 THEN 0 ELSE -59
          /\ minute - at.minute = IF k >= 2 THEN 0 ELSE 1
          /\ hour - at.hour = 0 /\ day - at.day = 0
      BY <1>3, <1>6, <1>7, <2>4
    <3> QED
      BY <1>5, <1>8, <1>10, <2>1, <2>7, <2>4, <2>8, <3>1 DEF unit
  <2>5. CASE r = 2
    <3>1. /\ second - at.second = IF k >= 1 THEN 0 ELSE -59
          /\ minute - at.minute = IF k >= 2 THEN 0 ELSE -59
          /\ hour - at.hour = IF k >= 3 THEN 0 ELSE 1
          /\ day - at.day = 0
      BY <1>3, <1>6, <1>7, <2>5
    <3> QED
      BY <1>5, <1>8, <1>10, <2>1, <2>7, <2>5, <2>8, <3>1 DEF unit
  <2>6. CASE r = 3
    BY <1>3, <1>5, <1>6, <1>7, <1>8, <1>10, <2>1, <2>7, <2>6, <2>8 DEF unit
  <2> QED
    BY <1>6, <1>11, <2>3, <2>4, <2>5, <2>6
<1>12. ASSUME r = 4 PROVE goal
  BY <1>1, <1>2, <1>3, <1>5, <1>6, <1>7, <1>8, <1>10, <1>12 DEF unit
<1>13. ASSUME r = 5 PROVE goal
  <2>1. /\ at.second = 59 /\ at.minute = 59 /\ at.hour = 23 /\ at.day = 31 /\ m = 12 /\ L = 31
        /\ days(y, m) = 334 + X(y)
    BY <1>6, <1>8, <1>13
  <2>2. unix = (B(y) + 334 + X(y) + 30) * 86400 + 86399
    BY <1>2, <1>8, <2>1
  <2>3. CASE k >= 6
    <3>1. year = y /\ month = 12
      BY <1>7, <2>1, <2>3
    <3> QED
      BY <1>1, <1>5, <1>7, <1>8, <1>13, <2>1, <2>2, <2>3, <3>1
  <2>4. CASE k = 5
    <3>1. year = y + 1 /\ month = 12
      BY <1>7, <1>13, <2>1, <2>4
    <3> QED
      BY <1>1, <1>5, <1>7, <1>8, <1>9, <1>10, <1>13, <2>1, <2>2, <2>4, <3>1 DEF unit
  <2>5. CASE k <= 4
    <3>1. year = y + 1 /\ month = 1
      BY <1>7, <1>13, <2>1, <2>5
    <3> QED
      BY <1>1, <1>5, <1>7, <1>8, <1>9, <1>10, <1>13, <2>1, <2>2, <2>5, <3>1 DEF unit
  <2> QED
    BY <2>3, <2>4, <2>5
<1>14. goal
  BY <1>6, <1>11, <1>12, <1>13
<1> QED
  BY <1>4, <1>5, <1>14 DEF read, unix, noon, r, unit

\* What callers of read_cmos meet.
AskedDates ==
  call.routine = "read_cmos" =>
    call.args.at \in Instants /\ call.args.registers \in 0..7 /\ call.args.status_b \in StatusB

LEMMA DatesAsked == Spec => []AskedDates
<1>1. Init => AskedDates
  BY DEF Init, AskedDates, Idle
<1>2. AskedDates /\ [Next]_vars => AskedDates'
  <2> SUFFICES ASSUME AskedDates, [Next]_vars PROVE AskedDates'
    OBVIOUS
  <2>1. CASE AskClock
    <3>1. PICK d \in Dates, hour \in Hours, second \in {10, 59}, status_b \in StatusB, k \in 0..7 :
            Ask("read_cmos", [status_b |-> status_b, registers |-> k,
                              at |-> [year |-> d[1], month |-> d[2], day |-> d[3],
                                      hour |-> hour, minute |-> 59, second |-> second]])
      BY <2>1 DEF AskClock
    <3> DEFINE at == [year |-> d[1], month |-> d[2], day |-> d[3], hour |-> hour, minute |-> 59, second |-> second]
    <3>2. call'.args.status_b = status_b /\ call'.args.registers = k /\ call'.args.at = at
      BY <3>1 DEF Ask
    <3>3. d[1] \in Years /\ d[1] < 2099 /\ d[2] \in 1..12 /\ d[3] \in 1..MonthLengths(d[1])[d[2]] /\ hour \in 0..23
      BY DatesAssumption DEF Years
    <3>4. MonthLengths(d[1])[d[2]] \in 28..31
      BY <3>3, MonthAfter
    <3>5. d[3] \in 1..31 /\ d[3] <= MonthLengths(d[1])[d[2]]
      BY <3>3, <3>4
    <3>6. at \in Instants
      BY <3>3, <3>5 DEF Instants
    <3> QED
      BY <3>2, <3>6 DEF AskedDates
  <2>2. CASE AskCanonicize \/ AskTarfs \/ AskPrint \/ AskFormat
    <3>1. \E routine \in {"vfs_canonicize_path", "tarfs", "printf", "_vsnprintf"} : \E args : Ask(routine, args)
      BY <2>2, Zenon DEF AskCanonicize, AskTarfs, AskPrint, AskFormat
    <3>2. call'.routine \in {"vfs_canonicize_path", "tarfs", "printf", "_vsnprintf"}
      BY <3>1 DEF Ask
    <3> QED
      BY <3>2 DEF AskedDates
  <2>3. CASE Answer
    BY <2>3 DEF Answer, AskedDates, Idle
  <2>4. CASE UNCHANGED call
    BY <2>4 DEF AskedDates
  <2> QED
    BY <2>1, <2>2, <2>3, <2>4 DEF Next, vars, Write, TerminalPutchar, TerminalClear, AddOutput, LogPrintf, ListStep
<1> QED
  BY <1>1, <1>2, PTL DEF Spec

\* read_cmos reads every date from 1970 to 2098 as its time, a leap year a day
\* ahead and, in the 12 hour format, noon twelve hours; and whenever the chip
\* goes on between two registers, what is read is that of before or after, or
\* ahead by one of the first field not yet read.
THEOREM DatesRead == Spec => []ClockRight
<1>1. AskedDates => ClockRight
  <2> SUFFICES ASSUME call.routine = "read_cmos", AskedDates
               PROVE  ReadRight(call.args.status_b, call.args.at, call.args.registers)
    BY DEF ClockRight, ReadRight
  <2>1. call.args.at \in Instants /\ call.args.registers \in 0..7 /\ call.args.status_b \in StatusB
    BY DEF AskedDates
  <2> QED
    BY <2>1, DateRight
<1> QED
  BY <1>1, DatesAsked, PTL

=============================================================================
