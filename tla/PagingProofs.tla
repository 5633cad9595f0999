---------------------------- MODULE PagingProofs ----------------------------
(***************************************************************************)
(* What page faults and stores keep, for every size of a page and every    *)
(* memory, in whatever order: each page to one use, and what the kernel    *)
(* sees to AddressSpace.  BootProofs has the theorems, from the firmware   *)
(* on.                                                                     *)
(*                                                                         *)
(* The tables are a tree: a page in use has a level and one entry that     *)
(* leads to it, up from which the entries lead back to the root.  A page   *)
(* fault only adds leaves, from the front of the free list.                *)
(***************************************************************************)
EXTENDS Paging, SequenceTheorems, FiniteSetTheorems, WellFoundedInduction, TLAPS

Idx == 0..(Entries - 1)
Words == [page : Pages, present : BOOLEAN]
Memory == [Pages -> [Idx -> Words]]

\* T.used are the pages entries lead to.  T.level of one is how far it is from
\* the root, 4 for data; entry T.ix of table T.up leads to it.
Nodes(T) == T.used \cup {Root}

\* The entries X of the root are not the tree's.
TreeBut(m, T, X) ==
  /\ T.used \subseteq Pages \ {Root, Identity}
  /\ T.level \in [Nodes(T) -> 0..4] /\ T.level[Root] = 0
  /\ T.up \in [T.used -> Nodes(T)] /\ T.ix \in [T.used -> Idx]
  /\ \A t \in Nodes(T), i \in Idx :
       T.level[t] # 4 /\ m[t][i].present /\ (t = Root => i \notin X) =>
         /\ m[t][i].page \in T.used
         /\ T.up[m[t][i].page] = t /\ T.ix[m[t][i].page] = i
  /\ \A p \in T.used :
       /\ T.level[T.up[p]] # 4 /\ T.level[p] = T.level[T.up[p]] + 1
       /\ m[T.up[p]][T.ix[p]].present /\ m[T.up[p]][T.ix[p]].page = p
       /\ T.up[p] = Root => T.ix[p] \notin X
\* In the kernel: all but the one of the map of physical memory.
Tree(m, T) == TreeBut(m, T, {PhysIndex})

\* S is T with more pages.
Larger(T, S) ==
  /\ T.used \subseteq S.used
  /\ \A p \in T.used : S.level[p] = T.level[p] /\ S.up[p] = T.up[p] /\ S.ix[p] = T.ix[p]

----------------------------------------------------------------------------
(* Trees                                                                   *)

LEMMA IdxFacts == Idx \subseteq Nat /\ PhysIndex \in Nat /\ NoPage \notin Pages /\ 0 \in Idx
BY PagingAssumption DEF Idx, PhysIndex, NoPage

\* An entry of a tree's table that was not present leads to a new page, which,
\* unless it is data, has no entries present.
LEMMA AddPage ==
  ASSUME NEW m \in Memory, NEW T, NEW X, TreeBut(m, T, X),
         NEW t \in Nodes(T), T.level[t] # 4, NEW i \in Idx, ~m[t][i].present, t = Root => i \notin X,
         NEW p \in Pages, p \notin T.used, p # Root, p # Identity,
         NEW n \in Memory,
         \A q \in Pages : q # p /\ q # t => n[q] = m[q],
         \A j \in Idx : j # i => n[t][j] = m[t][j],
         n[t][i] = Entry(p),
         T.level[t] # 3 => \A j \in Idx : ~n[p][j].present
  PROVE  \E S : /\ TreeBut(n, S, X) /\ Larger(T, S) /\ S.used = T.used \cup {p}
                /\ S.level[p] = T.level[t] + 1 /\ S.up[p] = t /\ S.ix[p] = i
<1> DEFINE S == [used  |-> T.used \cup {p},
                 level |-> [q \in T.used \cup {p} \cup {Root} |-> IF q = p THEN T.level[t] + 1 ELSE T.level[q]],
                 up    |-> [q \in T.used \cup {p} |-> IF q = p THEN t ELSE T.up[q]],
                 ix    |-> [q \in T.used \cup {p} |-> IF q = p THEN i ELSE T.ix[q]]]
<1>1. /\ T.used \subseteq Pages \ {Root, Identity}
      /\ T.level \in [Nodes(T) -> 0..4] /\ T.level[Root] = 0
      /\ T.up \in [T.used -> Nodes(T)] /\ T.ix \in [T.used -> Idx]
      /\ t # p /\ t \in Pages /\ Nodes(T) \subseteq Pages /\ p \notin Nodes(T)
  BY PagingAssumption DEF TreeBut, Nodes
<1>2. n[t][i].present /\ n[t][i].page = p
  BY DEF Entry, Word
<1>3. /\ S.used = T.used \cup {p}
      /\ S.level \in [Nodes(S) -> 0..4] /\ S.level[Root] = 0
      /\ S.up \in [S.used -> Nodes(S)] /\ S.ix \in [S.used -> Idx]
      /\ S.level[p] = T.level[t] + 1 /\ S.up[p] = t /\ S.ix[p] = i
      /\ \A q \in Nodes(T) : S.level[q] = T.level[q]
      /\ \A q \in T.used : S.up[q] = T.up[q] /\ S.ix[q] = T.ix[q]
  BY <1>1 DEF Nodes
<1> HIDE DEF S
<1>4. ASSUME NEW u \in Nodes(S), NEW j \in Idx, S.level[u] # 4, n[u][j].present, u = Root => j \notin X
      PROVE  n[u][j].page \in S.used /\ S.up[n[u][j].page] = u /\ S.ix[n[u][j].page] = j
  <2>1. CASE u = p
    BY <1>1, <1>3, <1>4, <2>1
  <2>2. CASE u = t /\ j = i
    BY <1>2, <1>3, <2>2
  <2>3. CASE u # p /\ ~(u = t /\ j = i)
    <3>1. u \in Nodes(T) /\ n[u][j] = m[u][j] /\ S.level[u] = T.level[u]
      <4>1. u \in Nodes(T)
        BY <1>3, <2>3 DEF Nodes
      <4>2. n[u][j] = m[u][j]
        BY <1>1, <2>3, <4>1
      <4> QED
        BY <1>3, <4>1, <4>2
    <3>2. m[u][j].page \in T.used /\ T.up[m[u][j].page] = u /\ T.ix[m[u][j].page] = j
      BY <1>4, <3>1 DEF TreeBut
    <3> QED
      BY <1>3, <3>1, <3>2
  <2> QED
    BY <2>1, <2>2, <2>3
<1>5. ASSUME NEW q \in S.used
      PROVE  /\ S.level[S.up[q]] # 4 /\ S.level[q] = S.level[S.up[q]] + 1
             /\ n[S.up[q]][S.ix[q]].present /\ n[S.up[q]][S.ix[q]].page = q
             /\ S.up[q] = Root => S.ix[q] \notin X
  <2>1. CASE q = p
    BY <1>2, <1>3, <2>1
  <2>2. CASE q # p
    <3>1. /\ q \in T.used /\ T.up[q] \in Nodes(T) /\ T.ix[q] \in Idx
          /\ T.level[T.up[q]] # 4 /\ T.level[q] = T.level[T.up[q]] + 1
          /\ m[T.up[q]][T.ix[q]].present /\ m[T.up[q]][T.ix[q]].page = q
          /\ T.up[q] = Root => T.ix[q] \notin X
      BY <1>3, <2>2 DEF TreeBut
    <3>2. T.up[q] # p /\ T.up[q] \in Pages
      BY <1>1, <3>1
    <3>3. n[T.up[q]][T.ix[q]] = m[T.up[q]][T.ix[q]]
      BY <3>1, <3>2
    <3> QED
      BY <1>3, <3>1, <3>3 DEF Nodes
  <2> QED
    BY <2>1, <2>2
<1>6. S.used \subseteq Pages \ {Root, Identity}
  BY <1>1, <1>3
<1>7. TreeBut(n, S, X)
  BY <1>3, <1>4, <1>5, <1>6 DEF TreeBut
<1>8. Larger(T, S)
  BY <1>3 DEF Larger, Nodes
<1> QED
  BY <1>3, <1>7, <1>8

----------------------------------------------------------------------------
(* Virtual pages                                                           *)

LEMMA IndexFacts ==
  ASSUME NEW v \in Virtual, NEW k \in 1..4
  PROVE  Index(v, k) \in Idx /\ Index(v, 1) # PhysIndex
<1>1. Entries \in Nat /\ Entries > 1
  BY PagingAssumption
<1>2. v \in Nat /\ Index(v, 1) # PhysIndex
  BY DEF Virtual
<1>3. \A n \in Nat : n \div Entries \in Nat /\ n % Entries \in 0..(Entries - 1)
  BY <1>1
<1>4. Prefix(v, k) \in Nat
  <2>1. /\ v \div Entries \in Nat /\ (v \div Entries) \div Entries \in Nat
        /\ ((v \div Entries) \div Entries) \div Entries \in Nat
    BY <1>2, <1>3
  <2> QED
    BY <1>2, <2>1 DEF Prefix
<1> QED
  BY <1>2, <1>3, <1>4 DEF Index, Idx

\* The four indices tell two virtual pages apart.
LEMMA IndexUnique ==
  ASSUME NEW v \in Virtual, NEW w \in Virtual, \A k \in 1..4 : Index(v, k) = Index(w, k)
  PROVE  v = w
<1>1. Entries \in Nat /\ Entries > 1
  BY PagingAssumption
<1>2. v \in Nat /\ w \in Nat /\ Prefix(v, 1) < Entries /\ Prefix(w, 1) < Entries
  BY DEF Virtual
<1>3. \A a, b \in Nat : a \div Entries = b \div Entries /\ a % Entries = b % Entries => a = b
  BY <1>1
<1>4. \A a \in Nat : a \div Entries \in Nat /\ (a < Entries => a % Entries = a)
  BY <1>1
<1> DEFINE v3 == v \div Entries  v2 == v3 \div Entries  v1 == v2 \div Entries
           w3 == w \div Entries  w2 == w3 \div Entries  w1 == w2 \div Entries
<1>5. v3 \in Nat /\ v2 \in Nat /\ v1 \in Nat /\ w3 \in Nat /\ w2 \in Nat /\ w1 \in Nat
  BY <1>2, <1>4
<1>6. Prefix(v, 1) = v1 /\ Prefix(w, 1) = w1
  BY DEF Prefix
<1>7. /\ v1 % Entries = w1 % Entries /\ v2 % Entries = w2 % Entries
      /\ v3 % Entries = w3 % Entries /\ v % Entries = w % Entries
  <2>1. Index(v, 1) = Index(w, 1) /\ Index(v, 2) = Index(w, 2) /\ Index(v, 3) = Index(w, 3) /\ Index(v, 4) = Index(w, 4)
    OBVIOUS
  <2> QED
    BY <2>1 DEF Index, Prefix
<1> HIDE DEF v3, v2, v1, w3, w2, w1
<1>8. v1 = w1
  BY <1>2, <1>4, <1>5, <1>6, <1>7
<1>9. v2 = w2
  BY <1>3, <1>5, <1>7, <1>8 DEF v1, w1
<1>10. v3 = w3
  BY <1>3, <1>5, <1>7, <1>9 DEF v2, w2
<1> QED
  BY <1>2, <1>3, <1>7, <1>10 DEF v3, w3

----------------------------------------------------------------------------
(* Ways from the root                                                      *)

\* The first k indices of v lead to p.
Way(T, v, k, p) ==
  \E f \in [0..k -> Pages] :
    /\ f[0] = Root /\ f[k] = p
    /\ \A j \in 1..k : f[j] \in T.used /\ T.up[f[j]] = f[j - 1] /\ T.ix[f[j]] = Index(v, j)

LEMMA WayRoot == ASSUME NEW T, NEW v PROVE Way(T, v, 0, Root) /\ \A p : Way(T, v, 0, p) => p = Root
<1> DEFINE f == [j \in 0..0 |-> Root]
<1>1. f \in [0..0 -> Pages] /\ f[0] = Root
  BY PagingAssumption
<1>2. \A j \in 1..0 : f[j] \in T.used /\ T.up[f[j]] = f[j - 1] /\ T.ix[f[j]] = Index(v, j)
  OBVIOUS
<1>3. Way(T, v, 0, Root)
  BY <1>1, <1>2 DEF Way
<1> QED
  BY <1>3 DEF Way

LEMMA WayStep ==
  ASSUME NEW T, NEW v, NEW k \in 0..3, NEW t, Way(T, v, k, t),
         NEW p \in Pages, p \in T.used, T.up[p] = t, T.ix[p] = Index(v, k + 1)
  PROVE  Way(T, v, k + 1, p)
<1>1. PICK f \in [0..k -> Pages] :
        /\ f[0] = Root /\ f[k] = t
        /\ \A j \in 1..k : f[j] \in T.used /\ T.up[f[j]] = f[j - 1] /\ T.ix[f[j]] = Index(v, j)
  BY DEF Way
<1> DEFINE g == [j \in 0..(k + 1) |-> IF j = k + 1 THEN p ELSE f[j]]
<1>2. g \in [0..(k + 1) -> Pages]
  BY <1>1
<1>3. g[0] = Root /\ g[k + 1] = p
  BY <1>1
<1>4. ASSUME NEW j \in 1..(k + 1)
      PROVE  g[j] \in T.used /\ T.up[g[j]] = g[j - 1] /\ T.ix[g[j]] = Index(v, j)
  <2>1. CASE j = k + 1
    <3>1. g[j] = p /\ g[j - 1] = t
      BY <1>1, <2>1
    <3> QED
      BY <2>1, <3>1
  <2>2. CASE j # k + 1
    <3>1. j \in 1..k /\ g[j] = f[j] /\ g[j - 1] = f[j - 1]
      BY <2>2
    <3> QED
      BY <1>1, <3>1
  <2> QED
    BY <2>1, <2>2
<1> HIDE DEF g
<1> QED
  BY <1>2, <1>3, <1>4 DEF Way

\* A way of k + 1 indices is one of k and a step.
LEMMA WayInit ==
  ASSUME NEW T, NEW v, NEW k \in 0..3, NEW p, Way(T, v, k + 1, p)
  PROVE  p \in T.used /\ Way(T, v, k, T.up[p]) /\ T.ix[p] = Index(v, k + 1)
<1>1. PICK f \in [0..(k + 1) -> Pages] :
        /\ f[0] = Root /\ f[k + 1] = p
        /\ \A j \in 1..(k + 1) : f[j] \in T.used /\ T.up[f[j]] = f[j - 1] /\ T.ix[f[j]] = Index(v, j)
  BY DEF Way
<1>2. p \in T.used /\ T.up[p] = f[k] /\ T.ix[p] = Index(v, k + 1)
  BY <1>1
<1> DEFINE g == [j \in 0..k |-> f[j]]
<1>3. g \in [0..k -> Pages] /\ g[0] = Root /\ g[k] = f[k]
  BY <1>1
<1>4. ASSUME NEW j \in 1..k
      PROVE  g[j] \in T.used /\ T.up[g[j]] = g[j - 1] /\ T.ix[g[j]] = Index(v, j)
  <2>1. j \in 1..(k + 1) /\ g[j] = f[j] /\ g[j - 1] = f[j - 1]
    OBVIOUS
  <2> QED
    BY <1>1, <2>1
<1> HIDE DEF g
<1>5. Way(T, v, k, f[k])
  BY <1>3, <1>4 DEF Way
<1> QED
  BY <1>2, <1>5

\* The same, said of the longer way.
LEMMA WayBack ==
  ASSUME NEW T, NEW v, NEW j \in 1..4, NEW p, Way(T, v, j, p)
  PROVE  p \in T.used /\ Way(T, v, j - 1, T.up[p]) /\ T.ix[p] = Index(v, j)
<1>1. PICK k \in 0..3 : j = k + 1
  <2>1. j - 1 \in 0..3 /\ j = (j - 1) + 1
    OBVIOUS
  <2> QED
    BY <2>1
<1>2. Way(T, v, k + 1, p) /\ j - 1 = k
  BY <1>1
<1> QED
  BY <1>1, <1>2, WayInit

LEMMA WayNode ==
  ASSUME NEW m, NEW T, NEW X, TreeBut(m, T, X), NEW v, NEW k \in 0..4, NEW p, Way(T, v, k, p)
  PROVE  p \in Nodes(T) /\ T.level[p] = k /\ (k > 0 => p \in T.used)
<1>1. /\ T.level[Root] = 0
      /\ \A q \in T.used : T.level[q] = T.level[T.up[q]] + 1
  BY DEF TreeBut
<1>2. \A q : Way(T, v, 0, q) => q \in Nodes(T) /\ T.level[q] = 0
  BY <1>1, WayRoot DEF Nodes
<1>3. ASSUME NEW j \in 0..3, \A q : Way(T, v, j, q) => q \in Nodes(T) /\ T.level[q] = j
      PROVE  \A q : Way(T, v, j + 1, q) => q \in Nodes(T) /\ T.level[q] = j + 1
  <2> TAKE q
  <2> HAVE Way(T, v, j + 1, q)
  <2>1. q \in T.used /\ Way(T, v, j, T.up[q])
    BY WayInit
  <2> QED
    BY <1>1, <1>3, <2>1 DEF Nodes
<1>4. \A q : Way(T, v, 1, q) => q \in Nodes(T) /\ T.level[q] = 1
  BY <1>2, <1>3
<1>5. \A q : Way(T, v, 2, q) => q \in Nodes(T) /\ T.level[q] = 2
  BY <1>3, <1>4
<1>6. \A q : Way(T, v, 3, q) => q \in Nodes(T) /\ T.level[q] = 3
  BY <1>3, <1>5
<1>7. \A q : Way(T, v, 4, q) => q \in Nodes(T) /\ T.level[q] = 4
  BY <1>3, <1>6
<1>8. k > 0 => p \in T.used
  <2> SUFFICES ASSUME k > 0 PROVE p \in T.used
    OBVIOUS
  <2>1. PICK j \in 0..3 : k = j + 1
    <3>1. k - 1 \in 0..3 /\ k = (k - 1) + 1
      OBVIOUS
    <3> QED
      BY <3>1
  <2>2. Way(T, v, j + 1, p)
    BY <2>1
  <2> QED
    BY <2>2, WayInit
<1> QED
  BY <1>2, <1>4, <1>5, <1>6, <1>7, <1>8

LEMMA WayTable ==
  ASSUME NEW m, NEW T, NEW X, TreeBut(m, T, X), NEW v, NEW p, Way(T, v, 3, p)
  PROVE  p \in Nodes(T) /\ T.level[p] = 3
<1>1. 3 \in 0..4
  OBVIOUS
<1> QED
  BY <1>1, WayNode

\* A virtual page has one way, as far as it goes.
LEMMA WayOne ==
  ASSUME NEW m, NEW T, NEW X, TreeBut(m, T, X), NEW v, NEW k \in 0..4, NEW p, NEW q, Way(T, v, k, p), Way(T, v, k, q)
  PROVE  p = q
<1>1. ASSUME NEW a \in T.used, NEW b \in T.used, T.up[a] = T.up[b], T.ix[a] = T.ix[b] PROVE a = b
  BY <1>1 DEF TreeBut
<1> DEFINE One(j) == \A a, b : Way(T, v, j, a) /\ Way(T, v, j, b) => a = b
<1>2. One(0)
  BY WayRoot
<1>3. ASSUME NEW j \in 0..3, One(j) PROVE One(j + 1)
  <2>0. \A a : Way(T, v, j + 1, a) => a \in T.used /\ Way(T, v, j, T.up[a]) /\ T.ix[a] = Index(v, j + 1)
    BY WayInit
  <2> SUFFICES ASSUME NEW a, NEW b, Way(T, v, j + 1, a), Way(T, v, j + 1, b) PROVE a = b
    OBVIOUS
  <2>1. T.up[a] = T.up[b]
    BY <1>3, <2>0
  <2> QED
    BY <1>1, <2>0, <2>1
<1> HIDE DEF One
<1>4. One(1)
  BY <1>2, <1>3
<1>5. One(2)
  BY <1>3, <1>4
<1>6. One(3)
  BY <1>3, <1>5
<1>7. One(4)
  BY <1>3, <1>6
<1>8. One(k)
  BY <1>2, <1>4, <1>5, <1>6, <1>7
<1> QED
  BY <1>8 DEF One

\* The entries up from a page are the indices of the virtual page.
LEMMA WayIndices ==
  ASSUME NEW T, NEW v, NEW p, Way(T, v, 4, p)
  PROVE  /\ T.ix[p] = Index(v, 4) /\ T.ix[T.up[p]] = Index(v, 3)
         /\ T.ix[T.up[T.up[p]]] = Index(v, 2) /\ T.ix[T.up[T.up[T.up[p]]]] = Index(v, 1)
<1>1. ASSUME NEW k \in 0..3, NEW q, Way(T, v, k + 1, q)
      PROVE  Way(T, v, k, T.up[q]) /\ T.ix[q] = Index(v, k + 1)
  BY <1>1, WayInit
<1> DEFINE t3 == T.up[p]  t2 == T.up[t3]  t1 == T.up[t2]
<1>2. T.ix[p] = Index(v, 4) /\ Way(T, v, 3, t3)
  BY <1>1
<1>3. T.ix[t3] = Index(v, 3) /\ Way(T, v, 2, t2)
  BY <1>1, <1>2
<1>4. T.ix[t2] = Index(v, 2) /\ Way(T, v, 1, t1)
  BY <1>1, <1>3
<1>5. T.ix[t1] = Index(v, 1)
  BY <1>1, <1>4
<1> QED
  BY <1>2, <1>3, <1>4, <1>5

\* A page has one way.
LEMMA WayUnique ==
  ASSUME NEW T, NEW p, NEW v \in Virtual, NEW w \in Virtual, Way(T, v, 4, p), Way(T, w, 4, p)
  PROVE  v = w
<1>1. /\ T.ix[p] = Index(v, 4) /\ T.ix[T.up[p]] = Index(v, 3)
      /\ T.ix[T.up[T.up[p]]] = Index(v, 2) /\ T.ix[T.up[T.up[T.up[p]]]] = Index(v, 1)
  BY WayIndices
<1>2. /\ T.ix[p] = Index(w, 4) /\ T.ix[T.up[p]] = Index(w, 3)
      /\ T.ix[T.up[T.up[p]]] = Index(w, 2) /\ T.ix[T.up[T.up[T.up[p]]]] = Index(w, 1)
  BY WayIndices
<1>3. \A k \in 1..4 : Index(v, k) = Index(w, k)
  BY <1>1, <1>2
<1> QED
  BY <1>3, IndexUnique

\* A larger tree has the ways of a smaller one, and no other to its pages.
LEMMA WayLarger ==
  ASSUME NEW T, NEW S, Larger(T, S), NEW v, NEW k \in 0..4, NEW p, Way(T, v, k, p)
  PROVE  Way(S, v, k, p)
<1>1. PICK f \in [0..k -> Pages] :
        /\ f[0] = Root /\ f[k] = p
        /\ \A j \in 1..k : f[j] \in T.used /\ T.up[f[j]] = f[j - 1] /\ T.ix[f[j]] = Index(v, j)
  BY DEF Way
<1>2. \A j \in 1..k : f[j] \in S.used /\ S.up[f[j]] = f[j - 1] /\ S.ix[f[j]] = Index(v, j)
  BY <1>1 DEF Larger
<1> QED
  BY <1>1, <1>2 DEF Way

\* A larger tree has no other way to a page of the smaller one.
LEMMA WayWithin ==
  ASSUME NEW m, NEW T, NEW X, TreeBut(m, T, X), NEW n, NEW S, TreeBut(n, S, X), Larger(T, S),
         NEW v, NEW k \in 0..4, NEW p \in Nodes(T), Way(S, v, k, p)
  PROVE  Way(T, v, k, p)
<1>1. /\ T.up \in [T.used -> Nodes(T)] /\ T.used \subseteq Pages /\ Root \notin S.used
  BY DEF TreeBut
<1> DEFINE Within(j) == \A q \in Nodes(T) : Way(S, v, j, q) => Way(T, v, j, q)
<1>2. Within(0)
  BY WayRoot
<1>3. ASSUME NEW j \in 0..3, Within(j) PROVE Within(j + 1)
  <2> SUFFICES ASSUME NEW q \in Nodes(T), Way(S, v, j + 1, q) PROVE Way(T, v, j + 1, q)
    OBVIOUS
  <2>1. q \in S.used /\ Way(S, v, j, S.up[q]) /\ S.ix[q] = Index(v, j + 1)
    BY WayInit
  <2>2. q \in T.used
    BY <1>1, <2>1 DEF Nodes
  <2>3. T.up[q] = S.up[q] /\ T.ix[q] = S.ix[q] /\ T.up[q] \in Nodes(T)
    BY <1>1, <2>2 DEF Larger
  <2>4. Way(T, v, j, T.up[q])
    BY <1>3, <2>1, <2>3
  <2> QED
    BY <1>1, <2>1, <2>2, <2>3, <2>4, WayStep
<1>4. Within(1)
  BY <1>2, <1>3
<1> HIDE DEF Within
<1>5. Within(2) /\ Within(3) /\ Within(4)
  <2>1. Within(2)
    BY <1>3, <1>4
  <2>2. Within(3)
    BY <1>3, <2>1
  <2> QED
    BY <1>3, <2>1, <2>2
<1> QED
  BY <1>2, <1>4, <1>5 DEF Within

LEMMA WaySmaller ==
  ASSUME NEW m, NEW T, NEW X, TreeBut(m, T, X), NEW n, NEW S, TreeBut(n, S, X), Larger(T, S),
         NEW v, NEW p \in T.used, Way(S, v, 4, p)
  PROVE  Way(T, v, 4, p)
<1>1. p \in Nodes(T) /\ 4 \in 0..4
  BY DEF Nodes
<1> QED
  BY <1>1, WayWithin

----------------------------------------------------------------------------
(* Tables that are there and tables that are missing                       *)

\* Two virtual pages have the first k indices in common if one number is the
\* same for both.
LEMMA PrefixSame ==
  ASSUME NEW v \in Virtual, NEW w \in Virtual, NEW k \in 1..3
  PROVE  Prefix(v, k) = Prefix(w, k) <=> \A j \in 1..k : Index(v, j) = Index(w, j)
<1>1. Entries \in Nat /\ Entries > 1
  BY PagingAssumption
<1>2. ASSUME NEW u \in Virtual
      PROVE  /\ \A j \in 1..3 : Prefix(u, j) \in Nat
             /\ Prefix(u, 1) = Prefix(u, 2) \div Entries /\ Prefix(u, 2) = Prefix(u, 3) \div Entries
             /\ Index(u, 1) = Prefix(u, 1)
  <2>1. u \in Nat /\ Prefix(u, 1) < Entries
    BY DEF Virtual
  <2>2. \A n \in Nat : n \div Entries \in Nat /\ (n < Entries => n % Entries = n)
    BY <1>1
  <2> DEFINE u3 == u \div Entries  u2 == u3 \div Entries  u1 == u2 \div Entries
  <2>3. u3 \in Nat /\ u2 \in Nat /\ u1 \in Nat
    BY <2>1, <2>2
  <2>4. Prefix(u, 3) = u3 /\ Prefix(u, 2) = u2 /\ Prefix(u, 1) = u1
    BY DEF Prefix
  <2>5. u1 = u2 \div Entries /\ u2 = u3 \div Entries
    OBVIOUS
  <2> HIDE DEF u3, u2, u1
  <2>6. \A j \in 1..3 : j = 1 \/ j = 2 \/ j = 3
    OBVIOUS
  <2> QED
    BY <2>1, <2>2, <2>3, <2>4, <2>5, <2>6 DEF Index
<1>3. \A a, b \in Nat : a \div Entries = b \div Entries /\ a % Entries = b % Entries => a = b
  BY <1>1
<1> DEFINE Same(j) == Prefix(v, j) = Prefix(w, j)
           Equal(j) == Index(v, j) = Index(w, j)
<1>4. Same(1) <=> Equal(1)
  BY <1>2
<1>5. (Same(2) <=> Same(1) /\ Equal(2)) /\ (Same(3) <=> Same(2) /\ Equal(3))
  <2>1. /\ Prefix(v, 2) \in Nat /\ Prefix(w, 2) \in Nat /\ Prefix(v, 3) \in Nat /\ Prefix(w, 3) \in Nat
        /\ Prefix(v, 1) = Prefix(v, 2) \div Entries /\ Prefix(v, 2) = Prefix(v, 3) \div Entries
        /\ Prefix(w, 1) = Prefix(w, 2) \div Entries /\ Prefix(w, 2) = Prefix(w, 3) \div Entries
    BY <1>2
  <2>2. /\ Index(v, 2) = Prefix(v, 2) % Entries /\ Index(w, 2) = Prefix(w, 2) % Entries
        /\ Index(v, 3) = Prefix(v, 3) % Entries /\ Index(w, 3) = Prefix(w, 3) % Entries
    BY DEF Index
  <2>3. Same(2) <=> Same(1) /\ Equal(2)
    BY <1>3, <2>1, <2>2
  <2>4. Same(3) <=> Same(2) /\ Equal(3)
    BY <1>3, <2>1, <2>2
  <2> QED
    BY <2>3, <2>4
<1> HIDE DEF Same, Equal
<1>6. CASE k = 1
  <2>1. Same(1) <=> \A j \in 1..1 : Equal(j)
    BY <1>4
  <2> QED
    BY <1>6, <2>1 DEF Same, Equal
<1>7. CASE k = 2
  <2>1. \A j \in 1..2 : j = 1 \/ j = 2
    OBVIOUS
  <2>2. Same(2) <=> \A j \in 1..2 : Equal(j)
    BY <1>4, <1>5, <2>1
  <2> QED
    BY <1>7, <2>2 DEF Same, Equal
<1>8. CASE k = 3
  <2>1. \A j \in 1..3 : j = 1 \/ j = 2 \/ j = 3
    OBVIOUS
  <2>2. Same(3) <=> \A j \in 1..3 : Equal(j)
    BY <1>4, <1>5, <2>1
  <2> QED
    BY <1>8, <2>2 DEF Same, Equal
<1> QED
  BY <1>6, <1>7, <1>8

\* Then, and only then, they share the way so far.
LEMMA WayAlike ==
  ASSUME NEW T, NEW v \in Virtual, NEW w \in Virtual, NEW k \in 1..3, NEW p, Way(T, v, k, p)
  PROVE  Way(T, w, k, p) <=> Prefix(v, k) = Prefix(w, k)
<1> DEFINE Equal(j) == \A i \in 1..j : Index(v, i) = Index(w, i)
           Meet(j) == \A q : Way(T, v, j, q) /\ Way(T, w, j, q) => Equal(j)
<1>1. Meet(0)
  OBVIOUS
<1>2. ASSUME NEW j \in 0..3, Meet(j) PROVE Meet(j + 1)
  <2> SUFFICES ASSUME NEW q, Way(T, v, j + 1, q), Way(T, w, j + 1, q) PROVE Equal(j + 1)
    OBVIOUS
  <2>1. Way(T, v, j, T.up[q]) /\ T.ix[q] = Index(v, j + 1)
    BY WayInit
  <2>2. Way(T, w, j, T.up[q]) /\ T.ix[q] = Index(w, j + 1)
    BY WayInit
  <2>3. Equal(j) /\ \A i \in 1..(j + 1) : i \in 1..j \/ i = j + 1
    BY <1>2, <2>1, <2>2
  <2> QED
    BY <2>1, <2>2, <2>3
<1> HIDE DEF Meet
<1>3. Meet(1)
  BY <1>1, <1>2
<1>4. Meet(2)
  BY <1>2, <1>3
<1>5. Meet(3)
  BY <1>2, <1>4
<1>6. Meet(k)
  BY <1>3, <1>4, <1>5
<1>7. Equal(k) => Way(T, w, k, p)
  BY DEF Way
<1>8. Prefix(v, k) = Prefix(w, k) <=> Equal(k)
  BY PrefixSame
<1> QED
  BY <1>6, <1>7, <1>8 DEF Meet

\* The tables on the ways of the pages V that T lacks.
Has(T, v, k) == \E p : Way(T, v, k, p)
Lacks(T, V) == UNION {{<<k, Prefix(v, k)>> : v \in {w \in V : ~Has(T, w, k)}} : k \in 1..3}

LEMMA LacksIs ==
  ASSUME NEW T, NEW V
  PROVE  \A x : x \in Lacks(T, V) <=> \E k \in 1..3, v \in V : ~Has(T, v, k) /\ x = <<k, Prefix(v, k)>>
BY DEF Lacks

LEMMA LacksFinite ==
  ASSUME NEW T, NEW V, IsFiniteSet(V)
  PROVE  IsFiniteSet(Lacks(T, V)) /\ Cardinality(Lacks(T, V)) \in Nat
<1> DEFINE D == (1..3) \X V
           f == [x \in D |-> <<x[1], Prefix(x[2], x[1])>>]
           R == {f[x] : x \in D}
<1>1. IsFiniteSet(D)
  <2>1. IsFiniteSet(1..3)
    <3>1. 1 \in Int /\ 3 \in Int
      OBVIOUS
    <3> QED
      BY <3>1, FS_Interval
  <2> QED
    BY <2>1, FS_Product
<1>2. f \in Surjection(D, R)
  BY DEF Surjection
<1>3. IsFiniteSet(R)
  <2> HIDE DEF D, R, f
  <2> QED
    BY <1>1, <1>2, FS_Surjection DEF ExistsSurjection
<1>4. ASSUME NEW y \in Lacks(T, V) PROVE y \in R
  <2>1. PICK k \in 1..3, v \in V : y = <<k, Prefix(v, k)>>
    BY LacksIs
  <2>2. <<k, v>> \in D /\ f[<<k, v>>] = y
    BY <2>1
  <2> HIDE DEF D, f
  <2> QED
    BY <2>2
<1>5. IsFiniteSet(Lacks(T, V))
  <2> HIDE DEF R
  <2> QED
    BY <1>3, <1>4, FS_Subset
<1> QED
  BY <1>5, FS_CardinalityType

\* A way has all tables above its end.
LEMMA HasAbove ==
  ASSUME NEW T, NEW v, NEW p, Way(T, v, 3, p)
  PROVE  Has(T, v, 1) /\ Has(T, v, 2) /\ Has(T, v, 3)
<1>1. ASSUME NEW k \in 0..3, NEW q, Way(T, v, k + 1, q) PROVE Way(T, v, k, T.up[q])
  BY <1>1, WayInit
<1>2. Way(T, v, 2 + 1, p) /\ 2 \in 0..3 /\ 1 \in 0..3
  OBVIOUS
<1>3. Way(T, v, 2, T.up[p])
  BY <1>1, <1>2
<1>4. Way(T, v, 1 + 1, T.up[p])
  BY <1>3
<1>5. Way(T, v, 1, T.up[T.up[p]])
  BY <1>1, <1>2, <1>4
<1> QED
  BY <1>3, <1>5 DEF Has

\* A new table of level k + 1 on the way of v is one that lacked, and serves all
\* pages with the same number there.
LEMMA LacksOneLess ==
  ASSUME NEW m, NEW T, NEW X, TreeBut(m, T, X), NEW n, NEW S, TreeBut(n, S, X), Larger(T, S),
         NEW k \in 0..2, NEW v \in Virtual, NEW t, Way(T, v, k, t),
         \A q \in T.used : ~(T.up[q] = t /\ T.ix[q] = Index(v, k + 1)),
         NEW p \in Pages, p \notin T.used, S.used = T.used \cup {p},
         S.level[p] = k + 1, S.up[p] = t, S.ix[p] = Index(v, k + 1),
         NEW V, V \subseteq Virtual, v \in V, IsFiniteSet(V)
  PROVE  Cardinality(Lacks(T, V)) = Cardinality(Lacks(S, V)) + 1
<1> DEFINE key == <<k + 1, Prefix(v, k + 1)>>
<1>1. ~Has(T, v, k + 1)
  <2> SUFFICES ASSUME NEW q, Way(T, v, k + 1, q) PROVE FALSE
    BY DEF Has
  <2>1. k \in 0..3
    OBVIOUS
  <2>2. q \in T.used /\ Way(T, v, k, T.up[q]) /\ T.ix[q] = Index(v, k + 1)
    BY <2>1, WayInit
  <2>3. T.up[q] = t
    <3>1. Way(T, v, k, T.up[q]) /\ Way(T, v, k, t)
      BY <2>2
    <3> QED
      BY <2>1, <3>1, WayOne
  <2> QED
    BY <2>2, <2>3
<1>2. Way(S, v, k + 1, p)
  <2>1. k \in 0..4 /\ k \in 0..3 /\ p \in S.used
    OBVIOUS
  <2>2. Way(S, v, k, t)
    BY <2>1, WayLarger
  <2> QED
    BY <2>1, <2>2, WayStep
<1>3. ASSUME NEW w \in V, NEW j \in 1..3
      PROVE  Has(S, w, j) <=> Has(T, w, j) \/ <<j, Prefix(w, j)>> = key
  <2>0. j \in 0..4 /\ w \in Virtual /\ k + 1 \in 1..3
    OBVIOUS
  <2>1. Has(T, w, j) => Has(S, w, j)
    BY <2>0, WayLarger DEF Has
  <2>2. ASSUME <<j, Prefix(w, j)>> = key PROVE Has(S, w, j)
    <3>1. j = k + 1 /\ Prefix(v, j) = Prefix(w, j)
      BY <2>2
    <3>2. Way(S, v, j, p)
      BY <1>2, <3>1
    <3> QED
      BY <2>0, <3>1, <3>2, WayAlike DEF Has
  <2>3. ASSUME NEW q, Way(S, w, j, q) PROVE Has(T, w, j) \/ <<j, Prefix(w, j)>> = key
    <3>1. q \in S.used /\ S.level[q] = j
      BY <2>0, <2>3, WayNode
    <3>2. CASE q \in T.used
      <4>1. q \in Nodes(T)
        BY <3>2 DEF Nodes
      <4> QED
        BY <2>0, <2>3, <4>1, WayWithin DEF Has
    <3>3. CASE q = p
      <4>1. j = k + 1
        BY <3>1, <3>3
      <4>2. Way(S, v, j, p) /\ Way(S, w, j, p)
        BY <1>2, <2>3, <3>3, <4>1
      <4>3. Prefix(v, j) = Prefix(w, j)
        BY <2>0, <4>2, WayAlike
      <4> QED
        BY <4>1, <4>3
    <3> QED
      BY <3>1, <3>2, <3>3
  <2> QED
    BY <2>1, <2>2, <2>3 DEF Has
<1> HIDE DEF key
<1>4. Lacks(S, V) = Lacks(T, V) \ {key}
  <2>1. \A x : x \in Lacks(T, V) <=> \E j \in 1..3, w \in V : ~Has(T, w, j) /\ x = <<j, Prefix(w, j)>>
    BY LacksIs
  <2>2. \A x : x \in Lacks(S, V) <=> \E j \in 1..3, w \in V : ~Has(S, w, j) /\ x = <<j, Prefix(w, j)>>
    BY LacksIs
  <2>3. \A x : x \in Lacks(S, V) <=> x \in Lacks(T, V) /\ x # key
    BY <1>3, <2>1, <2>2
  <2> QED
    BY <2>3
<1>5. key \in Lacks(T, V)
  <2>1. k + 1 \in 1..3
    OBVIOUS
  <2> QED
    BY <1>1, <2>1, LacksIs DEF key
<1>6. IsFiniteSet(Lacks(T, V)) /\ Cardinality(Lacks(T, V)) \in Nat
  BY LacksFinite
<1>7. Cardinality(Lacks(T, V) \ {key}) = Cardinality(Lacks(T, V)) - 1
  BY <1>5, <1>6, FS_RemoveElement
<1> QED
  BY <1>4, <1>6, <1>7

\* A new page of data is no table.
LEMMA LacksSame ==
  ASSUME NEW m, NEW T, NEW X, TreeBut(m, T, X), NEW n, NEW S, TreeBut(n, S, X), Larger(T, S),
         NEW p, S.used = T.used \cup {p}, S.level[p] = 4, NEW V
  PROVE  Lacks(S, V) = Lacks(T, V)
<1>1. ASSUME NEW w \in V, NEW j \in 1..3 PROVE Has(S, w, j) <=> Has(T, w, j)
  <2>0. j \in 0..4
    OBVIOUS
  <2>1. Has(T, w, j) => Has(S, w, j)
    BY <2>0, WayLarger DEF Has
  <2>2. ASSUME NEW q, Way(S, w, j, q) PROVE Has(T, w, j)
    <3>1. q \in S.used /\ S.level[q] = j
      BY <2>0, <2>2, WayNode
    <3>2. q \in Nodes(T)
      BY <3>1 DEF Nodes
    <3> QED
      BY <2>0, <2>2, <3>2, WayWithin DEF Has
  <2> QED
    BY <2>1, <2>2 DEF Has
<1>2. \A x : x \in Lacks(T, V) <=> \E j \in 1..3, w \in V : ~Has(T, w, j) /\ x = <<j, Prefix(w, j)>>
  BY LacksIs
<1>3. \A x : x \in Lacks(S, V) <=> \E j \in 1..3, w \in V : ~Has(S, w, j) /\ x = <<j, Prefix(w, j)>>
  BY LacksIs
<1>4. \A x : x \in Lacks(S, V) <=> x \in Lacks(T, V)
  BY <1>1, <1>2, <1>3
<1> QED
  BY <1>4

\* A tree made of T by c pages has a table for each of them that T lacked.
Counted(T, S, c, v) ==
  \A V \in SUBSET Virtual :
    IsFiniteSet(V) /\ v \in V => Cardinality(Lacks(T, V)) = Cardinality(Lacks(S, V)) + c

----------------------------------------------------------------------------
(* The CPU's walk                                                          *)

\* One step of it, in a tree.
LEMMA FollowIs ==
  ASSUME NEW T, NEW X, TreeBut(mem, T, X), NEW t \in Nodes(T), T.level[t] # 4, NEW i \in Idx, t = Root => i \notin X
  PROVE  /\ Follow(t, i) # NoPage =>
              Follow(t, i) \in T.used /\ T.up[Follow(t, i)] = t /\ T.ix[Follow(t, i)] = i
         /\ \A p \in T.used : T.up[p] = t /\ T.ix[p] = i => Follow(t, i) = p
         /\ Follow(t, i) = NoPage => ~mem[t][i].present
<1>1. Nodes(T) \subseteq Pages /\ NoPage \notin Pages
  BY PagingAssumption, IdxFacts DEF TreeBut, Nodes
<1>2. t # NoPage
  BY <1>1
<1>3. CASE mem[t][i].present
  <2>1. mem[t][i].page \in T.used /\ T.up[mem[t][i].page] = t /\ T.ix[mem[t][i].page] = i
    BY <1>3 DEF TreeBut
  <2>2. Follow(t, i) = mem[t][i].page /\ Follow(t, i) # NoPage
    BY <1>1, <1>2, <1>3, <2>1 DEF Follow, Nodes
  <2>3. \A p \in T.used : T.up[p] = t /\ T.ix[p] = i => mem[t][i].page = p
    BY DEF TreeBut
  <2> QED
    BY <2>1, <2>2, <2>3
<1>4. CASE ~mem[t][i].present
  <2>1. Follow(t, i) = NoPage
    BY <1>4 DEF Follow
  <2>2. \A p \in T.used : T.up[p] = t /\ T.ix[p] = i => mem[t][i].present
    BY DEF TreeBut
  <2> QED
    BY <1>4, <2>1, <2>2
<1> QED
  BY <1>3, <1>4

\* Where the walk comes to is where the indices lead.
LEMMA ReachedIs ==
  ASSUME NEW T, NEW X, TreeBut(mem, T, X), NEW v \in Virtual, Index(v, 1) \notin X, NEW k \in 1..4
  PROVE  /\ Reached(v, k) # NoPage => Way(T, v, k, Reached(v, k))
         /\ \A p : Way(T, v, k, p) => Reached(v, k) = p /\ p # NoPage
<1>0. \A j \in 1..4 : \A p : Way(T, v, j, p) => p \in T.used /\ Way(T, v, j - 1, T.up[p]) /\ T.ix[p] = Index(v, j)
  BY WayBack
<1> DEFINE At(j) == IF j = 0 THEN Root ELSE Reached(v, j)
<1>1. Nodes(T) \subseteq Pages /\ NoPage \notin Pages /\ Root \in Pages
  BY PagingAssumption, IdxFacts DEF TreeBut, Nodes
<1>2. ASSUME NEW j \in 0..3 PROVE At(j + 1) = Follow(At(j), Index(v, j + 1))
  BY DEF Reached
<1> HIDE DEF At
<1>3. ASSUME NEW j \in 0..3,
             At(j) # NoPage => Way(T, v, j, At(j)),
             \A p : Way(T, v, j, p) => At(j) = p
      PROVE  /\ At(j + 1) # NoPage => Way(T, v, j + 1, At(j + 1))
             /\ \A p : Way(T, v, j + 1, p) => At(j + 1) = p
  <2>1. Index(v, j + 1) \in Idx
    BY IndexFacts
  <2>2. ASSUME At(j) # NoPage
        PROVE  At(j) \in Nodes(T) /\ T.level[At(j)] # 4 /\ (At(j) = Root => Index(v, j + 1) \notin X)
    <3>1. At(j) \in Nodes(T) /\ T.level[At(j)] = j
      BY <1>3, <2>2, WayNode
    <3>2. At(j) = Root => j = 0
      BY <3>1 DEF TreeBut
    <3> QED
      BY <3>1, <3>2, IndexFacts
  <2>3. ASSUME At(j + 1) # NoPage PROVE Way(T, v, j + 1, At(j + 1))
    <3>1. At(j) # NoPage
      BY <1>2, <2>3 DEF Follow
    <3>2. At(j + 1) \in T.used /\ T.up[At(j + 1)] = At(j) /\ T.ix[At(j + 1)] = Index(v, j + 1)
      BY <1>2, <2>1, <2>2, <2>3, <3>1, FollowIs
    <3> QED
      BY <1>1, <1>3, <3>1, <3>2, WayStep DEF Nodes
  <2>4. ASSUME NEW p, Way(T, v, j + 1, p) PROVE At(j + 1) = p
    <3>1. p \in T.used /\ Way(T, v, j, T.up[p]) /\ T.ix[p] = Index(v, j + 1)
      <4>1. j + 1 \in 1..4 /\ (j + 1) - 1 = j
        OBVIOUS
      <4> QED
        BY <1>0, <2>4, <4>1
    <3>2. At(j) = T.up[p]
      BY <1>3, <3>1
    <3>3. T.up[p] \in Nodes(T)
      BY <3>1 DEF TreeBut
    <3> QED
      BY <1>1, <1>2, <2>1, <2>2, <3>1, <3>2, <3>3, FollowIs
  <2> QED
    BY <2>3, <2>4
<1>4. At(0) = Root
  BY DEF At
<1>5. Way(T, v, 0, At(0)) /\ \A p : Way(T, v, 0, p) => At(0) = p
  BY <1>4, WayRoot
<1>6. (At(1) # NoPage => Way(T, v, 1, At(1))) /\ \A p : Way(T, v, 1, p) => At(1) = p
  <2>1. (At(0 + 1) # NoPage => Way(T, v, 0 + 1, At(0 + 1))) /\ \A p : Way(T, v, 0 + 1, p) => At(0 + 1) = p
    BY <1>3, <1>5
  <2> QED
    BY <2>1
<1>7. (At(2) # NoPage => Way(T, v, 2, At(2))) /\ \A p : Way(T, v, 2, p) => At(2) = p
  <2>1. (At(1 + 1) # NoPage => Way(T, v, 1 + 1, At(1 + 1))) /\ \A p : Way(T, v, 1 + 1, p) => At(1 + 1) = p
    BY <1>3, <1>6
  <2> QED
    BY <2>1
<1>8. (At(3) # NoPage => Way(T, v, 3, At(3))) /\ \A p : Way(T, v, 3, p) => At(3) = p
  <2>1. (At(2 + 1) # NoPage => Way(T, v, 2 + 1, At(2 + 1))) /\ \A p : Way(T, v, 2 + 1, p) => At(2 + 1) = p
    BY <1>3, <1>7
  <2> QED
    BY <2>1
<1>9. (At(4) # NoPage => Way(T, v, 4, At(4))) /\ \A p : Way(T, v, 4, p) => At(4) = p
  <2>1. (At(3 + 1) # NoPage => Way(T, v, 3 + 1, At(3 + 1))) /\ \A p : Way(T, v, 3 + 1, p) => At(3 + 1) = p
    BY <1>3, <1>8
  <2> QED
    BY <2>1
<1>10. Reached(v, k) = At(k)
  BY DEF At
<1>11. \A p : Way(T, v, k, p) => p # NoPage
  BY <1>1, WayNode DEF Nodes
<1> QED
  BY <1>6, <1>7, <1>8, <1>9, <1>10, <1>11

----------------------------------------------------------------------------
(* Induction                                                              *)

\* A set of numbers that is not empty has a least one.
LEMMA LeastNat ==
  ASSUME NEW T, T \subseteq Nat, T # {}
  PROVE  \E x \in T : \A y \in T : x <= y
<1>1. IsWellFoundedOn(OpToRel(<, Nat), Nat)
  BY NatLessThanWellFounded
<1>2. PICK x \in T : \A y \in T : ~(<<y, x>> \in OpToRel(<, Nat))
  BY <1>1, WFMin
<1>3. \A y \in T : <<y, x>> \in OpToRel(<, Nat) <=> y < x
  BY DEF OpToRel
<1>4. ASSUME NEW y \in T PROVE x <= y
  <2>1. ~(y < x)
    BY <1>2, <1>3
  <2>2. x \in Nat /\ y \in Nat
    OBVIOUS
  <2> QED
    BY <2>1, <2>2
<1> QED
  BY <1>4

\* Induction over the numbers up to n.
LEMMA InductionUpTo ==
  ASSUME NEW n \in Nat, NEW A, 0 \in A, \A i \in 1..n : i - 1 \in A => i \in A
  PROVE  0..n \subseteq A
<1> DEFINE T == (0..n) \ A
<1>1. CASE T = {}
  BY <1>1
<1>2. CASE T # {}
  <2>1. PICK x \in T : \A y \in T : x <= y
    <3>1. T \subseteq Nat
      OBVIOUS
    <3> HIDE DEF T
    <3> QED
      BY <1>2, <3>1, LeastNat
  <2>2. x # 0 /\ x \in 1..n /\ x - 1 \in 0..n /\ x - 1 \notin T
    BY <2>1
  <2> QED
    BY <2>2
<1> QED
  BY <1>1, <1>2

----------------------------------------------------------------------------
(* The free list                                                           *)

\* From the first on, each free page leads to the next and the last to none.
Linked(m, first, w) ==
  /\ w \in Seq(Pages \ {0})
  /\ \A i, j \in 1..Len(w) : w[i] = w[j] => i = j
  /\ first = IF Len(w) = 0 THEN 0 ELSE w[1]
  /\ \A i \in 1..Len(w) : m[w[i]][0].page = IF i = Len(w) THEN 0 ELSE w[i + 1]

Follower(p) == IF p = 0 THEN 0 ELSE mem[p][0].page

\* The recursion of Chain has a solution.
LEMMA ChainIs ==
  ASSUME mem \in Memory, next_free_page \in Pages
  PROVE  /\ Chain \in [1..(Cardinality(Pages) + 1) -> Pages]
         /\ Chain[1] = next_free_page
         /\ \A k \in 1..Cardinality(Pages) : Chain[k + 1] = Follower(Chain[k])
<1> DEFINE N == Cardinality(Pages)
           Step(f) == [k \in 1..(N + 1) |-> IF k = 1 THEN next_free_page
                                            ELSE IF f[k - 1] = 0 THEN 0 ELSE mem[f[k - 1]][0].page]
           Begins(f, n) == f[1] = next_free_page /\ \A k \in 1..n : f[k + 1] = Follower(f[k])
           A == {n \in 0..N : \E f \in [1..(n + 1) -> Pages] : Begins(f, n)}
<1>1. N \in Nat /\ 0 \in Pages
  BY PagingAssumption, FS_CardinalityType
<1>2. \A p \in Pages : Follower(p) \in Pages
  BY <1>1, IdxFacts DEF Follower, Memory, Words
<1>3. 0 \in A
  <2> DEFINE f == [k \in 1..1 |-> next_free_page]
  <2>1. f \in [1..(0 + 1) -> Pages] /\ Begins(f, 0)
    OBVIOUS
  <2>2. 0 \in 0..N
    BY <1>1
  <2> HIDE DEF f
  <2> QED
    BY <2>1, <2>2
<1>4. ASSUME NEW n \in 1..N, n - 1 \in A PROVE n \in A
  <2>1. PICK f \in [1..((n - 1) + 1) -> Pages] : Begins(f, n - 1)
    BY <1>4
  <2> DEFINE g == [k \in 1..(n + 1) |-> IF k = n + 1 THEN Follower(f[n]) ELSE f[k]]
  <2>2. f \in [1..n -> Pages] /\ Follower(f[n]) \in Pages
    BY <1>2, <2>1
  <2>3. g \in [1..(n + 1) -> Pages]
    BY <2>2
  <2>4. g[1] = next_free_page
    BY <2>1
  <2>5. ASSUME NEW k \in 1..n PROVE g[k + 1] = Follower(g[k])
    <3>1. CASE k = n
      BY <3>1
    <3>2. CASE k # n
      <4>1. k \in 1..(n - 1) /\ g[k + 1] = f[k + 1] /\ g[k] = f[k]
        BY <3>2
      <4> QED
        BY <2>1, <4>1
    <3> QED
      BY <3>1, <3>2
  <2> HIDE DEF g
  <2> QED
    BY <2>3, <2>4, <2>5
<1>5. N \in A
  <2> HIDE DEF A
  <2>1. 0..N \subseteq A
    BY <1>1, <1>3, <1>4, InductionUpTo
  <2> QED
    BY <1>1, <2>1
<1>6. PICK f \in [1..(N + 1) -> Pages] : Begins(f, N)
  BY <1>5
<1>7. f = Step(f)
  <2> SUFFICES ASSUME NEW k \in 1..(N + 1) PROVE f[k] = Step(f)[k]
    BY <1>6
  <2>1. CASE k = 1
    BY <1>6, <2>1
  <2>2. CASE k # 1
    <3>1. k - 1 \in 1..N /\ (k - 1) + 1 = k
      BY <1>1, <2>2
    <3>2. f[k] = Follower(f[k - 1])
      BY <1>6, <3>1
    <3> QED
      BY <2>2, <3>2 DEF Follower
  <2> QED
    BY <2>1, <2>2
<1>8. Chain = CHOOSE g : g = Step(g)
  BY SMTT(40) DEF Chain
<1>9. Chain = Step(Chain)
  BY ZenonT(40), <1>7, <1>8
<1>10. DOMAIN Chain = 1..(N + 1) /\ Chain = [k \in 1..(N + 1) |-> Chain[k]]
  <2>1. \A g : DOMAIN Step(g) = 1..(N + 1) /\ Step(g) = [k \in 1..(N + 1) |-> Step(g)[k]]
    OBVIOUS
  <2> QED
    BY <1>9, <2>1
<1>11. Chain[1] = next_free_page
  BY <1>1, <1>9
<1>12. ASSUME NEW k \in 1..N PROVE Chain[k + 1] = Follower(Chain[k])
  <2>1. k + 1 \in 1..(N + 1) /\ k + 1 # 1 /\ (k + 1) - 1 = k
    BY <1>1
  <2> QED
    BY <1>9, <2>1 DEF Follower
<1> DEFINE B == {k \in 0..N : Chain[k + 1] \in Pages}
<1>13. 0..N \subseteq B
  <2>1. 0 \in B
    BY <1>1, <1>11
  <2>2. ASSUME NEW k \in 1..N, k - 1 \in B PROVE k \in B
    <3>1. Chain[k] \in Pages
      BY <2>2
    <3> QED
      BY <1>2, <1>12, <3>1
  <2> HIDE DEF B
  <2> QED
    BY <1>1, <2>1, <2>2, InductionUpTo
<1>14. ASSUME NEW k \in 1..(N + 1) PROVE Chain[k] \in Pages
  <2>1. k - 1 \in B /\ (k - 1) + 1 = k
    BY <1>1, <1>13
  <2> QED
    BY <2>1
<1>15. Chain \in [1..(N + 1) -> Pages]
  BY <1>10, <1>14
<1> QED
  BY <1>11, <1>12, <1>15

\* A list without repeats is not longer than there are pages.
LEMMA LinkedShort ==
  ASSUME NEW m, NEW first, NEW w, Linked(m, first, w)
  PROVE  /\ Len(w) \in Nat /\ Len(w) <= Cardinality(Pages)
         /\ w \in [1..Len(w) -> Pages \ {0}] /\ DOMAIN w = 1..Len(w)
<1> DEFINE N == Cardinality(Pages)
           L == Len(w)
<1>1. N \in Nat /\ IsFiniteSet(Pages)
  BY PagingAssumption, FS_CardinalityType
<1>2. w \in Seq(Pages \ {0})
  BY DEF Linked
<1>3. L \in Nat /\ w \in [1..L -> Pages \ {0}] /\ DOMAIN w = 1..L
  BY <1>2, LenProperties
<1>4. IsFiniteSet(1..L) /\ Cardinality(1..L) = L
  BY SMTT(40), <1>3, FS_Interval
<1>5. w \in [1..L -> Pages]
  BY <1>3
<1>6. ~ \E i, j \in 1..L : i # j /\ w[i] = w[j]
  BY DEF Linked
<1>7. ~(N < Cardinality(1..L))
  BY <1>1, <1>4, <1>5, <1>6, FS_PigeonHole
<1> QED
  BY <1>1, <1>3, <1>4, <1>7

\* What is read is the list, where there is one.
LEMMA FreeListIs ==
  mem \in Memory /\ next_free_page \in Pages =>
    \A w : Linked(mem, next_free_page, w) => FreeList = w
<1> SUFFICES ASSUME mem \in Memory, next_free_page \in Pages, NEW w, Linked(mem, next_free_page, w)
             PROVE  FreeList = w
  OBVIOUS
<1> DEFINE N == Cardinality(Pages)
           L == Len(w)
           J == {j \in DOMAIN Chain : Chain[j] # 0}
<1>1. N \in Nat /\ IsFiniteSet(Pages)
  BY PagingAssumption, FS_CardinalityType
<1>2. w \in Seq(Pages \ {0}) /\ L \in Nat /\ \A i \in 1..L : w[i] \in Pages /\ w[i] # 0
  <2>1. w \in Seq(Pages \ {0})
    BY DEF Linked
  <2> QED
    BY <2>1, ElementOfSeq, LenProperties
<1>3. L <= N
  BY LinkedShort
<1>4. /\ Chain \in [1..(N + 1) -> Pages]
      /\ Chain[1] = next_free_page
      /\ \A k \in 1..N : Chain[k + 1] = Follower(Chain[k])
  BY ChainIs
<1> HIDE DEF N
<1> DEFINE B == {k \in 0..N : Chain[k + 1] = IF k + 1 <= L THEN w[k + 1] ELSE 0}
<1>5. 0..N \subseteq B
  <2>1. 0 \in B
    BY <1>1, <1>2, <1>4 DEF Linked
  <2>2. ASSUME NEW k \in 1..N, k - 1 \in B PROVE k \in B
    <3>1. Chain[k] = IF k <= L THEN w[k] ELSE 0
      BY <2>2
    <3>2. CASE k <= L
      <4>1. k \in 1..L /\ Chain[k] = w[k] /\ w[k] # 0
        BY <1>2, <3>1, <3>2
      <4>2. Chain[k + 1] = IF k = L THEN 0 ELSE w[k + 1]
        BY <1>4, <4>1 DEF Linked, Follower
      <4> QED
        BY <1>2, <3>2, <4>2
    <3>3. CASE ~(k <= L)
      <4>1. Chain[k + 1] = 0 /\ ~(k + 1 <= L)
        BY <1>2, <1>4, <3>1, <3>3 DEF Follower
      <4> QED
        BY <4>1
    <3> QED
      BY <3>2, <3>3
  <2> HIDE DEF B
  <2> QED
    BY <1>1, <2>1, <2>2, InductionUpTo
<1>6. ASSUME NEW k \in 1..(N + 1) PROVE Chain[k] = IF k <= L THEN w[k] ELSE 0
  <2>1. k - 1 \in B /\ (k - 1) + 1 = k
    BY <1>1, <1>5
  <2> QED
    BY <2>1
<1>7. J = 1..L
  <2>1. \A k \in 1..(N + 1) : Chain[k] # 0 <=> k \in 1..L
    BY <1>1, <1>2, <1>6
  <2>2. 1..L \subseteq 1..(N + 1) /\ DOMAIN Chain = 1..(N + 1)
    BY <1>1, <1>2, <1>3, <1>4
  <2> QED
    BY <2>1, <2>2
<1>8. Cardinality(J) = L
  <2>1. Cardinality(1..L) = L
    BY SMTT(40), <1>2, FS_Interval
  <2> HIDE DEF J, L
  <2> QED
    BY <1>7, <2>1
<1>9. FreeList = [k \in 1..L |-> Chain[k]]
  BY <1>8 DEF FreeList
<1>10. \A k \in 1..L : Chain[k] = w[k]
  BY <1>1, <1>2, <1>3, <1>6
<1>11. w = [k \in 1..L |-> w[k]]
  BY <1>2, LenProperties
<1> QED
  BY <1>9, <1>10, <1>11

----------------------------------------------------------------------------
(* Walks that add tables                                                   *)

Walks == [mem : Memory, page : Pages, supply : Seq(Pages), short : BOOLEAN]

LEMMA ZeroFacts ==
  /\ ZeroPage \in [Idx -> Words] /\ \A j \in Idx : ~ZeroPage[j].present
  /\ \A p \in Pages : Entry(p) \in Words
<1>1. 0 \in Pages
  BY PagingAssumption
<1> QED
  BY <1>1 DEF ZeroPage, Zero, Word, Entry, Words, Idx

\* What one step of map_page does.
LEMMA EnterIs ==
  ASSUME NEW at \in Walks, NEW i \in Idx
  PROVE  /\ Enter(at, i) \in Walks
         /\ at.short => Enter(at, i).short
         /\ ~at.short => (Enter(at, i).short <=> ~at.mem[at.page][i].present /\ at.supply = <<>>)
         /\ at.mem[at.page][i].present =>
              /\ Enter(at, i).mem = at.mem /\ Enter(at, i).supply = at.supply
              /\ Enter(at, i).page = at.mem[at.page][i].page
         /\ ~at.mem[at.page][i].present =>
              IF at.supply = <<>> THEN Enter(at, i).short
              ELSE /\ Enter(at, i).page = Head(at.supply) /\ Enter(at, i).supply = Tail(at.supply)
                   /\ Enter(at, i).mem = [at.mem EXCEPT ![Head(at.supply)] = ZeroPage,
                                                        ![at.page][i] = Entry(Head(at.supply))]
<1> DEFINE word == at.mem[at.page][i]
<1>1. /\ at.mem \in Memory /\ at.page \in Pages /\ at.supply \in Seq(Pages) /\ at.short \in BOOLEAN
      /\ word \in Words
  BY DEF Walks, Memory
<1>2. CASE word.present
  <2>1. Enter(at, i) = [at EXCEPT !.page = word.page]
    BY <1>2 DEF Enter
  <2>2. word.page \in Pages
    BY <1>1 DEF Words
  <2> HIDE DEF word
  <2> QED
    BY <1>1, <1>2, <2>1, <2>2 DEF Walks, word
<1>3. CASE ~word.present /\ at.supply = <<>>
  <2>1. Enter(at, i) = [at EXCEPT !.short = TRUE]
    BY <1>3 DEF Enter
  <2> QED
    BY <1>1, <1>3, <2>1 DEF Walks
<1>4. CASE ~word.present /\ at.supply # <<>>
  <2> DEFINE p == Head(at.supply)
             n == [at.mem EXCEPT ![p] = ZeroPage, ![at.page][i] = Entry(p)]
  <2>1. Enter(at, i) = [at EXCEPT !.mem = n, !.page = p, !.supply = Tail(at.supply)]
    BY <1>4 DEF Enter
  <2>2. p \in Pages /\ Tail(at.supply) \in Seq(Pages)
    BY <1>1, <1>4, HeadTailProperties
  <2>3. n \in Memory
    BY <1>1, <2>2, ZeroFacts DEF Memory
  <2> HIDE DEF n, p
  <2>4. /\ Enter(at, i) \in Walks /\ Enter(at, i).page = p /\ Enter(at, i).supply = Tail(at.supply)
        /\ Enter(at, i).mem = n /\ Enter(at, i).short = at.short
    BY <1>1, <2>1, <2>2, <2>3 DEF Walks
  <2> QED
    BY <1>4, <2>4 DEF n, p
<1> QED
  BY <1>2, <1>3, <1>4

\* Pages that may become tables.
Fresh(T, avail) ==
  /\ avail \in Seq(Pages)
  /\ \A i \in 1..Len(avail) : avail[i] \notin T.used \cup {Root, Identity}
  /\ \A i, j \in 1..Len(avail) : avail[i] = avail[j] => i = j

\* The walk to v has come to its table of level k.  It has made a larger tree
\* of T by c pages from avail, all of them tables, and has written nothing
\* else than tables.
Walking(at, m0, T, X, avail, v, k, S, c) ==
  /\ at \in Walks
  /\ TreeBut(at.mem, S, X) /\ Larger(T, S) /\ Way(S, v, k, at.page)
  /\ c \in 0..Len(avail)
  /\ Len(at.supply) = Len(avail) - c /\ \A i \in 1..Len(at.supply) : at.supply[i] = avail[i + c]
  /\ S.used = T.used \cup {avail[i] : i \in 1..c}
  /\ \A p \in S.used \ T.used : S.level[p] # 4
  /\ \A q \in Pages : q \notin Nodes(S) \/ (q \in T.used /\ T.level[q] = 4) => at.mem[q] = m0[q]
  /\ Counted(T, S, c, v)

LEMMA EnterStep ==
  ASSUME NEW T, NEW avail, Fresh(T, avail), NEW X, NEW v \in Virtual, Index(v, 1) \notin X, NEW k \in 0..2, NEW m0,
         NEW at, NEW S, NEW c, Walking(at, m0, T, X, avail, v, k, S, c),
         ~Enter(at, Index(v, k + 1)).short
  PROVE  \E Z, d : Walking(Enter(at, Index(v, k + 1)), m0, T, X, avail, v, k + 1, Z, d)
<1> DEFINE i == Index(v, k + 1)
           t == at.page
           p == Head(at.supply)
<1>1. /\ at \in Walks /\ TreeBut(at.mem, S, X) /\ Larger(T, S) /\ Way(S, v, k, t) /\ c \in 0..Len(avail)
      /\ Len(at.supply) = Len(avail) - c /\ \A j \in 1..Len(at.supply) : at.supply[j] = avail[j + c]
      /\ S.used = T.used \cup {avail[j] : j \in 1..c}
      /\ \A q \in S.used \ T.used : S.level[q] # 4
      /\ \A q \in Pages : q \notin Nodes(S) \/ (q \in T.used /\ T.level[q] = 4) => at.mem[q] = m0[q]
      /\ Counted(T, S, c, v)
  BY DEF Walking
<1>2. at.mem \in Memory /\ t \in Pages /\ at.supply \in Seq(Pages)
  BY <1>1 DEF Walks
<1>3. i \in Idx /\ (k = 0 => i \notin X)
  BY IndexFacts
<1>4. t \in Nodes(S) /\ S.level[t] = k
  <2> HIDE DEF t
  <2>1. k \in 0..4 /\ TreeBut(at.mem, S, X) /\ Way(S, v, k, t)
    BY <1>1 DEF t
  <2> QED
    BY <2>1, WayNode
<1>5. t = Root => i \notin X
  BY <1>1, <1>3, <1>4 DEF TreeBut
<1>6. /\ Enter(at, i) \in Walks
      /\ at.mem[t][i].present =>
           /\ Enter(at, i).mem = at.mem /\ Enter(at, i).supply = at.supply
           /\ Enter(at, i).page = at.mem[t][i].page
      /\ ~at.mem[t][i].present =>
           IF at.supply = <<>> THEN Enter(at, i).short
           ELSE /\ Enter(at, i).page = p /\ Enter(at, i).supply = Tail(at.supply)
                /\ Enter(at, i).mem = [at.mem EXCEPT ![p] = ZeroPage, ![t][i] = Entry(p)]
  <2> HIDE DEF i
  <2> QED
    BY <1>1, <1>3, EnterIs
<1>7. CASE at.mem[t][i].present
  <2> DEFINE q == at.mem[t][i].page
  <2>1. q \in S.used /\ S.up[q] = t /\ S.ix[q] = i /\ q \in Pages
    <3>1. TreeBut(at.mem, S, X) /\ S.level[t] # 4
      BY <1>1, <1>4
    <3> HIDE DEF i, t
    <3> QED
      BY <1>3, <1>4, <1>5, <1>7, <3>1 DEF TreeBut
  <2>2. Way(S, v, k + 1, q)
    <3>1. k \in 0..3 /\ S.ix[q] = Index(v, k + 1)
      BY <2>1
    <3> HIDE DEF q
    <3> QED
      BY <1>1, <2>1, <3>1, WayStep
  <2>3. Walking(Enter(at, i), m0, T, X, avail, v, k + 1, S, c)
    <3> HIDE DEF q, i
    <3>1. Enter(at, i) \in Walks /\ Enter(at, i).mem = at.mem /\ Enter(at, i).supply = at.supply /\ Enter(at, i).page = q
      BY <1>6, <1>7 DEF q
    <3> QED
      BY <1>1, <2>2, <3>1 DEF Walking
  <2> QED
    BY <2>3
<1>8. CASE ~at.mem[t][i].present
  <2>1. at.supply # <<>>
    BY <1>6, <1>8
  <2>2. p \in Pages /\ Tail(at.supply) \in Seq(Pages) /\ Len(Tail(at.supply)) = Len(at.supply) - 1
        /\ Len(at.supply) \in Nat \ {0} /\ p = at.supply[1]
        /\ \A j \in 1..Len(Tail(at.supply)) : Tail(at.supply)[j] = at.supply[j + 1]
    BY <1>2, <2>1, HeadTailProperties, EmptySeq, LenProperties
  <2>3. Len(avail) \in Nat /\ c + 1 \in 1..Len(avail) /\ p = avail[c + 1]
    <3>1. Len(avail) \in Nat
      BY LenProperties DEF Fresh
    <3>2. 1 \in 1..Len(at.supply)
      BY <2>2
    <3>3. p = avail[1 + c]
      BY <1>1, <2>2, <3>2
    <3>4. c + 1 \in 1..Len(avail) /\ 1 + c = c + 1
      BY <1>1, <2>2, <3>1
    <3> QED
      BY <3>1, <3>3, <3>4
  <2>4. p \notin S.used /\ p # Root /\ p # Identity
    <3>1. p \notin T.used \cup {Root, Identity}
      BY <2>3 DEF Fresh
    <3>2. \A j \in 1..c : avail[j] # p
      <4> SUFFICES ASSUME NEW j \in 1..c, avail[j] = avail[c + 1] PROVE FALSE
        BY <2>3
      <4>1. j \in 1..Len(avail) /\ j # c + 1
        BY <1>1, <2>3
      <4> QED
        BY <2>3, <4>1 DEF Fresh
    <3> QED
      BY <1>1, <3>1, <3>2
  <2> DEFINE n == [at.mem EXCEPT ![p] = ZeroPage, ![t][i] = Entry(p)]
  <2>5. t # p
    BY <1>4, <2>4 DEF Nodes
  <2>6. /\ n \in Memory
        /\ \A q \in Pages : q # p /\ q # t => n[q] = at.mem[q]
        /\ \A j \in Idx : j # i => n[t][j] = at.mem[t][j]
        /\ n[t][i] = Entry(p)
        /\ \A j \in Idx : ~n[p][j].present
    <3> HIDE DEF i, p, t
    <3>1. ZeroPage \in [Idx -> Words] /\ Entry(p) \in Words /\ \A j \in Idx : ~ZeroPage[j].present
      BY <2>2, ZeroFacts
    <3>2. at.mem \in [Pages -> [Idx -> Words]]
      BY <1>2 DEF Memory
    <3>3. n = [q \in Pages |-> IF q = t THEN [at.mem[t] EXCEPT ![i] = Entry(p)]
                               ELSE IF q = p THEN ZeroPage ELSE at.mem[q]]
      BY <1>2, <2>2, <2>5, <3>2
    <3> HIDE DEF n
    <3>4. at.mem[t] \in [Idx -> Words]
      BY <1>2, <3>2
    <3>5. n[t] = [at.mem[t] EXCEPT ![i] = Entry(p)] /\ n[p] = ZeroPage
      BY <1>2, <2>2, <2>5, <3>3
    <3>6. n \in Memory
      BY <1>3, <3>1, <3>2, <3>3, <3>4 DEF Memory
    <3> QED
      BY <1>3, <3>1, <3>3, <3>4, <3>5, <3>6
  <2> HIDE DEF n
  <2>7. PICK Z : /\ TreeBut(n, Z, X) /\ Larger(S, Z) /\ Z.used = S.used \cup {p}
                 /\ Z.level[p] = S.level[t] + 1 /\ Z.up[p] = t /\ Z.ix[p] = i
    <3> DEFINE m == at.mem
    <3>1. m \in Memory /\ TreeBut(m, S, X) /\ ~m[t][i].present
      BY <1>1, <1>2, <1>8
    <3>2. /\ \A q \in Pages : q # p /\ q # t => n[q] = m[q]
          /\ \A j \in Idx : j # i => n[t][j] = m[t][j]
      BY <2>6
    <3> HIDE DEF i, p, t, m
    <3>3. S.level[t] # 4
      BY <1>4
    <3> QED
      BY SMTT(40), <1>3, <1>4, <1>5, <2>2, <2>4, <2>6, <3>1, <3>2, <3>3, AddPage
  <2>8. Way(Z, v, k + 1, p)
    <3>1. k \in 0..4 /\ k \in 0..3
      OBVIOUS
    <3>2. Way(Z, v, k, t)
      BY <1>1, <2>7, <3>1, WayLarger
    <3>3. p \in Z.used /\ Z.ix[p] = Index(v, k + 1) /\ Z.up[p] = t /\ p \in Pages
      BY <2>2, <2>7
    <3> HIDE DEF p, t
    <3> QED
      BY <3>1, <3>2, <3>3, WayStep
  <2>9. Larger(T, Z)
    BY <1>1, <2>7 DEF Larger
  <2>10. Z.used = T.used \cup {avail[j] : j \in 1..(c + 1)}
    <3>1. 1..(c + 1) = 1..c \cup {c + 1}
      BY <1>1
    <3> QED
      BY <1>1, <2>3, <2>7, <3>1
  <2>11. \A q \in Z.used \ T.used : Z.level[q] # 4
    BY SMTT(40), <1>1, <1>4, <2>7 DEF Larger
  <2>12. ASSUME NEW q \in Pages, q \notin Nodes(Z) \/ (q \in T.used /\ T.level[q] = 4)
         PROVE  n[q] = m0[q]
    <3>1. q # t /\ q # p
      <4>1. CASE q \notin Nodes(Z)
        BY <1>4, <2>7, <4>1 DEF Nodes
      <4>2. CASE q \in T.used /\ T.level[q] = 4
        BY <1>1, <1>4, <2>4, <4>2 DEF Larger
      <4> QED
        BY <2>12, <4>1, <4>2
    <3>2. q \notin Nodes(S) \/ (q \in T.used /\ T.level[q] = 4)
      BY <2>7, <2>12 DEF Nodes
    <3> QED
      BY <1>1, <2>6, <3>1, <3>2
  <2>13. c + 1 \in 0..Len(avail) /\ Len(Tail(at.supply)) = Len(avail) - (c + 1)
         /\ \A j \in 1..Len(Tail(at.supply)) : Tail(at.supply)[j] = avail[j + (c + 1)]
    <3>1. c + 1 \in 0..Len(avail) /\ Len(Tail(at.supply)) = Len(avail) - (c + 1)
      BY <1>1, <2>2, <2>3
    <3>2. ASSUME NEW j \in 1..Len(Tail(at.supply)) PROVE Tail(at.supply)[j] = avail[j + (c + 1)]
      <4>1. j + 1 \in 1..Len(at.supply) /\ (j + 1) + c = j + (c + 1)
        BY <1>1, <2>2
      <4> QED
        BY <1>1, <2>2, <4>1
    <3> QED
      BY <3>1, <3>2
  <2>16. Counted(T, Z, c + 1, v)
    <3> SUFFICES ASSUME NEW V \in SUBSET Virtual, IsFiniteSet(V), v \in V
                 PROVE  Cardinality(Lacks(T, V)) = Cardinality(Lacks(Z, V)) + (c + 1)
      BY DEF Counted
    <3>1. \A q \in S.used : ~(S.up[q] = t /\ S.ix[q] = i)
      BY <1>1, <1>8 DEF TreeBut
    <3>2. Z.level[p] = k + 1
      BY <1>4, <2>7
    <3> DEFINE m == at.mem
    <3>3. TreeBut(m, S, X) /\ Way(S, v, k, t)
      BY <1>1
    <3>4. \A q \in S.used : ~(S.up[q] = t /\ S.ix[q] = Index(v, k + 1))
      BY <3>1
    <3>5. Z.ix[p] = Index(v, k + 1)
      BY <2>7
    <3> HIDE DEF p, t, m, i
    <3>6. Cardinality(Lacks(S, V)) = Cardinality(Lacks(Z, V)) + 1
      BY SMTT(40), <2>2, <2>4, <2>7, <3>2, <3>3, <3>4, <3>5, LacksOneLess
    <3>7. Cardinality(Lacks(T, V)) = Cardinality(Lacks(S, V)) + c
      BY <1>1 DEF Counted
    <3>8. Cardinality(Lacks(Z, V)) \in Nat /\ c \in Nat
      <4>1. c \in Nat
        BY <1>1
      <4> QED
        BY <4>1, LacksFinite
    <3> HIDE DEF Lacks
    <3> QED
      BY <3>6, <3>7, <3>8
  <2>14. Enter(at, i) \in Walks /\ Enter(at, i).mem = n /\ Enter(at, i).supply = Tail(at.supply) /\ Enter(at, i).page = p
    BY <1>6, <1>8, <2>1 DEF n
  <2>15. Walking(Enter(at, i), m0, T, X, avail, v, k + 1, Z, c + 1)
    <3> HIDE DEF i, p, t
    <3> QED
      BY <2>7, <2>8, <2>9, <2>10, <2>11, <2>12, <2>13, <2>14, <2>16 DEF Walking
  <2> QED
    BY <2>15
<1> QED
  BY <1>7, <1>8

\* Where it finds no page, all of them are tables, and one is still missing.
LEMMA EnterShort ==
  ASSUME NEW T, NEW avail, Fresh(T, avail), NEW X, NEW v \in Virtual, Index(v, 1) \notin X, NEW k \in 0..2, NEW m0,
         NEW at, NEW S, NEW c, Walking(at, m0, T, X, avail, v, k, S, c),
         ~at.short, Enter(at, Index(v, k + 1)).short,
         NEW V \in SUBSET Virtual, IsFiniteSet(V), v \in V
  PROVE  Len(avail) < Cardinality(Lacks(T, V))
<1> DEFINE i == Index(v, k + 1)
           t == at.page
<1>1. /\ at \in Walks /\ TreeBut(at.mem, S, X) /\ Way(S, v, k, t) /\ c \in 0..Len(avail)
      /\ Len(at.supply) = Len(avail) - c /\ Counted(T, S, c, v)
  BY DEF Walking
<1>2. i \in Idx
  BY IndexFacts
<1>3. ~at.mem[t][i].present /\ at.supply = <<>>
  <2> HIDE DEF i
  <2>1. Enter(at, i).short
    BY DEF i
  <2> QED
    BY <1>1, <1>2, <2>1, EnterIs
<1>4. c = Len(avail) /\ c \in Nat
  <2>1. Len(avail) \in Nat
    BY LenProperties DEF Fresh
  <2>2. Len(at.supply) = 0
    BY <1>3, EmptySeq
  <2> QED
    BY <1>1, <2>1, <2>2
<1>5. ~Has(S, v, k + 1)
  <2>1. k \in 0..4
    OBVIOUS
  <2>0. \A q : Way(S, v, k + 1, q) => q \in S.used /\ Way(S, v, k, S.up[q]) /\ S.ix[q] = Index(v, k + 1)
    <3>1. k \in 0..3
      OBVIOUS
    <3> HIDE DEF i, t
    <3> QED
      BY ONLY <3>1, WayInit
  <2> SUFFICES ASSUME NEW q, Way(S, v, k + 1, q) PROVE FALSE
    BY DEF Has
  <2>2. q \in S.used /\ Way(S, v, k, S.up[q]) /\ S.ix[q] = i
    BY <2>0
  <2>3. S.up[q] = t
    BY <1>1, <2>1, <2>2, WayOne
  <2> QED
    BY <1>1, <1>3, <2>2, <2>3 DEF TreeBut
<1>6. Lacks(S, V) # {}
  <2>1. k + 1 \in 1..3
    OBVIOUS
  <2>2. \E j \in 1..3, w \in V : ~Has(S, w, j) /\ <<k + 1, Prefix(v, k + 1)>> = <<j, Prefix(w, j)>>
    BY <1>5, <2>1
  <2>3. <<k + 1, Prefix(v, k + 1)>> \in Lacks(S, V)
    BY <2>2, LacksIs
  <2> QED
    BY <2>3
<1>7. Cardinality(Lacks(S, V)) \in Nat /\ Cardinality(Lacks(S, V)) # 0
  BY <1>6, LacksFinite, FS_EmptySet
<1>8. Cardinality(Lacks(T, V)) = Cardinality(Lacks(S, V)) + c
  BY <1>1 DEF Counted
<1> HIDE DEF Lacks
<1> QED
  BY <1>4, <1>7, <1>8

\* map_page has come to the last table of v and has written page's entry there.
Arrived(done, m0, T, X, avail, v, page) ==
  \E at, S, c :
    /\ Walking(at, m0, T, X, avail, v, 3, S, c)
    /\ done.mem = [at.mem EXCEPT ![at.page][Index(v, 4)] = Entry(page)]
    /\ done.supply = at.supply

LEMMA MapPageIs ==
  ASSUME NEW before \in Walks, NEW T, NEW X, TreeBut(before.mem, T, X), Fresh(T, before.supply),
         NEW v \in Virtual, Index(v, 1) \notin X, NEW page \in Pages
  PROVE  LET done == MapPage(before, v, page)
         IN /\ ~done.short => Arrived(done, before.mem, T, X, before.supply, v, page)
            /\ ~before.short /\ done.short =>
                 \A V \in SUBSET Virtual :
                   IsFiniteSet(V) /\ v \in V => Len(before.supply) < Cardinality(Lacks(T, V))
<1> DEFINE start == [before EXCEPT !.page = Root]
           avail == before.supply
           m0 == before.mem
           pdpt == Enter(start, Index(v, 1))
           pdt  == Enter(pdpt, Index(v, 2))
           pt   == Enter(pdt, Index(v, 3))
<1>1. Index(v, 1) \in Idx /\ Index(v, 2) \in Idx /\ Index(v, 3) \in Idx
  BY IndexFacts
<1>2. /\ start \in Walks /\ start.mem = m0 /\ start.page = Root /\ start.supply = avail
      /\ start.short = before.short
  BY PagingAssumption DEF Walks
<1> HIDE DEF start
<1>3. MapPage(before, v, page) = [pt EXCEPT !.mem[pt.page][Index(v, 4)] = Entry(page)]
  BY DEF MapPage, start
<1> DEFINE done == MapPage(before, v, page)
<1> HIDE DEF done
<1>5. pdpt \in Walks
  BY <1>1, <1>2, EnterIs
<1> HIDE DEF pdpt
<1>6. pdt \in Walks /\ (pdpt.short => pdt.short)
  BY <1>1, <1>5, EnterIs
<1> HIDE DEF pdt
<1>7. pt \in Walks /\ (pdt.short => pt.short)
  BY <1>1, <1>6, EnterIs
<1> HIDE DEF pt
<1>8. /\ done.short = pt.short /\ done.supply = pt.supply
      /\ done.mem = [pt.mem EXCEPT ![pt.page][Index(v, 4)] = Entry(page)]
  BY <1>3, <1>7 DEF Walks, done
<1>10. Walking(start, m0, T, X, avail, v, 0, T, 0)
  <2>1. Larger(T, T)
    BY DEF Larger
  <2>2. Way(T, v, 0, Root)
    BY WayRoot
  <2>3. /\ Len(avail) \in Nat /\ 0 \in 0..Len(avail) /\ Len(avail) = Len(avail) - 0
        /\ \A j \in 1..Len(avail) : avail[j] = avail[j + 0]
    BY LenProperties DEF Fresh
  <2>4. T.used = T.used \cup {avail[j] : j \in 1..0}
    OBVIOUS
  <2>5. \A q \in Pages : q \notin Nodes(T) \/ (q \in T.used /\ T.level[q] = 4) => start.mem[q] = m0[q]
    BY <1>2
  <2>6. Counted(T, T, 0, v)
    <3>1. \A V : IsFiniteSet(V) => Cardinality(Lacks(T, V)) \in Nat
      BY LacksFinite
    <3> HIDE DEF Lacks
    <3> QED
      BY <3>1 DEF Counted
  <2> QED
    BY <1>2, <2>1, <2>2, <2>3, <2>4, <2>5, <2>6 DEF Walking
<1> DEFINE Comes(at, k) == \E S, c : Walking(at, m0, T, X, avail, v, k, S, c)
           Less == \A V \in SUBSET Virtual : IsFiniteSet(V) /\ v \in V => Len(avail) < Cardinality(Lacks(T, V))
<1>11. ASSUME NEW k \in 0..2, NEW at, Comes(at, k)
       PROVE  /\ ~Enter(at, Index(v, k + 1)).short => Comes(Enter(at, Index(v, k + 1)), k + 1)
              /\ ~at.short /\ Enter(at, Index(v, k + 1)).short => Less
  <2>1. PICK S, c : Walking(at, m0, T, X, avail, v, k, S, c)
    BY <1>11
  <2>2. ~Enter(at, Index(v, k + 1)).short => Comes(Enter(at, Index(v, k + 1)), k + 1)
    BY <2>1, EnterStep
  <2>3. ~at.short /\ Enter(at, Index(v, k + 1)).short => Less
    BY <2>1, EnterShort
  <2> QED
    BY <2>2, <2>3
<1> HIDE DEF Comes, Less
<1>12. (~pdpt.short => Comes(pdpt, 1)) /\ (~before.short /\ pdpt.short => Less)
  <2>1. Comes(start, 0) /\ 0 \in 0..2
    BY <1>10 DEF Comes
  <2>2. /\ ~Enter(start, Index(v, 0 + 1)).short => Comes(Enter(start, Index(v, 0 + 1)), 0 + 1)
        /\ ~start.short /\ Enter(start, Index(v, 0 + 1)).short => Less
    BY <1>11, <2>1
  <2> QED
    BY <1>2, <2>2 DEF pdpt
<1>13. (~pdt.short => Comes(pdt, 2)) /\ (~pdpt.short /\ pdt.short => Less)
  <2> SUFFICES ASSUME ~pdpt.short PROVE (~pdt.short => Comes(pdt, 2)) /\ (pdt.short => Less)
    BY <1>6
  <2>1. Comes(pdpt, 1) /\ 1 \in 0..2
    BY <1>12
  <2>2. /\ ~Enter(pdpt, Index(v, 1 + 1)).short => Comes(Enter(pdpt, Index(v, 1 + 1)), 1 + 1)
        /\ ~pdpt.short /\ Enter(pdpt, Index(v, 1 + 1)).short => Less
    BY <1>11, <2>1
  <2> QED
    BY <2>2 DEF pdt
<1>14. (~pt.short => Comes(pt, 3)) /\ (~pdt.short /\ pt.short => Less)
  <2> SUFFICES ASSUME ~pdt.short PROVE (~pt.short => Comes(pt, 3)) /\ (pt.short => Less)
    BY <1>7
  <2>1. Comes(pdt, 2) /\ 2 \in 0..2
    BY <1>13
  <2>2. /\ ~Enter(pdt, Index(v, 2 + 1)).short => Comes(Enter(pdt, Index(v, 2 + 1)), 2 + 1)
        /\ ~pdt.short /\ Enter(pdt, Index(v, 2 + 1)).short => Less
    BY <1>11, <2>1
  <2> QED
    BY <2>2 DEF pt
<1>15. ~done.short => Arrived(done, m0, T, X, avail, v, page)
  BY <1>8, <1>14 DEF Comes, Arrived
<1>16. ~before.short /\ done.short => Less
  BY <1>8, <1>12, <1>13, <1>14
<1> QED
  BY <1>15, <1>16 DEF done, Less

----------------------------------------------------------------------------
(* A page fault                                                            *)

\* The pages in use and the free ones, each of one use.
Apart(m, first, T, w) ==
  /\ Tree(m, T) /\ Linked(m, first, w)
  /\ \A i \in 1..Len(w) : w[i] \notin T.used \cup {Root, Identity}

InList(w) == {w[i] : i \in 1..Len(w)}

\* T has become Z, with the page for v and tables for it from the front of the
\* free list, and no data is disturbed.
Grows(n, T, w, v, Z, r) ==
  /\ n \in Memory
  /\ Apart(n, IF r = <<>> THEN 0 ELSE Head(r), Z, r)
  /\ Len(r) \in Nat /\ Len(r) < Len(w)
  /\ Z.used \cup InList(r) = T.used \cup InList(w)
  /\ Larger(T, Z) /\ Way(Z, v, 4, next_free_page)
  /\ n[next_free_page] = ZeroPage
  /\ \A q \in T.used : T.level[q] = 4 => n[q] = mem[q]
  /\ \A q \in Z.used \ T.used : Z.level[q] = 4 => q = next_free_page

\* The pages behind the first may become tables.
LEMMA TailFresh ==
  ASSUME NEW first, NEW T, NEW w, Apart(mem, first, T, w), Len(w) # 0,
         NEW avail \in Seq(Pages), Len(avail) = Len(w) - 1, \A j \in 1..Len(avail) : avail[j] = w[j + 1]
  PROVE  Fresh(T, avail)
<1> DEFINE L == Len(w)
<1>1. /\ w \in Seq(Pages \ {0}) /\ \A i, j \in 1..L : w[i] = w[j] => i = j
      /\ \A i \in 1..L : w[i] \notin T.used \cup {Root, Identity}
  BY DEF Apart, Linked
<1>2. L \in Nat \ {0} /\ Len(avail) = L - 1
  BY <1>1, LenProperties
<1> HIDE DEF L
<1>3. \A j \in 1..Len(avail) : j + 1 \in 1..L /\ avail[j] = w[j + 1]
  BY <1>2
<1>4. ASSUME NEW i \in 1..Len(avail), NEW j \in 1..Len(avail), avail[i] = avail[j] PROVE i = j
  <2>1. i + 1 = j + 1
    BY <1>1, <1>3, <1>4
  <2> QED
    BY <1>2, <2>1
<1>5. ASSUME NEW i \in 1..Len(avail) PROVE avail[i] \notin T.used \cup {Root, Identity}
  BY <1>1, <1>3
<1> QED
  BY <1>4, <1>5 DEF Fresh

LEMMA FaultStep ==
  ASSUME mem \in Memory, NEW T, NEW w, Apart(mem, next_free_page, T, w), Len(w) # 0,
         NEW avail \in Seq(Pages), Len(avail) = Len(w) - 1, \A j \in 1..Len(avail) : avail[j] = w[j + 1],
         NEW v \in Touched, Translate(v) = NoPage, NEW done, NEW n
  PROVE  (/\ done = MapPage(Start(avail), v, next_free_page) /\ ~done.short
          /\ n = [done.mem EXCEPT ![next_free_page] = ZeroPage]) =>
         \E Z : Grows(n, T, w, v, Z, done.supply)
<1> DEFINE p == next_free_page
           L == Len(w)
<1>0. SUFFICES ASSUME done = MapPage(Start(avail), v, p), ~done.short, n = [done.mem EXCEPT ![p] = ZeroPage]
               PROVE  \E Z : Grows(n, T, w, v, Z, done.supply)
  OBVIOUS
<1>1. /\ Tree(mem, T) /\ w \in Seq(Pages \ {0}) /\ L \in Nat \ {0}
      /\ \A i \in 1..L : w[i] \in Pages /\ w[i] # 0 /\ w[i] \notin T.used /\ w[i] # Root /\ w[i] # Identity
      /\ \A i, j \in 1..L : w[i] = w[j] => i = j
      /\ p = w[1]
      /\ \A i \in 1..L : mem[w[i]][0].page = IF i = L THEN 0 ELSE w[i + 1]
  <2>1. Tree(mem, T) /\ w \in Seq(Pages \ {0}) /\ \A i, j \in 1..L : w[i] = w[j] => i = j
    BY DEF Apart, Linked
  <2>2. L \in Nat \ {0} /\ \A i \in 1..L : w[i] \in Pages \ {0}
    BY <2>1, ElementOfSeq, LenProperties
  <2> QED
    BY <2>1, <2>2 DEF Apart, Linked
<1>2. Len(avail) = L - 1 /\ \A j \in 1..(L - 1) : avail[j] = w[j + 1]
  OBVIOUS
<1> HIDE DEF p, L
<1>4. p \in Pages /\ p \notin T.used /\ p # Root /\ p # Identity /\ p # 0
  BY <1>1
<1>5. Fresh(T, avail)
  BY TailFresh DEF L
<1>6. PICK at, S, c :
        /\ Walking(at, mem, T, {PhysIndex}, avail, v, 3, S, c)
        /\ done.mem = [at.mem EXCEPT ![at.page][Index(v, 4)] = Entry(p)]
        /\ done.supply = at.supply
  <2>1. TreeBut(mem, T, {PhysIndex}) /\ ~MapPage(Start(avail), v, p).short
    BY <1>0, <1>1 DEF Tree
  <2>2. Start(avail) \in Walks /\ Start(avail).mem = mem /\ Start(avail).supply = avail
    BY PagingAssumption DEF Start, Walks
  <2>3. v \in Virtual /\ Index(v, 1) \notin {PhysIndex}
    BY TouchedAssumption DEF Virtual
  <2>4. Arrived(MapPage(Start(avail), v, p), mem, T, {PhysIndex}, avail, v, p)
    BY <1>4, <1>5, <2>1, <2>2, <2>3, MapPageIs
  <2> QED
    BY <1>0, <2>4 DEF Arrived
<1> DEFINE t == at.page
           m == at.mem
           i == Index(v, 4)
           r == done.supply
<1>7. /\ m \in Memory /\ t \in Pages /\ r \in Seq(Pages)
      /\ Tree(m, S) /\ Larger(T, S) /\ Way(S, v, 3, t) /\ c \in 0..(L - 1)
      /\ Len(r) = (L - 1) - c /\ \A j \in 1..Len(r) : r[j] = avail[j + c]
      /\ S.used = T.used \cup {avail[j] : j \in 1..c}
      /\ \A q \in S.used \ T.used : S.level[q] # 4
      /\ \A q \in Pages : q \notin Nodes(S) \/ (q \in T.used /\ T.level[q] = 4) => m[q] = mem[q]
  BY <1>2, <1>6 DEF Walking, Walks, Tree
<1>8. n = [[m EXCEPT ![t][i] = Entry(p)] EXCEPT ![p] = ZeroPage]
  BY <1>0, <1>6
<1> HIDE DEF t, m, i, r
<1>9. i \in Idx
  BY IndexFacts, TouchedAssumption DEF i
<1>10. t \in Nodes(S) /\ S.level[t] = 3 /\ t # Root
  <2>1. Tree(m, S) /\ Way(S, v, 3, t)
    BY <1>7
  <2>2. t \in Nodes(S) /\ S.level[t] = 3
    BY <2>1, WayTable DEF Tree
  <2>3. S.level[Root] = 0
    BY <1>7 DEF Tree, TreeBut
  <2> QED
    BY <2>2, <2>3
<1>11. ~m[t][i].present
  <2> SUFFICES ASSUME m[t][i].present PROVE FALSE
    OBVIOUS
  <2> DEFINE q == m[t][i].page
  <2>1. q \in S.used /\ S.up[q] = t /\ S.ix[q] = i /\ q \in Pages /\ S.level[q] = 4
    <3>1. Tree(m, S) /\ S.level[t] # 4
      BY <1>7, <1>10
    <3>2. q \in S.used /\ S.up[q] = t /\ S.ix[q] = i
      BY <1>9, <1>10, <3>1 DEF Tree, TreeBut
    <3>3. S.level[q] = S.level[S.up[q]] + 1 /\ q \in Pages
      BY <3>1, <3>2 DEF Tree, TreeBut
    <3> QED
      BY <1>10, <3>2, <3>3
  <2> HIDE DEF q
  <2>2. q \in T.used
    BY <1>7, <2>1
  <2>3. Way(S, v, 4, q)
    <3>1. 3 \in 0..3 /\ S.ix[q] = Index(v, 3 + 1)
      BY <2>1 DEF i
    <3>2. Way(S, v, 3 + 1, q)
      BY <1>7, <2>1, <3>1, WayStep
    <3> QED
      BY <3>2
  <2>4. Way(T, v, 4, q)
    BY <1>1, <1>7, <2>2, <2>3, WaySmaller DEF Tree
  <2>5. Reached(v, 4) # NoPage
    <3>1. 4 \in 1..4
      OBVIOUS
    <3> QED
      BY <1>1, <2>4, <3>1, ReachedIs, TouchedAssumption DEF Virtual, Tree
  <2> QED
    BY <2>5 DEF Translate
<1>12. p \notin S.used /\ t # p
  <2>1. ASSUME NEW j \in 1..c PROVE avail[j] # p
    <3>1. j \in 1..(L - 1) /\ j + 1 \in 1..L /\ 1 \in 1..L /\ j + 1 # 1
      BY <1>1, <1>7
    <3> QED
      BY <1>1, <1>2, <3>1
  <2>2. p \notin S.used
    BY <1>4, <1>7, <2>1
  <2> QED
    BY <1>4, <1>10, <2>2 DEF Nodes
<1>13. /\ n \in Memory
       /\ \A q \in Pages : q # p /\ q # t => n[q] = m[q]
       /\ \A j \in Idx : j # i => n[t][j] = m[t][j]
       /\ n[t][i] = Entry(p)
       /\ n[p] = ZeroPage
  <2>1. ZeroPage \in [Idx -> Words] /\ Entry(p) \in Words
    BY <1>4, ZeroFacts
  <2>2. m \in [Pages -> [Idx -> Words]] /\ m[t] \in [Idx -> Words]
    BY <1>7 DEF Memory
  <2>3. n = [q \in Pages |-> IF q = p THEN ZeroPage
                             ELSE IF q = t THEN [m[t] EXCEPT ![i] = Entry(p)] ELSE m[q]]
    BY <1>4, <1>7, <1>8, <1>12, <2>2
  <2>4. n[t] = [m[t] EXCEPT ![i] = Entry(p)] /\ n[p] = ZeroPage
    BY <1>4, <1>7, <1>12, <2>3
  <2>5. n \in Memory
    <3>1. [m[t] EXCEPT ![i] = Entry(p)] \in [Idx -> Words]
      BY <2>1, <2>2
    <3>2. \A q \in Pages : n[q] \in [Idx -> Words]
      BY <2>1, <2>2, <2>3, <3>1
    <3>3. n \in [Pages -> [Idx -> Words]]
      BY <2>3, <3>2
    <3> QED
      BY <3>3 DEF Memory
  <2> QED
    BY <1>9, <2>1, <2>2, <2>3, <2>4, <2>5
<1>14. PICK Z : /\ Tree(n, Z) /\ Larger(S, Z) /\ Z.used = S.used \cup {p}
                /\ Z.level[p] = S.level[t] + 1 /\ Z.up[p] = t /\ Z.ix[p] = i
  <2>1. S.level[t] # 4 /\ (t = Root => i # PhysIndex) /\ (S.level[t] # 3 => \A j \in Idx : ~n[p][j].present)
    BY <1>10
  <2>2. m \in Memory /\ Tree(m, S)
    BY <1>7
  <2> QED
    BY SMTT(40), <1>4, <1>9, <1>10, <1>11, <1>12, <1>13, <2>1, <2>2, AddPage DEF Tree
<1>15. Way(Z, v, 4, p)
  <2>1. Way(Z, v, 3, t)
    <3>1. 3 \in 0..4
      OBVIOUS
    <3> QED
      BY ZenonT(40), <1>7, <1>14, <3>1, WayLarger
  <2>2. 3 \in 0..3 /\ p \in Z.used /\ Z.up[p] = t /\ Z.ix[p] = Index(v, 3 + 1)
    BY <1>14 DEF i
  <2>3. Way(Z, v, 3 + 1, p)
    BY <1>4, <2>1, <2>2, WayStep
  <2> QED
    BY <2>3
<1>16. Larger(T, Z)
  BY <1>7, <1>14 DEF Larger
<1>17. \A q \in T.used : T.level[q] = 4 => n[q] = mem[q]
  <2> SUFFICES ASSUME NEW q \in T.used, T.level[q] = 4 PROVE n[q] = mem[q]
    OBVIOUS
  <2>1. q \in Pages /\ q # p
    BY <1>1, <1>4 DEF Tree, TreeBut
  <2>2. q # t
    BY <1>7, <1>10 DEF Larger
  <2> QED
    BY <1>7, <1>13, <2>1, <2>2
<1>18. \A q \in Z.used \ T.used : Z.level[q] = 4 => q = p
  BY <1>7, <1>14 DEF Larger
\* The rest of the free list.
<1>19. ASSUME NEW j \in 1..Len(r)
       PROVE  /\ j + c + 1 \in 1..L /\ r[j] = w[j + c + 1] /\ (j = Len(r) <=> j + c + 1 = L)
              /\ r[j] \in Pages \ {0} /\ r[j] \notin Z.used \cup {Root, Identity}
  <2>1. j + c \in 1..(L - 1) /\ (j + c) + 1 \in 1..L /\ (j = Len(r) <=> j + c + 1 = L)
    BY <1>1, <1>7
  <2>2. r[j] = w[j + c + 1]
    BY <1>2, <1>7, <2>1
  <2>3. ASSUME NEW x \in 1..c PROVE avail[x] # r[j]
    <3>1. x \in 1..(L - 1) /\ x + 1 \in 1..L /\ x + 1 # j + c + 1
      BY <1>1, <1>7
    <3> QED
      BY <1>1, <1>2, <2>1, <2>2, <3>1
  <2>4. r[j] # p
    <3>1. 1 \in 1..L /\ 1 # j + c + 1
      BY <1>1, <1>7
    <3> QED
      BY <1>1, <2>1, <2>2, <3>1
  <2>5. r[j] \in Pages \ {0} /\ r[j] \notin T.used /\ r[j] # Root /\ r[j] # Identity
    BY <1>1, <2>1, <2>2
  <2>6. r[j] \notin Z.used
    BY <1>7, <1>14, <2>3, <2>4, <2>5
  <2> QED
    BY <2>1, <2>2, <2>5, <2>6
<1>20. \A j \in 1..Len(r) : n[r[j]] = mem[r[j]]
  <2> SUFFICES ASSUME NEW j \in 1..Len(r) PROVE n[r[j]] = mem[r[j]]
    OBVIOUS
  <2>1. r[j] \in Pages /\ r[j] \notin Nodes(S) /\ r[j] # p /\ r[j] # t
    BY <1>10, <1>14, <1>19 DEF Nodes
  <2> QED
    BY <1>7, <1>13, <2>1
<1>21. Linked(n, IF r = <<>> THEN 0 ELSE Head(r), r)
  <2>1. r \in Seq(Pages \ {0})
    <3>1. Len(r) \in Nat /\ r \in [1..Len(r) -> Pages \ {0}]
      BY <1>7, <1>19, LenProperties
    <3> QED
      BY <3>1
  <2>2. ASSUME NEW x \in 1..Len(r), NEW y \in 1..Len(r), r[x] = r[y] PROVE x = y
    <3>1. x + c + 1 = y + c + 1
      BY <1>1, <1>19, <2>2
    <3> QED
      BY <1>7, <3>1
  <2>3. (IF r = <<>> THEN 0 ELSE Head(r)) = IF Len(r) = 0 THEN 0 ELSE r[1]
    BY <1>7, EmptySeq
  <2>4. ASSUME NEW j \in 1..Len(r) PROVE n[r[j]][0].page = IF j = Len(r) THEN 0 ELSE r[j + 1]
    <3>1. n[r[j]][0].page = IF j + c + 1 = L THEN 0 ELSE w[(j + c + 1) + 1]
      <4>1. n[r[j]] = mem[w[j + c + 1]] /\ j + c + 1 \in 1..L
        BY <1>19, <1>20
      <4> QED
        BY <1>1, <4>1
    <3>2. CASE j = Len(r)
      BY <1>19, <3>1, <3>2
    <3>3. CASE j # Len(r)
      <4>1. j + 1 \in 1..Len(r) /\ (j + 1) + c + 1 = (j + c + 1) + 1
        BY <1>7, <3>3
      <4>2. r[j + 1] = w[(j + 1) + c + 1]
        BY <1>19, <4>1
      <4> QED
        BY <1>19, <3>1, <3>3, <4>1, <4>2
    <3> QED
      BY <3>2, <3>3
  <2> QED
    BY <2>1, <2>2, <2>3, <2>4 DEF Linked
<1>22. Apart(n, IF r = <<>> THEN 0 ELSE Head(r), Z, r)
  BY <1>14, <1>19, <1>21 DEF Apart
\* No page is lost.
<1>23. Z.used \cup InList(r) = T.used \cup InList(w)
  <2>1. ASSUME NEW x \in Z.used \cup InList(r) PROVE x \in T.used \cup InList(w)
    <3>1. CASE x \in InList(r)
      BY <1>19, <3>1 DEF InList, L
    <3>2. CASE x = p
      <4>1. 1 \in 1..L
        BY <1>1
      <4> QED
        BY <1>1, <3>2, <4>1 DEF InList, L
    <3>3. CASE x \in S.used
      <4>1. \A j \in 1..c : j + 1 \in 1..L /\ avail[j] = w[j + 1]
        BY <1>1, <1>2, <1>7
      <4> QED
        BY SMTT(40), <1>7, <3>3, <4>1 DEF InList, L
    <3> QED
      BY <1>14, <2>1, <3>1, <3>2, <3>3
  <2>2. ASSUME NEW k \in 1..L PROVE w[k] \in Z.used \cup InList(r)
    <3>1. CASE k = 1
      BY <1>1, <1>14, <3>1
    <3>2. CASE k \in 2..(c + 1)
      <4>1. k - 1 \in 1..c /\ k - 1 \in 1..(L - 1) /\ (k - 1) + 1 = k
        BY <1>1, <1>7, <3>2
      <4>2. avail[k - 1] = w[k]
        BY <1>2, <4>1
      <4> QED
        BY <1>7, <1>14, <4>1, <4>2
    <3>3. CASE k > c + 1
      <4>1. k - c - 1 \in 1..Len(r) /\ (k - c - 1) + c + 1 = k
        BY <1>1, <1>7, <3>3
      <4>2. r[k - c - 1] = w[k]
        BY <1>19, <4>1
      <4> QED
        BY <4>1, <4>2 DEF InList
    <3> QED
      BY <1>1, <1>7, <3>1, <3>2, <3>3
  <2>3. T.used \subseteq Z.used
    BY <1>7, <1>14
  <2>4. \A x \in InList(w) : x \in Z.used \cup InList(r)
    BY <2>2 DEF InList, L
  <2> QED
    BY <2>1, <2>3, <2>4
<1>24. Len(r) \in Nat /\ Len(r) < L
  BY <1>1, <1>7
<1> QED
  BY <1>13, <1>15, <1>16, <1>17, <1>18, <1>22, <1>23, <1>24 DEF p, r, L, Grows

----------------------------------------------------------------------------
(* What Paging reads from the tables                                       *)

LEMMA SlotsIs ==
  ASSUME NEW A
  PROVE  /\ \A s : s \in Slots(A) <=>
                     \E t \in A, i \in Idx : s = <<t, i>> /\ mem[t][i].present /\ ~(t = Root /\ i = PhysIndex)
         /\ \A q : q \in Below(A) <=>
                     \E t \in A, i \in Idx : mem[t][i].present /\ ~(t = Root /\ i = PhysIndex) /\ mem[t][i].page = q
<1>1. ASSUME NEW s
      PROVE  s \in Slots(A) <=>
               \E t \in A, i \in Idx : s = <<t, i>> /\ mem[t][i].present /\ ~(t = Root /\ i = PhysIndex)
  <2>1. s \in Slots(A) <=> s \in A \X Idx /\ mem[s[1]][s[2]].present /\ s # <<Root, PhysIndex>>
    BY DEF Slots, Idx
  <2>2. s \in A \X Idx <=> \E t \in A, i \in Idx : s = <<t, i>>
    OBVIOUS
  <2>3. \A t, i : <<t, i>> # <<Root, PhysIndex>> <=> ~(t = Root /\ i = PhysIndex)
    OBVIOUS
  <2> QED
    BY <2>1, <2>2, <2>3
<1>2. ASSUME NEW q
      PROVE  q \in Below(A) <=>
               \E t \in A, i \in Idx : mem[t][i].present /\ ~(t = Root /\ i = PhysIndex) /\ mem[t][i].page = q
  <2>1. q \in Below(A) <=> \E s \in Slots(A) : mem[s[1]][s[2]].page = q
    BY DEF Below
  <2>2. ASSUME NEW s \in Slots(A), mem[s[1]][s[2]].page = q
        PROVE  \E t \in A, i \in Idx : mem[t][i].present /\ ~(t = Root /\ i = PhysIndex) /\ mem[t][i].page = q
    <3>1. PICK t \in A, i \in Idx : s = <<t, i>> /\ mem[t][i].present /\ ~(t = Root /\ i = PhysIndex)
      BY <1>1
    <3>2. s[1] = t /\ s[2] = i
      BY <3>1
    <3> QED
      BY <2>2, <3>1, <3>2
  <2>3. ASSUME NEW t \in A, NEW i \in Idx, mem[t][i].present, ~(t = Root /\ i = PhysIndex), mem[t][i].page = q
        PROVE  \E s \in Slots(A) : mem[s[1]][s[2]].page = q
    <3> DEFINE s == <<t, i>>
    <3>1. s \in Slots(A)
      BY <1>1, <2>3
    <3>2. s[1] = t /\ s[2] = i
      OBVIOUS
    <3> HIDE DEF s
    <3> QED
      BY <2>3, <3>1, <3>2
  <2> QED
    BY <2>1, <2>2, <2>3
<1> QED
  BY <1>1, <1>2

\* The pages entries of some tables of a tree lead to are those above which
\* these tables are.
LEMMA BelowIs ==
  ASSUME NEW T, Tree(mem, T), NEW A, A \subseteq {t \in Nodes(T) : T.level[t] # 4}
  PROVE  Below(A) = {q \in T.used : T.up[q] \in A}
<1>1. ASSUME NEW q \in Below(A) PROVE q \in T.used /\ T.up[q] \in A
  <2>1. PICK t \in A, i \in Idx : mem[t][i].present /\ ~(t = Root /\ i = PhysIndex) /\ mem[t][i].page = q
    BY <1>1, SlotsIs
  <2>2. t \in Nodes(T) /\ T.level[t] # 4 /\ (t = Root => i # PhysIndex)
    BY <2>1
  <2> QED
    BY <2>1, <2>2 DEF Tree, TreeBut
<1>2. ASSUME NEW q \in T.used, T.up[q] \in A PROVE q \in Below(A)
  <2>1. /\ T.ix[q] \in Idx /\ mem[T.up[q]][T.ix[q]].present /\ mem[T.up[q]][T.ix[q]].page = q
        /\ ~(T.up[q] = Root /\ T.ix[q] = PhysIndex)
    BY DEF Tree, TreeBut
  <2> QED
    BY <1>2, <2>1, SlotsIs
<1> QED
  BY <1>1, <1>2

\* A tree's tables, its entries and its pages.
LEMMA TreeSets ==
  \A T : Tree(mem, T) =>
    /\ Taken = T.used
    /\ \A s, t \in Slots(Tables) : mem[s[1]][s[2]].page = mem[t[1]][t[2]].page => s = t
<1> SUFFICES ASSUME NEW T, Tree(mem, T)
             PROVE  /\ Taken = T.used
                    /\ \A s, t \in Slots(Tables) : mem[s[1]][s[2]].page = mem[t[1]][t[2]].page => s = t
  OBVIOUS
<1> DEFINE pdpts == Below({Root})
           pdts == Below(pdpts)
           pts == Below(pdts)
           Inner == {t \in Nodes(T) : T.level[t] # 4}
<1>1. /\ T.level \in [Nodes(T) -> 0..4] /\ T.level[Root] = 0 /\ Root \in Nodes(T)
      /\ \A q \in T.used : T.up[q] \in Nodes(T) /\ q \in Nodes(T) /\ q # Root /\ T.level[q] = T.level[T.up[q]] + 1
      /\ \A q \in T.used : T.level[T.up[q]] # 4
      /\ \A q \in Nodes(T) : q # Root => q \in T.used
  BY DEF Tree, TreeBut, Nodes
<1>2. \A q \in T.used : T.level[q] \in 1..4 /\ T.level[T.up[q]] \in 0..3
  BY <1>1
<1>3. \A q \in Nodes(T) : T.level[q] = 0 <=> q = Root
  BY <1>1, <1>2
<1>4. pdpts = {q \in T.used : T.level[q] = 1}
  <2>1. {Root} \subseteq Inner
    BY <1>1
  <2>2. pdpts = {q \in T.used : T.up[q] \in {Root}}
    BY <2>1, BelowIs
  <2> HIDE DEF pdpts
  <2>3. \A q \in T.used : T.up[q] = Root <=> T.level[q] = 1
    BY <1>1, <1>2, <1>3
  <2> QED
    BY <2>2, <2>3
<1> HIDE DEF pdpts
<1>5. pdts = {q \in T.used : T.level[q] = 2}
  <2>1. pdpts \subseteq Inner
    BY <1>1, <1>4
  <2>2. pdts = {q \in T.used : T.up[q] \in pdpts}
    BY <2>1, BelowIs
  <2> HIDE DEF pdts
  <2>3. \A q \in T.used : T.up[q] \in pdpts <=> T.level[q] = 2
    BY <1>1, <1>2, <1>3, <1>4
  <2> QED
    BY <2>2, <2>3
<1> HIDE DEF pdts
<1>6. pts = {q \in T.used : T.level[q] = 3}
  <2>1. pdts \subseteq Inner
    BY <1>1, <1>5
  <2>2. pts = {q \in T.used : T.up[q] \in pdts}
    BY <2>1, BelowIs
  <2> HIDE DEF pts
  <2>3. \A q \in T.used : T.up[q] \in pdts <=> T.level[q] = 3
    BY <1>1, <1>2, <1>3, <1>5
  <2> QED
    BY <2>2, <2>3
<1>7. Tables = Inner
  <2>1. Tables = {Root} \cup pdpts \cup pdts \cup pts
    BY DEF Tables, pdpts, pdts
  <2> HIDE DEF pts
  <2>2. \A t \in Nodes(T) : T.level[t] # 4 <=> t = Root \/ T.level[t] = 1 \/ T.level[t] = 2 \/ T.level[t] = 3
    BY <1>1, <1>3
  <2> QED
    BY <1>1, <1>4, <1>5, <1>6, <2>1, <2>2
<1>8. Taken = T.used
  <2>1. Taken = {q \in T.used : T.up[q] \in Tables}
    BY <1>7, BelowIs DEF Taken
  <2> QED
    BY <1>1, <1>7, <2>1
<1>9. ASSUME NEW s \in Slots(Tables), NEW t \in Slots(Tables), mem[s[1]][s[2]].page = mem[t[1]][t[2]].page
      PROVE  s = t
  <2>1. PICK a \in Inner, i \in Idx : s = <<a, i>> /\ mem[a][i].present /\ ~(a = Root /\ i = PhysIndex)
    BY <1>7, SlotsIs
  <2>2. PICK b \in Inner, j \in Idx : t = <<b, j>> /\ mem[b][j].present /\ ~(b = Root /\ j = PhysIndex)
    BY <1>7, SlotsIs
  <2>3. mem[a][i].page = mem[b][j].page
    BY <1>9, <2>1, <2>2
  <2>4. T.up[mem[a][i].page] = a /\ T.ix[mem[a][i].page] = i
    BY <2>1 DEF Tree, TreeBut
  <2>5. T.up[mem[b][j].page] = b /\ T.ix[mem[b][j].page] = j
    BY <2>2 DEF Tree, TreeBut
  <2> QED
    BY <2>1, <2>2, <2>3, <2>4, <2>5
<1> QED
  BY <1>8, <1>9

----------------------------------------------------------------------------
(* The invariant                                                           *)

\* The pages that were free when the kernel started.
FreeAtStart == {p \in Pages \ {0} : <<p, "MMAP_FREE">> \in PagesAndTypes(mmap)}

KInv(T, w) ==
  /\ mem \in Memory /\ next_free_page \in Pages
  /\ memory_size \in Nat /\ used_memory \in Nat /\ reserved_memory \in Nat /\ free_memory \in Nat
  /\ curr_brk \in Nat
  /\ Apart(mem, next_free_page, T, w)
  /\ FreeAtStart = (T.used \cup InList(w)) \ BootPages
  /\ free_memory = Len(w)
  /\ memory_size = used_memory + reserved_memory + free_memory
  /\ memory_size = Cardinality(PagesAndTypes(mmap))

IInv == Counting => \E T, w : KInv(T, w)

\* The invariant says what Paging says,
LEMMA InvariantSays == IInv => TypeOK /\ PagesApart /\ CountersAgree
<1> SUFFICES ASSUME IInv, Counting
             PROVE  TypeOK /\ PagesApart /\ CountersAgree
  BY DEF TypeOK, PagesApart, CountersAgree
<1>1. PICK T, w : KInv(T, w)
  BY DEF IInv
<1>2. mem \in Memory /\ next_free_page \in Pages /\ Apart(mem, next_free_page, T, w)
  BY <1>1 DEF KInv
<1>3. Tree(mem, T) /\ Linked(mem, next_free_page, w)
      /\ \A i \in 1..Len(w) : w[i] \notin T.used \cup {Root, Identity}
  BY <1>2 DEF Apart
<1>4. FreeList = w
  BY <1>2, <1>3, FreeListIs
<1>5. Taken = T.used
  BY <1>3, TreeSets
<1>6. \A s, t \in Slots(Tables) : mem[s[1]][s[2]].page = mem[t[1]][t[2]].page => s = t
  BY <1>3, TreeSets
<1>7. Len(w) \in Nat /\ Len(w) <= Cardinality(Pages) /\ DOMAIN w = 1..Len(w)
  BY <1>3, LinkedShort
<1>8. ToSet(FreeList) = InList(w)
  BY <1>4, <1>7 DEF ToSet, InList
<1>9. IsInjective(FreeList)
  <2>1. \A i, j \in 1..Len(w) : w[i] = w[j] => i = j
    BY <1>3 DEF Linked
  <2> QED
    BY <1>4, <1>7, <2>1 DEF IsInjective
<1>10. Taken \cap (ToSet(FreeList) \cup {Root, Identity}) = {} /\ ToSet(FreeList) \cap {Root, Identity} = {}
  <2>1. \A p \in InList(w) : p \notin T.used /\ p # Root /\ p # Identity
    BY <1>3 DEF InList
  <2>2. Root \notin T.used /\ Identity \notin T.used
    BY <1>3 DEF Tree, TreeBut
  <2> QED
    BY <1>5, <1>8, <2>1, <2>2
<1>11. FreeAtStart = (Taken \cup ToSet(FreeList)) \ BootPages
  BY <1>1, <1>5, <1>8 DEF KInv
<1>12. PagesApart
  <2>1. Len(FreeList) <= Cardinality(Pages)
    BY <1>4, <1>7
  <2> QED
    BY <1>6, <1>9, <1>10, <1>11, <2>1 DEF PagesApart, FreeAtStart
<1>13. TypeOK
  BY <1>1 DEF KInv, TypeOK, Memory, Words, Idx
<1>14. CountersAgree
  BY <1>1, <1>4 DEF KInv, CountersAgree
<1> QED
  BY <1>12, <1>13, <1>14

----------------------------------------------------------------------------
(* What mapping takes                                                      *)

\* The tables the CPU's walk does not find are those the tree lacks.
LEMMA MissingIs ==
  ASSUME NEW T, NEW X, TreeBut(mem, T, X), NEW V, V \subseteq Virtual, \A v \in V : Index(v, 1) \notin X
  PROVE  Missing(V) = Lacks(T, V)
<1>1. ASSUME NEW k \in 1..3, NEW v \in V PROVE Reached(v, k) = NoPage <=> ~Has(T, v, k)
  <2>1. k \in 1..4 /\ v \in Virtual /\ Index(v, 1) \notin X
    OBVIOUS
  <2>2. /\ Reached(v, k) # NoPage => Way(T, v, k, Reached(v, k))
        /\ \A p : Way(T, v, k, p) => Reached(v, k) = p /\ p # NoPage
    BY <2>1, ReachedIs
  <2> QED
    BY <2>2 DEF Has
<1>2. \A x : x \in Missing(V) <=> \E k \in 1..3, v \in V : Reached(v, k) = NoPage /\ x = <<k, Prefix(v, k)>>
  BY DEF Missing
<1>3. \A x : x \in Lacks(T, V) <=> \E k \in 1..3, v \in V : ~Has(T, v, k) /\ x = <<k, Prefix(v, k)>>
  BY LacksIs
<1> QED
  BY <1>1, <1>2, <1>3

\* From these pages as many are taken as are missing, or there are fewer.
Takes(done, supply, missing) ==
  IF done.short THEN Len(supply) < missing
  ELSE done.supply = SubSeq(supply, missing + 1, Len(supply))

\* What is left when the first c are taken.
LEMMA RestIs ==
  ASSUME NEW s \in Seq(Pages), NEW c \in 0..Len(s), NEW r \in Seq(Pages),
         Len(r) = Len(s) - c, \A i \in 1..Len(r) : r[i] = s[i + c]
  PROVE  r = SubSeq(s, c + 1, Len(s))
<1> DEFINE n == Len(s)
           q == SubSeq(s, c + 1, n)
<1>1. n \in Nat /\ s \in [1..n -> Pages]
  BY LenProperties
<1> HIDE DEF n
<1>2. q = [i \in 1..(n - c) |-> s[i + c]]
  <2>1. q = [i \in 1..(n - (c + 1) + 1) |-> s[i + (c + 1) - 1]]
    BY <1>1
  <2>2. c \in Nat
    BY <1>1 DEF n
  <2>3. n - (c + 1) + 1 = n - c /\ \A i \in 1..(n - c) : i + (c + 1) - 1 = i + c
    BY <1>1, <2>2
  <2> HIDE DEF q
  <2> QED
    BY <2>1, <2>3
<1>3. r = [i \in 1..(n - c) |-> r[i]]
  <2>1. r \in [1..Len(r) -> Pages]
    BY LenProperties
  <2>2. Len(r) = n - c
    BY DEF n
  <2> QED
    BY <2>1, <2>2
<1>4. \A i \in 1..(n - c) : r[i] = s[i + c]
  BY DEF n
<1>5. r = q
  <2> HIDE DEF q
  <2> QED
    BY <1>2, <1>3, <1>4
<1> QED
  BY <1>5 DEF n

\* One page fault takes the page it maps, and behind it a page for each table
\* that is missing.
LEMMA FaultTakes ==
  ASSUME NEW T, NEW w, KInv(T, w), w # <<>>, NEW v \in Touched
  PROVE  Takes(MapPage(Start(Tail(w)), v, next_free_page), Tail(w), Cardinality(Missing({v})))
<1> DEFINE avail == Tail(w)
           before == Start(avail)
           done == MapPage(before, v, next_free_page)
           missing == Cardinality(Missing({v}))
<1>1. mem \in Memory /\ Apart(mem, next_free_page, T, w) /\ Tree(mem, T) /\ Linked(mem, next_free_page, w)
      /\ next_free_page \in Pages
  BY DEF KInv, Apart
<1>2. v \in Virtual /\ Index(v, 1) \notin {PhysIndex} /\ TreeBut(mem, T, {PhysIndex})
  BY <1>1, TouchedAssumption DEF Virtual, Tree
<1>3. Missing({v}) = Lacks(T, {v}) /\ IsFiniteSet({v})
  BY <1>2, MissingIs, FS_Singleton
<1>4. /\ avail \in Seq(Pages) /\ Len(w) # 0 /\ Len(avail) = Len(w) - 1
      /\ \A j \in 1..Len(avail) : avail[j] = w[j + 1]
  <2>1. w \in Seq(Pages)
    BY <1>1 DEF Linked
  <2> QED
    BY <2>1, HeadTailProperties, EmptySeq
<1> HIDE DEF avail
<1>5. Fresh(T, avail)
  BY <1>1, <1>4, TailFresh
<1>6. before \in Walks /\ before.mem = mem /\ before.supply = avail /\ ~before.short
  BY <1>1, <1>4, PagingAssumption DEF Start, Walks
<1> HIDE DEF before
<1>7. /\ ~done.short => Arrived(done, mem, T, {PhysIndex}, avail, v, next_free_page)
      /\ done.short => \A V \in SUBSET Virtual : IsFiniteSet(V) /\ v \in V => Len(avail) < Cardinality(Lacks(T, V))
  <2>1. TreeBut(before.mem, T, {PhysIndex}) /\ Fresh(T, before.supply)
    BY <1>2, <1>5, <1>6
  <2>2. LET d == MapPage(before, v, next_free_page)
        IN /\ ~d.short => Arrived(d, before.mem, T, {PhysIndex}, before.supply, v, next_free_page)
           /\ ~before.short /\ d.short =>
                \A V \in SUBSET Virtual :
                  IsFiniteSet(V) /\ v \in V => Len(before.supply) < Cardinality(Lacks(T, V))
    BY <1>1, <1>2, <1>6, <2>1, MapPageIs
  <2> QED
    BY <1>6, <2>2
<1> HIDE DEF done
<1>8. ASSUME ~done.short PROVE done.supply = SubSeq(avail, missing + 1, Len(avail))
  <2>1. PICK at, S, c : Walking(at, mem, T, {PhysIndex}, avail, v, 3, S, c) /\ done.supply = at.supply
    BY <1>7, <1>8 DEF Arrived
  <2>2. /\ Way(S, v, 3, at.page) /\ c \in 0..Len(avail) /\ at.supply \in Seq(Pages)
        /\ Len(at.supply) = Len(avail) - c /\ \A i \in 1..Len(at.supply) : at.supply[i] = avail[i + c]
        /\ Counted(T, S, c, v)
    BY <2>1 DEF Walking, Walks
  <2>3. Lacks(S, {v}) = {}
    <3>1. Way(S, v, 3, at.page) /\ 3 \in 0..4
      BY <2>2
    <3>2. Has(S, v, 1) /\ Has(S, v, 2) /\ Has(S, v, 3)
      BY <3>1, HasAbove
    <3>3. \A k \in 1..3 : k = 1 \/ k = 2 \/ k = 3
      OBVIOUS
    <3>4. \A x : x \notin Lacks(S, {v})
      BY <3>2, <3>3, LacksIs
    <3> QED
      BY <3>4
  <2>4. Cardinality(Lacks(T, {v})) = Cardinality(Lacks(S, {v})) + c
    BY <1>2, <1>3, <2>2 DEF Counted
  <2>5. Len(avail) \in Nat /\ c \in Nat
    BY <1>4, <2>2, LenProperties
  <2>6. missing = c
    <3>1. Cardinality(Lacks(S, {v})) = 0
      BY <2>3, FS_EmptySet
    <3>2. Cardinality(Lacks(T, {v})) = 0 + c
      BY <2>4, <3>1
    <3>3. 0 + c = c
      BY <2>5
    <3> QED
      BY <1>3, <3>2, <3>3
  <2> HIDE DEF missing
  <2> QED
    BY <1>4, <2>1, <2>2, <2>6, RestIs
<1>9. done.short => Len(avail) < missing
  BY <1>2, <1>3, <1>7
<1>10. Takes(done, avail, missing)
  BY <1>8, <1>9 DEF Takes
<1> QED
  BY <1>10 DEF done, before, avail

----------------------------------------------------------------------------
(* The steps of the kernel                                                 *)

\* A page fault that is served makes the tree larger by v's page.
Grown(v, T, w, Z, r) ==
  /\ mem' \in Memory /\ next_free_page' \in Pages
  /\ Apart(mem', next_free_page', Z, r)
  /\ Z.used \cup InList(r) = T.used \cup InList(w)
  /\ Larger(T, Z) /\ Way(Z, v, 4, next_free_page)
  /\ mem'[next_free_page] = ZeroPage
  /\ \A q \in T.used : T.level[q] = 4 => mem'[q] = mem[q]
  /\ \A q \in Z.used \ T.used : Z.level[q] = 4 => q = next_free_page
  /\ Len(r) \in Nat /\ Len(r) <= Len(w)
  /\ CountTaken(Len(w) - Len(r))
  /\ UNCHANGED <<memory_size, reserved_memory>>

LEMMA FaultGrows ==
  ASSUME mem \in Memory, next_free_page \in Pages,
         NEW T, NEW w, Apart(mem, next_free_page, T, w), NEW v \in Touched, NEW start, PageFault(v, start)
  PROVE  \/ UNCHANGED <<mem, next_free_page, counters>>
         \/ Translate(v) = NoPage /\ \E Z, r : Grown(v, T, w, Z, r)
<1> DEFINE avail == SubSeq(w, 2, Len(w))
           done == MapPage(Start(avail), v, next_free_page)
<1>1. Linked(mem, next_free_page, w)
  BY DEF Apart
<1>2. FreeList = w
  BY <1>1, FreeListIs
<1>3. Len(w) \in Nat /\ w \in [1..Len(w) -> Pages \ {0}]
  BY <1>1, LinkedShort
<1>4. Translate(v) = NoPage
  BY DEF PageFault
<1>5. \/ UNCHANGED <<mem, next_free_page, counters>>
      \/ /\ next_free_page # 0 /\ ~done.short
         /\ mem' = [done.mem EXCEPT ![next_free_page] = ZeroPage]
         /\ next_free_page' = IF done.supply = <<>> THEN 0 ELSE Head(done.supply)
         /\ CountTaken(Len(w) - Len(done.supply))
         /\ UNCHANGED <<memory_size, reserved_memory>>
  BY <1>2 DEF PageFault
<1>6. ASSUME next_free_page # 0, ~done.short,
             mem' = [done.mem EXCEPT ![next_free_page] = ZeroPage],
             next_free_page' = IF done.supply = <<>> THEN 0 ELSE Head(done.supply),
             CountTaken(Len(w) - Len(done.supply)), UNCHANGED <<memory_size, reserved_memory>>
      PROVE  \E Z, r : Grown(v, T, w, Z, r)
  <2>1. Len(w) # 0
    BY <1>1, <1>6 DEF Linked
  <2>2. avail \in Seq(Pages) /\ Len(avail) = Len(w) - 1 /\ \A j \in 1..Len(avail) : avail[j] = w[j + 1]
    <3>1. Len(w) \in Int /\ 2 \in Int /\ \A j \in 2..Len(w) : w[j] \in Pages
      BY <1>3
    <3>2. /\ avail \in Seq(Pages) /\ Len(avail) = (IF 2 <= Len(w) THEN Len(w) - 2 + 1 ELSE 0)
          /\ \A j \in 1..(Len(w) - 2 + 1) : avail[j] = w[2 + j - 1]
      BY <3>1, SubSeqProperties
    <3> HIDE DEF avail
    <3>3. \A j \in 1..(Len(w) - 1) : j \in 1..(Len(w) - 2 + 1) /\ 2 + j - 1 = j + 1
      BY <1>3
    <3>4. Len(avail) = Len(w) - 1
      <4> DEFINE L == Len(w)
      <4>1. L \in Nat /\ L # 0 /\ Len(avail) = (IF 2 <= L THEN L - 2 + 1 ELSE 0)
        BY <1>3, <2>1, <3>2
      <4> HIDE DEF L
      <4>2. Len(avail) = L - 1
        BY <4>1
      <4> QED
        BY SMTT(40), <4>2 DEF L
    <3> QED
      BY <3>2, <3>3, <3>4
  <2> HIDE DEF avail
  <2>3. done = MapPage(Start(avail), v, next_free_page)
    OBVIOUS
  <2> HIDE DEF done
  <2> DEFINE n == mem'
             f == IF done.supply = <<>> THEN 0 ELSE Head(done.supply)
  <2>4. n = [done.mem EXCEPT ![next_free_page] = ZeroPage] /\ next_free_page' = f
    BY <1>6
  <2> HIDE DEF n
  <2>5. PICK Z : Grows(n, T, w, v, Z, done.supply)
    BY <1>4, <1>6, <2>1, <2>2, <2>3, <2>4, FaultStep
  <2>6. Apart(n, f, Z, done.supply)
    BY <2>5 DEF Grows
  <2> HIDE DEF f
  <2>7. f \in Pages
    <3>1. Linked(n, f, done.supply)
      BY <2>6 DEF Apart
    <3>2. 0 \in Pages
      BY PagingAssumption
    <3>3. done.supply \in [1..Len(done.supply) -> Pages \ {0}] /\ Len(done.supply) \in Nat
      BY <3>1, LinkedShort
    <3> QED
      BY <3>1, <3>2, <3>3 DEF Linked
  <2>8. Len(done.supply) \in Nat /\ Len(done.supply) <= Len(w)
    BY <1>3, <2>5 DEF Grows
  <2> QED
    BY <1>6, <2>4, <2>5, <2>6, <2>7, <2>8 DEF Grows, Grown, n
<1> QED
  BY <1>4, <1>5, <1>6

\* What is written outside of the tables and the free list disturbs neither.
LEMMA StoreApart ==
  ASSUME NEW m, NEW first, NEW T, NEW w, Apart(m, first, T, w), NEW n, NEW p \in T.used, T.level[p] = 4,
         \A q \in Pages : q # p => n[q] = m[q]
  PROVE  Apart(n, first, T, w)
<1>1. Tree(m, T) /\ Linked(m, first, w) /\ \A i \in 1..Len(w) : w[i] \notin T.used \cup {Root, Identity}
  BY DEF Apart
<1>2. \A t \in Nodes(T) : T.level[t] # 4 => n[t] = m[t]
  <2>1. Root \in Pages
    BY PagingAssumption
  <2>2. \A t \in Nodes(T) : t \in Pages
    BY <1>1, <2>1 DEF Tree, TreeBut, Nodes
  <2> QED
    BY <2>2
<1>3. Tree(n, T)
  <2>1. ASSUME NEW q \in T.used
        PROVE  /\ T.level[T.up[q]] # 4 /\ T.level[q] = T.level[T.up[q]] + 1
               /\ n[T.up[q]][T.ix[q]].present /\ n[T.up[q]][T.ix[q]].page = q
               /\ T.up[q] = Root => T.ix[q] # PhysIndex
    <3>1. T.up[q] \in Nodes(T) /\ T.level[T.up[q]] # 4
      BY <1>1 DEF Tree, TreeBut
    <3>2. n[T.up[q]] = m[T.up[q]]
      BY <1>2, <3>1
    <3> QED
      BY <1>1, <3>2 DEF Tree, TreeBut
  <2>2. ASSUME NEW t \in Nodes(T), NEW i \in Idx, T.level[t] # 4, n[t][i].present, t = Root => i # PhysIndex
        PROVE  n[t][i].page \in T.used /\ T.up[n[t][i].page] = t /\ T.ix[n[t][i].page] = i
    BY <1>1, <1>2, <2>2 DEF Tree, TreeBut
  <2> QED
    BY <1>1, <2>1, <2>2 DEF Tree, TreeBut
<1>4. Linked(n, first, w)
  <2>1. ASSUME NEW i \in 1..Len(w) PROVE n[w[i]] = m[w[i]]
    <3>1. w[i] \in Pages /\ w[i] # p
      BY <1>1, LinkedShort
    <3> QED
      BY <3>1
  <2> QED
    BY <1>1, <2>1 DEF Linked
<1> QED
  BY <1>1, <1>3, <1>4 DEF Apart

\* A store reaches the data page of its virtual page.
Stored(T, v, word) ==
  /\ Way(T, v, 4, Translate(v)) /\ Translate(v) \in T.used /\ T.level[Translate(v)] = 4
  /\ Translate(v) \in Pages
  /\ mem' \in Memory
  /\ \A q \in Pages : q # Translate(v) => mem'[q] = mem[q]
  /\ mem'[Translate(v)] = [mem[Translate(v)] EXCEPT ![0] = word]

LEMMA StoreReaches ==
  ASSUME mem \in Memory, NEW T, Tree(mem, T), NEW v \in Touched, NEW word \in {Zero, Garbage}, Store(v, 0, word)
  PROVE  Stored(T, v, word)
<1> DEFINE p == Translate(v)
<1>1. p # NoPage /\ mem' = [mem EXCEPT ![p][0] = word]
  BY DEF Store
<1>2. Way(T, v, 4, p)
  <2>1. 4 \in 1..4 /\ p = Reached(v, 4)
    BY DEF Translate
  <2> HIDE DEF p
  <2> QED
    BY <1>1, <2>1, ReachedIs, TouchedAssumption DEF Virtual, Tree
<1> HIDE DEF p
<1>3. p \in Nodes(T) /\ T.level[p] = 4 /\ p \in T.used
  <2>1. 4 \in 0..4 /\ 4 > 0
    OBVIOUS
  <2> QED
    BY <1>2, <2>1, WayNode DEF Tree
<1>4. p \in Pages
  BY <1>3 DEF Tree, TreeBut
<1>5. word \in Words /\ 0 \in Idx
  <2>1. 0 \in Pages
    BY PagingAssumption
  <2>2. Zero \in Words /\ Garbage \in Words
    BY <2>1 DEF Zero, Garbage, Word, Words
  <2> QED
    BY <2>2, IdxFacts
<1>6. /\ mem' \in Memory /\ mem'[p] = [mem[p] EXCEPT ![0] = word]
      /\ \A q \in Pages : q # p => mem'[q] = mem[q]
  BY <1>1, <1>4, <1>5 DEF Memory
<1> QED
  BY <1>2, <1>3, <1>4, <1>6 DEF p, Stored

LEMMA KInvSame ==
  ASSUME NEW T, NEW w, KInv(T, w), UNCHANGED <<mem, next_free_page, counters, mmap>>, curr_brk' \in Nat
  PROVE  KInv(T, w)'
<1>1. FreeAtStart' = FreeAtStart
  BY DEF FreeAtStart, PagesAndTypes
<1>2. PagesAndTypes(mmap)' = PagesAndTypes(mmap)
  BY DEF PagesAndTypes
<1>3. Apart(mem, next_free_page, T, w)'
  <2>1. mem' = mem /\ next_free_page' = next_free_page
    OBVIOUS
  <2> QED
    BY <2>1 DEF KInv
<1> QED
  BY <1>1, <1>2, <1>3 DEF KInv, counters

LEMMA FaultKeeps ==
  ASSUME NEW T, NEW w, KInv(T, w), NEW v \in Touched, NEW start, PageFault(v, start)
  PROVE  \E Z, r : KInv(Z, r)'
<1>1. mem \in Memory /\ next_free_page \in Pages /\ Apart(mem, next_free_page, T, w) /\ curr_brk \in Nat
  BY DEF KInv
<1>2. UNCHANGED mmap /\ UNCHANGED curr_brk
  BY DEF PageFault
<1>3. CASE UNCHANGED <<mem, next_free_page, counters>>
  <2>1. UNCHANGED <<mem, next_free_page, counters, mmap>> /\ curr_brk' \in Nat
    BY <1>1, <1>2, <1>3
  <2>2. KInv(T, w)'
    BY <2>1, KInvSame
  <2> QED
    BY <2>2
<1>4. ASSUME NEW Z, NEW r, Grown(v, T, w, Z, r) PROVE KInv(Z, r)'
  <2>1. FreeAtStart' = FreeAtStart
    BY <1>2 DEF FreeAtStart, PagesAndTypes
  <2>2. PagesAndTypes(mmap)' = PagesAndTypes(mmap)
    BY <1>2 DEF PagesAndTypes
  <2>3. FreeAtStart' = (Z.used \cup InList(r)) \ BootPages
    BY <1>4, <2>1 DEF KInv, Grown
  <2>4. /\ used_memory \in Nat /\ free_memory \in Nat /\ memory_size \in Nat /\ reserved_memory \in Nat
        /\ free_memory = Len(w) /\ memory_size = used_memory + reserved_memory + free_memory
    BY DEF KInv
  <2>5. /\ used_memory' = used_memory + (Len(w) - Len(r)) /\ free_memory' = free_memory - (Len(w) - Len(r))
        /\ memory_size' = memory_size /\ reserved_memory' = reserved_memory
        /\ Len(r) \in Nat /\ Len(r) <= Len(w)
    BY <1>4 DEF Grown, CountTaken
  <2>6. /\ used_memory' \in Nat /\ free_memory' \in Nat
        /\ free_memory' = Len(r) /\ memory_size' = used_memory' + reserved_memory' + free_memory'
    BY <2>4, <2>5
  <2>7. memory_size' = Cardinality(PagesAndTypes(mmap))'
    BY <2>2, <2>5 DEF KInv
  <2>8. mem' \in Memory /\ next_free_page' \in Pages /\ Apart(mem', next_free_page', Z, r)
    BY <1>4 DEF Grown
  <2> QED
    BY <1>1, <1>2, <2>3, <2>4, <2>5, <2>6, <2>7, <2>8 DEF KInv
<1>5. CASE \E Z, r : Grown(v, T, w, Z, r)
  BY <1>4, <1>5
<1> QED
  BY <1>1, <1>3, <1>5, FaultGrows

LEMMA StoreKeeps ==
  ASSUME NEW T, NEW w, KInv(T, w), NEW v \in Touched, NEW word \in {Zero, Garbage}, Store(v, 0, word)
  PROVE  KInv(T, w)'
<1>1. mem \in Memory /\ Tree(mem, T) /\ Apart(mem, next_free_page, T, w)
  BY DEF KInv, Apart
<1>2. /\ Translate(v) \in T.used /\ T.level[Translate(v)] = 4 /\ mem' \in Memory
      /\ \A q \in Pages : q # Translate(v) => mem'[q] = mem[q]
  <2>1. Stored(T, v, word)
    BY <1>1, StoreReaches
  <2> QED
    BY <2>1 DEF Stored
<1>3. UNCHANGED <<next_free_page, counters, mmap, curr_brk>>
  BY DEF Store
<1>4. Apart(mem', next_free_page, T, w)
  BY <1>1, <1>2, StoreApart
<1>5. FreeAtStart' = FreeAtStart
  BY <1>3 DEF FreeAtStart, PagesAndTypes
<1>6. PagesAndTypes(mmap)' = PagesAndTypes(mmap)
  BY <1>3 DEF PagesAndTypes
<1>7. Apart(mem, next_free_page, T, w)'
  BY <1>3, <1>4
<1> QED
  BY <1>2, <1>3, <1>5, <1>6, <1>7 DEF KInv, counters

----------------------------------------------------------------------------
(* What the kernel sees                                                    *)

\* A virtual page has the contents of the page its way leads to.
LEMMA ContentsIs ==
  \A T : phase = "kernel" /\ Tree(mem, T) =>
    \A v \in Touched : /\ \A p : Way(T, v, 4, p) => Translate(v) = p /\ Contents[v] = mem[p]
                       /\ Translate(v) # NoPage => Way(T, v, 4, Translate(v))
                       /\ Translate(v) = NoPage => Contents[v] = <<>>
<1> SUFFICES ASSUME NEW T, phase = "kernel", Tree(mem, T), NEW v \in Touched
             PROVE  /\ \A p : Way(T, v, 4, p) => Translate(v) = p /\ Contents[v] = mem[p]
                    /\ Translate(v) # NoPage => Way(T, v, 4, Translate(v))
                    /\ Translate(v) = NoPage => Contents[v] = <<>>
  OBVIOUS
<1>1. 4 \in 1..4 /\ Translate(v) = Reached(v, 4)
  BY DEF Translate
<1>2. /\ Translate(v) # NoPage => Way(T, v, 4, Translate(v))
      /\ \A p : Way(T, v, 4, p) => Translate(v) = p /\ p # NoPage
  BY <1>1, ReachedIs, TouchedAssumption DEF Virtual, Tree
<1>3. Contents[v] = IF Translate(v) = NoPage THEN <<>> ELSE mem[Translate(v)]
  BY DEF Contents
<1> QED
  BY <1>2, <1>3

LEMMA ContentsIsNext ==
  (\A T : phase = "kernel" /\ Tree(mem, T) =>
     \A v \in Touched : /\ \A p : Way(T, v, 4, p) => Translate(v) = p /\ Contents[v] = mem[p]
                        /\ Translate(v) # NoPage => Way(T, v, 4, Translate(v))
                        /\ Translate(v) = NoPage => Contents[v] = <<>>)'
BY ContentsIs, PTL

LEMMA ContentsSame == UNCHANGED <<phase, mem>> => UNCHANGED Contents
BY DEF Contents, Translate, Reached, Follow

LEMMA FaultTouches ==
  ASSUME phase = "kernel", NEW T, NEW w, KInv(T, w), NEW v \in Touched, NEW start, PageFault(v, start)
  PROVE  AS!ATouch(v) \/ UNCHANGED Contents
<1>1. /\ mem \in Memory /\ next_free_page \in Pages /\ Apart(mem, next_free_page, T, w) /\ Tree(mem, T)
  BY DEF KInv, Apart
<1>2. phase' = phase
  BY DEF PageFault
<1>3. CASE UNCHANGED <<mem, next_free_page, counters>>
  BY <1>2, <1>3, ContentsSame
<1>4. ASSUME Translate(v) = NoPage, NEW Z, NEW r, Grown(v, T, w, Z, r) PROVE AS!ATouch(v)
  <2>1. /\ Tree(mem', Z) /\ Larger(T, Z) /\ Way(Z, v, 4, next_free_page)
        /\ mem'[next_free_page] = ZeroPage
        /\ \A q \in T.used : T.level[q] = 4 => mem'[q] = mem[q]
        /\ \A q \in Z.used \ T.used : Z.level[q] = 4 => q = next_free_page
    BY <1>4 DEF Grown, Apart
  <2> DEFINE m == mem'
             C == Contents'
             Tr(u) == Translate(u)'
  <2>2. \A u \in Touched : /\ \A p : Way(Z, u, 4, p) => Tr(u) = p /\ C[u] = m[p]
                           /\ Tr(u) # NoPage => Way(Z, u, 4, Tr(u))
                           /\ Tr(u) = NoPage => C[u] = <<>>
    BY <1>2, <2>1, ContentsIsNext
  <2>3. C[v] = ZeroPage
    BY <2>1, <2>2
  <2>4. Contents[v] = <<>>
    BY <1>1, <1>4, ContentsIs
  <2>5. ASSUME NEW u \in Touched, u # v PROVE C[u] = Contents[u]
    <3>1. /\ \A p : Way(T, u, 4, p) => Translate(u) = p /\ Contents[u] = mem[p]
          /\ Translate(u) # NoPage => Way(T, u, 4, Translate(u))
          /\ Translate(u) = NoPage => Contents[u] = <<>>
      BY <1>1, ContentsIs
    <3>2. CASE Translate(u) # NoPage
      <4> DEFINE p == Translate(u)
      <4>1. Way(T, u, 4, p) /\ Contents[u] = mem[p]
        BY <3>1, <3>2
      <4> HIDE DEF p
      <4>2. 4 \in 0..4 /\ 4 > 0
        OBVIOUS
      <4>3. p \in T.used /\ T.level[p] = 4
        BY <1>1, <4>1, <4>2, WayNode DEF Tree
      <4>4. Way(Z, u, 4, p)
        BY <2>1, <4>1, <4>2, WayLarger
      <4>5. C[u] = m[p]
        BY <2>2, <4>4
      <4> QED
        BY <2>1, <4>1, <4>3, <4>5
    <3>3. CASE Translate(u) = NoPage
      <4>1. Tr(u) = NoPage
        <5> SUFFICES ASSUME Tr(u) # NoPage PROVE FALSE
          OBVIOUS
        <5> DEFINE p == Tr(u)
        <5>1. Way(Z, u, 4, p)
          BY <2>2
        <5> HIDE DEF p
        <5>2. 4 \in 0..4 /\ 4 > 0 /\ Tree(m, Z)
          BY <2>1
        <5> HIDE DEF m
        <5>3. p \in Z.used /\ Z.level[p] = 4
          BY <5>1, <5>2, WayNode DEF Tree
        <5>4. CASE p \in T.used
          <6>1. Way(T, u, 4, p)
            BY <1>1, <2>1, <5>1, <5>2, <5>4, WaySmaller DEF Tree
          <6>2. p \in Nodes(T) /\ NoPage \notin Pages /\ p \in Pages
            BY <1>1, <5>4, IdxFacts DEF Tree, TreeBut, Nodes
          <6> QED
            BY <3>1, <3>3, <6>1, <6>2
        <5>5. CASE p \notin T.used
          <6>1. p = next_free_page
            BY <2>1, <5>3, <5>5
          <6>2. Way(Z, v, 4, p)
            BY <2>1, <6>1
          <6> QED
            BY <2>5, <5>1, <6>2, WayUnique, TouchedAssumption
        <5> QED
          BY <5>4, <5>5
      <4> QED
        BY <2>2, <3>1, <3>3, <4>1
    <3> QED
      BY <3>2, <3>3
  <2>6. Contents = [u \in Touched |-> Contents[u]] /\ C = [u \in Touched |-> C[u]]
    BY DEF Contents
  <2> HIDE DEF C
  <2>7. C = [Contents EXCEPT ![v] = ZeroPage]
    BY <2>3, <2>5, <2>6
  <2> QED
    BY <2>4, <2>7 DEF AS!ATouch, C
<1> QED
  BY <1>1, <1>3, <1>4, FaultGrows

LEMMA StoreStores ==
  ASSUME phase = "kernel", NEW T, NEW w, KInv(T, w), NEW v \in Touched, NEW word \in {Zero, Garbage}, Store(v, 0, word)
  PROVE  AS!AStore(v)
<1> DEFINE q == Translate(v)
           C == Contents'
           m == mem'
<1>1. mem \in Memory /\ Apart(mem, next_free_page, T, w) /\ Tree(mem, T)
  BY DEF KInv, Apart
<1>2. /\ Way(T, v, 4, q) /\ q \in T.used /\ T.level[q] = 4 /\ q \in Pages
      /\ \A p \in Pages : p # q => m[p] = mem[p]
      /\ m[q] = [mem[q] EXCEPT ![0] = word]
  <2>1. Stored(T, v, word)
    BY <1>1, StoreReaches
  <2> QED
    BY <2>1 DEF Stored
<1>3. phase' = "kernel"
  BY DEF Store
<1>4. Tree(m, T)
  <2> HIDE DEF q, m
  <2>1. Apart(m, next_free_page, T, w)
    BY <1>1, <1>2, StoreApart
  <2> QED
    BY <2>1 DEF Apart
<1>5. \A u \in Touched : /\ \A p : Way(T, u, 4, p) => Translate(u) = p /\ Contents[u] = mem[p]
                         /\ Translate(u) # NoPage => Way(T, u, 4, Translate(u))
                         /\ Translate(u) = NoPage => Contents[u] = <<>>
  BY <1>1, ContentsIs
<1> DEFINE Tr(u) == Translate(u)'
<1>6. \A u \in Touched : /\ \A p : Way(T, u, 4, p) => Tr(u) = p /\ C[u] = m[p]
                         /\ Tr(u) # NoPage => Way(T, u, 4, Tr(u))
                         /\ Tr(u) = NoPage => C[u] = <<>>
  BY <1>3, <1>4, ContentsIsNext
<1>7. Contents = [u \in Touched |-> Contents[u]] /\ C = [u \in Touched |-> C[u]]
  BY DEF Contents
<1> HIDE DEF q, C, m, Tr
<1>8. Contents[v] = mem[q] /\ C[v] = [mem[q] EXCEPT ![0] = word]
  BY <1>2, <1>5, <1>6
<1>9. ASSUME NEW u \in Touched, u # v PROVE C[u] = Contents[u]
  <2>1. CASE Translate(u) # NoPage
    <3> DEFINE p == Translate(u)
    <3>1. Way(T, u, 4, p) /\ Contents[u] = mem[p]
      BY <1>5, <2>1
    <3> HIDE DEF p
    <3>2. C[u] = m[p]
      BY <1>6, <3>1
    <3>3. p \in Pages
      <4>1. 4 \in 0..4 /\ 4 > 0
        OBVIOUS
      <4>2. p \in T.used
        BY <1>1, <3>1, <4>1, WayNode DEF Tree
      <4> QED
        BY <1>1, <4>2 DEF Tree, TreeBut
    <3>4. p # q
      BY <1>2, <1>9, <3>1, WayUnique, TouchedAssumption
    <3> QED
      BY <1>2, <3>1, <3>2, <3>3, <3>4
  <2>2. CASE Translate(u) = NoPage
    <3>1. Tr(u) = NoPage
      <4> SUFFICES ASSUME Tr(u) # NoPage PROVE FALSE
        OBVIOUS
      <4> DEFINE p == Tr(u)
      <4>1. Way(T, u, 4, p) /\ p # NoPage
        BY <1>6
      <4> HIDE DEF p
      <4> QED
        BY <1>5, <2>2, <4>1
    <3> QED
      BY <1>5, <1>6, <2>2, <3>1
  <2> QED
    BY <2>1, <2>2
<1>10. mem[q] \in [Idx -> Words] /\ 0 \in Idx
  BY <1>1, <1>2, IdxFacts DEF Memory
<1>11. mem[q] # <<>> /\ 0 \in DOMAIN mem[q]
  <2>1. DOMAIN mem[q] = Idx
    BY <1>10
  <2>2. 0 \notin DOMAIN <<>>
    OBVIOUS
  <2> QED
    BY <1>10, <2>1, <2>2
<1>12. C[v] = [Contents[v] EXCEPT ![0] = C[v][0]]
  <2>1. C[v][0] = word
    BY <1>8, <1>11
  <2> QED
    BY <1>8, <2>1
<1>13. C = [Contents EXCEPT ![v] = C[v]]
  BY <1>7, <1>9
<1>14. C = [Contents EXCEPT ![v][0] = C[v][0]]
  <2>1. C = [Contents EXCEPT ![v] = [Contents[v] EXCEPT ![0] = C[v][0]]]
    BY <1>12, <1>13
  <2> QED
    BY <1>7, <2>1
<1>15. \E i \in DOMAIN Contents[v] : C = [Contents EXCEPT ![v][i] = C[v][i]]
  BY <1>8, <1>11, <1>14
<1>16. Contents[v] # <<>>
  BY <1>8, <1>11
<1> QED
  BY <1>15, <1>16 DEF AS!AStore, C

LEMMA Refines == IInv /\ [Next]_vars => [AS!ANext]_Contents
<1> SUFFICES ASSUME IInv, [Next]_vars PROVE AS!ANext \/ UNCHANGED Contents
  OBVIOUS
<1>1. CASE UNCHANGED vars
  <2>1. UNCHANGED <<phase, mem>>
    BY <1>1 DEF vars
  <2> QED
    BY <2>1, ContentsSame
<1>2. CASE VmmAllocRegion
  <2>1. UNCHANGED <<phase, mem>>
    BY <1>2 DEF VmmAllocRegion
  <2> QED
    BY <2>1, ContentsSame
<1>3. CASE VmmInit
  <2>1. \A v \in Touched : Contents[v] = <<>>
    BY <1>3 DEF VmmInit, Contents
  <2> QED
    BY <2>1 DEF AS!ANext, AS!ALoad
<1>4. ASSUME NEW v \in Touched, NEW start \in BOOLEAN, PageFault(v, start) PROVE AS!ANext \/ UNCHANGED Contents
  <2>1. phase = "kernel" /\ Counting
    BY <1>4 DEF PageFault, Running, Counting
  <2>2. PICK T, w : KInv(T, w)
    BY <2>1 DEF IInv
  <2>3. AS!ATouch(v) \/ UNCHANGED Contents
    BY <1>4, <2>1, <2>2, FaultTouches
  <2> QED
    BY <2>3 DEF AS!ANext
<1>5. ASSUME NEW v \in Touched, NEW word \in {Zero, Garbage}, Store(v, 0, word) PROVE AS!ANext
  <2>1. phase = "kernel" /\ Counting
    BY <1>5 DEF Store, Running, Counting
  <2>2. PICK T, w : KInv(T, w)
    BY <2>1 DEF IInv
  <2>3. AS!AStore(v)
    BY <1>5, <2>1, <2>2, StoreStores
  <2> QED
    BY <2>3 DEF AS!ANext
<1>6. CASE LoadFiles \/ SizeMemoryMap \/ FirmwareChanges \/ GetMemoryMap \/ ExitBootServices
           \/ MapPages \/ HandOver \/ VmmPreinit \/ PmmInit
  <2>1. phase # "kernel" /\ phase' # "kernel"
    BY <1>6 DEF LoadFiles, SizeMemoryMap, FirmwareChanges, GetMemoryMap, ExitBootServices,
                MapPages, HandOver, VmmPreinit, PmmInit
  <2> QED
    BY <2>1 DEF Contents
<1> QED
  BY <1>1, <1>2, <1>3, <1>4, <1>5, <1>6 DEF Next

=============================================================================
