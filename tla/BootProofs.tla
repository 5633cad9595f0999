----------------------------- MODULE BootProofs -----------------------------
(***************************************************************************)
(* Theorems about Paging from the firmware on, for every memory map,       *)
(* kernel and size of a page: what main.c and the kernel's first functions *)
(* hand from one to the next, up to the tables, the free list and the      *)
(* counters from which PagingProofs goes on.                               *)
(*                                                                         *)
(* The firmware's map is sorted, joined, added up and flattened, the       *)
(* kernel's pages are mapped, each by a loop of the code that Paging       *)
(* writes as a fold: Folding says what one is, once for each operator.     *)
(***************************************************************************)
EXTENDS PagingProofs

----------------------------------------------------------------------------
(* What the boot folds                                                     *)

\* What pmm_init takes for memory it can hand out, or has.
Used == {"MMAP_FREE", "MMAP_LOADER"}

Comparing == INSTANCE Folding WITH Op <- Compared
Sorting   == INSTANCE Folding WITH Op <- LAMBDA s, x : Pass(s)
Joining   == INSTANCE Folding WITH Op <- Joined
Adding    == INSTANCE Folding WITH Op <- LAMBDA n, e : n + e.size
Sizing    == INSTANCE Folding WITH Op <- LAMBDA n, e : IF e.type \in Used THEN n + e.size ELSE n
Flat      == INSTANCE Folding WITH Op <- LAMBDA s, t : s \o t
Mapping   == INSTANCE Folding WITH Op <- LAMBDA at, m : MapPage(at, m.virt, m.phys)
Loading   == INSTANCE Folding WITH Op <- LAMBDA loads, p : IF p.type = "PT_LOAD" THEN Append(loads, p) ELSE loads

\* What the operators of the model fold.
LEMMA FoldsAre ==
  /\ \A m : Pass(m) = Comparing!Folded(m, [i \in 1..(Len(m) - 1) |-> i])
  /\ \A m : Sorted(m) = Sorting!Folded(m, m)
  /\ \A m : Combined(m) = Joining!Folded(<<>>, m)
  /\ FoldLeft(LAMBDA n, e : n + e.size, 0, mmap) = Adding!Folded(0, mmap)
  /\ SizeOf(Used) = Sizing!Folded(0, mmap)
  /\ \A pages : Mapped(pages) = Mapping!Folded(Start(pages), PagesToMap)
  /\ Loads = Loading!Folded(<<>>, Phdrs)
<1>0. \A m : Pass(m) = Comparing!Folded(m, [i \in 1..(Len(m) - 1) |-> i])
  BY DEF Pass, Comparing!Folded, FoldLeft, Comparing!FoldLeft, MapThenFoldSet, Comparing!MapThenFoldSet, Max, Comparing!Max
<1>1. \A m : Sorted(m) = Sorting!Folded(m, m)
  BY DEF Sorted, Sorting!Folded, FoldLeft, Sorting!FoldLeft, MapThenFoldSet, Sorting!MapThenFoldSet, Max, Sorting!Max
<1>2. \A m : Combined(m) = Joining!Folded(<<>>, m)
  BY DEF Combined, Joining!Folded, FoldLeft, Joining!FoldLeft, MapThenFoldSet, Joining!MapThenFoldSet, Max, Joining!Max
<1>3. FoldLeft(LAMBDA n, e : n + e.size, 0, mmap) = Adding!Folded(0, mmap)
  BY DEF Adding!Folded, FoldLeft, Adding!FoldLeft, MapThenFoldSet, Adding!MapThenFoldSet, Max, Adding!Max
<1>4. SizeOf(Used) = Sizing!Folded(0, mmap)
  BY DEF SizeOf, Sizing!Folded, FoldLeft, Sizing!FoldLeft, MapThenFoldSet, Sizing!MapThenFoldSet, Max, Sizing!Max
<1>5. \A pages : Mapped(pages) = Mapping!Folded(Start(pages), PagesToMap)
  BY DEF Mapped, Mapping!Folded, FoldLeft, Mapping!FoldLeft, MapThenFoldSet, Mapping!MapThenFoldSet, Max, Mapping!Max
<1>6. Loads = Loading!Folded(<<>>, Phdrs)
  BY DEF Loads, Loading!Folded, FoldLeft, Loading!FoldLeft, MapThenFoldSet, Loading!MapThenFoldSet, Max, Loading!Max
<1> QED
  BY <1>0, <1>1, <1>2, <1>3, <1>4, <1>5, <1>6

\* FlattenSeq is a fold as well.
LEMMA Flattened ==
  ASSUME NEW S, NEW seqs \in Seq(Seq(S))
  PROVE  FlattenSeq(seqs) = Flat!Folded(<<>>, seqs)
<1> DEFINE n == Len(seqs)
           Def(f) == [i \in 1..n |-> IF i = 1 THEN seqs[i] ELSE f[i - 1] \o seqs[i]]
           flat == CHOOSE f : f = Def(f)
<1>0. n \in Nat /\ DOMAIN seqs = 1..n /\ \A i \in 1..n : seqs[i] \in Seq(S)
  BY LenProperties, ElementOfSeq
<1>1. PICK run : Flat!Runs(run, <<>>, seqs, n) /\ Flat!Folded(<<>>, seqs) = run[n]
  BY <1>0, Flat!FoldedIs
<1>2. DOMAIN run = 0..n /\ run[0] = <<>> /\ \A i \in 1..n : run[i] = run[i - 1] \o seqs[i]
  BY <1>1 DEF Flat!Runs
<1>3. CASE n = 0
  <2>1. FlattenSeq(seqs) = seqs /\ seqs = <<>>
    BY <1>3 DEF FlattenSeq
  <2> QED
    BY <1>1, <1>2, <1>3, <2>1
<1>4. CASE n # 0
  <2>1. FlattenSeq(seqs) = flat[n]
    BY <1>4 DEF FlattenSeq
  <2>2. run[1] = seqs[1]
    <3> DEFINE one == 1
    <3>0. one \in 1..n /\ one - 1 = 0
      BY <1>0, <1>4
    <3> HIDE DEF one
    <3>a. run[one] = run[one - 1] \o seqs[one] /\ run[one - 1] = <<>> /\ seqs[one] \in Seq(S)
      BY <1>0, <1>2, <3>0
    <3>1. seqs[1] \in Seq(S) /\ run[1] = <<>> \o seqs[1]
      BY <3>a DEF one
    <3>2. <<>> \o seqs[1] = seqs[1]
      BY <3>1, ConcatEmptySeq
    <3> QED
      BY <3>1, <3>2
  <2> DEFINE r == [i \in 1..n |-> run[i]]
  <2>3. r = Def(r)
    <3>1. ASSUME NEW i \in 1..n PROVE r[i] = IF i = 1 THEN seqs[i] ELSE r[i - 1] \o seqs[i]
      <4>1. CASE i = 1
        BY <2>2, <4>1
      <4>2. CASE i # 1
        <5>1. i - 1 \in 1..n /\ run[i] = run[i - 1] \o seqs[i]
          BY <1>0, <1>2, <4>2
        <5> QED
          BY <4>2, <5>1
      <4> QED
        BY <4>1, <4>2
    <3> QED
      BY <3>1
  <2> HIDE DEF r, Def
  <2>4. flat = Def(flat)
    BY <2>3
  <2> HIDE DEF flat
  <2>5. \A i \in 1..n : flat[i] = IF i = 1 THEN seqs[i] ELSE flat[i - 1] \o seqs[i]
    BY <2>4 DEF Def
  <2> DEFINE A == {i \in 0..n : i > 0 => flat[i] = run[i]}
  <2>6. ASSUME NEW i \in 1..n, i - 1 \in A PROVE i \in A
    <3>1. CASE i = 1
      BY <2>2, <2>5, <3>1
    <3>2. CASE i # 1
      <4>1. flat[i] = flat[i - 1] \o seqs[i] /\ run[i] = run[i - 1] \o seqs[i]
        BY <1>2, <2>5, <3>2
      <4>2. flat[i - 1] = run[i - 1]
        BY <1>0, <2>6, <3>2
      <4>3. flat[i] = run[i]
        BY <4>1, <4>2
      <4> QED
        BY <4>3
    <3> QED
      BY <3>1, <3>2
  <2>7. 0 \in A
    BY <1>0
  <2> HIDE DEF A
  <2>8. 0..n \subseteq A
    BY <1>0, <2>6, <2>7, InductionUpTo
  <2>9. n \in A
    BY <1>0, <2>8
  <2> QED
    BY <1>0, <1>1, <1>4, <2>1, <2>9 DEF A
<1> QED
  BY <1>3, <1>4

----------------------------------------------------------------------------
(* The memory map                                                          *)

\* What Translated makes of the firmware's types, and its descriptors.
Kinds == {"MMAP_RESERVED", "MMAP_LOADER", "MMAP_FREE", "MMAP_ACPI", "MMAP_UEFI_RUNTIME", "MMAP_MMIO", "MMAP_OTHER"}
Areas == [address : Nat, size : Nat \ {0}, type : Kinds]

\* Each area behind the one before.
InOrder(m) == \A a, b \in 1..Len(m) : a < b => m[a].address + m[a].size <= m[b].address

\* The least of some numbers.
LEMMA MinIs ==
  ASSUME NEW I \in SUBSET Nat, I # {}
  PROVE  Min(I) \in I /\ \A y \in I : Min(I) <= y
  BY LeastNat DEF Min

\* Areas that share no page lie one behind the other.
LEMMA ExtentsApart ==
  ASSUME NEW e \in Areas, NEW f \in Areas, Extent(e) \cap Extent(f) = {}, e.address <= f.address
  PROVE  e.address + e.size <= f.address
<1>1. e.address \in Nat /\ e.size \in Nat \ {0} /\ f.address \in Nat /\ f.size \in Nat \ {0}
  BY DEF Areas
<1> SUFFICES ASSUME e.address + e.size > f.address PROVE FALSE
  BY <1>1
<1>2. f.address \in Extent(e) /\ f.address \in Extent(f)
  BY <1>1 DEF Extent
<1> QED
  BY <1>2

\* The areas of m, in another order.
Reordered(s, m) ==
  /\ s \in Seq(Areas) /\ Len(s) = Len(m)
  /\ \A x : (\E a \in 1..Len(s) : s[a] = x) <=> (\E a \in 1..Len(m) : m[a] = x)
  /\ \A a, b \in 1..Len(s) : a # b => Extent(s[a]) \cap Extent(s[b]) = {}

\* Behind position t all are where they belong; up to t the last is the highest.
Top(s, t) == \A a, b \in 1..Len(s) : b > t /\ a < b => s[a].address <= s[b].address
Crest(s, t) == \A a \in 1..t : s[a].address <= s[t].address

\* One comparison of the bubble sort carries the highest so far one further.
LEMMA ComparedIs ==
  ASSUME NEW m, NEW s, Reordered(s, m), NEW t \in 1..Len(s), Top(s, t),
         NEW i \in 1..(Len(s) - 1), Crest(s, IF i < t THEN i ELSE t)
  PROVE  /\ Reordered(Compared(s, i), m) /\ Top(Compared(s, i), t)
         /\ Crest(Compared(s, i), IF i + 1 < t THEN i + 1 ELSE t)
<1> DEFINE n == Len(s)
           r == Compared(s, i)
           at(a) == IF a = i THEN i + 1 ELSE IF a = i + 1 THEN i ELSE a
<1>1. /\ n \in Nat /\ DOMAIN s = 1..n /\ \A a \in 1..n : s[a] \in Areas
      /\ \A a \in 1..n : s[a].address \in Nat
  <2>1. n \in Nat /\ DOMAIN s = 1..n /\ \A a \in 1..n : s[a] \in Areas
    BY LenProperties, ElementOfSeq DEF Reordered
  <2> QED
    BY <2>1 DEF Areas
<1> HIDE DEF n
<1>2. i \in 1..n /\ i + 1 \in 1..n /\ i < i + 1 /\ t \in 1..n
  BY <1>1 DEF n
<1>3. CASE s[i].address <= s[i + 1].address
  <2>1. r = s
    BY <1>1, <1>2, <1>3 DEF Compared
  <2>2. Crest(s, IF i + 1 < t THEN i + 1 ELSE t)
    <3>1. CASE i < t
      <4>1. ASSUME NEW a \in 1..(i + 1) PROVE s[a].address <= s[i + 1].address
        <5>1. CASE a = i + 1
          BY <1>1, <1>2, <5>1
        <5>2. CASE a # i + 1
          <6>1. a \in 1..i /\ a \in 1..n
            BY <1>1, <1>2, <5>2
          <6>2. s[a].address <= s[i].address
            BY <3>1, <6>1 DEF Crest
          <6> QED
            BY <1>1, <1>2, <1>3, <6>1, <6>2
        <5> QED
          BY <5>1, <5>2
      <4>2. i + 1 < t \/ t = i + 1
        BY <1>2, <3>1
      <4> QED
        BY <4>1, <4>2 DEF Crest
    <3>2. CASE ~(i < t)
      BY <1>2, <3>2
    <3> QED
      BY <3>1, <3>2
  <2> HIDE DEF r
  <2> QED
    BY <2>1, <2>2 DEF r
<1>4. CASE s[i].address > s[i + 1].address
  <2>1. i < t
    <3> SUFFICES ASSUME ~(i < t) PROVE FALSE
      OBVIOUS
    <3>1. i + 1 > t
      BY <1>2
    <3>2. s[i].address <= s[i + 1].address
      BY <1>2, <3>1 DEF Top, n
    <3> QED
      BY <1>1, <1>2, <1>4, <3>2
  <2>2. r = [s EXCEPT ![i] = s[i + 1], ![i + 1] = s[i]]
    BY <1>4 DEF Compared
  <2>3. \A a \in 1..n : at(a) \in 1..n /\ at(at(a)) = a
    BY <1>2
  <2>4. DOMAIN r = 1..n /\ \A a \in 1..n : r[a] = s[at(a)]
    BY <1>1, <1>2, <2>2
  <2> HIDE DEF r
  <2>5. r \in Seq(Areas) /\ Len(r) = n
    <3>1. r = [a \in 1..n |-> s[at(a)]]
      <4>1. r = [a \in 1..n |-> r[a]]
        BY <1>1, <2>2
      <4> QED
        BY <2>4, <4>1
    <3>2. \A a \in 1..n : s[at(a)] \in Areas
      BY <1>1, <2>3
    <3> HIDE DEF at
    <3>3. r \in [1..n -> Areas]
      BY <3>1, <3>2
    <3>4. r \in Seq(Areas)
      BY <1>1, <3>3, SeqDef
    <3> QED
      BY <1>1, <2>4, <3>4, LenProperties
  <2>6. \A a \in 1..n : r[at(a)] = s[a]
    BY <2>3, <2>4
  <2>7. Reordered(r, m)
    <3>1. \A x : (\E a \in 1..n : r[a] = x) <=> (\E a \in 1..n : s[a] = x)
      <4> HIDE DEF at
      <4> QED
        BY <2>3, <2>4, <2>6
    <3>2. ASSUME NEW a \in 1..n, NEW b \in 1..n, a # b PROVE Extent(r[a]) \cap Extent(r[b]) = {}
      <4>1. at(a) # at(b) /\ at(a) \in 1..n /\ at(b) \in 1..n
        BY <2>3, <3>2
      <4> HIDE DEF at
      <4>2. Extent(s[at(a)]) \cap Extent(s[at(b)]) = {}
        BY <4>1 DEF Reordered, n
      <4> QED
        BY <2>4, <4>2
    <3> QED
      BY <2>5, <3>1, <3>2 DEF Reordered, n
  <2>8. Top(r, t)
    <3>1. ASSUME NEW a \in 1..n, NEW b \in 1..n, b > t, a < b PROVE r[a].address <= r[b].address
      <4>1. at(b) = b /\ at(a) \in 1..n /\ at(a) < b
        BY <1>2, <2>1, <3>1
      <4>2. s[at(a)].address <= s[b].address
        BY <3>1, <4>1 DEF Top, n
      <4> QED
        BY <2>4, <4>1, <4>2
    <3> QED
      BY <2>5, <3>1 DEF Top
  <2>9. Crest(r, i + 1)
    <3>1. ASSUME NEW a \in 1..(i + 1) PROVE r[a].address <= r[i + 1].address
      <4>1. r[i + 1] = s[i] /\ r[i] = s[i + 1]
        BY <1>2, <2>4
      <4>2. CASE a = i \/ a = i + 1
        BY <1>1, <1>2, <1>4, <4>1, <4>2
      <4>3. CASE a # i /\ a # i + 1
        <5>1. a \in 1..i /\ a \in 1..n
          BY <1>1, <1>2, <4>3
        <5>2. r[a] = s[a]
          BY <2>4, <4>3, <5>1
        <5> QED
          BY <2>1, <4>1, <5>1, <5>2 DEF Crest
      <4> QED
        BY <4>2, <4>3
    <3> QED
      BY <3>1 DEF Crest
  <2>10. i + 1 < t \/ t = i + 1
    BY <1>2, <2>1
  <2> QED
    BY <2>7, <2>8, <2>9, <2>10 DEF r
<1> QED
  BY <1>1, <1>2, <1>3, <1>4

\* A pass puts one more where it belongs.
LEMMA PassIs ==
  ASSUME NEW m, NEW s, Reordered(s, m), NEW t \in 1..Len(s), Top(s, t)
  PROVE  Reordered(Pass(s), m) /\ Top(Pass(s), t - 1)
<1> DEFINE n == Len(s)
           turns == [i \in 1..(n - 1) |-> i]
<1>1. n \in Nat /\ n - 1 \in Nat /\ DOMAIN turns = 1..(n - 1)
  <2>1. n \in Nat
    BY LenProperties DEF Reordered
  <2> QED
    BY <2>1
<1>2. PICK run : Comparing!Runs(run, s, turns, n - 1) /\ Comparing!Folded(s, turns) = run[n - 1]
  BY <1>1, Comparing!FoldedIs
<1>3. run[0] = s /\ \A i \in 1..(n - 1) : run[i] = Compared(run[i - 1], i)
  <2>1. \A i \in 1..(n - 1) : turns[i] = i
    OBVIOUS
  <2> HIDE DEF turns
  <2> QED
    BY <1>2, <2>1 DEF Comparing!Runs
<1>4. Pass(s) = run[n - 1]
  BY <1>2, FoldsAre
<1> HIDE DEF turns, n
<1> DEFINE Good(i) == Reordered(run[i], m) /\ Top(run[i], t) /\ Crest(run[i], IF i + 1 < t THEN i + 1 ELSE t)
           A == {i \in 0..(n - 1) : Good(i)}
<1>5. Len(m) = n /\ t \in 1..n
  BY DEF Reordered, n
<1>6. 0 \in A
  <2>1. 0 + 1 < t \/ t = 1
    BY <1>1, <1>5
  <2>2. Crest(s, 1) /\ (t = 1 => Crest(s, t))
    <3>1. s[1].address <= s[1].address
      <4>1. 1 \in 1..n /\ s[1] \in Areas
        BY <1>1, <1>5, ElementOfSeq DEF Reordered, n
      <4> QED
        BY <4>1 DEF Areas
    <3> QED
      BY <3>1 DEF Crest
  <2> QED
    BY <1>1, <1>3, <2>1, <2>2
<1>7. ASSUME NEW i \in 1..(n - 1), i - 1 \in A PROVE i \in A
  <2> DEFINE r == run[i - 1]
  <2>1. Reordered(r, m) /\ Top(r, t) /\ Crest(r, IF i < t THEN i ELSE t) /\ run[i] = Compared(r, i)
    BY <1>3, <1>7
  <2> HIDE DEF r
  <2>2. Len(r) = n
    BY <1>5, <2>1 DEF Reordered
  <2>3. Good(i)
    BY <1>5, <2>1, <2>2, ComparedIs
  <2> HIDE DEF Good
  <2> QED
    BY <1>1, <2>3
<1> HIDE DEF A
<1>8. n - 1 \in A
  <2>1. 0..(n - 1) \subseteq A
    BY <1>1, <1>6, <1>7, InductionUpTo
  <2> QED
    BY <1>1, <2>1
<1> DEFINE r == run[n - 1]
<1>9. Reordered(r, m) /\ Top(r, t) /\ Crest(r, t)
  <2>1. ~(n - 1 + 1 < t)
    BY <1>1, <1>5
  <2> QED
    BY <1>8, <2>1 DEF A
<1> HIDE DEF r
<1>10. Len(r) = n
  BY <1>5, <1>9 DEF Reordered
<1>11. Top(r, t - 1)
  <2>1. ASSUME NEW a \in 1..n, NEW b \in 1..n, b > t - 1, a < b PROVE r[a].address <= r[b].address
    <3>1. CASE b = t
      BY <1>9, <2>1, <3>1 DEF Crest
    <3>2. CASE b # t
      <4>1. b > t
        BY <1>5, <2>1, <3>2
      <4> QED
        BY <1>9, <1>10, <2>1, <4>1 DEF Top
    <3> QED
      BY <3>1, <3>2
  <2> QED
    BY <1>10, <2>1 DEF Top
<1> QED
  BY <1>4, <1>9, <1>11 DEF r

\* The bubble sort leaves the same areas, in order.
LEMMA SortedIs ==
  ASSUME NEW m \in Seq(Areas), \A a, b \in 1..Len(m) : a # b => Extent(m[a]) \cap Extent(m[b]) = {}
  PROVE  /\ Sorted(m) \in Seq(Areas) /\ InOrder(Sorted(m))
         /\ \A x : (\E a \in 1..Len(Sorted(m)) : Sorted(m)[a] = x) <=> (\E a \in 1..Len(m) : m[a] = x)
<1> DEFINE n == Len(m)
<1>1. n \in Nat /\ DOMAIN m = 1..n
  BY LenProperties
<1>2. PICK run : Sorting!Runs(run, m, m, n) /\ Sorting!Folded(m, m) = run[n]
  BY <1>1, Sorting!FoldedIs
<1>3. run[0] = m /\ \A k \in 1..n : run[k] = Pass(run[k - 1])
  BY <1>2 DEF Sorting!Runs
<1>4. Sorted(m) = run[n]
  BY <1>2, FoldsAre
<1> DEFINE Good(k) == Reordered(run[k], m) /\ Top(run[k], n - k)
           A == {k \in 0..n : Good(k)}
<1>5. 0 \in A
  <2>1. Reordered(m, m)
    BY DEF Reordered
  <2>2. Top(m, n)
    BY <1>1 DEF Top
  <2> HIDE DEF n
  <2>3. n - 0 = n
    BY <1>1
  <2> QED
    BY <1>1, <1>3, <2>1, <2>2, <2>3
<1> HIDE DEF n
<1>6. ASSUME NEW k \in 1..n, k - 1 \in A PROVE k \in A
  <2> DEFINE s == run[k - 1]
             t == n - (k - 1)
  <2>1. Reordered(s, m) /\ Top(s, t) /\ run[k] = Pass(s)
    BY <1>3, <1>6
  <2> HIDE DEF s
  <2>2. Len(s) = n /\ t \in 1..n /\ t - 1 = n - k
    BY <1>1, <2>1 DEF Reordered, n
  <2> HIDE DEF t
  <2>3. Reordered(Pass(s), m) /\ Top(Pass(s), t - 1)
    BY <2>1, <2>2, PassIs
  <2> QED
    BY <1>1, <2>1, <2>2, <2>3
<1> HIDE DEF A
<1>7. n \in A
  <2>1. 0..n \subseteq A
    BY <1>1, <1>5, <1>6, InductionUpTo
  <2> QED
    BY <1>1, <2>1
<1> DEFINE s == run[n]
<1>8. Reordered(s, m) /\ Top(s, 0)
  <2>1. n - n = 0
    BY <1>1
  <2> QED
    BY <1>7, <2>1 DEF A
<1> HIDE DEF s
<1>9. InOrder(s)
  <2> SUFFICES ASSUME NEW a \in 1..Len(s), NEW b \in 1..Len(s), a < b
               PROVE  s[a].address + s[a].size <= s[b].address
    BY DEF InOrder
  <2>1. s \in Seq(Areas) /\ Len(s) \in Nat /\ s[a] \in Areas /\ s[b] \in Areas
    BY <1>8, LenProperties, ElementOfSeq DEF Reordered
  <2>2. a # b /\ b > 0
    BY <2>1
  <2>3. Extent(s[a]) \cap Extent(s[b]) = {}
    BY <1>8, <2>2 DEF Reordered
  <2>4. s[a].address <= s[b].address
    BY <1>8, <2>2 DEF Top
  <2> QED
    BY <2>1, <2>3, <2>4, ExtentsApart
<1> QED
  BY <1>4, <1>8, <1>9 DEF Reordered, s, n

\* What the first n areas of a map say.
Tells(m, n, x) == \E a \in 1..n : \E p \in Extent(m[a]) : x = <<p, m[a].type>>

\* A map says what its areas say.
LEMMA TellsIs ==
  ASSUME NEW m \in Seq(Areas)
  PROVE  \A x : x \in PagesAndTypes(m) <=> Tells(m, Len(m), x)
<1>1. DOMAIN m = 1..Len(m)
  BY LenProperties
<1>2. ToSet(m) = {m[a] : a \in 1..Len(m)}
  BY <1>1 DEF ToSet
<1> QED
  BY <1>2 DEF PagesAndTypes, Tells

\* No two neighbours could be one area.
NoneJoins(m) == \A a \in 1..(Len(m) - 1) : ~Joins(m[a], m[a + 1])
End(e) == e.address + e.size

\* One turn of the loop that joins areas.
LEMMA JoinedIs ==
  ASSUME NEW s \in Seq(Areas), InOrder(s), NoneJoins(s), NEW e \in Areas,
         Len(s) > 0 => End(s[Len(s)]) <= e.address
  PROVE  LET t == Joined(s, e)
         IN /\ t \in Seq(Areas) /\ Len(t) > 0 /\ InOrder(t) /\ NoneJoins(t)
            /\ End(t[Len(t)]) = End(e)
            /\ \A x : Tells(t, Len(t), x) <=> Tells(s, Len(s), x) \/ \E p \in Extent(e) : x = <<p, e.type>>
<1> DEFINE L == Len(s)
           t == Joined(s, e)
           Told(x) == Tells(t, Len(t), x) <=> Tells(s, Len(s), x) \/ \E p \in Extent(e) : x = <<p, e.type>>
<1>1. L \in Nat /\ \A a \in 1..L : s[a] \in Areas /\ s[a].address \in Nat /\ s[a].size \in Nat \ {0}
  <2>1. L \in Nat /\ \A a \in 1..L : s[a] \in Areas
    BY LenProperties, ElementOfSeq
  <2> QED
    BY <2>1 DEF Areas
<1>2. e.address \in Nat /\ e.size \in Nat \ {0}
  BY DEF Areas
<1>3. CASE L > 0 /\ Joins(s[L], e)
  <2> DEFINE f == [s[L] EXCEPT !.size = @ + e.size]
  <2>1. t = Append(Front(s), f)
    <3>1. s # <<>> /\ Last(s) = s[L]
      BY <1>3 DEF Last
    <3> QED
      BY <1>3, <3>1 DEF Joined
  <2>2. f \in Areas /\ f.address = s[L].address /\ f.size = s[L].size + e.size /\ f.type = s[L].type
    <3>1. s[L] \in Areas /\ s[L].size + e.size \in Nat \ {0}
      BY <1>1, <1>2, <1>3
    <3> QED
      BY <3>1 DEF Areas
  <2>3. Front(s) \in Seq(Areas) /\ Len(Front(s)) = L - 1 /\ \A a \in 1..(L - 1) : Front(s)[a] = s[a]
    <3>1. \A a \in 1..(L - 1) : s[a] \in Areas
      BY <1>1
    <3>2. 1 \in Int /\ L - 1 \in Int
      BY <1>1
    <3>3. /\ Front(s) \in Seq(Areas) /\ Len(Front(s)) = IF 1 <= L - 1 THEN L - 1 - 1 + 1 ELSE 0
          /\ \A a \in 1..((L - 1) - 1 + 1) : Front(s)[a] = s[1 + a - 1]
      BY <3>1, <3>2, SubSeqProperties DEF Front
    <3>4. Len(Front(s)) = L - 1
      <4>1. Len(Front(s)) = IF 1 <= L - 1 THEN L - 1 - 1 + 1 ELSE 0
        BY <3>3
      <4>2. L \in Nat /\ L > 0
        BY <1>1, <1>3
      <4> HIDE DEF L
      <4> QED
        BY <4>1, <4>2
    <3>5. ASSUME NEW a \in 1..(L - 1) PROVE Front(s)[a] = s[a]
      <4>1. a \in 1..((L - 1) - 1 + 1) /\ 1 + a - 1 = a
        BY <1>1
      <4> QED
        BY <3>3, <4>1
    <3> QED
      BY <3>3, <3>4, <3>5
  <2>4. t \in Seq(Areas) /\ Len(t) = L /\ (\A a \in 1..(L - 1) : t[a] = s[a]) /\ t[L] = f
    <3> HIDE DEF f, t
    <3>1. /\ t \in Seq(Areas) /\ Len(t) = Len(Front(s)) + 1
          /\ \A a \in 1..Len(Front(s)) : t[a] = Front(s)[a]
          /\ t[Len(Front(s)) + 1] = f
      BY <2>1, <2>2, <2>3, AppendProperties
    <3> QED
      BY <1>1, <2>3, <3>1
  <2> HIDE DEF f, t
  <2>5. s[L].type = e.type /\ End(s[L]) = e.address /\ L \in 1..L
    BY <1>1, <1>3 DEF Joins, End
  <2>6. InOrder(t)
    <3>1. ASSUME NEW a \in 1..L, NEW b \in 1..L, a < b PROVE t[a].address + t[a].size <= t[b].address
      <4>1. s[a].address + s[a].size <= s[b].address /\ t[a] = s[a]
        BY <1>1, <2>4, <3>1 DEF InOrder
      <4>2. t[b].address = s[b].address
        BY <1>1, <2>2, <2>4
      <4> QED
        BY <4>1, <4>2
    <3> QED
      BY <2>4, <3>1 DEF InOrder
  <2>7. NoneJoins(t)
    <3>1. ASSUME NEW a \in 1..(L - 1) PROVE ~Joins(t[a], t[a + 1])
      <4>1. ~Joins(s[a], s[a + 1]) /\ t[a] = s[a]
        BY <2>4 DEF NoneJoins
      <4>2. a + 1 \in 1..L
        BY <1>1
      <4>3. t[a + 1].address = s[a + 1].address /\ t[a + 1].type = s[a + 1].type
        BY <1>1, <2>2, <2>4, <4>2
      <4> QED
        BY <4>1, <4>3 DEF Joins
    <3> QED
      BY <2>4, <3>1 DEF NoneJoins
  <2>8. End(t[L]) = End(e)
    BY <1>1, <1>2, <2>2, <2>4, <2>5 DEF End
  <2>9. \A p : p \in Extent(f) <=> p \in Extent(s[L]) \/ p \in Extent(e)
    <3>1. /\ Extent(f) = s[L].address..(s[L].address + (s[L].size + e.size) - 1)
          /\ Extent(s[L]) = s[L].address..(s[L].address + s[L].size - 1)
          /\ Extent(e) = (s[L].address + s[L].size)..(s[L].address + s[L].size + e.size - 1)
      BY <2>2, <2>5 DEF Extent, End
    <3>2. s[L].address \in Nat /\ s[L].size \in Nat \ {0}
      BY <1>1, <2>5
    <3>3. \A x, y, z \in Nat : y > 0 /\ z > 0 =>
            x..(x + (y + z) - 1) = x..(x + y - 1) \cup (x + y)..(x + y + z - 1)
      OBVIOUS
    <3>4. Extent(f) = Extent(s[L]) \cup Extent(e)
      <4> DEFINE X == s[L].address
                 Y == s[L].size
                 Z == e.size
      <4>1. X \in Nat /\ Y \in Nat /\ Z \in Nat /\ Y > 0 /\ Z > 0
        BY <1>2, <3>2
      <4>2. Extent(f) = X..(X + (Y + Z) - 1) /\ Extent(s[L]) = X..(X + Y - 1) /\ Extent(e) = (X + Y)..(X + Y + Z - 1)
        BY <3>1
      <4> HIDE DEF X, Y, Z
      <4> QED
        BY <3>3, <4>1, <4>2
    <3> QED
      BY <3>4
  <2>10. ASSUME NEW x PROVE Told(x)
    <3>1. ASSUME Tells(t, L, x) PROVE Tells(s, L, x) \/ \E p \in Extent(e) : x = <<p, e.type>>
      <4>1. PICK a \in 1..L : \E p \in Extent(t[a]) : x = <<p, t[a].type>>
        BY <3>1 DEF Tells
      <4>0. PICK p \in Extent(t[a]) : x = <<p, t[a].type>>
        BY <4>1
      <4>2. CASE a = L
        <5>1. x = <<p, s[L].type>> /\ x = <<p, e.type>> /\ (p \in Extent(s[L]) \/ p \in Extent(e))
          BY <2>2, <2>4, <2>5, <2>9, <4>0, <4>2
        <5> QED
          BY <2>5, <5>1 DEF Tells
      <4>3. CASE a # L
        <5>1. t[a] = s[a]
          BY <1>1, <2>4, <4>3
        <5> QED
          BY <4>0, <5>1 DEF Tells
      <4> QED
        BY <4>2, <4>3
    <3>2. ASSUME Tells(s, L, x) PROVE Tells(t, L, x)
      <4>1. PICK a \in 1..L : \E p \in Extent(s[a]) : x = <<p, s[a].type>>
        BY <3>2 DEF Tells
      <4>0. PICK p \in Extent(s[a]) : x = <<p, s[a].type>>
        BY <4>1
      <4>2. CASE a = L
        <5>1. p \in Extent(t[L]) /\ x = <<p, t[L].type>>
          BY <2>2, <2>4, <2>9, <4>0, <4>2
        <5> QED
          BY <2>5, <5>1 DEF Tells
      <4>3. CASE a # L
        <5>1. t[a] = s[a]
          BY <1>1, <2>4, <4>3
        <5> QED
          BY <4>0, <5>1 DEF Tells
      <4> QED
        BY <4>2, <4>3
    <3>3. ASSUME NEW p \in Extent(e), x = <<p, e.type>> PROVE Tells(t, L, x)
      <4>1. p \in Extent(t[L]) /\ x = <<p, t[L].type>>
        BY <2>2, <2>4, <2>5, <2>9, <3>3
      <4> QED
        BY <2>5, <4>1 DEF Tells
    <3> QED
      BY <2>4, <3>1, <3>2, <3>3
  <2> QED
    BY <1>3, <2>4, <2>6, <2>7, <2>8, <2>10 DEF t
<1>4. CASE ~(L > 0 /\ Joins(s[L], e))
  <2>1. t = Append(s, e)
    <3>1. s # <<>> => L > 0 /\ Last(s) = s[L]
      BY <1>1, EmptySeq DEF Last
    <3> QED
      BY <1>4, <3>1 DEF Joined
  <2>2. t \in Seq(Areas) /\ Len(t) = L + 1 /\ (\A a \in 1..L : t[a] = s[a]) /\ t[L + 1] = e
    BY <2>1, AppendProperties
  <2> HIDE DEF t
  <2>3. InOrder(t)
    <3>1. ASSUME NEW a \in 1..(L + 1), NEW b \in 1..(L + 1), a < b PROVE t[a].address + t[a].size <= t[b].address
      <4>1. a \in 1..L /\ t[a] = s[a]
        BY <1>1, <2>2, <3>1
      <4>2. CASE b = L + 1
        <5>1. End(s[L]) <= e.address /\ t[b] = e
          BY <1>1, <2>2, <4>1, <4>2
        <5>2. a = L \/ (L \in 1..L /\ s[a].address + s[a].size <= s[L].address)
          BY <1>1, <4>1 DEF InOrder
        <5>3. L \in 1..L
          BY <1>1, <4>1
        <5>4. /\ s[L].address \in Nat /\ s[L].size \in Nat \ {0} /\ s[L].address + s[L].size <= e.address
              /\ s[a].address \in Nat /\ s[a].size \in Nat \ {0}
          BY <1>1, <4>1, <5>1, <5>3 DEF End
        <5>5. s[a].address + s[a].size <= e.address
          BY <1>2, <5>2, <5>4
        <5> QED
          BY <4>1, <5>1, <5>5
      <4>3. CASE b # L + 1
        <5>1. b \in 1..L /\ t[b] = s[b]
          BY <1>1, <2>2, <4>3
        <5> QED
          BY <3>1, <4>1, <5>1 DEF InOrder
      <4> QED
        BY <4>2, <4>3
    <3> QED
      BY <2>2, <3>1 DEF InOrder
  <2>4. NoneJoins(t)
    <3>1. ASSUME NEW a \in 1..L PROVE ~Joins(t[a], t[a + 1])
      <4>1. CASE a = L
        BY <1>1, <1>4, <2>2, <4>1
      <4>2. CASE a # L
        <5>1. a \in 1..(L - 1) /\ a + 1 \in 1..L
          BY <1>1, <4>2
        <5> QED
          BY <2>2, <5>1 DEF NoneJoins
      <4> QED
        BY <4>1, <4>2
    <3>2. Len(t) - 1 = L
      BY <1>1, <2>2
    <3> QED
      BY <3>1, <3>2 DEF NoneJoins
  <2>5. ASSUME NEW x PROVE Told(x)
    <3>1. ASSUME Tells(t, L + 1, x) PROVE Tells(s, L, x) \/ \E p \in Extent(e) : x = <<p, e.type>>
      <4>1. PICK a \in 1..(L + 1) : \E p \in Extent(t[a]) : x = <<p, t[a].type>>
        BY <3>1 DEF Tells
      <4>0. PICK p \in Extent(t[a]) : x = <<p, t[a].type>>
        BY <4>1
      <4>2. a = L + 1 \/ (a \in 1..L /\ t[a] = s[a])
        BY <1>1, <2>2
      <4> QED
        BY <2>2, <4>0, <4>2 DEF Tells
    <3>2. ASSUME Tells(s, L, x) PROVE Tells(t, L + 1, x)
      <4>1. PICK a \in 1..L : \E p \in Extent(s[a]) : x = <<p, s[a].type>>
        BY <3>2 DEF Tells
      <4>0. PICK p \in Extent(s[a]) : x = <<p, s[a].type>>
        BY <4>1
      <4>2. a \in 1..(L + 1) /\ t[a] = s[a]
        BY <1>1, <2>2
      <4> QED
        BY <4>0, <4>2 DEF Tells
    <3>3. ASSUME NEW p \in Extent(e), x = <<p, e.type>> PROVE Tells(t, L + 1, x)
      <4>1. L + 1 \in 1..(L + 1)
        BY <1>1
      <4> QED
        BY <2>2, <3>3, <4>1 DEF Tells
    <3> QED
      BY <2>2, <3>1, <3>2, <3>3
  <2>6. Len(t) > 0 /\ End(t[Len(t)]) = End(e)
    BY <1>1, <2>2
  <2> QED
    BY <2>2, <2>3, <2>4, <2>5, <2>6 DEF t
<1> QED
  BY <1>3, <1>4

\* The map that BuildMemoryMap makes of areas in order.
LEMMA CombinedIs ==
  ASSUME NEW m \in Seq(Areas), InOrder(m)
  PROVE  LET c == Combined(m)
         IN c \in Seq(Areas) /\ InOrder(c) /\ NoneJoins(c) /\ \A x : Tells(c, Len(c), x) <=> Tells(m, Len(m), x)
<1> DEFINE n == Len(m)
<1>1. n \in Nat /\ DOMAIN m = 1..n /\ \A a \in 1..n : m[a] \in Areas
  BY LenProperties, ElementOfSeq
<1>2. PICK run : Joining!Runs(run, <<>>, m, n) /\ Joining!Folded(<<>>, m) = run[n]
  BY <1>1, Joining!FoldedIs
<1>3. run[0] = <<>> /\ \A k \in 1..n : run[k] = Joined(run[k - 1], m[k])
  BY <1>2 DEF Joining!Runs
<1> DEFINE Good(k) == /\ run[k] \in Seq(Areas) /\ InOrder(run[k]) /\ NoneJoins(run[k])
                      /\ Len(run[k]) > 0 => k > 0 /\ End(run[k][Len(run[k])]) = End(m[k])
                      /\ \A x : Tells(run[k], Len(run[k]), x) <=> Tells(m, k, x)
           A == {k \in 0..n : Good(k)}
<1>4. 0 \in A
  <2>1. run[0] \in Seq(Areas) /\ Len(run[0]) = 0
    BY <1>3
  <2>2. InOrder(run[0]) /\ NoneJoins(run[0])
    BY <2>1 DEF InOrder, NoneJoins
  <2>3. \A x : ~Tells(run[0], Len(run[0]), x) /\ ~Tells(m, 0, x)
    BY <2>1 DEF Tells
  <2> QED
    BY <1>1, <2>1, <2>2, <2>3
<1>5. ASSUME NEW k \in 1..n, k - 1 \in A PROVE k \in A
  <2> DEFINE s == run[k - 1]
             e == m[k]
             t == run[k]
  <2>1. s \in Seq(Areas) /\ InOrder(s) /\ NoneJoins(s) /\ e \in Areas /\ t = Joined(s, e)
        /\ (Len(s) > 0 => k - 1 > 0 /\ End(s[Len(s)]) = End(m[k - 1]))
        /\ \A x : Tells(s, Len(s), x) <=> Tells(m, k - 1, x)
    BY <1>1, <1>3, <1>5
  <2>2. Len(s) > 0 => End(s[Len(s)]) <= e.address
    <3> SUFFICES ASSUME Len(s) > 0 PROVE End(s[Len(s)]) <= e.address
      OBVIOUS
    <3>1. k - 1 \in 1..n /\ k \in 1..n /\ k - 1 < k /\ End(s[Len(s)]) = End(m[k - 1])
      BY <1>1, <2>1
    <3> QED
      BY <3>1 DEF InOrder, End
  <2> HIDE DEF s, e, t
  <2>3. /\ t \in Seq(Areas) /\ Len(t) > 0 /\ InOrder(t) /\ NoneJoins(t) /\ End(t[Len(t)]) = End(e)
        /\ \A x : Tells(t, Len(t), x) <=> Tells(s, Len(s), x) \/ \E p \in Extent(e) : x = <<p, e.type>>
    BY <2>1, <2>2, JoinedIs
  <2>4. \A x : Tells(m, k, x) <=> Tells(m, k - 1, x) \/ \E p \in Extent(e) : x = <<p, e.type>>
    <3>1. \A a : a \in 1..k <=> (a = k \/ a \in 1..(k - 1))
      BY <1>1
    <3> QED
      BY <3>1 DEF e, Tells
  <2>5. Good(k)
    <3>1. \A x : Tells(t, Len(t), x) <=> Tells(m, k, x)
      BY <2>1, <2>3, <2>4
    <3> QED
      BY <2>3, <3>1 DEF t, e
  <2> QED
    BY <2>5
<1> HIDE DEF A
<1>6. 0..n \subseteq A
  BY <1>1, <1>4, <1>5, InductionUpTo
<1>7. Good(n)
  <2>1. n \in A
    BY <1>1, <1>6
  <2> QED
    BY <2>1 DEF A
<1>8. Combined(m) = run[n]
  BY <1>2, FoldsAre
<1> QED
  BY <1>7, <1>8

\* The map the kernel gets from a map of the firmware.
LEMMA MapIs ==
  ASSUME NEW efi \in UNION FirmwareMaps
  PROVE  LET m == BuildMemoryMap(efi)
         IN /\ m \in Seq(Areas) /\ InOrder(m) /\ NoneJoins(m)
            /\ PagesAndTypes(m) = PagesAndTypes(Translated(efi))
            /\ \A p : <<p, "MMAP_FREE">> \in PagesAndTypes(m) => p \in Pages \ (BootPages \cup {Root, Identity})
<1> DEFINE t == Translated(efi)
           n == Len(efi)
           s == Sorted(t)
           m == BuildMemoryMap(efi)
<1>1. /\ n \in Nat /\ DOMAIN efi = 1..n
      /\ \A i \in 1..n : efi[i].address \in Nat /\ efi[i].size \in Nat \ {0} /\ efi[i].type \in STRING
      /\ \A i, j \in 1..n : i # j => Extent(efi[i]) \cap Extent(efi[j]) = {}
      /\ \A i \in 1..n : efi[i].type = "EfiConventionalMemory" =>
            Extent(efi[i]) \subseteq Pages \ (BootPages \cup {Root, Identity})
  <2> DEFINE D == [type : STRING, address : Nat, size : Nat \ {0}]
  <2>1. /\ efi \in Seq(D)
        /\ \A i, j \in DOMAIN efi : i # j => Extent(efi[i]) \cap Extent(efi[j]) = {}
        /\ \A i \in DOMAIN efi : efi[i].type = "EfiConventionalMemory" =>
             Extent(efi[i]) \subseteq Pages \ (BootPages \cup {Root, Identity})
    BY FirmwareAssumption
  <2> HIDE DEF D
  <2>2. n \in Nat /\ DOMAIN efi = 1..n /\ \A i \in 1..n : efi[i] \in D
    BY <2>1, LenProperties, ElementOfSeq
  <2> QED
    BY <2>1, <2>2 DEF D
<1>2. \A type : MmapType(type) \in Kinds /\ (MmapType(type) = "MMAP_FREE" => type = "EfiConventionalMemory")
  <2>1. ASSUME NEW type PROVE MmapType(type) \in Kinds
    BY SMTT(30) DEF MmapType, Kinds
  <2>2. ASSUME NEW type, type # "EfiConventionalMemory" PROVE MmapType(type) # "MMAP_FREE"
    BY <2>2, SMTT(30) DEF MmapType
  <2> QED
    BY <2>1, <2>2
<1>3. /\ t \in Seq(Areas) /\ Len(t) = n
      /\ \A i \in 1..n : t[i] = [address |-> efi[i].address, size |-> efi[i].size, type |-> MmapType(efi[i].type)]
  <2> DEFINE a(i) == [address |-> efi[i].address, size |-> efi[i].size, type |-> MmapType(efi[i].type)]
  <2>1. t = [i \in 1..n |-> a(i)]
    BY <1>1 DEF Translated
  <2>2. \A i \in 1..n : a(i) \in Areas
    BY <1>1, <1>2 DEF Areas
  <2> HIDE DEF t, n, a
  <2>3. t \in [1..n -> Areas]
    BY <2>1, <2>2
  <2>4. t \in Seq(Areas)
    BY <1>1, <2>3, SeqDef
  <2>5. Len(t) = n
    BY <1>1, <2>3, <2>4, LenProperties
  <2>6. \A i \in 1..n : t[i] = a(i)
    BY <2>1
  <2> QED
    BY <2>4, <2>5, <2>6 DEF a
<1>4. \A i \in 1..n : Extent(t[i]) = Extent(efi[i])
  <2> SUFFICES ASSUME NEW i \in 1..n PROVE Extent(t[i]) = Extent(efi[i])
    OBVIOUS
  <2> HIDE DEF t
  <2>1. t[i].address = efi[i].address /\ t[i].size = efi[i].size
    <3>1. t[i] = [address |-> efi[i].address, size |-> efi[i].size, type |-> MmapType(efi[i].type)]
      BY <1>3
    <3> QED
      BY <3>1
  <2> QED
    BY <2>1 DEF Extent
<1>5. \A a, b \in 1..Len(t) : a # b => Extent(t[a]) \cap Extent(t[b]) = {}
  BY <1>1, <1>3, <1>4
<1> HIDE DEF t, n
<1>6. /\ s \in Seq(Areas) /\ InOrder(s)
      /\ \A x : (\E a \in 1..Len(s) : s[a] = x) <=> (\E a \in 1..Len(t) : t[a] = x)
  BY <1>3, <1>5, SortedIs
<1>7. \A x : Tells(s, Len(s), x) <=> Tells(t, Len(t), x)
  <2>1. ASSUME NEW x, Tells(s, Len(s), x) PROVE Tells(t, Len(t), x)
    <3>1. PICK a \in 1..Len(s) : \E p \in Extent(s[a]) : x = <<p, s[a].type>>
      BY <2>1 DEF Tells
    <3>2. PICK b \in 1..Len(t) : t[b] = s[a]
      BY <1>6
    <3>3. \E p \in Extent(t[b]) : x = <<p, t[b].type>>
      BY <3>1, <3>2
    <3> QED
      BY <3>3 DEF Tells
  <2>2. ASSUME NEW x, Tells(t, Len(t), x) PROVE Tells(s, Len(s), x)
    <3>1. PICK a \in 1..Len(t) : \E p \in Extent(t[a]) : x = <<p, t[a].type>>
      BY <2>2 DEF Tells
    <3>2. PICK b \in 1..Len(s) : s[b] = t[a]
      BY <1>6
    <3>3. \E p \in Extent(s[b]) : x = <<p, s[b].type>>
      BY <3>1, <3>2
    <3> QED
      BY <3>3 DEF Tells
  <2> QED
    BY <2>1, <2>2
<1>8. m = Combined(s)
  BY DEF BuildMemoryMap, t
<1> HIDE DEF s, m
<1>9. m \in Seq(Areas) /\ InOrder(m) /\ NoneJoins(m) /\ \A x : Tells(m, Len(m), x) <=> Tells(s, Len(s), x)
  <2>1. LET c == Combined(s)
        IN c \in Seq(Areas) /\ InOrder(c) /\ NoneJoins(c) /\ \A x : Tells(c, Len(c), x) <=> Tells(s, Len(s), x)
    BY <1>6, CombinedIs
  <2> QED
    BY <1>8, <2>1
<1>10. PagesAndTypes(m) = PagesAndTypes(t)
  <2>1. \A x : x \in PagesAndTypes(m) <=> x \in PagesAndTypes(t)
    BY <1>3, <1>7, <1>9, TellsIs
  <2> QED
    BY <2>1
<1>11. ASSUME NEW p, <<p, "MMAP_FREE">> \in PagesAndTypes(m) PROVE p \in Pages \ (BootPages \cup {Root, Identity})
  <2>1. Tells(t, Len(t), <<p, "MMAP_FREE">>)
    BY <1>3, <1>10, <1>11, TellsIs
  <2>2. PICK a \in 1..Len(t) : \E q \in Extent(t[a]) : <<p, "MMAP_FREE">> = <<q, t[a].type>>
    BY <2>1 DEF Tells
  <2>3. a \in 1..n /\ p \in Extent(efi[a]) /\ MmapType(efi[a].type) = "MMAP_FREE"
    BY <1>3, <1>4, <2>2
  <2> QED
    BY <1>1, <1>2, <2>3
<1> QED
  BY <1>9, <1>10, <1>11 DEF m, t

----
----------------------------------------------------------------------------
(* What pmm_init counts                                                    *)

\* The sizes of areas in order add up to the number of their pages.
LEMMA SizesAdded ==
  ASSUME NEW m \in Seq(Areas), InOrder(m)
  PROVE  Adding!Folded(0, m) = Cardinality(PagesAndTypes(m))
<1> DEFINE n == Len(m)
           Told(k) == {x \in PagesAndTypes(m) : Tells(m, k, x)}
<1>1. n \in Nat /\ DOMAIN m = 1..n /\ \A a \in 1..n : m[a].address \in Nat /\ m[a].size \in Nat \ {0}
  <2>1. n \in Nat /\ DOMAIN m = 1..n /\ \A a \in 1..n : m[a] \in Areas
    BY LenProperties, ElementOfSeq
  <2> QED
    BY <2>1 DEF Areas
<1>2. PICK run : Adding!Runs(run, 0, m, n) /\ Adding!Folded(0, m) = run[n]
  BY <1>1, Adding!FoldedIs
<1>3. run[0] = 0 /\ \A k \in 1..n : run[k] = run[k - 1] + m[k].size
  BY <1>2 DEF Adding!Runs
<1> DEFINE A == {k \in 0..n : IsFiniteSet(Told(k)) /\ Cardinality(Told(k)) = run[k]}
<1>4. 0 \in A
  <2>1. Told(0) = {}
    BY DEF Tells
  <2> QED
    BY <1>1, <1>3, <2>1, FS_EmptySet
<1>5. ASSUME NEW k \in 1..n, k - 1 \in A PROVE k \in A
  <2> DEFINE P == Extent(m[k]) \X {m[k].type}
  <2>1. Told(k) = Told(k - 1) \cup P
    <3>1. \A a : a \in 1..k <=> (a = k \/ a \in 1..(k - 1))
      BY <1>1
    <3>2. \A x : Tells(m, k, x) <=> Tells(m, k - 1, x) \/ x \in P
      BY <3>1 DEF Tells
    <3>3. \A x \in P : x \in PagesAndTypes(m)
      <4>1. \A x \in P : Tells(m, n, x)
        BY DEF Tells
      <4> QED
        BY <4>1, TellsIs
    <3> QED
      BY <3>2, <3>3
  <2>2. Told(k - 1) \cap P = {}
    <3> SUFFICES ASSUME NEW x, x \in P, Tells(m, k - 1, x) PROVE FALSE
      OBVIOUS
    <3>1. PICK a \in 1..(k - 1) : \E p \in Extent(m[a]) : x = <<p, m[a].type>>
      BY DEF Tells
    <3>2. PICK p \in Extent(m[k]) : x = <<p, m[k].type>>
      OBVIOUS
    <3>3. p \in Extent(m[a])
      BY <3>1, <3>2
    <3>4. a \in 1..n /\ a < k
      BY <1>1
    <3>5. m[a].address + m[a].size <= m[k].address
      BY <3>4 DEF InOrder
    <3> QED
      BY <1>1, <3>2, <3>3, <3>4, <3>5 DEF Extent
  <2>3. IsFiniteSet(P) /\ Cardinality(P) = m[k].size
    <3>1. m[k].address \in Nat /\ m[k].size \in Nat \ {0}
      BY <1>1
    <3>2. IsFiniteSet(Extent(m[k])) /\ Cardinality(Extent(m[k])) = m[k].size
      <4> DEFINE lo == m[k].address
                 hi == m[k].address + m[k].size - 1
      <4>1. lo \in Int /\ hi \in Int /\ ~(lo > hi) /\ hi - lo + 1 = m[k].size
        BY <3>1
      <4> HIDE DEF lo, hi
      <4>2. IsFiniteSet(lo..hi) /\ Cardinality(lo..hi) = hi - lo + 1
        BY <4>1, FS_Interval
      <4> QED
        BY <4>1, <4>2 DEF Extent, lo, hi
    <3>3. IsFiniteSet({m[k].type}) /\ Cardinality({m[k].type}) = 1
      BY FS_Singleton
    <3>4. IsFiniteSet(P) /\ Cardinality(P) = Cardinality(Extent(m[k])) * Cardinality({m[k].type})
      BY <3>2, <3>3, FS_Product
    <3> QED
      BY <3>1, <3>2, <3>3, <3>4
  <2>4. IsFiniteSet(Told(k - 1)) /\ Cardinality(Told(k - 1)) = run[k - 1]
    BY <1>5
  <2> HIDE DEF P, Told
  <2>5. /\ IsFiniteSet(Told(k - 1) \cup P)
        /\ Cardinality(Told(k - 1) \cup P) = Cardinality(Told(k - 1)) + Cardinality(P) - Cardinality(Told(k - 1) \cap P)
    BY <2>3, <2>4, FS_Union
  <2>6. Cardinality(Told(k - 1) \cap P) = 0
    BY <2>2, FS_EmptySet
  <2>7. run[k - 1] \in Nat /\ m[k].size \in Nat
    BY <1>1, <2>4, FS_CardinalityType
  <2>8. Cardinality(Told(k)) = run[k]
    BY <1>3, <2>1, <2>3, <2>4, <2>5, <2>6, <2>7
  <2>9. IsFiniteSet(Told(k)) /\ k \in 0..n
    BY <1>1, <2>1, <2>5
  <2> QED
    BY <2>8, <2>9
<1>6. \A x : x \in PagesAndTypes(m) <=> Tells(m, n, x)
  BY TellsIs
<1>7. Told(n) = PagesAndTypes(m)
  BY <1>6
<1> HIDE DEF A, Told
<1>8. 0..n \subseteq A
  BY <1>1, <1>4, <1>5, InductionUpTo
<1>9. n \in A
  BY <1>1, <1>8
<1> QED
  BY <1>2, <1>7, <1>9 DEF A

\* Page p is in one of the first k areas that are free.
FreePage(m, k, p) == p # 0 /\ \E a \in 1..k : m[a].type = "MMAP_FREE" /\ p \in Extent(m[a])

\* The pages of one entry that pmm_init frees.
FreedOf(e) ==
  IF e.type = "MMAP_FREE"
  THEN LET first == IF e.address = 0 THEN 1 ELSE e.address
       IN [j \in 1..(e.address + e.size - first) |-> first + j - 1]
  ELSE <<>>

\* They are its pages, each once, page 0 apart.
LEMMA FreedOfIs ==
  ASSUME NEW e \in Areas
  PROVE  LET s == FreedOf(e)
         IN /\ s \in Seq(Nat \ {0}) /\ Len(s) <= IF e.type \in Used THEN e.size ELSE 0
            /\ \A i, j \in 1..Len(s) : s[i] = s[j] => i = j
            /\ \A p : (\E j \in 1..Len(s) : s[j] = p) <=> p # 0 /\ e.type = "MMAP_FREE" /\ p \in Extent(e)
<1> DEFINE s == FreedOf(e)
<1>1. e.address \in Nat /\ e.size \in Nat \ {0}
  BY DEF Areas
<1>2. CASE e.type = "MMAP_FREE"
  <2> DEFINE first == IF e.address = 0 THEN 1 ELSE e.address
             n == e.address + e.size - first
  <2>1. s = [j \in 1..n |-> first + j - 1]
    BY <1>2 DEF FreedOf
  <2>2. /\ first \in Nat \ {0} /\ n \in Nat /\ n <= e.size
        /\ \A p : p # 0 /\ p \in Extent(e) <=> p \in first..(first + n - 1)
    <3>1. first \in Nat \ {0} /\ n \in Nat /\ n <= e.size /\ first + n - 1 = e.address + e.size - 1
      BY <1>1
    <3>2. Extent(e) = e.address..(e.address + e.size - 1)
      BY DEF Extent
    <3>3. \A p : p # 0 /\ p \in Extent(e) <=> p \in first..(e.address + e.size - 1)
      BY <1>1, <3>2
    <3> QED
      BY <3>1, <3>3
  <2> HIDE DEF first, n, s
  <2>3. s \in Seq(Nat \ {0}) /\ Len(s) = n
    <3>1. \A j \in 1..n : first + j - 1 \in Nat \ {0}
      BY <2>2
    <3> QED
      BY <2>1, <2>2, <3>1
  <2>4. \A i, j \in 1..n : s[i] = s[j] => i = j
    BY <2>1, <2>2
  <2>5. ASSUME NEW p PROVE (\E j \in 1..n : s[j] = p) <=> p \in first..(first + n - 1)
    <3>1. ASSUME NEW j \in 1..n PROVE s[j] \in first..(first + n - 1)
      BY <2>1, <2>2
    <3>2. ASSUME p \in first..(first + n - 1) PROVE \E j \in 1..n : s[j] = p
      <4>1. p - first + 1 \in 1..n /\ s[p - first + 1] = p
        BY <2>1, <2>2, <3>2
      <4> QED
        BY <4>1
    <3> QED
      BY <3>1, <3>2
  <2>6. e.type \in Used
    BY <1>2 DEF Used
  <2> QED
    BY <1>2, <2>2, <2>3, <2>4, <2>5, <2>6 DEF s
<1>3. CASE e.type # "MMAP_FREE"
  <2>1. s = <<>>
    BY <1>3 DEF FreedOf
  <2>2. <<>> \in Seq(Nat \ {0}) /\ Len(<<>>) = 0
    BY EmptySeq
  <2> QED
    BY <1>1, <1>3, <2>1, <2>2 DEF s
<1> QED
  BY <1>2, <1>3

\* The pages of one entry behind those of the others before it.
LEMMA FreedMore ==
  ASSUME NEW s \in Seq(Nat \ {0}), NEW t \in Seq(Nat \ {0}),
         \A i, j \in 1..Len(s) : s[i] = s[j] => i = j,
         \A i, j \in 1..Len(t) : t[i] = t[j] => i = j,
         \A i \in 1..Len(s), j \in 1..Len(t) : s[i] # t[j]
  PROVE  LET r == s \o t
         IN /\ r \in Seq(Nat \ {0}) /\ Len(r) = Len(s) + Len(t)
            /\ \A i, j \in 1..Len(r) : r[i] = r[j] => i = j
            /\ \A p : (\E i \in 1..Len(r) : r[i] = p) <=> (\E i \in 1..Len(s) : s[i] = p) \/ (\E i \in 1..Len(t) : t[i] = p)
<1> DEFINE r == s \o t
           L == Len(s)
           M == Len(t)
<1>1. L \in Nat /\ M \in Nat
  BY LenProperties
<1>2. /\ r \in Seq(Nat \ {0}) /\ Len(r) = L + M
      /\ \A i \in 1..(L + M) : r[i] = IF i <= L THEN s[i] ELSE t[i - L]
  BY ConcatProperties
<1> HIDE DEF r, L, M
<1>3. ASSUME NEW i \in 1..(L + M) PROVE \/ i \in 1..L /\ r[i] = s[i]
                                        \/ i - L \in 1..M /\ r[i] = t[i - L]
  BY <1>1, <1>2
<1>4. ASSUME NEW i \in 1..(L + M), NEW j \in 1..(L + M), r[i] = r[j] PROVE i = j
  <2>1. CASE i \in 1..L /\ r[i] = s[i] /\ j \in 1..L /\ r[j] = s[j]
    BY <1>4, <2>1 DEF L
  <2>2. CASE i - L \in 1..M /\ r[i] = t[i - L] /\ j - L \in 1..M /\ r[j] = t[j - L]
    <3>1. i - L = j - L
      BY <1>4, <2>2 DEF M
    <3> QED
      BY <1>1, <3>1
  <2> QED
    BY <1>3, <1>4, <2>1, <2>2 DEF L, M
<1>5. ASSUME NEW p PROVE (\E i \in 1..(L + M) : r[i] = p) <=> (\E i \in 1..L : s[i] = p) \/ (\E i \in 1..M : t[i] = p)
  <2>1. \A i \in 1..L : i \in 1..(L + M) /\ r[i] = s[i]
    BY <1>1, <1>2
  <2>2. \A i \in 1..M : i + L \in 1..(L + M) /\ r[i + L] = t[i]
    BY <1>1, <1>2
  <2>3. ASSUME NEW i \in 1..(L + M), r[i] = p PROVE (\E j \in 1..L : s[j] = p) \/ (\E j \in 1..M : t[j] = p)
    BY <1>3, <2>3
  <2>4. ASSUME NEW i \in 1..L, s[i] = p PROVE \E j \in 1..(L + M) : r[j] = p
    BY <2>1, <2>4
  <2>5. ASSUME NEW i \in 1..M, t[i] = p PROVE \E j \in 1..(L + M) : r[j] = p
    BY <2>2, <2>5
  <2> QED
    BY <2>3, <2>4, <2>5
<1> QED
  BY <1>2, <1>4, <1>5 DEF r, L, M

\* What pmm_init frees: the pages that are free, but not page 0, once each, and
\* no more than its counters allow for.
LEMMA FreedIs ==
  ASSUME mmap \in Seq(Areas), InOrder(mmap)
  PROVE  /\ Freed \in Seq(Nat \ {0}) /\ \A i, j \in 1..Len(Freed) : Freed[i] = Freed[j] => i = j
         /\ \A p : (\E i \in 1..Len(Freed) : Freed[i] = p) <=> p # 0 /\ <<p, "MMAP_FREE">> \in PagesAndTypes(mmap)
         /\ SizeOf(Used) \in Nat /\ Len(Freed) <= SizeOf(Used)
         /\ Adding!Folded(0, mmap) \in Nat /\ SizeOf(Used) <= Adding!Folded(0, mmap)
<1> DEFINE n == Len(mmap)
           parts == [i \in 1..n |-> FreedOf(mmap[i])]
<1>1. n \in Nat /\ DOMAIN mmap = 1..n /\ \A a \in 1..n : mmap[a] \in Areas
  BY LenProperties, ElementOfSeq
<1>2. Freed = FlattenSeq(parts)
  BY <1>1 DEF Freed, FreedOf
<1>3. parts \in Seq(Seq(Nat \ {0})) /\ DOMAIN parts = 1..n /\ \A i \in 1..n : parts[i] = FreedOf(mmap[i])
  <2>1. \A i \in 1..n : FreedOf(mmap[i]) \in Seq(Nat \ {0})
    BY <1>1, FreedOfIs
  <2> HIDE DEF n
  <2> QED
    BY <1>1, <2>1
<1> HIDE DEF parts
<1>4. PICK flat : Flat!Runs(flat, <<>>, parts, n) /\ Flat!Folded(<<>>, parts) = flat[n]
  BY <1>1, <1>3, Flat!FoldedIs
<1>5. PICK all : Adding!Runs(all, 0, mmap, n) /\ Adding!Folded(0, mmap) = all[n]
  BY <1>1, Adding!FoldedIs
<1>6. PICK some : Sizing!Runs(some, 0, mmap, n) /\ Sizing!Folded(0, mmap) = some[n]
  BY <1>1, Sizing!FoldedIs
<1>7. /\ flat[0] = <<>> /\ \A k \in 1..n : flat[k] = flat[k - 1] \o FreedOf(mmap[k])
      /\ all[0] = 0 /\ \A k \in 1..n : all[k] = all[k - 1] + mmap[k].size
      /\ some[0] = 0 /\ \A k \in 1..n : some[k] = IF mmap[k].type \in Used THEN some[k - 1] + mmap[k].size ELSE some[k - 1]
  <2>1. flat[0] = <<>> /\ \A k \in 1..n : flat[k] = flat[k - 1] \o parts[k]
    BY <1>4 DEF Flat!Runs
  <2>2. all[0] = 0 /\ \A k \in 1..n : all[k] = all[k - 1] + mmap[k].size
    BY <1>5 DEF Adding!Runs
  <2>3. some[0] = 0 /\ \A k \in 1..n : some[k] = IF mmap[k].type \in Used THEN some[k - 1] + mmap[k].size ELSE some[k - 1]
    BY <1>6 DEF Sizing!Runs
  <2> QED
    BY <1>3, <2>1, <2>2, <2>3
<1> DEFINE Good(k) == /\ flat[k] \in Seq(Nat \ {0})
                      /\ \A i, j \in 1..Len(flat[k]) : flat[k][i] = flat[k][j] => i = j
                      /\ \A p : (\E i \in 1..Len(flat[k]) : flat[k][i] = p) <=> FreePage(mmap, k, p)
                      /\ some[k] \in Nat /\ Len(flat[k]) <= some[k]
                      /\ all[k] \in Nat /\ some[k] <= all[k]
           A == {k \in 0..n : Good(k)}
<1>8. 0 \in A
  <2>1. flat[0] \in Seq(Nat \ {0}) /\ Len(flat[0]) = 0 /\ some[0] = 0 /\ all[0] = 0
    BY <1>7, EmptySeq
  <2>2. \A p : ~FreePage(mmap, 0, p)
    BY DEF FreePage
  <2>3. 0 \in 0..n
    BY <1>1
  <2> QED
    BY <2>1, <2>2, <2>3
<1>9. ASSUME NEW k \in 1..n, k - 1 \in A PROVE k \in A
  <2> DEFINE s == flat[k - 1]
             e == mmap[k]
             t == FreedOf(e)
             r == flat[k]
  <2>1. Good(k - 1)
    BY <1>9
  <2>2. r = s \o t /\ e \in Areas /\ e.address \in Nat /\ e.size \in Nat
    BY <1>1, <1>7 DEF Areas
  <2>3. /\ t \in Seq(Nat \ {0}) /\ Len(t) <= IF e.type \in Used THEN e.size ELSE 0
        /\ \A i, j \in 1..Len(t) : t[i] = t[j] => i = j
        /\ \A p : (\E j \in 1..Len(t) : t[j] = p) <=> p # 0 /\ e.type = "MMAP_FREE" /\ p \in Extent(e)
    BY <2>2, FreedOfIs
  <2>4. \A p : FreePage(mmap, k, p) <=> FreePage(mmap, k - 1, p) \/ (p # 0 /\ e.type = "MMAP_FREE" /\ p \in Extent(e))
    <3>1. \A a : a \in 1..k <=> (a = k \/ a \in 1..(k - 1))
      BY <1>1
    <3> QED
      BY <3>1 DEF FreePage
  <2>5. ASSUME NEW i \in 1..Len(s), NEW j \in 1..Len(t), s[i] = t[j] PROVE FALSE
    <3>1. FreePage(mmap, k - 1, s[i]) /\ s[i] \in Extent(e)
      BY <2>1, <2>3, <2>5
    <3>2. PICK a \in 1..(k - 1) : s[i] \in Extent(mmap[a])
      BY <3>1 DEF FreePage
    <3>3. a \in 1..n /\ a < k /\ mmap[a].address \in Nat /\ mmap[a].size \in Nat
      BY <1>1 DEF Areas
    <3>4. mmap[a].address + mmap[a].size <= e.address
      BY <3>3 DEF InOrder
    <3>5. s[i] \in Int /\ s[i] < mmap[a].address + mmap[a].size
      <4> DEFINE p == s[i]
                 x == mmap[a].address
                 y == mmap[a].size
      <4>1. p \in x..(x + y - 1) /\ x \in Nat /\ y \in Nat
        BY <3>2, <3>3 DEF Extent
      <4> HIDE DEF p, x, y
      <4>2. p \in Int /\ p < x + y
        BY <4>1
      <4> QED
        BY <4>2 DEF p, x, y
    <3>6. e.address <= s[i]
      BY <2>2, <3>1 DEF Extent
    <3> HIDE DEF s, e
    <3> QED
      BY <2>2, <3>3, <3>4, <3>5, <3>6
  <2> HIDE DEF s, e, t, r
  <2>6. /\ s \in Seq(Nat \ {0}) /\ \A i, j \in 1..Len(s) : s[i] = s[j] => i = j
        /\ \A p : (\E i \in 1..Len(s) : s[i] = p) <=> FreePage(mmap, k - 1, p)
    BY <2>1 DEF s
  <2>7. /\ r \in Seq(Nat \ {0}) /\ Len(r) = Len(s) + Len(t)
        /\ \A i, j \in 1..Len(r) : r[i] = r[j] => i = j
        /\ \A p : (\E i \in 1..Len(r) : r[i] = p) <=> (\E i \in 1..Len(s) : s[i] = p) \/ (\E i \in 1..Len(t) : t[i] = p)
    <3>0. \A i \in 1..Len(s), j \in 1..Len(t) : s[i] # t[j]
      BY <2>5
    <3>1. LET q == s \o t
          IN /\ q \in Seq(Nat \ {0}) /\ Len(q) = Len(s) + Len(t)
             /\ \A i, j \in 1..Len(q) : q[i] = q[j] => i = j
             /\ \A p : (\E i \in 1..Len(q) : q[i] = p) <=> (\E i \in 1..Len(s) : s[i] = p) \/ (\E i \in 1..Len(t) : t[i] = p)
      BY <2>3, <2>6, <3>0, FreedMore
    <3> QED
      BY <2>2, <3>1
  <2>8. \A p : (\E i \in 1..Len(r) : r[i] = p) <=> FreePage(mmap, k, p)
    BY <2>3, <2>4, <2>6, <2>7
  <2>9. some[k] \in Nat /\ Len(r) <= some[k] /\ all[k] \in Nat /\ some[k] <= all[k]
    <3>1. all[k] = all[k - 1] + e.size /\ some[k] = IF e.type \in Used THEN some[k - 1] + e.size ELSE some[k - 1]
      BY <1>7 DEF e
    <3>2. some[k - 1] \in Nat /\ Len(s) <= some[k - 1] /\ all[k - 1] \in Nat /\ some[k - 1] <= all[k - 1]
      BY <2>1 DEF s
    <3>3. Len(s) \in Nat /\ Len(t) \in Nat
      BY <2>3, <2>6, LenProperties
    <3> QED
      BY <2>2, <2>3, <2>7, <3>1, <3>2, <3>3
  <2>10. Good(k)
    BY <2>7, <2>8, <2>9 DEF r
  <2> QED
    BY <2>10
<1> HIDE DEF A
<1>10. 0..n \subseteq A
  BY <1>1, <1>8, <1>9, InductionUpTo
<1>11. Good(n)
  <2>1. n \in A
    BY <1>1, <1>10
  <2> QED
    BY <2>1 DEF A
<1>12. Freed = flat[n] /\ SizeOf(Used) = some[n] /\ Adding!Folded(0, mmap) = all[n]
  <2>1. Freed = Flat!Folded(<<>>, parts)
    BY <1>2, <1>3, Flattened
  <2> QED
    BY <1>4, <1>5, <1>6, <2>1, FoldsAre
<1>13. \A p : FreePage(mmap, n, p) <=> p # 0 /\ <<p, "MMAP_FREE">> \in PagesAndTypes(mmap)
  <2>1. \A p : <<p, "MMAP_FREE">> \in PagesAndTypes(mmap) <=> Tells(mmap, n, <<p, "MMAP_FREE">>)
    BY TellsIs
  <2> QED
    BY <2>1 DEF Tells, FreePage
<1> QED
  BY <1>11, <1>12, <1>13

----------------------------------------------------------------------------
(* What the boot loader loads                                              *)

\* The kernel's program headers.
Headers == [type : {"PT_LOAD", "PT_NOTE"}, vaddr : Nat, filesz : Nat, memsz : Nat]

\* Those of segments are some of them.
LEMMA LoadsIs == Loads \in Seq(Headers)
<1> DEFINE n == Len(Phdrs)
<1>1. n \in Nat /\ DOMAIN Phdrs = 1..n /\ \A i \in 1..n : Phdrs[i] \in Headers
  <2>1. Phdrs \in Seq(Headers)
    BY PagingAssumption DEF Headers
  <2> QED
    BY <2>1, LenProperties, ElementOfSeq
<1>2. PICK run : Loading!Runs(run, <<>>, Phdrs, n) /\ Loading!Folded(<<>>, Phdrs) = run[n]
  BY <1>1, Loading!FoldedIs
<1>3. run[0] = <<>>
      /\ \A k \in 1..n : run[k] = IF Phdrs[k].type = "PT_LOAD" THEN Append(run[k - 1], Phdrs[k]) ELSE run[k - 1]
  BY <1>2 DEF Loading!Runs
<1> DEFINE A == {k \in 0..n : run[k] \in Seq(Headers)}
<1>4. 0 \in A
  <2>1. <<>> \in Seq(Headers) /\ 0 \in 0..n
    BY <1>1, EmptySeq
  <2> QED
    BY <1>3, <2>1
<1>5. ASSUME NEW k \in 1..n, k - 1 \in A PROVE k \in A
  <2>1. run[k - 1] \in Seq(Headers) /\ Phdrs[k] \in Headers
    BY <1>1, <1>5
  <2>2. Append(run[k - 1], Phdrs[k]) \in Seq(Headers)
    BY <2>1, AppendProperties
  <2>3. run[k] \in Seq(Headers)
    BY <1>3, <2>1, <2>2
  <2> QED
    BY <2>3
<1> HIDE DEF A
<1>6. 0..n \subseteq A
  BY <1>1, <1>4, <1>5, InductionUpTo
<1>7. n \in A
  BY <1>1, <1>6
<1> QED
  BY <1>2, <1>7, FoldsAre DEF A

\* The pages of the segments are among those mapped, so not the firmware's.
LEMMA SegmentsApart ==
  /\ DOMAIN KernelSegments = 1..Len(KernelSegments) /\ Len(KernelSegments) \in Nat
  /\ \A s \in 1..Len(KernelSegments) :
       Root \notin KernelSegments[s].phys..(KernelSegments[s].phys + KernelSegments[s].pages - 1)
<1> DEFINE K == KernelSegments
           n == Len(Loads)
           last == [virt |-> InitrdVirt, phys |-> Last(Allocated), pages |-> (InitrdSize - 1) \div Entries + 1]
           part(s) == [j \in 1..SegmentsToMap[s].pages |->
                         [virt |-> SegmentsToMap[s].virt + j - 1, phys |-> SegmentsToMap[s].phys + j - 1]]
           parts == [s \in 1..(n + 1) |-> part(s)]
           S == UNION {{part(s)[j] : j \in 1..SegmentsToMap[s].pages} : s \in 1..(n + 1)}
<1>1. n \in Nat /\ DOMAIN Loads = 1..n /\ \A s \in 1..n : Loads[s] \in Headers
  BY LoadsIs, LenProperties, ElementOfSeq
<1>2. /\ K = [s \in 1..n |-> [virt |-> Loads[s].vaddr, phys |-> Allocated[s], pages |-> PagesFor(Loads[s].memsz)]]
      /\ DOMAIN K = 1..n
  BY <1>1 DEF KernelSegments
<1> DEFINE R == {K[s] : s \in 1..n} \cup {last}
<1>3. K \in Seq(R) /\ Len(K) = n
  <2>1. \A s \in 1..n : K[s] \in R
    OBVIOUS
  <2> HIDE DEF R, K, n
  <2> QED
    BY <1>1, <1>2, <2>1
<1>4. /\ Len(SegmentsToMap) = n + 1 /\ DOMAIN SegmentsToMap = 1..(n + 1)
      /\ \A s \in 1..n : SegmentsToMap[s] = K[s]
      /\ SegmentsToMap[n + 1] = last
  <2>1. last \in R
    OBVIOUS
  <2>2. SegmentsToMap = Append(K, last)
    BY DEF SegmentsToMap
  <2> HIDE DEF R, K, n, last
  <2>3. /\ SegmentsToMap \in Seq(R) /\ Len(SegmentsToMap) = n + 1
        /\ (\A s \in 1..n : SegmentsToMap[s] = K[s]) /\ SegmentsToMap[n + 1] = last
    BY <1>3, <2>1, <2>2, AppendProperties
  <2> QED
    BY <2>3, LenProperties
<1>5. \A s \in 1..(n + 1) : SegmentsToMap[s].pages \in Nat
  <2>1. Entries \in Nat \ {0} /\ InitrdSize \in Nat \ {0}
    BY PagingAssumption
  <2>2. \A w \in Nat : PagesFor(w) \in Nat
    BY <2>1 DEF PagesFor
  <2>3. ASSUME NEW s \in 1..n PROVE SegmentsToMap[s].pages \in Nat
    <3>1. SegmentsToMap[s].pages = PagesFor(Loads[s].memsz) /\ Loads[s].memsz \in Nat
      BY <1>1, <1>2, <1>4 DEF Headers
    <3> QED
      BY <2>2, <3>1
  <2>4. (InitrdSize - 1) \div Entries + 1 \in Nat
    BY <2>1
  <2>5. SegmentsToMap[n + 1].pages \in Nat
    BY <1>4, <2>4
  <2>6. \A s \in 1..(n + 1) : s \in 1..n \/ s = n + 1
    BY <1>1
  <2> QED
    BY <2>3, <2>5, <2>6
<1>6. PagesToMap = FlattenSeq(parts)
  BY <1>4 DEF PagesToMap
<1> HIDE DEF last, R
<1>7. parts \in Seq(Seq(S)) /\ Len(parts) = n + 1 /\ DOMAIN parts = 1..(n + 1)
      /\ \A s \in 1..(n + 1) : parts[s] = part(s) /\ part(s) \in Seq(S) /\ Len(part(s)) = SegmentsToMap[s].pages
  <2>1. ASSUME NEW s \in 1..(n + 1)
        PROVE  part(s) \in Seq(S) /\ Len(part(s)) = SegmentsToMap[s].pages
    <3> DEFINE m == SegmentsToMap[s].pages
    <3>1. ASSUME NEW j \in 1..m PROVE part(s)[j] \in S
      <4> HIDE DEF part
      <4>1. part(s)[j] \in {part(s)[i] : i \in 1..SegmentsToMap[s].pages}
        OBVIOUS
      <4> QED
        BY <4>1
    <3>2. DOMAIN part(s) = 1..m /\ m \in Nat /\ part(s) = [j \in 1..m |-> part(s)[j]]
      BY <1>5
    <3> HIDE DEF part, S, m
    <3>3. part(s) \in Seq(S) /\ Len(part(s)) = m
      BY <3>1, <3>2
    <3> QED
      BY <3>3 DEF m
  <2> HIDE DEF part, S, n
  <2>2. parts \in Seq(Seq(S)) /\ Len(parts) = n + 1
    BY <1>1, <2>1
  <2> QED
    BY <2>1, <2>2
<1>8. PICK run : Flat!Runs(run, <<>>, parts, n + 1) /\ Flat!Folded(<<>>, parts) = run[n + 1]
  <2> DEFINE N == n + 1
  <2>1. N \in Nat /\ DOMAIN parts = 1..N
    BY <1>1
  <2> HIDE DEF parts, N
  <2>2. \E run : Flat!Runs(run, <<>>, parts, N) /\ Flat!Folded(<<>>, parts) = run[N]
    BY <2>1, Flat!FoldedIs
  <2> QED
    BY <2>2 DEF N
<1>9. run[0] = <<>> /\ \A k \in 1..(n + 1) : run[k] = run[k - 1] \o part(k)
  <2> HIDE DEF parts, part
  <2> QED
    BY <1>7, <1>8 DEF Flat!Runs
<1>10. PagesToMap = run[n + 1]
  <2> HIDE DEF parts, S
  <2> QED
    BY <1>6, <1>7, <1>8, Flattened
<1> DEFINE A == {k \in 0..(n + 1) : /\ run[k] \in Seq(S)
                                    /\ \A s \in 1..k : \A j \in 1..SegmentsToMap[s].pages :
                                         \E i \in 1..Len(run[k]) : run[k][i] = part(s)[j]}
<1>11. 0 \in A
  <2>1. <<>> \in Seq(S) /\ 0 \in 0..(n + 1)
    BY <1>1, EmptySeq
  <2>2. \A s \in 1..0 : FALSE
    OBVIOUS
  <2> HIDE DEF S, part
  <2> QED
    BY <1>9, <2>1, <2>2
<1>12. ASSUME NEW k \in 1..(n + 1), k - 1 \in A PROVE k \in A
  <2> DEFINE q == run[k - 1]
             t == part(k)
             r == run[k]
  <2>1. /\ q \in Seq(S) /\ \A s \in 1..(k - 1) : \A j \in 1..SegmentsToMap[s].pages : \E i \in 1..Len(q) : q[i] = part(s)[j]
        /\ t \in Seq(S) /\ Len(t) = SegmentsToMap[k].pages /\ r = q \o t
    BY <1>7, <1>9, <1>12
  <2> HIDE DEF q, t, r, part, S
  <2>2. r \in Seq(S) /\ Len(r) = Len(q) + Len(t) /\ Len(q) \in Nat /\ Len(t) \in Nat
        /\ \A i \in 1..(Len(q) + Len(t)) : r[i] = IF i <= Len(q) THEN q[i] ELSE t[i - Len(q)]
    BY <2>1, ConcatProperties, LenProperties
  <2>3. ASSUME NEW s \in 1..k, NEW j \in 1..SegmentsToMap[s].pages PROVE \E i \in 1..Len(r) : r[i] = part(s)[j]
    <3>1. CASE s = k
      <4>1. j + Len(q) \in 1..Len(r) /\ r[j + Len(q)] = t[j]
        BY <2>1, <2>2, <3>1
      <4> QED
        BY <3>1, <4>1 DEF t
    <3>2. CASE s # k
      <4>1. s \in 1..(k - 1)
        BY <1>1, <3>2
      <4>2. PICK i \in 1..Len(q) : q[i] = part(s)[j]
        BY <2>1, <4>1
      <4>3. i \in 1..Len(r) /\ r[i] = q[i]
        BY <2>2
      <4> QED
        BY <4>2, <4>3
    <3> QED
      BY <3>1, <3>2
  <2>4. k \in 0..(n + 1)
    BY <1>1
  <2> QED
    BY <2>2, <2>3, <2>4 DEF r
<1> HIDE DEF A
<1>13. 0..(n + 1) \subseteq A
  <2>1. n + 1 \in Nat
    BY <1>1
  <2> HIDE DEF n
  <2> QED
    BY <1>11, <1>12, <2>1, InductionUpTo
<1>14. \A s \in 1..(n + 1) : \A j \in 1..SegmentsToMap[s].pages :
         \E i \in 1..Len(PagesToMap) : PagesToMap[i] = part(s)[j]
  <2>1. n + 1 \in A
    BY <1>1, <1>13
  <2> HIDE DEF part, S
  <2> QED
    BY <1>10, <2>1 DEF A
<1>15. ASSUME NEW s \in 1..n, Root \in K[s].phys..(K[s].phys + K[s].pages - 1) PROVE FALSE
  <2> DEFINE a == Allocated[s]
             m == K[s].pages
  <2>1. s \in 1..(n + 1) /\ SegmentsToMap[s] = K[s] /\ K[s].phys = a
    BY <1>1, <1>2, <1>4
  <2>2. a \in Nat /\ m \in Nat /\ Root \in Nat
    <3>1. s \in 1..Len(Allocated) /\ Allocated \in Seq(Pages) /\ Pages \subseteq Nat /\ Root \in Pages
      BY <1>1, LoaderAssumption, PagingAssumption
    <3>2. a \in Pages
      BY <3>1, ElementOfSeq
    <3> QED
      BY <1>5, <2>1, <3>1, <3>2
  <2>3. Root \in a..(a + m - 1)
    BY <1>15, <2>1
  <2> DEFINE j == Root - a + 1
  <2>4. j \in 1..m /\ a + j - 1 = Root
    <3> HIDE DEF a, m
    <3> QED
      BY <2>2, <2>3
  <2>5. part(s)[j].phys = a + j - 1
    <3>1. j \in 1..SegmentsToMap[s].pages
      BY <2>1, <2>4
    <3> HIDE DEF j, a, m
    <3>2. part(s)[j].phys = SegmentsToMap[s].phys + j - 1
      BY <3>1
    <3> QED
      BY <2>1, <3>2
  <2>6. PICK i \in 1..Len(PagesToMap) : PagesToMap[i] = part(s)[j]
    <3> HIDE DEF part, j
    <3> QED
      BY <1>14, <2>1, <2>4
  <2>7. PagesToMap[i].phys # Root
    <3>1. PagesToMap[i] \in [virt : {v \in Virtual : Index(v, 1) # 0},
                             phys : Pages \ (ToSet(FreePages) \cup {Root, Identity})]
      BY LoaderAssumption, ElementOfSeq
    <3> QED
      BY <3>1
  <2> HIDE DEF part, j, a
  <2> QED
    BY <2>4, <2>5, <2>6, <2>7
<1> QED
  BY <1>1, <1>2, <1>3, <1>15

\* Loading changes no table of the firmware.
LEMMA LoadKeeps == mem \in Memory /\ LoadFiles => mem' \in Memory /\ mem'[Root] = mem[Root]
<1> SUFFICES ASSUME mem \in Memory, LoadFiles PROVE mem' \in Memory /\ mem'[Root] = mem[Root]
  OBVIOUS
<1> DEFINE sel(p) == SelectInSeq(KernelSegments, LAMBDA k : p \in k.phys..(k.phys + k.pages - 1))
           new(p) == IF sel(p) = 0 THEN mem[p]
                     ELSE [i \in 0..(Entries - 1) |->
                             IF (p - Allocated[sel(p)]) * Entries + i < Loads[sel(p)].filesz THEN Garbage ELSE Zero]
<1>1. mem' = [p \in Pages |-> new(p)]
  BY DEF LoadFiles
<1>2. Garbage \in Words /\ Zero \in Words
  BY PagingAssumption DEF Words, Garbage, Zero, Word
<1>3. \A p \in Pages : mem[p] \in [Idx -> Words]
  BY DEF Memory
<1>4. \A p \in Pages : new(p) \in [Idx -> Words]
  <2> SUFFICES ASSUME NEW p \in Pages PROVE new(p) \in [Idx -> Words]
    OBVIOUS
  <2> DEFINE test(i) == (p - Allocated[sel(p)]) * Entries + i < Loads[sel(p)].filesz
  <2>1. new(p) = IF sel(p) = 0 THEN mem[p] ELSE [i \in Idx |-> IF test(i) THEN Garbage ELSE Zero]
    BY DEF Idx
  <2> HIDE DEF new, test, sel
  <2> QED
    BY <1>2, <1>3, <2>1
<1>5. sel(Root) = 0
  <2>1. {i \in 1..Len(KernelSegments) : Root \in KernelSegments[i].phys..(KernelSegments[i].phys + KernelSegments[i].pages - 1)} = {}
    BY SegmentsApart
  <2> QED
    BY <2>1 DEF SelectInSeq
<1>6. new(Root) = mem[Root]
  BY <1>5
<1> HIDE DEF new
<1> QED
  BY <1>1, <1>4, <1>6, PagingAssumption DEF Memory

----------------------------------------------------------------------------
(* The boot loader's tables                                                *)

\* The entries of the root that are not the boot loader's.
Firmwares == {0, PhysIndex}

\* MapPages has mapped the first j pages: the tables are pages it reserved, and
\* each of the pages it mapped has the way of its virtual page.
BootWalk(at, j, T) ==
  /\ TreeBut(at.mem, T, Firmwares) /\ Fresh(T, at.supply)
  /\ \A i \in 1..Len(at.supply) : at.supply[i] \in ToSet(FreePages)
  /\ \A p \in T.used : p \in ToSet(FreePages) \/ \E i \in 1..j : p = PagesToMap[i].phys
  /\ \A p \in T.used : T.level[p] = 4 => \E i \in 1..j : p = PagesToMap[i].phys /\ Way(T, PagesToMap[i].virt, 4, p)
  /\ \A i \in 1..j : Has(T, PagesToMap[i].virt, 3)

\* The virtual pages MapPages is to map.
BootVirts == {m.virt : m \in ToSet(PagesToMap)}

\* From one walk and tree to a later one c pages went, each for a table that
\* was missing on the way of one of those.
Spent(before, T, after, Z, c) ==
  /\ c \in 0..Len(before.supply) /\ Len(after.supply) = Len(before.supply) - c
  /\ \A i \in 1..Len(after.supply) : after.supply[i] = before.supply[i + c]
  /\ Cardinality(Lacks(T, BootVirts)) = Cardinality(Lacks(Z, BootVirts)) + c

\* What LoaderAssumption says of the pages to map, one by one.
LEMMA PagesToMapAre ==
  /\ Len(PagesToMap) \in Nat /\ DOMAIN PagesToMap = 1..Len(PagesToMap)
  /\ \A i \in 1..Len(PagesToMap) :
       /\ PagesToMap[i].virt \in Virtual /\ Index(PagesToMap[i].virt, 1) \notin Firmwares
       /\ PagesToMap[i].phys \in Pages /\ PagesToMap[i].phys \notin ToSet(FreePages)
       /\ PagesToMap[i].phys # Root /\ PagesToMap[i].phys # Identity
  /\ \A i, j \in 1..Len(PagesToMap) :
       i # j => PagesToMap[i].virt # PagesToMap[j].virt /\ PagesToMap[i].phys # PagesToMap[j].phys
<1> DEFINE R == [virt : {v \in Virtual : Index(v, 1) # 0}, phys : Pages \ (ToSet(FreePages) \cup {Root, Identity})]
           n == Len(PagesToMap)
<1>1. PagesToMap \in Seq(R)
  BY LoaderAssumption
<1>2. n \in Nat /\ DOMAIN PagesToMap = 1..n /\ \A i \in 1..n : PagesToMap[i] \in R
  <2> HIDE DEF R
  <2> QED
    BY <1>1, LenProperties, ElementOfSeq
<1>3. \A i \in 1..n :
        /\ PagesToMap[i].virt \in Virtual /\ Index(PagesToMap[i].virt, 1) # 0
        /\ PagesToMap[i].phys \in Pages \ (ToSet(FreePages) \cup {Root, Identity})
  BY <1>2
<1>4. \A v \in Virtual : Index(v, 1) # PhysIndex
  BY DEF Virtual
<1> QED
  BY <1>2, <1>3, <1>4, LoaderAssumption DEF Firmwares

LEMMA BootVirtsAre ==
  /\ BootVirts = {PagesToMap[i].virt : i \in 1..Len(PagesToMap)}
  /\ BootVirts \subseteq Virtual /\ IsFiniteSet(BootVirts)
  /\ \A v \in BootVirts : Index(v, 1) \notin Firmwares
<1> DEFINE n == Len(PagesToMap)
           f == [i \in 1..n |-> PagesToMap[i].virt]
           R == {f[i] : i \in 1..n}
<1>1. n \in Nat /\ DOMAIN PagesToMap = 1..n
  BY PagesToMapAre
<1>2. ToSet(PagesToMap) = {PagesToMap[i] : i \in 1..n}
  BY <1>1 DEF ToSet
<1>3. BootVirts = {PagesToMap[i].virt : i \in 1..n}
  BY <1>2 DEF BootVirts
<1>4. BootVirts = R
  BY <1>3
<1>5. IsFiniteSet(1..n)
  <2>1. 1 \in Int /\ n \in Int
    BY <1>1
  <2> QED
    BY <2>1, FS_Interval
<1>6. f \in Surjection(1..n, R)
  BY DEF Surjection
<1>7. IsFiniteSet(R)
  <2> HIDE DEF R, f, n
  <2> QED
    BY <1>5, <1>6, FS_Surjection DEF ExistsSurjection
<1> HIDE DEF R, f
<1> QED
  BY <1>3, <1>4, <1>7, PagesToMapAre

\* The pages of two stretches add up.
LEMMA SpentOn ==
  ASSUME NEW a, NEW T, NEW b, NEW S, NEW c, Spent(a, T, b, S, c),
         NEW e, NEW Z, NEW d, Spent(b, S, e, Z, d), Len(a.supply) \in Nat
  PROVE  Spent(a, T, e, Z, c + d)
<1>1. /\ c \in 0..Len(a.supply) /\ Len(b.supply) = Len(a.supply) - c
      /\ \A i \in 1..Len(b.supply) : b.supply[i] = a.supply[i + c]
      /\ Cardinality(Lacks(T, BootVirts)) = Cardinality(Lacks(S, BootVirts)) + c
  BY DEF Spent
<1>2. /\ d \in 0..Len(b.supply) /\ Len(e.supply) = Len(b.supply) - d
      /\ \A i \in 1..Len(e.supply) : e.supply[i] = b.supply[i + d]
      /\ Cardinality(Lacks(S, BootVirts)) = Cardinality(Lacks(Z, BootVirts)) + d
  BY DEF Spent
<1>3. c \in Nat /\ d \in Nat /\ c + d \in 0..Len(a.supply) /\ Len(e.supply) = Len(a.supply) - (c + d)
  BY <1>1, <1>2
<1>4. ASSUME NEW i \in 1..Len(e.supply) PROVE e.supply[i] = a.supply[i + (c + d)]
  <2>1. i + d \in 1..Len(b.supply) /\ (i + d) + c = i + (c + d)
    BY <1>1, <1>2
  <2> QED
    BY <1>1, <1>2, <2>1
<1>5. Cardinality(Lacks(T, BootVirts)) = Cardinality(Lacks(Z, BootVirts)) + (c + d)
  <2>1. Cardinality(Lacks(Z, BootVirts)) \in Nat
    BY BootVirtsAre, LacksFinite
  <2> HIDE DEF Lacks, BootVirts
  <2> QED
    BY <1>1, <1>2, <1>3, <2>1
<1> QED
  BY <1>3, <1>4, <1>5 DEF Spent

\* map_page keeps to words and pages, and what has run out has run out.
LEMMA MapPageWalks ==
  ASSUME NEW at \in Walks, NEW v \in Virtual, NEW page \in Pages
  PROVE  MapPage(at, v, page) \in Walks /\ (at.short => MapPage(at, v, page).short)
<1> DEFINE start == [at EXCEPT !.page = Root]
           pdpt == Enter(start, Index(v, 1))
           pdt  == Enter(pdpt, Index(v, 2))
           pt   == Enter(pdt, Index(v, 3))
<1>1. Index(v, 1) \in Idx /\ Index(v, 2) \in Idx /\ Index(v, 3) \in Idx /\ Index(v, 4) \in Idx
  BY IndexFacts
<1>2. start \in Walks /\ start.short = at.short
  BY PagingAssumption DEF Walks
<1> HIDE DEF start
<1>3. MapPage(at, v, page) = [pt EXCEPT !.mem[pt.page][Index(v, 4)] = Entry(page)]
  BY DEF MapPage, start
<1>4. pdpt \in Walks /\ (start.short => pdpt.short)
  BY <1>1, <1>2, EnterIs
<1> HIDE DEF pdpt
<1>5. pdt \in Walks /\ (pdpt.short => pdt.short)
  BY <1>1, <1>4, EnterIs
<1> HIDE DEF pdt
<1>6. pt \in Walks /\ (pdt.short => pt.short)
  BY <1>1, <1>5, EnterIs
<1> HIDE DEF pt
<1> DEFINE new == [pt.mem EXCEPT ![pt.page][Index(v, 4)] = Entry(page)]
<1>7. new \in Memory
  <2>1. pt.mem \in [Pages -> [Idx -> Words]] /\ pt.page \in Pages /\ Entry(page) \in Words
    BY <1>6, ZeroFacts DEF Walks, Memory
  <2>2. [pt.mem[pt.page] EXCEPT ![Index(v, 4)] = Entry(page)] \in [Idx -> Words]
    BY <1>1, <2>1
  <2> QED
    BY <2>1, <2>2 DEF Memory
<1>8. MapPage(at, v, page) = [pt EXCEPT !.mem = new]
  BY <1>3, <1>6 DEF Walks
<1> HIDE DEF new
<1>9. MapPage(at, v, page) \in Walks /\ MapPage(at, v, page).short = pt.short
  BY <1>6, <1>7, <1>8 DEF Walks
<1> QED
  BY <1>2, <1>4, <1>5, <1>6, <1>9

\* The body of MapPages: one page more.
LEMMA BootStep ==
  ASSUME NEW before \in Walks, NEW T, NEW j \in 1..Len(PagesToMap), BootWalk(before, j - 1, T),
         ~MapPage(before, PagesToMap[j].virt, PagesToMap[j].phys).short
  PROVE  LET done == MapPage(before, PagesToMap[j].virt, PagesToMap[j].phys)
         IN \E Z, c : BootWalk(done, j, Z) /\ Spent(before, T, done, Z, c)
<1> DEFINE v == PagesToMap[j].virt
           p == PagesToMap[j].phys
           done == MapPage(before, v, p)
           avail == before.supply
           m0 == before.mem
           X == Firmwares
<1>1. /\ v \in Virtual /\ Index(v, 1) \notin X /\ p \in Pages /\ p \notin ToSet(FreePages) /\ p # Root /\ p # Identity
      /\ \A i \in 1..(j - 1) : PagesToMap[i].virt \in Virtual /\ PagesToMap[i].virt # v /\ PagesToMap[i].phys # p
      /\ j \in Nat
  <2>1. \A i \in 1..(j - 1) : i \in 1..Len(PagesToMap) /\ i # j
    BY PagesToMapAre
  <2> QED
    BY <2>1, PagesToMapAre
<1>2. /\ TreeBut(m0, T, X) /\ Fresh(T, avail)
      /\ \A i \in 1..Len(avail) : avail[i] \in ToSet(FreePages)
      /\ \A q \in T.used : q \in ToSet(FreePages) \/ \E i \in 1..(j - 1) : q = PagesToMap[i].phys
      /\ \A q \in T.used : T.level[q] = 4 =>
           \E i \in 1..(j - 1) : q = PagesToMap[i].phys /\ Way(T, PagesToMap[i].virt, 4, q)
      /\ \A i \in 1..(j - 1) : Has(T, PagesToMap[i].virt, 3)
  BY DEF BootWalk
<1> HIDE DEF v, p, avail, m0, X
<1>3. PICK at, S, c :
        /\ Walking(at, m0, T, X, avail, v, 3, S, c)
        /\ done.mem = [at.mem EXCEPT ![at.page][Index(v, 4)] = Entry(p)]
        /\ done.supply = at.supply
  <2>1. Arrived(MapPage(before, v, p), before.mem, T, X, before.supply, v, p)
    <3>1. ~MapPage(before, v, p).short
      BY DEF v, p
    <3>2. TreeBut(before.mem, T, X) /\ Fresh(T, before.supply)
      BY <1>2 DEF m0, avail
    <3>3. before \in Walks /\ Index(v, 1) \notin X
      BY <1>1
    <3>4. LET d == MapPage(before, v, p)
          IN ~d.short => Arrived(d, before.mem, T, X, before.supply, v, p)
      BY <1>1, <3>2, <3>3, MapPageIs
    <3> QED
      BY <3>1, <3>4
  <2> QED
    BY <2>1 DEF Arrived, avail, m0
<1> HIDE DEF done
<1> DEFINE t == at.page
           m == at.mem
           i == Index(v, 4)
           n == done.mem
           r == done.supply
<1>4. /\ m \in Memory /\ t \in Pages /\ r \in Seq(Pages)
      /\ TreeBut(m, S, X) /\ Larger(T, S) /\ Way(S, v, 3, t) /\ c \in 0..Len(avail)
      /\ Len(r) = Len(avail) - c /\ \A k \in 1..Len(r) : r[k] = avail[k + c]
      /\ S.used = T.used \cup {avail[k] : k \in 1..c}
      /\ \A q \in S.used \ T.used : S.level[q] # 4
      /\ Counted(T, S, c, v)
  BY <1>3 DEF Walking, Walks
<1>5. n = [m EXCEPT ![t][i] = Entry(p)]
  BY <1>3
<1> HIDE DEF t, m, i, n, r
<1>6. i \in Idx /\ Len(avail) \in Nat
  BY <1>1, <1>2, IndexFacts, LenProperties DEF i, Fresh
<1>7. t \in Nodes(S) /\ S.level[t] = 3 /\ t # Root
  <2>1. t \in Nodes(S) /\ S.level[t] = 3
    BY <1>4, WayTable
  <2>2. S.level[Root] = 0
    BY <1>4 DEF TreeBut
  <2> QED
    BY <2>1, <2>2
<1>8. ~m[t][i].present
  <2> SUFFICES ASSUME m[t][i].present PROVE FALSE
    OBVIOUS
  <2> DEFINE q == m[t][i].page
  <2>1. q \in S.used /\ S.up[q] = t /\ S.ix[q] = i /\ q \in Pages /\ S.level[q] = 4
    <3>1. q \in S.used /\ S.up[q] = t /\ S.ix[q] = i
      BY <1>4, <1>6, <1>7 DEF TreeBut
    <3>2. S.level[q] = S.level[S.up[q]] + 1 /\ q \in Pages
      BY <1>4, <3>1 DEF TreeBut
    <3> QED
      BY <1>7, <3>1, <3>2
  <2> HIDE DEF q
  <2>2. q \in T.used /\ T.level[q] = 4
    <3>1. q \in T.used
      BY <1>4, <2>1
    <3> QED
      BY <1>4, <2>1, <3>1 DEF Larger
  <2>3. Way(S, v, 4, q)
    <3>1. 3 \in 0..3 /\ S.ix[q] = Index(v, 3 + 1)
      BY <2>1 DEF i
    <3>2. Way(S, v, 3 + 1, q)
      BY <1>4, <2>1, <3>1, WayStep
    <3> QED
      BY <3>2
  <2>4. Way(T, v, 4, q)
    BY <1>2, <1>4, <2>2, <2>3, WaySmaller
  <2>5. PICK k \in 1..(j - 1) : Way(T, PagesToMap[k].virt, 4, q)
    BY <1>2, <2>2
  <2>6. PagesToMap[k].virt = v
    BY <1>1, <2>4, <2>5, WayUnique
  <2> QED
    BY <1>1, <2>6
<1>9. p \notin S.used /\ t # p
  <2>1. \A k \in 1..c : avail[k] \in ToSet(FreePages)
    BY <1>2, <1>4, <1>6
  <2>2. p \notin S.used
    BY <1>1, <1>2, <1>4, <2>1
  <2> QED
    BY <1>1, <1>7, <2>2 DEF Nodes
<1>10. /\ n \in Memory
       /\ \A q \in Pages : q # p /\ q # t => n[q] = m[q]
       /\ \A k \in Idx : k # i => n[t][k] = m[t][k]
       /\ n[t][i] = Entry(p)
  <2>1. Entry(p) \in Words /\ m \in [Pages -> [Idx -> Words]] /\ m[t] \in [Idx -> Words]
    BY <1>1, <1>4, ZeroFacts DEF Memory
  <2>2. [m[t] EXCEPT ![i] = Entry(p)] \in [Idx -> Words]
    BY <1>6, <2>1
  <2>3. n = [m EXCEPT ![t] = [m[t] EXCEPT ![i] = Entry(p)]]
    BY <1>4, <1>5
  <2> QED
    BY <1>4, <1>6, <2>1, <2>2, <2>3 DEF Memory
<1>11. PICK Z : /\ TreeBut(n, Z, X) /\ Larger(S, Z) /\ Z.used = S.used \cup {p}
                /\ Z.level[p] = S.level[t] + 1 /\ Z.up[p] = t /\ Z.ix[p] = i
  <2>1. t \in Nodes(S) /\ S.level[t] # 4 /\ (t = Root => i \notin X) /\ S.level[t] = 3
    BY <1>7
  <2>2. m \in Memory /\ TreeBut(m, S, X) /\ i \in Idx /\ ~m[t][i].present
    BY <1>4, <1>6, <1>8
  <2>3. p \in Pages /\ p \notin S.used /\ p # Root /\ p # Identity
    BY <1>1, <1>9
  <2> HIDE DEF t, i, m, n
  <2>4. /\ n \in Memory
        /\ \A q \in Pages : q # p /\ q # t => n[q] = m[q]
        /\ \A k \in Idx : k # i => n[t][k] = m[t][k]
        /\ n[t][i] = Entry(p)
    BY <1>10
  <2>5. S.level[t] # 3 => \A k \in Idx : ~n[p][k].present
    BY <2>1
  <2> QED
    BY SMTT(60), <2>1, <2>2, <2>3, <2>4, <2>5, AddPage
<1>12. Way(Z, v, 4, p)
  <2>1. Way(Z, v, 3, t)
    <3>1. 3 \in 0..4
      OBVIOUS
    <3> QED
      BY ZenonT(40), <1>4, <1>11, <3>1, WayLarger
  <2>2. 3 \in 0..3 /\ p \in Z.used /\ Z.up[p] = t /\ Z.ix[p] = Index(v, 3 + 1)
    BY <1>11 DEF i
  <2>3. Way(Z, v, 3 + 1, p)
    BY <1>1, <2>1, <2>2, WayStep
  <2> QED
    BY <2>3
<1>13. Larger(T, Z)
  BY <1>4, <1>11 DEF Larger
<1>14. ASSUME NEW q \in Z.used, Z.level[q] = 4
       PROVE  \E k \in 1..j : q = PagesToMap[k].phys /\ Way(Z, PagesToMap[k].virt, 4, q)
  <2>1. CASE q = p
    BY <1>1, <1>12, <2>1 DEF p, v
  <2>2. CASE q # p
    <3>1. q \in T.used /\ T.level[q] = 4
      BY <1>4, <1>11, <1>14, <2>2 DEF Larger
    <3>2. PICK k \in 1..(j - 1) : q = PagesToMap[k].phys /\ Way(T, PagesToMap[k].virt, 4, q)
      BY <1>2, <3>1
    <3>3. k \in 1..j /\ 4 \in 0..4
      BY <1>1
    <3>4. Way(Z, PagesToMap[k].virt, 4, q)
      BY <1>13, <3>2, <3>3, WayLarger
    <3> QED
      BY <3>2, <3>3, <3>4
  <2> QED
    BY <2>1, <2>2
<1>15. ASSUME NEW q \in Z.used PROVE q \in ToSet(FreePages) \/ \E k \in 1..j : q = PagesToMap[k].phys
  <2>1. \A k \in 1..c : avail[k] \in ToSet(FreePages)
    BY <1>2, <1>4, <1>6
  <2>2. \A k \in 1..(j - 1) : k \in 1..j
    BY <1>1
  <2>3. j \in 1..j /\ p = PagesToMap[j].phys
    BY <1>1 DEF p
  <2> QED
    BY <1>2, <1>4, <1>11, <2>1, <2>2, <2>3
<1>16. ASSUME NEW k \in 1..Len(r)
       PROVE  k + c \in 1..Len(avail) /\ r[k] = avail[k + c] /\ r[k] \in ToSet(FreePages)
              /\ r[k] \notin Z.used \cup {Root, Identity}
  <2>1. k + c \in 1..Len(avail) /\ r[k] = avail[k + c]
    BY <1>4, <1>6
  <2>2. r[k] \in ToSet(FreePages) /\ r[k] \notin T.used \cup {Root, Identity} /\ r[k] # p
    BY <1>1, <1>2, <2>1 DEF Fresh
  <2>3. ASSUME NEW x \in 1..c PROVE avail[x] # r[k]
    <3>1. x \in 1..Len(avail) /\ x # k + c
      BY <1>4, <1>6
    <3> QED
      BY <1>2, <2>1, <3>1 DEF Fresh
  <2> QED
    BY <1>4, <1>11, <2>1, <2>2, <2>3
<1>17. Fresh(Z, r)
  <2>1. ASSUME NEW x \in 1..Len(r), NEW y \in 1..Len(r), r[x] = r[y] PROVE x = y
    <3>1. x + c = y + c
      BY <1>2, <1>16, <2>1 DEF Fresh
    <3> QED
      BY <1>4, <1>6, <3>1
  <2> QED
    BY <1>4, <1>16, <2>1 DEF Fresh
<1>19. ASSUME NEW k \in 1..j PROVE Has(Z, PagesToMap[k].virt, 3)
  <2>0. 3 \in 0..4
    OBVIOUS
  <2>1. CASE k = j
    <3>1. Way(Z, v, 3, t)
      BY ZenonT(40), <1>4, <1>11, <2>0, WayLarger
    <3> QED
      BY <2>1, <3>1 DEF Has, v
  <2>2. CASE k # j
    <3>1. k \in 1..(j - 1)
      BY <1>1, <2>2
    <3>2. PICK q : Way(T, PagesToMap[k].virt, 3, q)
      BY <1>2, <3>1 DEF Has
    <3>3. Way(Z, PagesToMap[k].virt, 3, q)
      BY <1>13, <2>0, <3>2, WayLarger
    <3> QED
      BY <3>3 DEF Has
  <2> QED
    BY <2>1, <2>2
<1>18. BootWalk(done, j, Z)
  <2>1. TreeBut(done.mem, Z, Firmwares) /\ Fresh(Z, done.supply)
    BY <1>11, <1>17 DEF n, r, X
  <2>2. \A k \in 1..Len(done.supply) : done.supply[k] \in ToSet(FreePages)
    BY <1>16 DEF r
  <2> QED
    BY <1>14, <1>15, <1>19, <2>1, <2>2 DEF BootWalk
<1>20. Spent(before, T, done, Z, c)
  <2>1. v \in BootVirts /\ BootVirts \in SUBSET Virtual /\ IsFiniteSet(BootVirts)
    BY BootVirtsAre DEF v
  <2>2. Cardinality(Lacks(T, BootVirts)) = Cardinality(Lacks(S, BootVirts)) + c
    BY <1>4, <2>1 DEF Counted
  <2>3. Z.level[p] = 4
    BY <1>7, <1>11
  <2>4. TreeBut(m, S, X) /\ TreeBut(n, Z, X) /\ Larger(S, Z) /\ Z.used = S.used \cup {p}
    BY <1>4, <1>11
  <2>5. Lacks(Z, BootVirts) = Lacks(S, BootVirts)
    BY <2>3, <2>4, LacksSame
  <2> QED
    BY <1>4, <2>2, <2>5 DEF Spent, r, avail
<1> QED
  BY <1>18, <1>20 DEF done, v, p

\* What the firmware leaves the boot loader: words, and in its root no entry but 0.
Firmware == mem \in Memory /\ \A i \in Idx : i # 0 => ~mem[Root][i].present

\* A tree of the root alone: what the boot loader finds.
Bare == [used |-> {}, level |-> [p \in {Root} |-> 0], up |-> [p \in {} |-> Root], ix |-> [p \in {} |-> 0]]

LEMMA BareIs == Firmware => TreeBut(mem, Bare, Firmwares)
<1> SUFFICES ASSUME Firmware PROVE TreeBut(mem, Bare, Firmwares)
  OBVIOUS
<1>1. /\ Bare.used = {} /\ Bare.level = [p \in {Root} |-> 0]
      /\ Bare.up = [p \in {} |-> Root] /\ Bare.ix = [p \in {} |-> 0]
  BY DEF Bare
<1>2. Nodes(Bare) = {Root}
  BY <1>1 DEF Nodes
<1>3. Bare.level \in [Nodes(Bare) -> 0..4] /\ Bare.level[Root] = 0
  BY <1>1, <1>2
<1>4. Bare.up \in [Bare.used -> Nodes(Bare)] /\ Bare.ix \in [Bare.used -> Idx]
  BY <1>1
<1>5. \A i \in Idx : i \notin Firmwares => ~mem[Root][i].present
  BY DEF Firmware, Firmwares
<1> QED
  BY <1>1, <1>2, <1>3, <1>4, <1>5 DEF TreeBut

\* The first n pages reserved may become tables.
LEMMA ReservedIs ==
  ASSUME NEW n \in 0..Len(FreePages)
  PROVE  LET supply == SubSeq(FreePages, 1, n)
         IN /\ supply \in Seq(Pages) /\ Len(supply) = n /\ Fresh(Bare, supply)
            /\ \A i \in 1..n : supply[i] \in ToSet(FreePages)
<1> DEFINE s == SubSeq(FreePages, 1, n)
<1>1. FreePages \in Seq(Pages) /\ DOMAIN FreePages = 1..Len(FreePages) /\ Len(FreePages) \in Nat
  BY PagingAssumption, LenProperties
<1>2. n \in Nat /\ \A i \in 1..n : i \in 1..Len(FreePages)
  BY <1>1
<1>3. s \in Seq(Pages) /\ Len(s) = n /\ \A i \in 1..n : s[i] = FreePages[i]
  <2>1. s = [i \in 1..n |-> FreePages[i]]
    <3>1. s = [i \in 1..(n - 1 + 1) |-> FreePages[i + 1 - 1]]
      BY <1>1, <1>2
    <3>2. n - 1 + 1 = n /\ \A i \in 1..n : i + 1 - 1 = i
      BY <1>2
    <3> HIDE DEF s
    <3> QED
      BY <3>1, <3>2
  <2> HIDE DEF s
  <2>2. \A i \in 1..n : FreePages[i] \in Pages
    BY <1>1, <1>2, ElementOfSeq
  <2>3. s \in [1..n -> Pages]
    BY <2>1, <2>2
  <2> QED
    BY <1>2, <2>1, <2>3
<1> HIDE DEF s
<1>4. \A i \in 1..Len(FreePages) : FreePages[i] \in ToSet(FreePages) /\ FreePages[i] \notin {Root, Identity}
  BY <1>1, LoaderAssumption DEF ToSet
<1>5. \A i, j \in 1..Len(FreePages) : FreePages[i] = FreePages[j] => i = j
  BY <1>1, LoaderAssumption DEF IsInjective
<1>6. Fresh(Bare, s)
  <2>1. Bare.used = {}
    BY DEF Bare
  <2> QED
    BY <1>2, <1>3, <1>4, <1>5, <2>1 DEF Fresh
<1>7. \A i \in 1..n : s[i] \in ToSet(FreePages)
  BY <1>2, <1>3, <1>4
<1> QED
  BY <1>3, <1>6, <1>7 DEF s

\* MapPages makes a tree of the pages reserved and loaded, and runs out of them
\* when there are fewer than tables missing.
LEMMA MappedIs ==
  ASSUME Firmware, NEW supply \in Seq(Pages), Fresh(Bare, supply),
         \A i \in 1..Len(supply) : supply[i] \in ToSet(FreePages)
  PROVE  LET done == Mapped(supply)
         IN /\ Takes(done, supply, Cardinality(Lacks(Bare, BootVirts)))
            /\ ~done.short =>
                 /\ done.mem \in Memory
                 /\ \E T : TreeBut(done.mem, T, Firmwares) /\ T.used \subseteq BootPages
<1> DEFINE n == Len(PagesToMap)
           base == Start(supply)
           missing == Cardinality(Lacks(Bare, BootVirts))
<1>1. n \in Nat /\ DOMAIN PagesToMap = 1..n
  BY PagesToMapAre
<1>2. PICK run : Mapping!Runs(run, base, PagesToMap, n) /\ Mapping!Folded(base, PagesToMap) = run[n]
  BY <1>1, Mapping!FoldedIs
<1>3. run[0] = base /\ \A k \in 1..n : run[k] = MapPage(run[k - 1], PagesToMap[k].virt, PagesToMap[k].phys)
  BY <1>2 DEF Mapping!Runs
<1>4. base \in Walks /\ base.mem = mem /\ base.supply = supply /\ ~base.short /\ Len(supply) \in Nat
  BY PagingAssumption, LenProperties DEF Firmware, Start, Walks
<1>13. missing \in Nat
  BY BootVirtsAre, LacksFinite
<1> HIDE DEF base, missing
<1> DEFINE Good(at, k) == /\ at \in Walks
                          /\ at.short => Len(supply) < missing
                          /\ ~at.short => \E T, c : BootWalk(at, k, T) /\ Spent(base, Bare, at, T, c)
           A == {k \in 0..n : Good(run[k], k)}
<1>5. 0 \in A
  <2>1. TreeBut(base.mem, Bare, Firmwares) /\ Fresh(Bare, base.supply)
    BY <1>4, BareIs
  <2>2. BootWalk(base, 0, Bare)
    BY <1>4, <2>1 DEF BootWalk, Bare
  <2>3. Spent(base, Bare, base, Bare, 0)
    <3>1. \A i \in 1..Len(supply) : i + 0 = i
      OBVIOUS
    <3>2. 0 \in 0..Len(supply) /\ Len(supply) = Len(supply) - 0 /\ missing = missing + 0
      BY <1>4, <1>13
    <3> QED
      BY <1>4, <3>1, <3>2 DEF Spent, missing
  <2>4. Good(run[0], 0)
    BY <1>3, <1>4, <2>2, <2>3
  <2> HIDE DEF Good
  <2> QED
    BY <1>1, <2>4
<1>6. ASSUME NEW k \in 1..n, k - 1 \in A PROVE k \in A
  <2> DEFINE before == run[k - 1]
             v == PagesToMap[k].virt
             p == PagesToMap[k].phys
             done == MapPage(before, v, p)
  <2>1. Good(before, k - 1) /\ run[k] = done
    BY <1>3, <1>6
  <2>2. v \in Virtual /\ Index(v, 1) \notin Firmwares /\ p \in Pages /\ v \in BootVirts
    BY PagesToMapAre, BootVirtsAre
  <2> HIDE DEF before
  <2>3. done \in Walks /\ (before.short => done.short)
    BY <2>1, <2>2, MapPageWalks
  <2>4. ASSUME ~done.short PROVE \E T, c : BootWalk(done, k, T) /\ Spent(base, Bare, done, T, c)
    <3>1. PICK T, c : BootWalk(before, k - 1, T) /\ Spent(base, Bare, before, T, c)
      BY <2>1, <2>3, <2>4
    <3>2. PICK Z, d : BootWalk(done, k, Z) /\ Spent(before, T, done, Z, d)
      BY <2>1, <2>4, <3>1, BootStep
    <3> HIDE DEF done
    <3>3. Spent(base, Bare, done, Z, c + d)
      BY <1>4, <3>1, <3>2, SpentOn
    <3> QED
      BY <3>2, <3>3
  <2>5. ASSUME ~before.short, done.short PROVE Len(supply) < missing
    <3>1. PICK T, c : BootWalk(before, k - 1, T) /\ Spent(base, Bare, before, T, c)
      BY <2>1, <2>5
    <3>2. TreeBut(before.mem, T, Firmwares) /\ Fresh(T, before.supply)
      BY <3>1 DEF BootWalk
    <3>3. LET d == MapPage(before, v, p)
          IN ~before.short /\ d.short =>
               \A V \in SUBSET Virtual :
                 IsFiniteSet(V) /\ v \in V => Len(before.supply) < Cardinality(Lacks(T, V))
      <4> HIDE DEF v, p
      <4> QED
        BY <2>1, <2>2, <3>2, MapPageIs
    <3>4. Len(before.supply) < Cardinality(Lacks(T, BootVirts))
      BY <2>2, <2>5, <3>3, BootVirtsAre
    <3>5. c \in 0..Len(supply) /\ Len(before.supply) = Len(supply) - c /\ missing = Cardinality(Lacks(T, BootVirts)) + c
      BY <1>4, <3>1 DEF Spent, missing
    <3>6. Cardinality(Lacks(T, BootVirts)) \in Nat
      BY BootVirtsAre, LacksFinite
    <3> HIDE DEF Lacks
    <3> QED
      BY <1>4, <3>4, <3>5, <3>6
  <2> HIDE DEF done
  <2>6. Good(done, k)
    BY <2>1, <2>3, <2>4, <2>5
  <2> HIDE DEF Good
  <2> QED
    BY <1>1, <2>1, <2>6
<1>7. n \in A
  <2> HIDE DEF A
  <2>1. 0..n \subseteq A
    BY <1>1, <1>5, <1>6, InductionUpTo
  <2> QED
    BY <1>1, <2>1
<1> DEFINE done == Mapped(supply)
<1>8. done = run[n]
  BY <1>2, FoldsAre DEF base
<1> HIDE DEF done
<1>9. Good(done, n)
  BY <1>7, <1>8
<1>10. ASSUME NEW T, NEW c, BootWalk(done, n, T), Spent(base, Bare, done, T, c), done \in Walks
       PROVE  done.supply = SubSeq(supply, missing + 1, Len(supply))
  <2>1. Lacks(T, BootVirts) = {}
    <3>1. ASSUME NEW v \in BootVirts, NEW k \in 1..3 PROVE Has(T, v, k)
      <4>1. PICK i \in 1..n : v = PagesToMap[i].virt
        BY BootVirtsAre
      <4>2. PICK q : Way(T, v, 3, q)
        BY <1>10, <4>1 DEF BootWalk, Has
      <4>3. Has(T, v, 1) /\ Has(T, v, 2) /\ Has(T, v, 3)
        BY <4>2, HasAbove
      <4> QED
        BY <4>3
    <3>2. \A x : x \notin Lacks(T, BootVirts)
      BY <3>1, LacksIs
    <3> QED
      BY <3>2
  <2>2. /\ c \in 0..Len(supply) /\ Len(done.supply) = Len(supply) - c
        /\ \A i \in 1..Len(done.supply) : done.supply[i] = supply[i + c]
        /\ missing = Cardinality(Lacks(T, BootVirts)) + c
    BY <1>4, <1>10 DEF Spent, missing
  <2>3. missing = c
    <3>1. Cardinality(Lacks(T, BootVirts)) = 0
      BY <2>1, FS_EmptySet
    <3>2. missing = 0 + c /\ c \in Nat
      BY <2>2, <3>1
    <3> QED
      BY <3>2
  <2>4. done.supply \in Seq(Pages)
    BY <1>10 DEF Walks
  <2> QED
    BY <2>2, <2>3, <2>4, RestIs
<1>11. Takes(done, supply, missing)
  BY <1>9, <1>10 DEF Takes
<1>12. ASSUME ~done.short
       PROVE  done.mem \in Memory /\ \E T : TreeBut(done.mem, T, Firmwares) /\ T.used \subseteq BootPages
  <2>1. PICK T : BootWalk(done, n, T)
    BY <1>9, <1>12
  <2>2. TreeBut(done.mem, T, Firmwares) /\ done.mem \in Memory
    BY <1>9, <2>1 DEF BootWalk, Walks
  <2>3. \A i \in 1..n : PagesToMap[i].phys \in BootPages
    <3>1. \A i \in 1..n : PagesToMap[i] \in ToSet(PagesToMap)
      BY <1>1 DEF ToSet
    <3> QED
      BY <3>1 DEF BootPages
  <2>4. ToSet(FreePages) \subseteq BootPages
    BY DEF BootPages
  <2>5. T.used \subseteq BootPages
    BY <2>1, <2>3, <2>4 DEF BootWalk
  <2> QED
    BY <2>2, <2>5
<1> QED
  BY <1>11, <1>12 DEF done, missing

\* All of the pages reserved.
LEMMA MappedAll ==
  ASSUME Firmware, ~Mapped(FreePages).short
  PROVE  /\ Mapped(FreePages).mem \in Memory
         /\ \E T : TreeBut(Mapped(FreePages).mem, T, Firmwares) /\ T.used \subseteq BootPages
<1>1. FreePages \in Seq(Pages) /\ Len(FreePages) \in Nat
  BY PagingAssumption, LenProperties
<1>2. SubSeq(FreePages, 1, Len(FreePages)) = FreePages
  BY <1>1, SubSeqFull
<1>3. Len(FreePages) \in 0..Len(FreePages)
  BY <1>1
<1>4. Fresh(Bare, FreePages) /\ \A i \in 1..Len(FreePages) : FreePages[i] \in ToSet(FreePages)
  <2>1. LET supply == SubSeq(FreePages, 1, Len(FreePages))
        IN Fresh(Bare, supply) /\ \A i \in 1..Len(FreePages) : supply[i] \in ToSet(FreePages)
    BY <1>3, ReservedIs
  <2> QED
    BY <1>2, <2>1
<1>5. LET done == Mapped(FreePages)
      IN ~done.short => done.mem \in Memory /\ \E T : TreeBut(done.mem, T, Firmwares) /\ T.used \subseteq BootPages
  BY <1>1, <1>4, MappedIs
<1> QED
  BY <1>5

----------------------------------------------------------------------------
(* The kernel takes over                                                   *)

\* A tree stays one where its tables do.
LEMMA TreeSame ==
  ASSUME NEW m, NEW n, NEW T, NEW X, TreeBut(m, T, X), \A q \in Nodes(T) : n[q] = m[q]
  PROVE  TreeBut(n, T, X)
<1>1. \A q \in T.used : T.up[q] \in Nodes(T)
  BY DEF TreeBut
<1> QED
  BY <1>1 DEF TreeBut

\* vmm_preinit moves the firmware's entry to where the tree has none.
LEMMA PreinitKeeps ==
  ASSUME mem \in Memory, NEW T, TreeBut(mem, T, Firmwares), VmmPreinit
  PROVE  mem' \in Memory /\ Tree(mem', T)
<1> DEFINE row == [[mem[Root] EXCEPT ![PhysIndex] = mem[Root][0]] EXCEPT ![0] = Zero]
<1>1. 0 \in Idx /\ PhysIndex \in Idx /\ PhysIndex # 0
  BY PagingAssumption DEF Idx, PhysIndex
<1>2. mem \in [Pages -> [Idx -> Words]] /\ Root \in Pages /\ mem[Root] \in [Idx -> Words]
      /\ mem[Root][0] \in Words /\ Zero \in Words
  <2> HIDE DEF row
  <2>1. mem \in [Pages -> [Idx -> Words]] /\ Root \in Pages
    BY PagingAssumption DEF Memory
  <2>2. mem[Root] \in [Idx -> Words]
    BY <2>1
  <2>3. Zero \in Words
    BY PagingAssumption DEF Zero, Word, Words
  <2> QED
    BY <1>1, <2>1, <2>2, <2>3
<1>3. row \in [Idx -> Words]
  <2>1. [mem[Root] EXCEPT ![PhysIndex] = mem[Root][0]] \in [Idx -> Words]
    BY <1>1, <1>2
  <2> QED
    BY <1>1, <1>2, <2>1
<1>4. row[0] = Zero /\ \A i \in Idx : i # 0 /\ i # PhysIndex => row[i] = mem[Root][i]
  BY <1>1, <1>2
<1>5. mem' = [mem EXCEPT ![Root] = row]
  BY <1>1, <1>2 DEF VmmPreinit
<1> HIDE DEF row
<1>6. mem' \in Memory /\ mem'[Root] = row /\ \A q \in Pages : q # Root => mem'[q] = mem[q]
  BY <1>2, <1>3, <1>5 DEF Memory
<1> DEFINE n == mem'
<1>7. /\ T.used \subseteq Pages \ {Root, Identity}
      /\ T.level \in [Nodes(T) -> 0..4] /\ T.level[Root] = 0
      /\ T.up \in [T.used -> Nodes(T)] /\ T.ix \in [T.used -> Idx]
  BY DEF TreeBut
<1>8. ~Zero.present
  BY DEF Zero, Word
<1>9. n[Root] = row /\ \A q \in T.used : n[q] = mem[q]
  BY <1>6, <1>7
<1> HIDE DEF n
<1>10. ASSUME NEW t \in Nodes(T), NEW i \in Idx, T.level[t] # 4, n[t][i].present, t = Root => i # PhysIndex
       PROVE  n[t][i].page \in T.used /\ T.up[n[t][i].page] = t /\ T.ix[n[t][i].page] = i
  <2>1. n[t][i] = mem[t][i] /\ (t = Root => i \notin Firmwares)
    BY <1>4, <1>8, <1>9, <1>10 DEF Nodes, Firmwares
  <2> QED
    BY <1>10, <2>1 DEF TreeBut
<1>11. ASSUME NEW q \in T.used
       PROVE  /\ T.level[T.up[q]] # 4 /\ T.level[q] = T.level[T.up[q]] + 1
              /\ n[T.up[q]][T.ix[q]].present /\ n[T.up[q]][T.ix[q]].page = q
              /\ T.up[q] = Root => T.ix[q] # PhysIndex
  <2>1. /\ T.level[T.up[q]] # 4 /\ T.level[q] = T.level[T.up[q]] + 1
        /\ mem[T.up[q]][T.ix[q]].present /\ mem[T.up[q]][T.ix[q]].page = q
        /\ T.up[q] = Root => T.ix[q] \notin Firmwares
    BY DEF TreeBut
  <2>2. T.up[q] \in Nodes(T) /\ T.ix[q] \in Idx
    BY <1>7
  <2>3. n[T.up[q]][T.ix[q]] = mem[T.up[q]][T.ix[q]]
    BY <1>4, <1>9, <2>1, <2>2 DEF Nodes, Firmwares
  <2> QED
    BY <2>1, <2>3 DEF Firmwares
<1>12. TreeBut(n, T, {PhysIndex})
  BY <1>7, <1>10, <1>11 DEF TreeBut
<1> QED
  BY <1>6, <1>12 DEF n, Tree

\* What the kernel can rely on in the map it gets.
HandedOver(m) ==
  /\ m \in Seq(Areas) /\ InOrder(m)
  /\ \A p : <<p, "MMAP_FREE">> \in PagesAndTypes(m) => p \in Pages \ (BootPages \cup {Root, Identity})

\* Where pmm_init frees a page.
LEMMA FreedAt ==
  ASSUME Len(Freed) \in Nat, \A i, j \in 1..Len(Freed) : Freed[i] = Freed[j] => i = j, NEW p
  PROVE  LET k == SelectInSeq(Freed, LAMBDA q : q = p)
         IN /\ \A i \in 1..Len(Freed) : Freed[i] = p => k = i
            /\ (\A i \in 1..Len(Freed) : Freed[i] # p) => k = 0
<1> DEFINE I == {i \in 1..Len(Freed) : Freed[i] = p}
           k == SelectInSeq(Freed, LAMBDA q : q = p)
<1>1. k = IF I # {} THEN Min(I) ELSE 0
  BY DEF SelectInSeq
<1>2. I \in SUBSET Nat /\ (\A i \in 1..Len(Freed) : Freed[i] = p <=> i \in I) /\ I \subseteq 1..Len(Freed)
  OBVIOUS
<1> HIDE DEF I, k
<1>3. I # {} => k \in I
  BY <1>1, <1>2, MinIs
<1> QED
  BY <1>1, <1>2, <1>3 DEF k

\* pmm_init makes a list of the free pages, in the order opposite to theirs,
\* and leaves the tables.
LEMMA PmmInitLinks ==
  ASSUME mem \in Memory, NEW T, Tree(mem, T), T.used \subseteq BootPages, HandedOver(mmap), PmmInit
  PROVE  \E w : /\ Apart(mem', next_free_page', T, w) /\ mem' \in Memory /\ next_free_page' \in Pages
                /\ Len(w) = Len(Freed) /\ InList(w) = FreeAtStart
                /\ FreeAtStart \cap BootPages = {}
<1> DEFINE L == Len(Freed)
           w == [i \in 1..L |-> Freed[L + 1 - i]]
           sel(p) == SelectInSeq(Freed, LAMBDA q : q = p)
           n == mem'
<1>1. /\ L \in Nat /\ DOMAIN Freed = 1..L /\ Freed \in Seq(Nat \ {0})
      /\ \A i, j \in 1..L : Freed[i] = Freed[j] => i = j
      /\ \A p : (\E i \in 1..L : Freed[i] = p) <=> p # 0 /\ <<p, "MMAP_FREE">> \in PagesAndTypes(mmap)
  BY FreedIs, LenProperties DEF HandedOver
<1>2. \A p : p # 0 /\ <<p, "MMAP_FREE">> \in PagesAndTypes(mmap) <=> p \in FreeAtStart
  BY DEF HandedOver, FreeAtStart
<1>3. FreeAtStart \subseteq Pages \ (BootPages \cup {0, Root, Identity})
  BY DEF HandedOver, FreeAtStart
<1>4. \A i \in 1..L : Freed[i] \in FreeAtStart
  BY <1>1, <1>2
<1>5. n = [p \in Pages |-> IF sel(p) = 0 THEN mem[p]
                           ELSE [mem[p] EXCEPT ![0] = Link(IF sel(p) = 1 THEN 0 ELSE Freed[sel(p) - 1])]]
  BY DEF PmmInit
<1>6. /\ \A i \in 1..L : sel(Freed[i]) = i
      /\ \A p \in Pages : p \notin FreeAtStart => sel(p) = 0
      /\ \A p \in Pages : p \in FreeAtStart => sel(p) \in 1..L
  <2>1. \A i \in 1..L : sel(Freed[i]) = i
    BY <1>1, FreedAt
  <2>2. ASSUME NEW p \in Pages, p \notin FreeAtStart PROVE sel(p) = 0
    <3>1. \A i \in 1..L : Freed[i] # p
      BY <1>4, <2>2
    <3> QED
      BY <1>1, <3>1, FreedAt
  <2>3. ASSUME NEW p \in Pages, p \in FreeAtStart PROVE sel(p) \in 1..L
    <3>1. PICK i \in 1..L : Freed[i] = p
      BY <1>1, <1>2, <2>3
    <3> HIDE DEF sel
    <3> QED
      BY <2>1, <3>1
  <2> HIDE DEF sel
  <2> QED
    BY <2>1, <2>2, <2>3
<1>7. next_free_page' = IF Freed = <<>> THEN 0 ELSE Freed[L]
  BY DEF PmmInit, Last
<1> HIDE DEF sel, n, L
<1>8. /\ Len(w) = L /\ DOMAIN w = 1..L /\ w \in Seq(Pages \ {0})
      /\ \A i \in 1..L : w[i] = Freed[L + 1 - i] /\ w[i] \in FreeAtStart
  <2>1. \A i \in 1..L : L + 1 - i \in 1..L
    BY <1>1
  <2>2. \A i \in 1..L : w[i] = Freed[L + 1 - i] /\ w[i] \in FreeAtStart
    BY <1>4, <2>1
  <2>3. w \in [1..L -> Pages \ {0}]
    BY <1>3, <2>2
  <2>4. DOMAIN w = 1..L
    OBVIOUS
  <2> HIDE DEF w
  <2>5. w \in Seq(Pages \ {0})
    BY <1>1, <2>3, SeqDef
  <2>6. Len(w) = L
    BY <1>1, <2>4, <2>5, LenProperties
  <2> QED
    BY <2>2, <2>4, <2>5, <2>6
<1> HIDE DEF w
<1>9. InList(w) = FreeAtStart
  <2>1. InList(w) \subseteq FreeAtStart
    BY <1>8 DEF InList
  <2>2. ASSUME NEW p \in FreeAtStart PROVE p \in InList(w)
    <3>1. PICK k \in 1..L : Freed[k] = p
      BY <1>1, <1>2
    <3>2. L + 1 - k \in 1..L /\ L + 1 - (L + 1 - k) = k
      BY <1>1
    <3>3. w[L + 1 - k] = p
      BY <1>8, <3>1, <3>2
    <3> QED
      BY <1>8, <3>2, <3>3 DEF InList
  <2> QED
    BY <2>1, <2>2
<1>10. \A p \in Pages : p \notin FreeAtStart => n[p] = mem[p]
  BY <1>5, <1>6
<1>11. n \in Memory
  <2>1. ASSUME NEW p \in Pages PROVE n[p] \in [Idx -> Words]
    <3>1. mem[p] \in [Idx -> Words]
      BY DEF Memory
    <3>2. CASE p \notin FreeAtStart
      BY <1>10, <3>1, <3>2
    <3>3. CASE p \in FreeAtStart
      <4> DEFINE k == sel(p)
                 next == IF k = 1 THEN 0 ELSE Freed[k - 1]
      <4>1. k \in 1..L /\ k # 0 /\ (k # 1 => k - 1 \in 1..L)
        BY <1>1, <1>6, <3>3
      <4>2. next \in Pages
        BY <1>3, <1>4, <4>1, PagingAssumption
      <4>3. n[p] = [mem[p] EXCEPT ![0] = Link(next)]
        BY <1>5, <4>1
      <4> HIDE DEF next
      <4>4. Link(next) \in Words
        BY <4>2 DEF Link, Word, Words
      <4> QED
        BY <3>1, <4>3, <4>4
    <3> QED
      BY <3>2, <3>3
  <2>2. DOMAIN n = Pages /\ n = [p \in Pages |-> n[p]]
    BY <1>5
  <2> QED
    BY <2>1, <2>2 DEF Memory
<1>12. ASSUME NEW i \in 1..L PROVE n[w[i]][0].page = IF i = L THEN 0 ELSE w[i + 1]
  <2> DEFINE k == L + 1 - i
             p == w[i]
             next == IF k = 1 THEN 0 ELSE Freed[k - 1]
  <2>1. k \in 1..L /\ k # 0 /\ (k = 1 <=> i = L)
    BY <1>1
  <2>2. p = Freed[k] /\ p \in Pages
    BY <1>3, <1>8
  <2>3. sel(p) = k
    BY <1>6, <2>1, <2>2
  <2>4. n[p] = [mem[p] EXCEPT ![0] = Link(next)]
    BY <1>5, <2>1, <2>2, <2>3
  <2>5. next = IF i = L THEN 0 ELSE w[i + 1]
    <3>1. i # L => i + 1 \in 1..L /\ L + 1 - (i + 1) = k - 1
      BY <1>1
    <3> QED
      BY <1>8, <2>1, <3>1
  <2> HIDE DEF next, k, p
  <2>6. mem[p] \in [Idx -> Words] /\ 0 \in Idx
    BY <2>2, IdxFacts DEF Memory
  <2>7. n[p][0] = Link(next)
    BY <2>4, <2>6
  <2> QED
    BY <2>5, <2>7 DEF Link, Word, p
<1>13. Linked(n, next_free_page', w) /\ next_free_page' \in Pages
  <2>1. ASSUME NEW i \in 1..L, NEW j \in 1..L, w[i] = w[j] PROVE i = j
    <3>1. L + 1 - i \in 1..L /\ L + 1 - j \in 1..L
      BY <1>1
    <3>2. L + 1 - i = L + 1 - j
      BY <1>1, <1>8, <2>1, <3>1
    <3> QED
      BY <1>1, <3>2
  <2>2. next_free_page' = IF L = 0 THEN 0 ELSE w[1]
    <3>1. L = 0 => Freed = <<>>
      BY <1>1, EmptySeq
    <3>2. L # 0 => Freed # <<>> /\ 1 \in 1..L /\ L + 1 - 1 = L
      BY <1>1, EmptySeq
    <3> QED
      BY <1>7, <1>8, <3>1, <3>2
  <2>3. next_free_page' \in Pages
    <3>1. L # 0 => 1 \in 1..L
      BY <1>1
    <3> QED
      BY <1>3, <1>8, <2>2, <3>1, PagingAssumption
  <2> QED
    BY <1>8, <1>12, <2>1, <2>2, <2>3 DEF Linked
<1>14. Tree(n, T)
  <2>1. \A q \in Nodes(T) : q \in Pages /\ q \notin FreeAtStart
    <3>1. T.used \subseteq Pages /\ Root \in Pages /\ Root \notin FreeAtStart
      BY <1>3, PagingAssumption DEF Tree, TreeBut
    <3>2. \A q \in T.used : q \notin FreeAtStart
      BY <1>3
    <3> QED
      BY <3>1, <3>2 DEF Nodes
  <2>2. \A q \in Nodes(T) : n[q] = mem[q]
    BY <1>10, <2>1
  <2> QED
    BY <2>2, TreeSame DEF Tree
<1>15. \A i \in 1..Len(w) : w[i] \notin T.used \cup {Root, Identity}
  BY <1>3, <1>8
<1>16. Apart(n, next_free_page', T, w)
  BY <1>13, <1>14, <1>15 DEF Apart
<1> QED
  BY <1>3, <1>8, <1>9, <1>11, <1>13, <1>16 DEF n, L

\* What pmm_init leaves to the kernel satisfies the invariant.
LEMMA PmmInitIs ==
  ASSUME mem \in Memory, NEW T, Tree(mem, T), T.used \subseteq BootPages, HandedOver(mmap), curr_brk \in Nat, PmmInit
  PROVE  \E w : KInv(T, w)'
<1> DEFINE L == Len(Freed)
<1>1. PICK w : /\ Apart(mem', next_free_page', T, w) /\ mem' \in Memory /\ next_free_page' \in Pages
               /\ Len(w) = L /\ InList(w) = FreeAtStart /\ FreeAtStart \cap BootPages = {}
  BY PmmInitLinks
<1>2. UNCHANGED mmap /\ UNCHANGED curr_brk
  BY DEF PmmInit
<1>3. FreeAtStart' = FreeAtStart /\ PagesAndTypes(mmap)' = PagesAndTypes(mmap)
  BY <1>2 DEF FreeAtStart, PagesAndTypes
<1>4. FreeAtStart = (T.used \cup InList(w)) \ BootPages
  BY <1>1
<1>5. /\ L \in Nat /\ SizeOf(Used) \in Nat /\ L <= SizeOf(Used)
      /\ Adding!Folded(0, mmap) \in Nat /\ SizeOf(Used) <= Adding!Folded(0, mmap)
  BY FreedIs, LenProperties DEF HandedOver
<1>6. /\ memory_size' = Adding!Folded(0, mmap) /\ used_memory' = SizeOf(Used) - L
      /\ reserved_memory' = memory_size' - SizeOf(Used) /\ free_memory' = L
  BY FoldsAre DEF PmmInit, Used
<1>7. memory_size' = Cardinality(PagesAndTypes(mmap))
  BY <1>6, SizesAdded DEF HandedOver
<1> HIDE DEF L
<1>8. /\ memory_size' \in Nat /\ used_memory' \in Nat /\ reserved_memory' \in Nat /\ free_memory' \in Nat
      /\ memory_size' = used_memory' + reserved_memory' + free_memory'
  BY <1>5, <1>6
<1>9. FreeAtStart' = (T.used \cup InList(w)) \ BootPages
  BY <1>3, <1>4
<1>10. memory_size' = Cardinality(PagesAndTypes(mmap))'
  BY <1>3, <1>7
<1>11. curr_brk' \in Nat /\ free_memory' = Len(w)
  BY <1>1, <1>2, <1>6
<1>12. Apart(mem, next_free_page, T, w)'
  BY <1>1
<1> QED
  BY <1>1, <1>8, <1>9, <1>10, <1>11, <1>12 DEF KInv

----------------------------------------------------------------------------
(* From the boot on                                                        *)

\* The maps a firmware has.
Maps == UNION FirmwareMaps

\* Before MapPages.
Early == phase \in {"efi_main", "loaded", "sized", "mapped", "exited"}

\* MapPages has built T.
Booted(T) == mem \in Memory /\ TreeBut(mem, T, Firmwares) /\ T.used \subseteq BootPages

\* What each function of the boot leaves to the next.
BInv ==
  /\ curr_brk \in Nat
  /\ Early => Firmware
  /\ phase \in {"MapPages", "BuildMemoryMap"} /\ ~lost => \E T : Booted(T)
  /\ phase \in {"MapPages", "BuildMemoryMap", "exited"} => EfiMemoryMap = efi_map
  /\ Early \/ phase \in {"MapPages", "BuildMemoryMap"} => efi_map \in Maps
  /\ phase \in {"sized", "mapped"} /\ key_valid => EfiMemoryMap = efi_map
  /\ phase \in {"efi_main", "loaded"} => ~key_valid
  /\ phase = "BuildMemoryMap" => mmap = BuildMemoryMap(efi_map) /\ ~lost
  /\ phase = "vmm_preinit" =>
       /\ mem \in Memory /\ \E T : Tree(mem, T) /\ T.used \subseteq BootPages
       /\ HandedOver(mmap)
  /\ IInv

\* The firmware's map as the boot loader got it is its last: the key says so.
LEMMA BuiltIs == ASSUME NEW efi \in Maps PROVE HandedOver(BuildMemoryMap(efi))
BY MapIs DEF HandedOver, Maps

\* The firmware starts the boot loader so.
LEMMA BootInit == Init => BInv
<1> SUFFICES ASSUME Init PROVE BInv
  OBVIOUS
<1>1. /\ phase = "efi_main" /\ curr_brk = 0 /\ ~key_valid /\ efi_map \in Maps
  BY DEF Init, Maps
<1>2. Firmware
  <2>1. Zero \in Words /\ Garbage \in Words /\ Entry(Identity) \in Words /\ ~Zero.present
    BY PagingAssumption DEF Words, Zero, Garbage, Entry, Word
  <2> DEFINE row == [ZeroPage EXCEPT ![0] = Entry(Identity)]
             new(p) == IF p = Root THEN row ELSE [i \in Idx |-> Garbage]
  <2>2. mem = [p \in Pages |-> new(p)]
    BY DEF Init, Idx
  <2>3. row \in [Idx -> Words] /\ \A i \in Idx : i # 0 => row[i] = Zero
    BY <2>1 DEF ZeroPage, Idx
  <2> HIDE DEF row
  <2>4. \A p \in Pages : new(p) \in [Idx -> Words]
    BY <2>1, <2>3
  <2>5. mem[Root] = row
    BY <2>2, PagingAssumption
  <2> HIDE DEF new
  <2>6. mem \in Memory
    BY <2>2, <2>4 DEF Memory
  <2> QED
    BY <2>1, <2>3, <2>5, <2>6 DEF Firmware
<1> QED
  BY <1>1, <1>2 DEF BInv, IInv, Counting

\* The steps before MapPages.
LEMMA EarlyStep ==
  BInv /\ (LoadFiles \/ SizeMemoryMap \/ FirmwareChanges \/ GetMemoryMap \/ ExitBootServices) => BInv'
<1> SUFFICES ASSUME BInv, LoadFiles \/ SizeMemoryMap \/ FirmwareChanges \/ GetMemoryMap \/ ExitBootServices
             PROVE  BInv'
  OBVIOUS
<1>1. Early /\ Early' /\ ~Counting' /\ phase' \notin {"MapPages", "BuildMemoryMap", "vmm_preinit"}
  BY DEF Early, Counting, LoadFiles, SizeMemoryMap, FirmwareChanges, GetMemoryMap, ExitBootServices
<1>2. UNCHANGED curr_brk
  BY DEF LoadFiles, SizeMemoryMap, FirmwareChanges, GetMemoryMap, ExitBootServices
<1>3. Firmware'
  <2>1. mem \in Memory /\ \A i \in Idx : i # 0 => ~mem[Root][i].present
    BY <1>1 DEF BInv, Firmware
  <2>2. mem' \in Memory /\ mem'[Root] = mem[Root]
    BY <2>1, LoadKeeps DEF SizeMemoryMap, FirmwareChanges, GetMemoryMap, ExitBootServices
  <2> QED
    BY <2>1, <2>2 DEF Firmware
<1>4. efi_map \in Maps
  BY <1>1 DEF BInv
<1>5. CASE LoadFiles
  <2>1. phase = "efi_main" /\ phase' = "loaded" /\ UNCHANGED <<efi_map, EfiMemoryMap, key_valid>>
    BY <1>5 DEF LoadFiles, efiVars
  <2> QED
    BY <1>1, <1>2, <1>3, <1>4, <2>1 DEF BInv, IInv
<1>6. CASE SizeMemoryMap
  <2>1. phase = "loaded" /\ phase' = "sized" /\ UNCHANGED <<efi_map, EfiMemoryMap, key_valid>>
    BY <1>6 DEF SizeMemoryMap
  <2> QED
    BY <1>1, <1>2, <1>3, <1>4, <2>1 DEF BInv, IInv
<1>7. CASE FirmwareChanges
  <2>1. phase \in {"sized", "mapped"} /\ phase' = phase /\ key_valid' = FALSE /\ efi_map' \in Maps
    BY <1>7 DEF FirmwareChanges, Maps
  <2> QED
    BY <1>1, <1>2, <1>3, <2>1 DEF BInv, IInv
<1>8. CASE GetMemoryMap
  <2>1. phase = "sized" /\ UNCHANGED efi_map
        /\ \/ UNCHANGED <<phase, EfiMemoryMap, key_valid>>
           \/ phase' = "mapped" /\ EfiMemoryMap' = efi_map
    BY <1>8 DEF GetMemoryMap
  <2> QED
    BY <1>1, <1>2, <1>3, <1>4, <2>1 DEF BInv, IInv
<1>9. CASE ExitBootServices
  <2>1. phase = "mapped" /\ UNCHANGED <<efi_map, EfiMemoryMap, key_valid>>
        /\ (phase' = phase \/ (key_valid /\ phase' = "exited"))
    BY <1>9 DEF ExitBootServices, efiVars
  <2> QED
    BY <1>1, <1>2, <1>3, <1>4, <2>1 DEF BInv, IInv
<1> QED
  BY <1>5, <1>6, <1>7, <1>8, <1>9

\* MapPages, BuildMemoryMap, and the kernel's first functions.
LEMMA LateStep == BInv /\ (MapPages \/ HandOver \/ VmmPreinit \/ PmmInit) => BInv'
<1> SUFFICES ASSUME BInv, MapPages \/ HandOver \/ VmmPreinit \/ PmmInit PROVE BInv'
  OBVIOUS
<1>1. UNCHANGED curr_brk /\ ~Early' /\ curr_brk \in Nat
  BY DEF BInv, Early, MapPages, HandOver, VmmPreinit, PmmInit
<1>2. CASE MapPages
  <2>1. phase = "exited" /\ phase' = "MapPages" /\ UNCHANGED <<efi_map, EfiMemoryMap>> /\ ~Counting'
        /\ Firmware /\ EfiMemoryMap = efi_map /\ efi_map \in Maps
    BY <1>2 DEF MapPages, efiVars, BInv, Early, Counting
  <2>2. ~lost' => ~Mapped(FreePages).short /\ mem' = Mapped(FreePages).mem
    BY <1>2 DEF MapPages
  <2>3. ~lost' => \E T : Booted(T)'
    <3> SUFFICES ASSUME ~lost' PROVE \E T : Booted(T)'
      OBVIOUS
    <3>1. PICK T : mem' \in Memory /\ TreeBut(mem', T, Firmwares) /\ T.used \subseteq BootPages
      BY <2>1, <2>2, MappedAll
    <3>2. Booted(T)'
      BY <3>1 DEF Booted
    <3> QED
      BY <3>2
  <2> QED
    BY <1>1, <2>1, <2>3 DEF BInv, IInv
<1>3. CASE HandOver
  <2>1. phase = "MapPages" /\ ~lost /\ phase' = "BuildMemoryMap" /\ UNCHANGED <<efi_map, EfiMemoryMap, mem, lost>>
        /\ ~Counting' /\ EfiMemoryMap = efi_map /\ efi_map \in Maps /\ mmap' = BuildMemoryMap(EfiMemoryMap)
    BY <1>3 DEF HandOver, efiVars, BInv, Counting
  <2>2. PICK T : Booted(T)
    BY <2>1 DEF BInv
  <2>3. Booted(T)'
    BY <2>1, <2>2 DEF Booted
  <2>4. mmap' = BuildMemoryMap(efi_map')
    BY <2>1
  <2> HIDE DEF Booted
  <2> QED
    BY <1>1, <2>1, <2>3, <2>4 DEF BInv, IInv
<1>4. CASE VmmPreinit
  <2>1. phase = "BuildMemoryMap" /\ phase' = "vmm_preinit" /\ UNCHANGED mmap /\ ~Counting'
        /\ efi_map \in Maps /\ mmap = BuildMemoryMap(efi_map) /\ ~lost
    BY <1>4 DEF VmmPreinit, BInv, Counting
  <2>2. PICK T : Booted(T)
    BY <2>1 DEF BInv
  <2>3. mem' \in Memory /\ Tree(mem', T) /\ T.used \subseteq BootPages
    BY <1>4, <2>2, PreinitKeeps DEF Booted
  <2>4. HandedOver(mmap')
    BY <2>1, BuiltIs
  <2>5. (HandedOver(mmap))' /\ (\E S : Tree(mem, S) /\ S.used \subseteq BootPages)'
    BY <2>3, <2>4
  <2> QED
    BY <1>1, <2>1, <2>3, <2>5 DEF BInv, IInv
<1>5. CASE PmmInit
  <2>1. phase = "vmm_preinit" /\ phase' = "pmm_init"
    BY <1>5 DEF PmmInit
  <2>2. PICK T : Tree(mem, T) /\ T.used \subseteq BootPages /\ mem \in Memory /\ HandedOver(mmap)
    BY <2>1 DEF BInv
  <2>3. PICK w : KInv(T, w)'
    BY <1>1, <1>5, <2>2, PmmInitIs
  <2>4. IInv'
    BY <2>3 DEF IInv
  <2> QED
    BY <1>1, <2>1, <2>4 DEF BInv
<1> QED
  BY <1>2, <1>3, <1>4, <1>5

\* The kernel's steps.
LEMMA KernelStep ==
  ASSUME BInv, \/ VmmInit \/ (\E v \in Touched, start \in BOOLEAN : PageFault(v, start)) \/ VmmAllocRegion
               \/ \E v \in Touched, word \in {Zero, Garbage} : Store(v, 0, word)
  PROVE  BInv'
<1>1. Counting /\ phase' = "kernel"
  BY DEF Counting, VmmInit, PageFault, VmmAllocRegion, Store, Running
<1>2. PICK T, w : KInv(T, w)
  BY <1>1 DEF BInv, IInv
<1>3. curr_brk \in Nat
  BY DEF BInv
<1>4. curr_brk' \in Nat
  BY <1>3, KernelAssumption DEF VmmInit, PageFault, VmmAllocRegion, Store
<1>5. ASSUME VmmInit \/ VmmAllocRegion PROVE \E Z, r : KInv(Z, r)'
  <2>1. UNCHANGED <<mem, next_free_page, counters, mmap>>
    BY <1>5 DEF VmmInit, VmmAllocRegion
  <2>2. KInv(T, w)'
    BY <1>2, <1>4, <2>1, KInvSame
  <2> QED
    BY <2>2
<1>6. ASSUME NEW v \in Touched, NEW start \in BOOLEAN, PageFault(v, start) PROVE \E Z, r : KInv(Z, r)'
  BY <1>2, <1>6, FaultKeeps
<1>7. ASSUME NEW v \in Touched, NEW word \in {Zero, Garbage}, Store(v, 0, word) PROVE \E Z, r : KInv(Z, r)'
  BY <1>2, <1>7, StoreKeeps
<1>8. \E Z, r : KInv(Z, r)'
  BY <1>2, <1>5, <1>6, <1>7
<1>9. IInv'
  BY <1>8 DEF IInv
<1> QED
  BY <1>1, <1>4, <1>9 DEF BInv, Early

\* Nothing happens.
LEMMA BootStutters == BInv /\ UNCHANGED vars => BInv'
<1> SUFFICES ASSUME BInv, UNCHANGED vars PROVE BInv'
  OBVIOUS
<1>1. UNCHANGED <<phase, efi_map, EfiMemoryMap, key_valid, mem, mmap, next_free_page, counters, curr_brk, lost>>
  BY DEF vars, efiVars
<1>2. Early' = Early /\ Counting' = Counting /\ Firmware' = Firmware /\ HandedOver(mmap)' = HandedOver(mmap)
  BY <1>1 DEF Early, Counting, Firmware, HandedOver, PagesAndTypes
<1>3. \A T : Booted(T) => Booted(T)'
  BY <1>1 DEF Booted
<1>4. IInv'
  <2> SUFFICES ASSUME Counting' PROVE \E T, w : KInv(T, w)'
    BY DEF IInv
  <2>1. PICK T, w : KInv(T, w)
    BY <1>2 DEF BInv, IInv
  <2>2. curr_brk' \in Nat
    BY <1>1 DEF BInv
  <2>3. UNCHANGED <<mem, next_free_page, counters, mmap>>
    BY <1>1
  <2>4. KInv(T, w)'
    BY <2>1, <2>2, <2>3, KInvSame
  <2> QED
    BY <2>4
<1> QED
  BY <1>1, <1>2, <1>3, <1>4 DEF BInv

\* So the invariant is inductive.
LEMMA BootStepKeeps == BInv /\ [Next]_vars => BInv'
BY EarlyStep, LateStep, KernelStep, BootStutters DEF Next

\* The map handed over is the firmware's last.
LEMMA MapFrom == BInv => MapAgrees
<1> SUFFICES ASSUME BInv, phase = "BuildMemoryMap"
             PROVE  /\ \A i \in 1..(Len(mmap) - 1) :
                         mmap[i].address + mmap[i].size <= mmap[i + 1].address /\ ~Joins(mmap[i], mmap[i + 1])
                    /\ PagesAndTypes(mmap) = PagesAndTypes(Translated(efi_map))
  BY DEF MapAgrees
<1>1. efi_map \in UNION FirmwareMaps /\ mmap = BuildMemoryMap(efi_map)
  BY DEF BInv, Maps
<1>2. mmap \in Seq(Areas) /\ InOrder(mmap) /\ NoneJoins(mmap) /\ PagesAndTypes(mmap) = PagesAndTypes(Translated(efi_map))
  BY <1>1, MapIs
<1>3. Len(mmap) \in Nat
  BY <1>2, LenProperties
<1>4. \A i \in 1..(Len(mmap) - 1) : i \in 1..Len(mmap) /\ i + 1 \in 1..Len(mmap) /\ i < i + 1
  BY <1>3
<1> QED
  BY <1>2, <1>4 DEF InOrder, NoneJoins

\* Pages run out when there are too few, for MapPages and for page faults.
LEMMA ShortFrom == BInv => RunsShortExactly
<1> SUFFICES ASSUME BInv PROVE RunsShortExactly
  OBVIOUS
<1> DEFINE V == {m.virt : m \in ToSet(PagesToMap)}
<1>1. ASSUME phase = "exited", NEW n \in 0..Len(FreePages)
      PROVE  Takes(Mapped(SubSeq(FreePages, 1, n)), SubSeq(FreePages, 1, n), Cardinality(Missing(V)))
  <2>1. Firmware
    BY <1>1 DEF BInv, Early
  <2>2. Missing(V) = Lacks(Bare, BootVirts)
    <3>1. Missing(BootVirts) = Lacks(Bare, BootVirts)
      BY <2>1, BareIs, BootVirtsAre, MissingIs
    <3> QED
      BY <3>1 DEF BootVirts
  <2> DEFINE supply == SubSeq(FreePages, 1, n)
  <2>3. /\ supply \in Seq(Pages) /\ Len(supply) = n /\ Fresh(Bare, supply)
        /\ \A i \in 1..n : supply[i] \in ToSet(FreePages)
    BY ReservedIs
  <2> HIDE DEF supply, V
  <2>4. LET done == Mapped(supply)
        IN Takes(done, supply, Cardinality(Lacks(Bare, BootVirts)))
    BY <2>1, <2>3, MappedIs
  <2> QED
    BY <2>2, <2>4 DEF supply
<1>2. ASSUME Running, FreeList # <<>>, NEW v \in Touched
      PROVE  Takes(MapPage(Start(Tail(FreeList)), v, next_free_page), Tail(FreeList), Cardinality(Missing({v})))
  <2>1. PICK T, w : KInv(T, w)
    BY <1>2 DEF BInv, IInv, Counting, Running
  <2>2. mem \in Memory /\ next_free_page \in Pages /\ Linked(mem, next_free_page, w)
    BY <2>1 DEF KInv, Apart
  <2>3. FreeList = w
    BY <2>2, FreeListIs
  <2> QED
    BY <1>2, <2>1, <2>3, FaultTakes
<1> HIDE DEF V
<1>3. RunsShortExactly <=>
        /\ phase = "exited" =>
             \A n \in 0..Len(FreePages) :
               Takes(Mapped(SubSeq(FreePages, 1, n)), SubSeq(FreePages, 1, n), Cardinality(Missing(V)))
        /\ Running /\ FreeList # <<>> =>
             \A v \in {u \in Touched : Translate(u) = NoPage} :
               Takes(MapPage(Start(Tail(FreeList)), v, next_free_page), Tail(FreeList), Cardinality(Missing({v})))
  BY DEF RunsShortExactly, Takes, V
<1> QED
  BY <1>1, <1>2, <1>3

----------------------------------------------------------------------------
(* Theorems                                                                *)

\* What each function of the boot leaves to the next: the firmware's map as its
\* last key vouches for it, tables that are a tree of pages the boot loader
\* reserved, a map in order, a free list of other pages; page faults and stores
\* keep the tables and the list so.
THEOREM PagingInvariant == Spec => []BInv
BY BootInit, BootStepKeeps, PTL DEF Spec

\* However the firmware changes its map while the boot loader asks for it, what
\* BuildMemoryMap hands to the kernel says of each page what the firmware's last
\* map says: sorting and joining lose no page and invent none.
THEOREM MapStaysRight == Spec => []MapAgrees
BY PagingInvariant, MapFrom, PTL

\* From the firmware's first map to any page fault, no page is two tables, a
\* table and data, or the data of two virtual pages, none is free and in use,
\* and none is lost: MapPages, remap_physical_memory, pmm_init, then
\* page_fault_handler with allocate_page and map_page, and stores, in any order.
THEOREM PagesStayApart == Spec => []PagesApart
<1>1. BInv => PagesApart
  BY InvariantSays DEF BInv
<1> QED
  BY <1>1, PagingInvariant, PTL

\* MapPages, with any number of the pages reserved, and a page fault, with
\* whatever the free list holds, take one page for each table that is missing
\* on the way of a page they map, and no other: neither counts them first, and
\* they run out exactly when there are fewer than that.
THEOREM RunOutExactly == Spec => []RunsShortExactly
BY PagingInvariant, ShortFrom, PTL

\* The counters of pmm.c start as the sizes of the map's areas and stay those of
\* the list, however the pages are taken.
THEOREM CountersStayRight == Spec => []CountersAgree
<1>1. BInv => CountersAgree
  BY InvariantSays DEF BInv
<1> QED
  BY <1>1, PagingInvariant, PTL

\* The words in memory stay entries of pages there are, and no counter goes
\* below zero: used_memory, too, which pmm_init takes from the free pages'.
THEOREM TypesStay == Spec => []TypeOK
<1>1. BInv => TypeOK
  BY InvariantSays DEF BInv
<1> QED
  BY <1>1, PagingInvariant, PTL

\* Whatever the kernel does in its virtual memory, it sees a page of zeros at
\* the first touch, its own stores after that, and no change of another page:
\* the tables that page_fault_handler makes and the pages it takes implement
\* the address space.
THEOREM AddressSpaceImplemented == Spec => AddressSpaceSpec
<1>1. Init => AS!AInit
  BY DEF Init, AS!AInit, Contents
<1>2. BInv => IInv
  BY DEF BInv
<1> QED
  BY <1>1, <1>2, Refines, PagingInvariant, PTL DEF Spec, AddressSpaceSpec, AS!ASpec

=============================================================================
