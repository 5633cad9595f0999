------------------------------ MODULE VfsProofs -----------------------------
(***************************************************************************)
(* Theorems about Vfs, for any names, lengths of paths and bound of tmpfs: *)
(* mounts in and over each other, directories, files and devices in any    *)
(* order give each directory one place, and implement Namespace.           *)
(*                                                                         *)
(* A lookup is reasoned about one component at a time (GoesOn): what the   *)
(* path with one component more leads to follows from what the path leads  *)
(* to.  A fact about all paths is then an induction over their length.     *)
(***************************************************************************)
EXTENDS Vfs, SequenceTheorems, WellFoundedInduction, TLAPS

----------------------------------------------------------------------------
(* Induction                                                               *)

\* A set of numbers has a least one.
LEMMA LeastNat ==
  ASSUME NEW T, T \subseteq Nat, T # {}
  PROVE  \E x \in T : \A y \in T : x <= y
<1>1. IsWellFoundedOn(OpToRel(<, Nat), Nat)
  BY NatLessThanWellFounded
<1>2. PICK x \in T : \A y \in T : ~(<<y, x>> \in OpToRel(<, Nat))
  BY <1>1, WFMin
<1>3. \A y \in T : <<y, x>> \in OpToRel(<, Nat) <=> y < x
  BY DEF OpToRel
<1>4. ASSUME NEW y \in T PROVE x <= y
  <2>1. ~(y < x)
    BY <1>2, <1>3
  <2>2. x \in Nat /\ y \in Nat
    OBVIOUS
  <2> QED
    BY <2>1, <2>2
<1> QED
  BY <1>4

\* Induction over the numbers up to n.
LEMMA InductionUpTo ==
  ASSUME NEW n \in Nat, NEW A, 0 \in A, \A i \in 1..n : i - 1 \in A => i \in A
  PROVE  0..n \subseteq A
<1> DEFINE T == (0..n) \ A
<1>1. CASE T = {}
  BY <1>1
<1>2. CASE T # {}
  <2>1. PICK x \in T : \A y \in T : x <= y
    <3>1. T \subseteq Nat
      OBVIOUS
    <3> HIDE DEF T
    <3> QED
      BY <1>2, <3>1, LeastNat
  <2>2. x # 0
    OBVIOUS
  <2>3. x - 1 \in A
    BY <2>1, <2>2
  <2> QED
    BY <2>2, <2>3
<1> QED
  BY <1>1, <1>2

----------------------------------------------------------------------------
(* Sequences                                                               *)

\* A path with one component more.
Longer(c, x) == Append(c, x)

LEMMA LongerIs ==
  ASSUME NEW S, NEW c \in Seq(S), NEW x \in S
  PROVE  /\ Longer(c, x) \in Seq(S) /\ Longer(c, x) # <<>>
         /\ Len(c) \in Nat /\ Len(Longer(c, x)) = Len(c) + 1
         /\ \A i \in 1..Len(c) : Longer(c, x)[i] = c[i]
         /\ Longer(c, x)[Len(c) + 1] = x
BY AppendProperties, LenProperties DEF Longer

LEMMA LongerOnce ==
  ASSUME NEW S, NEW c \in Seq(S), NEW x \in S, NEW d \in Seq(S), NEW y \in S, Longer(c, x) = Longer(d, y)
  PROVE  c = d /\ x = y
<1> DEFINE l == Longer(c, x)
           n == Len(c)
<1>1. n \in Nat /\ Len(l) = n + 1 /\ (\A i \in 1..n : l[i] = c[i]) /\ l[n + 1] = x
  BY LongerIs
<1>2. l = Longer(d, y)
  OBVIOUS
<1> HIDE DEF l
<1>3. Len(d) \in Nat /\ Len(l) = Len(d) + 1 /\ (\A i \in 1..Len(d) : l[i] = d[i]) /\ l[Len(d) + 1] = y
  BY <1>2, LongerIs, ZenonT(40)
<1>4. Len(d) = n
  BY <1>1, <1>3
<1>5. x = y /\ \A i \in 1..n : c[i] = d[i]
  BY <1>1, <1>3, <1>4
<1> QED
  BY <1>4, <1>5, SeqEqual

\* A sequence whose beginning is f and last element e is f with e behind it.
LEMMA LongerMade ==
  ASSUME NEW S, NEW f \in Seq(S), NEW e \in S, NEW c \in Seq(S), Len(c) = Len(f) + 1,
         \A i \in 1..Len(f) : c[i] = f[i], c[Len(f) + 1] = e
  PROVE  c = Longer(f, e)
<1> DEFINE l == Longer(f, e)
<1>1. /\ l \in Seq(S) /\ Len(f) \in Nat /\ Len(l) = Len(f) + 1
      /\ (\A i \in 1..Len(f) : l[i] = f[i]) /\ l[Len(f) + 1] = e
  BY LongerIs
<1> HIDE DEF l
<1>2. \A i \in 1..Len(c) : c[i] = l[i]
  BY <1>1
<1>3. c = l
  BY <1>1, <1>2, SeqEqual
<1> QED
  BY <1>3 DEF l

\* A sequence that is not empty is one with an element behind it.
LEMMA LongerFront ==
  ASSUME NEW S, NEW c \in Seq(S), c # <<>>
  PROVE  /\ Front(c) \in Seq(S) /\ Last(c) \in S /\ c = Longer(Front(c), Last(c))
         /\ Len(c) \in Nat /\ Len(c) >= 1 /\ Len(Front(c)) = Len(c) - 1
<1>1. Len(c) \in Nat /\ Len(c) >= 1
  BY EmptySeq
<1>2. \A i \in 1..Len(c) : c[i] \in S
  BY <1>1, ElementOfSeq
<1>3. Last(c) \in S
  BY <1>1, <1>2 DEF Last
<1> DEFINE n == Len(c) - 1
           f == Front(c)
<1>4. /\ f \in Seq(S)
      /\ Len(f) = IF 1 <= n THEN n - 1 + 1 ELSE 0
      /\ \A i \in 1..(n - 1 + 1) : f[i] = c[1 + i - 1]
  <2>1. \A i \in 1..n : c[i] \in S
    BY <1>1, <1>2
  <2>2. n \in Int
    BY <1>1
  <2> HIDE DEF n
  <2>3. f = SubSeq(c, 1, n)
    BY DEF Front, n
  <2> HIDE DEF f
  <2> QED
    BY <2>1, <2>2, <2>3, SubSeqProperties
<1> HIDE DEF f
<1>5. n \in Nat /\ Len(f) = n /\ \A i \in 1..n : f[i] = c[i]
  <2>1. n \in Nat
    BY <1>1
  <2> HIDE DEF n
  <2> QED
    BY <1>4, <2>1
<1>6. c = Longer(f, Last(c))
  <2> DEFINE e == Last(c)
  <2>1. f \in Seq(S) /\ e \in S /\ Len(c) = Len(f) + 1 /\ c[Len(f) + 1] = e
    BY <1>1, <1>3, <1>4, <1>5 DEF Last
  <2>2. \A i \in 1..Len(f) : c[i] = f[i]
    BY <1>5
  <2> HIDE DEF e
  <2>3. c = Longer(f, e)
    BY <2>1, <2>2, LongerMade
  <2> QED
    BY <2>3 DEF e
<1> QED
  BY <1>1, <1>3, <1>4, <1>5, <1>6 DEF f

\* Induction over sequences that get longer.
LEMMA SeqInduction ==
  ASSUME NEW S, NEW A, <<>> \in A, \A c \in Seq(S), x \in S : c \in A => Longer(c, x) \in A
  PROVE  Seq(S) \subseteq A
<1> DEFINE N == {n \in Nat : \A c \in Seq(S) : Len(c) = n => c \in A}
<1>1. 0 \in N
  <2>1. ASSUME NEW c \in Seq(S), Len(c) = 0 PROVE c = <<>>
    BY <2>1, EmptySeq
  <2> QED
    BY <2>1
<1>2. ASSUME NEW m \in Nat, NEW i \in 1..m, i - 1 \in N PROVE i \in N
  <2>1. ASSUME NEW c \in Seq(S), Len(c) = i PROVE c \in A
    <3>1. c # <<>>
      BY <2>1, EmptySeq
    <3>2. /\ Front(c) \in Seq(S) /\ Last(c) \in S /\ c = Longer(Front(c), Last(c))
          /\ Len(Front(c)) = i - 1
      BY <2>1, <3>1, LongerFront
    <3>3. Front(c) \in A
      BY <1>2, <3>2
    <3> QED
      BY <3>2, <3>3
  <2> QED
    BY <2>1
<1> HIDE DEF N
<1>3. ASSUME NEW c \in Seq(S) PROVE c \in A
  <2>1. Len(c) \in Nat
    BY LenProperties
  <2>2. \A i \in 1..Len(c) : i - 1 \in N => i \in N
    BY <1>2, <2>1
  <2>3. 0..Len(c) \subseteq N
    BY <1>1, <2>1, <2>2, InductionUpTo
  <2>4. Len(c) \in N
    BY <2>1, <2>3
  <2> QED
    BY <2>4 DEF N
<1> QED
  BY <1>3

----------------------------------------------------------------------------
(* Walks                                                                   *)

\* g is the walk from file along the first n names.
Walk(file, names, n, g) == g = [k \in 0..n |-> IF k = 0 THEN file ELSE FindDir(g[k - 1], names[k])]

LEMMA FollowIs ==
  ASSUME NEW file, NEW names, Len(names) \in Nat
  PROVE  Walk(file, names, Len(names), Follow(file, names))
<1> DEFINE A == {n \in 0..Len(names) : \E g : Walk(file, names, n, g)}
<1>1. 0 \in A
  <2> DEFINE g == [k \in 0..0 |-> file]
  <2>1. Walk(file, names, 0, g)
    BY DEF Walk
  <2> QED
    BY <2>1
<1>2. ASSUME NEW i \in 1..Len(names), i - 1 \in A PROVE i \in A
  <2>1. PICK f : Walk(file, names, i - 1, f)
    BY <1>2
  <2> DEFINE g == [k \in 0..i |-> IF k = i THEN FindDir(f[i - 1], names[i]) ELSE f[k]]
  <2>2. ASSUME NEW k \in 0..i PROVE g[k] = IF k = 0 THEN file ELSE FindDir(g[k - 1], names[k])
    <3>1. \A j \in 0..(i - 1) : f[j] = IF j = 0 THEN file ELSE FindDir(f[j - 1], names[j])
      BY <2>1 DEF Walk
    <3>2. k # 0 => k - 1 \in 0..(i - 1) /\ k - 1 # i
      OBVIOUS
    <3> QED
      BY <3>1, <3>2
  <2>3. Walk(file, names, i, g)
    BY <2>2 DEF Walk
  <2> QED
    BY <2>3
<1> HIDE DEF A
<1>3. 0..Len(names) \subseteq A
  <2>1. \A i \in 1..Len(names) : i - 1 \in A => i \in A
    BY <1>2
  <2> QED
    BY <1>1, <2>1, InductionUpTo
<1>4. \E g : g = [k \in 0..Len(names) |-> IF k = 0 THEN file ELSE FindDir(g[k - 1], names[k])]
  <2>1. Len(names) \in A
    BY <1>3
  <2> QED
    BY <2>1 DEF A, Walk
<1> QED
  BY <1>4 DEF Follow, Walk

\* Walks along sequences with the same beginning agree on it.
TwoWalks(file, s, n, f, t, m, g) ==
  /\ n \in Nat /\ m \in Nat /\ n <= m
  /\ Walk(file, s, n, f) /\ Walk(file, t, m, g)
  /\ \A i \in 1..n : s[i] = t[i]

LEMMA WalkOnce ==
  ASSUME NEW file, NEW s, NEW t, NEW n, NEW m, NEW f, NEW g, TwoWalks(file, s, n, f, t, m, g)
  PROVE  f[n] = g[n]
<1> DEFINE A == {k \in 0..n : f[k] = g[k]}
<1>1. /\ \A k \in 0..n : f[k] = IF k = 0 THEN file ELSE FindDir(f[k - 1], s[k])
      /\ \A k \in 0..m : g[k] = IF k = 0 THEN file ELSE FindDir(g[k - 1], t[k])
      /\ n \in Nat /\ m \in Nat /\ n <= m /\ \A i \in 1..n : s[i] = t[i]
  BY DEF TwoWalks, Walk
<1>2. 0 \in A
  BY <1>1
<1>3. \A i \in 1..n : i - 1 \in A => i \in A
  BY <1>1
<1> HIDE DEF A
<1>4. 0..n \subseteq A
  BY <1>1, <1>2, <1>3, InductionUpTo
<1> QED
  BY <1>1, <1>4 DEF A

\* The walk of get_deepest_tree_node along the first n components.
Descends(comps, n, g) ==
  g = [i \in 0..n |-> IF i = 0 THEN [node |-> 1, rest |-> <<>>] ELSE Down(g[i - 1], comps[i])]

LEMMA DescentIs ==
  ASSUME NEW comps, Len(comps) \in Nat
  PROVE  \E g : Descends(comps, Len(comps), g) /\ Deepest(comps) = g[Len(comps)]
<1> DEFINE A == {n \in 0..Len(comps) : \E g : Descends(comps, n, g)}
<1>1. 0 \in A
  <2> DEFINE g == [k \in 0..0 |-> [node |-> 1, rest |-> <<>>]]
  <2>1. Descends(comps, 0, g)
    BY DEF Descends
  <2> QED
    BY <2>1
<1>2. ASSUME NEW i \in 1..Len(comps), i - 1 \in A PROVE i \in A
  <2>1. PICK f : Descends(comps, i - 1, f)
    BY <1>2
  <2> DEFINE g == [k \in 0..i |-> IF k = i THEN Down(f[i - 1], comps[i]) ELSE f[k]]
  <2>2. ASSUME NEW k \in 0..i
        PROVE  g[k] = IF k = 0 THEN [node |-> 1, rest |-> <<>>] ELSE Down(g[k - 1], comps[k])
    <3>1. \A j \in 0..(i - 1) : f[j] = IF j = 0 THEN [node |-> 1, rest |-> <<>>] ELSE Down(f[j - 1], comps[j])
      BY <2>1 DEF Descends
    <3>2. k # 0 => k - 1 \in 0..(i - 1) /\ k - 1 # i
      OBVIOUS
    <3> QED
      BY <3>1, <3>2
  <2>3. Descends(comps, i, g)
    BY <2>2 DEF Descends
  <2> QED
    BY <2>3
<1> HIDE DEF A
<1>3. 0..Len(comps) \subseteq A
  <2>1. \A i \in 1..Len(comps) : i - 1 \in A => i \in A
    BY <1>2
  <2> QED
    BY <1>1, <2>1, InductionUpTo
<1>4. \E g : g = [i \in 0..Len(comps) |-> IF i = 0 THEN [node |-> 1, rest |-> <<>>] ELSE Down(g[i - 1], comps[i])]
  <2>1. Len(comps) \in A
    BY <1>3
  <2> QED
    BY <2>1 DEF A, Descends
<1> DEFINE D == CHOOSE g : g = [i \in 0..Len(comps) |-> IF i = 0 THEN [node |-> 1, rest |-> <<>>] ELSE Down(g[i - 1], comps[i])]
<1>5. D = [i \in 0..Len(comps) |-> IF i = 0 THEN [node |-> 1, rest |-> <<>>] ELSE Down(D[i - 1], comps[i])]
  BY <1>4
<1>6. Deepest(comps) = D[Len(comps)]
  BY DEF Deepest
<1> HIDE DEF D
<1> QED
  BY <1>5, <1>6 DEF Descends

\* f and g are such walks, along sequences that agree as far as f goes.
TwoDescents(s, n, f, t, m, g) ==
  /\ n \in Nat /\ m \in Nat /\ n <= m
  /\ Descends(s, n, f) /\ Descends(t, m, g)
  /\ \A i \in 1..n : s[i] = t[i]

LEMMA DescentOnce ==
  ASSUME NEW s, NEW t, NEW n, NEW m, NEW f, NEW g, TwoDescents(s, n, f, t, m, g)
  PROVE  f[n] = g[n]
<1> DEFINE A == {k \in 0..n : f[k] = g[k]}
<1>1. /\ \A k \in 0..n : f[k] = IF k = 0 THEN [node |-> 1, rest |-> <<>>] ELSE Down(f[k - 1], s[k])
      /\ \A k \in 0..m : g[k] = IF k = 0 THEN [node |-> 1, rest |-> <<>>] ELSE Down(g[k - 1], t[k])
      /\ n \in Nat /\ m \in Nat /\ n <= m /\ \A i \in 1..n : s[i] = t[i]
  BY DEF TwoDescents, Descends
<1>2. 0 \in A
  BY <1>1
<1>3. \A i \in 1..n : i - 1 \in A => i \in A
  BY <1>1
<1> HIDE DEF A
<1>4. 0..n \subseteq A
  BY <1>1, <1>2, <1>3, InductionUpTo
<1> QED
  BY <1>1, <1>4 DEF A

\* One more name, one more step.
LEMMA FollowLonger ==
  ASSUME NEW S, NEW file, NEW names \in Seq(S), NEW x \in S
  PROVE  Follow(file, Longer(names, x))[Len(names) + 1] = FindDir(Follow(file, names)[Len(names)], x)
<1> DEFINE n == Len(names)
           l == Longer(names, x)
<1>1. n \in Nat /\ Len(l) = n + 1 /\ (\A i \in 1..n : l[i] = names[i]) /\ l[n + 1] = x
  BY LongerIs
<1> HIDE DEF l
<1>2. Walk(file, names, n, Follow(file, names))
  BY <1>1, FollowIs
<1>3. Walk(file, l, n + 1, Follow(file, l))
  <2>1. Len(l) \in Nat
    BY <1>1
  <2>2. Walk(file, l, Len(l), Follow(file, l))
    BY <2>1, FollowIs
  <2> QED
    BY <1>1, <2>2
<1>4. Follow(file, l)[n] = Follow(file, names)[n]
  <2>1. n + 1 \in Nat /\ n <= n + 1
    BY <1>1
  <2>2. \A i \in 1..n : names[i] = l[i]
    BY <1>1
  <2> HIDE DEF n
  <2> DEFINE f == Follow(file, names)
             g == Follow(file, l)
             m == n + 1
  <2>3. n \in Nat /\ m \in Nat /\ n <= m /\ Walk(file, names, n, f) /\ Walk(file, l, m, g)
    BY <1>1, <1>2, <1>3, <2>1
  <2> HIDE DEF f, g, m
  <2>4. f[n] = g[n]
    <3>1. TwoWalks(file, names, n, f, l, m, g)
      BY <2>2, <2>3 DEF TwoWalks
    <3> QED
      BY <3>1, WalkOnce
  <2> QED
    BY <2>4 DEF f, g
<1>5. Follow(file, l)[n + 1] = FindDir(Follow(file, l)[n], x)
  BY <1>1, <1>3 DEF Walk
<1> QED
  BY <1>4, <1>5 DEF l

LEMMA FollowNone ==
  ASSUME NEW file
  PROVE  Follow(file, <<>>)[0] = file
<1>1. Len(<<>>) = 0
  BY EmptySeq
<1>2. Walk(file, <<>>, 0, Follow(file, <<>>))
  BY <1>1, FollowIs
<1> QED
  BY <1>2 DEF Walk

LEMMA DeepestLonger ==
  ASSUME NEW S, NEW c \in Seq(S), NEW x \in S
  PROVE  Deepest(Longer(c, x)) = Down(Deepest(c), x)
<1> DEFINE n == Len(c)
           l == Longer(c, x)
<1>1. n \in Nat /\ Len(l) = n + 1 /\ (\A i \in 1..n : l[i] = c[i]) /\ l[n + 1] = x
  BY LongerIs
<1> HIDE DEF l
<1>2. PICK f : Descends(c, n, f) /\ Deepest(c) = f[n]
  BY <1>1, DescentIs
<1>3. PICK g : Descends(l, n + 1, g) /\ Deepest(l) = g[n + 1]
  <2>1. Len(l) \in Nat
    BY <1>1
  <2>2. \E g : Descends(l, Len(l), g) /\ Deepest(l) = g[Len(l)]
    BY <2>1, DescentIs
  <2> QED
    BY <1>1, <2>2
<1>4. f[n] = g[n]
  <2>1. n + 1 \in Nat /\ n <= n + 1
    BY <1>1
  <2>2. \A i \in 1..n : c[i] = l[i]
    BY <1>1
  <2> HIDE DEF n
  <2> DEFINE m == n + 1
  <2>3. n \in Nat /\ m \in Nat /\ n <= m /\ Descends(c, n, f) /\ Descends(l, m, g)
    BY <1>1, <1>2, <1>3, <2>1
  <2> HIDE DEF m
  <2>4. TwoDescents(c, n, f, l, m, g)
    BY <2>2, <2>3 DEF TwoDescents
  <2> QED
    BY <2>4, DescentOnce
<1>5. g[n + 1] = Down(g[n], x)
  BY <1>1, <1>3 DEF Descends
<1> QED
  BY <1>2, <1>3, <1>4, <1>5 DEF l

LEMMA DeepestNone == Deepest(<<>>) = [node |-> 1, rest |-> <<>>]
<1>1. Len(<<>>) = 0
  BY EmptySeq
<1>2. PICK g : Descends(<<>>, 0, g) /\ Deepest(<<>>) = g[0]
  BY <1>1, DescentIs
<1> QED
  BY <1>2 DEF Descends

----------------------------------------------------------------------------
(* Searches                                                                *)

\* r is the first of the positions I, or 0.
IsFirst(I, r) == IF I = {} THEN r = 0 ELSE r \in I /\ \A j \in I : r <= j

LEMMA FirstOnce ==
  ASSUME NEW I, I \subseteq Nat, NEW r, NEW t, IsFirst(I, r), IsFirst(I, t)
  PROVE  r = t
<1>1. CASE I = {}
  BY <1>1 DEF IsFirst
<1>2. CASE I # {}
  <2>1. r \in I /\ t \in I /\ r <= t /\ t <= r
    BY <1>2 DEF IsFirst
  <2>2. r \in Nat /\ t \in Nat
    BY <2>1
  <2> QED
    BY <2>1, <2>2
<1> QED
  BY <1>1, <1>2

LEMMA FirstIs ==
  ASSUME NEW n \in Nat, NEW I, I \subseteq 1..n
  PROVE  IsFirst(I, IF I # {} THEN Min(I) ELSE 0)
<1>1. CASE I = {}
  BY <1>1 DEF IsFirst
<1>2. CASE I # {}
  <2>1. I \subseteq Nat
    OBVIOUS
  <2>2. \E x \in I : \A y \in I : x <= y
    BY <1>2, <2>1, LeastNat
  <2>3. Min(I) \in I /\ \A y \in I : Min(I) <= y
    BY <2>2 DEF Min
  <2> QED
    BY <1>2, <2>3 DEF IsFirst
<1> QED
  BY <1>1, <1>2

\* With more positions behind the others.
LEMMA FirstLonger ==
  ASSUME NEW n \in Nat, NEW I, I \subseteq 1..n, NEW J, \A j \in J : j \in Nat /\ n < j,
         NEW r, NEW t, IsFirst(I, r), IsFirst(I \cup J, t)
  PROVE  (r # 0 => t = r) /\ (r = 0 => IsFirst(J, t))
<1>1. CASE I = {}
  <2>1. r = 0 /\ I \cup J = J
    BY <1>1 DEF IsFirst
  <2> QED
    BY <2>1
<1>2. CASE I # {}
  <2>1. r \in I /\ (\A j \in I : r <= j) /\ t \in I \cup J /\ t <= r
    BY <1>2 DEF IsFirst
  <2>2. r \in 1..n
    BY <2>1
  <2>3. t \in I
    <3>1. t \in J => n < t /\ t \in Nat
      OBVIOUS
    <3> QED
      BY <2>1, <2>2, <3>1
  <2>4. \A j \in I : t <= j
    BY <1>2 DEF IsFirst
  <2>5. r <= t /\ t \in Nat /\ r \in Nat
    BY <2>1, <2>2, <2>3
  <2> QED
    BY <2>1, <2>2, <2>5
<1> QED
  BY <1>1, <1>2

\* The positions at which the loops over children, entries and devices stop.
ChildAt(t, n, x) == {i \in 1..Len(t) : t[i].parent = n /\ t[i].name = x}
EntryAt(s, x) == {i \in 1..Len(s) : s[i].name = x}
NameAt(s, x) == {i \in 1..Len(s) : s[i] = x}

LEMMA ChildIs == Len(tree) \in Nat => \A n, x : IsFirst(ChildAt(tree, n, x), Child(n, x))
<1> SUFFICES ASSUME Len(tree) \in Nat, NEW n, NEW x PROVE IsFirst(ChildAt(tree, n, x), Child(n, x))
  OBVIOUS
<1> DEFINE I == ChildAt(tree, n, x)
<1>1. I \subseteq 1..Len(tree)
  BY DEF ChildAt
<1>2. Child(n, x) = IF I # {} THEN Min(I) ELSE 0
  BY DEF Child, SelectInSeq, ChildAt
<1> HIDE DEF I
<1>3. IsFirst(I, IF I # {} THEN Min(I) ELSE 0)
  BY <1>1, FirstIs
<1> QED
  BY <1>2, <1>3 DEF I

LEMMA FindEntryIs ==
  ASSUME NEW s, Len(s) \in Nat, NEW x
  PROVE  \E i : /\ IsFirst(EntryAt(s, x), i)
                /\ FindEntry(s, x) = IF i = 0 THEN NULL ELSE s[i].node
<1> DEFINE I == EntryAt(s, x)
           i == IF I # {} THEN Min(I) ELSE 0
<1>1. I \subseteq 1..Len(s)
  BY DEF EntryAt
<1>2. FindEntry(s, x) = IF i = 0 THEN NULL ELSE s[i].node
  BY DEF FindEntry, SelectInSeq, EntryAt
<1> HIDE DEF I
<1>3. IsFirst(I, i)
  BY <1>1, FirstIs
<1> QED
  BY <1>2, <1>3 DEF I

LEMMA FindDeviceIs ==
  Len(devices) \in Nat =>
    \A x : \E i : /\ IsFirst(NameAt(devices, x), i)
                  /\ FindDevice(x) = IF i = 0 THEN NULL ELSE Node("device", i)
<1> SUFFICES ASSUME Len(devices) \in Nat, NEW x
             PROVE \E i : /\ IsFirst(NameAt(devices, x), i)
                          /\ FindDevice(x) = IF i = 0 THEN NULL ELSE Node("device", i)
  OBVIOUS
<1> DEFINE I == NameAt(devices, x)
           i == IF I # {} THEN Min(I) ELSE 0
<1>1. I \subseteq 1..Len(devices)
  BY DEF NameAt
<1>2. FindDevice(x) = IF i = 0 THEN NULL ELSE Node("device", i)
  BY DEF FindDevice, SelectInSeq, NameAt
<1> HIDE DEF I
<1>3. IsFirst(I, i)
  BY <1>1, FirstIs
<1> QED
  BY <1>2, <1>3 DEF I

----------------------------------------------------------------------------
(* Lookups                                                                 *)

\* The names there are, and the paths with them.
Name == Names \cup {Empty, Junk}
Comps == Seq(Name)
Records == [kind : {"null", "dir", "file", "devfs", "device"}, obj : Nat]

\* The state has its types.
Shape ==
  /\ tree \in Seq([parent : Nat, name : Name, file : Records]) /\ Len(tree) \in Nat \ {0}
  /\ files \in Seq(Seq([name : Name, node : Records]))
  /\ devices \in Seq(Names)

\* The node of the mount tree at c; 0: none.
On(c) == IF Deepest(c).rest = <<>> THEN Deepest(c).node ELSE 0

\* How a lookup goes on by one more component.
Lookups ==
  Shape =>
    /\ On(<<>>) = 1 /\ Lead(<<>>) = tree[1].file
    /\ \A n, x : Child(n, x) \in 0..Len(tree) /\ IsFirst(ChildAt(tree, n, x), Child(n, x))
    /\ \A c \in Comps : /\ Deepest(c) \in [node : 1..Len(tree), rest : Comps]
                        /\ On(c) \in 0..Len(tree) /\ (On(c) # 0 => Lead(c) = tree[On(c)].file)
    /\ \A c \in Comps, x \in Name :
         /\ On(Longer(c, x)) = IF On(c) = 0 THEN 0 ELSE Child(On(c), x)
         /\ On(Longer(c, x)) = 0 => Lead(Longer(c, x)) = FindDir(Lead(c), x)

LEMMA ChildRange == Len(tree) \in Nat => \A n, x : Child(n, x) \in 0..Len(tree)
<1> SUFFICES ASSUME Len(tree) \in Nat, NEW n, NEW x PROVE Child(n, x) \in 0..Len(tree)
  OBVIOUS
<1>1. IsFirst(ChildAt(tree, n, x), Child(n, x))
  BY ChildIs
<1> QED
  BY <1>1 DEF IsFirst, ChildAt

LEMMA DownIs ==
  ASSUME NEW n, NEW r \in Comps, NEW x \in Name
  PROVE  LET child == IF r = <<>> THEN Child(n, x) ELSE 0
         IN Down([node |-> n, rest |-> r], x) =
              IF child # 0 THEN [node |-> child, rest |-> r] ELSE [node |-> n, rest |-> Longer(r, x)]
BY DEF Down, Longer

LEMMA DeepestTyped ==
  Shape => \A c \in Comps : Deepest(c) \in [node : 1..Len(tree), rest : Comps]
<1> SUFFICES ASSUME Shape PROVE \A c \in Comps : Deepest(c) \in [node : 1..Len(tree), rest : Comps]
  OBVIOUS
<1> DEFINE D == [node : 1..Len(tree), rest : Comps]
           A == {c \in Comps : Deepest(c) \in D}
<1>1. Len(tree) \in Nat \ {0}
  BY DEF Shape
<1>2. <<>> \in A
  <2>1. <<>> \in Comps /\ 1 \in 1..Len(tree)
    BY <1>1, EmptySeq DEF Comps
  <2>2. [node |-> 1, rest |-> <<>>] \in D
    BY <2>1
  <2> QED
    BY <2>1, <2>2, DeepestNone
<1>3. ASSUME NEW c \in Comps, NEW x \in Name, c \in A PROVE Longer(c, x) \in A
  <2>1. PICK n \in 1..Len(tree), r \in Comps : Deepest(c) = [node |-> n, rest |-> r]
    BY <1>3
  <2>2. Deepest(Longer(c, x)) = Down([node |-> n, rest |-> r], x)
    BY <2>1, DeepestLonger DEF Comps
  <2>3. Child(n, x) \in 0..Len(tree)
    BY <1>1, ChildRange
  <2>4. Longer(r, x) \in Comps /\ Longer(c, x) \in Comps
    BY LongerIs DEF Comps
  <2>5. CASE r = <<>> /\ Child(n, x) # 0
    <3>1. Deepest(Longer(c, x)) = [node |-> Child(n, x), rest |-> r]
      BY <2>2, <2>5, DownIs
    <3>2. Child(n, x) \in 1..Len(tree)
      BY <1>1, <2>3, <2>5
    <3> QED
      BY <2>4, <3>1, <3>2
  <2>6. CASE ~(r = <<>> /\ Child(n, x) # 0)
    <3>1. Deepest(Longer(c, x)) = [node |-> n, rest |-> Longer(r, x)]
      BY <2>2, <2>6, DownIs
    <3> QED
      BY <2>4, <3>1
  <2> QED
    BY <2>4, <2>5, <2>6
<1> HIDE DEF A
<1>4. Comps \subseteq A
  BY <1>2, <1>3, SeqInduction DEF Comps
<1> QED
  BY <1>4 DEF A

LEMMA LookupsHold == Lookups
<1> SUFFICES ASSUME Shape
             PROVE  /\ On(<<>>) = 1 /\ Lead(<<>>) = tree[1].file
                    /\ \A n, x : Child(n, x) \in 0..Len(tree) /\ IsFirst(ChildAt(tree, n, x), Child(n, x))
                    /\ \A c \in Comps : /\ Deepest(c) \in [node : 1..Len(tree), rest : Comps]
                                        /\ On(c) \in 0..Len(tree) /\ (On(c) # 0 => Lead(c) = tree[On(c)].file)
                    /\ \A c \in Comps, x \in Name :
                         /\ On(Longer(c, x)) = IF On(c) = 0 THEN 0 ELSE Child(On(c), x)
                         /\ On(Longer(c, x)) = 0 => Lead(Longer(c, x)) = FindDir(Lead(c), x)
  BY DEF Lookups
<1>1. Len(tree) \in Nat \ {0} /\ <<>> \in Comps
  BY EmptySeq DEF Shape, Comps
<1>2. \A c \in Comps : Deepest(c) \in [node : 1..Len(tree), rest : Comps]
  BY DeepestTyped
<1>3. ASSUME NEW c \in Comps
      PROVE  Deepest(c).rest = <<>> => Lead(c) = tree[Deepest(c).node].file
  <2>1. Len(<<>>) = 0
    BY EmptySeq
  <2> QED
    BY <2>1, FollowNone DEF Lead
<1>4. ASSUME NEW c \in Comps, NEW x \in Name
      PROVE  /\ On(Longer(c, x)) = IF On(c) = 0 THEN 0 ELSE Child(On(c), x)
             /\ On(Longer(c, x)) = 0 => Lead(Longer(c, x)) = FindDir(Lead(c), x)
  <2>1. PICK n \in 1..Len(tree), r \in Comps : Deepest(c) = [node |-> n, rest |-> r]
    BY <1>2
  <2>2. Deepest(Longer(c, x)) = Down([node |-> n, rest |-> r], x)
    BY <2>1, DeepestLonger DEF Comps
  <2>3. Child(n, x) \in 0..Len(tree) /\ n # 0
    BY <1>1, ChildRange
  <2>4. /\ Longer(r, x) # <<>> /\ Len(Longer(r, x)) = Len(r) + 1
        /\ Longer(r, x) \in Comps /\ Longer(c, x) \in Comps
    BY LongerIs DEF Comps
  <2>5. CASE r = <<>> /\ Child(n, x) # 0
    <3>1. Deepest(Longer(c, x)) = [node |-> Child(n, x), rest |-> <<>>]
      BY <2>2, <2>5, DownIs
    <3> QED
      BY <2>1, <2>3, <2>5, <3>1 DEF On
  <2>6. CASE ~(r = <<>> /\ Child(n, x) # 0)
    <3>1. Deepest(Longer(c, x)) = [node |-> n, rest |-> Longer(r, x)]
      BY <2>2, <2>6, DownIs
    <3>2. On(Longer(c, x)) = 0 /\ (On(c) = 0 \/ Child(On(c), x) = 0)
      BY <2>1, <2>3, <2>4, <2>6, <3>1 DEF On
    <3>3. Lead(c) = Follow(tree[n].file, r)[Len(r)]
      BY <2>1 DEF Lead
    <3>4. Lead(Longer(c, x)) = Follow(tree[n].file, Longer(r, x))[Len(r) + 1]
      BY <2>4, <3>1 DEF Lead
    <3>5. Lead(Longer(c, x)) = FindDir(Lead(c), x)
      BY <3>3, <3>4, FollowLonger DEF Comps
    <3> QED
      BY <3>2, <3>5
  <2> QED
    BY <2>5, <2>6
<1>5. \A c \in Comps : On(c) \in 0..Len(tree) /\ (On(c) # 0 => Lead(c) = tree[On(c)].file)
  BY <1>1, <1>2, <1>3 DEF On
<1>6. On(<<>>) = 1 /\ Lead(<<>>) = tree[1].file
  BY <1>1, <1>3, DeepestNone DEF On
<1> QED
  BY <1>1, <1>2, <1>4, <1>5, <1>6, ChildIs, ChildRange

LEMMA LookupsNext == Lookups'
BY LookupsHold, PTL

\* The same, one component at a time, for both ends of a step.
Starts == On(<<>>) = 1 /\ Lead(<<>>) = tree[1].file /\ <<>> \in Comps
GoesOn(c, x) ==
  /\ Longer(c, x) \in Comps
  /\ On(c) \in 0..Len(tree) /\ On(Longer(c, x)) \in 0..Len(tree)
  /\ On(Longer(c, x)) = IF On(c) = 0 THEN 0 ELSE Child(On(c), x)
  /\ On(Longer(c, x)) # 0 => Lead(Longer(c, x)) = tree[On(Longer(c, x))].file
  /\ On(Longer(c, x)) = 0 => Lead(Longer(c, x)) = FindDir(Lead(c), x)
Steps == Shape => Starts /\ \A c \in Comps, x \in Name : GoesOn(c, x)

LEMMA StepsHold == Steps
<1> SUFFICES ASSUME Shape PROVE Starts /\ \A c \in Comps, x \in Name : GoesOn(c, x)
  BY DEF Steps
<1>1. Starts
  BY EmptySeq, LookupsHold DEF Starts, Lookups, Comps
<1>2. ASSUME NEW c \in Comps, NEW x \in Name PROVE GoesOn(c, x)
  <2>1. Longer(c, x) \in Comps
    BY LongerIs DEF Comps
  <2> QED
    BY <2>1, LookupsHold DEF Lookups, GoesOn
<1> QED
  BY <1>1, <1>2

LEMMA StepsNext == Steps'
BY StepsHold, PTL

----------------------------------------------------------------------------
(* The inductive invariant                                                 *)

\* What finddir and the nodes of the mount tree give when tmpfs has n objects.
IsNode(n, x) ==
  \/ x \in {NULL, DevRoot}
  \/ \E o \in 1..n : x \in {Node("dir", o), Node("file", o)}
  \/ \E i \in Nat : x = Node("device", i)

\* x may be found at c: a directory has one place.
Placed(n, home, c, x) == IsNode(n, x) /\ (x.kind = "dir" => home[x.obj] = c)

\* An entry of the directory d is in the place its name says.
IsEntry(n, home, d, e) ==
  /\ \E o \in 1..n : e.node \in {Node("dir", o), Node("file", o)}
  /\ e.node.kind = "dir" => home[e.node.obj] = Longer(home[d], e.name)

\* path is the place of each node of the mount tree; home that of each
\* directory of tmpfs, where it was made or mounted and nowhere else.
Located(home, path) ==
  /\ home \in [1..Len(files) -> Comps] /\ path \in [1..Len(tree) -> Comps]
  /\ path[1] = <<>> /\ tree[1].parent = 0
  /\ \A n \in 1..Len(tree) : Placed(Len(files), home, path[n], tree[n].file)
  /\ \A n \in 2..Len(tree) : /\ tree[n].file # NULL /\ tree[n].parent \in 1..(n - 1)
                             /\ path[n] = Longer(path[tree[n].parent], tree[n].name)
  /\ \A d \in 1..Len(files) : /\ Len(files[d]) <= Len(files)
                              /\ \A i \in 1..Len(files[d]) : IsEntry(Len(files), home, d, files[d][i])
  /\ \A i, j \in 1..Len(devices) : devices[i] = devices[j] => i = j

\* What the mount tree and the file systems keep: whichever way a directory is
\* reached, over nodes of the mount tree or by its entries, it is at its place.
VInv == Shape /\ \E home, path : Located(home, path)

LEMMA NodeFacts ==
  /\ \A k, o : Node(k, o).kind = k /\ Node(k, o).obj = o
  /\ NULL.kind = "null" /\ DevRoot.kind = "devfs"
BY DEF Node, NULL, DevRoot

\* Each path leads to something that exists, and to a directory only if that
\* is the place of the directory.
Found ==
  \A home, path :
    Shape /\ Located(home, path) =>
      \A c \in Comps : Placed(Len(files), home, c, Lead(c)) /\ (On(c) # 0 => path[On(c)] = c)

\* What the kind of such a node says.
Known(n, x) ==
  /\ x.kind = "dir" => x.obj \in 1..n /\ x = Node("dir", x.obj)
  /\ x.kind = "devfs" => x = DevRoot
  /\ x.kind = "null" => x = NULL

LEMMA NodeKinds == \A n, x : IsNode(n, x) => Known(n, x)
<1> SUFFICES ASSUME NEW n, NEW x, IsNode(n, x)
             PROVE  /\ x.kind = "dir" => x.obj \in 1..n /\ x = Node("dir", x.obj)
                    /\ x.kind = "devfs" => x = DevRoot
                    /\ x.kind = "null" => x = NULL
  BY DEF Known
<1>1. CASE x \in {NULL, DevRoot}
  BY <1>1, NodeFacts
<1>2. CASE \E o \in 1..n : x \in {Node("dir", o), Node("file", o)}
  BY <1>2, NodeFacts
<1>3. CASE \E i \in Nat : x = Node("device", i)
  BY <1>3, NodeFacts
<1> QED
  BY <1>1, <1>2, <1>3 DEF IsNode

\* One finddir from a directory in its place.
LEMMA FindDirFound ==
  \A home, path, f : \A c \in Comps, x \in Name :
    Shape /\ Located(home, path) /\ Placed(Len(files), home, c, f) =>
      /\ Placed(Len(files), home, Longer(c, x), FindDir(f, x))
      /\ FindDir(f, x) # NULL => f.kind \in {"dir", "devfs"}
      /\ FindDir(f, x) # DevRoot
      /\ FindDir(f, x).kind = "dir" => f.kind = "dir"
<1> SUFFICES ASSUME NEW home, NEW path, NEW c \in Comps, NEW f, NEW x \in Name,
                    Shape, Located(home, path), Placed(Len(files), home, c, f)
             PROVE  /\ Placed(Len(files), home, Longer(c, x), FindDir(f, x))
                    /\ FindDir(f, x) # NULL => f.kind \in {"dir", "devfs"}
                    /\ FindDir(f, x) # DevRoot
                    /\ FindDir(f, x).kind = "dir" => f.kind = "dir"
  OBVIOUS
<1>1. CASE f.kind = "dir"
  <2> DEFINE d == f.obj
             s == files[d]
  <2>1. d \in 1..Len(files) /\ FindDir(f, x) = FindEntry(s, x)
    BY <1>1, NodeKinds DEF FindDir, Placed, Known
  <2>2. s \in Seq([name : Name, node : Records])
    BY <2>1, ElementOfSeq DEF Shape
  <2>3. Len(s) \in Nat
    BY <2>2, LenProperties
  <2> HIDE DEF s
  <2>4. PICK i : IsFirst(EntryAt(s, x), i) /\ FindEntry(s, x) = IF i = 0 THEN NULL ELSE s[i].node
    BY <2>3, FindEntryIs
  <2>5. CASE i = 0
    BY <1>1, <2>1, <2>4, <2>5, NodeFacts DEF IsNode, Placed
  <2>6. CASE i # 0
    <3>1. i \in 1..Len(s) /\ s[i].name = x
      BY <2>4, <2>6 DEF IsFirst, EntryAt
    <3>2. IsEntry(Len(files), home, d, s[i])
      BY <2>1, <3>1 DEF Located, s
    <3>3. FindDir(f, x) = s[i].node
      BY <2>1, <2>4, <2>6
    <3>4. home[d] = c
      BY <1>1 DEF Placed
    <3> QED
      BY <1>1, <3>1, <3>2, <3>3, <3>4, NodeFacts DEF IsEntry, IsNode, Placed
  <2> QED
    BY <2>5, <2>6
<1>2. CASE f.kind = "devfs"
  <2>1. FindDir(f, x) = FindDevice(x)
    BY <1>2 DEF FindDir
  <2>2. Len(devices) \in Nat
    BY LenProperties DEF Shape
  <2>3. PICK i : /\ IsFirst(NameAt(devices, x), i)
                 /\ FindDevice(x) = IF i = 0 THEN NULL ELSE Node("device", i)
    BY <2>2, FindDeviceIs
  <2>4. i \in Nat
    BY <2>2, <2>3 DEF IsFirst, NameAt
  <2> QED
    BY <1>2, <2>1, <2>3, <2>4, NodeFacts DEF IsNode, Placed
<1>3. CASE f.kind \notin {"dir", "devfs"}
  BY <1>3, NodeFacts DEF FindDir, IsNode, Placed
<1> QED
  BY <1>1, <1>2, <1>3

LEMMA FoundHolds == Found
<1> SUFFICES ASSUME NEW home, NEW path, Shape, Located(home, path)
             PROVE  \A c \in Comps : Placed(Len(files), home, c, Lead(c)) /\ (On(c) # 0 => path[On(c)] = c)
  BY DEF Found
<1> DEFINE A == {c \in Comps : Placed(Len(files), home, c, Lead(c)) /\ (On(c) # 0 => path[On(c)] = c)}
<1>1. Len(tree) \in Nat \ {0} /\ <<>> \in Comps
  BY EmptySeq DEF Shape, Comps
<1>2. <<>> \in A
  <2>1. On(<<>>) = 1 /\ Lead(<<>>) = tree[1].file
    BY LookupsHold DEF Lookups
  <2> QED
    BY <1>1, <2>1 DEF Located
<1>3. ASSUME NEW c \in Comps, NEW x \in Name, c \in A PROVE Longer(c, x) \in A
  <2>1. Longer(c, x) \in Comps
    BY LongerIs DEF Comps
  <2>2. CASE On(Longer(c, x)) # 0
    <3> DEFINE n == On(c)
               m == Child(n, x)
    <3>1. /\ On(Longer(c, x)) = m /\ n # 0 /\ m # 0 /\ n \in 1..Len(tree) /\ m \in 1..Len(tree)
          /\ Lead(Longer(c, x)) = tree[m].file
          /\ IsFirst(ChildAt(tree, n, x), m)
      <4>1. On(Longer(c, x)) = IF n = 0 THEN 0 ELSE m
        BY LookupsHold DEF Lookups
      <4>2. n \in 0..Len(tree) /\ m \in 0..Len(tree) /\ IsFirst(ChildAt(tree, n, x), m)
        BY LookupsHold DEF Lookups
      <4>3. Lead(Longer(c, x)) = tree[On(Longer(c, x))].file
        BY <2>1, <2>2, LookupsHold DEF Lookups
      <4> QED
        BY <1>1, <2>2, <4>1, <4>2, <4>3
    <3> HIDE DEF m
    <3>2. tree[m].parent = n /\ tree[m].name = x
      BY <3>1 DEF IsFirst, ChildAt
    <3>3. m # 1
      BY <3>1, <3>2 DEF Located
    <3>4. path[n] = c
      BY <1>3, <3>1
    <3>5. path[m] = Longer(c, x)
      BY <1>1, <3>1, <3>2, <3>3, <3>4 DEF Located
    <3> QED
      BY <2>1, <3>1, <3>5 DEF Located
  <2>3. CASE On(Longer(c, x)) = 0
    <3>1. Lead(Longer(c, x)) = FindDir(Lead(c), x)
      BY <2>3, LookupsHold DEF Lookups
    <3>2. Placed(Len(files), home, Longer(c, x), FindDir(Lead(c), x))
      BY <1>3, FindDirFound
    <3> QED
      BY <2>1, <2>3, <3>1, <3>2
  <2> QED
    BY <2>2, <2>3
<1> HIDE DEF A
<1>4. Comps \subseteq A
  BY <1>2, <1>3, SeqInduction DEF Comps
<1> QED
  BY <1>4 DEF A

LEMMA FoundNext == Found'
BY FoundHolds, PTL

----------------------------------------------------------------------------
(* Paths                                                                   *)

LEMMA NamedPathIs ==
  /\ \A p \in NamedPaths : p \in Seq(Names) /\ p \in Comps /\ Len(p) \in Nat /\ Len(p) <= MaxLength
  /\ \A p \in Seq(Names) : Len(p) <= MaxLength => p \in NamedPaths
<1>1. ASSUME NEW p \in NamedPaths
      PROVE  p \in Seq(Names) /\ p \in Comps /\ Len(p) \in Nat /\ Len(p) <= MaxLength
  <2>1. PICK n \in 0..MaxLength : p \in [1..n -> Names]
    BY DEF NamedPaths
  <2>2. n \in Nat /\ n <= MaxLength
    BY <2>1, VfsAssumption DEF VfsAssumption
  <2>3. p \in Seq(Names)
    BY <2>1, <2>2, SeqDef
  <2>4. p \in Comps
    BY <2>3, SeqMonotonic DEF Comps, Name
  <2>5. Len(p) \in Nat /\ DOMAIN p = 1..Len(p)
    BY <2>3, LenProperties
  <2>6. Len(p) = n
    BY <2>1, <2>2, <2>5
  <2> QED
    BY <2>2, <2>3, <2>4, <2>6
<1>2. ASSUME NEW p \in Seq(Names), Len(p) <= MaxLength PROVE p \in NamedPaths
  <2>1. Len(p) \in Nat /\ p \in [1..Len(p) -> Names]
    BY LenProperties
  <2>2. Len(p) \in 0..MaxLength
    BY <1>2, <2>1, VfsAssumption DEF VfsAssumption
  <2> QED
    BY <2>1, <2>2 DEF NamedPaths
<1> QED
  BY <1>1, <1>2

LEMMA RootIs == Split(Root) = <<>> /\ Root # <<>> /\ Root[1] = Empty
BY DEF Split, Root

LEMMA SplitNamed == \A p \in Seq(Names) : p # <<>> => Split(p) = p /\ p # Root
<1> SUFFICES ASSUME NEW p \in Seq(Names), p # <<>> PROVE p # Root
  BY DEF Split
<1>1. 1 \in 1..Len(p)
  BY EmptySeq
<1>2. p[1] \in Names
  BY <1>1, ElementOfSeq
<1> QED
  BY <1>2, RootIs, VfsAssumption DEF VfsAssumption

AtIsLead == \A p \in NamedPaths : At[p] = Lead(p)

LEMMA AtIsLeadHolds == AtIsLead
<1> SUFFICES ASSUME NEW p \in NamedPaths PROVE At[p] = Lead(p)
  BY DEF AtIsLead
<1>1. CASE p = <<>>
  BY <1>1, RootIs DEF At, Resolve
<1>2. CASE p # <<>>
  BY <1>2, NamedPathIs, SplitNamed DEF At, Resolve
<1> QED
  BY <1>1, <1>2

LEMMA AtIsLeadNext == AtIsLead'
BY AtIsLeadHolds, PTL

----------------------------------------------------------------------------
(* The invariants the runs check                                           *)

\* Two paths do not lead to one directory: they would both be its home.
LEMMA InvOnePlace == VInv => OnePlace
<1> SUFFICES ASSUME VInv, NEW p \in NamedPaths, NEW q \in NamedPaths, At[p] = At[q], At[p].kind = "dir"
             PROVE  p = q
  BY DEF OnePlace
<1>1. PICK home, path : Shape /\ Located(home, path)
  BY DEF VInv
<1>2. p \in Comps /\ q \in Comps /\ At[p] = Lead(p) /\ At[q] = Lead(q)
  BY NamedPathIs, AtIsLeadHolds DEF AtIsLead
<1>3. Placed(Len(files), home, p, Lead(p)) /\ Placed(Len(files), home, q, Lead(q))
  BY <1>1, <1>2, FoundHolds DEF Found
<1> QED
  BY <1>2, <1>3 DEF Placed

\* Each device is the only one of its name.
LEMMA DeviceFound ==
  \A home, path, i : Shape /\ Located(home, path) /\ i \in 1..Len(devices) =>
    FindDir(DevRoot, devices[i]) = Node("device", i)
<1> SUFFICES ASSUME NEW home, NEW path, NEW i \in 1..Len(devices), Shape, Located(home, path)
             PROVE  FindDir(DevRoot, devices[i]) = Node("device", i)
  OBVIOUS
<1>1. Len(devices) \in Nat
  BY LenProperties DEF Shape
<1>2. FindDir(DevRoot, devices[i]) = FindDevice(devices[i])
  BY NodeFacts DEF FindDir
<1>3. PICK j : /\ IsFirst(NameAt(devices, devices[i]), j)
               /\ FindDevice(devices[i]) = IF j = 0 THEN NULL ELSE Node("device", j)
  BY <1>1, FindDeviceIs
<1>4. i \in NameAt(devices, devices[i])
  BY DEF NameAt
<1>5. j \in 1..Len(devices) /\ devices[j] = devices[i]
  BY <1>3, <1>4 DEF IsFirst, NameAt
<1>6. j = i
  BY <1>5 DEF Located
<1> QED
  BY <1>2, <1>3, <1>5, <1>6

LEMMA InvDevicesFound == VInv => DevicesFound
<1> SUFFICES ASSUME VInv, NEW p \in NamedPaths, At[p].kind = "devfs", Len(p) < MaxLength,
                    NEW i \in DOMAIN devices
             PROVE  Missing(Append(p, devices[i])) = 0 \/ At[Append(p, devices[i])] = Node("device", i)
  BY DEF DevicesFound
<1>1. PICK home, path : Shape /\ Located(home, path)
  BY DEF VInv
<1>2. i \in 1..Len(devices)
  BY <1>1, LenProperties DEF Shape
<1>3. devices[i] \in Names /\ devices[i] \in Name
  BY <1>1, <1>2, ElementOfSeq DEF Shape, Name
<1> DEFINE x == devices[i]
           q == Append(p, x)
<1>4. p \in Seq(Names) /\ p \in Comps /\ Len(p) \in Nat /\ At[p] = Lead(p)
  BY NamedPathIs, AtIsLeadHolds DEF AtIsLead
<1>5. q = Longer(p, x) /\ q \in Seq(Names) /\ q # <<>> /\ Len(q) = Len(p) + 1
  BY <1>3, <1>4, LongerIs DEF Longer
<1>6. q \in NamedPaths
  BY <1>4, <1>5, NamedPathIs, VfsAssumption DEF VfsAssumption
<1>7. Lead(p) = DevRoot
  BY <1>1, <1>4, FoundHolds, NodeKinds DEF Found, Placed, Known
<1> HIDE DEF q
<1>8. CASE On(q) # 0
  <2>1. Deepest(q).rest = <<>>
    BY <1>8 DEF On
  <2> QED
    BY <1>5, <2>1, SplitNamed, EmptySeq DEF Missing, q
<1>9. CASE On(q) = 0
  <2>1. Lead(q) = FindDir(Lead(p), x)
    BY <1>1, <1>3, <1>4, <1>5, <1>9, LookupsHold DEF Lookups
  <2>2. FindDir(DevRoot, x) = Node("device", i)
    BY <1>1, <1>2, DeviceFound
  <2> QED
    BY <1>6, <1>7, <2>1, <2>2, AtIsLeadHolds DEF AtIsLead, q
<1> QED
  BY <1>8, <1>9

\* The directory f lists n names, those found in it.
Lists(f, n) ==
  /\ n \in Nat /\ n <= Len(files) + Len(devices)
  /\ Listed(f) \in [1..n -> Name]
  /\ \A m \in Name : FindDir(f, m) # NULL <=> \E k \in 1..n : Listed(f)[k] = m

LEMMA ListIs ==
  \A home, path, f :
    Shape /\ Located(home, path) /\ IsNode(Len(files), f) /\ f.kind \in {"dir", "devfs"} => \E n : Lists(f, n)
<1> SUFFICES ASSUME NEW home, NEW path, NEW f, Shape, Located(home, path), IsNode(Len(files), f), f.kind \in {"dir", "devfs"}
             PROVE  \E n : Lists(f, n)
  OBVIOUS
<1>1. Len(files) \in Nat /\ Len(devices) \in Nat
  BY LenProperties DEF Shape
<1>2. CASE f.kind = "dir"
  <2> DEFINE d == f.obj
             s == files[d]
  <2>1. d \in 1..Len(files) /\ \A m : FindDir(f, m) = FindEntry(s, m)
    BY <1>2, NodeKinds DEF FindDir, Known
  <2>2. s \in Seq([name : Name, node : Records])
    BY <2>1, ElementOfSeq DEF Shape
  <2>3. Len(s) \in Nat /\ DOMAIN s = 1..Len(s) /\ \A k \in 1..Len(s) : s[k].name \in Name
    <3> HIDE DEF s
    <3>1. Len(s) \in Nat /\ DOMAIN s = 1..Len(s)
      BY <2>2, LenProperties
    <3>2. \A k \in 1..Len(s) : s[k] \in [name : Name, node : Records]
      BY <2>2, ElementOfSeq
    <3> QED
      BY <3>1, <3>2
  <2>4. Len(s) <= Len(files) /\ \A k \in 1..Len(s) : IsEntry(Len(files), home, d, s[k])
    BY <2>1 DEF Located
  <2>5. Listed(f) = [k \in DOMAIN s |-> s[k].name]
    BY <1>2 DEF Listed
  <2> HIDE DEF s
  <2>6. ASSUME NEW m \in Name PROVE FindDir(f, m) # NULL <=> \E k \in 1..Len(s) : s[k].name = m
    <3>1. PICK i : IsFirst(EntryAt(s, m), i) /\ FindEntry(s, m) = IF i = 0 THEN NULL ELSE s[i].node
      BY <2>3, FindEntryIs
    <3>2. CASE EntryAt(s, m) = {}
      BY <2>1, <3>1, <3>2 DEF IsFirst, EntryAt
    <3>3. CASE EntryAt(s, m) # {}
      <4>1. i \in 1..Len(s) /\ s[i].name = m /\ i # 0
        BY <3>1, <3>3 DEF IsFirst, EntryAt
      <4>2. s[i].node # NULL
        BY <2>4, <4>1, NodeFacts DEF IsEntry
      <4> QED
        BY <2>1, <3>1, <4>1, <4>2
    <3> QED
      BY <3>2, <3>3
  <2>7. Listed(f) \in [1..Len(s) -> Name] /\ \A k \in 1..Len(s) : Listed(f)[k] = s[k].name
    BY <2>3, <2>5
  <2>8. \A m \in Name : FindDir(f, m) # NULL <=> \E k \in 1..Len(s) : Listed(f)[k] = m
    BY <2>6, <2>7
  <2>9. Lists(f, Len(s))
    BY <1>1, <2>3, <2>4, <2>7, <2>8 DEF Lists
  <2> QED
    BY <2>9
<1>3. CASE f.kind = "devfs"
  <2>1. Listed(f) = devices /\ \A m : FindDir(f, m) = FindDevice(m)
    BY <1>3 DEF FindDir, Listed
  <2>2. devices \in [1..Len(devices) -> Name]
    <3>1. devices \in [1..Len(devices) -> Names]
      BY LenProperties DEF Shape
    <3> QED
      BY <3>1 DEF Name
  <2>3. ASSUME NEW m \in Name PROVE FindDevice(m) # NULL <=> \E k \in 1..Len(devices) : devices[k] = m
    <3>1. PICK i : /\ IsFirst(NameAt(devices, m), i)
                   /\ FindDevice(m) = IF i = 0 THEN NULL ELSE Node("device", i)
      BY <1>1, FindDeviceIs
    <3>2. CASE NameAt(devices, m) = {}
      BY <3>1, <3>2 DEF IsFirst, NameAt
    <3>3. CASE NameAt(devices, m) # {}
      <4>1. i \in 1..Len(devices) /\ devices[i] = m /\ i # 0
        BY <3>1, <3>3 DEF IsFirst, NameAt
      <4> QED
        BY <3>1, <4>1, NodeFacts
    <3> QED
      BY <3>2, <3>3
  <2>4. \A m \in Name : FindDir(f, m) # NULL <=> \E k \in 1..Len(devices) : Listed(f)[k] = m
    BY <2>1, <2>3
  <2>5. Lists(f, Len(devices))
    BY <1>1, <2>1, <2>2, <2>4 DEF Lists
  <2> QED
    BY <2>5
<1> QED
  BY <1>2, <1>3

LEMMA InvListedIsFound == VInv => ListedIsFound
<1> SUFFICES ASSUME VInv, NEW p \in NamedPaths
             PROVE  LET names == {VfsReaddir(At[p], i) : i \in 2..(Len(files) + Len(devices) + 2)} \ {<<>>}
                    IN names = {<<n>> : n \in {m \in Names \cup {Empty, Junk} : FindDir(At[p], m) # NULL}}
  BY DEF ListedIsFound
<1>1. PICK home, path : Shape /\ Located(home, path)
  BY DEF VInv
<1> DEFINE f == At[p]
           I == 2..(Len(files) + Len(devices) + 2)
<1>2. IsNode(Len(files), f)
  BY <1>1, NamedPathIs, AtIsLeadHolds, FoundHolds DEF AtIsLead, Found, Placed
<1>3. Len(files) \in Nat /\ Len(devices) \in Nat
  BY <1>1, LenProperties DEF Shape
<1> HIDE DEF f
<1>4. CASE f.kind \in {"dir", "devfs"}
  <2>1. PICK n : /\ n \in Nat /\ n <= Len(files) + Len(devices)
                 /\ Listed(f) \in [1..n -> Name]
                 /\ \A m \in Name : FindDir(f, m) # NULL <=> \E k \in 1..n : Listed(f)[k] = m
    BY <1>1, <1>2, <1>4, ListIs DEF Lists
  <2> DEFINE s == Listed(f)
  <2>2. \A i \in I : VfsReaddir(f, i) = IF i - 1 \in 1..n THEN <<s[i - 1]>> ELSE <<>>
    BY <1>4, <2>1 DEF VfsReaddir, Readdir
  <2> HIDE DEF s
  <2>3. ASSUME NEW y, y \in {VfsReaddir(f, i) : i \in I} \ {<<>>}
        PROVE  \E m \in Name : FindDir(f, m) # NULL /\ y = <<m>>
    <3>1. PICK i \in I : y = VfsReaddir(f, i) /\ y # <<>>
      BY <2>3
    <3>2. i - 1 \in 1..n /\ y = <<s[i - 1]>>
      BY <2>2, <3>1
    <3> QED
      BY <2>1, <3>2 DEF s
  <2>4. ASSUME NEW m \in Name, FindDir(f, m) # NULL
        PROVE  <<m>> \in {VfsReaddir(f, i) : i \in I} \ {<<>>}
    <3>1. PICK k \in 1..n : s[k] = m
      BY <2>1, <2>4 DEF s
    <3>2. k + 1 \in I /\ (k + 1) - 1 = k
      BY <1>3, <2>1, <3>1
    <3>3. VfsReaddir(f, k + 1) = <<m>>
      BY <2>2, <3>1, <3>2
    <3> QED
      BY <3>2, <3>3
  <2>5. {VfsReaddir(f, i) : i \in I} \ {<<>>} = {<<n_1>> : n_1 \in {m \in Name : FindDir(f, m) # NULL}}
    BY <2>3, <2>4
  <2> QED
    BY <2>5 DEF f, Name
<1>5. CASE f.kind \notin {"dir", "devfs"}
  <2>1. (\A i \in I : VfsReaddir(f, i) = <<>>) /\ \A m : FindDir(f, m) = NULL
    BY <1>5 DEF VfsReaddir, FindDir
  <2>2. /\ {VfsReaddir(f, i) : i \in I} \ {<<>>} = {}
        /\ {<<n>> : n \in {m \in Name : FindDir(f, m) # NULL}} = {}
    BY <2>1
  <2> QED
    BY <2>2 DEF f, Name
<1> QED
  BY <1>4, <1>5

----------------------------------------------------------------------------
(* Initial states, and steps that only add                                 *)

LEMMA InitVInv == Init => VInv
<1> SUFFICES ASSUME Init PROVE VInv
  OBVIOUS
<1> DEFINE root == [parent |-> 0, name |-> Empty, file |-> NULL]
           home == [o \in 1..Len(files) |-> <<>>]
           path == [n \in 1..Len(tree) |-> <<>>]
<1>1. /\ tree = <<root>> /\ files = <<>> /\ devices = <<>>
      /\ Len(tree) = 1 /\ tree[1] = root /\ Len(files) = 0 /\ Len(devices) = 0
  BY EmptySeq DEF Init
<1>2. NULL \in Records /\ IsNode(Len(files), NULL) /\ NULL.kind # "dir" /\ <<>> \in Comps
  <2>1. NULL \in Records
    BY DEF NULL, Node, Records
  <2>2. IsNode(Len(files), NULL)
    BY DEF IsNode
  <2> QED
    BY <2>1, <2>2, NodeFacts, EmptySeq DEF Comps
<1>3. Shape
  <2>1. root \in [parent : Nat, name : Name, file : Records]
    BY <1>2 DEF Name
  <2> HIDE DEF root
  <2>2. tree \in Seq([parent : Nat, name : Name, file : Records])
    BY <1>1, <2>1
  <2> QED
    BY <1>1, <2>2, EmptySeq DEF Shape
<1>4. Located(home, path)
  BY <1>1, <1>2 DEF Located, Placed
<1> QED
  BY <1>3, <1>4 DEF VInv

\* What was in its place stays there when tmpfs goes from n objects to m.
Extends(n, home, m, more) ==
  /\ n \in Nat /\ m \in Nat /\ n <= m
  /\ home \in [1..n -> Comps] /\ more \in [1..m -> Comps]
  /\ \A o \in 1..n : more[o] = home[o]

LEMMA PlacedStays ==
  ASSUME NEW n, NEW home, NEW m, NEW more, Extends(n, home, m, more), NEW c, NEW x, Placed(n, home, c, x)
  PROVE  Placed(m, more, c, x)
<1>1. IsNode(m, x)
  BY DEF Placed, Extends, IsNode
<1>2. x.kind = "dir" => x.obj \in 1..n
  BY NodeKinds DEF Placed, Known
<1> QED
  BY <1>1, <1>2 DEF Placed, Extends

LEMMA EntryStays ==
  ASSUME NEW n, NEW home, NEW m, NEW more, Extends(n, home, m, more), NEW d \in 1..n, NEW e, IsEntry(n, home, d, e)
  PROVE  IsEntry(m, more, d, e)
<1>1. PICK o \in 1..n : e.node \in {Node("dir", o), Node("file", o)}
  BY DEF IsEntry
<1>2. e.node.obj \in 1..n
  BY <1>1, NodeFacts
<1> QED
  BY <1>1, <1>2 DEF IsEntry, Extends

LEMMA FilesAppended ==
  ASSUME Shape, files' = files \/ files' = Append(files, <<>>)
  PROVE  /\ Len(files) \in Nat /\ Len(files') \in Nat /\ Len(files) <= Len(files')
         /\ \A d \in 1..Len(files) : files'[d] = files[d]
         /\ files' = Append(files, <<>>) => Len(files') = Len(files) + 1 /\ files'[Len(files) + 1] = <<>>
<1> DEFINE S == Seq([name : Name, node : Records])
<1>1. files \in Seq(S) /\ <<>> \in S
  BY EmptySeq DEF Shape
<1> HIDE DEF S
<1>2. Len(files) \in Nat
  BY <1>1, LenProperties
<1>3. CASE files' = Append(files, <<>>)
  BY <1>1, <1>2, <1>3, AppendProperties
<1>4. CASE files' = files
  <2>1. Append(files, <<>>) # files
    BY <1>1, AppendProperties, <1>2
  <2> QED
    BY <1>2, <1>4, <2>1
<1> QED
  BY <1>3, <1>4

\* Nothing to see of a directory added.
LEMMA LeadsStay ==
  ASSUME Shape, Shape', NEW home, NEW path, Located(home, path),
         tree' = tree, devices' = devices, files' = files \/ files' = Append(files, <<>>)
  PROVE  \A c \in Comps : On(c)' = On(c) /\ Lead(c)' = Lead(c)
<1> DEFINE A == {c \in Comps : On(c)' = On(c) /\ Lead(c)' = Lead(c)}
<1>1. <<>> \in A
  BY StepsHold, StepsNext DEF Steps, Starts
<1>2. \A n, x : Child(n, x)' = Child(n, x)
  BY DEF Child, SelectInSeq
<1>3. \A d \in 1..Len(files) : files'[d] = files[d]
  BY FilesAppended
<1>4. ASSUME NEW c \in Comps, NEW x \in Name, c \in A PROVE Longer(c, x) \in A
  <2>1. GoesOn(c, x) /\ GoesOn(c, x)'
    BY StepsHold, StepsNext DEF Steps
  <2>2. On(Longer(c, x))' = On(Longer(c, x))
    BY <1>2, <1>4, <2>1 DEF GoesOn
  <2>3. CASE On(Longer(c, x)) # 0
    BY <2>1, <2>2, <2>3 DEF GoesOn
  <2>4. CASE On(Longer(c, x)) = 0
    <3> DEFINE f == Lead(c)
    <3>1. f.kind = "dir" => f.obj \in 1..Len(files)
      BY FoundHolds, NodeKinds DEF Found, Placed, Known
    <3>2. /\ Lead(Longer(c, x)) = FindDir(f, x)
          /\ Lead(Longer(c, x))' = FindDir(f, x)'
      BY <2>1, <2>2, <2>4 DEF GoesOn
    <3>3. f' = f
      BY <1>4
    <3> HIDE DEF f
    <3>4. FindDir(f, x)' = FindDir(f, x)
      BY <1>3, <3>1, <3>3 DEF FindDir, FindDevice, SelectInSeq
    <3> QED
      BY <2>1, <2>2, <3>2, <3>4 DEF f, GoesOn
  <2> QED
    BY <2>3, <2>4
<1> HIDE DEF A
<1>5. Comps \subseteq A
  BY <1>1, <1>4, SeqInduction DEF Comps
<1> QED
  BY <1>5 DEF A

----------------------------------------------------------------------------
(* mkdir and create                                                        *)

Entries == [name : Name, node : Records]

LEMMA EntryAppended ==
  ASSUME NEW s \in Seq(Entries), NEW e \in Entries, NEW x
  PROVE  /\ FindEntry(Append(s, e), x) = IF EntryAt(s, x) # {} THEN FindEntry(s, x)
                                         ELSE IF e.name = x THEN e.node ELSE NULL
         /\ EntryAt(s, x) = {} => FindEntry(s, x) = NULL
<1> DEFINE l == Append(s, e)
           n == Len(s)
           J == IF e.name = x THEN {n + 1} ELSE {}
           I == EntryAt(s, x)
<1>1. n \in Nat /\ Len(l) = n + 1 /\ (\A i \in 1..n : l[i] = s[i]) /\ l[n + 1] = e
  BY LenProperties, AppendProperties
<1> HIDE DEF l
<1>2. EntryAt(l, x) = I \cup J
  <2>1. 1..(n + 1) = 1..n \cup {n + 1}
    BY <1>1
  <2> QED
    BY <1>1, <2>1 DEF EntryAt
<1>3. PICK i : IsFirst(I, i) /\ FindEntry(s, x) = IF i = 0 THEN NULL ELSE s[i].node
  BY <1>1, FindEntryIs
<1>4. PICK j : IsFirst(I \cup J, j) /\ FindEntry(l, x) = IF j = 0 THEN NULL ELSE l[j].node
  <2>1. Len(l) \in Nat
    BY <1>1
  <2> QED
    BY <1>2, <2>1, FindEntryIs
<1>5. I \subseteq 1..n
  BY DEF EntryAt
<1>6. \A k \in J : k \in Nat /\ n < k
  BY <1>1
<1> HIDE DEF I, J
<1>7. (i # 0 => j = i) /\ (i = 0 => IsFirst(J, j))
  BY <1>1, <1>3, <1>4, <1>5, <1>6, FirstLonger
<1>8. CASE I # {}
  <2>1. i \in 1..n
    BY <1>3, <1>5, <1>8 DEF IsFirst
  <2>2. j = i /\ i # 0 /\ l[i] = s[i]
    BY <1>1, <1>7, <2>1
  <2> QED
    BY <1>3, <1>4, <1>8, <2>2 DEF I, l
<1>9. CASE I = {}
  <2>1. i = 0 /\ IsFirst(J, j)
    BY <1>3, <1>7, <1>9 DEF IsFirst
  <2>2. j = IF e.name = x THEN n + 1 ELSE 0
    BY <2>1 DEF IsFirst, J
  <2> QED
    BY <1>1, <1>3, <1>4, <1>9, <2>1, <2>2 DEF I, l
<1> QED
  BY <1>8, <1>9

\* An object is added, under the name in the directory d.
Adds(d, name, kind) ==
  /\ files' = Append([files EXCEPT ![d] = Append(@, [name |-> name, node |-> Node(kind, Len(files) + 1)])], <<>>)
  /\ UNCHANGED <<tree, devices>>

LEMMA AddsFiles ==
  ASSUME Shape, NEW d \in 1..Len(files), NEW name \in Name, NEW kind \in {"dir", "file"}, Adds(d, name, kind)
  PROVE  LET e == [name |-> name, node |-> Node(kind, Len(files) + 1)]
         IN /\ Shape' /\ e \in Entries
            /\ Len(files) \in Nat /\ Len(files') = Len(files) + 1 /\ files'[Len(files) + 1] = <<>>
            /\ files[d] \in Seq(Entries) /\ files'[d] = Append(files[d], e)
            /\ \A o \in 1..Len(files) : o # d => files'[o] = files[o]
<1> DEFINE e == [name |-> name, node |-> Node(kind, Len(files) + 1)]
           S == Seq(Entries)
           n == Len(files)
           more == [files EXCEPT ![d] = Append(files[d], e)]
<1>1. files \in Seq(S)
  BY DEF Shape, Entries
<1>2. n \in Nat
  BY <1>1, LenProperties
<1>3. e \in Entries
  BY <1>2 DEF Entries, Node, Records
<1> HIDE DEF e
<1>4. files[d] \in S /\ Append(files[d], e) \in S
  <2>1. files[d] \in S
    <3> HIDE DEF S
    <3> QED
      BY <1>1, ElementOfSeq
  <2> QED
    BY <1>3, <2>1, AppendProperties
<1>5. <<>> \in S
  BY EmptySeq
<1> HIDE DEF S
<1>6. /\ more \in Seq(S) /\ Len(more) = n
      /\ \A o \in 1..n : more[o] = IF o = d THEN Append(files[d], e) ELSE files[o]
  BY <1>1, <1>4, ExceptSeq
<1>7. files' = Append(more, <<>>)
  BY DEF Adds, e
<1> HIDE DEF more, n
<1>8. /\ files' \in Seq(S) /\ Len(files') = n + 1 /\ files'[n + 1] = <<>>
      /\ \A o \in 1..n : files'[o] = more[o]
  BY <1>5, <1>6, <1>7, AppendProperties
<1>9. Shape'
  BY <1>8 DEF Shape, S, Entries, Adds
<1>10. d \in 1..n
  BY DEF n
<1> QED
  BY <1>2, <1>3, <1>4, <1>6, <1>8, <1>9, <1>10 DEF e, n, S

LEMMA AddsLocated ==
  ASSUME Shape, NEW home, NEW path, Located(home, path),
         NEW d \in 1..Len(files), NEW name \in Name, NEW kind \in {"dir", "file"}, Adds(d, name, kind)
  PROVE  \E more : Located(more, path)'
<1>1. PICK n : n = Len(files)
  OBVIOUS
<1>2. PICK s : s = files[d]
  OBVIOUS
<1>3. PICK e : e = [name |-> name, node |-> Node(kind, n + 1)]
  OBVIOUS
<1>4. /\ n \in Nat /\ Len(files') = n + 1 /\ files'[n + 1] = <<>> /\ Len(files) = n
      /\ s \in Seq(Entries) /\ files'[d] = Append(s, e) /\ e \in Entries
      /\ \A o \in 1..n : o # d => files'[o] = files[o]
  BY <1>1, <1>2, <1>3, AddsFiles
<1> DEFINE more == [o \in 1..(n + 1) |-> IF o = n + 1 THEN Longer(home[d], name) ELSE home[o]]
<1>5. home \in [1..n -> Comps] /\ Longer(home[d], name) \in Comps
  <2>1. home \in [1..n -> Comps] /\ home[d] \in Comps
    BY <1>1 DEF Located
  <2> QED
    BY <2>1, LongerIs DEF Comps
<1>6. Extends(n, home, n + 1, more)
  BY <1>4, <1>5 DEF Extends
<1>7. more[n + 1] = Longer(home[d], name) /\ more[d] = home[d]
  BY <1>4
<1> HIDE DEF more
<1>8. IsEntry(n + 1, more, d, e)
  <2>1. e.name = name /\ e.node = Node(kind, n + 1) /\ e.node.obj = n + 1 /\ e.node.kind = kind
    BY <1>3, NodeFacts
  <2>2. n + 1 \in 1..(n + 1)
    BY <1>4
  <2> QED
    BY <1>7, <2>1, <2>2 DEF IsEntry
<1>9. \A m \in 1..Len(tree) : Placed(n + 1, more, path[m], tree[m].file)
  BY <1>1, <1>6, PlacedStays DEF Located
<1>10. ASSUME NEW o \in 1..(n + 1)
       PROVE  /\ Len(files'[o]) <= n + 1
              /\ \A i \in 1..Len(files'[o]) : IsEntry(n + 1, more, o, files'[o][i])
  <2>1. CASE o = n + 1
    BY <1>4, <2>1, EmptySeq
  <2>2. CASE o # n + 1 /\ o # d
    <3>1. o \in 1..n /\ files'[o] = files[o]
      BY <1>4, <2>2
    <3>2. Len(files[o]) <= n /\ \A i \in 1..Len(files[o]) : IsEntry(n, home, o, files[o][i])
      BY <1>1, <3>1 DEF Located
    <3>3. files[o] \in Seq(Entries)
      BY <1>1, <3>1, ElementOfSeq DEF Shape, Entries
    <3>4. Len(files[o]) \in Nat
      BY <3>3, LenProperties
    <3>5. \A i \in 1..Len(files[o]) : IsEntry(n + 1, more, o, files[o][i])
      BY <1>6, <3>1, <3>2, EntryStays
    <3> QED
      BY <1>4, <3>1, <3>2, <3>4, <3>5
  <2>3. CASE o = d
    <3> DEFINE l == Append(s, e)
    <3>1. /\ Len(s) \in Nat /\ Len(l) = Len(s) + 1 /\ l[Len(s) + 1] = e
          /\ \A i \in 1..Len(s) : l[i] = s[i]
      BY <1>4, LenProperties, AppendProperties
    <3>2. Len(s) <= n /\ \A i \in 1..Len(s) : IsEntry(n, home, d, s[i])
      BY <1>1, <1>2 DEF Located
    <3>3. \A i \in 1..Len(s) : IsEntry(n + 1, more, d, s[i])
      BY <1>1, <1>6, <3>2, EntryStays
    <3> HIDE DEF l
    <3>4. ASSUME NEW i \in 1..Len(l) PROVE IsEntry(n + 1, more, d, l[i])
      <4>1. CASE i = Len(s) + 1
        BY <1>8, <3>1, <4>1
      <4>2. CASE i # Len(s) + 1
        BY <3>1, <3>3, <4>2
      <4> QED
        BY <4>1, <4>2
    <3> QED
      BY <1>4, <2>3, <3>1, <3>2, <3>4 DEF l
  <2> QED
    BY <2>1, <2>2, <2>3
<1>11. more \in [1..(n + 1) -> Comps]
  BY <1>6 DEF Extends
<1>12. Located(more, path)'
  <2>1. tree' = tree /\ devices' = devices
    BY DEF Adds
  <2> QED
    BY <1>4, <1>9, <1>10, <1>11, <2>1, SMTT(40) DEF Located
<1> QED
  BY <1>12

\* The name added is found in d unless there was one; all else as before.
LEMMA AddsFind ==
  ASSUME Shape, NEW home, NEW path, Located(home, path),
         NEW d \in 1..Len(files), NEW name \in Name, NEW kind \in {"dir", "file"}, Adds(d, name, kind),
         NEW n, n = Len(files), NEW f, NEW x
  PROVE  /\ IsNode(n, f) => FindDir(f, x)' = IF f = Node("dir", d) /\ x = name /\ FindDir(f, x) = NULL
                                             THEN Node(kind, n + 1) ELSE FindDir(f, x)
         /\ FindDir(Node(kind, n + 1), x)' = NULL
<1>1. PICK s : s = files[d]
  OBVIOUS
<1>2. PICK e : e = [name |-> name, node |-> Node(kind, n + 1)]
  OBVIOUS
<1>3. /\ n \in Nat /\ Len(files') = n + 1 /\ files'[n + 1] = <<>>
      /\ s \in Seq(Entries) /\ files'[d] = Append(s, e) /\ e \in Entries
      /\ \A o \in 1..n : o # d => files'[o] = files[o]
  BY <1>1, <1>2, AddsFiles
<1>4. Len(s) \in Nat
  BY <1>3, LenProperties
<1>5. FindDir(Node(kind, n + 1), x)' = NULL
  <2>1. CASE kind = "file"
    BY <2>1, NodeFacts DEF FindDir
  <2>2. CASE kind = "dir"
    <3>1. FindDir(Node(kind, n + 1), x)' = FindEntry(<<>>, x)
      BY <1>3, <2>2, NodeFacts DEF FindDir
    <3>2. Len(<<>>) = 0 /\ EntryAt(<<>>, x) = {}
      BY EmptySeq DEF EntryAt
    <3>3. PICK i : IsFirst(EntryAt(<<>>, x), i) /\ FindEntry(<<>>, x) = IF i = 0 THEN NULL ELSE <<>>[i].node
      BY <3>2, FindEntryIs
    <3> QED
      BY <3>1, <3>2, <3>3 DEF IsFirst
  <2> QED
    BY <2>1, <2>2
<1>6. ASSUME IsNode(n, f)
      PROVE  FindDir(f, x)' = IF f = Node("dir", d) /\ x = name /\ FindDir(f, x) = NULL
                              THEN Node(kind, n + 1) ELSE FindDir(f, x)
  <2>1. Known(n, f)
    BY <1>6, NodeKinds
  <2>2. CASE f.kind = "dir" /\ f.obj = d
    <3>1. f = Node("dir", d)
      BY <2>1, <2>2 DEF Known
    <3>2. FindDir(f, x) = FindEntry(s, x) /\ FindDir(f, x)' = FindEntry(Append(s, e), x)
      BY <1>1, <1>3, <2>2 DEF FindDir
    <3>3. /\ FindEntry(Append(s, e), x) = IF EntryAt(s, x) # {} THEN FindEntry(s, x)
                                          ELSE IF e.name = x THEN e.node ELSE NULL
          /\ EntryAt(s, x) = {} => FindEntry(s, x) = NULL
      BY <1>3, EntryAppended
    <3>4. EntryAt(s, x) # {} => FindEntry(s, x) # NULL
      <4>1. PICK i : IsFirst(EntryAt(s, x), i) /\ FindEntry(s, x) = IF i = 0 THEN NULL ELSE s[i].node
        BY <1>4, FindEntryIs
      <4>2. ASSUME EntryAt(s, x) # {} PROVE FindEntry(s, x) # NULL
        <5>1. i \in 1..Len(s) /\ i # 0
          BY <4>1, <4>2 DEF IsFirst, EntryAt
        <5>2. IsEntry(n, home, d, s[i])
          BY <1>1, <5>1 DEF Located
        <5> QED
          BY <4>1, <5>1, <5>2, NodeFacts DEF IsEntry
      <4> QED
        BY <4>2
    <3> QED
      BY <1>2, <3>1, <3>2, <3>3, <3>4
  <2>3. CASE f.kind = "dir" /\ f.obj # d
    <3>1. f # Node("dir", d) /\ f.obj \in 1..n
      BY <2>1, <2>3, NodeFacts DEF Known
    <3> QED
      BY <1>3, <2>3, <3>1 DEF FindDir
  <2>4. CASE f.kind # "dir"
    <3>1. f # Node("dir", d)
      BY <2>4, NodeFacts
    <3>2. devices' = devices
      BY DEF Adds
    <3> QED
      BY <2>4, <3>1, <3>2 DEF FindDir, FindDevice, SelectInSeq
  <2> QED
    BY <2>2, <2>3, <2>4
<1> QED
  BY <1>5, <1>6

\* Where the new name is: where d is, if nothing was there.
New(home, d, name, c) ==
  /\ c = Longer(home[d], name) /\ Lead(home[d]) = Node("dir", d)
  /\ On(c) = 0 /\ Lead(c) = NULL

LEMMA AddsLead ==
  ASSUME Shape, NEW home, NEW path, Located(home, path),
         NEW d \in 1..Len(files), NEW name \in Name, NEW kind \in {"dir", "file"}, Adds(d, name, kind)
  PROVE  \A c \in Comps :
           /\ On(c)' = On(c)
           /\ Lead(c)' = IF New(home, d, name, c) THEN Node(kind, Len(files) + 1) ELSE Lead(c)
<1>1. PICK n : n = Len(files)
  OBVIOUS
<1>2. PICK new : new = Node(kind, n + 1)
  OBVIOUS
<1> DEFINE A == {c \in Comps : On(c)' = On(c) /\ Lead(c)' = IF New(home, d, name, c) THEN new ELSE Lead(c)}
<1>3. Shape' /\ tree' = tree /\ home[d] \in Comps
  BY AddsFiles DEF Adds, Located
<1>4. \A m, x : Child(m, x)' = Child(m, x)
  BY <1>3 DEF Child, SelectInSeq
<1>5. <<>> \in A
  <2>1. On(<<>>) = 1
    BY StepsHold DEF Steps, Starts
  <2> QED
    BY <1>3, <2>1, StepsHold, StepsNext DEF Steps, Starts, New
<1>6. ASSUME NEW c \in Comps, NEW x \in Name, c \in A PROVE Longer(c, x) \in A
  <2>1. GoesOn(c, x) /\ GoesOn(c, x)'
    BY <1>3, StepsHold, StepsNext DEF Steps
  <2> DEFINE l == Longer(c, x)
  <2>2. l \in Comps /\ On(l)' = On(l)
    BY <1>4, <1>6, <2>1 DEF GoesOn
  <2>3. CASE On(l) # 0
    <3>1. ~New(home, d, name, l)
      BY <2>3 DEF New
    <3>2. Lead(l) = tree[On(l)].file /\ Lead(l)' = tree'[On(l)].file
      BY <2>1, <2>2, <2>3 DEF GoesOn
    <3> QED
      BY <1>3, <2>2, <3>1, <3>2
  <2>4. CASE On(l) = 0
    <3>1. PICK f : f = Lead(c)
      OBVIOUS
    <3>2. PICK g : g = Lead(c)'
      OBVIOUS
    <3>3. Lead(l) = FindDir(f, x)
      BY <2>1, <2>4, <3>1 DEF GoesOn
    <3>4. Lead(l)' = FindDir(g, x)'
      <4>1. Lead(l)' = FindDir(Lead(c), x)'
        BY <2>1, <2>2, <2>4 DEF GoesOn
      <4> QED
        BY <3>2, <4>1 DEF FindDir
    <3>5. IsNode(n, f) /\ (f = Node("dir", d) => c = home[d])
      BY <1>1, <3>1, FoundHolds, NodeFacts DEF Found, Placed
    <3>6. l = Longer(home[d], name) => c = home[d] /\ x = name
      BY <1>3, LongerOnce DEF Comps
    <3> HIDE DEF l
    <3>7. CASE New(home, d, name, c)
      <4>1. f = NULL /\ g = new /\ f # Node("dir", d)
        BY <1>6, <3>1, <3>2, <3>7, NodeFacts DEF New
      <4>2. FindDir(g, x)' = NULL /\ FindDir(f, x) = NULL
        <5>1. FindDir(Node(kind, n + 1), x)' = NULL
          BY <1>1, AddsFind
        <5>2. FindDir(f, x) = NULL
          BY <4>1, NodeFacts DEF FindDir
        <5> QED
          BY <1>2, <4>1, <5>1, <5>2
      <4>3. ~New(home, d, name, l)
        BY <3>1, <3>6, <4>1 DEF New
      <4> QED
        BY <2>2, <3>3, <3>4, <4>2, <4>3 DEF l
    <3>8. CASE ~New(home, d, name, c)
      <4>1. g = f
        BY <1>6, <3>1, <3>2, <3>8
      <4>2. FindDir(f, x)' = IF f = Node("dir", d) /\ x = name /\ FindDir(f, x) = NULL THEN new ELSE FindDir(f, x)
        BY <1>1, <1>2, <3>5, AddsFind
      <4>3. New(home, d, name, l) <=> f = Node("dir", d) /\ x = name /\ FindDir(f, x) = NULL
        BY <2>4, <3>1, <3>3, <3>5, <3>6 DEF New, l
      <4> QED
        BY <2>2, <3>3, <3>4, <4>1, <4>2, <4>3 DEF l
    <3> QED
      BY <3>7, <3>8
  <2> QED
    BY <2>3, <2>4
<1> HIDE DEF A
<1>7. Comps \subseteq A
  BY <1>5, <1>6, SeqInduction DEF Comps
<1> QED
  BY <1>1, <1>2, <1>7 DEF A

----------------------------------------------------------------------------
(* Devices                                                                 *)

\* A device is added, under a name no other has.
AddsDevice(name) ==
  /\ ~Contains(devices, name)
  /\ devices' = Append(devices, name)
  /\ UNCHANGED <<tree, files>>

\* FindDeviceIs, for both ends of a step.
DeviceIs ==
  Len(devices) \in Nat =>
    \A x : \E i : /\ IsFirst(NameAt(devices, x), i)
                  /\ FindDevice(x) = IF i = 0 THEN NULL ELSE Node("device", i)

LEMMA DeviceIsNext == DeviceIs'
<1>1. DeviceIs
  BY FindDeviceIs DEF DeviceIs
<1> QED
  BY <1>1, PTL

LEMMA DeviceLocated ==
  ASSUME Shape, NEW home, NEW path, Located(home, path), NEW name \in Names, AddsDevice(name)
  PROVE  /\ Shape' /\ Located(home, path)'
         /\ Len(devices) \in Nat /\ Len(devices') = Len(devices) + 1 /\ devices'[Len(devices) + 1] = name
         /\ \A i \in 1..Len(devices) : devices'[i] = devices[i] /\ devices[i] # name
<1>1. PICK n : n = Len(devices)
  OBVIOUS
<1>2. /\ n \in Nat /\ devices' \in Seq(Names) /\ Len(devices') = n + 1 /\ devices'[n + 1] = name
      /\ \A i \in 1..n : devices'[i] = devices[i]
  BY <1>1, AppendProperties, LenProperties DEF AddsDevice, Shape
<1>3. \A i \in 1..n : devices[i] # name
  BY <1>1 DEF AddsDevice, Contains
<1>4. Shape'
  BY <1>2 DEF Shape, AddsDevice
<1>5. \A i, j \in 1..(n + 1) : devices'[i] = devices'[j] => i = j
  <2> SUFFICES ASSUME NEW i \in 1..(n + 1), NEW j \in 1..(n + 1), devices'[i] = devices'[j] PROVE i = j
    OBVIOUS
  <2>1. \A k \in 1..(n + 1) : k \in 1..n \/ k = n + 1
    BY <1>2
  <2>2. \A k, m \in 1..n : devices[k] = devices[m] => k = m
    BY <1>1 DEF Located
  <2> QED
    BY <1>2, <1>3, <2>1, <2>2
<1>6. Located(home, path)'
  BY <1>2, <1>5 DEF Located, AddsDevice
<1> QED
  BY <1>1, <1>2, <1>3, <1>4, <1>6

\* The device is found in the directory of devices; all else as before.
LEMMA DeviceFind ==
  ASSUME Shape, NEW home, NEW path, Located(home, path), NEW name \in Names, AddsDevice(name),
         NEW n, n = Len(devices), NEW f, NEW x
  PROVE  FindDir(f, x)' = IF f.kind = "devfs" /\ x = name THEN Node("device", n + 1) ELSE FindDir(f, x)
<1>1. /\ n \in Nat /\ Len(devices') = n + 1 /\ devices'[n + 1] = name
      /\ \A i \in 1..n : devices'[i] = devices[i] /\ devices[i] # name
  BY DeviceLocated
<1>2. CASE f.kind # "devfs"
  BY <1>2 DEF FindDir, AddsDevice
<1>3. CASE f.kind = "devfs"
  <2>1. FindDir(f, x) = FindDevice(x) /\ FindDir(f, x)' = FindDevice(x)'
    BY <1>3 DEF FindDir
  <2>2. PICK i : IsFirst(NameAt(devices, x), i) /\ FindDevice(x) = IF i = 0 THEN NULL ELSE Node("device", i)
    BY <1>1, FindDeviceIs
  <2>3. PICK j : IsFirst(NameAt(devices', x), j) /\ FindDevice(x)' = IF j = 0 THEN NULL ELSE Node("device", j)
    BY <1>1, DeviceIsNext DEF DeviceIs
  <2> DEFINE I == NameAt(devices, x)
             J == IF x = name THEN {n + 1} ELSE {}
  <2>4. NameAt(devices', x) = I \cup J
    <3>1. 1..(n + 1) = 1..n \cup {n + 1}
      BY <1>1
    <3> QED
      BY <1>1, <3>1 DEF NameAt
  <2>5. I \subseteq 1..n /\ (x = name => I = {})
    BY <1>1 DEF NameAt
  <2>6. \A k \in J : k \in Nat /\ n < k
    BY <1>1
  <2>7. J # {} <=> x = name
    OBVIOUS
  <2>8. IsFirst(J, j) => j = IF x = name THEN n + 1 ELSE 0
    BY DEF IsFirst
  <2>9. IsFirst(I, i) /\ IsFirst(I \cup J, j)
    BY <2>2, <2>3, <2>4
  <2> HIDE DEF I, J
  <2>10. (i # 0 => j = i) /\ (i = 0 => IsFirst(J, j))
    BY <1>1, <2>5, <2>6, <2>9, FirstLonger, ZenonT(40)
  <2>11. (x = name => i = 0) /\ n + 1 # 0
    BY <1>1, <2>5, <2>9 DEF IsFirst
  <2> QED
    BY <1>3, <2>1, <2>2, <2>3, <2>8, <2>10, <2>11
<1> QED
  BY <1>2, <1>3

\* A path that led nowhere leads to the device; all others where they led.
NewDevice(name, c) == /\ Lead(c) = NULL /\ On(c) = 0
                      /\ \E b \in Comps : c = Longer(b, name) /\ Lead(b) = DevRoot

LEMMA DeviceLead ==
  ASSUME Shape, NEW home, NEW path, Located(home, path), NEW name \in Names, AddsDevice(name)
  PROVE  \A c \in Comps :
           \/ Lead(c)' = Lead(c)
           \/ NewDevice(name, c) /\ Lead(c)' = Node("device", Len(devices) + 1)
<1>1. PICK n : n = Len(devices)
  OBVIOUS
<1>2. PICK new : new = Node("device", n + 1)
  OBVIOUS
<1> DEFINE A == {c \in Comps : /\ On(c)' = On(c)
                               /\ Lead(c)' = Lead(c) \/ (NewDevice(name, c) /\ Lead(c)' = new)}
<1>3. /\ Shape' /\ tree' = tree /\ files' = files /\ name \in Name
      /\ n \in Nat /\ \A i \in 1..n : devices[i] # name
  BY <1>1, DeviceLocated DEF AddsDevice, Name
<1>4. \A m, x : Child(m, x)' = Child(m, x)
  BY <1>3 DEF Child, SelectInSeq
<1>5. <<>> \in A
  BY <1>3, StepsHold, StepsNext DEF Steps, Starts
<1>6. ASSUME NEW c \in Comps, NEW x \in Name, c \in A PROVE Longer(c, x) \in A
  <2>1. GoesOn(c, x) /\ GoesOn(c, x)'
    BY <1>3, StepsHold, StepsNext DEF Steps
  <2> DEFINE l == Longer(c, x)
  <2>2. l \in Comps /\ On(l)' = On(l)
    BY <1>4, <1>6, <2>1 DEF GoesOn
  <2>3. CASE On(l) # 0
    <3>1. Lead(l) = tree[On(l)].file /\ Lead(l)' = tree'[On(l)].file
      BY <2>1, <2>2, <2>3 DEF GoesOn
    <3> QED
      BY <1>3, <2>2, <3>1
  <2>4. CASE On(l) = 0
    <3>1. PICK f : f = Lead(c)
      OBVIOUS
    <3>2. PICK g : g = Lead(c)'
      OBVIOUS
    <3>3. Lead(l) = FindDir(f, x)
      BY <2>1, <2>4, <3>1 DEF GoesOn
    <3>4. Lead(l)' = FindDir(g, x)'
      <4>1. Lead(l)' = FindDir(Lead(c), x)'
        BY <2>1, <2>2, <2>4 DEF GoesOn
      <4> QED
        BY <3>2, <4>1 DEF FindDir
    <3>5. IsNode(Len(files), f)
      BY <3>1, FoundHolds DEF Found, Placed
    <3>6. FindDir(g, x)' = IF g.kind = "devfs" /\ x = name THEN new ELSE FindDir(g, x)
      BY <1>1, <1>2, DeviceFind
    <3>7. CASE g = new /\ f = NULL
      <4>1. FindDir(g, x)' = NULL /\ FindDir(f, x) = NULL
        BY <1>2, <3>6, <3>7, NodeFacts DEF FindDir
      <4> QED
        BY <2>2, <3>3, <3>4, <4>1
    <3>8. CASE g = f
      <4>1. CASE f.kind = "devfs" /\ x = name
        <5>1. f = DevRoot
          BY <3>5, <4>1, NodeKinds DEF Known
        <5>2. FindDir(f, x) = NULL
          <6>1. NameAt(devices, x) = {}
            BY <1>1, <1>3, <4>1 DEF NameAt
          <6>2. FindDevice(x) = NULL
            BY <1>1, <1>3, <6>1, FindDeviceIs DEF IsFirst
          <6> QED
            BY <4>1, <6>2 DEF FindDir
        <5>3. NewDevice(name, l)
          BY <2>4, <3>1, <3>3, <4>1, <5>1, <5>2 DEF NewDevice
        <5> QED
          BY <2>2, <3>4, <3>6, <3>8, <4>1, <5>3
      <4>2. CASE ~(f.kind = "devfs" /\ x = name)
        BY <2>2, <3>3, <3>4, <3>6, <3>8, <4>2
      <4> QED
        BY <4>1, <4>2
    <3>9. g = f \/ (g = new /\ f = NULL)
      BY <1>6, <3>1, <3>2 DEF NewDevice
    <3> QED
      BY <3>7, <3>8, <3>9
  <2> QED
    BY <2>3, <2>4
<1> HIDE DEF A
<1>7. Comps \subseteq A
  BY <1>5, <1>6, SeqInduction DEF Comps
<1> QED
  BY <1>1, <1>2, <1>7 DEF A

----------------------------------------------------------------------------
(* Mounts                                                                  *)

\* A path lies below itself, and so does a longer one.
LEMMA PrefixSelf == ASSUME NEW S, NEW q \in Seq(S) PROVE IsPrefix(q, q)
<1>1. Len(q) \in Nat
  BY LenProperties
<1> QED
  BY <1>1 DEF IsPrefix

LEMMA PrefixLonger ==
  ASSUME NEW S, NEW q \in Seq(S), NEW c \in Seq(S), NEW x \in S, IsPrefix(q, c)
  PROVE  IsPrefix(q, Longer(c, x))
<1> DEFINE l == Longer(c, x)
           n == Len(q)
<1>1. /\ n \in Nat /\ Len(c) \in Nat /\ Len(l) = Len(c) + 1 /\ l \in Seq(S)
      /\ \A i \in 1..Len(c) : l[i] = c[i]
  BY LongerIs, LenProperties
<1>2. n <= Len(c) /\ SubSeq(q, 1, n) = SubSeq(c, 1, n)
  BY DEF IsPrefix
<1> HIDE DEF l, n
<1>3. \A i \in 1..n : c[i] \in S /\ l[i] = c[i]
  <2>1. \A i \in 1..Len(c) : c[i] \in S
    BY ElementOfSeq
  <2> QED
    BY <1>1, <1>2, <2>1
<1>4. /\ SubSeq(c, 1, n) \in Seq(S) /\ Len(SubSeq(c, 1, n)) = IF 1 <= n THEN n - 1 + 1 ELSE 0
      /\ \A i \in 1..(n - 1 + 1) : SubSeq(c, 1, n)[i] = c[1 + i - 1]
  BY <1>1, <1>3, SubSeqProperties
<1>5. /\ SubSeq(l, 1, n) \in Seq(S) /\ Len(SubSeq(l, 1, n)) = IF 1 <= n THEN n - 1 + 1 ELSE 0
      /\ \A i \in 1..(n - 1 + 1) : SubSeq(l, 1, n)[i] = l[1 + i - 1]
  <2>1. \A i \in 1..n : l[i] \in S
    BY <1>3
  <2> QED
    BY <1>1, <2>1, SubSeqProperties
<1> DEFINE s == SubSeq(c, 1, n)
           t == SubSeq(l, 1, n)
<1> HIDE DEF s, t
<1>6. /\ s \in Seq(S) /\ t \in Seq(S) /\ Len(s) = n /\ Len(t) = n
      /\ \A i \in 1..n : s[i] = t[i]
  <2>1. \A i \in 1..n : i \in 1..(n - 1 + 1) /\ 1 + i - 1 = i
    BY <1>1
  <2> QED
    BY <1>1, <1>3, <1>4, <1>5, <2>1 DEF s, t
<1>7. s = t
  BY <1>6, SeqEqual
<1> QED
  BY <1>1, <1>2, <1>7 DEF IsPrefix, s, t, l, n

\* The node the mount tree leads to is on the way, and has no child that goes
\* on with the first component left over.
Deep(path, c) ==
  /\ Deepest(c).node \in 1..Len(tree) /\ Deepest(c).rest \in Comps
  /\ On(path[Deepest(c).node]) = Deepest(c).node
  /\ Deepest(c).rest = <<>> => path[Deepest(c).node] = c
  /\ Deepest(c).rest # <<>> => Child(Deepest(c).node, Deepest(c).rest[1]) = 0
  /\ Len(Deepest(c).rest) = 1 => c = Longer(path[Deepest(c).node], Deepest(c).rest[1])

LEMMA DeepestFound ==
  ASSUME Shape, NEW home, NEW path, Located(home, path)
  PROVE  \A c \in Comps : Deep(path, c)
<1> DEFINE A == {c \in Comps : Deep(path, c)}
<1>1. Len(tree) \in Nat \ {0} /\ path[1] = <<>>
  BY DEF Shape, Located
<1>2. <<>> \in A
  <2>1. /\ Deepest(<<>>).node = 1 /\ Deepest(<<>>).rest = <<>> /\ Len(<<>>) = 0
        /\ On(<<>>) = 1 /\ <<>> \in Comps
    BY DeepestNone, EmptySeq, StepsHold DEF Steps, Starts
  <2> QED
    BY <1>1, <2>1 DEF Deep
<1>3. ASSUME NEW c \in Comps, NEW x \in Name, c \in A PROVE Longer(c, x) \in A
  <2>1. PICK n \in 1..Len(tree), r \in Comps : Deepest(c) = [node |-> n, rest |-> r]
    BY LookupsHold DEF Lookups
  <2>2. Deepest(Longer(c, x)) = Down([node |-> n, rest |-> r], x)
    BY <2>1, DeepestLonger DEF Comps
  <2>3. GoesOn(c, x)
    BY StepsHold DEF Steps
  <2>4. /\ Longer(r, x) # <<>> /\ Len(Longer(r, x)) = Len(r) + 1 /\ Longer(r, x) \in Comps
        /\ Len(r) \in Nat /\ (\A i \in 1..Len(r) : Longer(r, x)[i] = r[i]) /\ Longer(r, x)[Len(r) + 1] = x
        /\ Longer(c, x) \in Comps
    BY LongerIs DEF Comps
  <2>5. /\ On(path[n]) = n /\ (r = <<>> => path[n] = c)
        /\ r # <<>> => Child(n, r[1]) = 0
    BY <1>3, <2>1 DEF Deep
  <2>6. CASE r = <<>> /\ Child(n, x) # 0
    <3>1. PICK m : m = Child(n, x)
      OBVIOUS
    <3>2. Deepest(Longer(c, x)) = [node |-> m, rest |-> <<>>]
      BY <2>2, <2>6, <3>1, DownIs
    <3>3. On(Longer(c, x)) = m /\ m \in 1..Len(tree) /\ m # 0
      BY <1>1, <2>1, <2>3, <2>5, <2>6, <3>1 DEF GoesOn
    <3>4. path[m] = Longer(c, x)
      BY <2>4, <3>3, FoundHolds DEF Found
    <3>5. <<>> \in Comps /\ Len(<<>>) = 0
      BY EmptySeq DEF Comps
    <3> QED
      BY <2>4, <3>2, <3>3, <3>4, <3>5 DEF Deep
  <2>7. CASE ~(r = <<>> /\ Child(n, x) # 0)
    <3>1. Deepest(Longer(c, x)) = [node |-> n, rest |-> Longer(r, x)]
      BY <2>2, <2>7, DownIs
    <3>2. CASE r = <<>>
      <4>1. Len(r) = 0 /\ Longer(r, x)[1] = x /\ path[n] = c
        BY <2>4, <2>5, <3>2, EmptySeq
      <4> QED
        BY <2>4, <2>5, <2>7, <3>1, <3>2, <4>1 DEF Deep
    <3>3. CASE r # <<>>
      <4>1. Len(r) # 0
        BY <3>3, EmptySeq DEF Comps
      <4>2. Longer(r, x)[1] = r[1] /\ Len(Longer(r, x)) # 1
        BY <2>4, <4>1
      <4>3. Deepest(Longer(c, x)).node = n /\ Deepest(Longer(c, x)).rest = Longer(r, x)
        BY <3>1
      <4>4. Deep(path, Longer(c, x))
        BY <2>4, <2>5, <3>3, <4>2, <4>3 DEF Deep
      <4> QED
        BY <2>4, <4>4
    <3> QED
      BY <3>2, <3>3
  <2> QED
    BY <2>6, <2>7
<1> HIDE DEF A
<1>4. Comps \subseteq A
  BY <1>2, <1>3, SeqInduction DEF Comps
<1> QED
  BY <1>4 DEF A

\* tmpfs gets a directory more at most.
LEMMA FindStays ==
  ASSUME Shape, devices' = devices, files' = files \/ files' = Append(files, <<>>),
         NEW f, IsNode(Len(files), f), NEW x
  PROVE  FindDir(f, x)' = FindDir(f, x)
<1>1. \A d \in 1..Len(files) : files'[d] = files[d]
  BY FilesAppended
<1>2. f.kind = "dir" => f.obj \in 1..Len(files)
  BY NodeKinds DEF Known
<1> QED
  BY <1>1, <1>2 DEF FindDir, FindDevice, SelectInSeq

\* root is the root a driver gives.
MountsRoot(root) ==
  /\ devices' = devices
  /\ \/ root = DevRoot /\ files' = files
     \/ root = Node("dir", Len(files) + 1) /\ files' = Append(files, <<>>)

\* The places of tmpfs with root at q.
Homes(home, q, root, more) ==
  /\ Extends(Len(files), home, Len(files'), more) /\ Placed(Len(files'), more, q, root)
  /\ files' \in Seq(Seq(Entries)) /\ root \in Records
  /\ root # NULL /\ root.kind \in {"dir", "devfs"}
  /\ \A f : IsNode(Len(files), f) /\ f # DevRoot => f # root
  /\ \A d \in 1..Len(files') : /\ Len(files'[d]) <= Len(files')
                               /\ \A i \in 1..Len(files'[d]) : IsEntry(Len(files'), more, d, files'[d][i])

LEMMA HomesAre ==
  ASSUME Shape, NEW home, NEW path, Located(home, path), NEW root, MountsRoot(root), NEW q \in Comps
  PROVE  \E more : Homes(home, q, root, more)
<1>1. PICK n : n = Len(files)
  OBVIOUS
<1>2. PICK m : m = Len(files')
  OBVIOUS
<1>3. /\ n \in Nat /\ m \in Nat /\ n <= m /\ (\A d \in 1..n : files'[d] = files[d])
      /\ files' = Append(files, <<>>) => m = n + 1 /\ files'[n + 1] = <<>>
      /\ files' = files => m = n
  BY <1>1, <1>2, FilesAppended DEF MountsRoot
<1> DEFINE more == [o \in 1..m |-> IF o \in 1..n THEN home[o] ELSE q]
<1>4. home \in [1..n -> Comps]
  BY <1>1 DEF Located
<1>5. more \in [1..m -> Comps]
  BY <1>4
<1>6. Extends(n, home, m, more)
  BY <1>3, <1>4, <1>5 DEF Extends
<1>7. files' = Append(files, <<>>) => more[n + 1] = q
  BY <1>3
<1> HIDE DEF more
<1>8. files' \in Seq(Seq(Entries))
  <2> DEFINE S == Seq(Entries)
  <2>1. files \in Seq(S) /\ <<>> \in S
    BY EmptySeq DEF Shape, Entries
  <2>2. files' = files \/ files' = Append(files, <<>>)
    BY DEF MountsRoot
  <2> HIDE DEF S
  <2>3. files' \in Seq(S)
    BY <2>1, <2>2, AppendProperties
  <2> QED
    BY <2>3 DEF S
<1>9. ASSUME NEW d \in 1..m
      PROVE  Len(files'[d]) <= m /\ \A i \in 1..Len(files'[d]) : IsEntry(m, more, d, files'[d][i])
  <2>1. CASE d \in 1..n
    <3>1. Len(files[d]) <= n /\ \A i \in 1..Len(files[d]) : IsEntry(n, home, d, files[d][i])
      BY <1>1, <2>1 DEF Located
    <3>2. files[d] \in Seq(Entries)
      BY <1>1, <2>1, ElementOfSeq DEF Shape, Entries
    <3>3. Len(files[d]) \in Nat
      BY <3>2, LenProperties
    <3>4. \A i \in 1..Len(files[d]) : IsEntry(m, more, d, files[d][i])
      BY <1>6, <2>1, <3>1, EntryStays
    <3> QED
      BY <1>3, <2>1, <3>1, <3>3, <3>4
  <2>2. CASE d \notin 1..n
    <3>1. Len(files'[d]) = 0
      BY <1>3, <2>2, EmptySeq DEF MountsRoot
    <3> QED
      BY <1>3, <3>1
  <2> QED
    BY <2>1, <2>2
<1>10. CASE root = DevRoot /\ files' = files
  <2>1. root \in Records
    BY <1>10 DEF DevRoot, Node, Records
  <2>2. root # NULL /\ root.kind = "devfs" /\ IsNode(m, root)
    BY <1>10, NodeFacts DEF IsNode
  <2>3. Placed(m, more, q, root)
    BY <2>2 DEF Placed
  <2> QED
    BY <1>1, <1>2, <1>6, <1>8, <1>9, <1>10, <2>1, <2>2, <2>3 DEF Homes
<1>11. CASE root = Node("dir", n + 1) /\ files' = Append(files, <<>>)
  <2>1. root \in Records
    BY <1>3, <1>11 DEF Node, Records
  <2>2. n + 1 \in 1..m
    BY <1>3, <1>11
  <2>3. root # NULL /\ root.kind = "dir" /\ root.obj = n + 1 /\ IsNode(m, root)
    BY <1>11, <2>2, NodeFacts DEF IsNode
  <2>4. Placed(m, more, q, root)
    BY <1>7, <1>11, <2>3 DEF Placed
  <2>5. ASSUME NEW f, IsNode(n, f) PROVE f # root
    <3>1. f.kind = "dir" => f.obj \in 1..n
      BY <2>5, NodeKinds DEF Known
    <3> QED
      BY <1>3, <2>3, <3>1
  <2> QED
    BY <1>1, <1>2, <1>6, <1>8, <1>9, <2>1, <2>3, <2>4, <2>5 DEF Homes
<1> QED
  BY <1>1, <1>10, <1>11 DEF MountsRoot

\* A mount at a node of the mount tree: the root takes the place of its file.
MountsHere(path, q, root) ==
  /\ q \in Comps /\ On(q) # 0 /\ path[On(q)] = q
  /\ tree' = [tree EXCEPT ![On(q)].file = root]
  /\ MountsRoot(root)

LEMMA HereTree ==
  ASSUME Shape, NEW home, NEW path, NEW q, NEW root, root \in Records, MountsHere(path, q, root),
         files' \in Seq(Seq(Entries))
  PROVE  /\ Shape' /\ Len(tree') = Len(tree) /\ On(q) \in 1..Len(tree)
         /\ \A m \in 1..Len(tree) : /\ tree'[m].parent = tree[m].parent /\ tree'[m].name = tree[m].name
                                    /\ tree'[m].file = IF m = On(q) THEN root ELSE tree[m].file
<1> DEFINE T == [parent : Nat, name : Name, file : Records]
           n == On(q)
<1>1. tree \in Seq(T) /\ Len(tree) \in Nat \ {0}
  BY DEF Shape
<1>2. n \in 1..Len(tree)
  BY <1>1, LookupsHold DEF Lookups, MountsHere
<1> HIDE DEF n
<1>3. tree[n] \in T /\ [tree[n] EXCEPT !.file = root] \in T
  <2>1. tree[n] \in T
    <3> HIDE DEF T
    <3> QED
      BY <1>1, <1>2, ElementOfSeq
  <2> QED
    BY <2>1
<1> DEFINE e == [tree[n] EXCEPT !.file = root]
<1>4. e.parent = tree[n].parent /\ e.name = tree[n].name /\ e.file = root
  BY <1>3
<1>5. tree' = [tree EXCEPT ![n] = e]
  BY DEF MountsHere, n
<1>6. e \in T
  BY <1>3
<1> HIDE DEF T, e
<1>7. /\ tree' \in Seq(T) /\ Len(tree') = Len(tree)
      /\ \A m \in 1..Len(tree) : tree'[m] = IF m = n THEN e ELSE tree[m]
  BY <1>1, <1>2, <1>5, <1>6, ExceptSeq
<1>8. Shape'
  <2>1. devices' = devices /\ devices \in Seq(Names)
    BY DEF MountsHere, MountsRoot, Shape
  <2> QED
    BY <1>1, <1>7, <2>1 DEF Shape, T, Entries
<1> QED
  BY <1>2, <1>4, <1>7, <1>8 DEF n

LEMMA HereLocated ==
  ASSUME Shape, NEW home, NEW path, Located(home, path), NEW q, NEW root, MountsHere(path, q, root)
  PROVE  Shape' /\ \E more : Located(more, path)'
<1>1. PICK more : Homes(home, q, root, more)
  BY HomesAre DEF MountsHere
<1>2. PICK n : n = Len(files)
  OBVIOUS
<1>3. PICK m : m = Len(files')
  OBVIOUS
<1>4. PICK t : t = Len(tree)
  OBVIOUS
<1>5. PICK o : o = On(q)
  OBVIOUS
<1>6. /\ Shape' /\ Len(tree') = t /\ o \in 1..t /\ t \in Nat
      /\ \A k \in 1..t : /\ tree'[k].parent = tree[k].parent /\ tree'[k].name = tree[k].name
                         /\ tree'[k].file = IF k = o THEN root ELSE tree[k].file
  <2>1. root \in Records /\ files' \in Seq(Seq(Entries))
    BY <1>1 DEF Homes
  <2>2. /\ Shape' /\ Len(tree') = Len(tree) /\ On(q) \in 1..Len(tree)
        /\ \A k \in 1..Len(tree) : /\ tree'[k].parent = tree[k].parent /\ tree'[k].name = tree[k].name
                                   /\ tree'[k].file = IF k = On(q) THEN root ELSE tree[k].file
    BY <2>1, HereTree
  <2> QED
    BY <1>4, <1>5, <2>2 DEF Shape
<1>7. /\ home \in [1..n -> Comps] /\ path \in [1..t -> Comps] /\ path[1] = <<>> /\ tree[1].parent = 0
      /\ \A k \in 1..t : Placed(n, home, path[k], tree[k].file)
      /\ \A k \in 2..t : /\ tree[k].file # NULL /\ tree[k].parent \in 1..(k - 1)
                         /\ path[k] = Longer(path[tree[k].parent], tree[k].name)
      /\ \A i, j \in 1..Len(devices) : devices[i] = devices[j] => i = j
  BY <1>2, <1>4 DEF Located
<1>8. /\ Extends(n, home, m, more) /\ Placed(m, more, q, root) /\ root # NULL
      /\ \A d \in 1..m : /\ Len(files'[d]) <= m
                         /\ \A i \in 1..Len(files'[d]) : IsEntry(m, more, d, files'[d][i])
  BY <1>1, <1>2, <1>3 DEF Homes
<1>9. path[o] = q /\ devices' = devices
  BY <1>5 DEF MountsHere, MountsRoot
<1>10. ASSUME NEW k \in 1..t PROVE Placed(m, more, path[k], tree'[k].file)
  <2>1. Placed(m, more, path[k], tree[k].file)
    BY <1>7, <1>8, PlacedStays
  <2> QED
    BY <1>6, <1>8, <1>9, <2>1
<1>11. \A k \in 2..t : /\ tree'[k].file # NULL /\ tree'[k].parent \in 1..(k - 1)
                       /\ path[k] = Longer(path[tree'[k].parent], tree'[k].name)
  BY <1>6, <1>7, <1>8
<1>12. more \in [1..m -> Comps] /\ tree'[1].parent = 0
  BY <1>6, <1>7, <1>8 DEF Extends
<1>13. Located(more, path)'
  BY <1>3, <1>6, <1>7, <1>8, <1>9, <1>10, <1>11, <1>12 DEF Located
<1> QED
  BY <1>6, <1>13

\* Only what lies at the place mounted at and below it may change.
LEMMA HereLead ==
  ASSUME Shape, NEW home, NEW path, Located(home, path), NEW q, NEW root, MountsHere(path, q, root)
  PROVE  /\ Lead(q)' = root
         /\ \A c \in Comps : IsPrefix(q, c) \/ Lead(c)' = Lead(c)
<1>1. PICK o : o = On(q)
  OBVIOUS
<1>2. PICK more : Homes(home, q, root, more)
  BY HomesAre DEF MountsHere
<1>3. /\ Shape' /\ Len(tree') = Len(tree) /\ o \in 1..Len(tree) /\ Len(tree) \in Nat
      /\ \A k \in 1..Len(tree) : /\ tree'[k].parent = tree[k].parent /\ tree'[k].name = tree[k].name
                                 /\ tree'[k].file = IF k = o THEN root ELSE tree[k].file
  <2>1. root \in Records /\ files' \in Seq(Seq(Entries))
    BY <1>2 DEF Homes
  <2> QED
    <3>1. Len(tree) \in Nat
      BY DEF Shape
    <3>2. /\ Shape' /\ Len(tree') = Len(tree) /\ On(q) \in 1..Len(tree)
          /\ \A k \in 1..Len(tree) : /\ tree'[k].parent = tree[k].parent /\ tree'[k].name = tree[k].name
                                     /\ tree'[k].file = IF k = On(q) THEN root ELSE tree[k].file
      BY <2>1, HereTree
    <3> QED
      BY <1>1, <3>1, <3>2
<1>4. /\ q \in Comps /\ path[o] = q /\ devices' = devices
      /\ files' = files \/ files' = Append(files, <<>>)
  BY <1>1 DEF MountsHere, MountsRoot
<1>5. \A n, x : Child(n, x)' = Child(n, x)
  <2> SUFFICES ASSUME NEW n, NEW x PROVE Child(n, x)' = Child(n, x)
    OBVIOUS
  <2>1. ChildAt(tree', n, x) = ChildAt(tree, n, x)
    BY <1>3 DEF ChildAt
  <2>2. IsFirst(ChildAt(tree, n, x), Child(n, x)) /\ IsFirst(ChildAt(tree', n, x), Child(n, x)')
    BY <1>3, LookupsHold, LookupsNext DEF Lookups
  <2>3. ChildAt(tree, n, x) \subseteq Nat
    BY DEF ChildAt
  <2> QED
    BY <2>1, <2>2, <2>3, FirstOnce
<1> DEFINE A == {c \in Comps : On(c)' = On(c) /\ (IsPrefix(q, c) \/ Lead(c)' = Lead(c))}
<1>6. <<>> \in A
  <2>1. On(<<>>)' = 1 /\ On(<<>>) = 1 /\ <<>> \in Comps
        /\ Lead(<<>>) = tree[1].file /\ Lead(<<>>)' = tree'[1].file
    BY <1>3, StepsHold, StepsNext DEF Steps, Starts
  <2>2. CASE o = 1
    BY <1>4, <2>1, <2>2, PrefixSelf DEF Located, Comps
  <2>3. CASE o # 1
    BY <1>3, <2>1, <2>3
  <2> QED
    BY <2>2, <2>3
<1>7. ASSUME NEW c \in Comps, NEW x \in Name, c \in A PROVE Longer(c, x) \in A
  <2>1. GoesOn(c, x) /\ GoesOn(c, x)'
    BY <1>3, StepsHold, StepsNext DEF Steps
  <2>2. Longer(c, x) \in Comps /\ On(Longer(c, x))' = On(Longer(c, x))
    BY <1>5, <1>7, <2>1 DEF GoesOn
  <2>3. CASE IsPrefix(q, c)
    BY <1>4, <2>2, <2>3, PrefixLonger DEF Comps
  <2>4. CASE ~IsPrefix(q, c)
    <3>1. Lead(c)' = Lead(c)
      BY <1>7, <2>4
    <3>2. CASE On(Longer(c, x)) = o
      <4>1. Longer(c, x) = q
        BY <1>3, <1>4, <2>2, <3>2, FoundHolds DEF Found
      <4> QED
        BY <1>4, <2>2, <4>1, PrefixSelf DEF Comps
    <3>3. CASE On(Longer(c, x)) # o /\ On(Longer(c, x)) # 0
      <4>1. PICK k : k = On(Longer(c, x))
        OBVIOUS
      <4>2. k \in 1..Len(tree) /\ Lead(Longer(c, x)) = tree[k].file /\ Lead(Longer(c, x))' = tree'[k].file
        BY <1>3, <2>1, <2>2, <3>3, <4>1 DEF GoesOn
      <4> QED
        BY <1>3, <2>2, <3>3, <4>1, <4>2
    <3>4. CASE On(Longer(c, x)) = 0
      <4>1. PICK f : f = Lead(c)
        OBVIOUS
      <4>2. Lead(Longer(c, x)) = FindDir(f, x) /\ Lead(Longer(c, x))' = FindDir(f, x)'
        <5>1. Lead(Longer(c, x))' = FindDir(Lead(c), x)'
          BY <2>1, <2>2, <3>4 DEF GoesOn
        <5>2. Lead(c)' = f
          BY <3>1, <4>1
        <5>3. FindDir(Lead(c), x)' = FindDir(f, x)'
          BY <5>2 DEF FindDir
        <5> QED
          BY <2>1, <3>4, <4>1, <5>1, <5>3 DEF GoesOn
      <4>3. IsNode(Len(files), f)
        BY <4>1, FoundHolds DEF Found, Placed
      <4>4. FindDir(f, x)' = FindDir(f, x)
        BY <1>4, <4>3, FindStays
      <4> QED
        BY <2>2, <4>2, <4>4
    <3> QED
      BY <3>2, <3>3, <3>4
  <2> QED
    BY <2>3, <2>4
<1> HIDE DEF A
<1>8. Comps \subseteq A
  BY <1>6, <1>7, SeqInduction DEF Comps
<1>9. Lead(q)' = root
  <2>1. On(q)' = o /\ o # 0
    BY <1>1, <1>3, <1>4, <1>8 DEF A
  <2>2. Lead(q)' = tree'[o].file
    BY <1>3, <1>4, <2>1, LookupsNext DEF Lookups
  <2> QED
    BY <1>3, <2>2
<1> QED
  BY <1>8, <1>9 DEF A

\* g is the way from p down along the names.
Way(p, names, n, g) == g = [k \in 0..n |-> IF k = 0 THEN p ELSE Longer(g[k - 1], names[k])]

LEMMA WayIs ==
  ASSUME NEW p \in Comps, NEW names \in Comps
  PROVE  \E g : /\ Len(names) \in Nat
                /\ g \in [0..Len(names) -> Comps] /\ g[0] = p
                /\ \A k \in 1..Len(names) : g[k] = Longer(g[k - 1], names[k])
<1>1. Len(names) \in Nat /\ \A k \in 1..Len(names) : names[k] \in Name
  BY LenProperties, ElementOfSeq DEF Comps
<1> DEFINE L == Len(names)
           A == {n \in 0..L : \E g : g \in [0..n -> Comps] /\ g[0] = p
                                     /\ \A k \in 1..n : g[k] = Longer(g[k - 1], names[k])}
<1>2. 0 \in A
  <2> DEFINE g == [k \in 0..0 |-> p]
  <2>1. g \in [0..0 -> Comps] /\ g[0] = p /\ \A k \in 1..0 : g[k] = Longer(g[k - 1], names[k])
    OBVIOUS
  <2> HIDE DEF g
  <2> QED
    BY <1>1, <2>1
<1>3. ASSUME NEW i \in 1..L, i - 1 \in A PROVE i \in A
  <2>1. PICK f : f \in [0..(i - 1) -> Comps] /\ f[0] = p /\ \A k \in 1..(i - 1) : f[k] = Longer(f[k - 1], names[k])
    BY <1>3
  <2>2. PICK e : e = Longer(f[i - 1], names[i])
    OBVIOUS
  <2>3. e \in Comps
    <3>1. f[i - 1] \in Comps /\ names[i] \in Name
      BY <1>1, <2>1
    <3> QED
      BY <2>2, <3>1, LongerIs DEF Comps
  <2> DEFINE g == [k \in 0..i |-> IF k = i THEN e ELSE f[k]]
  <2>4. g \in [0..i -> Comps] /\ g[0] = p
    BY <1>1, <2>1, <2>3
  <2>5. ASSUME NEW k \in 1..i PROVE g[k] = Longer(g[k - 1], names[k])
    BY <1>1, <2>1, <2>2
  <2> HIDE DEF g
  <2> QED
    BY <1>1, <2>4, <2>5
<1> HIDE DEF A
<1>4. 0..L \subseteq A
  BY <1>1, <1>2, <1>3, InductionUpTo
<1>5. L \in A
  BY <1>1, <1>4
<1> QED
  BY <1>1, <1>5 DEF A

\* A mount below the node n of the mount tree: nodes for the names are added.
MountsBelow(path, n, names, root) ==
  /\ n \in 1..Len(tree) /\ On(path[n]) = n
  /\ names \in Comps /\ names # <<>> /\ \A k \in 2..Len(names) : names[k] = Empty
  /\ Child(n, names[1]) = 0
  /\ \A k \in 1..Len(names) : Follow(tree[n].file, names)[k] # NULL
  /\ tree' = tree \o Added(n, names, root)
  /\ MountsRoot(root)

\* What finddir finds along the names, from p on, is in its place.
LEMMA FollowFound ==
  ASSUME Shape, NEW home, NEW path, Located(home, path), NEW names \in Comps,
         NEW f, NEW g \in [0..Len(names) -> Comps], Placed(Len(files), home, g[0], f),
         \A k \in 1..Len(names) : g[k] = Longer(g[k - 1], names[k])
  PROVE  /\ Follow(f, names)[0] = f
         /\ \A k \in 1..Len(names) : Follow(f, names)[k] = FindDir(Follow(f, names)[k - 1], names[k])
         /\ \A k \in 0..Len(names) : Placed(Len(files), home, g[k], Follow(f, names)[k])
<1> DEFINE F == Follow(f, names)
           L == Len(names)
           A == {k \in 0..L : Placed(Len(files), home, g[k], F[k])}
<1>1. L \in Nat /\ \A k \in 1..L : names[k] \in Name
  BY LenProperties, ElementOfSeq DEF Comps
<1>2. F[0] = f /\ \A k \in 1..L : F[k] = FindDir(F[k - 1], names[k])
  <2>1. Walk(f, names, L, F)
    BY <1>1, FollowIs
  <2> HIDE DEF F
  <2> QED
    BY <1>1, <2>1 DEF Walk
<1> HIDE DEF F, L
<1>3. 0 \in A
  BY <1>1, <1>2
<1>4. ASSUME NEW k \in 1..L, k - 1 \in A PROVE k \in A
  <2>1. g[k - 1] \in Comps /\ names[k] \in Name /\ g[k] = Longer(g[k - 1], names[k])
    BY <1>1 DEF L
  <2>2. Placed(Len(files), home, g[k - 1], F[k - 1])
    BY <1>4
  <2>3. Placed(Len(files), home, Longer(g[k - 1], names[k]), FindDir(F[k - 1], names[k]))
    BY <2>1, <2>2, FindDirFound
  <2> QED
    BY <1>1, <1>2, <2>1, <2>3
<1> HIDE DEF A
<1>5. 0..L \subseteq A
  BY <1>1, <1>3, <1>4, InductionUpTo
<1> QED
  BY <1>2, <1>5 DEF A, F, L

\* The node added at position k behind the t nodes there are.
IsAdded(t, n, names, root, F, k, e) ==
  /\ e.parent = IF k = 1 THEN n ELSE t + k - 1
  /\ e.name = names[k]
  /\ e.file = IF k = Len(names) THEN root ELSE F[k]

LEMMA BelowTree ==
  ASSUME Shape, NEW path, NEW n, NEW names, NEW root, MountsBelow(path, n, names, root),
         root \in Records, files' \in Seq(Seq(Entries)), NEW F, F = Follow(tree[n].file, names),
         \A k \in 1..Len(names) : F[k] \in Records
  PROVE  /\ Shape' /\ Len(names) \in Nat /\ Len(names) # 0 /\ Len(tree') = Len(tree) + Len(names)
         /\ \A i \in 1..Len(tree) : tree'[i] = tree[i]
         /\ \A k \in 1..Len(names) : IsAdded(Len(tree), n, names, root, F, k, tree'[Len(tree) + k])
<1> DEFINE S == [parent : Nat, name : Name, file : Records]
<1>1. PICK t : t = Len(tree)
  OBVIOUS
<1>2. PICK l : l = Len(names)
  OBVIOUS
<1>3. tree \in Seq(S) /\ t \in Nat \ {0} /\ n \in 1..t
  BY <1>1 DEF Shape, MountsBelow
<1>4. l \in Nat /\ l # 0 /\ DOMAIN names = 1..l /\ \A k \in 1..l : names[k] \in Name
  BY <1>2, LenProperties, ElementOfSeq, EmptySeq DEF MountsBelow, Comps
<1> DEFINE s == Added(n, names, root)
<1>5. DOMAIN s = 1..l /\ \A k \in 1..l :
        s[k] = [parent |-> IF k = 1 THEN n ELSE t + k - 1, name |-> names[k],
                file |-> IF k = l THEN root ELSE F[k]]
  BY <1>1, <1>2, <1>4 DEF Added
<1>6. s = [k \in 1..l |-> s[k]]
  BY <1>1, <1>2, <1>4 DEF Added
<1> HIDE DEF s
<1>7. ASSUME NEW k \in 1..l PROVE s[k] \in S /\ IsAdded(t, n, names, root, F, k, s[k])
  <2>1. (IF k = 1 THEN n ELSE t + k - 1) \in Nat
    BY <1>3, <1>4
  <2>2. (IF k = l THEN root ELSE F[k]) \in Records
    BY <1>2
  <2> QED
    BY <1>2, <1>4, <1>5, <2>1, <2>2 DEF IsAdded
<1>8. s \in Seq(S) /\ Len(s) = l
  <2>1. s \in [1..l -> S]
    BY <1>6, <1>7
  <2> HIDE DEF S
  <2>2. s \in Seq(S)
    BY <1>4, <2>1, SeqDef
  <2>3. Len(s) \in Nat /\ DOMAIN s = 1..Len(s)
    BY <2>2, LenProperties
  <2> QED
    BY <1>4, <1>5, <2>2, <2>3
<1> HIDE DEF S
<1>9. tree' = tree \o s
  BY DEF MountsBelow, s
<1>10. /\ tree' \in Seq(S) /\ Len(tree') = t + l
       /\ \A i \in 1..(t + l) : tree'[i] = IF i <= t THEN tree[i] ELSE s[i - t]
  BY <1>1, <1>3, <1>8, <1>9, ConcatProperties, ZenonT(40)
<1>11. \A i \in 1..t : tree'[i] = tree[i]
  BY <1>3, <1>4, <1>10
<1>12. \A k \in 1..l : tree'[t + k] = s[k]
  <2> SUFFICES ASSUME NEW k \in 1..l PROVE tree'[t + k] = s[k]
    OBVIOUS
  <2>1. t + k \in 1..(t + l) /\ ~(t + k <= t) /\ (t + k) - t = k
    BY <1>3, <1>4
  <2> QED
    BY <1>10, <2>1
<1>13. Shape'
  <2>1. devices' = devices /\ devices \in Seq(Names)
    BY DEF MountsBelow, MountsRoot, Shape
  <2>2. t + l \in Nat \ {0}
    BY <1>3, <1>4
  <2> QED
    BY <1>10, <2>1, <2>2 DEF Shape, S, Entries
<1> QED
  BY <1>1, <1>2, <1>4, <1>7, <1>10, <1>11, <1>12, <1>13

LEMMA NodeTyped == ASSUME NEW n \in Nat, NEW x, IsNode(n, x) PROVE x \in Records
<1>1. CASE x \in {NULL, DevRoot}
  BY <1>1 DEF NULL, DevRoot, Node, Records
<1>2. CASE \E o \in 1..n : x \in {Node("dir", o), Node("file", o)}
  BY <1>2 DEF Node, Records
<1>3. CASE \E i \in Nat : x = Node("device", i)
  BY <1>3 DEF Node, Records
<1> QED
  BY <1>1, <1>2, <1>3 DEF IsNode

\* The mount tree after such a mount: more nodes behind the others, with what
\* finddir found along the names, and root at their end g[Len(names)].
Below(home, path, n, names, root, F, g, more) ==
  /\ Len(names) \in Nat \ {0} /\ g \in [0..Len(names) -> Comps] /\ g[0] = path[n]
  /\ \A k \in 1..Len(names) : g[k] = Longer(g[k - 1], names[k]) /\ names[k] \in Name
  /\ F[0] = tree[n].file
  /\ \A k \in 1..Len(names) : F[k] = FindDir(F[k - 1], names[k]) /\ F[k] # NULL
  /\ \A k \in 0..Len(names) : Placed(Len(files), home, g[k], F[k])
  /\ Homes(home, g[Len(names)], root, more)
  /\ Shape' /\ Len(tree) \in Nat \ {0} /\ Len(tree') = Len(tree) + Len(names)
  /\ \A i \in 1..Len(tree) : tree'[i] = tree[i]
  /\ \A k \in 1..Len(names) : IsAdded(Len(tree), n, names, root, F, k, tree'[Len(tree) + k])

LEMMA BelowIs ==
  ASSUME Shape, NEW home, NEW path, Located(home, path),
         NEW n, NEW names, NEW root, MountsBelow(path, n, names, root)
  PROVE  \E F, g, more : Below(home, path, n, names, root, F, g, more)
<1>1. PICK F : F = Follow(tree[n].file, names)
  OBVIOUS
<1>2. /\ n \in 1..Len(tree) /\ names \in Comps /\ names # <<>> /\ MountsRoot(root)
      /\ \A k \in 1..Len(names) : F[k] # NULL
  BY <1>1 DEF MountsBelow
<1>3. path[n] \in Comps /\ Placed(Len(files), home, path[n], tree[n].file)
  BY <1>2 DEF Located
<1>4. PICK g : /\ Len(names) \in Nat
               /\ g \in [0..Len(names) -> Comps] /\ g[0] = path[n]
               /\ \A k \in 1..Len(names) : g[k] = Longer(g[k - 1], names[k])
  BY <1>2, <1>3, WayIs
<1>5. /\ F[0] = tree[n].file
      /\ \A k \in 1..Len(names) : F[k] = FindDir(F[k - 1], names[k])
      /\ \A k \in 0..Len(names) : Placed(Len(files), home, g[k], F[k])
  <2>1. PICK f : f = tree[n].file
    OBVIOUS
  <2>2. Placed(Len(files), home, g[0], f)
    BY <1>3, <1>4, <2>1
  <2>3. /\ Follow(f, names)[0] = f
        /\ \A k \in 1..Len(names) : Follow(f, names)[k] = FindDir(Follow(f, names)[k - 1], names[k])
        /\ \A k \in 0..Len(names) : Placed(Len(files), home, g[k], Follow(f, names)[k])
    BY <1>2, <1>4, <2>2, FollowFound
  <2> QED
    BY <1>1, <2>1, <2>3
<1>6. PICK q : q = g[Len(names)]
  OBVIOUS
<1>7. q \in Comps
  BY <1>4, <1>6
<1>8. PICK more : Homes(home, q, root, more)
  BY <1>2, <1>7, HomesAre
<1>9. \A k \in 1..Len(names) : F[k] \in Records
  <2>1. \A k \in 1..Len(names) : IsNode(Len(files), F[k])
    BY <1>4, <1>5 DEF Placed
  <2>2. Len(files) \in Nat
    BY LenProperties DEF Shape
  <2> QED
    BY <2>1, <2>2, NodeTyped
<1>10. root \in Records /\ files' \in Seq(Seq(Entries))
  BY <1>8 DEF Homes
<1>11. /\ Shape' /\ Len(names) # 0 /\ Len(tree') = Len(tree) + Len(names)
       /\ \A i \in 1..Len(tree) : tree'[i] = tree[i]
       /\ \A k \in 1..Len(names) : IsAdded(Len(tree), n, names, root, F, k, tree'[Len(tree) + k])
  BY <1>1, <1>9, <1>10, BelowTree, ZenonT(40)
<1>12. Len(tree) \in Nat \ {0} /\ \A k \in 1..Len(names) : names[k] \in Name
  BY <1>2, ElementOfSeq DEF Shape, Comps
<1>13. Below(home, path, n, names, root, F, g, more)
  BY <1>2, <1>4, <1>5, <1>6, <1>8, <1>11, <1>12 DEF Below
<1> QED
  BY <1>13

LEMMA BelowLocated ==
  ASSUME Shape, NEW home, NEW path, Located(home, path),
         NEW n, NEW names, NEW root, MountsBelow(path, n, names, root)
  PROVE  Shape' /\ \E more, paths : Located(more, paths)'
<1>1. PICK F, g, more : Below(home, path, n, names, root, F, g, more)
  BY BelowIs
<1>2. PICK t : t = Len(tree)
  OBVIOUS
<1>3. PICK l : l = Len(names)
  OBVIOUS
<1>4. PICK o : o = Len(files)
  OBVIOUS
<1>5. PICK m : m = Len(files')
  OBVIOUS
<1>6. /\ l \in Nat \ {0} /\ g \in [0..l -> Comps] /\ g[0] = path[n]
      /\ \A k \in 1..l : g[k] = Longer(g[k - 1], names[k]) /\ F[k] # NULL
      /\ \A k \in 0..l : Placed(o, home, g[k], F[k])
      /\ t \in Nat \ {0} /\ Len(tree') = t + l
      /\ \A i \in 1..t : tree'[i] = tree[i]
      /\ \A k \in 1..l : IsAdded(t, n, names, root, F, k, tree'[t + k])
  BY <1>1, <1>2, <1>3, <1>4 DEF Below
<1>7. /\ Extends(o, home, m, more) /\ Placed(m, more, g[l], root) /\ root # NULL
      /\ \A d \in 1..m : /\ Len(files'[d]) <= m
                         /\ \A i \in 1..Len(files'[d]) : IsEntry(m, more, d, files'[d][i])
  BY <1>1, <1>3, <1>4, <1>5 DEF Below, Homes
<1>8. /\ path \in [1..t -> Comps] /\ path[1] = <<>> /\ tree[1].parent = 0
      /\ \A i \in 1..t : Placed(o, home, path[i], tree[i].file)
      /\ \A i \in 2..t : /\ tree[i].file # NULL /\ tree[i].parent \in 1..(i - 1)
                         /\ path[i] = Longer(path[tree[i].parent], tree[i].name)
      /\ \A i, j \in 1..Len(devices) : devices[i] = devices[j] => i = j
  BY <1>2, <1>4 DEF Located
<1>9. n \in 1..t /\ devices' = devices
  BY <1>2 DEF MountsBelow, MountsRoot
<1> DEFINE paths == [i \in 1..(t + l) |-> IF i <= t THEN path[i] ELSE g[i - t]]
<1>10. /\ paths \in [1..(t + l) -> Comps]
       /\ \A i \in 1..t : paths[i] = path[i]
       /\ \A k \in 1..l : paths[t + k] = g[k]
  <2>1. ASSUME NEW i \in 1..(t + l) PROVE (IF i <= t THEN path[i] ELSE g[i - t]) \in Comps
    <3>1. CASE i <= t
      BY <1>6, <1>8, <3>1
    <3>2. CASE ~(i <= t)
      <4>1. i - t \in 0..l
        BY <1>6, <3>2
      <4> QED
        BY <1>6, <3>2, <4>1
    <3> QED
      BY <3>1, <3>2
  <2>2. ASSUME NEW k \in 1..l PROVE paths[t + k] = g[k]
    <3>1. t + k \in 1..(t + l) /\ ~(t + k <= t) /\ (t + k) - t = k
      BY <1>6
    <3> QED
      BY <3>1
  <2> QED
    BY <1>6, <2>1, <2>2
<1> HIDE DEF paths
<1>11. \A i \in 1..(t + l) : i \in 1..t \/ \E k \in 1..l : i = t + k
  <2> SUFFICES ASSUME NEW i \in 1..(t + l), i \notin 1..t PROVE \E k \in 1..l : i = t + k
    OBVIOUS
  <2>1. i - t \in 1..l /\ i = t + (i - t)
    BY <1>6
  <2> QED
    BY <2>1
<1>12. ASSUME NEW i \in 1..(t + l) PROVE Placed(m, more, paths[i], tree'[i].file)
  <2>1. CASE i \in 1..t
    <3>1. Placed(o, home, path[i], tree[i].file)
      BY <1>8, <2>1
    <3>2. Placed(m, more, path[i], tree[i].file)
      BY <1>7, <3>1, PlacedStays
    <3> QED
      BY <1>6, <1>10, <2>1, <3>2
  <2>2. CASE i \notin 1..t
    <3>1. PICK k \in 1..l : i = t + k
      BY <1>11, <2>2
    <3>2. paths[i] = g[k] /\ tree'[i].file = IF k = l THEN root ELSE F[k]
      BY <1>3, <1>6, <1>10, <3>1 DEF IsAdded
    <3>3. Placed(m, more, g[k], F[k])
      <4>1. Placed(o, home, g[k], F[k])
        BY <1>6
      <4> QED
        BY <1>7, <4>1, PlacedStays
    <3> QED
      BY <1>7, <3>2, <3>3
  <2> QED
    BY <2>1, <2>2
<1>13. ASSUME NEW i \in 2..(t + l)
       PROVE  /\ tree'[i].file # NULL /\ tree'[i].parent \in 1..(i - 1)
              /\ paths[i] = Longer(paths[tree'[i].parent], tree'[i].name)
  <2>1. CASE i \in 1..t
    <3>1. /\ tree[i].file # NULL /\ tree[i].parent \in 1..(i - 1)
          /\ path[i] = Longer(path[tree[i].parent], tree[i].name)
      BY <1>8, <2>1
    <3>2. tree'[i] = tree[i] /\ paths[i] = path[i] /\ paths[tree[i].parent] = path[tree[i].parent]
      BY <1>6, <1>10, <2>1, <3>1
    <3> QED
      BY <3>1, <3>2
  <2>2. CASE i \notin 1..t
    <3>1. PICK k \in 1..l : i = t + k
      BY <1>11, <2>2
    <3>2. /\ tree'[i].file = IF k = l THEN root ELSE F[k]
          /\ tree'[i].name = names[k]
          /\ tree'[i].parent = IF k = 1 THEN n ELSE t + k - 1
      BY <1>3, <1>6, <3>1 DEF IsAdded
    <3>3. tree'[i].parent \in 1..(i - 1)
      BY <1>6, <1>9, <3>1, <3>2
    <3>4. paths[tree'[i].parent] = g[k - 1]
      <4>1. CASE k = 1
        BY <1>6, <1>9, <1>10, <3>2, <4>1
      <4>2. CASE k # 1
        <5>1. k - 1 \in 1..l /\ t + (k - 1) = t + k - 1
          BY <1>6, <4>2
        <5> QED
          BY <1>10, <3>2, <4>2, <5>1
      <4> QED
        BY <4>1, <4>2
    <3> QED
      BY <1>6, <1>7, <1>10, <3>1, <3>2, <3>3, <3>4
  <2> QED
    BY <2>1, <2>2
<1>14. more \in [1..m -> Comps] /\ tree'[1].parent = 0 /\ paths[1] = <<>>
  BY <1>6, <1>7, <1>8, <1>10 DEF Extends
<1>15. Located(more, paths)'
  BY <1>5, <1>6, <1>7, <1>8, <1>9, <1>10, <1>12, <1>13, <1>14 DEF Located
<1>16. Shape'
  BY <1>1 DEF Below
<1> QED
  BY <1>15, <1>16

\* The nodes there were get no other child than the first of those added; and
\* under that one only the empty name is found.
LEMMA BelowChild ==
  ASSUME Shape, NEW home, NEW path, Located(home, path),
         NEW n, NEW names, NEW root, MountsBelow(path, n, names, root),
         NEW t, t = Len(tree)
  PROVE  /\ \A m \in 1..t, x \in Name : Child(m, x)' = IF m = n /\ x = names[1] THEN t + 1 ELSE Child(m, x)
         /\ \A x \in Names : Len(names) > 1 => Child(t + 1, x)' = 0
<1>1. PICK F, g, more : Below(home, path, n, names, root, F, g, more)
  BY BelowIs
<1>2. PICK l : l = Len(names)
  OBVIOUS
<1>3. /\ l \in Nat \ {0} /\ Shape' /\ t \in Nat \ {0} /\ Len(tree') = t + l
      /\ \A i \in 1..t : tree'[i] = tree[i]
      /\ \A k \in 1..l : IsAdded(t, n, names, root, F, k, tree'[t + k])
  BY <1>1, <1>2 DEF Below
<1>4. /\ n \in 1..t /\ Child(n, names[1]) = 0
      /\ \A k \in 2..l : names[k] = Empty
  BY <1>2 DEF MountsBelow
<1>5. \A k \in 1..l : /\ tree'[t + k].name = names[k]
                      /\ tree'[t + k].parent = IF k = 1 THEN n ELSE t + k - 1
  BY <1>3 DEF IsAdded
<1>6. \A i \in 1..(t + l) : i \in 1..t \/ \E k \in 1..l : i = t + k
  <2> SUFFICES ASSUME NEW i \in 1..(t + l), i \notin 1..t PROVE \E k \in 1..l : i = t + k
    OBVIOUS
  <2>1. i - t \in 1..l /\ i = t + (i - t)
    BY <1>3
  <2> QED
    BY <2>1
<1>7. \A m, x : /\ IsFirst(ChildAt(tree, m, x), Child(m, x))
                /\ IsFirst(ChildAt(tree', m, x), Child(m, x)')
  BY <1>3, LookupsHold, LookupsNext DEF Lookups
<1>8. ASSUME NEW m \in 1..t, NEW x \in Name
      PROVE  Child(m, x)' = IF m = n /\ x = names[1] THEN t + 1 ELSE Child(m, x)
  <2>1. PICK r : r = Child(m, x)
    OBVIOUS
  <2>2. PICK s : s = Child(m, x)'
    OBVIOUS
  <2> DEFINE I == ChildAt(tree, m, x)
             J == IF m = n /\ x = names[1] THEN {t + 1} ELSE {}
  <2>3. ChildAt(tree', m, x) = I \cup J
    <3>1. ASSUME NEW i \in ChildAt(tree', m, x) PROVE i \in I \cup J
      <4>1. i \in 1..(t + l) /\ tree'[i].parent = m /\ tree'[i].name = x
        BY <1>3 DEF ChildAt
      <4>2. CASE i \in 1..t
        BY <1>3, <4>1, <4>2 DEF ChildAt
      <4>3. CASE i \notin 1..t
        <5>1. PICK k \in 1..l : i = t + k
          BY <1>6, <4>1, <4>3
        <5>2. k = 1
          BY <1>3, <1>5, <4>1, <5>1
        <5> QED
          BY <1>5, <4>1, <5>1, <5>2
      <4> QED
        BY <4>2, <4>3
    <3>2. ASSUME NEW i \in I PROVE i \in ChildAt(tree', m, x)
      <4>1. i \in 1..t /\ i \in 1..(t + l)
        BY <1>3 DEF ChildAt
      <4> QED
        BY <1>3, <4>1 DEF ChildAt
    <3>3. ASSUME m = n, x = names[1] PROVE t + 1 \in ChildAt(tree', m, x)
      <4>1. 1 \in 1..l /\ t + 1 \in 1..(t + l)
        BY <1>3
      <4>2. tree'[t + 1].name = names[1] /\ tree'[t + 1].parent = n
        BY <1>5, <4>1
      <4> QED
        BY <1>3, <3>3, <4>1, <4>2 DEF ChildAt
    <3> QED
      BY <3>1, <3>2, <3>3
  <2>4. IsFirst(I, r) /\ IsFirst(I \cup J, s)
    BY <1>7, <2>1, <2>2, <2>3
  <2>5. I \subseteq 1..t
    BY DEF ChildAt
  <2>6. \A j \in J : j \in Nat /\ t < j
    BY <1>3
  <2>7. t \in Nat
    BY <1>3
  <2>8. m = n /\ x = names[1] => r = 0
    BY <1>4, <2>1
  <2>9. IsFirst(J, s) => s = IF m = n /\ x = names[1] THEN t + 1 ELSE 0
    BY DEF IsFirst
  <2> HIDE DEF I, J
  <2>10. (r # 0 => s = r) /\ (r = 0 => IsFirst(J, s))
    BY <2>4, <2>5, <2>6, <2>7, FirstLonger, ZenonT(40)
  <2> QED
    BY <2>1, <2>2, <2>8, <2>9, <2>10
<1>9. ASSUME NEW x \in Names, l > 1 PROVE Child(t + 1, x)' = 0
  <2>1. x # Empty
    BY VfsAssumption DEF VfsAssumption
  <2>2. ASSUME NEW i \in ChildAt(tree', t + 1, x) PROVE FALSE
    <3>1. i \in 1..(t + l) /\ tree'[i].parent = t + 1 /\ tree'[i].name = x
      BY <1>3 DEF ChildAt
    <3>2. CASE i \in 1..t
      <4>1. tree[i].parent \in 0..(i - 1)
        BY <1>3, <3>2 DEF Located
      <4> QED
        BY <1>3, <3>1, <3>2, <4>1
    <3>3. CASE i \notin 1..t
      <4>1. PICK k \in 1..l : i = t + k
        BY <1>6, <3>1, <3>3
      <4>2. k # 1
        BY <1>3, <1>4, <1>5, <3>1, <4>1
      <4>3. names[k] = Empty
        BY <1>3, <1>4, <4>2
      <4> QED
        BY <1>5, <2>1, <3>1, <4>1, <4>3
    <3> QED
      BY <3>2, <3>3
  <2>3. ChildAt(tree', t + 1, x) = {}
    BY <2>2
  <2> QED
    BY <1>7, <2>3 DEF IsFirst
<1> QED
  BY <1>2, <1>8, <1>9

LEMMA NotBelowItself ==
  ASSUME NEW S, NEW c \in Seq(S), NEW x \in S
  PROVE  ~IsPrefix(Longer(c, x), c)
<1>1. Len(c) \in Nat /\ Len(Longer(c, x)) = Len(c) + 1
  BY LongerIs
<1> QED
  BY <1>1 DEF IsPrefix

\* One component missing: what changes lies at the place mounted at and below.
LEMMA BelowLead ==
  ASSUME Shape, NEW home, NEW path, Located(home, path),
         NEW n, NEW names, NEW root, MountsBelow(path, n, names, root), Len(names) = 1,
         NEW q, q = Longer(path[n], names[1])
  PROVE  /\ Lead(q)' = root
         /\ \A c \in Comps : IsPrefix(q, c) \/ Lead(c)' = Lead(c)
<1>1. PICK F, g, more : Below(home, path, n, names, root, F, g, more)
  BY BelowIs
<1>2. PICK t : t = Len(tree)
  OBVIOUS
<1>3. /\ Shape' /\ t \in Nat \ {0} /\ Len(tree') = t + 1 /\ names[1] \in Name
      /\ \A i \in 1..t : tree'[i] = tree[i]
      /\ tree'[t + 1].file = root
  <2>1. IsAdded(t, n, names, root, F, 1, tree'[t + 1])
    BY <1>1, <1>2 DEF Below
  <2> QED
    BY <1>1, <1>2, <2>1 DEF Below, IsAdded
<1>4. /\ n \in 1..t /\ On(path[n]) = n /\ path[n] \in Comps /\ devices' = devices
      /\ files' = files \/ files' = Append(files, <<>>)
  BY <1>2 DEF MountsBelow, MountsRoot, Located
<1>5. q \in Comps /\ ~IsPrefix(q, path[n])
  BY <1>3, <1>4, LongerIs, NotBelowItself DEF Comps
<1>6. \A m \in 1..t, x \in Name : Child(m, x)' = IF m = n /\ x = names[1] THEN t + 1 ELSE Child(m, x)
  BY <1>2, BelowChild
<1> DEFINE A == {c \in Comps : IsPrefix(q, c) \/ (On(c)' = On(c) /\ Lead(c)' = Lead(c))}
<1>7. <<>> \in A
  <2>1. /\ On(<<>>)' = 1 /\ On(<<>>) = 1 /\ <<>> \in Comps
        /\ Lead(<<>>) = tree[1].file /\ Lead(<<>>)' = tree'[1].file
    BY <1>3, StepsHold, StepsNext DEF Steps, Starts
  <2> QED
    BY <1>3, <2>1
<1>8. ASSUME NEW c \in Comps, NEW x \in Name, c \in A PROVE Longer(c, x) \in A
  <2>1. GoesOn(c, x) /\ GoesOn(c, x)'
    BY <1>3, StepsHold, StepsNext DEF Steps
  <2>2. Longer(c, x) \in Comps
    BY <2>1 DEF GoesOn
  <2>3. CASE IsPrefix(q, c)
    BY <1>5, <2>2, <2>3, PrefixLonger DEF Comps
  <2>4. CASE ~IsPrefix(q, c)
    <3>1. PICK m : m = On(c)
      OBVIOUS
    <3>2. On(c)' = m /\ Lead(c)' = Lead(c) /\ m \in 0..t
      BY <1>2, <1>8, <2>1, <2>4, <3>1 DEF GoesOn
    <3>3. CASE m = n /\ x = names[1]
      <4>1. path[n] = c
        <5>1. On(c) = n /\ n # 0
          BY <1>3, <1>4, <3>1, <3>3
        <5>2. On(c) # 0 => path[On(c)] = c
          BY FoundHolds DEF Found
        <5> QED
          BY <5>1, <5>2
      <4> QED
        BY <1>5, <2>2, <3>3, <4>1, PrefixSelf DEF Comps
    <3>4. CASE ~(m = n /\ x = names[1])
      <4>1. PICK k : k = On(Longer(c, x))
        OBVIOUS
      <4>2. On(Longer(c, x))' = k /\ k \in 0..t
        <5>1. m # 0 => Child(m, x)' = Child(m, x)
          BY <1>6, <3>2, <3>4
        <5>2. k = IF m = 0 THEN 0 ELSE Child(m, x)
          BY <2>1, <3>1, <4>1 DEF GoesOn
        <5>3. On(Longer(c, x))' = IF m = 0 THEN 0 ELSE Child(m, x)'
          <6>1. On(Longer(c, x))' = IF On(c)' = 0 THEN 0 ELSE Child(On(c), x)'
            BY <2>1 DEF GoesOn
          <6>2. Child(On(c), x)' = Child(m, x)'
            BY <3>2 DEF Child, SelectInSeq
          <6> QED
            BY <3>2, <6>1, <6>2
        <5>4. k \in 0..t
          BY <1>2, <2>1, <4>1 DEF GoesOn
        <5> QED
          BY <5>1, <5>2, <5>3, <5>4
      <4>3. CASE k # 0
        <5>1. Lead(Longer(c, x)) = tree[k].file /\ Lead(Longer(c, x))' = tree'[k].file
          BY <2>1, <4>1, <4>2, <4>3 DEF GoesOn
        <5> QED
          BY <1>3, <2>2, <4>1, <4>2, <4>3, <5>1
      <4>4. CASE k = 0
        <5>1. PICK f : f = Lead(c)
          OBVIOUS
        <5>2. Lead(Longer(c, x)) = FindDir(f, x)
          BY <2>1, <4>1, <4>4, <5>1 DEF GoesOn
        <5>3. Lead(Longer(c, x))' = FindDir(f, x)'
          <6>1. Lead(Longer(c, x))' = FindDir(Lead(c), x)'
            BY <2>1, <4>2, <4>4 DEF GoesOn
          <6>2. Lead(c)' = f
            BY <3>2, <5>1
          <6> QED
            BY <6>1, <6>2 DEF FindDir
        <5>4. IsNode(Len(files), f)
          BY <5>1, FoundHolds DEF Found, Placed
        <5>5. FindDir(f, x)' = FindDir(f, x)
          BY <1>4, <5>4, FindStays
        <5> QED
          BY <2>2, <4>1, <4>2, <5>2, <5>3, <5>5
      <4> QED
        BY <4>3, <4>4
    <3> QED
      BY <3>3, <3>4
  <2> QED
    BY <2>3, <2>4
<1> HIDE DEF A
<1>9. Comps \subseteq A
  BY <1>7, <1>8, SeqInduction DEF Comps
<1>10. Lead(q)' = root
  <2>1. On(path[n])' = n
    BY <1>4, <1>5, <1>9 DEF A
  <2>2. GoesOn(path[n], names[1])'
    BY <1>3, <1>4, StepsNext DEF Steps
  <2>3. Child(On(path[n]), names[1])' = t + 1
    <3>1. Child(n, names[1])' = t + 1
      BY <1>3, <1>4, <1>6
    <3> QED
      BY <2>1, <3>1 DEF Child, SelectInSeq
  <2>4. On(Longer(path[n], names[1]))' = t + 1
    BY <1>3, <1>4, <2>1, <2>2, <2>3 DEF GoesOn
  <2>5. Lead(Longer(path[n], names[1]))' = tree'[t + 1].file
    BY <1>3, <2>2, <2>4 DEF GoesOn
  <2> QED
    BY <1>3, <2>5
<1> QED
  BY <1>9, <1>10 DEF A

\* More components missing: with the nodes added a name leads where it led.
LEMMA BelowSame ==
  ASSUME Shape, NEW home, NEW path, Located(home, path),
         NEW n, NEW names, NEW root, MountsBelow(path, n, names, root), Len(names) > 1
  PROVE  \A c \in Seq(Names) : Lead(c)' = Lead(c)
<1>1. PICK F, g, more : Below(home, path, n, names, root, F, g, more)
  BY BelowIs
<1>2. PICK t : t = Len(tree)
  OBVIOUS
<1>3. /\ Shape' /\ t \in Nat \ {0} /\ names[1] \in Name
      /\ \A i \in 1..t : tree'[i] = tree[i]
      /\ tree'[t + 1].file = FindDir(tree[n].file, names[1])
  <2>1. Len(names) \in Nat /\ 1 \in 1..Len(names) /\ 1 - 1 = 0
    BY <1>1 DEF Below
  <2>2. IsAdded(t, n, names, root, F, 1, tree'[t + 1])
    BY <1>1, <1>2, <2>1 DEF Below
  <2>3. F[1] = FindDir(F[0], names[1]) /\ F[0] = tree[n].file
    BY <1>1, <2>1 DEF Below
  <2> QED
    BY <1>1, <1>2, <2>1, <2>2, <2>3 DEF Below, IsAdded
<1>4. /\ n \in 1..t /\ devices' = devices
      /\ files' = files \/ files' = Append(files, <<>>)
  BY <1>2 DEF MountsBelow, MountsRoot
<1>5. Child(n, names[1]) = 0
  BY DEF MountsBelow
<1>6. /\ \A m \in 1..t, x \in Name : Child(m, x)' = IF m = n /\ x = names[1] THEN t + 1 ELSE Child(m, x)
      /\ \A x \in Names : Child(t + 1, x)' = 0
  BY <1>2, BelowChild
<1> DEFINE A == {c \in Seq(Names) : Lead(c)' = Lead(c) /\ (On(c)' = On(c) \/ (On(c)' = t + 1 /\ On(c) = 0))}
<1>7. <<>> \in A
  <2>1. /\ On(<<>>)' = 1 /\ On(<<>>) = 1 /\ <<>> \in Seq(Names)
        /\ Lead(<<>>) = tree[1].file /\ Lead(<<>>)' = tree'[1].file
    BY <1>3, EmptySeq, StepsHold, StepsNext DEF Steps, Starts
  <2> QED
    BY <1>3, <2>1
<1>8. ASSUME NEW c \in Seq(Names), NEW x \in Names, c \in A PROVE Longer(c, x) \in A
  <2>1. c \in Comps /\ x \in Name /\ Longer(c, x) \in Seq(Names)
    BY SeqMonotonic, LongerIs DEF Comps, Name
  <2>2. GoesOn(c, x) /\ GoesOn(c, x)'
    BY <1>3, <2>1, StepsHold, StepsNext DEF Steps
  <2>3. PICK m : m = On(c)
    OBVIOUS
  <2>4. PICK s : s = On(c)'
    OBVIOUS
  <2>5. PICK f : f = Lead(c)
    OBVIOUS
  <2>6. Lead(c)' = f /\ m \in 0..t /\ (s = m \/ (s = t + 1 /\ m = 0))
    BY <1>2, <1>8, <2>2, <2>3, <2>4, <2>5 DEF GoesOn
  <2>7. FindDir(f, x)' = FindDir(f, x)
    <3>1. IsNode(Len(files), f)
      BY <2>1, <2>5, FoundHolds DEF Found, Placed
    <3> QED
      BY <1>4, <3>1, FindStays
  <2>8. PICK k : k = On(Longer(c, x))
    OBVIOUS
  <2>9. PICK j : j = On(Longer(c, x))'
    OBVIOUS
  <2>10. /\ k = IF m = 0 THEN 0 ELSE Child(m, x)
         /\ k # 0 => Lead(Longer(c, x)) = tree[k].file
         /\ k = 0 => Lead(Longer(c, x)) = FindDir(f, x)
         /\ k \in 0..t
    BY <1>2, <2>2, <2>3, <2>5, <2>8 DEF GoesOn
  <2>11. /\ j = IF s = 0 THEN 0 ELSE Child(s, x)'
         /\ j # 0 => Lead(Longer(c, x))' = tree'[j].file
         /\ j = 0 => Lead(Longer(c, x))' = FindDir(f, x)
    <3>1. On(Longer(c, x))' = IF On(c)' = 0 THEN 0 ELSE Child(On(c), x)'
      BY <2>2 DEF GoesOn
    <3>2. Child(On(c), x)' = Child(s, x)'
      BY <2>4 DEF Child, SelectInSeq
    <3>3. FindDir(Lead(c), x)' = FindDir(f, x)'
      BY <2>6 DEF FindDir
    <3> QED
      BY <2>2, <2>4, <2>7, <2>9, <3>1, <3>2, <3>3 DEF GoesOn
  <2>12. CASE s = m /\ m = n /\ x = names[1]
    <3>1. k = 0 /\ j = t + 1
      BY <1>3, <1>4, <1>5, <1>6, <2>1, <2>10, <2>11, <2>12
    <3>2. f = tree[n].file
      <4>1. On(c) = n /\ n # 0
        BY <1>3, <1>4, <2>3, <2>12
      <4>2. On(c) # 0 => Lead(c) = tree[On(c)].file
        BY <2>1, LookupsHold DEF Lookups
      <4> QED
        BY <2>5, <4>1, <4>2
    <3> QED
      BY <1>3, <2>1, <2>8, <2>9, <2>10, <2>11, <2>12, <3>1, <3>2
  <2>13. CASE s = m /\ ~(m = n /\ x = names[1])
    <3>1. j = k
      BY <1>6, <2>1, <2>6, <2>10, <2>11, <2>13
    <3>2. k # 0 => tree'[k] = tree[k]
      BY <1>3, <2>10
    <3> QED
      BY <2>1, <2>8, <2>9, <2>10, <2>11, <3>1, <3>2
  <2>14. CASE s = t + 1 /\ m = 0
    <3>1. k = 0 /\ j = 0
      BY <1>3, <1>6, <2>10, <2>11, <2>14
    <3> QED
      BY <2>1, <2>8, <2>9, <2>10, <2>11, <3>1
  <2> QED
    BY <2>6, <2>12, <2>13, <2>14
<1> HIDE DEF A
<1>9. Seq(Names) \subseteq A
  BY <1>7, <1>8, SeqInduction
<1> QED
  BY <1>9 DEF A

\* What callers give are paths with names and empty components.
LEMMA PathIs == \A p \in Paths : p \in Seq(Names \cup {Empty}) /\ p \in Comps /\ Split(p) \in Comps /\ p # <<>>
<1> SUFFICES ASSUME NEW p \in Paths
             PROVE  p \in Seq(Names \cup {Empty}) /\ p \in Comps /\ Split(p) \in Comps /\ p # <<>>
  OBVIOUS
<1>1. PICK n \in 1..MaxLength : p \in [1..n -> Names \cup {Empty}]
  BY DEF Paths
<1>2. n \in Nat /\ n # 0
  BY <1>1, VfsAssumption DEF VfsAssumption
<1>3. p \in Seq(Names \cup {Empty})
  BY <1>1, <1>2, SeqDef
<1>4. p \in Comps
  BY <1>3, SeqMonotonic DEF Comps, Name
<1>5. DOMAIN p = 1..n /\ Len(p) \in Nat /\ DOMAIN p = 1..Len(p)
  BY <1>1, <1>3, LenProperties
<1>6. p # <<>>
  BY <1>2, <1>5, EmptySeq
<1> QED
  BY <1>3, <1>4, <1>6, EmptySeq DEF Split, Comps

\* The names vfs_mount looks up: the first one left over, and empty ones.
LEMMA LookedUpIs ==
  ASSUME NEW r \in Comps, r # <<>>
  PROVE  /\ LookedUp(r) \in Comps /\ LookedUp(r) # <<>> /\ Len(LookedUp(r)) = Len(r)
         /\ LookedUp(r)[1] = r[1] /\ \A k \in 2..Len(r) : LookedUp(r)[k] = Empty
         /\ Len(r) \in Nat /\ Len(r) >= 1 /\ DOMAIN LookedUp(r) = 1..Len(r)
<1>1. Len(r) \in Nat /\ Len(r) >= 1 /\ DOMAIN r = 1..Len(r) /\ r[1] \in Name
  BY EmptySeq, LenProperties, ElementOfSeq DEF Comps
<1>2. Empty \in Name
  BY DEF Name
<1> DEFINE s == LookedUp(r)
<1>3. s \in [1..Len(r) -> Name] /\ s[1] = r[1] /\ (\A k \in 2..Len(r) : s[k] = Empty) /\ DOMAIN s = 1..Len(r)
  BY <1>1, <1>2 DEF LookedUp
<1> HIDE DEF s
<1>4. s \in Comps
  BY <1>1, <1>3, SeqDef DEF Comps
<1>5. Len(s) \in Nat /\ DOMAIN s = 1..Len(s)
  BY <1>4, LenProperties DEF Comps
<1>6. Len(s) = Len(r)
  BY <1>1, <1>3, <1>5
<1>7. s # <<>>
  BY <1>1, <1>6, EmptySeq
<1> QED
  BY <1>1, <1>3, <1>4, <1>6, <1>7 DEF s

\* What vfs_mount does with the mount tree: c are the components given, n the
\* node found and r the components left over.
MountDoes(path, c, n, r, root) ==
  \/ r = <<>> /\ MountsHere(path, c, root)
  \/ r # <<>> /\ MountsBelow(path, n, LookedUp(r), root)
  \/ /\ r # <<>> /\ tree' = tree
     /\ \E k \in 1..Len(r) : Follow(tree[n].file, LookedUp(r))[k] = NULL

LEMMA MountIs ==
  ASSUME Shape, NEW home, NEW path, Located(home, path), NEW type \in {"tmpfs", "devfs"}, NEW p \in Paths,
         Mount(type, p), devices' = devices
  PROVE  /\ MountsRoot(MountRoot(type))
         /\ MountDoes(path, Split(p), Deepest(Split(p)).node, Deepest(Split(p)).rest, MountRoot(type))
<1> DEFINE c == Split(p)
           n == Deepest(c).node
           r == Deepest(c).rest
           root == MountRoot(type)
<1>1. c \in Comps
  BY PathIs
<1>2. MountsRoot(root)
  BY DEF Mount, MountsRoot, MountRoot
<1>3. Deep(path, c)
  BY <1>1, DeepestFound
<1>4. n \in 1..Len(tree) /\ r \in Comps /\ On(path[n]) = n /\ Len(tree) \in Nat
  BY <1>3 DEF Deep, Shape
<1>5. IF \E k \in DOMAIN LookedUp(r) : Follow(tree[n].file, LookedUp(r))[k] = NULL
      THEN tree' = tree ELSE tree' = Mounted(n, LookedUp(r), root)
  BY DEF Mount
<1>6. CASE r = <<>>
  <2>1. path[n] = c /\ On(c) = n /\ n # 0
    BY <1>3, <1>4, <1>6 DEF Deep
  <2>2. DOMAIN LookedUp(<<>>) = {} /\ LookedUp(<<>>) = <<>>
    BY DEF LookedUp
  <2>3. tree' = [tree EXCEPT ![n].file = root]
    BY <1>5, <1>6, <2>2 DEF Mounted
  <2>4. MountsHere(path, c, root)
    BY <1>1, <1>2, <2>1, <2>3 DEF MountsHere
  <2> QED
    BY <1>2, <1>6, <2>4 DEF MountDoes
<1>7. CASE r # <<>>
  <2>1. /\ LookedUp(r) \in Comps /\ LookedUp(r) # <<>> /\ Len(LookedUp(r)) = Len(r)
        /\ LookedUp(r)[1] = r[1] /\ \A k \in 2..Len(r) : LookedUp(r)[k] = Empty
        /\ DOMAIN LookedUp(r) = 1..Len(r)
    BY <1>4, <1>7, LookedUpIs
  <2>2. Child(n, r[1]) = 0
    BY <1>3, <1>7 DEF Deep
  <2>3. CASE \E k \in 1..Len(r) : Follow(tree[n].file, LookedUp(r))[k] = NULL
    BY <1>2, <1>5, <1>7, <2>1, <2>3 DEF MountDoes
  <2>4. CASE ~\E k \in 1..Len(r) : Follow(tree[n].file, LookedUp(r))[k] = NULL
    <3>1. tree' = tree \o Added(n, LookedUp(r), root)
      BY <1>5, <2>1, <2>4 DEF Mounted
    <3>2. MountsBelow(path, n, LookedUp(r), root)
      BY <1>2, <1>4, <2>1, <2>2, <2>4, <3>1 DEF MountsBelow
    <3> QED
      BY <1>2, <1>7, <3>2 DEF MountDoes
  <2> QED
    BY <2>3, <2>4
<1> QED
  BY <1>6, <1>7

\* What a mount shows at c, with m of the components missing from the mount
\* tree: nothing changes for names, or only at c, where the root is, and below.
Shows(c, m, root) ==
  /\ c \in Comps /\ m \in Nat
  /\ \/ \A b \in Seq(Names) : Lead(b)' = Lead(b)
     \/ /\ Lead(c)' = root /\ Lead(c) # root
        /\ \A b \in Seq(Names) : IsPrefix(c, b) \/ Lead(b)' = Lead(b)
  /\ m = 0 \/ (m = 1 /\ Lead(c) # NULL) => Lead(c)' = root
  /\ root.kind \in {"dir", "devfs"}
  /\ \A b \in Comps : root.kind # "devfs" => Lead(b) # root

\* A directory mounted nowhere.
LEMMA StoppedLocated ==
  ASSUME Shape, NEW home, NEW path, Located(home, path), NEW root, MountsRoot(root), tree' = tree
  PROVE  Shape' /\ \E more : Located(more, path)'
<1>1. PICK q : q = <<>>
  OBVIOUS
<1>2. q \in Comps
  BY <1>1, EmptySeq DEF Comps
<1>3. PICK more : Homes(home, q, root, more)
  BY <1>2, HomesAre
<1>4. PICK m : m = Len(files')
  OBVIOUS
<1>5. /\ Extends(Len(files), home, m, more) /\ files' \in Seq(Seq(Entries))
      /\ \A d \in 1..m : /\ Len(files'[d]) <= m
                         /\ \A i \in 1..Len(files'[d]) : IsEntry(m, more, d, files'[d][i])
  BY <1>3, <1>4 DEF Homes
<1>6. Shape'
  BY <1>5 DEF Shape, Entries, MountsRoot
<1>7. \A k \in 1..Len(tree) : Placed(m, more, path[k], tree[k].file)
  BY <1>5, PlacedStays DEF Located
<1>8. more \in [1..m -> Comps]
  BY <1>5 DEF Extends
<1>9. Located(more, path)'
  BY <1>4, <1>5, <1>7, <1>8 DEF Located, MountsRoot
<1> QED
  BY <1>6, <1>9

LEMMA MountSees ==
  ASSUME VInv, NEW type \in {"tmpfs", "devfs"}, NEW p \in Paths, Mount(type, p), devices' = devices
  PROVE  VInv' /\ Shows(Split(p), Missing(p), MountRoot(type))
<1>1. PICK home, path : Shape /\ Located(home, path)
  BY DEF VInv
<1>2. PICK c : c = Split(p)
  OBVIOUS
<1>3. PICK root : root = MountRoot(type)
  OBVIOUS
<1>4. PICK n : n = Deepest(c).node
  OBVIOUS
<1>5. PICK r : r = Deepest(c).rest
  OBVIOUS
<1>6. c \in Comps /\ MountsRoot(root) /\ MountDoes(path, c, n, r, root)
  <2>1. /\ MountsRoot(MountRoot(type))
        /\ MountDoes(path, Split(p), Deepest(Split(p)).node, Deepest(Split(p)).rest, MountRoot(type))
    BY <1>1, MountIs
  <2> QED
    BY <1>2, <1>3, <1>4, <1>5, <2>1, PathIs
<1>7. Missing(p) = Len(r) /\ r \in Comps /\ Len(r) \in Nat /\ (Len(r) = 0 <=> r = <<>>)
  <2>1. Missing(p) = Len(r)
    BY <1>2, <1>5 DEF Missing
  <2>2. r \in Comps
    BY <1>1, <1>5, <1>6, LookupsHold DEF Lookups
  <2> QED
    BY <2>1, <2>2, EmptySeq DEF Comps
<1>8. /\ n \in 1..Len(tree) /\ On(path[n]) = n
      /\ Len(r) = 1 => c = Longer(path[n], r[1])
  <2>1. Deep(path, c)
    BY <1>1, <1>6, DeepestFound
  <2> QED
    BY <1>4, <1>5, <2>1 DEF Deep
<1>9. \A b \in Seq(Names) : b \in Comps
  BY SeqMonotonic DEF Comps, Name
<1>10. root # NULL /\ root.kind \in {"dir", "devfs"} /\ \A f : IsNode(Len(files), f) /\ f # DevRoot => f # root
  <2>1. \E more : Homes(home, c, root, more)
    BY <1>1, <1>6, HomesAre
  <2> QED
    BY <2>1 DEF Homes
<1>11. \A b \in Comps : IsNode(Len(files), Lead(b))
  BY <1>1, FoundHolds DEF Found, Placed
<1>12. \A b \in Comps : root.kind # "devfs" => Lead(b) # root
  BY <1>10, <1>11, NodeFacts
<1>13. CASE r = <<>> /\ MountsHere(path, c, root)
  <2>1. VInv'
    <3>1. Shape' /\ \E more : Located(more, path)'
      BY <1>1, <1>13, HereLocated
    <3> QED
      BY <3>1 DEF VInv
  <2>2. Lead(c)' = root /\ \A b \in Comps : IsPrefix(c, b) \/ Lead(b)' = Lead(b)
    BY <1>1, <1>13, HereLead
  <2>3. CASE Lead(c) # root
    <3>1. Shows(c, Len(r), root)
      BY <1>6, <1>7, <1>9, <1>10, <1>12, <2>2, <2>3 DEF Shows
    <3> QED
      BY <1>2, <1>3, <1>7, <2>1, <3>1
  <2>4. CASE Lead(c) = root
    <3>1. tree[On(c)].file = root /\ On(c) \in 1..Len(tree)
      <4>1. On(c) # 0 /\ Len(tree) \in Nat
        BY <1>1, <1>13 DEF MountsHere, Shape
      <4> QED
        BY <1>1, <1>6, <2>4, <4>1, LookupsHold DEF Lookups
    <3>2. tree' = tree
      <4>1. PICK o : o = On(c)
        OBVIOUS
      <4>2. PICK S : S = [parent : Nat, name : Name, file : Records]
        OBVIOUS
      <4>3. tree \in [1..Len(tree) -> S] /\ o \in 1..Len(tree) /\ tree[o].file = root
        <5>1. tree \in Seq(S)
          BY <1>1, <4>2 DEF Shape
        <5> QED
          BY <3>1, <4>1, <5>1, LenProperties
      <4>4. [tree[o] EXCEPT !.file = root] = tree[o]
        <5>1. tree[o] \in [parent : Nat, name : Name, file : Records]
          BY <4>2, <4>3
        <5> QED
          BY <4>3, <5>1
      <4>5. tree' = [tree EXCEPT ![o].file = root]
        BY <1>13, <4>1 DEF MountsHere
      <4> QED
        BY <4>3, <4>4, <4>5
    <3>3. \A b \in Comps : Lead(b)' = Lead(b)
      <4>1. Shape' /\ (files' = files \/ files' = Append(files, <<>>))
        BY <1>6, <2>1 DEF MountsRoot, VInv
      <4> QED
        BY <1>1, <1>6, <2>1, <3>2, <4>1, LeadsStay DEF VInv, MountsRoot
    <3>4. Shows(c, Len(r), root)
      BY <1>6, <1>7, <1>9, <1>10, <1>12, <2>2, <3>3 DEF Shows
    <3> QED
      BY <1>2, <1>3, <1>7, <2>1, <3>4
  <2> QED
    BY <2>3, <2>4
<1>14. CASE r # <<>> /\ MountsBelow(path, n, LookedUp(r), root)
  <2>1. VInv'
    <3>1. Shape' /\ \E more, paths : Located(more, paths)'
      BY <1>1, <1>14, BelowLocated
    <3> QED
      BY <3>1 DEF VInv
  <2>2. Len(LookedUp(r)) = Len(r) /\ LookedUp(r)[1] = r[1] /\ Len(r) >= 1 /\ r[1] \in Name
    BY <1>7, <1>14, LookedUpIs, ElementOfSeq DEF Comps
  <2>3. CASE Len(r) = 1
    <3>1. c = Longer(path[n], LookedUp(r)[1])
      BY <1>8, <2>2, <2>3
    <3>2. Lead(c)' = root /\ \A b \in Comps : IsPrefix(c, b) \/ Lead(b)' = Lead(b)
      BY <1>1, <1>14, <2>2, <2>3, <3>1, BelowLead
    <3>3. Lead(c) # root
      <4>1. path[n] \in Comps
        BY <1>1, <1>8 DEF Located
      <4>2. On(c) = 0
        <5>1. GoesOn(path[n], r[1])
          BY <1>1, <2>2, <4>1, StepsHold DEF Steps
        <5>2. Child(n, r[1]) = 0
          BY <1>14, <2>2 DEF MountsBelow
        <5> QED
          BY <1>8, <2>2, <2>3, <3>1, <5>1, <5>2 DEF GoesOn
      <4>3. Lead(c) = FindDir(Lead(path[n]), r[1])
        BY <1>1, <2>2, <3>1, <4>1, <4>2, StepsHold DEF Steps, GoesOn
      <4>4. Lead(c) # DevRoot
        BY <1>1, <2>2, <4>1, <4>3, FindDirFound, FoundHolds DEF Found
      <4> QED
        BY <1>6, <1>10, <1>11, <4>4
    <3>4. Shows(c, Len(r), root)
      BY <1>6, <1>7, <1>9, <1>10, <1>12, <3>2, <3>3 DEF Shows
    <3> QED
      BY <1>2, <1>3, <1>7, <2>1, <3>4
  <2>4. CASE Len(r) # 1
    <3>1. Len(LookedUp(r)) > 1 /\ Len(r) # 0
      BY <1>7, <2>2, <2>4
    <3>2. \A b \in Seq(Names) : Lead(b)' = Lead(b)
      BY <1>1, <1>14, <3>1, BelowSame
    <3>3. Shows(c, Len(r), root)
      BY <1>6, <1>7, <1>10, <1>12, <2>4, <3>1, <3>2 DEF Shows
    <3> QED
      BY <1>2, <1>3, <1>7, <2>1, <3>3
  <2> QED
    BY <2>3, <2>4
<1>15. CASE /\ r # <<>> /\ tree' = tree
            /\ \E k \in 1..Len(r) : Follow(tree[n].file, LookedUp(r))[k] = NULL
  <2>1. Shape' /\ \E more : Located(more, path)'
    BY <1>1, <1>6, <1>15, StoppedLocated
  <2>2. \A b \in Seq(Names) : Lead(b)' = Lead(b)
    BY <1>1, <1>6, <1>9, <1>15, <2>1, LeadsStay DEF MountsRoot
  <2>3. Len(r) = 1 => Lead(c) = NULL
    <3> SUFFICES ASSUME Len(r) = 1 PROVE Lead(c) = NULL
      OBVIOUS
    <3>1. path[n] \in Comps /\ c = Longer(path[n], r[1]) /\ r[1] \in Name
      BY <1>1, <1>7, <1>8, <1>15, ElementOfSeq, SMTT(40) DEF Located, Comps
    <3>2. LookedUp(r) \in Comps /\ Len(LookedUp(r)) = 1 /\ LookedUp(r)[1] = r[1]
      BY <1>7, <1>15, LookedUpIs
    <3>3. Follow(tree[n].file, LookedUp(r))[1] = FindDir(tree[n].file, r[1])
      <4>1. PICK f : f = tree[n].file
        OBVIOUS
      <4>2. Walk(f, LookedUp(r), 1, Follow(f, LookedUp(r)))
        <5>1. PICK s : s = LookedUp(r)
          OBVIOUS
        <5>2. Len(s) = 1 /\ Len(s) \in Nat
          BY <3>2, <5>1
        <5>3. Walk(f, s, Len(s), Follow(f, s))
          BY <5>2, FollowIs
        <5> QED
          BY <5>1, <5>2, <5>3
      <4>3. PICK g : g = Follow(f, LookedUp(r))
        OBVIOUS
      <4>4. g = [k \in 0..1 |-> IF k = 0 THEN f ELSE FindDir(g[k - 1], LookedUp(r)[k])]
        BY <4>2, <4>3 DEF Walk
      <4>5. g[0] = f /\ g[1] = FindDir(g[0], LookedUp(r)[1])
        BY <4>4
      <4> QED
        BY <3>2, <4>1, <4>3, <4>5
    <3>4. Follow(tree[n].file, LookedUp(r))[1] = NULL
      BY <1>15
    <3>5. CASE On(c) = 0
      <4>1. Lead(c) = FindDir(Lead(path[n]), r[1])
        BY <1>1, <3>1, <3>5, StepsHold DEF Steps, GoesOn
      <4>2. Lead(path[n]) = tree[n].file
        BY <1>1, <1>8, <3>1, LookupsHold DEF Lookups
      <4> QED
        BY <3>3, <3>4, <4>1, <4>2
    <3>6. CASE On(c) # 0
      BY <1>4, <1>5, <1>15, <3>6 DEF On
    <3> QED
      BY <3>5, <3>6
  <2>4. Shows(c, Len(r), root)
    BY <1>6, <1>7, <1>10, <1>12, <1>15, <2>2, <2>3 DEF Shows
  <2> QED
    BY <1>2, <1>3, <1>7, <2>1, <2>4 DEF VInv
<1> QED
  BY <1>6, <1>13, <1>14, <1>15 DEF MountDoes

----------------------------------------------------------------------------
(* The invariant is inductive                                              *)

\* The directory a new name goes to, and the path of a name in it.
LEMMA ParentIs ==
  \A p \in Paths : /\ Split(Parent(p)) \in Comps /\ Last(p) \in Name
                   /\ p \in Seq(Names) => Split(Parent(p)) = Front(p) /\ p = Longer(Front(p), Last(p)) /\ Split(p) = p
<1> SUFFICES ASSUME NEW p \in Paths
             PROVE  /\ Split(Parent(p)) \in Comps /\ Last(p) \in Name
                    /\ p \in Seq(Names) => Split(Parent(p)) = Front(p) /\ p = Longer(Front(p), Last(p)) /\ Split(p) = p
  OBVIOUS
<1>1. p \in Comps /\ p # <<>> /\ <<>> \in Comps
  BY PathIs, EmptySeq DEF Comps
<1>2. /\ Front(p) \in Comps /\ Last(p) \in Name /\ p = Longer(Front(p), Last(p))
      /\ Len(p) \in Nat /\ Len(Front(p)) = Len(p) - 1
  BY <1>1, LongerFront DEF Comps
<1>3. Split(Parent(p)) \in Comps
  BY <1>1, <1>2, RootIs DEF Parent, Split
<1>4. ASSUME p \in Seq(Names) PROVE Split(Parent(p)) = Front(p) /\ Split(p) = p
  <2>1. Front(p) \in Seq(Names)
    BY <1>1, <1>4, LongerFront
  <2>2. CASE Len(p) = 1
    <3>1. Front(p) = <<>>
      BY <1>2, <2>1, <2>2, EmptySeq
    <3> QED
      BY <1>1, <1>4, <2>2, <3>1, RootIs, SplitNamed DEF Parent
  <2>3. CASE Len(p) # 1
    <3>1. Front(p) # <<>>
      BY <1>2, <2>1, <2>3, EmptySeq
    <3> QED
      BY <1>1, <1>4, <2>1, <2>3, <3>1, SplitNamed DEF Parent
  <2> QED
    BY <2>2, <2>3
<1> QED
  BY <1>2, <1>3, <1>4

\* What vfs_mkdir and vfs_create do with a name in a directory.
Makes(p, name, kind, d) ==
  /\ d \in 1..Len(files) /\ Lead(Split(Parent(p))) = Node("dir", d)
  /\ name \in Name /\ kind \in {"dir", "file"} /\ Adds(d, name, kind)

LEMMA MakesIs ==
  ASSUME VInv, NEW p \in Paths, NEW name \in Name, NEW kind \in {"dir", "file"},
         Resolve(Parent(p)).kind = "dir", AddEntry(Resolve(Parent(p)).obj, name, kind)
  PROVE  \E d : Makes(p, name, kind, d)
<1>1. PICK home, path : Shape /\ Located(home, path)
  BY DEF VInv
<1>2. PICK f : f = Resolve(Parent(p))
  OBVIOUS
<1>3. f = Lead(Split(Parent(p)))
  BY <1>2 DEF Resolve
<1>4. IsNode(Len(files), f)
  BY <1>1, <1>3, ParentIs, FoundHolds DEF Found, Placed
<1>5. f.obj \in 1..Len(files) /\ f = Node("dir", f.obj)
  BY <1>2, <1>4, NodeKinds DEF Known
<1>6. Adds(f.obj, name, kind)
  BY <1>2 DEF AddEntry, Adds
<1>7. Makes(p, name, kind, f.obj)
  BY <1>3, <1>5, <1>6 DEF Makes
<1> QED
  BY <1>7

LEMMA MakesVInv == ASSUME VInv, NEW p \in Paths, NEW name, NEW kind, NEW d, Makes(p, name, kind, d) PROVE VInv'
<1>1. PICK home, path : Shape /\ Located(home, path)
  BY DEF VInv
<1>2. Shape'
  BY <1>1, AddsFiles DEF Makes
<1>3. \E more : Located(more, path)'
  BY <1>1, AddsLocated DEF Makes
<1> QED
  BY <1>2, <1>3 DEF VInv

\* The steps: a mount, an object, a device, or nothing of these changed.
Mounts(type, p) == type \in {"tmpfs", "devfs"} /\ p \in Paths /\ Mountable(p) /\ Mount(type, p) /\ devices' = devices
Stays == UNCHANGED <<tree, files, devices>>
StepKinds ==
  \/ \E p \in Paths : Resolve(Parent(p)).kind = "dir" /\ AddEntry(Resolve(Parent(p)).obj, Last(p), "dir")
  \/ \E p \in Paths, name \in {Empty, Junk} :
       Resolve(Parent(p)).kind = "dir" /\ AddEntry(Resolve(Parent(p)).obj, name, "file")
  \/ \E type, p : Mounts(type, p)
  \/ \E name \in Names : AddsDevice(name)
  \/ Stays

LEMMA StepIs == [Next]_vars => StepKinds
<1> SUFFICES ASSUME [Next]_vars PROVE StepKinds
  OBVIOUS
<1>1. CASE \E p \in Paths : VfsMkdir(p)
  BY <1>1 DEF VfsMkdir, StepKinds
<1>2. CASE \E p \in Paths : VfsCreate(p)
  BY <1>2 DEF VfsCreate, StepKinds
<1>3. CASE \E p \in Paths, type \in {"tmpfs", "devfs"} : VfsMount(type, p)
  BY <1>3 DEF VfsMount, StepKinds, Mounts
<1>4. CASE DevfsInstall
  <2>1. <<Dev>> \in Paths
    <3>1. <<Dev>> \in [1..1 -> Names \cup {Empty}] /\ 1 \in 1..MaxLength
      BY VfsAssumption DEF VfsAssumption
    <3> QED
      BY <3>1 DEF Paths
  <2>2. CASE Mountable(<<Dev>>)
    <3>1. Mounts("devfs", <<Dev>>)
      BY <1>4, <2>1, <2>2 DEF DevfsInstall, Mounts
    <3> QED
      BY <3>1 DEF StepKinds
  <2>3. CASE ~Mountable(<<Dev>>)
    BY <1>4, <2>3 DEF DevfsInstall, StepKinds, Stays
  <2> QED
    BY <2>2, <2>3
<1>5. CASE \E name \in Names : AddDevice(name)
  BY <1>5 DEF AddDevice, StepKinds, AddsDevice
<1>6. CASE UNCHANGED vars
  BY <1>6 DEF vars, StepKinds, Stays
<1> QED
  BY <1>1, <1>2, <1>3, <1>4, <1>5, <1>6 DEF Next

LEMMA NextVInv == VInv /\ [Next]_vars => VInv'
<1> SUFFICES ASSUME VInv, StepKinds PROVE VInv'
  BY StepIs
<1>1. CASE \E p \in Paths : Resolve(Parent(p)).kind = "dir" /\ AddEntry(Resolve(Parent(p)).obj, Last(p), "dir")
  <2>1. PICK p \in Paths : Resolve(Parent(p)).kind = "dir" /\ AddEntry(Resolve(Parent(p)).obj, Last(p), "dir")
    BY <1>1
  <2>2. \E d : Makes(p, Last(p), "dir", d)
    BY <2>1, MakesIs, ParentIs
  <2> QED
    BY <2>2, MakesVInv
<1>2. CASE \E p \in Paths, name \in {Empty, Junk} :
             Resolve(Parent(p)).kind = "dir" /\ AddEntry(Resolve(Parent(p)).obj, name, "file")
  <2>1. PICK p \in Paths, name \in {Empty, Junk} :
          Resolve(Parent(p)).kind = "dir" /\ AddEntry(Resolve(Parent(p)).obj, name, "file")
    BY <1>2
  <2>2. name \in Name
    BY DEF Name
  <2>3. \E d : Makes(p, name, "file", d)
    BY <2>1, <2>2, MakesIs
  <2> QED
    BY <2>3, MakesVInv
<1>3. CASE \E type, p : Mounts(type, p)
  BY <1>3, MountSees DEF Mounts
<1>4. CASE \E name \in Names : AddsDevice(name)
  <2>1. PICK home, path : Shape /\ Located(home, path)
    BY DEF VInv
  <2>2. Shape' /\ Located(home, path)'
    BY <1>4, <2>1, DeviceLocated
  <2> QED
    BY <2>2 DEF VInv
<1>5. CASE Stays
  <2>1. PICK home, path : Shape /\ Located(home, path)
    BY DEF VInv
  <2>2. Shape' /\ Located(home, path)'
    BY <1>5, <2>1 DEF Stays, Shape, Located
  <2> QED
    BY <2>2 DEF VInv
<1> QED
  BY <1>1, <1>2, <1>3, <1>4, <1>5 DEF StepKinds

\* Every directory of tmpfs has one place, and whatever vfs_mount, vfs_mkdir,
\* vfs_create and devfs_add_device do, lookups lead to it only from there.
THEOREM VfsInvariant == Spec => []VInv
<1> QED
  BY InitVInv, NextVInv, PTL DEF Spec

\* No directory is reached by two paths, however file systems are mounted in
\* and over each other and whatever vfs_mount leaves in the mount tree.
THEOREM OnePlaceHolds == Spec => []OnePlace
<1> QED
  BY VfsInvariant, InvOnePlace, PTL

\* readdir lists exactly what finddir finds, in tmpfs and devfs, and a device is
\* found in every directory of devices that no node of the mount tree hides.
THEOREM DirectoriesAgreeHolds == Spec => []DirectoriesAgree
<1>1. VInv => DirectoriesAgree
  BY InvListedIsFound, InvDevicesFound DEF DirectoriesAgree
<1> QED
  BY VfsInvariant, <1>1, PTL

----------------------------------------------------------------------------
(* What a call shows                                                       *)

\* Where the object made is found, and that nothing else changes.
MakesShow(p, name, kind, c) ==
  /\ c \in Comps /\ Lead(c).kind = "dir" /\ Lead(c) = Lead(Split(Parent(p)))
  /\ c = Split(Parent(p))
  /\ \A b \in Comps : \/ Lead(b)' = Lead(b)
                      \/ /\ b = Longer(c, name) /\ Lead(b) = NULL
                         /\ Lead(b)' = Node(kind, Len(files'))
  /\ Lead(Longer(c, name)) = NULL => Lead(Longer(c, name))' = Node(kind, Len(files'))
  /\ \A b \in Comps : Lead(b) # Node("dir", Len(files'))

LEMMA MakesLead ==
  ASSUME VInv, NEW p \in Paths, NEW name, NEW kind, NEW d, Makes(p, name, kind, d)
  PROVE  MakesShow(p, name, kind, Split(Parent(p)))
<1>1. PICK home, path : Shape /\ Located(home, path)
  BY DEF VInv
<1>2. PICK c : c = Split(Parent(p))
  OBVIOUS
<1>3. PICK n : n = Len(files)
  OBVIOUS
<1>4. /\ d \in 1..n /\ Lead(c) = Node("dir", d) /\ c \in Comps
      /\ name \in Name /\ kind \in {"dir", "file"} /\ Adds(d, name, kind)
  BY <1>2, <1>3, ParentIs DEF Makes
<1>5. Len(files') = n + 1 /\ n \in Nat
  BY <1>1, <1>3, <1>4, AddsFiles
<1>6. home[d] = c
  <2>1. Placed(n, home, c, Lead(c))
    BY <1>1, <1>3, <1>4, FoundHolds DEF Found
  <2> QED
    BY <1>4, <2>1, NodeFacts DEF Placed
<1>7. \A b \in Comps : Lead(b)' = IF New(home, d, name, b) THEN Node(kind, n + 1) ELSE Lead(b)
  BY <1>1, <1>3, <1>4, AddsLead
<1>8. Longer(c, name) \in Comps /\ Longer(c, name) # <<>>
  BY <1>4, LongerIs DEF Comps
<1>9. Lead(Longer(c, name)) = NULL => New(home, d, name, Longer(c, name))
  <2> SUFFICES ASSUME Lead(Longer(c, name)) = NULL, On(Longer(c, name)) # 0 PROVE FALSE
    BY <1>4, <1>6 DEF New
  <2>1. PICK k : k = On(Longer(c, name))
    OBVIOUS
  <2>2. k \in 1..Len(tree) /\ tree[k].file = NULL /\ path[k] = Longer(c, name)
    <3>1. k \in 0..Len(tree) /\ Lead(Longer(c, name)) = tree[k].file
      BY <1>1, <1>8, <2>1, LookupsHold DEF Lookups
    <3>2. path[k] = Longer(c, name)
      BY <1>1, <1>8, <2>1, FoundHolds DEF Found
    <3>3. Len(tree) \in Nat
      BY <1>1 DEF Shape
    <3> QED
      BY <2>1, <3>1, <3>2, <3>3
  <2>3. k # 1 /\ Len(tree) \in Nat
    BY <1>1, <1>8, <2>2 DEF Located, Shape
  <2>4. k \in 2..Len(tree)
    BY <2>2, <2>3
  <2> QED
    BY <1>1, <2>2, <2>4 DEF Located
<1>10. \A b \in Comps : Lead(b) # Node("dir", n + 1)
  <2> SUFFICES ASSUME NEW b \in Comps, Lead(b) = Node("dir", n + 1) PROVE FALSE
    OBVIOUS
  <2>1. IsNode(n, Lead(b))
    BY <1>1, <1>3, FoundHolds DEF Found, Placed
  <2>2. Lead(b).kind = "dir" /\ Lead(b).obj = n + 1
    BY NodeFacts
  <2>3. Lead(b).obj \in 1..n
    BY <2>1, <2>2, NodeKinds DEF Known
  <2> QED
    BY <1>5, <2>2, <2>3
<1>11. Lead(c).kind = "dir"
  BY <1>4, NodeFacts
<1>12. \A b \in Comps : \/ Lead(b)' = Lead(b)
                        \/ b = Longer(c, name) /\ Lead(b) = NULL /\ Lead(b)' = Node(kind, n + 1)
  BY <1>6, <1>7 DEF New
<1>13. Lead(Longer(c, name)) = NULL => Lead(Longer(c, name))' = Node(kind, n + 1)
  BY <1>7, <1>8, <1>9
<1> QED
  BY <1>2, <1>4, <1>5, <1>10, <1>11, <1>12, <1>13 DEF MakesShow

\* A path with names only can be given to a call.
LEMMA NamedIsPath == \A p \in NamedPaths \ {<<>>} : p \in Paths /\ p \in Seq(Names)
<1> SUFFICES ASSUME NEW p \in NamedPaths, p # <<>> PROVE p \in Paths /\ p \in Seq(Names)
  OBVIOUS
<1>1. p \in Seq(Names) /\ Len(p) \in Nat /\ Len(p) <= MaxLength
  BY NamedPathIs
<1>2. Len(p) # 0 /\ p \in [1..Len(p) -> Names]
  BY <1>1, EmptySeq, LenProperties
<1>3. Len(p) \in 1..MaxLength /\ p \in [1..Len(p) -> Names \cup {Empty}]
  BY <1>1, <1>2, VfsAssumption DEF VfsAssumption
<1> QED
  BY <1>1, <1>3 DEF Paths

\* vfs_mount, with at most one node to add, shows the root mounted at its path.
LEMMA MountShows ==
  ASSUME VInv, NEW type \in {"tmpfs", "devfs"}, NEW p \in Paths, VfsMount(type, p), Missing(p) <= 1
  PROVE  Resolve(p)' = MountRoot(type)
<1>1. Mountable(p) /\ Mount(type, p) /\ devices' = devices
  BY DEF VfsMount
<1>2. Shows(Split(p), Missing(p), MountRoot(type))
  BY <1>1, MountSees
<1>3. Missing(p) = 0 \/ Missing(p) = 1
  BY <1>2 DEF Shows
<1>4. Missing(p) = 1 => Lead(Split(p)) # NULL
  <2>1. CASE p = Root
    <3>1. Missing(p) = 0
      BY <2>1, RootIs, DeepestNone, EmptySeq DEF Missing
    <3> QED
      BY <3>1
  <2>2. CASE p # Root
    BY <1>1, <2>2, NodeFacts DEF Mountable, Resolve
  <2> QED
    BY <2>1, <2>2
<1>5. Lead(Split(p))' = MountRoot(type)
  BY <1>2, <1>3, <1>4 DEF Shows
<1> QED
  BY <1>5 DEF Resolve

\* vfs_mkdir shows the new directory where nothing was.
LEMMA MkdirShows ==
  ASSUME VInv, NEW p \in NamedPaths \ {<<>>}, VfsMkdir(p), Resolve(p) = NULL
  PROVE  Resolve(p)' = Node("dir", Len(files'))
<1>1. p \in Paths /\ p \in Seq(Names)
  BY NamedIsPath
<1>2. Resolve(Parent(p)).kind = "dir" /\ AddEntry(Resolve(Parent(p)).obj, Last(p), "dir")
  BY DEF VfsMkdir
<1>3. Last(p) \in Name /\ Split(Parent(p)) = Front(p) /\ p = Longer(Front(p), Last(p)) /\ Split(p) = p
  BY <1>1, ParentIs
<1>4. PICK d : Makes(p, Last(p), "dir", d)
  BY <1>1, <1>2, <1>3, MakesIs
<1>5. MakesShow(p, Last(p), "dir", Front(p))
  BY <1>1, <1>3, <1>4, MakesLead
<1>6. Lead(p) = NULL => Lead(p)' = Node("dir", Len(files'))
  BY <1>3, <1>5 DEF MakesShow
<1> QED
  BY <1>3, <1>6 DEF Resolve

\* A vfs_mount that succeeds, with at most one component missing, and a vfs_mkdir
\* at a free path are seen by the next lookup of that path.
THEOREM CallsShowHolds == Spec => CallsShow
<1>1. ASSUME VInv
      PROVE  [/\ \A type \in {"tmpfs", "devfs"}, p \in Paths :
                   VfsMount(type, p) /\ Missing(p) <= 1 => Resolve(p)' = MountRoot(type)
              /\ \A p \in NamedPaths \ {<<>>} :
                   VfsMkdir(p) /\ Resolve(p) = NULL => Resolve(p)' = Node("dir", Len(files'))]_vars
  BY <1>1, MountShows, MkdirShows
<1> QED
  BY VfsInvariant, <1>1, PTL DEF CallsShow

----------------------------------------------------------------------------
(* The vfs implements a space of names                                     *)

\* What the paths name is where they lead.
SpaceIs == /\ Space = [p \in NamedPaths |-> Space[p]]
           /\ \A p \in NamedPaths : Space[p] = Lead(p)

LEMMA SpaceHolds == SpaceIs
<1>1. \A p \in NamedPaths : Space[p] = Lead(p)
  BY AtIsLeadHolds DEF AtIsLead, Space
<1>2. At = [p \in NamedPaths |-> At[p]]
  BY DEF At
<1>3. Space = [p \in NamedPaths |-> Space[p]]
  BY <1>2 DEF Space
<1> QED
  BY <1>1, <1>3 DEF SpaceIs

LEMMA SpaceNext == SpaceIs'
BY SpaceHolds, PTL

\* Nothing is mounted yet: no path leads anywhere.
LEMMA InitNamespace == Init => NS!NInit
<1> SUFFICES ASSUME Init PROVE NS!NInit
  OBVIOUS
<1>1. Shape
  BY InitVInv DEF VInv
<1>2. Len(tree) = 1 /\ tree[1].file = NULL
  BY DEF Init
<1> DEFINE A == {c \in Comps : Lead(c) = NULL}
<1>3. <<>> \in A
  BY <1>1, <1>2, StepsHold DEF Steps, Starts
<1>4. ASSUME NEW c \in Comps, NEW x \in Name, c \in A PROVE Longer(c, x) \in A
  <2>1. GoesOn(c, x)
    BY <1>1, StepsHold DEF Steps
  <2>2. CASE On(Longer(c, x)) # 0
    <3>1. On(Longer(c, x)) = 1
      BY <1>2, <2>1, <2>2 DEF GoesOn
    <3> QED
      BY <1>2, <2>1, <3>1 DEF GoesOn
  <2>3. CASE On(Longer(c, x)) = 0
    <3>1. FindDir(NULL, x) = NULL
      BY NodeFacts DEF FindDir
    <3> QED
      BY <1>4, <2>1, <2>3, <3>1 DEF GoesOn
  <2> QED
    BY <2>2, <2>3
<1> HIDE DEF A
<1>5. Comps \subseteq A
  BY <1>3, <1>4, SeqInduction DEF Comps
<1>6. \A p \in NamedPaths : Lead(p) = NULL
  BY <1>5, NamedPathIs DEF A
<1>7. Space = [p \in NamedPaths |-> NULL]
  BY <1>6, SpaceHolds DEF SpaceIs
<1> QED
  BY <1>7 DEF NS!NInit

\* The paths that name something else after a step.
Changed == {q \in NamedPaths : Space'[q] # Space[q]}

LEMMA NothingChanges == Changed = {} => Space' = Space
<1> SUFFICES ASSUME Changed = {} PROVE Space' = Space
  OBVIOUS
<1>1. Space = [p \in NamedPaths |-> Space[p]] /\ Space' = [p \in NamedPaths |-> Space'[p]]
  BY SpaceHolds, SpaceNext DEF SpaceIs
<1>2. \A p \in NamedPaths : Space'[p] = Space[p]
  BY DEF Changed
<1> QED
  BY <1>1, <1>2

LEMMA ChangedIs ==
  /\ Changed \subseteq NamedPaths
  /\ \A p \in NamedPaths : /\ Space[p] = Lead(p) /\ Space'[p] = Lead(p)' /\ p \in Comps /\ p \in Seq(Names)
                           /\ p \in Changed <=> Lead(p)' # Lead(p)
<1>1. \A p \in NamedPaths : Space[p] = Lead(p) /\ Space'[p] = Lead(p)'
  BY SpaceHolds, SpaceNext DEF SpaceIs
<1> QED
  BY <1>1, NamedPathIs DEF Changed

\* A beginning of a path with names only is one.
LEMMA NamedPrefix == \A c \in Comps, b \in NamedPaths : IsPrefix(c, b) => c \in NamedPaths
<1> SUFFICES ASSUME NEW c \in Comps, NEW b \in NamedPaths, IsPrefix(c, b) PROVE c \in NamedPaths
  OBVIOUS
<1>1. PICK n : n = Len(c)
  OBVIOUS
<1>2. b \in Seq(Names) /\ Len(b) \in Nat /\ Len(b) <= MaxLength /\ n \in Nat
  BY <1>1, NamedPathIs, LenProperties DEF Comps
<1>3. n <= Len(b) /\ SubSeq(c, 1, n) = SubSeq(b, 1, n)
  BY <1>1 DEF IsPrefix
<1>4. \A i \in 1..n : b[i] \in Names /\ c[i] \in Name
  <2>1. \A i \in 1..Len(b) : b[i] \in Names
    BY <1>2, ElementOfSeq
  <2> QED
    BY <1>1, <1>2, <1>3, <2>1, ElementOfSeq DEF Comps
<1>5. \A i \in 1..n : c[i] = b[i]
  <2>1. \A i \in 1..(n - 1 + 1) : SubSeq(b, 1, n)[i] = b[1 + i - 1]
    <3>1. \A i \in 1..n : b[i] \in Names
      BY <1>4
    <3> QED
      BY <1>2, <3>1, SubSeqProperties
  <2>2. \A i \in 1..(n - 1 + 1) : SubSeq(c, 1, n)[i] = c[1 + i - 1]
    <3>1. \A i \in 1..n : c[i] \in Name
      BY <1>4
    <3> QED
      BY <1>2, <3>1, SubSeqProperties
  <2> DEFINE s == SubSeq(c, 1, n)
  <2>3. \A i \in 1..n : i \in 1..(n - 1 + 1) /\ 1 + i - 1 = i
    BY <1>2
  <2>4. s = SubSeq(b, 1, n)
    BY <1>3
  <2>5. \A i \in 1..n : s[i] = c[i]
    BY <2>2, <2>3
  <2>6. \A i \in 1..n : s[i] = b[i]
    BY <2>1, <2>3, <2>4
  <2> QED
    BY <2>5, <2>6
<1>6. c \in Seq(Names)
  <2>1. c \in [1..n -> Names]
    <3>1. c \in [1..n -> Name]
      BY <1>1, LenProperties DEF Comps
    <3> QED
      BY <1>4, <1>5, <3>1
  <2> QED
    BY <1>2, <2>1, SeqDef
<1>7. Len(c) <= MaxLength
  BY <1>1, <1>2, <1>3, VfsAssumption DEF VfsAssumption
<1> QED
  BY <1>6, <1>7, NamedPathIs

\* A mount changes what lies at its place and below, or nothing.
LEMMA MountNamespace ==
  ASSUME VInv, NEW type, NEW p, Mounts(type, p)
  PROVE  Changed = {} \/ \E c \in Changed : NS!NMount(c, Changed)
<1>1. PICK c : c = Split(p)
  OBVIOUS
<1>2. PICK root : root = MountRoot(type)
  OBVIOUS
<1>3. PICK m : m = Missing(p)
  OBVIOUS
<1>4. Shows(c, m, root) /\ p \in Paths /\ Mountable(p)
  BY <1>1, <1>2, <1>3, MountSees DEF Mounts
<1>5. \A b \in NamedPaths : b \in Seq(Names) /\ b \in Comps
  BY NamedPathIs
<1>6. CASE \A b \in Seq(Names) : Lead(b)' = Lead(b)
  BY <1>5, <1>6, ChangedIs
<1>7. CASE /\ Lead(c)' = root /\ Lead(c) # root
           /\ \A b \in Seq(Names) : IsPrefix(c, b) \/ Lead(b)' = Lead(b)
  <2> SUFFICES ASSUME Changed # {} PROVE \E q \in Changed : NS!NMount(q, Changed)
    OBVIOUS
  <2>1. \A b \in Changed : IsPrefix(c, b)
    BY <1>5, <1>7, ChangedIs
  <2>2. c \in NamedPaths
    BY <1>4, <2>1, ChangedIs, NamedPrefix DEF Shows
  <2>3. c \in Changed /\ Space[c] = Lead(c) /\ Space'[c] = root
    BY <1>7, <2>2, ChangedIs
  <2>4. IF c = <<>> THEN Space[c] = NULL ELSE Space[c].kind \in {"dir", "devfs"}
    <3>1. CASE p = Root
      <4>1. c = <<>> /\ tree[1].file = NULL
        BY <1>1, <1>4, <3>1, RootIs DEF Mountable
      <4>2. Lead(c) = tree[1].file
        BY <4>1, StepsHold DEF Steps, Starts, VInv
      <4> QED
        BY <2>3, <4>1, <4>2
    <3>2. CASE p # Root
      <4>1. c = p /\ c # <<>>
        BY <1>1, <1>4, <3>2, PathIs DEF Split
      <4>2. Lead(c).kind \in {"dir", "devfs"}
        BY <1>1, <1>4, <3>2 DEF Mountable, Resolve
      <4> QED
        BY <2>3, <4>1, <4>2
    <3> QED
      BY <3>1, <3>2
  <2>5. root.kind \in {"dir", "devfs"} /\ (root.kind = "devfs" \/ \A q \in NamedPaths : Space[q] # root)
    BY <1>4, ChangedIs DEF Shows
  <2>6. \A q \in Changed : NS!IsPrefix(c, q)
    BY <2>1 DEF IsPrefix, NS!IsPrefix
  <2>7. NS!NMount(c, Changed)
    BY <2>3, <2>4, <2>5, <2>6 DEF NS!NMount, NS!IsDirectory, NS!IsFresh
  <2> QED
    BY <2>3, <2>7
<1> QED
  BY <1>4, <1>6, <1>7 DEF Shows

\* mkdir adds one name; the names of create are no names of callers.
LEMMA MakesNamespace ==
  ASSUME VInv, NEW p \in Paths, NEW name, NEW kind, NEW d, Makes(p, name, kind, d), kind = "dir" \/ name \notin Names
  PROVE  Changed = {} \/ \E c \in Changed : NS!NMkdir(c, Changed)
<1>1. PICK c : c = Split(Parent(p))
  OBVIOUS
<1>2. MakesShow(p, name, kind, c) /\ name \in Name
  BY <1>1, MakesLead DEF Makes
<1>3. PICK l : l = Longer(c, name)
  OBVIOUS
<1>4. \A b \in NamedPaths : Lead(b)' = Lead(b) \/ (b = l /\ Lead(b) = NULL /\ Lead(b)' = Node(kind, Len(files')))
  BY <1>2, <1>3, NamedPathIs DEF MakesShow
<1>5. Changed = {} \/ Changed = {l}
  BY <1>4, ChangedIs
<1>6. CASE Changed = {l}
  <2>1. l \in NamedPaths /\ Lead(l) = NULL /\ Lead(l)' = Node(kind, Len(files'))
    BY <1>4, <1>6, ChangedIs
  <2>2. l # <<>> /\ c \in Comps
    BY <1>2, <1>3, LongerIs DEF MakesShow, Comps
  <2>3. Front(l) \in Seq(Names) /\ Last(l) \in Names /\ l = Longer(Front(l), Last(l))
        /\ Len(l) \in Nat /\ Len(l) >= 1 /\ Len(Front(l)) = Len(l) - 1 /\ Len(l) <= MaxLength
    BY <2>1, <2>2, NamedPathIs, LongerFront
  <2>4. Front(l) \in NamedPaths
    <3>1. Len(Front(l)) <= MaxLength
      BY <2>3, VfsAssumption DEF VfsAssumption
    <3> QED
      BY <2>3, <3>1, NamedPathIs
  <2>5. Front(l) = c /\ Last(l) = name
    <3>1. PICK f : f = Front(l)
      OBVIOUS
    <3>2. PICK e : e = Last(l)
      OBVIOUS
    <3>3. f \in Comps /\ e \in Name /\ Longer(c, name) = Longer(f, e)
      BY <1>3, <2>3, <2>4, <3>1, <3>2, NamedPathIs DEF Name
    <3>4. c = f /\ name = e
      BY <1>2, <2>2, <3>3, LongerOnce DEF Comps
    <3> QED
      BY <3>1, <3>2, <3>4
  <2>6. kind = "dir"
    BY <2>3, <2>5
  <2>7. Space[l] = NULL /\ Space'[l] = Node("dir", Len(files')) /\ Space[Front(l)].kind = "dir"
    BY <1>2, <2>1, <2>4, <2>5, <2>6, ChangedIs DEF MakesShow
  <2>8. \A q \in NamedPaths : Space[q] # Node("dir", Len(files'))
    BY <1>2, ChangedIs DEF MakesShow
  <2>9. NS!Front(l) = Front(l)
    BY DEF Front, NS!Front
  <2>10. NS!NMkdir(l, Changed)
    BY <1>6, <2>2, <2>7, <2>8, <2>9, NodeFacts DEF NS!NMkdir, NS!IsDirectory, NS!IsFresh
  <2> QED
    BY <1>6, <2>10
<1> QED
  BY <1>5, <1>6

\* A device appears where its name is free.
LEMMA DeviceNamespace ==
  ASSUME VInv, NEW name \in Names, AddsDevice(name)
  PROVE  NS!NAddDevice(Changed)
<1>1. PICK home, path : Shape /\ Located(home, path)
  BY DEF VInv
<1>2. ASSUME NEW q \in Changed
      PROVE  /\ q # <<>> /\ Space[q] = NULL /\ Space[NS!Front(q)].kind = "devfs"
             /\ Space'[q].kind = "device"
  <2>1. /\ q \in NamedPaths /\ q \in Comps /\ q \in Seq(Names) /\ Space[q] = Lead(q) /\ Space'[q] = Lead(q)'
        /\ Lead(q)' # Lead(q)
    BY ChangedIs
  <2>2. NewDevice(name, q) /\ Lead(q)' = Node("device", Len(devices) + 1)
    BY <1>1, <2>1, DeviceLead
  <2>3. PICK b \in Comps : q = Longer(b, name) /\ Lead(b) = DevRoot
    BY <2>2 DEF NewDevice
  <2>4. q # <<>>
    BY <2>3, LongerIs DEF Comps, Name
  <2>5. /\ Front(q) \in Seq(Names) /\ Last(q) \in Names /\ q = Longer(Front(q), Last(q))
        /\ Len(q) \in Nat /\ Len(Front(q)) = Len(q) - 1 /\ Len(q) <= MaxLength
    BY <2>1, <2>4, LongerFront, NamedPathIs
  <2>6. Front(q) \in NamedPaths
    <3>1. Len(Front(q)) <= MaxLength
      BY <2>5, VfsAssumption DEF VfsAssumption
    <3> QED
      BY <2>5, <3>1, NamedPathIs
  <2>7. Front(q) = b
    <3>1. PICK f : f = Front(q)
      OBVIOUS
    <3>2. PICK e : e = Last(q)
      OBVIOUS
    <3>3. f \in Comps /\ e \in Name /\ name \in Name /\ Longer(b, name) = Longer(f, e)
      BY <2>3, <2>5, <2>6, <3>1, <3>2, NamedPathIs DEF Name
    <3>4. b = f
      BY <3>3, LongerOnce DEF Comps
    <3> QED
      BY <3>1, <3>4
  <2>8. Space[Front(q)] = DevRoot
    BY <2>3, <2>6, <2>7, ChangedIs
  <2>9. NS!Front(q) = Front(q)
    BY DEF Front, NS!Front
  <2>10. Lead(q) = NULL
    BY <2>2 DEF NewDevice
  <2> QED
    BY <2>1, <2>2, <2>4, <2>8, <2>9, <2>10, NodeFacts
<1> QED
  BY <1>2 DEF NS!NAddDevice

\* Each step is a step of Namespace, or changes no name.
LEMMA StepNamespace == VInv /\ [Next]_vars => [NS!NNext]_Space
<1> SUFFICES ASSUME VInv, StepKinds, Changed # {} PROVE NS!NNext
  BY StepIs, NothingChanges
<1>1. Changed = {q \in NamedPaths : Space'[q] # Space[q]}
  BY DEF Changed
<1>2. CASE \E p \in Paths : Resolve(Parent(p)).kind = "dir" /\ AddEntry(Resolve(Parent(p)).obj, Last(p), "dir")
  <2>1. PICK p \in Paths : Resolve(Parent(p)).kind = "dir" /\ AddEntry(Resolve(Parent(p)).obj, Last(p), "dir")
    BY <1>2
  <2>2. PICK d : Makes(p, Last(p), "dir", d)
    BY <2>1, MakesIs, ParentIs
  <2>3. \E c \in Changed : NS!NMkdir(c, Changed)
    BY <2>2, MakesNamespace
  <2> QED
    BY <1>1, <2>3 DEF NS!NNext
<1>3. CASE \E p \in Paths, name \in {Empty, Junk} :
             Resolve(Parent(p)).kind = "dir" /\ AddEntry(Resolve(Parent(p)).obj, name, "file")
  <2>1. PICK p \in Paths, name \in {Empty, Junk} :
          Resolve(Parent(p)).kind = "dir" /\ AddEntry(Resolve(Parent(p)).obj, name, "file")
    BY <1>3
  <2>2. name \in Name /\ name \notin Names
    BY VfsAssumption DEF Name, VfsAssumption
  <2>3. PICK d : Makes(p, name, "file", d)
    BY <2>1, <2>2, MakesIs
  <2>4. \E c \in Changed : NS!NMkdir(c, Changed)
    BY <2>2, <2>3, MakesNamespace
  <2> QED
    BY <1>1, <2>4 DEF NS!NNext
<1>4. CASE \E type, p : Mounts(type, p)
  <2>1. \E c \in Changed : NS!NMount(c, Changed)
    BY <1>4, MountNamespace
  <2> QED
    BY <1>1, <2>1 DEF NS!NNext
<1>5. CASE \E name \in Names : AddsDevice(name)
  <2>1. NS!NAddDevice(Changed)
    BY <1>5, DeviceNamespace
  <2> QED
    BY <1>1, <2>1 DEF NS!NNext
<1>6. CASE Stays
  <2>1. PICK home, path : Shape /\ Located(home, path)
    BY DEF VInv
  <2>2. Shape'
    BY <2>1, <1>6 DEF Stays, Shape
  <2>3. \A b \in Comps : Lead(b)' = Lead(b)
    BY <1>6, <2>1, <2>2, LeadsStay DEF Stays
  <2>4. Changed = {}
    BY <2>3, ChangedIs
  <2> QED
    BY <2>4
<1> QED
  BY <1>2, <1>3, <1>4, <1>5, <1>6 DEF StepKinds

\* The mount tree with the file systems below it implements one space of names:
\* a mount hides only what is below it, mkdir adds one directory, a new device
\* appears where its name is free, and create, for callers, nowhere.
THEOREM NamespaceHolds == Spec => NamespaceSpec
<1> QED
  BY InitNamespace, StepNamespace, VfsInvariant, PTL DEF Spec, NamespaceSpec, NS!NSpec
============================================================================
