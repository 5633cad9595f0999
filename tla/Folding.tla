------------------------------ MODULE Folding -------------------------------
(***************************************************************************)
(* What folds compute, for any operator: a module that proves something    *)
(* about a fold instantiates this one with the operator folded.  (No       *)
(* prover applies a theorem that has an operator as a parameter.)          *)
(***************************************************************************)
EXTENDS Integers, Sequences, SequencesExt, FiniteSetTheorems, WellFoundedInduction, TLAPS

CONSTANT Op(_, _)

Folded(base, seq) == FoldLeft(Op, base, seq)

\* The values a fold goes through: run[i] is what it has after i elements.
Runs(run, base, seq, n) ==
  /\ DOMAIN run = 0..n /\ run[0] = base
  /\ \A i \in 1..n : run[i] = Op(run[i - 1], seq[i])

\* From the other end: run[i] is what it has after the elements from i on.
FoldedRight(seq, base) == FoldRight(LAMBDA x, y : Op(y, x), seq, base)
RunsRight(run, base, seq, n) ==
  /\ DOMAIN run = 1..(n + 1) /\ run[n + 1] = base
  /\ \A i \in 1..n : run[i] = Op(run[i + 1], seq[i])

----------------------------------------------------------------------------
(* Induction                                                               *)

\* A set of numbers that is not empty has a least one.
LEMMA LeastOf ==
  ASSUME NEW T, T \subseteq Nat, T # {}
  PROVE  \E x \in T : \A y \in T : x <= y
<1>1. IsWellFoundedOn(OpToRel(<, Nat), Nat)
  BY NatLessThanWellFounded
<1>2. PICK x \in T : \A y \in T : ~(<<y, x>> \in OpToRel(<, Nat))
  BY <1>1, WFMin
<1>3. \A y \in T : <<y, x>> \in OpToRel(<, Nat) <=> y < x
  BY DEF OpToRel
<1>4. ASSUME NEW y \in T PROVE x <= y
  <2>1. ~(y < x)
    BY <1>2, <1>3
  <2>2. x \in Nat /\ y \in Nat
    OBVIOUS
  <2> QED
    BY <2>1, <2>2
<1> QED
  BY <1>4

\* Induction over the numbers up to n.
LEMMA UpTo ==
  ASSUME NEW n \in Nat, NEW A, 0 \in A, \A i \in 1..n : i - 1 \in A => i \in A
  PROVE  0..n \subseteq A
<1> DEFINE T == (0..n) \ A
<1>1. CASE T = {}
  BY <1>1
<1>2. CASE T # {}
  <2>1. PICK x \in T : \A y \in T : x <= y
    <3>1. T \subseteq Nat
      OBVIOUS
    <3> HIDE DEF T
    <3> QED
      BY <1>2, <3>1, LeastOf
  <2>2. x # 0 /\ x \in 1..n /\ x - 1 \in 0..n /\ x - 1 \notin T
    BY <2>1
  <2> QED
    BY <2>2
<1> QED
  BY <1>1, <1>2

----------------------------------------------------------------------------
(* Folds                                                                   *)

\* A recursion over the subsets of D, of which pick takes an element.
Solves(f, D, base, val, pick) ==
  /\ f = [s \in SUBSET D |-> f[s]]
  /\ \A s \in SUBSET D : f[s] = IF s = {} THEN base ELSE Op(f[s \ {pick[s]}], val[pick[s]])

\* It has a solution.
LEMMA Solved ==
  ASSUME NEW D, IsFiniteSet(D), NEW base, NEW val,
         NEW pick, \A s \in SUBSET D : s # {} => pick[s] \in s
  PROVE  \E f : Solves(f, D, base, val, pick)
<1> DEFINE N == Cardinality(D)
           Small(k) == {s \in SUBSET D : Cardinality(s) <= k}
           At(f, s) == IF s = {} THEN base ELSE Op(f[s \ {pick[s]}], val[pick[s]])
           A == {k \in 0..N : \E f : DOMAIN f = Small(k) /\ \A s \in Small(k) : f[s] = At(f, s)}
<1>1. N \in Nat /\ \A s \in SUBSET D : IsFiniteSet(s) /\ Cardinality(s) \in 0..N
  <2>1. N \in Nat
    BY FS_CardinalityType
  <2>2. ASSUME NEW s \in SUBSET D PROVE IsFiniteSet(s) /\ Cardinality(s) \in 0..N
    <3>1. IsFiniteSet(s) /\ Cardinality(s) <= N
      BY FS_Subset
    <3> QED
      BY <2>1, <3>1, FS_CardinalityType
  <2> QED
    BY <2>1, <2>2
<1>2. ASSUME NEW s \in SUBSET D, s # {}
      PROVE  s \ {pick[s]} \in SUBSET D /\ Cardinality(s \ {pick[s]}) = Cardinality(s) - 1
  <2>1. pick[s] \in s
    BY <1>2
  <2> QED
    BY <1>1, <2>1, FS_RemoveElement
<1>3. 0 \in A
  <2> DEFINE f == [s \in Small(0) |-> base]
  <2>1. \A s \in Small(0) : s = {}
    BY <1>1, FS_EmptySet
  <2>2. DOMAIN f = Small(0) /\ \A s \in Small(0) : f[s] = At(f, s)
    BY <2>1
  <2>3. 0 \in 0..N
    BY <1>1
  <2> HIDE DEF f
  <2> QED
    BY <2>2, <2>3
<1>4. ASSUME NEW k \in 1..N, k - 1 \in A PROVE k \in A
  <2>1. PICK f : DOMAIN f = Small(k - 1) /\ \A s \in Small(k - 1) : f[s] = At(f, s)
    BY <1>4
  <2> DEFINE g == [s \in Small(k) |-> At(f, s)]
  <2>2. ASSUME NEW s \in Small(k) PROVE g[s] = At(g, s)
    <3>1. CASE s = {}
      BY <3>1
    <3>2. CASE s # {}
      <4> DEFINE r == s \ {pick[s]}
      <4>1. r \in SUBSET D /\ Cardinality(r) = Cardinality(s) - 1
        BY <1>2, <3>2
      <4>2. r \in Small(k - 1) /\ r \in Small(k)
        BY <1>1, <4>1
      <4>3. g[r] = f[r]
        BY <2>1, <4>2
      <4> HIDE DEF r, g
      <4>4. At(g, s) = Op(g[r], val[pick[s]]) /\ At(f, s) = Op(f[r], val[pick[s]])
        BY <3>2 DEF r
      <4> QED
        BY <4>3, <4>4 DEF g
    <3> QED
      BY <3>1, <3>2
  <2>3. DOMAIN g = Small(k)
    OBVIOUS
  <2>4. k \in 0..N
    BY <1>1
  <2> HIDE DEF g, Small, At
  <2>5. \E h : DOMAIN h = Small(k) /\ \A s \in Small(k) : h[s] = At(h, s)
    BY <2>2, <2>3
  <2> QED
    BY <2>4, <2>5
<1>5. N \in A
  <2> HIDE DEF A
  <2> QED
    BY <1>1, <1>3, <1>4, UpTo
<1>6. PICK f : DOMAIN f = Small(N) /\ \A s \in Small(N) : f[s] = At(f, s)
  BY <1>5
<1>7. Small(N) = SUBSET D
  BY <1>1
<1> DEFINE g == [s \in SUBSET D |-> f[s]]
<1>8. ASSUME NEW s \in SUBSET D PROVE g[s] = At(g, s)
  <2>1. CASE s = {}
    BY <1>6, <1>7, <2>1
  <2>2. CASE s # {}
    <3> DEFINE r == s \ {pick[s]}
    <3>1. r \in SUBSET D
      BY <1>2, <2>2
    <3>2. g[r] = f[r] /\ g[s] = f[s]
      BY <3>1
    <3> HIDE DEF r, g
    <3>3. At(g, s) = Op(g[r], val[pick[s]]) /\ At(f, s) = Op(f[r], val[pick[s]])
      BY <2>2 DEF r
    <3> QED
      BY <1>6, <1>7, <3>2, <3>3
  <2> QED
    BY <2>1, <2>2
<1>9. g = [s \in SUBSET D |-> g[s]]
  OBVIOUS
<1> HIDE DEF g
<1>10. Solves(g, D, base, val, pick)
  BY <1>8, <1>9 DEF Solves
<1> QED
  BY <1>10

\* The greatest of the first numbers.
LEMMA MaxUpTo == ASSUME NEW i \in Nat, i > 0 PROVE Max(1..i) = i /\ (1..i) \ {i} = 1..(i - 1)
<1>1. \A x \in 1..i : (\A y \in 1..i : x >= y) <=> x = i
  OBVIOUS
<1>2. Max(1..i) \in 1..i /\ \A y \in 1..i : Max(1..i) >= y
  BY i \in 1..i, \A y \in 1..i : i >= y DEF Max
<1> QED
  BY <1>1, <1>2

\* A finite set of numbers has a greatest one.
LEMMA MaxIn ==
  ASSUME NEW n \in Nat, NEW s \in SUBSET (1..n), s # {}
  PROVE  Max(s) \in s
<1> DEFINE T == {n - x : x \in s}
<1>1. T \subseteq Nat /\ T # {}
  <2>1. \A x \in s : x \in 1..n /\ n - x \in Nat
    OBVIOUS
  <2> QED
    BY <2>1
<1>2. PICK t \in T : \A u \in T : t <= u
  <2> HIDE DEF T
  <2> QED
    BY <1>1, LeastOf
<1>3. PICK x \in s : t = n - x
  OBVIOUS
<1>4. ASSUME NEW y \in s PROVE x >= y
  <2>1. n - y \in T /\ x \in Nat /\ y \in Nat
    OBVIOUS
  <2>2. n - x <= n - y
    BY <1>2, <1>3, <2>1
  <2> QED
    BY <2>1, <2>2
<1> QED
  BY <1>4 DEF Max

\* A fold goes through the elements in their order.
LEMMA FoldedIs ==
  ASSUME NEW base, NEW seq, NEW n \in Nat, DOMAIN seq = 1..n
  PROVE  \E run : Runs(run, base, seq, n) /\ Folded(base, seq) = run[n]
<1> DEFINE D == 1..n
           pick == [s \in SUBSET D |-> Max(s)]
           Step(f) == [s \in SUBSET D |-> IF s = {} THEN base ELSE Op(f[s \ {Max(s)}], seq[Max(s)])]
           iter == CHOOSE f : f = Step(f)
<1>1. Folded(base, seq) = iter[D]
  BY DEF Folded, FoldLeft, MapThenFoldSet
<1>2. \E f : f = Step(f)
  <2>1. IsFiniteSet(D)
    BY FS_Interval
  <2>2. \A s \in SUBSET D : s # {} => pick[s] \in s
    BY MaxIn
  <2>3. PICK f : Solves(f, D, base, seq, pick)
    <3> HIDE DEF D, pick
    <3> QED
      BY <2>1, <2>2, Solved
  <2>4. f = Step(f)
    <3>1. \A s \in SUBSET D : pick[s] = Max(s)
      OBVIOUS
    <3>2. \A s \in SUBSET D : f[s] = IF s = {} THEN base ELSE Op(f[s \ {Max(s)}], seq[Max(s)])
      BY <2>3, <3>1 DEF Solves
    <3> QED
      BY <2>3, <3>2 DEF Solves
  <2> QED
    BY <2>4
<1>3. iter = Step(iter)
  <2> HIDE DEF Step
  <2> QED
    BY <1>2
<1> DEFINE run == [i \in 0..n |-> iter[1..i]]
<1>4. run[0] = base
  <2>1. 1..0 = {} /\ {} \in SUBSET D
    OBVIOUS
  <2> HIDE DEF iter
  <2> QED
    BY <1>3, <2>1
<1>5. ASSUME NEW i \in 1..n PROVE run[i] = Op(run[i - 1], seq[i])
  <2>1. Max(1..i) = i /\ (1..i) \ {i} = 1..(i - 1)
    BY MaxUpTo
  <2>2. 1..i \in SUBSET D /\ 1..i # {}
    <3>1. i \in 1..i /\ \A x \in 1..i : x \in 1..n
      OBVIOUS
    <3> QED
      BY <3>1
  <2> HIDE DEF iter
  <2>3. iter[1..i] = Op(iter[(1..i) \ {Max(1..i)}], seq[Max(1..i)])
    BY <1>3, <2>2
  <2>4. i \in 0..n /\ i - 1 \in 0..n
    OBVIOUS
  <2>5. run[i] = iter[1..i] /\ run[i - 1] = iter[1..(i - 1)]
    BY <2>4
  <2> HIDE DEF run
  <2> QED
    BY <2>1, <2>3, <2>5
<1>6. run[n] = iter[D] /\ DOMAIN run = 0..n
  OBVIOUS
<1> HIDE DEF run
<1> QED
  BY <1>1, <1>4, <1>5, <1>6 DEF Runs

\* These values are the only ones.
LEMMA RunsOnce ==
  ASSUME NEW base, NEW seq, NEW n \in Nat, NEW run, Runs(run, base, seq, n),
         NEW other, NEW m \in Nat, Runs(other, base, seq, m), n <= m
  PROVE  \A i \in 0..n : run[i] = other[i]
<1> DEFINE A == {i \in 0..n : run[i] = other[i]}
<1>1. 0 \in A
  BY DEF Runs
<1>2. ASSUME NEW i \in 1..n, i - 1 \in A PROVE i \in A
  BY <1>2 DEF Runs
<1> HIDE DEF A
<1>3. 0..n \subseteq A
  BY <1>1, <1>2, UpTo
<1> QED
  BY <1>3 DEF A

\* So a fold is what is reached by going through the elements.
LEMMA FoldedBy ==
  ASSUME NEW base, NEW seq, NEW n \in Nat, DOMAIN seq = 1..n, NEW run, Runs(run, base, seq, n)
  PROVE  Folded(base, seq) = run[n]
<1>1. PICK other : Runs(other, base, seq, n) /\ Folded(base, seq) = other[n]
  BY FoldedIs
<1>2. run[n] = other[n]
  BY <1>1, RunsOnce
<1> QED
  BY <1>1, <1>2

\* A fold over nothing.
LEMMA FoldedEmpty == ASSUME NEW base PROVE Folded(base, <<>>) = base
<1>1. DOMAIN <<>> = 1..0
  OBVIOUS
<1>2. PICK run : Runs(run, base, <<>>, 0) /\ Folded(base, <<>>) = run[0]
  BY <1>1, FoldedIs
<1> QED
  BY <1>2 DEF Runs

\* One element more.
LEMMA FoldedAppend ==
  ASSUME NEW base, NEW S, NEW seq \in Seq(S), NEW x
  PROVE  Folded(base, Append(seq, x)) = Op(Folded(base, seq), x)
<1> DEFINE n == Len(seq)
           more == Append(seq, x)
<1>1. n \in Nat /\ DOMAIN seq = 1..n /\ DOMAIN more = 1..(n + 1) /\ more[n + 1] = x
  OBVIOUS
<1>2. \A i \in 1..n : more[i] = seq[i]
  OBVIOUS
<1> HIDE DEF more, n
<1>3. PICK run : Runs(run, base, more, n + 1) /\ Folded(base, more) = run[n + 1]
  BY <1>1, n + 1 \in Nat, FoldedIs
<1> DEFINE before == [i \in 0..n |-> run[i]]
<1>4. Runs(before, base, seq, n) /\ before[n] = run[n]
  BY <1>1, <1>2, <1>3 DEF Runs
<1>5. Folded(base, seq) = run[n]
  BY <1>1, <1>4, FoldedBy
<1>6. run[n + 1] = Op(run[n], x)
  BY <1>1, <1>3 DEF Runs
<1> QED
  BY <1>3, <1>5, <1>6 DEF more

----------------------------------------------------------------------------
(* From the last element to the first                                      *)

\* The least of the last numbers.
LEMMA MinFrom == ASSUME NEW n \in Nat, NEW i \in 1..n PROVE Min(i..n) = i /\ (i..n) \ {i} = (i + 1)..n
<1>1. \A x \in i..n : (\A y \in i..n : x <= y) <=> x = i
  OBVIOUS
<1>2. Min(i..n) \in i..n /\ \A y \in i..n : Min(i..n) <= y
  BY i \in i..n, \A y \in i..n : i <= y DEF Min
<1> QED
  BY <1>1, <1>2

\* A set of numbers has a least one.
LEMMA MinIn ==
  ASSUME NEW n \in Nat, NEW s \in SUBSET (1..n), s # {}
  PROVE  Min(s) \in s
<1>1. s \subseteq Nat
  OBVIOUS
<1>2. PICK x \in s : \A y \in s : x <= y
  BY <1>1, LeastOf
<1> QED
  BY <1>2 DEF Min

\* A fold from the right goes through the elements from the last to the first.
LEMMA FoldedRightIs ==
  ASSUME NEW base, NEW seq, NEW n \in Nat, DOMAIN seq = 1..n
  PROVE  \E run : RunsRight(run, base, seq, n) /\ FoldedRight(seq, base) = run[1]
<1> DEFINE D == 1..n
           pick == [s \in SUBSET D |-> Min(s)]
           Step(f) == [s \in SUBSET D |-> IF s = {} THEN base ELSE Op(f[s \ {Min(s)}], seq[Min(s)])]
           iter == CHOOSE f : f = Step(f)
<1>1. FoldedRight(seq, base) = iter[D]
  BY DEF FoldedRight, FoldRight, MapThenFoldSet
<1>2. \E f : f = Step(f)
  <2>1. IsFiniteSet(D)
    BY FS_Interval
  <2>2. \A s \in SUBSET D : s # {} => pick[s] \in s
    BY MinIn
  <2>3. PICK f : Solves(f, D, base, seq, pick)
    <3> HIDE DEF D, pick
    <3> QED
      BY <2>1, <2>2, Solved
  <2>4. f = Step(f)
    <3>1. \A s \in SUBSET D : pick[s] = Min(s)
      OBVIOUS
    <3>2. \A s \in SUBSET D : f[s] = IF s = {} THEN base ELSE Op(f[s \ {Min(s)}], seq[Min(s)])
      BY <2>3, <3>1 DEF Solves
    <3> QED
      BY <2>3, <3>2 DEF Solves
  <2> QED
    BY <2>4
<1>3. iter = Step(iter)
  <2> HIDE DEF Step
  <2> QED
    BY <1>2
<1> DEFINE run == [i \in 1..(n + 1) |-> iter[i..n]]
<1>4. run[n + 1] = base
  <2>1. (n + 1)..n = {} /\ {} \in SUBSET D /\ n + 1 \in 1..(n + 1)
    OBVIOUS
  <2> HIDE DEF iter
  <2> QED
    BY <1>3, <2>1
<1>5. ASSUME NEW i \in 1..n PROVE run[i] = Op(run[i + 1], seq[i])
  <2>1. Min(i..n) = i /\ (i..n) \ {i} = (i + 1)..n
    BY MinFrom
  <2>2. i..n \in SUBSET D /\ i..n # {}
    <3>1. i \in i..n /\ \A x \in i..n : x \in 1..n
      OBVIOUS
    <3> QED
      BY <3>1
  <2> HIDE DEF iter
  <2>3. iter[i..n] = Op(iter[(i..n) \ {Min(i..n)}], seq[Min(i..n)])
    BY <1>3, <2>2
  <2>4. i \in 1..(n + 1) /\ i + 1 \in 1..(n + 1)
    OBVIOUS
  <2>5. run[i] = iter[i..n] /\ run[i + 1] = iter[(i + 1)..n]
    BY <2>4
  <2> HIDE DEF run
  <2> QED
    BY <2>1, <2>3, <2>5
<1>6. run[1] = iter[D] /\ DOMAIN run = 1..(n + 1)
  OBVIOUS
<1> HIDE DEF run
<1> QED
  BY <1>1, <1>4, <1>5, <1>6 DEF RunsRight

=============================================================================
