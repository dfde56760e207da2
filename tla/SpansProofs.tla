---------------------------- MODULE SpansProofs ----------------------------
(***************************************************************************)
(* Facts about the operators of Spans that know nothing of who calls them:  *)
(* folds, sorting, selecting, slices.  A fold is a function that FoldLeft   *)
(* chooses; that there is one to choose (FoldsExist) and what holds of its  *)
(* values (UpTo) is shown by the smallest number at which it would fail.    *)
(***************************************************************************)
EXTENDS Spans, FiniteSetTheorems, WellFoundedInduction, TLAPS

-----------------------------------------------------------------------------
(* Numbers *)

\* The order of the naturals is well founded.
LEMMA NatOrder == \E R : IsWellFoundedOn(R, Nat) /\ \A x, y \in Nat : x < y => <<x, y>> \in R
<1> DEFINE R == {pair \in Nat \X Nat : pair[1] < pair[2]}
<1>1. OpToRel(<, Nat) = R
  BY Zenon DEF OpToRel
<1>2. IsWellFoundedOn(R, Nat)
  BY <1>1, NatLessThanWellFounded, Zenon
<1>3. \A x, y \in Nat : x < y => <<x, y>> \in R
  OBVIOUS
<1> HIDE DEF R
<1>4. QED
  BY <1>2, <1>3, Zenon

LEMMA LeastNumber ==
  ASSUME NEW T, T \subseteq Nat, T # {}
  PROVE  \E k \in T : \A l \in T : k <= l
<1>1. PICK R : IsWellFoundedOn(R, Nat) /\ \A x, y \in Nat : x < y => <<x, y>> \in R
  BY NatOrder
<1>2. IsWellFoundedOn(R, Nat)
  BY <1>1
<1>3. PICK k \in T : \A l \in T : ~ (<<l, k>> \in R)
  BY <1>2, WFMin, Zenon
<1>4. ASSUME NEW l \in T PROVE k <= l
  <2>1. k \in Nat /\ l \in Nat /\ ~ (l < k)
    BY <1>1, <1>3
  <2>2. QED
    BY <2>1
<1>5. QED
  BY <1>4

\* Induction up to n, the claim about i being that i is in T.
LEMMA UpTo ==
  ASSUME NEW n \in Nat, NEW T, 0 \in T, \A i \in 0 .. n - 1 : i \in T => i + 1 \in T
  PROVE  \A i \in 0 .. n : i \in T
<1> DEFINE Fails == (0 .. n) \ T
<1>1. SUFFICES ASSUME Fails # {} PROVE FALSE
  OBVIOUS
<1>2. Fails \subseteq Nat
  OBVIOUS
<1>3. PICK k \in Fails : \A l \in Fails : k <= l
  BY <1>1, <1>2, LeastNumber
<1>4. k \in 1 .. n /\ k \notin T
  BY <1>3
<1>5. k - 1 \in 0 .. n - 1 /\ k - 1 \notin Fails
  BY <1>3, <1>4
<1>6. k - 1 \in T
  BY <1>5
<1>7. (k - 1) + 1 \in T /\ (k - 1) + 1 = k
  BY <1>4, <1>5, <1>6
<1>8. QED
  BY <1>4, <1>7

\* The greatest of finitely many numbers.
LEMMA Greatest ==
  ASSUME NEW T, NEW n \in Nat, T \subseteq 0 .. n, T # {}
  PROVE  Max(T) \in T /\ \A x \in T : x <= Max(T)
<1> DEFINE N == {k \in 0 .. n : \A x \in T : x <= k}
<1>1. n \in N /\ N \subseteq Nat
  OBVIOUS
<1>2. PICK k \in N : \A l \in N : k <= l
  BY <1>1, LeastNumber
<1>3. k \in T
  <2>1. SUFFICES ASSUME k \notin T PROVE FALSE
    OBVIOUS
  <2>2. k \in 0 .. n /\ \A x \in T : x <= k
    BY <1>2
  <2>3. \A x \in T : x \in 0 .. n /\ x <= k - 1
    BY <2>1, <2>2
  <2>4. k - 1 \in 0 .. n
    <3>1. PICK x \in T : TRUE
      OBVIOUS
    <3>2. x \in 0 .. n /\ x <= k - 1
      BY <2>3
    <3>3. QED
      BY <2>2, <3>2
  <2>5. QED
    BY <1>2, <2>2, <2>3, <2>4
<1>4. \A x \in T : k >= x /\ x <= k
  BY <1>2
<1>5. \E x \in T : \A y \in T : x >= y
  BY <1>3, <1>4
<1>6. Max(T) \in T /\ \A y \in T : Max(T) >= y
  BY <1>5 DEF Max
<1>7. QED
  BY <1>6

LEMMA Lowest ==
  ASSUME NEW T, T \subseteq Nat, T # {}
  PROVE  Min(T) \in T /\ \A x \in T : Min(T) <= x
<1>1. \E x \in T : \A y \in T : x <= y
  BY LeastNumber
<1>2. QED
  BY <1>1 DEF Min

LEMMA FirstNumbers ==
  ASSUME NEW n \in Nat
  PROVE  IsFiniteSet(1 .. n) /\ Cardinality(1 .. n) = n
<1>1. Cardinality(1 .. n) = IF 1 > n THEN 0 ELSE n - 1 + 1
  BY FS_Interval
<1>2. IsFiniteSet(1 .. n)
  BY FS_Interval
<1> QED
  BY <1>1, <1>2

-----------------------------------------------------------------------------
(* Folds *)

\* The function that FoldLeft chooses: the fold of every subset of the
\* positions, the last of them taken last.
FoldsAll(n, h, base, step) ==
  \A S \in SUBSET (1 .. n) : h[S] = IF S = {} THEN base ELSE step[Max(S)][h[S \ {Max(S)}]]

LEMMA FoldsExist ==
  ASSUME NEW n \in Nat, NEW Acc, NEW base \in Acc, NEW step \in [1 .. n -> [Acc -> Acc]]
  PROVE  \E h \in [SUBSET (1 .. n) -> Acc] : FoldsAll(n, h, base, step)
<1> DEFINE Term(h, S) == IF S = {} THEN base ELSE step[Max(S)][h[S \ {Max(S)}]]
           Holds(h, k) == \A S \in SUBSET (1 .. k) : h[S] = Term(h, S)
           T == {k \in 0 .. n : \E h \in [SUBSET (1 .. n) -> Acc] : Holds(h, k)}
<1>0. ASSUME NEW S \in SUBSET (1 .. n), S # {}
      PROVE  Max(S) \in S /\ \A x \in S : x <= Max(S)
  <2>1. S \subseteq 0 .. n
    OBVIOUS
  <2>2. QED
    BY <1>0, <2>1, Greatest
<1>1. 0 \in T
  <2> DEFINE h == [S \in SUBSET (1 .. n) |-> base]
  <2>1. h \in [SUBSET (1 .. n) -> Acc] /\ Holds(h, 0)
    OBVIOUS
  <2> HIDE DEF h, Holds
  <2>2. QED
    BY <2>1
<1>2. ASSUME NEW k \in 0 .. n - 1, k \in T PROVE k + 1 \in T
  <2>1. PICK h \in [SUBSET (1 .. n) -> Acc] : Holds(h, k)
    BY <1>2
  <2> DEFINE g == [S \in SUBSET (1 .. n) |-> Term(h, S)]
  <2>2. \A S \in SUBSET (1 .. n) : Term(h, S) \in Acc
    <3>1. ASSUME NEW S \in SUBSET (1 .. n), S # {} PROVE step[Max(S)][h[S \ {Max(S)}]] \in Acc
      <4>1. Max(S) \in 1 .. n /\ S \ {Max(S)} \in SUBSET (1 .. n)
        BY <1>0, <3>1
      <4>2. QED
        BY <4>1
    <3>2. QED
      BY <3>1
  <2>3. g \in [SUBSET (1 .. n) -> Acc]
    BY <2>2
  <2>4. ASSUME NEW S \in SUBSET (1 .. k + 1) PROVE g[S] = Term(g, S)
    <3>1. S \in SUBSET (1 .. n)
      OBVIOUS
    <3>2. CASE S = {}
      BY <3>1, <3>2
    <3>3. CASE S # {}
      <4> DEFINE U == S \ {Max(S)}
      <4>1. Max(S) \in S /\ \A x \in S : x <= Max(S)
        BY <1>0, <3>1, <3>3
      <4>2. U \in SUBSET (1 .. k) /\ U \in SUBSET (1 .. n)
        <5>1. ASSUME NEW x \in U PROVE x \in 1 .. k
          <6>1. x \in S /\ x # Max(S) /\ Max(S) \in 1 .. k + 1
            BY <4>1
          <6>2. x \in 1 .. k + 1 /\ x <= Max(S)
            BY <4>1, <6>1
          <6>3. QED
            BY <6>1, <6>2
        <5>2. 1 .. k \subseteq 1 .. n
          OBVIOUS
        <5> HIDE DEF U
        <5>3. QED
          BY <5>1, <5>2
      <4>3. h[U] = Term(h, U)
        BY <2>1, <4>2
      <4>4. g[U] = h[U]
        BY <4>2, <4>3
      <4> HIDE DEF U
      <4>5. g[S] = step[Max(S)][h[U]]
        BY <3>1, <3>3 DEF U
      <4>6. Term(g, S) = step[Max(S)][g[U]]
        BY <3>3 DEF U
      <4>7. QED
        BY <4>4, <4>5, <4>6
    <3>4. QED
      BY <3>2, <3>3
  <2>5. Holds(g, k + 1)
    BY <2>4
  <2> HIDE DEF g, Holds
  <2>6. QED
    BY <2>3, <2>5
<1> HIDE DEF T, Holds
<1>3. \A k \in 0 .. n : k \in T
  BY <1>1, <1>2, UpTo, Zenon
<1>4. n \in T
  BY <1>3
<1>5. QED
  BY <1>4 DEF T, Holds, FoldsAll

-----------------------------------------------------------------------------
(* Sorting and selecting *)

StrictOrder(S, R) ==
  /\ \A x \in S : <<x, x>> \notin R
  /\ \A x, y, z \in S : <<x, y>> \in R /\ <<y, z>> \in R => <<x, z>> \in R
  /\ \A x, y \in S : x = y \/ <<x, y>> \in R \/ <<y, x>> \in R

\* p names every element of S, in the order of R.
Arranges(p, n, S, R) ==
  /\ n \in Nat /\ p \in [1 .. n -> S]
  /\ \A x \in S : \E k \in 1 .. n : p[k] = x
  /\ \A i, j \in 1 .. n : i < j => <<p[i], p[j]>> \in R

\* Ordered puts every element of a finite set where the order has it: by its
\* rank, of which there is one for each element and one element for each.
LEMMA OrderedArranges ==
  ASSUME NEW S, IsFiniteSet(S), NEW R, StrictOrder(S, R)
  PROVE  Arranges(Ordered(S, R), Cardinality(S), S, R)
<1> DEFINE n == Cardinality(S)
           below == [x \in S |-> {y \in S : <<y, x>> \in R}]
           rank == [x \in S |-> Cardinality(below[x])]
           p == Ordered(S, R)
<1>0. n \in Nat
  BY FS_CardinalityType
<1>1. ASSUME NEW x \in S PROVE IsFiniteSet(below[x]) /\ rank[x] \in 0 .. n - 1
  <2>1. below[x] \in SUBSET (S \ {x})
    BY DEF StrictOrder
  <2>2. IsFiniteSet(S \ {x}) /\ Cardinality(S \ {x}) = n - 1
    BY FS_RemoveElement
  <2>3. rank[x] = Cardinality(below[x])
    OBVIOUS
  <2> HIDE DEF below, rank
  <2>4. IsFiniteSet(below[x]) /\ Cardinality(below[x]) <= n - 1
    BY <2>1, <2>2, FS_Subset
  <2>5. Cardinality(below[x]) \in Nat
    BY <2>4, FS_CardinalityType
  <2>6. QED
    BY <1>0, <2>3, <2>4, <2>5
<1>2. ASSUME NEW x \in S, NEW y \in S, <<x, y>> \in R PROVE rank[x] < rank[y]
  <2>1. below[x] \in SUBSET below[y]
    BY <1>2 DEF StrictOrder
  <2>2. x \in below[y] /\ x \notin below[x]
    BY <1>2 DEF StrictOrder
  <2>3. rank[x] = Cardinality(below[x]) /\ rank[y] = Cardinality(below[y])
    OBVIOUS
  <2> HIDE DEF below, rank
  <2>4. IsFiniteSet(below[y])
    BY <1>1
  <2>5. rank[x] <= rank[y] /\ (rank[y] = rank[x] => below[y] = below[x])
    BY <2>1, <2>3, <2>4, FS_Subset
  <2>6. rank[x] \in Int /\ rank[y] \in Int
    BY <1>1
  <2>7. QED
    BY <2>2, <2>5, <2>6
<1>5. p = [k \in 1 .. n |-> CHOOSE x \in S : Cardinality({y \in S : <<y, x>> \in R}) = k - 1]
  BY DEF Ordered
<1>b. \A x \in S : rank[x] = Cardinality({y \in S : <<y, x>> \in R})
  OBVIOUS
<1> HIDE DEF rank, below, p, n
<1>3. \A x, y \in S : rank[x] = rank[y] => x = y
  <2>1. ASSUME NEW x \in S, NEW y \in S, rank[x] = rank[y] PROVE x = y
    <3>1. rank[x] \in Int /\ rank[y] \in Int
      BY <1>1
    <3>2. x = y \/ <<x, y>> \in R \/ <<y, x>> \in R
      BY DEF StrictOrder
    <3>3. QED
      BY <1>2, <2>1, <3>1, <3>2
  <2>2. QED
    BY <2>1
<1>4. \A k \in 1 .. n : \E x \in S : rank[x] = k - 1
  <2> DEFINE f == [x \in S |-> rank[x] + 1]
  <2>1. \A x \in S : rank[x] \in Int /\ rank[x] + 1 \in 1 .. n
    BY <1>0, <1>1
  <2>2. f \in [S -> 1 .. n]
    BY <2>1
  <2>3. \A x, y \in S : f[x] = f[y] => x = y
    BY <1>3, <2>1
  <2>8. \A x \in S : f[x] = rank[x] + 1
    OBVIOUS
  <2> HIDE DEF f
  <2>4. f \in Injection(S, 1 .. n)
    BY <2>2, <2>3 DEF Injection, IsInjective
  <2>5. IsFiniteSet(1 .. n) /\ Cardinality(1 .. n) = n
    BY <1>0, FS_Interval
  <2>6. f \in Surjection(S, 1 .. n)
    BY <2>4, <2>5, FS_Injection DEF n
  <2>7. \A k \in 1 .. n : \E x \in S : f[x] = k
    BY <2>6 DEF Surjection
  <2>9. QED
    BY <2>1, <2>7, <2>8
<1>6. ASSUME NEW k \in 1 .. n PROVE p[k] \in S /\ rank[p[k]] = k - 1
  <2>1. \E x \in S : Cardinality({y \in S : <<y, x>> \in R}) = k - 1
    BY <1>4, <1>b
  <2>2. p[k] \in S /\ Cardinality({y \in S : <<y, p[k]>> \in R}) = k - 1
    BY <1>5, <2>1
  <2>3. QED
    BY <1>b, <2>2
<1>7. p \in [1 .. n -> S]
  BY <1>5, <1>6
<1>8. ASSUME NEW x \in S PROVE \E k \in 1 .. n : p[k] = x
  <2>1. rank[x] \in 0 .. n - 1
    BY <1>1
  <2>2. PICK k \in 1 .. n : k - 1 = rank[x]
    BY <1>0, <2>1
  <2>3. p[k] \in S /\ rank[p[k]] = rank[x]
    BY <1>6, <2>2
  <2>4. p[k] = x
    BY <1>3, <2>3
  <2>5. QED
    BY <2>4
<1>9. ASSUME NEW i \in 1 .. n, NEW j \in 1 .. n, i < j PROVE <<p[i], p[j]>> \in R
  <2>1. p[i] \in S /\ p[j] \in S /\ rank[p[i]] = i - 1 /\ rank[p[j]] = j - 1
    BY <1>6
  <2>2. p[i] = p[j] \/ <<p[i], p[j]>> \in R \/ <<p[j], p[i]>> \in R
    BY <2>1 DEF StrictOrder
  <2>3. QED
    BY <1>2, <1>9, <2>1, <2>2
<1>10. Arranges(p, n, S, R)
  BY <1>0, <1>7, <1>8, <1>9 DEF Arranges
<1>11. QED
  BY <1>10 DEF p, n

\* A strict order on positions; those it leaves equal stay in their places.
Weak(n, L) ==
  /\ \A i \in 1 .. n : <<i, i>> \notin L
  /\ \A i, j, k \in 1 .. n : <<i, j>> \in L /\ <<j, k>> \in L => <<i, k>> \in L
  /\ \A i, j, k \in 1 .. n : <<i, k>> \in L => <<i, j>> \in L \/ <<j, k>> \in L
Before(n, L) ==
  {p \in (1 .. n) \X (1 .. n) : \/ <<p[1], p[2]>> \in L
                                \/ <<p[2], p[1]>> \notin L /\ p[1] < p[2]}

LEMMA StableOrder ==
  ASSUME NEW n \in Nat, NEW L, Weak(n, L)
  PROVE  StrictOrder(1 .. n, Before(n, L))
<1>1. \A i, j \in 1 .. n : <<i, j>> \in Before(n, L)
                             <=> <<i, j>> \in L \/ (<<j, i>> \notin L /\ i < j)
  BY DEF Before
<1>2. ASSUME NEW i \in 1 .. n PROVE <<i, i>> \notin Before(n, L)
  <2>1. ~ (i < i) /\ <<i, i>> \notin L
    BY DEF Weak
  <2>2. QED
    BY <1>1, <2>1
<1>3. ASSUME NEW i \in 1 .. n, NEW j \in 1 .. n
      PROVE  i = j \/ <<i, j>> \in Before(n, L) \/ <<j, i>> \in Before(n, L)
  <2>1. i = j \/ i < j \/ j < i
    OBVIOUS
  <2>2. QED
    BY <1>1, <2>1
<1>4. ASSUME NEW i \in 1 .. n, NEW j \in 1 .. n, NEW k \in 1 .. n,
             <<i, j>> \in Before(n, L), <<j, k>> \in Before(n, L)
      PROVE  <<i, k>> \in Before(n, L)
  <2>1. <<i, j>> \in L \/ (<<j, i>> \notin L /\ i < j)
    BY <1>1, <1>4
  <2>2. <<j, k>> \in L \/ (<<k, j>> \notin L /\ j < k)
    BY <1>1, <1>4
  <2>3. CASE <<i, k>> \in L
    BY <1>1, <2>3
  <2>4. CASE <<i, k>> \notin L
    <3>1. ~ (<<i, j>> \in L /\ <<j, k>> \in L)
      BY <2>4 DEF Weak
    <3>2. <<k, i>> \notin L /\ i < k
      BY <2>1, <2>2, <2>4, <3>1 DEF Weak
    <3>3. QED
      BY <1>1, <3>2
  <2>5. QED
    BY <2>3, <2>4
<1>5. QED
  BY <1>2, <1>3, <1>4, Zenon DEF StrictOrder

\* What it means that q is seq, sorted: the same elements, none of them twice.
Permutes(p, n) ==
  /\ p \in [1 .. n -> 1 .. n]
  /\ \A j \in 1 .. n : \E k \in 1 .. n : p[k] = j
  /\ \A i, j \in 1 .. n : i # j => p[i] # p[j]
Sorted(seq, L) == [k \in DOMAIN seq |-> seq[Ordered(DOMAIN seq, Before(Len(seq), L))[k]]]

Rearranges(p, seq, q) ==
  /\ Permutes(p, Len(seq)) /\ Len(q) = Len(seq)
  /\ \A k \in 1 .. Len(seq) : q[k] = seq[p[k]]
InOrderOf(p, n, L) == \A i, j \in 1 .. n : i < j => <<p[j], p[i]>> \notin L

LEMMA SortedPermutes ==
  ASSUME NEW U, NEW seq \in Seq(U), NEW L, Weak(Len(seq), L)
  PROVE  /\ Sorted(seq, L) \in Seq(U) /\ Len(Sorted(seq, L)) = Len(seq)
         /\ \E p : Rearranges(p, seq, Sorted(seq, L)) /\ InOrderOf(p, Len(seq), L)
<1> DEFINE n == Len(seq)
           R == Before(n, L)
           p == Ordered(1 .. n, R)
           q == Sorted(seq, L)
<1>0. n \in Nat /\ DOMAIN seq = 1 .. n
  OBVIOUS
<1>1. StrictOrder(1 .. n, R)
  BY <1>0, StableOrder
<1>2. IsFiniteSet(1 .. n) /\ Cardinality(1 .. n) = n
  BY <1>0, FirstNumbers
<1>3. Arranges(p, n, 1 .. n, R)
  BY <1>1, <1>2, OrderedArranges
<1>4. q = [k \in 1 .. n |-> seq[p[k]]]
  BY <1>0 DEF Sorted
<1> HIDE DEF p, q
<1>5. p \in [1 .. n -> 1 .. n] /\ \A j \in 1 .. n : \E k \in 1 .. n : p[k] = j
  BY <1>3 DEF Arranges
<1>6. \A i, j \in 1 .. n : i < j => <<p[i], p[j]>> \in R
  BY <1>3 DEF Arranges
<1>7. \A i, j \in 1 .. n : i # j => p[i] # p[j]
  <2>1. \A i, j \in 1 .. n : i < j => p[i] # p[j]
    BY <1>1, <1>5, <1>6 DEF StrictOrder
  <2>2. QED
    BY <1>0, <2>1
<1>8. \A i, j \in 1 .. n : i < j => <<p[j], p[i]>> \notin L
  <2>1. ASSUME NEW i \in 1 .. n, NEW j \in 1 .. n, i < j PROVE <<p[j], p[i]>> \notin L
    <3>1. p[i] \in 1 .. n /\ p[j] \in 1 .. n /\ <<p[i], p[j]>> \in R
      BY <1>5, <1>6, <2>1
    <3>2. <<p[i], p[j]>> \in L \/ <<p[j], p[i]>> \notin L
      BY <3>1 DEF Before
    <3>3. QED
      BY <3>1, <3>2 DEF Weak
  <2>2. QED
    BY <2>1
<1>9. ASSUME NEW k \in 1 .. n PROVE q[k] = seq[p[k]] /\ seq[p[k]] \in U
  <2>1. p[k] \in 1 .. n
    BY <1>5
  <2>2. QED
    BY <1>4, <2>1
<1>10. q \in [1 .. n -> U]
  BY <1>4, <1>9
<1>11. q \in Seq(U) /\ Len(q) = n
  BY <1>0, <1>10
<1>12. Permutes(p, n)
  BY <1>5, <1>7 DEF Permutes
<1>13. Rearranges(p, seq, q) /\ InOrderOf(p, n, L)
  BY <1>8, <1>9, <1>11, <1>12 DEF Rearranges, InOrderOf
<1>14. QED
  BY <1>11, <1>13 DEF q

\* What Among leaves of a sequence: what is in S, in its order.
Selects(p, m, seq, S) ==
  /\ m \in Nat /\ p \in [1 .. m -> 1 .. Len(seq)]
  /\ \A i, j \in 1 .. m : i < j => p[i] < p[j]
  /\ \A i \in 1 .. Len(seq) : seq[i] \in S <=> \E k \in 1 .. m : p[k] = i

LEMMA AmongSelects ==
  ASSUME NEW U, NEW seq \in Seq(U), NEW S
  PROVE  /\ Among(seq, S) \in Seq(U)
         /\ \E p : /\ Selects(p, Len(Among(seq, S)), seq, S)
                   /\ \A k \in 1 .. Len(Among(seq, S)) : Among(seq, S)[k] = seq[p[k]]
<1> DEFINE n == Len(seq)
           at == {i \in DOMAIN seq : seq[i] \in S}
           R == {pair \in at \X at : pair[1] < pair[2]}
           m == Cardinality(at)
           p == Ordered(at, R)
           q == Among(seq, S)
<1>0. n \in Nat /\ DOMAIN seq = 1 .. n
  OBVIOUS
<1>1. at \in SUBSET (1 .. n)
  BY <1>0
<1>2. IsFiniteSet(at)
  <2>1. IsFiniteSet(1 .. n)
    BY <1>0, FS_Interval
  <2>2. QED
    BY <1>1, <2>1, FS_Subset
<1>3. (\A i \in at : i \in Int) /\ \A i, j \in at : <<i, j>> \in R <=> i < j
  BY <1>0, <1>1
<1>4. StrictOrder(at, R)
  <2> HIDE DEF R, at
  <2>1. ASSUME NEW i \in at, NEW j \in at, NEW k \in at
        PROVE  /\ i < j /\ j < k => i < k
               /\ ~ (i < i) /\ (i = j \/ i < j \/ j < i)
    <3>1. i \in Int /\ j \in Int /\ k \in Int
      BY <1>3
    <3>2. QED
      BY <3>1
  <2>2. QED
    BY <1>3, <2>1 DEF StrictOrder
<1>5. Arranges(p, m, at, R)
  BY <1>2, <1>4, OrderedArranges
<1>6. m \in Nat /\ DOMAIN p = 1 .. m
  BY <1>5 DEF Arranges
<1>7. q = [k \in 1 .. m |-> seq[p[k]]]
  BY <1>6 DEF Among
<1> HIDE DEF p, q, m
<1>8. p \in [1 .. m -> at] /\ \A x \in at : \E k \in 1 .. m : p[k] = x
  BY <1>5 DEF Arranges
<1>9. \A i, j \in 1 .. m : i < j => p[i] < p[j]
  BY <1>3, <1>5, <1>8 DEF Arranges
<1>10. \A i \in 1 .. n : seq[i] \in S <=> \E k \in 1 .. m : p[k] = i
  BY <1>0, <1>8
<1>11. p \in [1 .. m -> 1 .. n]
  BY <1>1, <1>8
<1>12. \A k \in 1 .. m : q[k] = seq[p[k]] /\ seq[p[k]] \in U
  BY <1>7, <1>11
<1>13. q \in [1 .. m -> U]
  BY <1>7, <1>12
<1>14. q \in Seq(U) /\ Len(q) = m
  BY <1>6, <1>13
<1>15. Selects(p, m, seq, S)
  BY <1>6, <1>9, <1>10, <1>11 DEF Selects
<1>16. QED
  BY <1>12, <1>14, <1>15 DEF q

LEMMA AmongHas ==
  ASSUME NEW U, NEW seq \in Seq(U), NEW S
  PROVE  /\ \A k \in 1 .. Len(Among(seq, S)) : Among(seq, S)[k] \in S
         /\ \A i \in 1 .. Len(seq) : seq[i] \in S => \E k \in 1 .. Len(Among(seq, S)) : Among(seq, S)[k] = seq[i]
<1> DEFINE some == Among(seq, S)
<1>1. PICK p : /\ Selects(p, Len(some), seq, S)
               /\ \A k \in 1 .. Len(some) : some[k] = seq[p[k]]
  BY AmongSelects
<1> HIDE DEF some
<1>2. \A k \in 1 .. Len(some) : some[k] \in S
  <2>1. ASSUME NEW k \in 1 .. Len(some)
        PROVE  some[k] \in S
    <3>1. p[k] \in 1 .. Len(seq)
      BY <1>1 DEF Selects
    <3>2. seq[p[k]] \in S
      BY <1>1, <3>1 DEF Selects
    <3> QED
      BY <1>1, <3>2
  <2> QED
    BY <2>1
<1>3. \A i \in 1 .. Len(seq) : seq[i] \in S => \E k \in 1 .. Len(some) : some[k] = seq[i]
  BY <1>1 DEF Selects
<1> QED
  BY <1>2, <1>3 DEF some

LEMMA LastOf ==
  ASSUME NEW i \in Nat \ {0}
  PROVE  1 .. i # {} /\ Max(1 .. i) = i /\ (1 .. i) \ {i} = 1 .. i - 1
<1>1. i \in 1 .. i /\ 1 .. i \subseteq 0 .. i
  OBVIOUS
<1>2. Max(1 .. i) \in 1 .. i /\ \A x \in 1 .. i : x <= Max(1 .. i)
  BY <1>1, Greatest
<1>3. Max(1 .. i) = i
  BY <1>1, <1>2
<1>4. QED
  BY <1>1, <1>3

-----------------------------------------------------------------------------
(* Pieces of a text *)

LEMMA SliceIs ==
  ASSUME NEW U, NEW x \in Seq(U), NEW a \in Nat, NEW b \in Nat, a <= b, b <= Len(x)
  PROVE  Slice(x, a, b) \in Seq(U) /\ Len(Slice(x, a, b)) = b - a
BY DEF Slice

LEMMA SliceAt ==
  ASSUME NEW U, NEW x \in Seq(U), NEW a \in Nat, NEW b \in Nat, a <= b, b <= Len(x),
         NEW i \in 1 .. b - a
  PROVE  Slice(x, a, b)[i] = x[a + i]
BY DEF Slice

LEMMA SliceHas ==
  ASSUME NEW U, NEW x \in Seq(U), NEW a \in Nat, NEW b \in Nat, a <= b, b <= Len(x)
  PROVE  /\ Slice(x, a, b) \in Seq(U) /\ Len(Slice(x, a, b)) = b - a
         /\ \A i \in 1 .. b - a : Slice(x, a, b)[i] = x[a + i]
<1>1. ASSUME NEW i \in 1 .. b - a
      PROVE  Slice(x, a, b)[i] = x[a + i]
  BY SliceAt
<1> QED
  BY <1>1, SliceIs

LEMMA SameSeq ==
  ASSUME NEW U, NEW x \in Seq(U), NEW y \in Seq(U), Len(x) = Len(y),
         \A i \in 1 .. Len(x) : x[i] = y[i]
  PROVE  x = y
OBVIOUS

LEMMA JoinIs ==
  ASSUME NEW U, NEW x \in Seq(U), NEW y \in Seq(U)
  PROVE  /\ x \o y \in Seq(U) /\ Len(x \o y) = Len(x) + Len(y)
         /\ Len(x) \in Nat /\ Len(y) \in Nat
OBVIOUS

LEMMA JoinFront ==
  ASSUME NEW U, NEW x \in Seq(U), NEW y \in Seq(U), NEW i \in 1 .. Len(x)
  PROVE  (x \o y)[i] = x[i]
OBVIOUS

LEMMA JoinBack ==
  ASSUME NEW U, NEW x \in Seq(U), NEW y \in Seq(U), NEW i \in 1 .. Len(y)
  PROVE  (x \o y)[Len(x) + i] = y[i]
OBVIOUS

LEMMA SliceJoin ==
  ASSUME NEW U, NEW x \in Seq(U), NEW a \in Nat, NEW b \in Nat, NEW c \in Nat,
         a <= b, b <= c, c <= Len(x)
  PROVE  Slice(x, a, b) \o Slice(x, b, c) = Slice(x, a, c)
<1> DEFINE y == Slice(x, a, b)
           z == Slice(x, b, c)
           w == Slice(x, a, c)
<1>0. a <= c /\ b <= Len(x) /\ Len(x) \in Nat
  OBVIOUS
<1>1. y \in Seq(U) /\ Len(y) = b - a /\ \A i \in 1 .. b - a : y[i] = x[a + i]
  BY <1>0, SliceHas, Zenon
<1>2. z \in Seq(U) /\ Len(z) = c - b /\ \A i \in 1 .. c - b : z[i] = x[b + i]
  BY <1>0, SliceHas, Zenon
<1>3. w \in Seq(U) /\ Len(w) = c - a /\ \A i \in 1 .. c - a : w[i] = x[a + i]
  BY <1>0, SliceHas, Zenon
<1> HIDE DEF y, z, w
<1>4. y \o z \in Seq(U) /\ Len(y \o z) = Len(y) + Len(z)
  BY <1>1, <1>2, JoinIs
<1>5. Len(y \o z) = Len(w)
  BY <1>1, <1>2, <1>3, <1>4
<1>6. ASSUME NEW i \in 1 .. Len(y \o z) PROVE (y \o z)[i] = w[i]
  <2>0. i \in 1 .. c - a
    BY <1>3, <1>5
  <2>1. CASE i <= b - a
    <3>1. i \in 1 .. Len(y) /\ i \in 1 .. b - a
      BY <1>1, <2>0, <2>1
    <3>2. (y \o z)[i] = y[i]
      BY <1>1, <1>2, <3>1, JoinFront
    <3>3. QED
      BY <1>1, <1>3, <2>0, <3>1, <3>2
  <2>2. CASE i > b - a
    <3>1. PICK j \in 1 .. c - b : i = (b - a) + j
      BY <2>0, <2>2
    <3>2. j \in 1 .. Len(z) /\ i = Len(y) + j /\ b + j = a + i
      BY <1>1, <1>2, <3>1
    <3>3. (y \o z)[i] = z[j]
      BY <1>1, <1>2, <3>2, JoinBack
    <3>4. z[j] = x[b + j] /\ w[i] = x[a + i]
      BY <1>2, <1>3, <2>0, <3>1
    <3>5. QED
      BY <3>2, <3>3, <3>4
  <2>3. i \in Int
    OBVIOUS
  <2>4. QED
    BY <2>1, <2>2, <2>3
<1>7. y \o z = w
  BY <1>3, <1>4, <1>5, <1>6, SameSeq
<1>8. QED
  BY <1>7 DEF y, z, w

LEMMA SliceOfFront ==
  ASSUME NEW U, NEW x \in Seq(U), NEW y \in Seq(U), NEW a \in Nat, NEW b \in Nat,
         a <= b, b <= Len(x)
  PROVE  Slice(x \o y, a, b) = Slice(x, a, b)
<1> DEFINE w == x \o y
           v == Slice(w, a, b)
           z == Slice(x, a, b)
<1>1. w \in Seq(U) /\ Len(w) \in Nat /\ b <= Len(w)
  BY JoinIs
<1>2. \A i \in 1 .. Len(x) : w[i] = x[i]
  BY JoinFront
<1> HIDE DEF w
<1>3. v \in Seq(U) /\ Len(v) = b - a /\ \A i \in 1 .. b - a : v[i] = w[a + i]
  BY <1>1, SliceHas, Zenon
<1>4. z \in Seq(U) /\ Len(z) = b - a /\ \A i \in 1 .. b - a : z[i] = x[a + i]
  BY SliceHas, Zenon
<1>5. ASSUME NEW i \in 1 .. b - a PROVE a + i \in 1 .. Len(x)
  OBVIOUS
<1> HIDE DEF v, z
<1>6. ASSUME NEW i \in 1 .. Len(v) PROVE v[i] = z[i]
  <2>1. i \in 1 .. b - a
    BY <1>3
  <2>2. QED
    BY <1>2, <1>3, <1>4, <1>5, <2>1
<1>7. v = z
  BY <1>3, <1>4, <1>6, SameSeq
<1>8. QED
  BY <1>7 DEF v, z, w

LEMMA SliceOfBack ==
  ASSUME NEW U, NEW x \in Seq(U), NEW y \in Seq(U)
  PROVE  Slice(x \o y, Len(x), Len(x \o y)) = y
<1> DEFINE w == x \o y
           v == Slice(w, Len(x), Len(w))
<1>1. w \in Seq(U) /\ Len(w) = Len(x) + Len(y) /\ Len(x) \in Nat /\ Len(y) \in Nat
  BY JoinIs
<1>2. \A i \in 1 .. Len(y) : w[Len(x) + i] = y[i]
  BY JoinBack
<1> HIDE DEF w
<1>3. Len(w) \in Nat /\ Len(x) <= Len(w) /\ Len(w) <= Len(w) /\ Len(w) - Len(x) = Len(y)
  BY <1>1
<1>4. v \in Seq(U) /\ Len(v) = Len(w) - Len(x)
  <2>1. w \in Seq(U) /\ Len(x) \in Nat
    BY <1>1
  <2>2. Len(w) \in Nat /\ Len(x) <= Len(w) /\ Len(w) <= Len(w)
    BY <1>3
  <2> QED
    BY <2>1, <2>2, SliceIs, Zenon
<1>5. ASSUME NEW i \in 1 .. Len(v) PROVE v[i] = y[i]
  <2>1. i \in 1 .. Len(w) - Len(x)
    BY <1>4
  <2>2. v[i] = w[Len(x) + i]
    BY <1>1, <1>3, <2>1, SliceAt
  <2>3. i \in 1 .. Len(y)
    BY <1>3, <2>1
  <2>4. QED
    BY <1>2, <2>2, <2>3
<1>6. Len(v) = Len(y)
  BY <1>3, <1>4
<1> HIDE DEF v
<1>7. v = y
  BY <1>4, <1>5, <1>6, SameSeq
<1>8. QED
  BY <1>7 DEF v, w

LEMMA SliceAll ==
  ASSUME NEW U, NEW x \in Seq(U)
  PROVE  Slice(x, 0, Len(x)) = x /\ Slice(x, 0, 0) = <<>>
<1>1. Len(x) \in Nat /\ 0 <= Len(x) /\ Len(x) <= Len(x) /\ Len(x) - 0 = Len(x)
  OBVIOUS
<1>2. Slice(x, 0, Len(x)) = x
  <2> DEFINE v == Slice(x, 0, Len(x))
  <2>1. v \in Seq(U) /\ Len(v) = Len(x)
    BY <1>1, SliceIs
  <2>2. ASSUME NEW i \in 1 .. Len(v) PROVE v[i] = x[i]
    <3>1. i \in 1 .. Len(x) - 0 /\ 0 + i = i
      BY <1>1, <2>1
    <3>2. v[i] = x[0 + i]
      BY <1>1, <3>1, SliceAt
    <3>3. QED
      BY <3>1, <3>2
  <2> HIDE DEF v
  <2>3. v = x
    BY <2>1, <2>2, SameSeq
  <2>4. QED
    BY <2>3 DEF v
<1>3. Slice(x, 0, 0) = <<>>
  <2>1. 0 \in Nat /\ 0 <= 0 /\ 0 <= Len(x) /\ 0 - 0 = 0
    OBVIOUS
  <2>2. Slice(x, 0, 0) \in Seq(U) /\ Len(Slice(x, 0, 0)) = 0 - 0
    BY <2>1, SliceIs
  <2>3. QED
    BY <2>1, <2>2
<1>4. QED
  BY <1>2, <1>3

\* ByStart: the same spans, none starting before the one in front of it.
Earlier(seq) == {pair \in (1 .. Len(seq)) \X (1 .. Len(seq)) : seq[pair[1]].start < seq[pair[2]].start}

LEMMA ByStartSorts ==
  ASSUME NEW U, \A s \in U : s.start \in Nat, NEW seq \in Seq(U)
  PROVE  /\ ByStart(seq) \in Seq(U) /\ Len(ByStart(seq)) = Len(seq)
         /\ \E p : Rearranges(p, seq, ByStart(seq))
         /\ \A i, j \in 1 .. Len(seq) : i < j => ByStart(seq)[i].start <= ByStart(seq)[j].start
<1> DEFINE n == Len(seq)
           L == Earlier(seq)
<1>0. n \in Nat /\ DOMAIN seq = 1 .. n /\ \A i \in 1 .. n : seq[i].start \in Nat
  OBVIOUS
<1>1. \A i, j \in 1 .. n : <<i, j>> \in L <=> seq[i].start < seq[j].start
  BY DEF Earlier
<1>2. Weak(n, L)
  <2> HIDE DEF L
  <2>1. ASSUME NEW i \in 1 .. n, NEW j \in 1 .. n, NEW k \in 1 .. n
        PROVE  /\ <<i, i>> \notin L
               /\ <<i, j>> \in L /\ <<j, k>> \in L => <<i, k>> \in L
               /\ <<i, k>> \in L => <<i, j>> \in L \/ <<j, k>> \in L
    <3>1. seq[i].start \in Nat /\ seq[j].start \in Nat /\ seq[k].start \in Nat
      BY <1>0
    <3>2. QED
      BY <1>1, <3>1
  <2> HIDE DEF n
  <2>2. QED
    BY <2>1 DEF Weak
<1>3. ByStart(seq) = Sorted(seq, L)
  <2> DEFINE before == {pair \in (DOMAIN seq) \X (DOMAIN seq) :
                          \/ seq[pair[1]].start < seq[pair[2]].start
                          \/ ~(seq[pair[2]].start < seq[pair[1]].start) /\ pair[1] < pair[2]}
  <2>1. before = Before(n, L)
    BY <1>0, <1>1 DEF Before
  <2>2. ByStart(seq) = [k \in DOMAIN seq |-> seq[Ordered(DOMAIN seq, before)[k]]]
    BY DEF ByStart, InOrder
  <2> HIDE DEF before
  <2>3. QED
    BY <2>1, <2>2 DEF Sorted
<1> HIDE DEF L
<1>4. ByStart(seq) \in Seq(U) /\ Len(ByStart(seq)) = n
  <2> HIDE DEF n
  <2>1. QED
    BY <1>2, <1>3, SortedPermutes DEF n
<1>b. PICK p : Rearranges(p, seq, ByStart(seq)) /\ InOrderOf(p, n, L)
  BY <1>2, <1>3, SortedPermutes
<1>5. /\ Permutes(p, n)
      /\ \A k \in 1 .. n : ByStart(seq)[k] = seq[p[k]]
      /\ \A i, j \in 1 .. n : i < j => <<p[j], p[i]>> \notin L
  BY <1>b DEF Rearranges, InOrderOf
<1>6. ASSUME NEW i \in 1 .. n, NEW j \in 1 .. n, i < j
      PROVE  ByStart(seq)[i].start <= ByStart(seq)[j].start
  <2>1. p[i] \in 1 .. n /\ p[j] \in 1 .. n /\ <<p[j], p[i]>> \notin L
    BY <1>5, <1>6 DEF Permutes
  <2>2. seq[p[i]].start \in Nat /\ seq[p[j]].start \in Nat
    BY <1>0, <2>1
  <2>3. ~(seq[p[j]].start < seq[p[i]].start)
    BY <1>1, <2>1
  <2>4. ByStart(seq)[i] = seq[p[i]] /\ ByStart(seq)[j] = seq[p[j]]
    BY <1>5
  <2>5. QED
    BY <2>2, <2>3, <2>4
<1>7. QED
  BY <1>4, <1>b, <1>6
=============================================================================
