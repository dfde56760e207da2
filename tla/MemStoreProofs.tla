--------------------------- MODULE MemStoreProofs ---------------------------
(***************************************************************************)
(* What holds of the sharded table for any number of shards, ids and       *)
(* goroutines: its types, who owns which shard, how far Put may overshoot  *)
(* the entry cap; that a mapping goes only for a reason, that the table    *)
(* implements Mapping, that `entries' counts it and `bytes' sums its sizes *)
(* up to the operations in flight, and that an undisturbed cycle of the    *)
(* sweeper brings it back under the cap.                                   *)
(*                                                                         *)
(* The count alone is not inductive: OvershootInv ties it to the shards    *)
(* whose count is settled; a step touches one shard only, so it is enough  *)
(* to account for what it does to that shard (Accounted).  The reason for  *)
(* a loss and the refinement rest on how far the clock readings and the    *)
(* deadlines a goroutine carries may be from the clock it races with       *)
(* (DeadlineInv), the counters on who owns an id between making room and   *)
(* inserting (CountInv, ByteInv), the cycle on what each shard has left    *)
(* behind (CycleInv).                                                      *)
(***************************************************************************)
EXTENDS MemStoreHistory, MemStoreBytes, FiniteSetTheorems, WellFoundedInduction, TLAPS

-----------------------------------------------------------------------------
(* Sums over a function with a finite domain.  SumFunction is a fold, whose  *)
(* definition unfolds to a CHOOSE of a recursive function on the subsets of  *)
(* the domain.  That such a function exists, and that it does not depend on  *)
(* the order of the elements, follows by taking a smallest counterexample    *)
(* (WFMin), as no induction rule can be instantiated.                        *)

\* The order of the naturals is well founded.
LEMMA NatOrder == \E R : IsWellFoundedOn(R, Nat) /\ \A x, y \in Nat : x < y => <<x, y>> \in R
<1> DEFINE R == {pair \in Nat \X Nat : pair[1] < pair[2]}
<1>1. OpToRel(<, Nat) = R
  BY Zenon DEF OpToRel
<1>2. IsWellFoundedOn(R, Nat)
  BY <1>1, NatLessThanWellFounded, Zenon
<1>3. \A x, y \in Nat : x < y => <<x, y>> \in R
  OBVIOUS
<1> HIDE DEF R
<1>4. QED
  BY <1>2, <1>3, Zenon

LEMMA LeastNumber ==
  ASSUME NEW T, T \subseteq Nat, T # {}
  PROVE  \E k \in T : \A l \in T : k <= l
<1>1. PICK R : IsWellFoundedOn(R, Nat) /\ \A x, y \in Nat : x < y => <<x, y>> \in R
  BY NatOrder
<1>2. IsWellFoundedOn(R, Nat)
  BY <1>1
<1>3. PICK k \in T : \A l \in T : ~ (<<l, k>> \in R)
  BY <1>2, WFMin, Zenon
<1>4. ASSUME NEW l \in T PROVE k <= l
  <2>1. k \in Nat /\ l \in Nat /\ ~ (l < k)
    BY <1>1, <1>3
  <2>2. QED
    BY <2>1
<1>5. QED
  BY <1>4

\* A subset of a finite set for which something fails, but for no smaller one.
LEMMA SmallestSubset ==
  ASSUME NEW S, IsFiniteSet(S), NEW F \in SUBSET SUBSET S, F # {}
  PROVE  \E T \in F : \A U \in F : Cardinality(T) <= Cardinality(U)
<1> DEFINE N == {Cardinality(T) : T \in F}
<1>1. N \subseteq Nat /\ N # {}
  BY FS_Subset, FS_CardinalityType
<1>2. PICK k \in N : \A l \in N : k <= l
  BY <1>1, LeastNumber
<1>3. QED
  BY <1>2

\* What SumFunction(g) adds up: for each set of arguments one of them and the
\* sum over the others.
Chosen(T) == CHOOSE x \in T : TRUE
Term(g, h, T) == IF T = {} THEN 0 ELSE g[Chosen(T)] + h[T \ {Chosen(T)}]
Adds(g, h) == h = [T \in SUBSET DOMAIN g |-> Term(g, h, T)]

SumsUp(S, g, h) == h \in [SUBSET S -> Int] /\ Adds(g, h)

LEMMA SumIs ==
  ASSUME NEW g
  PROVE  SumFunction(g) = (CHOOSE h : Adds(g, h))[DOMAIN g]
BY DEF SumFunction, SumFunctionOnSet, FoldFunctionOnSet, MapThenFoldSet, Adds, Term, Chosen

LEMMA Shrinks ==
  ASSUME NEW S, IsFiniteSet(S), NEW T \in SUBSET S, NEW x \in T
  PROVE  /\ T \ {x} \in SUBSET S /\ Cardinality(T) \in Nat /\ Cardinality(T \ {x}) \in Nat
         /\ Cardinality(T \ {x}) = Cardinality(T) - 1
BY FS_Subset, FS_CardinalityType, FS_RemoveElement

LEMMA ChosenIn ==
  ASSUME NEW T, T # {}
  PROVE  Chosen(T) \in T
BY DEF Chosen

LEMMA SumsExist ==
  ASSUME NEW S, IsFiniteSet(S), NEW g \in [S -> Int]
  PROVE  \E h \in [SUBSET S -> Int] : Adds(g, h)
<1> DEFINE UpTo(n, h) == \A T \in SUBSET S : Cardinality(T) <= n => h[T] = Term(g, h, T)
           Fails == {n \in Nat : ~ \E h \in [SUBSET S -> Int] : UpTo(n, h)}
<1>1. 0 \notin Fails
  <2> DEFINE h == [T \in SUBSET S |-> 0]
  <2>1. ASSUME NEW T \in SUBSET S, Cardinality(T) <= 0 PROVE h[T] = Term(g, h, T)
    <3>1. T = {}
      BY <2>1, FS_Subset, FS_CardinalityType, FS_EmptySet
    <3>2. QED
      BY <3>1 DEF Term
  <2>2. h \in [SUBSET S -> Int] /\ UpTo(0, h)
    BY <2>1
  <2> HIDE DEF h, UpTo
  <2>3. QED
    BY <2>2
<1>2. ASSUME NEW n \in Nat, n \notin Fails PROVE n + 1 \notin Fails
  <2>1. PICK h \in [SUBSET S -> Int] : UpTo(n, h)
    BY <1>2
  <2> DEFINE e == [T \in SUBSET S |-> Term(g, h, T)]
  <2>2. e \in [SUBSET S -> Int]
    BY ChosenIn DEF Term
  <2>3. ASSUME NEW T \in SUBSET S, Cardinality(T) <= n + 1 PROVE e[T] = Term(g, e, T)
    <3>1. CASE T = {}
      BY <3>1 DEF Term
    <3>2. CASE T # {}
      <4> DEFINE U == T \ {Chosen(T)}
      <4>1. U \in SUBSET S /\ Cardinality(U) <= n
        BY <2>3, <3>2, ChosenIn, Shrinks
      <4>2. e[U] = h[U]
        BY <2>1, <4>1
      <4>3. QED
        BY <3>2, <4>2 DEF Term
    <3>3. QED
      BY <3>1, <3>2
  <2>4. UpTo(n + 1, e)
    BY <2>3
  <2> HIDE DEF e, UpTo
  <2>5. QED
    BY <2>2, <2>4
<1>3. Fails = {}
  <2> SUFFICES ASSUME Fails # {} PROVE FALSE
    OBVIOUS
  <2>1. PICK k \in Fails : \A l \in Fails : k <= l
    BY LeastNumber
  <2>2. k \in Nat /\ k # 0
    BY <1>1
  <2> HIDE DEF Fails
  <2>3. k - 1 \in Nat /\ k - 1 \notin Fails
    BY <2>1, <2>2
  <2>4. (k - 1) + 1 \notin Fails
    BY <1>2, <2>3
  <2>5. (k - 1) + 1 = k
    BY <2>2
  <2>6. QED
    BY <2>1, <2>4, <2>5
<1>4. Cardinality(S) \in Nat
  BY FS_CardinalityType
<1>5. PICK h \in [SUBSET S -> Int] : UpTo(Cardinality(S), h)
  BY <1>3, <1>4
<1>6. \A T \in SUBSET S : h[T] = Term(g, h, T)
  BY <1>5, FS_Subset
<1>7. Adds(g, h)
  BY <1>6 DEF Adds
<1>8. QED
  BY <1>7

LEMMA SumsAgree ==
  ASSUME NEW S, IsFiniteSet(S), NEW g \in [S -> Int], NEW e \in [S -> Int],
         NEW h, Adds(g, h), NEW k, Adds(e, k),
         NEW T \in SUBSET S, \A x \in T : g[x] = e[x]
  PROVE  h[T] = k[T]
<1> DEFINE F == {U \in SUBSET T : h[U] # k[U]}
<1> SUFFICES ASSUME F # {} PROVE FALSE
  OBVIOUS
<1>1. PICK U \in F : \A V \in F : Cardinality(U) <= Cardinality(V)
  <2>1. F \in SUBSET SUBSET S
    OBVIOUS
  <2> HIDE DEF F
  <2>2. QED
    BY <2>1, SmallestSubset
<1>2. h[U] = Term(g, h, U) /\ k[U] = Term(e, k, U)
  BY <1>1 DEF Adds
<1>3. U # {}
  BY <1>1, <1>2 DEF Term
<1> DEFINE V == U \ {Chosen(U)}
<1>4. Chosen(U) \in U
  BY <1>3, ChosenIn
<1>5. Cardinality(V) < Cardinality(U) /\ V \in SUBSET T
      /\ Cardinality(V) \in Nat /\ Cardinality(U) \in Nat
  <2>1. U \in SUBSET S /\ U \in SUBSET T
    BY <1>1
  <2>2. QED
    BY <1>4, <2>1, Shrinks
<1>6. h[V] = k[V]
  <2> HIDE DEF V
  <2>1. V \notin F
    <3> HIDE DEF F
    <3>1. QED
      BY <1>1, <1>5
  <2>2. QED
    BY <1>5, <2>1
<1>7. g[Chosen(U)] = e[Chosen(U)]
  BY <1>1, <1>4
<1>8. h[U] = k[U]
  BY <1>2, <1>3, <1>6, <1>7 DEF Term
<1>9. QED
  BY <1>1, <1>8

\* It does not matter which argument is taken first.
LEMMA AnyFirst ==
  ASSUME NEW S, IsFiniteSet(S), NEW g \in [S -> Int], NEW h, SumsUp(S, g, h),
         NEW T \in SUBSET S, NEW x \in T
  PROVE  h[T] = g[x] + h[T \ {x}]
<1>0. h \in [SUBSET S -> Int] /\ Adds(g, h)
  BY DEF SumsUp
<1> DEFINE F == {U \in SUBSET S : \E y \in U : h[U] # g[y] + h[U \ {y}]}
<1> SUFFICES ASSUME F # {} PROVE FALSE
  OBVIOUS
<1>1. PICK U \in F : \A V \in F : Cardinality(U) <= Cardinality(V)
  <2>1. F \in SUBSET SUBSET S
    OBVIOUS
  <2> HIDE DEF F
  <2>2. QED
    BY <2>1, SmallestSubset
<1>2. PICK y \in U : h[U] # g[y] + h[U \ {y}]
  BY <1>1
<1> DEFINE z == Chosen(U)
           V == U \ {z}
           W == U \ {y}
<1>3. z \in U /\ y \in S /\ z \in S
  BY <1>1, <1>2, ChosenIn
<1>4. h[U] = g[z] + h[V]
  BY <1>0, <1>1, <1>2 DEF Adds, Term
<1>5. y # z
  BY <1>2, <1>4
<1> HIDE DEF z
<1>6. /\ Cardinality(V) < Cardinality(U) /\ V \in SUBSET S
      /\ Cardinality(W) < Cardinality(U) /\ W \in SUBSET S
      /\ Cardinality(V) \in Nat /\ Cardinality(W) \in Nat /\ Cardinality(U) \in Nat
  BY <1>1, <1>2, <1>3, Shrinks
<1>7. V \notin F /\ W \notin F
  <2> HIDE DEF F, V, W
  <2>1. QED
    BY <1>1, <1>6
<1>8. h[V] = g[y] + h[V \ {y}] /\ h[W] = g[z] + h[W \ {z}]
  BY <1>2, <1>3, <1>5, <1>6, <1>7
<1>9. V \ {y} = W \ {z} /\ V \ {y} \in SUBSET S
  BY <1>6
<1>10. PICK r \in Int : h[V] = g[y] + r /\ h[W] = g[z] + r
  <2> HIDE DEF V, W
  <2>1. QED
    BY <1>0, <1>8, <1>9
<1>11. h[U] = g[y] + h[W]
  <2> HIDE DEF V, W
  <2>1. g[y] \in Int /\ g[z] \in Int
    BY <1>3
  <2>2. QED
    BY <1>4, <1>10, <2>1
<1>12. QED
  BY <1>2, <1>11

LEMMA SumOf ==
  ASSUME NEW S, IsFiniteSet(S), NEW g \in [S -> Int]
  PROVE  \E h \in [SUBSET S -> Int] :
           /\ Adds(g, h) /\ SumFunction(g) = h[S]
           /\ \A x \in S : h[S] = g[x] + h[S \ {x}]
<1>1. PICK h \in [SUBSET S -> Int] : Adds(g, h)
  BY SumsExist
<1> DEFINE k == CHOOSE e : Adds(g, e)
<1>2. Adds(g, k)
  BY <1>1
<1>3. SumFunction(g) = k[S]
  BY SumIs
<1> HIDE DEF k
<1>4. k[S] = h[S]
  BY <1>1, <1>2, SumsAgree
<1>5. ASSUME NEW x \in S PROVE h[S] = g[x] + h[S \ {x}]
  <2>1. SumsUp(S, g, h)
    BY <1>1 DEF SumsUp
  <2>2. QED
    BY <2>1, AnyFirst
<1>6. QED
  BY <1>1, <1>3, <1>4, <1>5

\* A sum whose terms change at one argument changes by as much.
LEMMA SumChange ==
  ASSUME NEW S, IsFiniteSet(S), NEW g \in [S -> Int], NEW e \in [S -> Int],
         NEW x \in S, \A y \in S \ {x} : e[y] = g[y]
  PROVE  /\ SumFunction(g) \in Int /\ SumFunction(e) \in Int
         /\ SumFunction(e) = SumFunction(g) + e[x] - g[x]
<1>1. PICK h \in [SUBSET S -> Int] : /\ Adds(g, h) /\ SumFunction(g) = h[S]
                                     /\ \A y \in S : h[S] = g[y] + h[S \ {y}]
  BY SumOf
<1>2. PICK k \in [SUBSET S -> Int] : /\ Adds(e, k) /\ SumFunction(e) = k[S]
                                     /\ \A y \in S : k[S] = e[y] + k[S \ {y}]
  BY SumOf
<1>3. PICK r \in Int : r = h[S \ {x}] /\ r = k[S \ {x}]
  <2>1. S \ {x} \in SUBSET S
    OBVIOUS
  <2>2. h[S \ {x}] = k[S \ {x}]
    BY <1>1, <1>2, <2>1, SumsAgree
  <2>3. QED
    BY <2>1, <2>2
<1>4. g[x] \in Int /\ e[x] \in Int
  OBVIOUS
<1>5. SumFunction(g) = g[x] + r /\ SumFunction(e) = e[x] + r
  BY <1>1, <1>2, <1>3
<1>6. QED
  BY <1>3, <1>4, <1>5

LEMMA SumOfZeros ==
  ASSUME NEW S, IsFiniteSet(S), NEW g \in [S -> Int], \A x \in S : g[x] = 0
  PROVE  SumFunction(g) = 0
<1> DEFINE h == [T \in SUBSET S |-> 0]
<1>1. Adds(g, h)
  <2>1. ASSUME NEW T \in SUBSET S PROVE Term(g, h, T) = 0
    BY ChosenIn DEF Term
  <2>2. QED
    BY <2>1 DEF Adds
<1>2. PICK k \in [SUBSET S -> Int] : Adds(g, k) /\ SumFunction(g) = k[S]
  BY SumOf
<1>3. k[S] = h[S]
  <2> HIDE DEF h
  <2>1. QED
    BY <1>1, <1>2, SumsAgree
<1>4. QED
  BY <1>2, <1>3

USE ShardsAssumption, ActorsAssumption, EntryAssumption, ConfigAssumption,
    BoundsAssumption, AbsentAssumption

-----------------------------------------------------------------------------
(* Types *)

LEMMA InitTypeOK == Init => TypeOK
  BY DEF Init, TypeOK, NoLocals, Locals, LocalsType, SweepType, Actors, Shards, WorkerLabels,
         SweeperLabels, SweepHolds, DropHolds, PutHolds

\* Updates of an actor's locals keep their type.
LEMMA LocalsUpdate ==
  ASSUME NEW r \in LocalsType, NEW c \in Nat, NEW b \in Nat,
         NEW op \in {"none", "put", "get", "delete", "expire", "evict"}
  PROVE  /\ [r EXCEPT !.op = op, !.cut = c] \in LocalsType
         /\ [r EXCEPT !.cut = c, !.op = op] \in LocalsType
         /\ [r EXCEPT !.burst = b, !.cut = c] \in LocalsType
<1> DEFINE q == [r EXCEPT !.op = op]
           t == [r EXCEPT !.burst = b]
           u == [r EXCEPT !.cut = c]
<1>1. q \in LocalsType /\ t \in LocalsType /\ u \in LocalsType
  BY DEF LocalsType
<1>2. /\ [q EXCEPT !.cut = c] \in LocalsType
      /\ [t EXCEPT !.cut = c] \in LocalsType
      /\ [u EXCEPT !.op = op] \in LocalsType
  BY <1>1 DEF LocalsType
<1>3. /\ [q EXCEPT !.cut = c] = [r EXCEPT !.op = op, !.cut = c]
      /\ [t EXCEPT !.cut = c] = [r EXCEPT !.burst = b, !.cut = c]
      /\ [u EXCEPT !.op = op] = [r EXCEPT !.cut = c, !.op = op]
  OBVIOUS
<1> QED
  BY <1>2, <1>3

\* What Remove does to the types.
LEMMA RemoveTypes ==
  ASSUME TypeOK, NEW a \in Actors, NEW i \in Ids, m[i] # Absent,
         NEW op \in {"put", "get", "delete", "expire", "evict"}, Remove(a, i, op)
  PROVE  /\ m' \in [Ids -> Record \cup {Absent}]
         /\ loc' \in [Actors -> LocalsType]
         /\ loc'[a].rec = loc[a].rec
         /\ loc'[a].id = loc[a].id
         /\ loc'[a].burst = loc[a].burst
         /\ \A b \in Actors \ {a} : loc'[b] = loc[b]
<1>1. m[i].size \in Nat
  <2>1. m[i] \in Record
    BY DEF TypeOK
  <2>2. QED
    BY <2>1 DEF Record
<1>2. m' \in [Ids -> Record \cup {Absent}]
  BY DEF TypeOK, Remove
<1>3. \A b \in Actors \ {a} : loc'[b] = loc[b]
  BY DEF TypeOK, Remove
<1>4. loc' = [loc EXCEPT ![a] = [loc[a] EXCEPT !.op = op, !.cut = m[i].size]]
  BY DEF TypeOK, Remove
<1>5. loc[a] \in LocalsType
  BY DEF TypeOK
<1>6. [loc[a] EXCEPT !.op = op, !.cut = m[i].size] \in LocalsType
  BY <1>1, <1>5, LocalsUpdate
<1>7. loc' \in [Actors -> LocalsType]
  BY <1>4, <1>6 DEF TypeOK
<1>8. loc'[a] = [loc[a] EXCEPT !.op = op, !.cut = m[i].size]
  BY <1>4 DEF TypeOK
<1>9. QED
  BY <1>2, <1>3, <1>5, <1>7, <1>8 DEF LocalsType

LEMMA PutTypeOK ==
  ASSUME TypeOK, NEW w \in Workers, Put(w)
  PROVE  TypeOK'
<1> USE DEF TypeOK, Actors, Goto, Counted, Begin, Return, Acquire, Release,
            WorkerLabels, SweeperLabels, PutHolds, DropHolds, SweepHolds, ShardOfActor
<1>1. ASSUME NEW i \in Ids, NEW e \in Entry, PutRefused(w, i, e) PROVE TypeOK'
  BY <1>1 DEF PutRefused
<1>2. ASSUME NEW i \in Ids, NEW e \in Entry, PutStart(w, i, e) PROVE TypeOK'
  <2> DEFINE rec == [entry |-> e, expires |-> clock + TTL, size |-> EntrySize(e)]
  <2>1. rec \in Record
    BY DEF EntrySize, Record
  <2>2. Locals("put", i, rec, clock) \in LocalsType /\ Locals("put", i, rec, clock).rec = rec
    BY <2>1 DEF Locals, LocalsType
  <2>3. loc' = [loc EXCEPT ![w] = Locals("put", i, rec, clock)]
    BY <1>2 DEF PutStart
  <2>4. QED
    BY <1>2, <2>1, <2>2, <2>3 DEF PutStart
<1>3. CASE PutLockExisting(w)
  BY <1>3 DEF PutLockExisting, Replace, Record, LocalsType
<1>4. CASE PutLockNew(w)
  BY <1>4 DEF PutLockNew, Insert
<1>5. CASE PutCapEntries(w)
  BY <1>5 DEF PutCapEntries
<1>6. CASE PutCapBytes(w)
  BY <1>6 DEF PutCapBytes
<1>7. CASE PutEvictNone(w)
  BY <1>7 DEF PutEvictNone
<1>8. CASE PutEvictExpired(w)
  <2>1. PICK i \in Ids : m[i] # Absent /\ Remove(w, i, "put")
    BY <1>8 DEF PutEvictExpired, Dead, Live
  <2>2. QED
    BY <1>8, <2>1, RemoveTypes DEF PutEvictExpired
<1>9. CASE PutEvictOldest(w)
  <2>1. PICK i \in Ids : m[i] # Absent /\ Remove(w, i, "put")
    BY <1>9 DEF PutEvictOldest, Oldest, Samples, Live
  <2>2. /\ Goto(w, "putEvict", "putDropEntry") /\ Counted("evicted")
        /\ UNCHANGED <<lock, entries, bytes, clock, sw, closing, ops>>
    BY <1>9 DEF PutEvictOldest
  <2>3. /\ m' \in [Ids -> Record \cup {Absent}] /\ loc' \in [Actors -> LocalsType]
        /\ loc'[w].rec = loc[w].rec /\ \A v \in Actors \ {w} : loc'[v] = loc[v]
    BY <2>1, RemoveTypes
  <2>4. QED
    BY <2>2, <2>3
<1>10. CASE PutDropEntry(w)
  BY <1>10 DEF PutDropEntry
<1>11. CASE PutDropBytes(w)
  <2>1. loc[w] \in LocalsType
    OBVIOUS
  <2>2. loc[w].cut \in Nat /\ loc[w].burst + 1 \in Nat
    BY <2>1 DEF LocalsType
  <2>3. loc' = [loc EXCEPT ![w] = [loc[w] EXCEPT !.burst = loc[w].burst + 1, !.cut = 0]]
    BY <1>11 DEF PutDropBytes
  <2>4. [loc[w] EXCEPT !.burst = loc[w].burst + 1, !.cut = 0] \in LocalsType
    BY <2>1, <2>2, LocalsUpdate
  <2>5. [loc[w] EXCEPT !.burst = loc[w].burst + 1, !.cut = 0].rec = loc[w].rec
    BY <2>1 DEF LocalsType
  <2>6. QED
    BY <1>11, <2>2, <2>3, <2>4, <2>5 DEF PutDropBytes
<1>12. CASE PutAdd(w)
  BY <1>12 DEF PutAdd
<1>13. CASE PutGrow(w)
  BY <1>13 DEF PutGrow, Record
<1>14. CASE PutStore(w)
  <2>1. NoLocals \in LocalsType
    BY DEF NoLocals, Locals, LocalsType
  <2>2. loc[w].rec \in Record /\ loc[w].id \in Ids
    BY <1>14 DEF PutStore, LocalsType
  <2>3. QED
    BY <1>14, <2>1, <2>2 DEF PutStore
<1>15. QED
  BY <1>1, <1>2, <1>3, <1>4, <1>5, <1>6, <1>7, <1>8, <1>9, <1>10, <1>11, <1>12,
     <1>13, <1>14 DEF Put

LEMMA GetDeleteTypeOK ==
  ASSUME TypeOK, NEW w \in Workers, Get(w) \/ Delete(w) \/ DropBytes(w)
  PROVE  TypeOK'
<1> USE DEF TypeOK, Actors, Goto, Counted, Begin, Return, Acquire, Release,
            WorkerLabels, SweeperLabels, PutHolds, DropHolds, SweepHolds, ShardOfActor
<1>0. /\ NoLocals \in LocalsType
      /\ \A op \in {"get", "delete"}, i \in Ids : Locals(op, i, Absent, 0) \in LocalsType
  BY DEF NoLocals, Locals, LocalsType
<1>a. loc[w] \in LocalsType /\ loc[w].id \in Ids /\ loc[w].cut \in Nat
  BY DEF LocalsType
<1>1. ASSUME NEW i \in Ids, GetStart(w, i) PROVE TypeOK'
  BY <1>0, <1>1 DEF GetStart
<1>2. CASE GetAbsent(w)
  BY <1>0, <1>2 DEF GetAbsent
<1>3. CASE GetFound(w)
  <2>1. m[loc[w].id] \in Record
    BY <1>3, <1>a DEF GetFound
  <2>2. loc' = [loc EXCEPT ![w] = [loc[w] EXCEPT !.rec = m[loc[w].id]]]
    BY <1>3 DEF GetFound
  <2>3. /\ [loc[w] EXCEPT !.rec = m[loc[w].id]] \in LocalsType
        /\ [loc[w] EXCEPT !.rec = m[loc[w].id]].rec = m[loc[w].id]
    BY <2>1, <1>a DEF LocalsType
  <2>4. QED
    BY <1>3, <2>1, <2>2, <2>3 DEF GetFound
<1>4. CASE GetHit(w)
  BY <1>0, <1>4 DEF GetHit, Serve
<1>5. CASE GetStale(w)
  <2>1. loc' = [loc EXCEPT ![w] = [loc[w] EXCEPT !.now = clock]]
    BY <1>5 DEF GetStale
  <2>2. [loc[w] EXCEPT !.now = clock] \in LocalsType
    BY <1>a DEF LocalsType
  <2>3. QED
    BY <1>5, <2>1, <2>2 DEF GetStale
<1>6. CASE GetDrop(w)
  <2>1. m[loc[w].id] # Absent /\ Remove(w, loc[w].id, "get")
    BY <1>6 DEF GetDrop, DropDead, StillDead
  <2>2. QED
    BY <1>6, <1>a, <2>1, RemoveTypes DEF GetDrop, DropDead
<1>7. CASE GetKeep(w)
  BY <1>0, <1>7 DEF GetKeep
<1>8. ASSUME NEW i \in Ids, DeleteStart(w, i) PROVE TypeOK'
  BY <1>0, <1>8 DEF DeleteStart
<1>9. CASE DeleteFound(w)
  <2>1. m[loc[w].id] # Absent /\ Remove(w, loc[w].id, "delete")
    BY <1>9 DEF DeleteFound
  <2>2. QED
    BY <1>9, <1>a, <2>1, RemoveTypes DEF DeleteFound
<1>10. CASE DeleteAbsent(w)
  BY <1>0, <1>10 DEF DeleteAbsent
<1>11. CASE DropBytes(w)
  BY <1>0, <1>11, <1>a DEF DropBytes
<1>12. QED
  BY <1>1, <1>2, <1>3, <1>4, <1>5, <1>6, <1>7, <1>8, <1>9, <1>10, <1>11 DEF Get, Delete

LEMMA CloseTypeOK ==
  ASSUME TypeOK, NEW w \in Workers, Close(w)
  PROVE  TypeOK'
<1> USE DEF TypeOK, Actors, Goto, Begin, WorkerLabels, SweeperLabels,
            PutHolds, DropHolds, SweepHolds
<1>1. CASE CloseStart(w)
  BY <1>1 DEF CloseStart
<1>2. CASE CloseFirst(w)
  BY <1>2 DEF CloseFirst
<1>3. CASE CloseDone(w)
  BY <1>3 DEF CloseDone
<1>4. CASE CloseAgain(w)
  BY <1>4 DEF CloseAgain
<1>5. QED
  BY <1>1, <1>2, <1>3, <1>4 DEF Close

LEMMA DropEntryTypeOK ==
  ASSUME TypeOK, NEW a \in Actors, DropEntry(a)
  PROVE  TypeOK'
  BY DEF TypeOK, DropEntry, Goto, Actors, WorkerLabels, SweeperLabels,
         PutHolds, DropHolds, SweepHolds

\* Updates of the sweeper's locals keep their type.
LEMMA SweepUpdateOne ==
  ASSUME NEW r \in SweepType, NEW i \in Int
  PROVE  /\ [r EXCEPT !.left = i] \in SweepType
         /\ [r EXCEPT !.need = i] \in SweepType
         /\ [r EXCEPT !.need = 0] \in SweepType
         /\ [r EXCEPT !.count = 0] \in SweepType
         /\ [r EXCEPT !.over = 0] \in SweepType
         /\ [r EXCEPT !.count = i] \in SweepType
         /\ [r EXCEPT !.over = i] \in SweepType
         /\ [r EXCEPT !.over = i].count = r.count
  BY DEF SweepType

LEMMA SweepUpdateTwo ==
  ASSUME NEW r \in SweepType, NEW j \in Int
  PROVE  [r EXCEPT !.count = 0, !.need = j] \in SweepType
<1>1. [[r EXCEPT !.count = 0] EXCEPT !.need = j] \in SweepType
  BY SweepUpdateOne
<1>2. QED
  BY <1>1

LEMMA SweepUpdateQuota ==
  ASSUME NEW r \in SweepType, NEW k \in Int
  PROVE  [r EXCEPT !.count = 0, !.over = 0, !.need = k] \in SweepType
<1>1. [[[r EXCEPT !.count = 0] EXCEPT !.over = 0] EXCEPT !.need = k] \in SweepType
  BY SweepUpdateOne
<1>2. QED
  BY <1>1

LEMMA SweepUpdateNext ==
  ASSUME NEW r \in SweepType, NEW n \in Shards, NEW i \in Int
  PROVE  [r EXCEPT !.next = n, !.left = i, !.need = 0] \in SweepType
<1>1. [r EXCEPT !.next = n] \in SweepType
  BY DEF SweepType
<1>2. [[[r EXCEPT !.next = n] EXCEPT !.left = i] EXCEPT !.need = 0] \in SweepType
  BY <1>1, SweepUpdateOne
<1>3. QED
  BY <1>2

LEMMA WrapInRange ==
  ASSUME NEW n \in Shards
  PROVE  (n + 1) % NumShards \in Shards
  BY DEF Shards

LEMMA PerTickInt == PerTick \in Int
<1>1. CASE SweepInterval <= 0
  BY <1>1 DEF PerTick, ShardsPerTick
<1>2. CASE SweepInterval > 0
  <2> DEFINE ticks == IF TTL \div SweepInterval < 1 THEN 1 ELSE TTL \div SweepInterval
             per   == (NumShards + ticks - 1) \div ticks
  <2>1. ticks \in Nat \ {0}
    BY <1>2
  <2>2. per \in Int
    BY <2>1
  <2>3. PerTick = IF per < 1 THEN 1 ELSE IF per > NumShards THEN NumShards ELSE per
    BY <1>2 DEF PerTick, ShardsPerTick
  <2>4. QED
    BY <2>2, <2>3
<1>3. QED
  BY <1>1, <1>2

LEMMA LiveFinite ==
  ASSUME NEW s \in Shards
  PROVE  IsFiniteSet(Live(s)) /\ Cardinality(Live(s)) \in Nat
  BY FS_Subset, FS_CardinalityType DEF Live

LEMMA ShareInt ==
  ASSUME NEW need \in Int, NEW shardLen \in Nat
  PROVE  Share(need, shardLen) \in Int
  BY DEF Share, ShareOf

\* The sweeper's own steps keep the type of its locals.
LEMMA SweepLocals ==
  ASSUME sw \in SweepType, entries \in Int, bytes \in Int,
         pc[Sweeper] = "quotaMean" => sw.count > 0,
         SweepWork
  PROVE  sw' \in SweepType
<1>0. /\ sw.next \in Shards /\ sw.left \in Int /\ sw.need \in Int
      /\ sw.count \in Int /\ sw.over \in Int
  BY DEF SweepType
<1>1. CASE SweepCapEntries
  <2>1. (4 * PerTick) \in Int
    BY PerTickInt
  <2>2. PICK i \in Int : sw' = sw \/ sw' = [sw EXCEPT !.left = i]
    BY <1>1, <2>1 DEF SweepCapEntries, SweepPlan
  <2>3. QED
    BY <2>2, SweepUpdateOne
<1>2. CASE SweepCapBytes
  <2>1. (4 * PerTick) \in Int /\ PerTick \in Int
    BY PerTickInt
  <2>2. PICK i \in Int : sw' = [sw EXCEPT !.left = i]
    BY <1>2, <2>1 DEF SweepCapBytes, SweepPlan
  <2>3. QED
    BY <2>2, SweepUpdateOne
<1>3. CASE SweepScanned
  <2>1. sw' = [sw EXCEPT !.need = 0]
    BY <1>3 DEF SweepScanned
  <2>2. QED
    BY <2>1, SweepUpdateOne
<1>4. CASE QuotaOver
  <2> DEFINE over == IF entries > MaxEntries THEN entries - MaxEntries ELSE 0
  <2>1. over \in Int
    BY ConfigAssumption
  <2>2. sw' = [sw EXCEPT !.need = over]
    BY <1>4 DEF QuotaOver
  <2> HIDE DEF over
  <2>3. QED
    BY <2>1, <2>2, SweepUpdateOne
<1>5. CASE QuotaCount
  BY <1>5, SweepUpdateOne DEF QuotaCount
<1>6. CASE QuotaBytes
  <2> DEFINE share == Share(sw.need, Cardinality(Live(sw.next)))
  <2>1. share \in Int
    BY <1>0, LiveFinite, ShareInt
  <2>2. bytes - MaxBytes \in Int
    OBVIOUS
  <2>3. PICK i \in Int : \/ sw' = [sw EXCEPT !.over = i]
                         \/ sw' = [sw EXCEPT !.count = 0, !.need = i]
    BY <1>6, <2>1, <2>2 DEF QuotaBytes
  <2> HIDE DEF share
  <2>4. [sw EXCEPT !.over = i] \in SweepType /\ [sw EXCEPT !.count = 0, !.need = i] \in SweepType
    BY SweepUpdateOne, SweepUpdateTwo
  <2>5. QED
    BY <2>3, <2>4
<1>7. CASE QuotaMean
  <2> DEFINE mean  == IF bytes \div sw.count < 1 THEN 1 ELSE bytes \div sw.count
             count == sw.over \div mean
             need  == IF count > sw.need THEN count ELSE sw.need
             share == Share(need, Cardinality(Live(sw.next)))
  <2>1. sw.count > 0
    BY <1>7 DEF QuotaMean, Goto
  <2>2. mean \in Nat \ {0}
    BY <1>0, <2>1
  <2>3. need \in Int
    BY <1>0, <2>2
  <2>4. share \in Int
    BY <1>0, <2>3, LiveFinite, ShareInt
  <2>5. sw' = [sw EXCEPT !.count = 0, !.over = 0, !.need = share]
    BY <1>7 DEF QuotaMean
  <2> HIDE DEF share
  <2>6. PICK k \in Int : sw' = [sw EXCEPT !.count = 0, !.over = 0, !.need = k]
    BY <2>4, <2>5
  <2>7. QED
    BY <2>6, SweepUpdateQuota
<1>8. CASE SweepEvict
  <2>1. sw' = [sw EXCEPT !.need = sw.need - 1] /\ sw.need - 1 \in Int
    BY <1>0, <1>8 DEF SweepEvict
  <2>2. QED
    BY <2>1, SweepUpdateOne
<1>9. CASE SweepNext
  <2>1. /\ sw' = [sw EXCEPT !.next = (sw.next + 1) % NumShards,
                           !.left = sw.left - 1, !.need = 0]
        /\ sw.left - 1 \in Int
    BY <1>0, <1>9 DEF SweepNext, MoveOn
  <2>2. (sw.next + 1) % NumShards \in Shards
    BY <1>0, WrapInRange
  <2>3. PICK n \in Shards, i \in Int :
          sw' = [sw EXCEPT !.next = n, !.left = i, !.need = 0]
    BY <2>1, <2>2
  <2>4. QED
    BY <2>3, SweepUpdateNext
<1>10. QED
  BY <1>1, <1>2, <1>3, <1>4, <1>5, <1>6, <1>7, <1>8, <1>9
  DEF SweepWork, SweepTick, SweepNow, SweepLock, SweepExpired, DropEntry,
      SweepDropBytes

LEMMA SweepTypeOK ==
  ASSUME TypeOK, SweepWork \/ SweepStop
  PROVE  TypeOK'
<1>0. NoLocals \in LocalsType
  BY DEF NoLocals, Locals, LocalsType
<1>a. loc[Sweeper] \in LocalsType /\ loc[Sweeper].cut \in Nat
  BY DEF LocalsType, TypeOK, Actors
<1>b. SweepWork => sw' \in SweepType
  BY SweepLocals DEF TypeOK
<1> USE DEF TypeOK, Actors, Goto, Counted, Return, Acquire, Release,
            WorkerLabels, SweeperLabels, PutHolds, DropHolds, SweepHolds, ShardOfActor
<1>1. CASE SweepStop
  BY <1>1 DEF SweepStop, Stop
<1>2. CASE SweepTick
  BY <1>2 DEF SweepTick
<1>3. CASE SweepCapEntries
  BY <1>3, <1>b DEF SweepCapEntries, SweepWork
<1>4. CASE SweepCapBytes
  BY <1>4, <1>b DEF SweepCapBytes, SweepWork
<1>5. CASE SweepNow
  <2>1. loc' = [loc EXCEPT ![Sweeper] = [loc[Sweeper] EXCEPT !.now = clock]]
    BY <1>5 DEF SweepNow
  <2>2. [loc[Sweeper] EXCEPT !.now = clock] \in LocalsType
    BY <1>a DEF LocalsType
  <2>3. QED
    BY <1>5, <2>1, <2>2 DEF SweepNow
<1>6. CASE SweepLock
  BY <1>6 DEF SweepLock, SweepType
<1>7. CASE SweepExpired
  <2>1. PICK i \in Ids : m[i] # Absent /\ Remove(Sweeper, i, "expire")
    BY <1>7 DEF SweepExpired, Dead, Live
  <2>2. QED
    BY <1>7, <2>1, RemoveTypes DEF SweepExpired
<1>8. CASE SweepScanned
  BY <1>8, <1>b DEF SweepScanned, SweepWork
<1>9. CASE QuotaOver
  BY <1>9, <1>b DEF QuotaOver, SweepWork
<1>10. CASE QuotaCount
  BY <1>10, <1>b DEF QuotaCount, SweepWork
<1>11. CASE QuotaBytes
  <2>1. pc'[Sweeper] = "quotaMean" => sw'.count > 0
    BY <1>11 DEF QuotaBytes, SweepType
  <2>2. QED
    BY <1>11, <1>b, <2>1 DEF QuotaBytes, SweepWork
<1>12. CASE QuotaMean
  BY <1>12, <1>b DEF QuotaMean, SweepWork
<1>13. CASE SweepEvict
  <2>1. PICK i \in Ids : m[i] # Absent /\ Remove(Sweeper, i, "evict")
    BY <1>13 DEF SweepEvict, Oldest, Live
  <2>2. /\ Goto(Sweeper, "sweepEvict", "dropEntry") /\ Counted("evicted")
        /\ sw.need > 0 /\ sw' = [sw EXCEPT !.need = @ - 1]
        /\ UNCHANGED <<lock, entries, bytes, clock, closing, ops>>
    BY <1>13 DEF SweepEvict
  <2>3. sw' \in SweepType
    BY <1>13, <1>b DEF SweepWork
  <2>4. /\ m' \in [Ids -> Record \cup {Absent}] /\ loc' \in [Actors -> LocalsType]
        /\ \A w \in Workers : loc'[w] = loc[w]
    BY <2>1, RemoveTypes
  <2>5. stats' = [stats EXCEPT !.evicted = @ + 1]
    BY <2>2 DEF Counted
  <2>6. pc' = [pc EXCEPT ![Sweeper] = "dropEntry"]
    BY <2>2 DEF Goto
  <2>7. UNCHANGED <<lock, entries, bytes, clock, closing>> /\ ops' = ops
    BY <2>2
  <2>8. \A w \in Workers : pc'[w] = pc[w]
    BY <2>6
  <2>9. QED
    BY <2>3, <2>4, <2>5, <2>6, <2>7, <2>8
<1>14. CASE SweepDropBytes
  <2>1. loc' = [loc EXCEPT ![Sweeper] = [loc[Sweeper] EXCEPT !.cut = 0, !.op = "none"]]
    BY <1>14 DEF SweepDropBytes
  <2>2. [loc[Sweeper] EXCEPT !.cut = 0, !.op = "none"] \in LocalsType
    BY <1>a, LocalsUpdate
  <2>3. QED
    BY <1>14, <1>a, <2>1, <2>2 DEF SweepDropBytes
<1>15. CASE SweepNext
  <2>1. sw.next \in Shards
    BY DEF SweepType
  <2>2. QED
    BY <1>15, <1>0, <1>b, <2>1 DEF SweepNext, MoveOn, SweepWork
<1>16. CASE DropEntry(Sweeper)
  BY <1>16, DropEntryTypeOK
<1>17. QED
  BY <1>1, <1>2, <1>3, <1>4, <1>5, <1>6, <1>7, <1>8, <1>9, <1>10, <1>11, <1>12,
     <1>13, <1>14, <1>15, <1>16 DEF SweepWork

LEMMA NextTypeOK == TypeOK /\ [Next]_vars => TypeOK'
<1> SUFFICES ASSUME TypeOK, [Next]_vars PROVE TypeOK'
  OBVIOUS
<1>1. ASSUME NEW w \in Workers, WorkerStep(w) PROVE TypeOK'
  BY <1>1, PutTypeOK, GetDeleteTypeOK, CloseTypeOK, DropEntryTypeOK
  DEF WorkerStep, Actors
<1>2. CASE SweepWork \/ SweepStop
  BY <1>2, SweepTypeOK
<1>3. CASE Elapse
  BY <1>3 DEF Elapse, TypeOK
<1>4. CASE UNCHANGED vars
  BY <1>4 DEF vars, TypeOK
<1>5. QED
  BY <1>1, <1>2, <1>3, <1>4 DEF Next

\* TypeOK is an invariant: every step of Put, Get, Delete, Close and the
\* sweeper keeps it.
THEOREM TypeCorrect == Spec => []TypeOK
  BY InitTypeOK, NextTypeOK, PTL DEF Spec

-----------------------------------------------------------------------------
(* Locks *)

Others(a) ==
  \A b \in Actors \ {a} : pc'[b] = pc[b] /\ loc'[b] = loc[b]

\* A step of a leaves everyone else at the shard they are at.
LEMMA ShardsOfOthers ==
  ASSUME NEW a \in Actors, Others(a), a = Sweeper \/ sw' = sw, NEW b \in Actors \ {a}
  PROVE  ShardOfActor(b)' = ShardOfActor(b) /\ (pc'[b] \in Holds <=> pc[b] \in Holds)
  BY DEF Others, ShardOfActor

\* A step of a outside the lock operations keeps the ownership of locks.
LEMMA LockedLocally ==
  ASSUME TypeOK, LockOwned, NEW a \in Actors, Others(a), lock' = lock,
         pc'[a] \in Holds <=> pc[a] \in Holds,
         pc[a] \in Holds => ShardOfActor(a)' = ShardOfActor(a),
         a = Sweeper \/ sw' = sw
  PROVE  LockOwned'
  BY DEF LockOwned, Others, TypeOK, Actors, ShardOfActor

LEMMA LockAcquired ==
  ASSUME TypeOK, LockOwned, NEW a \in Actors, Others(a), Acquire(a),
         pc[a] \notin Holds, pc'[a] \in Holds,
         ShardOfActor(a)' = ShardOfActor(a), ShardOfActor(a) \in Shards,
         a = Sweeper \/ sw' = sw
  PROVE  LockOwned'
<1> DEFINE s == ShardOfActor(a)
<1>1. \A t \in Shards : lock'[t] = IF t = s THEN a ELSE lock[t]
  BY DEF Acquire, TypeOK
<1>2. lock[s] = NoOne
  BY DEF Acquire
<1>3. ASSUME NEW b \in Actors, pc'[b] \in Holds PROVE lock'[ShardOfActor(b)'] = b
  <2>1. CASE b = a
    BY <1>1, <2>1
  <2>2. CASE b # a
    <3>1. lock[ShardOfActor(b)] = b /\ ShardOfActor(b)' = ShardOfActor(b)
      BY <1>3, <2>2, ShardsOfOthers DEF LockOwned
    <3>2. ShardOfActor(b) \in Shards
      BY DEF TypeOK, ShardOfActor, Actors, LocalsType, SweepType
    <3>3. b # NoOne
      BY ActorsAssumption DEF Actors
    <3>4. QED
      BY <1>1, <1>2, <3>1, <3>2, <3>3
  <2>3. QED
    BY <2>1, <2>2
<1>4. ASSUME NEW t \in Shards, lock'[t] # NoOne
      PROVE  \E b \in Actors : lock'[t] = b /\ pc'[b] \in Holds /\ ShardOfActor(b)' = t
  <2>1. CASE t = s
    BY <1>1, <2>1
  <2>2. CASE t # s
    <3>1. lock'[t] = lock[t] /\ lock[t] \in Actors
      BY <1>1, <1>4, <2>2 DEF TypeOK
    <3>2. pc[lock[t]] \in Holds /\ ShardOfActor(lock[t]) = t /\ lock[t] # a
      BY <1>4, <2>2, <3>1 DEF LockOwned
    <3>3. QED
      BY <3>1, <3>2, ShardsOfOthers
  <2>3. QED
    BY <2>1, <2>2
<1>5. QED
  BY <1>3, <1>4 DEF LockOwned, ShardOfActor

LEMMA LockReleased ==
  ASSUME TypeOK, LockOwned, NEW a \in Actors, Others(a), Release(a),
         pc[a] \in Holds, pc'[a] \notin Holds, ShardOfActor(a) \in Shards,
         a = Sweeper \/ sw' = sw
  PROVE  LockOwned'
<1> DEFINE s == ShardOfActor(a)
<1>1. \A t \in Shards : lock'[t] = IF t = s THEN NoOne ELSE lock[t]
  BY DEF Release, TypeOK
<1>2. lock[s] = a
  BY DEF LockOwned
<1>3. ASSUME NEW b \in Actors, pc'[b] \in Holds PROVE lock'[ShardOfActor(b)'] = b
  <2>1. b # a
    BY <1>3
  <2>2. lock[ShardOfActor(b)] = b /\ ShardOfActor(b)' = ShardOfActor(b)
    BY <1>3, <2>1, ShardsOfOthers DEF LockOwned
  <2>3. ShardOfActor(b) \in Shards
    BY DEF TypeOK, ShardOfActor, Actors, LocalsType, SweepType
  <2>4. QED
    BY <1>1, <1>2, <2>1, <2>2, <2>3
<1>4. ASSUME NEW t \in Shards, lock'[t] # NoOne
      PROVE  \E b \in Actors : lock'[t] = b /\ pc'[b] \in Holds /\ ShardOfActor(b)' = t
  <2>1. t # s /\ lock'[t] = lock[t] /\ lock[t] \in Actors
    BY <1>1, <1>4 DEF TypeOK
  <2>2. pc[lock[t]] \in Holds /\ ShardOfActor(lock[t]) = t /\ lock[t] # a
    BY <1>4, <2>1 DEF LockOwned
  <2>3. QED
    BY <2>1, <2>2, ShardsOfOthers
<1>5. QED
  BY <1>3, <1>4 DEF LockOwned, ShardOfActor

-----------------------------------------------------------------------------
(* The overshoot of the entry cap *)

\* A step of a touches no other shard than its own.
Elsewhere(a) ==
  \A t \in Shards \ {ShardOfActor(a)} :
    /\ lock'[t] = lock[t]
    /\ \A i \in Ids : ShardOf[i] = t => m'[i] = m[i]

\* What a step may do to the count, given what it does to its own shard.
Accounted(s) ==
  \/ entries' = entries /\ (SettledAt(s) => SettledAt(s)')
  \/ entries' = entries - 1
  \/ entries' = entries + 1 /\ ~SettledAt(s) /\ SettledAt(s)'
  \/ entries' = entries /\ entries < MaxEntries

LEMMA OwnShard ==
  ASSUME TypeOK, NEW a \in Actors
  PROVE  ShardOfActor(a) \in Shards
  BY DEF TypeOK, ShardOfActor, Actors, LocalsType, SweepType

LEMMA OtherShardsSettled ==
  ASSUME TypeOK, LockOwned, NEW a \in Actors, Others(a), Elsewhere(a),
         NEW t \in Shards \ {ShardOfActor(a)}
  PROVE  SettledAt(t)' <=> SettledAt(t)
<1>1. lock[t] # a
  BY DEF LockOwned, Actors, TypeOK
<1>2. lock'[t] = lock[t] /\ (lock[t] # NoOne => pc'[lock[t]] = pc[lock[t]] /\ loc'[lock[t]] = loc[lock[t]])
  BY <1>1 DEF Elsewhere, Others, TypeOK
<1>3. Live(t)' = Live(t)
  BY DEF Live, Elsewhere
<1>4. Reserved(t)' <=> Reserved(t)
  BY <1>2 DEF Reserved
<1>5. InHand(t)' <=> InHand(t)
  BY <1>2 DEF InHand
<1>6. QED
  BY <1>3, <1>4, <1>5 DEF SettledAt

LEMMA SettledFinite ==
  ASSUME NEW S \in SUBSET Shards
  PROVE  IsFiniteSet(S) /\ Cardinality(S) \in Nat /\ Cardinality(S) <= NumShards
<1>1. IsFiniteSet(Shards) /\ Cardinality(Shards) = NumShards
  BY FS_Interval DEF Shards
<1>2. QED
  BY <1>1, FS_Subset, FS_CardinalityType

LEMMA AccountedKeepsBound ==
  ASSUME OvershootInv, TypeOK', NEW a \in Actors, Others(a), Elsewhere(a),
         NEW s \in Shards, s = ShardOfActor(a), Accounted(s)
  PROVE  OvershootPerShard'
<1> USE DEF OvershootInv
<1>1. \A t \in Shards \ {s} : t \in Settled' <=> t \in Settled
  BY OtherShardsSettled DEF Settled
<1>2. /\ Settled \in SUBSET Shards /\ Settled' \in SUBSET Shards
      /\ s \in Settled <=> SettledAt(s)
      /\ s \in Settled' <=> SettledAt(s)'
  BY DEF Settled
<1>3. /\ IsFiniteSet(Settled) /\ Cardinality(Settled) \in Nat
      /\ IsFiniteSet(Settled') /\ Cardinality(Settled') \in Nat
  BY <1>2, SettledFinite
<1>4. entries \in Int /\ entries <= MaxEntries - 1 + Cardinality(Settled)
  BY DEF TypeOK, OvershootPerShard
<1>5. SUFFICES entries' <= MaxEntries - 1 + Cardinality(Settled')
  BY DEF OvershootPerShard
<1>6. CASE entries' = entries /\ (SettledAt(s) => SettledAt(s)')
  <2>1. Settled \in SUBSET Settled'
    BY <1>1, <1>2, <1>6
  <2>2. Cardinality(Settled) <= Cardinality(Settled')
    BY <2>1, <1>3, FS_Subset
  <2>3. QED
    BY <2>2, <1>3, <1>4, <1>6
<1>7. CASE entries' = entries - 1
  <2>1. Settled \ {s} \in SUBSET Settled'
    BY <1>1, <1>2
  <2>2. Cardinality(Settled \ {s}) <= Cardinality(Settled')
    BY <2>1, <1>3, FS_Subset
  <2>3. Cardinality(Settled \ {s}) =
          IF s \in Settled THEN Cardinality(Settled) - 1 ELSE Cardinality(Settled)
    BY <1>3, FS_RemoveElement
  <2>4. QED
    BY <2>2, <2>3, <1>3, <1>4, <1>7
<1>8. CASE entries' = entries + 1 /\ ~SettledAt(s) /\ SettledAt(s)'
  <2>1. Settled' = Settled \cup {s}
    BY <1>1, <1>2, <1>8
  <2>2. Cardinality(Settled') = Cardinality(Settled) + 1
    BY <2>1, <1>2, <1>3, <1>8, FS_AddElement
  <2>3. QED
    BY <2>2, <1>3, <1>4, <1>8
<1>9. CASE entries' = entries /\ entries < MaxEntries
  BY <1>9, <1>3, <1>4
<1>10. QED
  BY <1>6, <1>7, <1>8, <1>9 DEF Accounted

-----------------------------------------------------------------------------
(* The four kinds of steps *)

\* What is worked out for every step of a, on the shard s it works on.
LEMMA StepKeepsBound ==
  ASSUME OvershootInv, TypeOK', NEW a \in Actors, Others(a), Elsewhere(a),
         NEW s \in Shards, s = ShardOfActor(a), Accounted(s), LockOwned', FreshBurst'
  PROVE  OvershootInv'
  BY AccountedKeepsBound DEF OvershootInv

\* A step that ends outside Put's lock wait, or enters it with a fresh burst.
LEMMA FreshBurstKept ==
  ASSUME FreshBurst, NEW a \in Actors, Others(a),
         a = Sweeper \/ pc'[a] # "putLock" \/ loc'[a].burst = 0
  PROVE  FreshBurst'
  BY DEF FreshBurst, Others, Actors

\* A step taken without a lock, that takes none.
LEMMA StepOutside ==
  ASSUME OvershootInv, TypeOK', NEW a \in Actors, Others(a),
         m' = m, lock' = lock, entries' = entries, a = Sweeper \/ sw' = sw,
         pc[a] \notin Holds, pc'[a] \notin Holds,
         a = Sweeper \/ pc'[a] # "putLock" \/ loc'[a].burst = 0
  PROVE  OvershootInv'
<1> USE DEF OvershootInv
<1>1. PICK s \in Shards : s = ShardOfActor(a)
  BY OwnShard
<1>2. LockOwned' /\ FreshBurst' /\ Elsewhere(a)
  BY LockedLocally, FreshBurstKept DEF Elsewhere
<1>3. lock[s] # a
  BY DEF LockOwned, Actors, TypeOK
<1>4. lock[s] # NoOne => pc'[lock[s]] = pc[lock[s]] /\ loc'[lock[s]] = loc[lock[s]]
  BY <1>3 DEF Others, TypeOK
<1>5. Live(s)' = Live(s) /\ (Reserved(s)' <=> Reserved(s)) /\ (InHand(s)' <=> InHand(s))
  BY <1>4 DEF Live, Reserved, InHand
<1>6. Accounted(s)
  BY <1>5 DEF Accounted, SettledAt
<1>7. QED
  BY <1>1, <1>2, <1>6, StepKeepsBound

\* A step taken under the lock, that keeps it.
LEMMA StepInside ==
  ASSUME OvershootInv, TypeOK', NEW a \in Actors, Others(a), NEW s \in Shards,
         s = ShardOfActor(a), ShardOfActor(a)' = ShardOfActor(a), lock' = lock,
         a = Sweeper \/ sw' = sw, pc[a] \in Holds, pc'[a] \in Holds,
         \A i \in Ids : ShardOf[i] # s => m'[i] = m[i],
         Accounted(s)
  PROVE  OvershootInv'
<1>1. LockOwned' /\ FreshBurst'
  BY LockedLocally, FreshBurstKept
  DEF OvershootInv, Holds, PutHolds, DropHolds, SweepHolds
<1>2. Elsewhere(a)
  BY DEF Elsewhere
<1>3. QED
  BY <1>1, <1>2, StepKeepsBound

\* A step that takes the lock.
LEMMA StepIn ==
  ASSUME OvershootInv, TypeOK', NEW a \in Actors, Others(a), NEW s \in Shards,
         s = ShardOfActor(a), ShardOfActor(a)' = ShardOfActor(a), Acquire(a),
         a = Sweeper \/ sw' = sw, pc[a] \notin Holds, pc'[a] \in Holds,
         \A i \in Ids : ShardOf[i] # s => m'[i] = m[i],
         Accounted(s)
  PROVE  OvershootInv'
<1>1. LockOwned' /\ FreshBurst'
  BY LockAcquired, FreshBurstKept
  DEF OvershootInv, Holds, PutHolds, DropHolds, SweepHolds
<1>2. Elsewhere(a)
  BY DEF Elsewhere, Acquire, OvershootInv, TypeOK
<1>3. QED
  BY <1>1, <1>2, StepKeepsBound

\* A step that releases the lock.
LEMMA StepOut ==
  ASSUME OvershootInv, TypeOK', NEW a \in Actors, Others(a), NEW s \in Shards,
         s = ShardOfActor(a), Release(a),
         a = Sweeper \/ sw' = sw, pc[a] \in Holds, pc'[a] \in {"idle", "sweepNow", "select"},
         \A i \in Ids : ShardOf[i] # s => m'[i] = m[i],
         Accounted(s)
  PROVE  OvershootInv'
<1>1. LockOwned' /\ FreshBurst'
  BY LockReleased, FreshBurstKept
  DEF OvershootInv, Holds, PutHolds, DropHolds, SweepHolds
<1>2. Elsewhere(a)
  BY DEF Elsewhere, Release, OvershootInv, TypeOK
<1>3. QED
  BY <1>1, <1>2, StepKeepsBound

-----------------------------------------------------------------------------
(* The steps of a goroutine that holds the lock of its shard *)

\* What SettledAt says of a shard, in terms of the goroutine that holds it.
ReservedBy(a) ==
  /\ a \in Workers
  /\ \/ pc[a] \in {"putCapBytes", "putDropBytes", "putAdd"}
     \/ pc[a] \in {"putCapEntries", "putEvict", "putDropEntry"} /\ loc[a].burst > 0
HasInHand(a) == pc[a] \in {"dropEntry", "putDropEntry", "putGrow", "putStore"}

LEMMA SettledHere ==
  ASSUME TypeOK, NEW a \in Actors, NEW s \in Shards, lock[s] = a
  PROVE  SettledAt(s) <=> (Live(s) # {} \/ HasInHand(a)) /\ ~ReservedBy(a)
  BY DEF SettledAt, InHand, Reserved, HasInHand, ReservedBy, Actors

LEMMA SettledHereNext ==
  ASSUME TypeOK', NEW a \in Actors, NEW s \in Shards, lock'[s] = a
  PROVE  SettledAt(s)' <=> (Live(s)' # {} \/ HasInHand(a)') /\ ~ReservedBy(a)'
  BY DEF SettledAt, InHand, Reserved, HasInHand, ReservedBy, Actors

\* Goto moves one actor; an update of one actor's locals leaves the others'.
LEMMA OthersKept ==
  ASSUME TypeOK, NEW a \in Actors, NEW from, NEW to, Goto(a, from, to),
         \/ loc' = loc
         \/ \E r : loc' = [loc EXCEPT ![a] = r]
  PROVE  Others(a) /\ pc[a] = from /\ pc'[a] = to
  BY DEF Others, TypeOK, Goto

LEMMA PutLockedStep ==
  ASSUME OvershootInv, TypeOK', NEW w \in Workers,
         \/ PutCapEntries(w) \/ PutCapBytes(w) \/ PutEvictNone(w)
         \/ PutDropEntry(w) \/ PutAdd(w) \/ PutGrow(w)
  PROVE  OvershootInv'
<1>1. /\ Others(w) /\ pc[w] \in PutHolds /\ pc'[w] \in PutHolds
      /\ m' = m /\ lock' = lock /\ loc' = loc /\ sw' = sw
  BY DEF OvershootInv, TypeOK, Others, Actors, Goto, PutHolds, PutCapEntries,
         PutCapBytes, PutEvictNone, PutDropEntry, PutAdd, PutGrow
<1>2. PICK s \in Shards : s = ShardOfActor(w)
  BY OwnShard DEF OvershootInv, Actors
<1>3. lock[s] = w /\ lock'[s] = w /\ ShardOfActor(w)' = ShardOfActor(w)
  BY <1>1, <1>2 DEF OvershootInv, LockOwned, Holds, Actors, ShardOfActor
<1>4. /\ Live(s)' = Live(s)
      /\ SettledAt(s) <=> (Live(s) # {} \/ HasInHand(w)) /\ ~ReservedBy(w)
      /\ SettledAt(s)' <=> (Live(s)' # {} \/ HasInHand(w)') /\ ~ReservedBy(w)'
  BY <1>1, <1>3, SettledHere, SettledHereNext DEF Actors, OvershootInv, Live
<1>5. Accounted(s)
  <2> USE <1>1, <1>2, <1>4 DEF HasInHand, ReservedBy, Accounted, OvershootInv, TypeOK, Goto, Actors
  <2>1. CASE PutCapEntries(w)
    BY <2>1 DEF PutCapEntries
  <2>2. CASE PutCapBytes(w)
    BY <2>2 DEF PutCapBytes
  <2>3. CASE PutEvictNone(w)
    BY <2>3 DEF PutEvictNone
  <2>4. CASE PutDropEntry(w)
    BY <2>4 DEF PutDropEntry
  <2>5. CASE PutAdd(w)
    BY <2>5 DEF PutAdd
  <2>6. CASE PutGrow(w)
    BY <2>6 DEF PutGrow
  <2>7. QED
    BY <2>1, <2>2, <2>3, <2>4, <2>5, <2>6
<1>6. QED
  BY <1>1, <1>2, <1>3, <1>5, StepInside DEF Actors, Holds

\* A record removed under the lock is in hand, so its shard stays settled.
LEMMA RemovingStep ==
  ASSUME OvershootInv, TypeOK', NEW a \in Actors, NEW s \in Shards, s = ShardOfActor(a),
         NEW i \in Live(s), NEW op \in {"put", "expire", "evict"}, Remove(a, i, op),
         NEW from \in {"putEvict", "sweepScan", "sweepEvict"}, NEW to, Goto(a, from, to),
         to = IF a = Sweeper THEN "dropEntry" ELSE "putDropEntry",
         a = Sweeper \/ sw' = sw, sw'.next = sw.next,
         UNCHANGED <<lock, entries>>
  PROVE  OvershootInv'
<1>1. /\ i \in Ids /\ ShardOf[i] = s /\ m[i] # Absent /\ TypeOK
  BY DEF Live, OvershootInv
<1>2. /\ loc'[a].id = loc[a].id /\ loc'[a].burst = loc[a].burst
      /\ \A b \in Actors \ {a} : loc'[b] = loc[b]
  BY <1>1, RemoveTypes
<1>3. Others(a) /\ pc[a] = from /\ pc'[a] = to
  BY <1>1, <1>2 DEF Others, TypeOK, Goto
<1>4. pc[a] \in Holds /\ pc'[a] \in Holds
  BY <1>3 DEF Holds, PutHolds, DropHolds, SweepHolds
<1>5. lock[s] = a /\ lock'[s] = a /\ ShardOfActor(a)' = ShardOfActor(a)
  BY <1>2, <1>4 DEF OvershootInv, LockOwned, ShardOfActor
<1>6. /\ SettledAt(s) <=> (Live(s) # {} \/ HasInHand(a)) /\ ~ReservedBy(a)
      /\ SettledAt(s)' <=> (Live(s)' # {} \/ HasInHand(a)') /\ ~ReservedBy(a)'
  BY <1>1, <1>5, SettledHere, SettledHereNext
<1>7. HasInHand(a)' /\ (ReservedBy(a)' => ReservedBy(a))
  <2>1. CASE a = Sweeper
    BY <2>1, <1>2, <1>3 DEF HasInHand, ReservedBy
  <2>2. CASE a # Sweeper
    <3>1. pc[a] = "putEvict"
      BY <2>2, <1>1, <1>3 DEF TypeOK, Actors, WorkerLabels, PutHolds, DropHolds
    <3>2. QED
      BY <2>2, <3>1, <1>2, <1>3 DEF HasInHand, ReservedBy
  <2>3. QED
    BY <2>1, <2>2
<1>8. Accounted(s)
  BY <1>6, <1>7 DEF Accounted
<1>9. \A j \in Ids : ShardOf[j] # s => m'[j] = m[j]
  BY <1>1 DEF Remove, TypeOK
<1>10. QED
  BY <1>3, <1>4, <1>5, <1>8, <1>9, StepInside

LEMMA PutEvictStep ==
  ASSUME OvershootInv, TypeOK', NEW w \in Workers,
         PutEvictExpired(w) \/ PutEvictOldest(w)
  PROVE  OvershootInv'
<1>1. PICK s \in Shards : s = ShardOfActor(w)
  BY OwnShard DEF OvershootInv, Actors
<1>2. PICK i \in Live(s) : Remove(w, i, "put")
  BY <1>1 DEF PutEvictExpired, PutEvictOldest, Oldest, Samples, Dead
<1>3. Goto(w, "putEvict", "putDropEntry") /\ UNCHANGED <<lock, entries, sw>>
  BY DEF PutEvictExpired, PutEvictOldest
<1>4. QED
  BY <1>1, <1>2, <1>3, RemovingStep DEF Actors

LEMMA PutDropBytesStep ==
  ASSUME OvershootInv, TypeOK', NEW w \in Workers, PutDropBytes(w)
  PROVE  OvershootInv'
<1> DEFINE to == IF loc[w].burst + 1 < EvictBurst THEN "putCapEntries" ELSE "putAdd"
<1>1. loc[w] \in LocalsType /\ loc[w].burst \in Nat
  BY DEF OvershootInv, TypeOK, LocalsType, Actors
<1>2. /\ Goto(w, "putDropBytes", to)
      /\ loc' = [loc EXCEPT ![w] = [loc[w] EXCEPT !.burst = loc[w].burst + 1, !.cut = 0]]
      /\ UNCHANGED <<m, lock, entries, sw>>
  BY DEF PutDropBytes
<1>3. loc'[w].id = loc[w].id /\ loc'[w].burst = loc[w].burst + 1
  BY <1>1, <1>2 DEF OvershootInv, TypeOK, LocalsType, Actors
<1>4. Others(w) /\ pc[w] = "putDropBytes" /\ pc'[w] = to
  BY <1>2, OthersKept DEF OvershootInv, Actors
<1>5. pc[w] \in Holds /\ pc'[w] \in Holds
  BY <1>4 DEF Holds, PutHolds
<1>6. PICK s \in Shards : s = ShardOfActor(w)
  BY OwnShard DEF OvershootInv, Actors
<1>7. lock[s] = w /\ lock'[s] = w /\ ShardOfActor(w)' = ShardOfActor(w)
  BY <1>2, <1>3, <1>5, <1>6 DEF OvershootInv, LockOwned, Actors, ShardOfActor
<1>8. SettledAt(s) <=> (Live(s) # {} \/ HasInHand(w)) /\ ~ReservedBy(w)
  BY <1>7, SettledHere DEF Actors, OvershootInv
<1>9. Accounted(s)
  BY <1>2, <1>4, <1>8 DEF Accounted, ReservedBy
<1>10. QED
  BY <1>2, <1>4, <1>5, <1>6, <1>7, <1>9, StepInside DEF Actors

LEMMA PutLockStep ==
  ASSUME OvershootInv, TypeOK', NEW w \in Workers, PutLockExisting(w) \/ PutLockNew(w)
  PROVE  OvershootInv'
<1>1. /\ Others(w) /\ pc[w] = "putLock" /\ pc'[w] \in {"putGrow", "putCapEntries"}
      /\ Acquire(w) /\ m' = m /\ loc' = loc /\ sw' = sw /\ entries' = entries
  BY DEF OvershootInv, TypeOK, Others, Actors, Goto, PutLockExisting, PutLockNew, Replace, Insert
<1>2. PICK s \in Shards : s = ShardOfActor(w)
  BY OwnShard DEF OvershootInv, Actors
<1>3. lock[s] = NoOne /\ lock'[s] = w /\ ShardOfActor(w)' = ShardOfActor(w)
  BY <1>1, <1>2 DEF OvershootInv, TypeOK, Acquire, Actors, ShardOfActor
<1>4. /\ SettledAt(s)' <=> (Live(s)' # {} \/ HasInHand(w)') /\ ~ReservedBy(w)'
      /\ SettledAt(s) <=> Live(s) # {}
      /\ Live(s)' = Live(s)
  BY <1>1, <1>3, SettledHereNext DEF Actors, SettledAt, InHand, Reserved, Live
<1>5. ~ReservedBy(w)'
  BY <1>1 DEF ReservedBy, OvershootInv, FreshBurst
<1>6. Accounted(s)
  BY <1>1, <1>4, <1>5 DEF Accounted
<1>7. pc[w] \notin Holds /\ pc'[w] \in Holds
  BY <1>1 DEF Holds, PutHolds, DropHolds, SweepHolds
<1>8. QED
  BY <1>1, <1>2, <1>3, <1>6, <1>7, StepIn DEF Actors

LEMMA PutStoreStep ==
  ASSUME OvershootInv, TypeOK', NEW w \in Workers, PutStore(w)
  PROVE  OvershootInv'
<1>1. /\ Goto(w, "putStore", "idle") /\ Release(w)
      /\ loc' = [loc EXCEPT ![w] = NoLocals] /\ sw' = sw /\ entries' = entries
      /\ m' = [m EXCEPT ![loc[w].id] = loc[w].rec]
  BY DEF PutStore, Return
<1>2. Others(w) /\ pc[w] = "putStore" /\ pc'[w] = "idle"
  BY <1>1, OthersKept DEF OvershootInv, Actors
<1>3. PICK s \in Shards : s = ShardOfActor(w)
  BY OwnShard DEF OvershootInv, Actors
<1>4. loc[w].id \in Ids /\ ShardOf[loc[w].id] = s /\ loc[w].rec # Absent
  BY <1>2, <1>3 DEF OvershootInv, TypeOK, LocalsType, Actors, PutHolds, ShardOfActor
<1>5. lock'[s] = NoOne
  BY <1>1, <1>3 DEF Release, OvershootInv, TypeOK
<1>6. m'[loc[w].id] # Absent
  BY <1>1, <1>4 DEF OvershootInv, TypeOK
<1>7. SettledAt(s)'
  BY <1>4, <1>5, <1>6 DEF SettledAt, Reserved, Live
<1>8. Accounted(s) /\ \A i \in Ids : ShardOf[i] # s => m'[i] = m[i]
  BY <1>1, <1>4, <1>7 DEF Accounted, OvershootInv, TypeOK
<1>9. pc[w] \in Holds
  BY <1>2 DEF Holds, PutHolds
<1>10. QED
  BY <1>1, <1>2, <1>3, <1>8, <1>9, StepOut DEF Actors

LEMMA PutStep ==
  ASSUME OvershootInv, TypeOK', NEW w \in Workers, Put(w)
  PROVE  OvershootInv'
<1>1. ASSUME NEW i \in Ids, NEW e \in Entry, PutRefused(w, i, e) PROVE OvershootInv'
  BY <1>1, StepOutside
  DEF PutRefused, Begin, Goto, OvershootInv, TypeOK, Actors, Others, Holds, PutHolds,
      DropHolds, SweepHolds
<1>2. ASSUME NEW i \in Ids, NEW e \in Entry, PutStart(w, i, e) PROVE OvershootInv'
  <2> DEFINE rec == [entry |-> e, expires |-> clock + TTL, size |-> EntrySize(e)]
             r   == Locals("put", i, rec, clock)
  <2>0. r.burst = 0
    BY DEF Locals
  <2>1. loc' = [loc EXCEPT ![w] = r] /\ r.burst = 0
    BY <1>2, <2>0 DEF PutStart
  <2> HIDE DEF r
  <2>2. Others(w) /\ pc[w] = "idle" /\ pc'[w] = "putLock" /\ loc'[w].burst = 0
    BY <1>2, <2>1 DEF PutStart, Begin, Goto, OvershootInv, TypeOK, Actors, Others
  <2>3. UNCHANGED <<m, lock, entries, sw>>
    BY <1>2 DEF PutStart
  <2>4. QED
    BY <2>2, <2>3, StepOutside DEF Actors, Holds, PutHolds, DropHolds, SweepHolds
<1>3. QED
  BY <1>1, <1>2, PutLockStep, PutLockedStep, PutEvictStep, PutDropBytesStep, PutStoreStep DEF Put

-----------------------------------------------------------------------------
(* Get, Delete, Close *)

\* Get and Delete take the lock and remove a record in one step.
LEMMA RemovingEntry ==
  ASSUME OvershootInv, TypeOK', NEW w \in Workers, GetDrop(w) \/ DeleteFound(w)
  PROVE  OvershootInv'
<1>1. PICK s \in Shards : s = ShardOfActor(w)
  BY OwnShard DEF OvershootInv, Actors
<1>2. PICK op \in {"get", "delete"} :
        m[loc[w].id] # Absent /\ Remove(w, loc[w].id, op)
  BY DEF GetDrop, DropDead, StillDead, DeleteFound
<1>3. loc[w].id \in Ids /\ ShardOf[loc[w].id] = s
  BY <1>1 DEF OvershootInv, TypeOK, LocalsType, Actors, ShardOfActor
<1>4. /\ Acquire(w) /\ UNCHANGED <<entries, sw>>
      /\ Goto(w, "getDrop", "dropEntry") \/ Goto(w, "delLock", "dropEntry")
  BY DEF GetDrop, DropDead, DeleteFound
<1>5. /\ loc'[w].id = loc[w].id
      /\ \A b \in Actors \ {w} : loc'[b] = loc[b]
  BY <1>2, <1>3, RemoveTypes DEF OvershootInv, Actors
<1>6. Others(w) /\ pc[w] \in {"getDrop", "delLock"} /\ pc'[w] = "dropEntry"
  BY <1>4, <1>5 DEF Goto, Others, OvershootInv, TypeOK, Actors
<1>7. ShardOfActor(w)' = ShardOfActor(w) /\ lock'[s] = w
  BY <1>1, <1>4, <1>5 DEF ShardOfActor, Acquire, OvershootInv, TypeOK
<1>8. SettledAt(s)'
  BY <1>6, <1>7, SettledHereNext DEF HasInHand, ReservedBy, Actors
<1>9. Accounted(s) /\ \A i \in Ids : ShardOf[i] # s => m'[i] = m[i]
  BY <1>2, <1>3, <1>4, <1>8 DEF Accounted, Remove, OvershootInv, TypeOK
<1>10. pc[w] \notin Holds /\ pc'[w] \in Holds
  BY <1>6 DEF Holds, PutHolds, DropHolds, SweepHolds
<1>11. QED
  BY <1>1, <1>4, <1>6, <1>7, <1>9, <1>10, StepIn DEF Actors

LEMMA DropEntryStep ==
  ASSUME OvershootInv, TypeOK', NEW a \in Actors, DropEntry(a)
  PROVE  OvershootInv'
<1>1. /\ Others(a) /\ pc[a] = "dropEntry" /\ pc'[a] = "dropBytes"
      /\ m' = m /\ lock' = lock /\ loc' = loc /\ sw' = sw /\ entries' = entries - 1
  BY DEF DropEntry, Goto, Others, OvershootInv, TypeOK
<1>2. PICK s \in Shards : s = ShardOfActor(a)
  BY OwnShard DEF OvershootInv
<1>3. Accounted(s) /\ ShardOfActor(a)' = ShardOfActor(a)
  BY <1>1 DEF Accounted, ShardOfActor
<1>4. pc[a] \in Holds /\ pc'[a] \in Holds
  BY <1>1 DEF Holds, DropHolds
<1>5. QED
  BY <1>1, <1>2, <1>3, <1>4, StepInside

LEMMA DropBytesStep ==
  ASSUME OvershootInv, TypeOK', NEW w \in Workers, DropBytes(w)
  PROVE  OvershootInv'
<1>1. /\ Goto(w, "dropBytes", "idle") /\ loc' = [loc EXCEPT ![w] = NoLocals]
      /\ Release(w) /\ UNCHANGED <<m, entries, sw>>
  BY DEF DropBytes, Return
<1>2. Others(w) /\ pc[w] = "dropBytes" /\ pc'[w] = "idle"
  BY <1>1, OthersKept DEF OvershootInv, Actors
<1>3. PICK s \in Shards : s = ShardOfActor(w)
  BY OwnShard DEF OvershootInv, Actors
<1>4. pc[w] \in Holds /\ lock[s] = w /\ lock'[s] = NoOne
  BY <1>1, <1>2, <1>3
  DEF OvershootInv, LockOwned, TypeOK, Release, Holds, DropHolds, Actors
<1>5. SettledAt(s) => Live(s) # {}
  BY <1>2, <1>4, SettledHere DEF HasInHand, OvershootInv, Actors
<1>6. Live(s)' # {} => SettledAt(s)'
  BY <1>4 DEF SettledAt, Reserved
<1>7. Accounted(s)
  BY <1>1, <1>5, <1>6 DEF Accounted, Live
<1>8. QED
  BY <1>1, <1>2, <1>3, <1>4, <1>7, StepOut DEF Actors

LEMMA WorkerStepKept ==
  ASSUME OvershootInv, TypeOK', NEW w \in Workers, WorkerStep(w)
  PROVE  OvershootInv'
<1>1. CASE Put(w)
  BY <1>1, PutStep
<1>2. CASE Get(w) \/ Delete(w) \/ Close(w)
  <2>1. CASE GetDrop(w) \/ DeleteFound(w)
    BY <2>1, RemovingEntry
  <2>2. CASE ~(GetDrop(w) \/ DeleteFound(w))
    <3>1. /\ UNCHANGED <<m, lock, entries, sw>>
          /\ \/ loc' = loc
             \/ \E r : loc' = [loc EXCEPT ![w] = r]
      BY <1>2, <2>2
      DEF Get, GetStart, GetAbsent, GetFound, GetHit, Serve, GetStale, GetKeep, Delete,
          DeleteStart, DeleteAbsent, Close, CloseStart, CloseFirst, CloseDone, CloseAgain,
          Return
    <3>2. PICK from \in {"idle", "getRead", "getCheck", "getDrop", "delLock", "closeOnce", "closeWait"},
               to \in {"idle", "getRead", "getCheck", "getDrop", "delLock", "closeOnce", "closeWait"} :
             Goto(w, from, to)
      BY <1>2, <2>2
      DEF Get, GetStart, GetAbsent, GetFound, GetHit, Serve, GetStale, GetKeep, Delete,
          DeleteStart, DeleteAbsent, Close, CloseStart, CloseFirst, CloseDone, CloseAgain,
          Begin
    <3>3. Others(w) /\ pc[w] = from /\ pc'[w] = to
      BY <3>1, <3>2, OthersKept DEF OvershootInv, Actors
    <3>4. pc[w] \notin Holds /\ pc'[w] \notin Holds /\ pc'[w] # "putLock"
      BY <3>3 DEF Holds, PutHolds, DropHolds, SweepHolds
    <3>5. QED
      BY <3>1, <3>3, <3>4, StepOutside DEF Actors
  <2>3. QED
    BY <2>1, <2>2
<1>3. CASE DropEntry(w) \/ DropBytes(w)
  BY <1>3, DropEntryStep, DropBytesStep DEF Actors
<1>4. QED
  BY <1>1, <1>2, <1>3 DEF WorkerStep

-----------------------------------------------------------------------------
(* The sweeper *)

LEMMA SweepOutsideStep ==
  ASSUME OvershootInv, TypeOK',
         \/ SweepStop \/ SweepTick \/ SweepCapEntries \/ SweepCapBytes \/ SweepNow
  PROVE  OvershootInv'
<1>1. /\ UNCHANGED <<m, lock, entries>>
      /\ \/ loc' = loc
         \/ \E r : loc' = [loc EXCEPT ![Sweeper] = r]
  BY DEF SweepStop, Stop, SweepTick, SweepCapEntries, SweepCapBytes, SweepNow
<1>2. PICK from \in {"select", "capEntries", "capBytes", "sweepNow"},
           to \in {"off", "capEntries", "capBytes", "sweepNow", "sweepLock"} :
         Goto(Sweeper, from, to)
  BY DEF SweepStop, Stop, SweepTick, SweepCapEntries, SweepCapBytes, SweepNow
<1>3. Others(Sweeper) /\ pc[Sweeper] = from /\ pc'[Sweeper] = to
  BY <1>1, <1>2, OthersKept DEF OvershootInv, Actors
<1>4. pc[Sweeper] \notin Holds /\ pc'[Sweeper] \notin Holds
  BY <1>3 DEF Holds, PutHolds, DropHolds, SweepHolds
<1>5. QED
  BY <1>1, <1>3, <1>4, StepOutside DEF Actors

LEMMA SweepLockStep ==
  ASSUME OvershootInv, TypeOK', SweepLock
  PROVE  OvershootInv'
<1>0. PICK s \in Shards : s = sw.next
  BY DEF OvershootInv, TypeOK, SweepType
<1>1. s = ShardOfActor(Sweeper) /\ ShardOfActor(Sweeper)' = s
  BY <1>0 DEF SweepLock, ShardOfActor
<1>2. /\ Others(Sweeper) /\ pc[Sweeper] = "sweepLock" /\ pc'[Sweeper] = "sweepScan"
      /\ Acquire(Sweeper) /\ UNCHANGED <<m, entries, loc, sw>>
  BY DEF SweepLock, Goto, Others, OvershootInv, TypeOK, Actors
<1>3. lock[s] = NoOne /\ lock'[s] = Sweeper
  BY <1>1, <1>2 DEF OvershootInv, TypeOK, Acquire, ShardOfActor
<1>4. SettledAt(s) => Live(s) # {}
  BY <1>3 DEF SettledAt, InHand
<1>5. Live(s) # {} => SettledAt(s)'
  BY <1>1, <1>2, <1>3 DEF SettledAt, Reserved, Live
<1>6. Accounted(s)
  BY <1>2, <1>4, <1>5 DEF Accounted
<1>7. pc[Sweeper] \notin Holds /\ pc'[Sweeper] \in Holds
  BY <1>2 DEF Holds, PutHolds, DropHolds, SweepHolds
<1>8. QED
  BY <1>1, <1>2, <1>6, <1>7, StepIn DEF Actors

\* Scanning, working out the quota, giving the bytes back: the lock is kept
\* and the shard holds what it held.
LEMMA SweepInsideStep ==
  ASSUME OvershootInv, TypeOK',
         \/ SweepScanned \/ QuotaOver \/ QuotaCount \/ QuotaBytes \/ QuotaMean
         \/ SweepDropBytes
  PROVE  OvershootInv'
<1>0. PICK s \in Shards : s = sw.next
  BY DEF OvershootInv, TypeOK, SweepType
<1>1. /\ UNCHANGED <<m, lock, entries>>
      /\ \/ loc' = loc
         \/ \E r : loc' = [loc EXCEPT ![Sweeper] = r]
  BY DEF SweepScanned, QuotaOver, QuotaCount, QuotaBytes, QuotaMean, SweepDropBytes
<1>2. PICK from \in {"sweepScan", "quotaOver", "quotaCount", "quotaBytes", "quotaMean", "dropBytes"},
           to \in SweepHolds :
         Goto(Sweeper, from, to)
  BY DEF SweepScanned, QuotaOver, QuotaCount, QuotaBytes, QuotaMean, SweepDropBytes, SweepHolds
<1>3. Others(Sweeper) /\ pc[Sweeper] = from /\ pc'[Sweeper] = to
  BY <1>1, <1>2, OthersKept DEF OvershootInv, Actors
<1>4. pc[Sweeper] \in Holds /\ pc'[Sweeper] \in Holds
  BY <1>3 DEF Holds, DropHolds, SweepHolds
<1>5. sw'.next = sw.next
  <2>1. sw \in SweepType
    BY DEF OvershootInv, TypeOK
  <2>2. CASE SweepScanned \/ QuotaOver \/ QuotaCount \/ SweepDropBytes
    BY <2>1, <2>2 DEF SweepScanned, QuotaOver, QuotaCount, SweepDropBytes, SweepType
  <2>3. CASE QuotaBytes
    BY <2>1, <2>3 DEF QuotaBytes, SweepType
  <2>4. CASE QuotaMean
    <3>1. PICK need : sw' = [sw EXCEPT !.count = 0, !.over = 0, !.need = need]
      BY <2>4 DEF QuotaMean
    <3>2. QED
      BY <2>1, <3>1 DEF SweepType
  <2>5. QED
    BY <2>2, <2>3, <2>4
<1>6. s = ShardOfActor(Sweeper) /\ ShardOfActor(Sweeper)' = s
  BY <1>0, <1>5 DEF ShardOfActor
<1>7. lock[s] = Sweeper /\ lock'[s] = Sweeper
  BY <1>1, <1>4, <1>6 DEF OvershootInv, LockOwned, Actors
<1>8. SettledAt(s) => Live(s) # {}
  BY <1>3, <1>6, <1>7, SettledHere DEF HasInHand, OvershootInv, Actors
<1>9. Live(s) # {} => SettledAt(s)'
  BY <1>1, <1>7 DEF SettledAt, Reserved, Live
<1>10. Accounted(s)
  BY <1>1, <1>8, <1>9 DEF Accounted
<1>11. QED
  BY <1>1, <1>3, <1>4, <1>6, <1>10, StepInside DEF Actors

LEMMA SweepRemovingStep ==
  ASSUME OvershootInv, TypeOK', SweepExpired \/ SweepEvict
  PROVE  OvershootInv'
<1>0. PICK s \in Shards : s = sw.next
  BY DEF OvershootInv, TypeOK, SweepType
<1>1. s = ShardOfActor(Sweeper)
  BY <1>0 DEF ShardOfActor
<1>2. PICK i \in Live(s), op \in {"expire", "evict"} : Remove(Sweeper, i, op)
  BY <1>0 DEF SweepExpired, SweepEvict, Oldest, Dead
<1>3. PICK from \in {"sweepScan", "sweepEvict"} : Goto(Sweeper, from, "dropEntry")
  BY DEF SweepExpired, SweepEvict
<1>4. UNCHANGED <<lock, entries>> /\ sw'.next = sw.next
  BY DEF SweepExpired, SweepEvict, OvershootInv, TypeOK, SweepType
<1>5. QED
  BY <1>1, <1>2, <1>3, <1>4, RemovingStep DEF Actors

LEMMA SweepNextStep ==
  ASSUME OvershootInv, TypeOK', SweepNext
  PROVE  OvershootInv'
<1>0. PICK s \in Shards : s = sw.next
  BY DEF OvershootInv, TypeOK, SweepType
<1>1. s = ShardOfActor(Sweeper)
  BY <1>0 DEF ShardOfActor
<1>2. /\ loc' = [loc EXCEPT ![Sweeper] = NoLocals]
      /\ Release(Sweeper) /\ UNCHANGED <<m, entries>>
  BY DEF SweepNext, MoveOn, Return
<1>3. PICK to \in {"sweepNow", "select"} : Goto(Sweeper, "sweepEvict", to)
  BY DEF SweepNext, MoveOn
<1>4. Others(Sweeper) /\ pc[Sweeper] = "sweepEvict" /\ pc'[Sweeper] = to
  BY <1>2, <1>3, OthersKept DEF OvershootInv, Actors
<1>5. pc[Sweeper] \in Holds /\ lock[s] = Sweeper /\ lock'[s] = NoOne
  BY <1>1, <1>2, <1>4 DEF OvershootInv, LockOwned, TypeOK, Release, Holds, SweepHolds, Actors
<1>6. SettledAt(s) => Live(s) # {}
  BY <1>4, <1>5, <1>1, SettledHere DEF HasInHand, OvershootInv, Actors
<1>7. Live(s) # {} => SettledAt(s)'
  BY <1>2, <1>5 DEF SettledAt, Reserved, Live
<1>8. Accounted(s)
  BY <1>2, <1>6, <1>7 DEF Accounted
<1>9. QED
  BY <1>1, <1>2, <1>4, <1>5, <1>8, StepOut DEF Actors

LEMMA SweeperStepKept ==
  ASSUME OvershootInv, TypeOK', SweepWork \/ SweepStop
  PROVE  OvershootInv'
  BY SweepOutsideStep, SweepLockStep, SweepInsideStep, SweepRemovingStep, SweepNextStep,
     DropEntryStep DEF SweepWork, Actors

-----------------------------------------------------------------------------
LEMMA InitOvershoot == Init => OvershootInv
<1> SUFFICES ASSUME Init PROVE OvershootInv
  OBVIOUS
<1>1. LockOwned /\ FreshBurst
  BY DEF Init, LockOwned, FreshBurst, Holds, PutHolds, DropHolds, SweepHolds, Actors
<1>2. Cardinality(Settled) \in Nat
  BY SettledFinite DEF Settled
<1>3. QED
  BY <1>1, <1>2, InitTypeOK DEF OvershootInv, OvershootPerShard, Init

LEMMA NextOvershoot == OvershootInv /\ [Next]_vars => OvershootInv'
<1> SUFFICES ASSUME OvershootInv, [Next]_vars PROVE OvershootInv'
  OBVIOUS
<1>1. TypeOK'
  BY NextTypeOK DEF OvershootInv
<1>2. CASE \E w \in Workers : WorkerStep(w)
  BY <1>1, <1>2, WorkerStepKept
<1>3. CASE SweepWork \/ SweepStop
  BY <1>1, <1>3, SweeperStepKept
<1>4. ASSUME m' = m, lock' = lock, entries' = entries, pc' = pc, loc' = loc, sw' = sw
      PROVE  OvershootInv'
  BY <1>1, <1>4
  DEF OvershootInv, LockOwned, FreshBurst, OvershootPerShard, Settled, SettledAt, InHand,
      Reserved, Live, ShardOfActor
<1>5. CASE Elapse \/ UNCHANGED vars
  BY <1>4, <1>5 DEF Elapse, vars
<1>6. QED
  BY <1>2, <1>3, <1>5 DEF Next

LEMMA OvershootInvariant == Spec => []OvershootInv
  BY InitOvershoot, NextOvershoot, PTL DEF Spec

\* However many Puts race past the entry cap on different shards, the overshoot
\* is at most one entry for each shard that still holds something (Put, overCap).
THEOREM Overshoot == Spec => []OvershootPerShard
<1>1. OvershootInv => OvershootPerShard
  BY DEF OvershootInv
<1>2. QED
  BY <1>1, OvershootInvariant, PTL

\* The entry cap is soft by at most NumShards - 1 entries, with or without the
\* sweeper (Put, overCap, evictSampled).
THEOREM SoftCap == Spec => []EntriesBounded
<1>1. OvershootInv => EntriesBounded
  <2> SUFFICES ASSUME OvershootInv PROVE EntriesBounded
    OBVIOUS
  <2>1. Cardinality(Settled) \in Nat /\ Cardinality(Settled) <= NumShards
    BY SettledFinite DEF Settled
  <2>2. QED
    BY <2>1 DEF OvershootInv, OvershootPerShard, EntriesBounded, TypeOK
<1>2. QED
  BY <1>1, OvershootInvariant, PTL

\* A shard's map is changed only by the goroutine that holds its lock: the
\* ownership discipline behind sync.RWMutex, for every interleaving.
THEOREM Ownership == Spec => []LockOwned
<1>1. OvershootInv => LockOwned
  BY DEF OvershootInv
<1>2. QED
  BY <1>1, OvershootInvariant, PTL

-----------------------------------------------------------------------------
(* Clock readings and deadlines *)

\* No goroutine holds a clock reading of the future, and no deadline, in the
\* table or in a goroutine's hands, is more than one TTL away.
DeadlineInv ==
  /\ \A i \in Ids : m[i] # Absent => m[i].expires <= clock + TTL
  /\ \A a \in Actors : loc[a].now <= clock
  /\ \A a \in Actors : loc[a].rec # Absent => loc[a].rec.expires <= clock + TTL

\* A step that puts at most its own record into the table, and takes into its
\* hands at most a record of the table and the clock of the moment.
Careful(a) ==
  /\ clock' = clock
  /\ \A i \in Ids : m'[i] \in {m[i], Absent, loc[a].rec}
  /\ \A b \in Actors \ {a} : loc'[b] = loc[b]
  /\ loc'[a].now \in {loc[a].now, 0, clock}
  /\ \/ loc'[a].rec \in {loc[a].rec, Absent}
     \/ \E i \in Ids : loc'[a].rec = m[i]
     \/ loc'[a].rec.expires = clock + TTL

LEMMA CarefulStep ==
  ASSUME TypeOK, DeadlineInv, NEW a \in Actors, Careful(a)
  PROVE  DeadlineInv'
<1>1. clock \in Nat /\ clock' = clock
  BY DEF TypeOK, Careful
<1>2. ASSUME NEW i \in Ids, m'[i] # Absent PROVE m'[i].expires <= clock + TTL
  BY <1>2 DEF DeadlineInv, Careful
<1>3. ASSUME NEW b \in Actors PROVE loc'[b].now <= clock
  BY <1>1 DEF DeadlineInv, Careful
<1>4. ASSUME NEW b \in Actors, loc'[b].rec # Absent PROVE loc'[b].rec.expires <= clock + TTL
  BY <1>1, <1>4 DEF DeadlineInv, Careful
<1>5. QED
  BY <1>1, <1>2, <1>3, <1>4 DEF DeadlineInv

\* What Remove leaves of the table and of the locals.
LEMMA RemoveEffect ==
  ASSUME TypeOK, NEW a \in Actors, NEW i \in Ids,
         NEW op \in {"put", "get", "delete", "expire", "evict"}, Remove(a, i, op)
  PROVE  /\ m'[i] = Absent /\ \A j \in Ids \ {i} : m'[j] = m[j]
         /\ \A b \in Actors \ {a} : loc'[b] = loc[b]
         /\ loc'[a].now = loc[a].now /\ loc'[a].rec = loc[a].rec
         /\ loc'[a].id = loc[a].id /\ loc'[a].op = op /\ loc'[a].cut = m[i].size
<1>1. /\ m' = [m EXCEPT ![i] = Absent]
      /\ loc' = [loc EXCEPT ![a] = [loc[a] EXCEPT !.op = op, !.cut = m[i].size]]
  BY DEF TypeOK, Remove
<1>2. /\ m'[i] = Absent /\ \A j \in Ids \ {i} : m'[j] = m[j]
      /\ \A b \in Actors \ {a} : loc'[b] = loc[b]
      /\ loc'[a] = [loc[a] EXCEPT !.op = op, !.cut = m[i].size]
  BY <1>1 DEF TypeOK
<1>3. loc[a] \in LocalsType
  BY DEF TypeOK
<1>4. QED
  BY <1>2, <1>3 DEF LocalsType

\* The steps that remove a record.
Removal(a, i, op) ==
  /\ i \in Ids /\ m[i] # Absent /\ Remove(a, i, op)
  /\ UNCHANGED clock /\ stats'.hits = stats.hits
  /\ pc[a] # "getCheck"

\* The steps that make room with one that is alive.
Evicting(a) ==
  \/ a \in Workers /\ PutEvictOldest(a)
  \/ a = Sweeper /\ SweepEvict

LEMMA RemovingActions ==
  ASSUME TypeOK, NEW a \in Actors,
         \/ a \in Workers /\ (PutEvictExpired(a) \/ PutEvictOldest(a) \/ GetDrop(a) \/ DeleteFound(a))
         \/ a = Sweeper /\ (SweepExpired \/ SweepEvict)
  PROVE  \E i \in Ids, op \in {"put", "get", "delete", "expire", "evict"} :
           /\ Removal(a, i, op) /\ pc' = [pc EXCEPT ![a] = pc'[a]] /\ pc'[a] # "getCheck"
           /\ \/ m[i].expires <= loc[a].now /\ stats' = [stats EXCEPT !.expired = @ + 1]
              \/ Evicting(a) /\ stats' = [stats EXCEPT !.evicted = @ + 1]
              \/ a \in Workers /\ pc[a] = "delLock" /\ loc[a].id = i
<1> USE DEF Removal, Goto, Counted
<1>1. CASE a \in Workers /\ PutEvictExpired(a)
  BY <1>1 DEF PutEvictExpired, Dead, Live, TypeOK
<1>2. CASE a \in Workers /\ PutEvictOldest(a)
  <2>1. PICK i \in Ids : m[i] # Absent /\ Remove(a, i, "put")
    BY <1>2 DEF PutEvictOldest, Oldest, Samples, Live
  <2>2. /\ pc[a] = "putEvict" /\ pc' = [pc EXCEPT ![a] = "putDropEntry"]
        /\ stats' = [stats EXCEPT !.evicted = @ + 1] /\ UNCHANGED clock
        /\ pc'[a] = "putDropEntry" /\ stats'.hits = stats.hits
    BY <1>2 DEF PutEvictOldest, TypeOK
  <2>3. Evicting(a)
    BY <1>2 DEF Evicting
  <2>4. Removal(a, i, "put")
    BY <2>1, <2>2
  <2>5. QED
    BY <2>2, <2>3, <2>4
<1>3. CASE a \in Workers /\ GetDrop(a)
  <2>1. loc[a].id \in Ids
    BY DEF TypeOK, LocalsType
  <2>2. QED
    BY <1>3, <2>1 DEF GetDrop, DropDead, StillDead, TypeOK
<1>4. CASE a \in Workers /\ DeleteFound(a)
  <2>1. loc[a].id \in Ids
    BY DEF TypeOK, LocalsType
  <2>2. QED
    BY <1>4, <2>1 DEF DeleteFound, TypeOK
<1>5. CASE a = Sweeper /\ SweepExpired
  BY <1>5 DEF SweepExpired, Dead, Live, TypeOK
<1>6. CASE a = Sweeper /\ SweepEvict
  BY <1>6 DEF Evicting, SweepEvict, Oldest, Live, TypeOK
<1>7. QED
  BY <1>1, <1>2, <1>3, <1>4, <1>5, <1>6

\* Locals of a goroutine between calls, and at the start of a Get or Delete.
LEMMA FreshLocals ==
  /\ NoLocals.rec = Absent /\ NoLocals.now = 0
  /\ \A op, i : Locals(op, i, Absent, 0).rec = Absent /\ Locals(op, i, Absent, 0).now = 0
  BY DEF NoLocals, Locals

LEMMA RemovingCareful ==
  ASSUME TypeOK, NEW a \in Actors, NEW i \in Ids,
         NEW op \in {"put", "get", "delete", "expire", "evict"}, Removal(a, i, op)
  PROVE  Careful(a)
  BY RemoveEffect DEF Removal, Careful

LEMMA WorkerCareful ==
  ASSUME TypeOK, NEW w \in Workers, WorkerStep(w)
  PROVE  Careful(w)
<1>0. loc[w] \in LocalsType /\ w \in Actors
  BY DEF TypeOK, Actors
<1>1. ASSUME UNCHANGED <<m, loc, clock>> PROVE Careful(w)
  BY <1>1 DEF Careful
<1>2. ASSUME UNCHANGED clock, loc' = [loc EXCEPT ![w] = NoLocals],
             \A i \in Ids : m'[i] \in {m[i], loc[w].rec}
      PROVE  Careful(w)
  BY <1>0, <1>2, FreshLocals DEF Careful, TypeOK
<1>3. ASSUME NEW i \in Ids, NEW e \in Entry, PutStart(w, i, e) PROVE Careful(w)
  <2> DEFINE rec == [entry |-> e, expires |-> clock + TTL, size |-> EntrySize(e)]
             r   == Locals("put", i, rec, clock)
  <2>1. r.rec.expires = clock + TTL /\ r.now = clock
    BY DEF Locals
  <2>2. loc' = [loc EXCEPT ![w] = r] /\ UNCHANGED <<m, clock>>
    BY <1>3 DEF PutStart
  <2> HIDE DEF r
  <2>3. QED
    BY <1>0, <2>1, <2>2 DEF Careful, TypeOK
<1>4. CASE Put(w) /\ ~(\E i \in Ids, e \in Entry : PutStart(w, i, e))
  <2>1. CASE PutEvictExpired(w) \/ PutEvictOldest(w)
    BY <1>0, <2>1, RemovingActions, RemovingCareful
  <2>2. CASE PutDropBytes(w)
    <3>1. loc' = [loc EXCEPT ![w] = [loc[w] EXCEPT !.burst = loc[w].burst + 1, !.cut = 0]]
      BY <2>2 DEF PutDropBytes
    <3>2. loc'[w].now = loc[w].now /\ loc'[w].rec = loc[w].rec
      BY <1>0, <3>1 DEF TypeOK, LocalsType
    <3>3. UNCHANGED <<m, clock>>
      BY <2>2 DEF PutDropBytes
    <3>4. QED
      BY <1>0, <3>1, <3>2, <3>3 DEF Careful, TypeOK
  <2>3. CASE PutStore(w)
    BY <1>0, <1>2, <2>3 DEF PutStore, Return, TypeOK
  <2>4. CASE \/ \E i \in Ids, e \in Entry : PutRefused(w, i, e)
             \/ PutLockExisting(w) \/ PutLockNew(w) \/ PutCapEntries(w) \/ PutCapBytes(w)
             \/ PutEvictNone(w) \/ PutDropEntry(w) \/ PutAdd(w) \/ PutGrow(w)
    BY <1>1, <2>4
    DEF PutRefused, PutLockExisting, Replace, PutLockNew, Insert, PutCapEntries,
        PutCapBytes, PutEvictNone, PutDropEntry, PutAdd, PutGrow
  <2>5. QED
    BY <1>4, <2>1, <2>2, <2>3, <2>4 DEF Put
<1>5. CASE Get(w)
  <2>1. ASSUME NEW i \in Ids, GetStart(w, i) PROVE Careful(w)
    BY <1>0, <2>1, FreshLocals DEF GetStart, Careful, TypeOK
  <2>2. CASE GetAbsent(w) \/ GetHit(w) \/ GetKeep(w)
    BY <1>2, <2>2 DEF GetAbsent, GetHit, Serve, GetKeep, Return
  <2>3. CASE GetFound(w)
    <3>1. loc' = [loc EXCEPT ![w] = [loc[w] EXCEPT !.rec = m[loc[w].id]]]
      BY <2>3 DEF GetFound
    <3>2. loc'[w].now = loc[w].now /\ loc'[w].rec = m[loc[w].id] /\ loc[w].id \in Ids
      BY <1>0, <3>1 DEF TypeOK, LocalsType
    <3>3. UNCHANGED <<m, clock>>
      BY <2>3 DEF GetFound
    <3>4. QED
      BY <1>0, <3>1, <3>2, <3>3 DEF Careful, TypeOK
  <2>4. CASE GetStale(w)
    <3>1. loc' = [loc EXCEPT ![w] = [loc[w] EXCEPT !.now = clock]]
      BY <2>4 DEF GetStale
    <3>2. loc'[w].now = clock /\ loc'[w].rec = loc[w].rec
      BY <1>0, <3>1 DEF TypeOK, LocalsType
    <3>3. UNCHANGED <<m, clock>>
      BY <2>4 DEF GetStale
    <3>4. QED
      BY <1>0, <3>1, <3>2, <3>3 DEF Careful, TypeOK
  <2>5. CASE GetDrop(w)
    BY <1>0, <2>5, RemovingActions, RemovingCareful
  <2>6. QED
    BY <1>5, <2>1, <2>2, <2>3, <2>4, <2>5 DEF Get
<1>6. CASE Delete(w)
  <2>1. ASSUME NEW i \in Ids, DeleteStart(w, i) PROVE Careful(w)
    BY <1>0, <2>1, FreshLocals DEF DeleteStart, Careful, TypeOK
  <2>2. CASE DeleteFound(w)
    BY <1>0, <2>2, RemovingActions, RemovingCareful
  <2>3. CASE DeleteAbsent(w)
    BY <1>2, <2>3 DEF DeleteAbsent, Return
  <2>4. QED
    BY <1>6, <2>1, <2>2, <2>3 DEF Delete
<1>7. CASE DropBytes(w)
  BY <1>2, <1>7 DEF DropBytes, Return
<1>8. CASE DropEntry(w) \/ Close(w)
  BY <1>1, <1>8 DEF DropEntry, Close, CloseStart, CloseFirst, CloseDone, CloseAgain
<1>9. QED
  BY <1>3, <1>4, <1>5, <1>6, <1>7, <1>8 DEF WorkerStep, Put

LEMMA SweeperCareful ==
  ASSUME TypeOK, SweepWork \/ SweepStop
  PROVE  Careful(Sweeper)
<1>0. loc[Sweeper] \in LocalsType /\ Sweeper \in Actors
  BY DEF TypeOK, Actors
<1>1. CASE SweepExpired \/ SweepEvict
  BY <1>0, <1>1, RemovingActions, RemovingCareful
<1>2. CASE SweepNow
  <2>1. loc' = [loc EXCEPT ![Sweeper] = [loc[Sweeper] EXCEPT !.now = clock]] /\ UNCHANGED <<m, clock>>
    BY <1>2 DEF SweepNow
  <2>2. loc'[Sweeper].now = clock /\ loc'[Sweeper].rec = loc[Sweeper].rec
    BY <1>0, <2>1 DEF TypeOK, LocalsType
  <2>3. QED
    BY <1>0, <2>1, <2>2 DEF Careful, TypeOK
<1>3. CASE SweepDropBytes
  <2>1. /\ loc' = [loc EXCEPT ![Sweeper] = [loc[Sweeper] EXCEPT !.cut = 0, !.op = "none"]]
        /\ UNCHANGED <<m, clock>>
    BY <1>3 DEF SweepDropBytes
  <2>2. loc'[Sweeper].now = loc[Sweeper].now /\ loc'[Sweeper].rec = loc[Sweeper].rec
    BY <1>0, <2>1 DEF TypeOK, LocalsType
  <2>3. QED
    BY <1>0, <2>1, <2>2 DEF Careful, TypeOK
<1>4. CASE SweepNext
  BY <1>0, <1>4, FreshLocals DEF SweepNext, MoveOn, Return, Careful, TypeOK
<1>5. CASE \/ SweepStop \/ SweepTick \/ SweepCapEntries \/ SweepCapBytes \/ SweepLock
           \/ SweepScanned \/ QuotaOver \/ QuotaCount \/ QuotaBytes \/ QuotaMean
           \/ DropEntry(Sweeper)
  BY <1>5
  DEF SweepStop, Stop, SweepTick, SweepCapEntries, SweepCapBytes, SweepLock, SweepScanned,
      QuotaOver, QuotaCount, QuotaBytes, QuotaMean, DropEntry, Careful
<1>6. QED
  BY <1>1, <1>2, <1>3, <1>4, <1>5 DEF SweepWork

LEMMA InitDeadline == Init => DeadlineInv
  BY FreshLocals DEF Init, DeadlineInv

LEMMA NextDeadline == TypeOK /\ DeadlineInv /\ [Next]_vars => DeadlineInv'
<1> SUFFICES ASSUME TypeOK, DeadlineInv, [Next]_vars PROVE DeadlineInv'
  OBVIOUS
<1>1. ASSUME NEW w \in Workers, WorkerStep(w) PROVE DeadlineInv'
  BY <1>1, WorkerCareful, CarefulStep DEF Actors
<1>2. CASE SweepWork \/ SweepStop
  BY <1>2, SweeperCareful, CarefulStep DEF Actors
<1>3. CASE Elapse
  <2>1. /\ clock \in Nat /\ clock' = clock + 1 /\ m' = m /\ loc' = loc
        /\ \A i \in Ids : m[i] # Absent => m[i].expires \in Nat
        /\ \A a \in Actors : loc[a].now \in Nat /\ (loc[a].rec # Absent => loc[a].rec.expires \in Nat)
    BY <1>3 DEF Elapse, TypeOK, LocalsType, Record
  <2>2. QED
    BY <2>1 DEF DeadlineInv
<1>4. CASE UNCHANGED vars
  BY <1>4 DEF vars, DeadlineInv
<1>5. QED
  BY <1>1, <1>2, <1>3, <1>4 DEF Next

LEMMA DeadlineInvariant == Spec => []DeadlineInv
  BY InitDeadline, NextDeadline, TypeCorrect, PTL DEF Spec

-----------------------------------------------------------------------------
(* LossExplained *)

\* Whoever makes room holds the shard's lock, and takes the oldest of a sample.
LEMMA VictimsLegal ==
  ASSUME TypeOK, LockOwned, NEW a \in Actors, Evicting(a),
         NEW i \in Ids, m[i] # Absent, m'[i] = Absent
  PROVE  LegalVictim(i)
<1> DEFINE lasting == {j \in Live(ShardOf[i]) : m[j].expires >= m[i].expires}
<1>1. CASE a \in Workers /\ PutEvictOldest(a)
  <2>1. PICK S \in Samples(ShardOfActor(a), loc[a].now) : \E j \in Oldest(S) : Remove(a, j, "put")
    BY <1>1 DEF PutEvictOldest
  <2>2. PICK j \in Oldest(S) : Remove(a, j, "put")
    BY <2>1
  <2>3. S \subseteq Live(ShardOfActor(a)) /\ j \in S
    BY <2>1 DEF Samples, Oldest
  <2>4. j = i /\ ShardOf[i] = ShardOfActor(a)
    BY <2>2, <2>3, RemoveEffect DEF Live
  <2>5. lock[ShardOf[i]] # NoOne
    BY <1>1, <2>4, ActorsAssumption DEF LockOwned, PutEvictOldest, Goto, Holds, PutHolds, Actors
  <2>6. S \subseteq lasting
    <3>1. \A k \in S : m[i].expires <= m[k].expires
      BY <2>2, <2>4 DEF Oldest
    <3>2. \A k \in S : k \in Ids /\ m[k] \in Record /\ m[k].expires \in Nat
      BY <2>3 DEF Live, TypeOK, Record
    <3>3. m[i].expires \in Nat
      BY <2>3, <2>4, <3>2
    <3>4. QED
      BY <2>3, <2>4, <3>1, <3>2, <3>3
  <2>7. IsFiniteSet(Live(ShardOf[i])) /\ Cardinality(Live(ShardOf[i])) \in Nat
    BY LiveFinite, ShardsAssumption
  <2>8. IsFiniteSet(lasting) /\ Cardinality(lasting) \in Nat /\ IsFiniteSet(S)
        /\ Cardinality(S) <= Cardinality(lasting) /\ Cardinality(S) \in Nat
    <3>1. lasting \subseteq Live(ShardOf[i])
      OBVIOUS
    <3> HIDE DEF lasting
    <3>2. QED
      BY <2>6, <2>7, <3>1, FS_Subset, FS_CardinalityType
  <2>9. Cardinality(S) = IF Cardinality(Live(ShardOf[i])) < EvictSample
                         THEN Cardinality(Live(ShardOf[i])) ELSE EvictSample
    BY <2>1, <2>4 DEF Samples
  <2>10. lasting = Live(ShardOf[i]) \/ Cardinality(lasting) >= EvictSample
    <3>1. CASE Cardinality(Live(ShardOf[i])) < EvictSample
      <4>1. S = Live(ShardOf[i])
        BY <2>3, <2>4, <2>7, <2>9, <3>1, FS_Subset
      <4>2. QED
        BY <2>6, <4>1
    <3>2. CASE ~(Cardinality(Live(ShardOf[i])) < EvictSample)
      <4> HIDE DEF lasting
      <4>1. QED
        BY <2>8, <2>9, <3>2, ConfigAssumption
    <3>3. QED
      BY <3>1, <3>2
  <2>11. QED
    BY <2>5, <2>10 DEF LegalVictim
<1>2. CASE a = Sweeper /\ SweepEvict
  <2>1. PICK j \in Oldest(Live(sw.next)) : Remove(Sweeper, j, "evict")
    BY <1>2 DEF SweepEvict
  <2>2. j = i /\ ShardOf[i] = sw.next
    BY <1>2, <2>1, RemoveEffect DEF Oldest, Live
  <2>3. lock[ShardOf[i]] # NoOne
    BY <1>2, <2>2, ActorsAssumption
    DEF LockOwned, SweepEvict, Goto, Holds, SweepHolds, Actors, ShardOfActor
  <2>4. \A k \in Live(ShardOf[i]) : m[i].expires <= m[k].expires
    BY <2>1, <2>2 DEF Oldest
  <2>5. \A k \in Ids : m[k] # Absent => m[k].expires \in Nat
    BY DEF TypeOK, Record
  <2>6. lasting = Live(ShardOf[i])
    BY <2>4, <2>5 DEF Live
  <2>7. QED
    BY <2>3, <2>6 DEF LegalVictim
<1>3. QED
  BY <1>1, <1>2 DEF Evicting

\* The actor whose step it is, removing or not.
LEMMA LossStep ==
  ASSUME OvershootInv, DeadlineInv, [Next]_vars, NEW i \in Ids, m[i] # Absent, m'[i] = Absent
  PROVE  \/ stats'.expired = stats.expired + 1 /\ m[i].expires <= clock
         \/ stats'.evicted = stats.evicted + 1 /\ LegalVictim(i)
         \/ \E w \in Workers : pc[w] = "delLock" /\ loc[w].id = i
<1>0. TypeOK /\ LockOwned
  BY DEF OvershootInv
<1>1. ASSUME NEW a \in Actors,
             \/ a \in Workers /\ (PutEvictExpired(a) \/ PutEvictOldest(a) \/ GetDrop(a) \/ DeleteFound(a))
             \/ a = Sweeper /\ (SweepExpired \/ SweepEvict)
      PROVE  \/ stats'.expired = stats.expired + 1 /\ m[i].expires <= clock
             \/ stats'.evicted = stats.evicted + 1 /\ LegalVictim(i)
             \/ \E w \in Workers : pc[w] = "delLock" /\ loc[w].id = i
  <2>1. PICK j \in Ids, op \in {"put", "get", "delete", "expire", "evict"} :
           /\ Remove(a, j, op)
           /\ \/ m[j].expires <= loc[a].now /\ stats' = [stats EXCEPT !.expired = @ + 1]
              \/ Evicting(a) /\ stats' = [stats EXCEPT !.evicted = @ + 1]
              \/ a \in Workers /\ pc[a] = "delLock" /\ loc[a].id = j
    BY <1>0, <1>1, RemovingActions DEF Removal
  <2>2. j = i
    BY <1>0, <2>1, RemoveEffect
  <2>3. m[i] \in Record /\ m[i].expires \in Nat /\ loc[a] \in LocalsType /\ loc[a].now \in Nat
    BY <1>0 DEF TypeOK, Record, LocalsType
  <2>4. loc[a].now <= clock /\ clock \in Nat
    BY <1>0 DEF DeadlineInv, TypeOK
  <2>5. Evicting(a) => LegalVictim(i)
    BY <1>0, VictimsLegal
  <2>6. QED
    BY <1>0, <2>1, <2>2, <2>3, <2>4, <2>5 DEF TypeOK
<1>2. ASSUME NEW w \in Workers, WorkerStep(w),
             ~(PutEvictExpired(w) \/ PutEvictOldest(w) \/ GetDrop(w) \/ DeleteFound(w))
      PROVE  m'[i] # Absent
  <2>1. CASE PutStore(w)
    <3>1. loc[w].rec # Absent /\ loc[w].id \in Ids
      BY <1>0, <2>1 DEF PutStore, Goto, TypeOK, PutHolds, LocalsType, Actors
    <3>2. QED
      BY <1>0, <2>1, <3>1 DEF PutStore, TypeOK
  <2>2. CASE ~PutStore(w)
    <3>1. m' = m
      BY <1>2, <2>2
      DEF WorkerStep, Put, PutRefused, PutStart, PutLockExisting, Replace, PutLockNew, Insert,
          PutCapEntries, PutCapBytes, PutEvictNone, PutDropEntry, PutDropBytes,
          PutAdd, PutGrow, Get, GetStart, GetAbsent, GetFound, GetHit, Serve, GetStale,
          GetKeep, Delete, DeleteStart, DeleteAbsent, DropEntry, DropBytes, Close,
          CloseStart, CloseFirst, CloseDone, CloseAgain
    <3>2. QED
      BY <3>1
  <2>3. QED
    BY <2>1, <2>2
<1>3. ASSUME SweepWork \/ SweepStop, ~(SweepExpired \/ SweepEvict) PROVE m'[i] # Absent
  BY <1>3
  DEF SweepWork, SweepStop, Stop, SweepTick, SweepCapEntries, SweepCapBytes, SweepNow,
      SweepLock, SweepScanned, QuotaOver, QuotaCount, QuotaBytes, QuotaMean, DropEntry,
      SweepDropBytes, SweepNext, MoveOn
<1>4. ASSUME Elapse \/ UNCHANGED vars PROVE m'[i] # Absent
  BY <1>4 DEF Elapse, vars
<1>5. QED
  BY <1>1, <1>2, <1>3, <1>4 DEF Next, Actors

\* A mapping goes only for a reason, and the reason is counted in the same step:
\* its deadline has passed, somebody who holds the lock of its shard made room
\* and it was the one to go, or a Delete of its very id is under way.  For every interleaving of Put, Get, Delete and the sweeper.
THEOREM LossIsExplained == Spec => LossExplained
<1>1. OvershootInv /\ DeadlineInv /\ [Next]_vars =>
        [\A i \in Ids : m[i] # Absent /\ m'[i] = Absent =>
           \/ stats'.expired = stats.expired + 1 /\ m[i].expires <= clock
           \/ stats'.evicted = stats.evicted + 1 /\ LegalVictim(i)
           \/ \E w \in Workers : pc[w] = "delLock" /\ loc[w].id = i]_vars
  BY LossStep
<1>2. QED
  BY <1>1, OvershootInvariant, DeadlineInvariant, PTL DEF Spec, LossExplained

-----------------------------------------------------------------------------
(* The refinement of Mapping *)

\* A record of the table seen through the mapping.
LEMMA Seen ==
  ASSUME TypeOK, NEW r \in Record
  PROVE  /\ [entry |-> r.entry, expires |-> r.expires] \in [entry : Entry, expires : Nat]
         /\ [entry |-> r.entry, expires |-> r.expires] # Absent
  BY DEF Record

LEMMA NothingSeen ==
  ASSUME TypeOK, m' = m, NEW a \in Actors, Others(a),
         a = Sweeper \/ (pc[a] # "getCheck" /\ pc'[a] # "getCheck"),
         clock' = clock, stats'.hits = stats.hits
  PROVE  UNCHANGED Promise!vars
<1>1. Remembered' = Remembered
  BY DEF Remembered
<1>2. \A w \in Workers : (pc'[w] # "getCheck" <=> pc[w] # "getCheck")
                        /\ (pc[w] = "getCheck" => loc'[w] = loc[w])
  BY DEF Others, Actors
<1>3. Found' = Found
  BY <1>2 DEF Found
<1>4. QED
  BY <1>1, <1>3 DEF Promise!vars

\* The action of Mapping a step amounts to.
LEMMA RemovalForgets ==
  ASSUME TypeOK, NEW a \in Actors, NEW i \in Ids,
         NEW op \in {"put", "get", "delete", "expire", "evict"}, Removal(a, i, op),
         pc' = [pc EXCEPT ![a] = pc'[a]], pc'[a] # "getCheck"
  PROVE  Promise!Forget(i)
<1>1. m[i] \in Record
  BY DEF TypeOK, Removal
<1>2. Remembered[i] # Absent
  BY <1>1, Seen DEF Remembered, Removal
<1>3. Remembered' = [Remembered EXCEPT ![i] = Absent]
  <2>1. \A j \in Ids : m'[j] = IF j = i THEN Absent ELSE m[j]
    BY RemoveEffect DEF Removal
  <2>2. QED
    BY <2>1 DEF Remembered
<1>4. /\ \A b \in Actors \ {a} : pc'[b] = pc[b] /\ loc'[b] = loc[b]
      /\ pc[a] # "getCheck" /\ pc'[a] # "getCheck"
  BY RemoveEffect DEF Removal, TypeOK
<1>5. Found' = Found
  BY <1>4 DEF Found, Actors
<1>6. QED
  BY <1>2, <1>3, <1>5 DEF Promise!Forget, Removal

LEMMA StoreRemembers ==
  ASSUME TypeOK, DeadlineInv, NEW w \in Workers, PutStore(w)
  PROVE  \E i \in Ids, e \in Entry : Promise!Remember(i, e)
<1> DEFINE i == loc[w].id
           r == loc[w].rec
<1>1. r \in Record /\ i \in Ids
  BY DEF PutStore, Goto, TypeOK, PutHolds, LocalsType, Actors
<1>2. r.entry \in Entry /\ r.expires \in Nat /\ r # Absent
  BY <1>1 DEF Record
<1>3. r.expires \in 0 .. clock + TTL
  BY <1>2 DEF DeadlineInv, TypeOK, Actors
<1>4. m' = [m EXCEPT ![i] = r]
  BY DEF PutStore
<1> HIDE DEF i, r
<1>5. Remembered' = [Remembered EXCEPT ![i] = [entry |-> r.entry, expires |-> r.expires]]
  BY <1>1, <1>2, <1>4 DEF Remembered, TypeOK
<1>6. \A v \in Workers : /\ pc'[v] # "getCheck" <=> pc[v] # "getCheck"
                         /\ pc[v] = "getCheck" => loc'[v] = loc[v]
  BY DEF PutStore, Goto, Return, TypeOK, Actors
<1>7. Found' = Found
  BY <1>6 DEF Found
<1>8. stats'.hits = stats.hits /\ clock' = clock
  BY DEF PutStore, Counted, TypeOK
<1>9. Promise!Remember(i, r.entry)
  BY <1>3, <1>5, <1>7, <1>8 DEF Promise!Remember
<1>10. QED
  BY <1>1, <1>2, <1>9

LEMMA FoundLooksUp ==
  ASSUME TypeOK, NEW w \in Workers, GetFound(w)
  PROVE  \E i \in Ids : Promise!Lookup(w, i)
<1> DEFINE i == loc[w].id
<1>1. i \in Ids /\ m[i] \in Record
  BY DEF GetFound, TypeOK, LocalsType, Actors
<1>2. loc' = [loc EXCEPT ![w] = [loc[w] EXCEPT !.rec = m[i]]]
  BY DEF GetFound
<1>3. loc[w] \in LocalsType /\ w \in Actors
  BY DEF TypeOK, Actors
<1>4. loc'[w].rec = m[i] /\ \A v \in Actors \ {w} : loc'[v] = loc[v]
  BY <1>2, <1>3 DEF TypeOK, LocalsType
<1>5. pc[w] = "getRead" /\ pc'[w] = "getCheck" /\ \A v \in Actors \ {w} : pc'[v] = pc[v]
  BY <1>3 DEF GetFound, Goto, TypeOK
<1>6. Found[w] = Absent
  BY <1>5 DEF Found
<1>7. Remembered[i] = [entry |-> m[i].entry, expires |-> m[i].expires] /\ Remembered[i] # Absent
  BY <1>1, Seen DEF Remembered
<1>8. Found' = [Found EXCEPT ![w] = Remembered[i]]
  BY <1>4, <1>5, <1>7 DEF Found, Actors
<1>9. Remembered' = Remembered /\ stats'.hits = stats.hits /\ clock' = clock
  BY DEF GetFound, Remembered
<1>10. QED
  BY <1>1, <1>6, <1>7, <1>8, <1>9 DEF Promise!Lookup

LEMMA CheckAnswers ==
  ASSUME TypeOK, NEW w \in Workers, GetHit(w) \/ GetStale(w)
  PROVE  Promise!Hit(w) \/ Promise!Stale(w)
<1>1. loc[w].rec \in Record /\ w \in Actors /\ pc[w] = "getCheck"
  BY DEF GetHit, Serve, GetStale, Goto, TypeOK, Actors
<1>2. Found[w] = [entry |-> loc[w].rec.entry, expires |-> loc[w].rec.expires] /\ Found[w] # Absent
  BY <1>1, Seen DEF Found
<1>3. Found[w].expires = loc[w].rec.expires
  BY <1>2
<1>4. /\ pc'[w] # "getCheck"
      /\ \A v \in Actors \ {w} : pc'[v] = pc[v] /\ loc'[v] = loc[v]
  BY <1>1 DEF GetHit, Serve, GetStale, Goto, Return, TypeOK
<1>5. Found' = [Found EXCEPT ![w] = Absent]
  BY <1>4 DEF Found, Actors
<1>6. Remembered' = Remembered /\ clock' = clock
  BY DEF GetHit, Serve, GetStale, Remembered
<1>7. CASE GetHit(w)
  <2>1. stats'.hits = stats.hits + 1 /\ loc[w].rec.expires > clock
    BY <1>7 DEF GetHit, Serve, Counted, TypeOK
  <2>2. QED
    BY <1>2, <1>3, <1>5, <1>6, <2>1 DEF Promise!Hit
<1>8. CASE GetStale(w)
  BY <1>2, <1>3, <1>5, <1>6, <1>8 DEF Promise!Stale, GetStale
<1>9. QED
  BY <1>7, <1>8

\* Every other step of a worker leaves what callers see alone.
LEMMA WorkerRefines ==
  ASSUME TypeOK, DeadlineInv, NEW w \in Workers, WorkerStep(w)
  PROVE  [Promise!Next]_(Promise!vars)
<1>0. w \in Actors
  BY DEF Actors
<1>1. CASE PutEvictExpired(w) \/ PutEvictOldest(w) \/ GetDrop(w) \/ DeleteFound(w)
  <2>1. \E i \in Ids : Promise!Forget(i)
    BY <1>0, <1>1, RemovingActions, RemovalForgets
  <2>2. QED
    BY <2>1 DEF Promise!Next
<1>2. CASE PutStore(w)
  BY <1>2, StoreRemembers DEF Promise!Next
<1>3. CASE GetFound(w)
  BY <1>3, FoundLooksUp DEF Promise!Next
<1>4. CASE GetHit(w) \/ GetStale(w)
  BY <1>4, CheckAnswers DEF Promise!Next
<1>5. CASE ~(\/ PutEvictExpired(w) \/ PutEvictOldest(w) \/ GetDrop(w) \/ DeleteFound(w)
             \/ PutStore(w) \/ GetFound(w) \/ GetHit(w) \/ GetStale(w))
  <2>1. m' = m /\ clock' = clock
    BY <1>5
    DEF WorkerStep, Put, PutRefused, PutStart, PutLockExisting, Replace, PutLockNew, Insert,
        PutCapEntries, PutCapBytes, PutEvictNone, PutDropEntry, PutDropBytes,
        PutAdd, PutGrow, Get, GetStart, GetAbsent, GetKeep, Delete, DeleteStart,
        DeleteAbsent, DropEntry, DropBytes, Close, CloseStart, CloseFirst, CloseDone, CloseAgain
  <2>2. stats' = stats \/ \E c \in {"skipped", "misses"} : Counted(c)
    BY <1>5
    DEF WorkerStep, Put, PutRefused, PutStart, PutLockExisting, Replace, PutLockNew, Insert,
        PutCapEntries, PutCapBytes, PutEvictNone, PutDropEntry, PutDropBytes,
        PutAdd, PutGrow, Get, GetStart, GetAbsent, GetKeep, Delete, DeleteStart,
        DeleteAbsent, DropEntry, DropBytes, Close, CloseStart, CloseFirst, CloseDone, CloseAgain
  <2>3. stats'.hits = stats.hits
    BY <2>2 DEF Counted, TypeOK
  <2>4. \E from, to : Goto(w, from, to) /\ from # "getCheck" /\ to # "getCheck"
    BY <1>5
    DEF WorkerStep, Put, PutRefused, PutStart, PutLockExisting, Replace, PutLockNew, Insert,
        PutCapEntries, PutCapBytes, PutEvictNone, PutDropEntry, PutDropBytes,
        PutAdd, PutGrow, Get, GetStart, GetAbsent, GetKeep, Delete, DeleteStart, Begin,
        DeleteAbsent, DropEntry, DropBytes, Close, CloseStart, CloseFirst, CloseDone, CloseAgain
  <2>5. \A v \in Actors \ {w} : loc'[v] = loc[v]
    BY <1>0, WorkerCareful DEF Careful
  <2>6. Others(w) /\ pc[w] # "getCheck" /\ pc'[w] # "getCheck"
    BY <1>0, <2>4, <2>5 DEF Others, Goto, TypeOK
  <2>7. QED
    BY <1>0, <2>1, <2>3, <2>6, NothingSeen
<1>6. QED
  BY <1>1, <1>2, <1>3, <1>4, <1>5

LEMMA SweeperRefines ==
  ASSUME TypeOK, SweepWork \/ SweepStop
  PROVE  [Promise!Next]_(Promise!vars)
<1>0. Sweeper \in Actors
  BY DEF Actors
<1>1. CASE SweepExpired \/ SweepEvict
  <2>1. \E i \in Ids : Promise!Forget(i)
    BY <1>0, <1>1, RemovingActions, RemovalForgets
  <2>2. QED
    BY <2>1 DEF Promise!Next
<1>2. CASE ~(SweepExpired \/ SweepEvict)
  <2>1. m' = m /\ clock' = clock /\ stats' = stats /\ \E from, to : Goto(Sweeper, from, to)
    BY <1>2
    DEF SweepWork, SweepStop, Stop, SweepTick, SweepCapEntries, SweepCapBytes, SweepNow,
        SweepLock, SweepScanned, QuotaOver, QuotaCount, QuotaBytes, QuotaMean, DropEntry,
        SweepDropBytes, SweepNext, MoveOn
  <2>2. Others(Sweeper)
    BY <1>0, <2>1, SweeperCareful DEF Others, Careful, Goto, TypeOK
  <2>3. QED
    BY <1>0, <2>1, <2>2, NothingSeen
<1>3. QED
  BY <1>1, <1>2

LEMMA ElapseRefines ==
  ASSUME TypeOK, Elapse
  PROVE  Promise!Elapse
<1>1. Remembered' = Remembered /\ Found' = Found
  BY DEF Elapse, Remembered, Found
<1>2. QED
  BY <1>1 DEF Elapse, Promise!Elapse

\* The sharded, locked, evicting table implements the mapping its interface
\* promises: whatever the interleaving, a Get answers with the entry of the last
\* Put that took effect or with nothing, and never past the entry's deadline.
THEOREM StoreImplementsMapping == Spec => KeepsPromise
<1>1. Init => Promise!Init
  BY DEF Init, Promise!Init, Remembered, Found, Actors
<1>2. TypeOK /\ DeadlineInv /\ [Next]_vars => [Promise!Next]_(Promise!vars)
  <2> SUFFICES ASSUME TypeOK, DeadlineInv, [Next]_vars PROVE [Promise!Next]_(Promise!vars)
    OBVIOUS
  <2>1. CASE Elapse
    BY <2>1, ElapseRefines DEF Promise!Next
  <2>2. CASE UNCHANGED vars
    BY <2>2 DEF vars, Promise!vars, Remembered, Found
  <2>3. QED
    BY <2>1, <2>2, WorkerRefines, SweeperRefines DEF Next
<1>3. QED
  BY <1>1, <1>2, TypeCorrect, DeadlineInvariant, PTL DEF Spec, KeepsPromise, Promise!Spec

-----------------------------------------------------------------------------
(* The entry counter *)

Present == {i \in Ids : m[i] # Absent}
Owing == {a \in Actors : Removed(a) \/ Announced(a)}

\* A Put that makes room and announces its entry has found its id free, and
\* nobody can take it: it holds the lock of the shard.
InsertsAbsent ==
  \A w \in Workers : pc[w] \in PutHolds \ {"putGrow", "putStore"} => m[loc[w].id] = Absent

CountInv == OvershootInv /\ InsertsAbsent /\ EntriesAccounted

LEMMA CountsFinite ==
  ASSUME NEW S \in SUBSET Ids, NEW A \in SUBSET Actors
  PROVE  /\ IsFiniteSet(S) /\ Cardinality(S) \in Nat
         /\ IsFiniteSet(A) /\ Cardinality(A) \in Nat
<1>1. IsFiniteSet(Actors)
  BY FS_AddElement DEF Actors
<1>2. QED
  BY <1>1, FS_Subset, FS_CardinalityType

\* A step of a that changes the table only where nobody else holds the lock.
Local(a) ==
  /\ Others(a)
  /\ \A i \in Ids : m'[i] # m[i] => lock[ShardOf[i]] \in {a, NoOne}

LEMMA OthersOwing ==
  ASSUME OvershootInv, NEW a \in Actors, Local(a), NEW b \in Actors \ {a}
  PROVE  /\ b \in Owing' <=> b \in Owing
         /\ /\ InsertsAbsent /\ b \in Workers /\ pc'[b] \in PutHolds \ {"putGrow", "putStore"}
            => m'[loc'[b].id] = Absent
<1>1. pc'[b] = pc[b] /\ loc'[b] = loc[b] /\ loc[b].id \in Ids
  BY DEF Local, Others, OvershootInv, TypeOK, LocalsType
<1>2. b \in Workers /\ pc[b] \in PutHolds => m'[loc[b].id] = m[loc[b].id]
  <2> SUFFICES ASSUME b \in Workers, pc[b] \in PutHolds PROVE m'[loc[b].id] = m[loc[b].id]
    OBVIOUS
  <2>1. lock[ShardOf[loc[b].id]] = b
    BY DEF OvershootInv, LockOwned, ShardOfActor, Holds, Actors
  <2>2. b # a /\ b # NoOne
    OBVIOUS
  <2>3. QED
    BY <1>1, <2>1, <2>2 DEF Local
<1>3. QED
  BY <1>1, <1>2 DEF Owing, Removed, Announced, PutHolds, InsertsAbsent

\* What a step of a does to the two sides of the account.
Balanced(a) ==
  \/ Present' = Present /\ entries' = entries /\ (a \in Owing' <=> a \in Owing)
  \/ Present' = Present /\ entries' = entries - 1 /\ a \in Owing /\ a \notin Owing'
  \/ Present' = Present /\ entries' = entries + 1 /\ a \notin Owing /\ a \in Owing'
  \/ /\ \E i \in Present : Present' = Present \ {i}
     /\ entries' = entries /\ a \notin Owing /\ a \in Owing'
  \/ /\ \E i \in Ids \ Present : Present' = Present \cup {i}
     /\ entries' = entries /\ a \in Owing /\ a \notin Owing'

LEMMA BalancedKeepsAccount ==
  ASSUME CountInv, NEW a \in Actors, Local(a), Balanced(a)
  PROVE  EntriesAccounted'
<1> DEFINE P == Cardinality(Present)
           O == Cardinality(Owing)
<1>1. \A b \in Actors \ {a} : b \in Owing' <=> b \in Owing
  BY OthersOwing DEF CountInv
<1>2. /\ Present \in SUBSET Ids /\ Present' \in SUBSET Ids
      /\ Owing \in SUBSET Actors /\ Owing' \in SUBSET Actors
  BY DEF Present, Owing
<1>3. /\ IsFiniteSet(Present) /\ P \in Nat /\ IsFiniteSet(Owing) /\ O \in Nat
  BY <1>2, CountsFinite
<1>4. entries = P + O /\ entries \in Int
  BY DEF CountInv, EntriesAccounted, Present, Owing, OvershootInv, TypeOK
<1>5. a \in Owing /\ a \notin Owing' => Cardinality(Owing') = O - 1
  <2>1. a \in Owing /\ a \notin Owing' => Owing' = Owing \ {a}
    BY <1>1, <1>2
  <2>2. QED
    BY <2>1, <1>3, FS_RemoveElement
<1>6. a \notin Owing /\ a \in Owing' => Cardinality(Owing') = O + 1
  <2>1. a \notin Owing /\ a \in Owing' => Owing' = Owing \cup {a}
    BY <1>1, <1>2
  <2>2. QED
    BY <2>1, <1>3, FS_AddElement
<1>7. (a \in Owing' <=> a \in Owing) => Cardinality(Owing') = O
  <2>1. (a \in Owing' <=> a \in Owing) => Owing' = Owing
    BY <1>1, <1>2
  <2>2. QED
    BY <2>1
<1>8. ASSUME NEW i \in Present, Present' = Present \ {i} PROVE Cardinality(Present') = P - 1
  BY <1>3, <1>8, FS_RemoveElement
<1>9. ASSUME NEW i \in Ids \ Present, Present' = Present \cup {i} PROVE Cardinality(Present') = P + 1
  BY <1>3, <1>9, FS_AddElement
<1>10. entries' = Cardinality(Present') + Cardinality(Owing')
  BY <1>3, <1>4, <1>5, <1>6, <1>7, <1>8, <1>9 DEF Balanced
<1>11. QED
  BY <1>10 DEF EntriesAccounted, Present, Owing

LEMMA CountStep ==
  ASSUME CountInv, OvershootInv', NEW a \in Actors, Local(a), Balanced(a),
         a \in Workers /\ pc'[a] \in PutHolds \ {"putGrow", "putStore"} => m'[loc'[a].id] = Absent
  PROVE  CountInv'
<1>1. InsertsAbsent'
  <2>1. ASSUME NEW w \in Workers, pc'[w] \in PutHolds \ {"putGrow", "putStore"}
        PROVE  m'[loc'[w].id] = Absent
    BY <2>1, OthersOwing DEF CountInv, Actors
  <2>2. QED
    BY <2>1 DEF InsertsAbsent
<1>2. QED
  BY <1>1, BalancedKeepsAccount DEF CountInv

LEMMA WorkerMovesAlone ==
  ASSUME TypeOK, NEW w \in Workers, WorkerStep(w)
  PROVE  Others(w)
<1>1. \E from, to : Goto(w, from, to)
  BY DEF WorkerStep, Put, PutRefused, PutStart, PutLockExisting, Replace, PutLockNew, Insert,
         PutCapEntries, PutCapBytes, PutEvictNone, PutEvictExpired,
         PutEvictOldest, PutDropEntry, PutDropBytes, PutAdd, PutGrow, PutStore, Get, GetStart,
         GetAbsent, GetFound, GetHit, Serve, GetStale, GetDrop, DropDead, GetKeep, Delete,
         DeleteStart, DeleteFound, DeleteAbsent, DropEntry, DropBytes, Close, CloseStart,
         CloseFirst, CloseDone, CloseAgain, Begin
<1>2. QED
  BY <1>1, WorkerCareful DEF Careful, Others, Goto, TypeOK, Actors

LEMMA SweeperMovesAlone ==
  ASSUME TypeOK, SweepWork \/ SweepStop
  PROVE  Others(Sweeper)
<1>1. \E from, to : Goto(Sweeper, from, to)
  BY DEF SweepWork, SweepStop, Stop, SweepTick, SweepCapEntries, SweepCapBytes, SweepNow,
         SweepLock, SweepExpired, SweepScanned, QuotaOver, QuotaCount, QuotaBytes, QuotaMean,
         SweepEvict, DropEntry, SweepDropBytes, SweepNext, MoveOn
<1>2. QED
  BY <1>1, SweeperCareful DEF Careful, Others, Goto, TypeOK, Actors

LEMMA OwingHere ==
  ASSUME NEW a \in Actors
  PROVE  a \in Owing <=> \/ pc[a] \in {"dropEntry", "putDropEntry"}
                        \/ /\ a \in Workers /\ pc[a] \in {"putGrow", "putStore"}
                           /\ m[loc[a].id] = Absent
  BY DEF Owing, Removed, Announced

\* A record removed under the lock is owed to the counter.
LEMMA RemovalBalances ==
  ASSUME CountInv, OvershootInv', NEW a \in Actors, NEW i \in Ids,
         NEW op \in {"put", "get", "delete", "expire", "evict"}, Removal(a, i, op),
         Others(a), lock[ShardOf[i]] \in {a, NoOne}, entries' = entries,
         pc[a] \in {"putEvict", "getDrop", "delLock", "sweepScan", "sweepEvict"},
         pc'[a] = IF pc[a] = "putEvict" THEN "putDropEntry" ELSE "dropEntry"
  PROVE  CountInv'
<1>1. /\ m[i] # Absent /\ m'[i] = Absent /\ \A j \in Ids \ {i} : m'[j] = m[j]
      /\ loc'[a].id = loc[a].id /\ loc[a].id \in Ids
  BY RemoveEffect DEF Removal, CountInv, OvershootInv, TypeOK, LocalsType
<1>2. i \in Present /\ Present' = Present \ {i}
  BY <1>1 DEF Present
<1>3. a \notin Owing /\ a \in Owing'
  BY OwingHere DEF Owing, Removed, Announced
<1>4. Local(a)
  BY <1>1 DEF Local
<1>5. Balanced(a)
  BY <1>2, <1>3 DEF Balanced
<1>6. a \in Workers /\ pc'[a] \in PutHolds \ {"putGrow", "putStore"} => m'[loc'[a].id] = Absent
  <2> SUFFICES ASSUME a \in Workers, pc'[a] \in PutHolds \ {"putGrow", "putStore"}
               PROVE  m'[loc'[a].id] = Absent
    OBVIOUS
  <2>1. pc[a] = "putEvict"
    BY DEF PutHolds
  <2>2. m[loc[a].id] = Absent
    BY <2>1 DEF CountInv, InsertsAbsent, PutHolds
  <2>3. QED
    BY <1>1, <2>2
<1>7. QED
  BY <1>4, <1>5, <1>6, CountStep

Removes(a) ==
  \/ a \in Workers /\ (PutEvictExpired(a) \/ PutEvictOldest(a) \/ GetDrop(a) \/ DeleteFound(a))
  \/ a = Sweeper /\ (SweepExpired \/ SweepEvict)

\* Whoever removes a record does so under the lock of its shard.
LEMMA RemovingFacts ==
  ASSUME CountInv, NEW a \in Actors, Removes(a)
  PROVE  /\ Others(a) /\ entries' = entries /\ bytes' = bytes
         /\ pc[a] \in {"putEvict", "getDrop", "delLock", "sweepScan", "sweepEvict"}
         /\ pc'[a] = IF pc[a] = "putEvict" THEN "putDropEntry" ELSE "dropEntry"
         /\ \E i \in Ids, op \in {"put", "get", "delete", "expire", "evict"} :
              Removal(a, i, op) /\ lock[ShardOf[i]] \in {a, NoOne}
<1> USE DEF Removes
<1>0. TypeOK /\ LockOwned
  BY DEF CountInv, OvershootInv
<1>1. Others(a)
  BY <1>0, WorkerMovesAlone, SweeperMovesAlone DEF WorkerStep, Put, Get, Delete, SweepWork
<1>2. entries' = entries /\ bytes' = bytes
  BY DEF PutEvictExpired, PutEvictOldest, GetDrop, DropDead, DeleteFound, SweepExpired, SweepEvict
<1>3. /\ pc[a] \in {"putEvict", "getDrop", "delLock", "sweepScan", "sweepEvict"}
      /\ pc'[a] = IF pc[a] = "putEvict" THEN "putDropEntry" ELSE "dropEntry"
  BY <1>0 DEF PutEvictExpired, PutEvictOldest, GetDrop, DropDead, DeleteFound, SweepExpired,
              SweepEvict, Goto, TypeOK
<1>4. PICK i \in Ids, op \in {"put", "get", "delete", "expire", "evict"} : Removal(a, i, op)
  BY <1>0, RemovingActions
<1>5. ShardOf[i] = ShardOfActor(a)
  <2>1. m[i] # Absent /\ m'[i] = Absent /\ \A j \in Ids \ {i} : m'[j] = m[j]
    BY <1>0, <1>4, RemoveEffect DEF Removal
  <2>2. \E j \in Ids : ShardOf[j] = ShardOfActor(a) /\ m'[j] = Absent /\ m[j] # Absent
    <3>1. CASE \/ a \in Workers /\ (PutEvictExpired(a) \/ PutEvictOldest(a))
               \/ a = Sweeper /\ (SweepExpired \/ SweepEvict)
      <4>1. \E j \in Live(ShardOfActor(a)), o \in {"put", "expire", "evict"} : Remove(a, j, o)
        <5>1. CASE a \in Workers /\ (PutEvictExpired(a) \/ PutEvictOldest(a))
          BY <5>1 DEF PutEvictExpired, PutEvictOldest, Oldest, Samples, Dead
        <5>2. CASE a = Sweeper /\ (SweepExpired \/ SweepEvict)
          BY <5>2 DEF SweepExpired, SweepEvict, Oldest, Dead, ShardOfActor
        <5>3. QED
          BY <3>1, <5>1, <5>2
      <4>2. QED
        BY <1>0, <4>1, RemoveEffect DEF Live
    <3>2. CASE a \in Workers /\ (GetDrop(a) \/ DeleteFound(a))
      <4>1. loc[a].id \in Ids
        BY <1>0 DEF TypeOK, LocalsType
      <4>2. m[loc[a].id] # Absent /\ \E o \in {"get", "delete"} : Remove(a, loc[a].id, o)
        BY <3>2 DEF GetDrop, DropDead, StillDead, DeleteFound
      <4>3. QED
        BY <1>0, <3>2, <4>1, <4>2, RemoveEffect DEF ShardOfActor
    <3>3. QED
      BY <3>1, <3>2
  <2>3. QED
    BY <2>1, <2>2
<1>6. lock[ShardOf[i]] \in {a, NoOne}
  <2>1. CASE pc[a] \in {"getDrop", "delLock"}
    BY <1>0, <1>5, <2>1
    DEF PutEvictExpired, PutEvictOldest, GetDrop, DropDead, DeleteFound, SweepExpired,
        SweepEvict, Goto, Acquire
  <2>2. CASE pc[a] \in {"putEvict", "sweepScan", "sweepEvict"}
    BY <1>0, <1>5, <2>2 DEF LockOwned, Holds, PutHolds, SweepHolds
  <2>3. QED
    BY <1>3, <2>1, <2>2
<1>7. QED
  BY <1>1, <1>2, <1>3, <1>4, <1>6

LEMMA RemovingStepsCount ==
  ASSUME CountInv, OvershootInv', NEW a \in Actors, Removes(a)
  PROVE  CountInv'
<1>1. /\ Others(a) /\ entries' = entries
      /\ pc[a] \in {"putEvict", "getDrop", "delLock", "sweepScan", "sweepEvict"}
      /\ pc'[a] = IF pc[a] = "putEvict" THEN "putDropEntry" ELSE "dropEntry"
  BY RemovingFacts
<1>2. PICK i \in Ids, op \in {"put", "get", "delete", "expire", "evict"} :
        Removal(a, i, op) /\ lock[ShardOf[i]] \in {a, NoOne}
  BY RemovingFacts
<1>3. QED
  BY <1>1, <1>2, RemovalBalances

LEMMA WorkerCounts ==
  ASSUME CountInv, OvershootInv', NEW w \in Workers, WorkerStep(w)
  PROVE  CountInv'
<1>0. /\ TypeOK /\ LockOwned /\ Others(w) /\ w \in Actors
      /\ loc[w] \in LocalsType /\ loc[w].id \in Ids
  BY WorkerMovesAlone DEF CountInv, OvershootInv, TypeOK, LocalsType, Actors
<1>1. CASE PutEvictExpired(w) \/ PutEvictOldest(w) \/ GetDrop(w) \/ DeleteFound(w)
  BY <1>0, <1>1, RemovingStepsCount DEF Removes
<1>2. CASE PutStore(w)
  <2> DEFINE i == loc[w].id
             r == loc[w].rec
  <2>1. pc[w] = "putStore" /\ pc'[w] = "idle" /\ lock[ShardOf[i]] = w
    BY <1>0, <1>2 DEF PutStore, Goto, TypeOK, LockOwned, Holds, PutHolds, ShardOfActor
  <2>2. r \in Record /\ r # Absent
    BY <1>0, <2>1 DEF TypeOK, PutHolds
  <2>3. m' = [m EXCEPT ![i] = r] /\ entries' = entries
    BY <1>2 DEF PutStore
  <2> HIDE DEF r
  <2>4. m'[i] # Absent /\ \A j \in Ids \ {i} : m'[j] = m[j]
    BY <1>0, <2>2, <2>3 DEF TypeOK
  <2>5. w \notin Owing' /\ (w \in Owing <=> m[i] = Absent)
    BY <1>0, <2>1, OwingHere DEF Owing, Removed, Announced
  <2>6. Present' = Present \cup {i} /\ (i \in Present <=> m[i] # Absent)
    BY <1>0, <2>4 DEF Present
  <2>7. Balanced(w) /\ Local(w)
    BY <1>0, <2>1, <2>3, <2>4, <2>5, <2>6 DEF Balanced, Local
  <2>8. QED
    BY <1>0, <2>1, <2>7, CountStep DEF PutHolds
<1>3. CASE PutLockExisting(w) \/ PutLockNew(w)
  <2>1. /\ m' = m /\ loc' = loc /\ entries' = entries /\ pc[w] = "putLock"
        /\ \/ pc'[w] = "putGrow" /\ m[loc[w].id] # Absent
           \/ pc'[w] = "putCapEntries" /\ m[loc[w].id] = Absent
    BY <1>0, <1>3 DEF PutLockExisting, Replace, PutLockNew, Insert, Goto, TypeOK
  <2>2. Balanced(w) /\ Local(w)
    BY <1>0, <2>1, OwingHere DEF Balanced, Local, Present, Owing, Removed, Announced
  <2>3. QED
    BY <1>0, <2>1, <2>2, CountStep
<1>4. CASE \/ PutCapEntries(w) \/ PutCapBytes(w) \/ PutEvictNone(w) \/ PutDropEntry(w)
           \/ PutDropBytes(w) \/ PutAdd(w) \/ PutGrow(w)
  <2>1. loc'[w].id = loc[w].id
    <3>1. CASE PutDropBytes(w)
      <4>1. loc' = [loc EXCEPT ![w] = [loc[w] EXCEPT !.burst = loc[w].burst + 1, !.cut = 0]]
        BY <3>1 DEF PutDropBytes
      <4>2. QED
        BY <1>0, <4>1 DEF TypeOK, LocalsType
    <3>2. CASE ~PutDropBytes(w)
      BY <1>4, <3>2 DEF PutCapEntries, PutCapBytes, PutEvictNone, PutDropEntry,
                        PutAdd, PutGrow
    <3>3. QED
      BY <3>1, <3>2
  <2>2. /\ m' = m
        /\ \/ entries' = entries /\ pc[w] \in PutHolds \ {"putGrow", "putStore", "putDropEntry"}
                               /\ pc'[w] \in PutHolds \ {"putGrow", "putStore", "putDropEntry"}
           \/ entries' = entries /\ pc[w] = "putGrow" /\ pc'[w] = "putStore"
           \/ entries' = entries - 1 /\ pc[w] = "putDropEntry" /\ pc'[w] = "putDropBytes"
           \/ entries' = entries + 1 /\ pc[w] = "putAdd" /\ pc'[w] = "putGrow"
    BY <1>0, <1>4 DEF PutCapEntries, PutCapBytes, PutEvictNone, PutDropEntry,
                      PutDropBytes, PutAdd, PutGrow, Goto, TypeOK, PutHolds
  <2>3. pc[w] \in PutHolds \ {"putGrow", "putStore"} => m[loc[w].id] = Absent
    BY DEF CountInv, InsertsAbsent
  <2>4. Balanced(w) /\ Local(w)
    BY <1>0, <2>1, <2>2, <2>3, OwingHere
    DEF Balanced, Local, Present, Owing, Removed, Announced, PutHolds
  <2>5. QED
    BY <1>0, <2>1, <2>2, <2>3, <2>4, CountStep DEF PutHolds
<1>5. CASE DropEntry(w)
  <2>1. m' = m /\ entries' = entries - 1 /\ pc[w] = "dropEntry" /\ pc'[w] = "dropBytes"
    BY <1>0, <1>5 DEF DropEntry, Goto, TypeOK
  <2>2. Balanced(w) /\ Local(w)
    BY <1>0, <2>1, OwingHere DEF Balanced, Local, Present, Owing, Removed, Announced
  <2>3. QED
    BY <1>0, <2>1, <2>2, CountStep DEF PutHolds
<1>6. CASE ~(\/ PutEvictExpired(w) \/ PutEvictOldest(w) \/ GetDrop(w) \/ DeleteFound(w)
             \/ PutStore(w) \/ PutLockExisting(w) \/ PutLockNew(w)
             \/ PutCapEntries(w) \/ PutCapBytes(w) \/ PutEvictNone(w) \/ PutDropEntry(w)
             \/ PutDropBytes(w) \/ PutAdd(w) \/ PutGrow(w) \/ DropEntry(w))
  <2> DEFINE Apart == {"idle", "putLock", "getRead", "getCheck", "getDrop", "delLock",
                            "closeOnce", "closeWait", "dropBytes"}
  <2>1. /\ m' = m /\ entries' = entries
        /\ \E from \in Apart, to \in Apart : Goto(w, from, to)
    BY <1>6
    DEF WorkerStep, Put, PutRefused, PutStart, Get, GetStart, GetAbsent, GetFound, GetHit, Serve,
        GetStale, GetKeep, Delete, DeleteStart, DeleteAbsent, DropBytes, Close, CloseStart,
        CloseFirst, CloseDone, CloseAgain, Begin
  <2>2. pc[w] \in Apart /\ pc'[w] \in Apart
    BY <1>0, <2>1 DEF Goto, TypeOK
  <2>3. Balanced(w) /\ Local(w)
    BY <1>0, <2>1, <2>2, OwingHere DEF Balanced, Local, Present, Owing, Removed, Announced
  <2>4. QED
    BY <1>0, <2>2, <2>3, CountStep DEF PutHolds
<1>7. QED
  BY <1>1, <1>2, <1>3, <1>4, <1>5, <1>6

LEMMA SweeperCounts ==
  ASSUME CountInv, OvershootInv', SweepWork \/ SweepStop
  PROVE  CountInv'
<1>0. TypeOK /\ Others(Sweeper) /\ Sweeper \in Actors /\ Sweeper \notin Workers
  BY SweeperMovesAlone DEF CountInv, OvershootInv, Actors
<1>1. CASE SweepExpired \/ SweepEvict
  BY <1>0, <1>1, RemovingStepsCount DEF Removes
<1>2. CASE DropEntry(Sweeper)
  <2>1. /\ m' = m /\ entries' = entries - 1
        /\ pc[Sweeper] = "dropEntry" /\ pc'[Sweeper] = "dropBytes"
    BY <1>0, <1>2 DEF DropEntry, Goto, TypeOK
  <2>2. Balanced(Sweeper) /\ Local(Sweeper)
    BY <1>0, <2>1, OwingHere DEF Balanced, Local, Present, Owing, Removed, Announced
  <2>3. QED
    BY <1>0, <2>2, CountStep
<1>3. CASE ~(SweepExpired \/ SweepEvict \/ DropEntry(Sweeper))
  <2>1. /\ m' = m /\ entries' = entries
        /\ \E from, to : Goto(Sweeper, from, to) /\ from # "dropEntry" /\ to # "dropEntry"
                                                /\ from # "putDropEntry" /\ to # "putDropEntry"
    BY <1>3
    DEF SweepWork, SweepStop, Stop, SweepTick, SweepCapEntries, SweepCapBytes, SweepNow,
        SweepLock, SweepScanned, QuotaOver, QuotaCount, QuotaBytes, QuotaMean, SweepDropBytes,
        SweepNext, MoveOn
  <2>2. pc[Sweeper] \notin {"dropEntry", "putDropEntry"} /\ pc'[Sweeper] \notin {"dropEntry", "putDropEntry"}
    BY <1>0, <2>1 DEF Goto, TypeOK
  <2>3. Balanced(Sweeper) /\ Local(Sweeper)
    BY <1>0, <2>1, <2>2, OwingHere DEF Balanced, Local, Present, Owing, Removed, Announced
  <2>4. QED
    BY <1>0, <2>3, CountStep
<1>4. QED
  BY <1>1, <1>2, <1>3

LEMMA InitCount == Init => CountInv
<1> SUFFICES ASSUME Init PROVE CountInv
  OBVIOUS
<1>1. Present = {} /\ Owing = {}
  BY DEF Init, Present, Owing, Removed, Announced, Actors
<1>2. Cardinality(Present) = 0 /\ Cardinality(Owing) = 0
  BY <1>1, FS_EmptySet
<1>3. EntriesAccounted
  BY <1>2 DEF Init, EntriesAccounted, Present, Owing
<1>4. InsertsAbsent
  BY DEF Init, InsertsAbsent, PutHolds, Actors
<1>5. QED
  BY <1>3, <1>4, InitOvershoot DEF CountInv

LEMMA NextCount == CountInv /\ [Next]_vars => CountInv'
<1> SUFFICES ASSUME CountInv, [Next]_vars PROVE CountInv'
  OBVIOUS
<1>1. OvershootInv'
  BY NextOvershoot DEF CountInv
<1>2. ASSUME m' = m, entries' = entries, pc' = pc, loc' = loc PROVE CountInv'
  BY <1>1, <1>2 DEF CountInv, InsertsAbsent, EntriesAccounted, Removed, Announced
<1>3. CASE Elapse \/ UNCHANGED vars
  BY <1>2, <1>3 DEF Elapse, vars
<1>4. QED
  BY <1>1, <1>3, WorkerCounts, SweeperCounts DEF Next

LEMMA CountInvariant == Spec => []CountInv
  BY InitCount, NextCount, PTL DEF Spec

\* Len() is exact up to the operations in flight, whatever mix of Put, Get,
\* Delete and sweep is interleaved: no step loses or counts twice an entry.
THEOREM CounterExact == Spec => []EntriesAccounted
<1>1. CountInv => EntriesAccounted
  BY DEF CountInv
<1>2. QED
  BY <1>1, CountInvariant, PTL

-----------------------------------------------------------------------------
(* The byte counter *)

ByteInv == CountInv /\ BytesAccounted

\* The terms of the two sums are numbers.
LEMMA TermsInt == TypeOK => Sizes \in [Ids -> Int] /\ BytesInHand \in [Actors -> Int]
<1> SUFFICES ASSUME TypeOK PROVE Sizes \in [Ids -> Int] /\ BytesInHand \in [Actors -> Int]
  OBVIOUS
<1>1. ASSUME NEW i \in Ids PROVE SizeOf(i) \in Int
  BY DEF TypeOK, Record, SizeOf
<1>2. ASSUME NEW a \in Actors PROVE Unsettled(a) \in Int
  <2>1. loc[a] \in LocalsType /\ loc[a].cut \in Int /\ SizeOf(loc[a].id) \in Int
    BY <1>1 DEF TypeOK, LocalsType
  <2>2. pc[a] = "putStore" => a \in Workers
    BY DEF TypeOK, Actors, SweeperLabels, SweepHolds, DropHolds
  <2>3. pc[a] = "putStore" => loc[a].rec.size \in Int
    BY <2>2 DEF TypeOK, PutHolds, Record
  <2>4. QED
    BY <2>1, <2>3 DEF Unsettled
<1>3. QED
  BY <1>1, <1>2 DEF Sizes, BytesInHand

LEMMA OthersUnsettled ==
  ASSUME OvershootInv, NEW a \in Actors, Local(a), NEW b \in Actors \ {a}
  PROVE  Unsettled(b)' = Unsettled(b)
<1>1. pc'[b] = pc[b] /\ loc'[b] = loc[b] /\ loc[b].id \in Ids
  BY DEF Local, Others, OvershootInv, TypeOK, LocalsType
<1>2. pc[b] \in {"putGrow", "putStore"} => m'[loc[b].id] = m[loc[b].id]
  <2> SUFFICES ASSUME pc[b] \in {"putGrow", "putStore"} PROVE m'[loc[b].id] = m[loc[b].id]
    OBVIOUS
  <2>1. b # Sweeper
    BY DEF OvershootInv, TypeOK, SweeperLabels, SweepHolds, DropHolds
  <2>2. lock[ShardOf[loc[b].id]] = b
    BY <2>1 DEF OvershootInv, LockOwned, ShardOfActor, Holds, PutHolds
  <2>3. b # a /\ b # NoOne
    BY DEF Actors
  <2>4. QED
    BY <1>1, <2>2, <2>3 DEF Local
<1>3. QED
  BY <1>1, <1>2 DEF Unsettled, SizeOf

\* What a step of a does to the counter, to one record and to its own account.
Settles(a) ==
  \E i \in Ids :
    /\ \A j \in Ids \ {i} : m'[j] = m[j]
    /\ bytes' - bytes = (SizeOf(i)' - SizeOf(i)) + (Unsettled(a)' - Unsettled(a))

LEMMA BytesStep ==
  ASSUME CountInv, TypeOK', BytesAccounted, NEW a \in Actors, Local(a), Settles(a)
  PROVE  BytesAccounted'
<1>1. PICK i \in Ids :
        /\ \A j \in Ids \ {i} : m'[j] = m[j]
        /\ bytes' - bytes = (SizeOf(i)' - SizeOf(i)) + (Unsettled(a)' - Unsettled(a))
  BY DEF Settles
<1>2. /\ Sizes \in [Ids -> Int] /\ BytesInHand \in [Actors -> Int]
      /\ bytes \in Int /\ bytes' \in Int
  BY TermsInt DEF CountInv, OvershootInv, TypeOK
<1>3. Sizes' \in [Ids -> Int] /\ BytesInHand' \in [Actors -> Int]
  <2>1. (TypeOK => Sizes \in [Ids -> Int] /\ BytesInHand \in [Actors -> Int])'
    BY TermsInt, PTL
  <2>2. QED
    BY <2>1
<1>4. IsFiniteSet(Actors)
  BY FS_AddElement DEF Actors
<1>5. \A j \in Ids \ {i} : Sizes'[j] = Sizes[j]
  BY <1>1 DEF Sizes, SizeOf
<1>6. \A b \in Actors \ {a} : BytesInHand'[b] = BytesInHand[b]
  BY OthersUnsettled DEF BytesInHand, CountInv
<1>7. /\ SumFunction(Sizes) \in Int /\ SumFunction(Sizes') \in Int
      /\ SumFunction(Sizes') = SumFunction(Sizes) + Sizes'[i] - Sizes[i]
  BY <1>2, <1>3, <1>5, SumChange
<1>8. /\ SumFunction(BytesInHand) \in Int /\ SumFunction(BytesInHand') \in Int
      /\ SumFunction(BytesInHand')
           = SumFunction(BytesInHand) + BytesInHand'[a] - BytesInHand[a]
  BY <1>2, <1>3, <1>4, <1>6, SumChange
<1>9. /\ Sizes'[i] = SizeOf(i)' /\ Sizes[i] = SizeOf(i)
      /\ BytesInHand'[a] = Unsettled(a)' /\ BytesInHand[a] = Unsettled(a)
  BY DEF Sizes, BytesInHand
<1>10. /\ SizeOf(i)' \in Int /\ SizeOf(i) \in Int
       /\ Unsettled(a)' \in Int /\ Unsettled(a) \in Int
  BY <1>2, <1>3, <1>9
<1>11. bytes = SumFunction(Sizes) + SumFunction(BytesInHand)
  BY DEF BytesAccounted
<1>12. bytes' = SumFunction(Sizes') + SumFunction(BytesInHand')
  BY <1>1, <1>2, <1>7, <1>8, <1>9, <1>10, <1>11
<1>13. QED
  BY <1>12 DEF BytesAccounted

\* A step that leaves the table alone only moves bytes between the counter and
\* its own account.
LEMMA TableKept ==
  ASSUME ByteInv, TypeOK', NEW a \in Actors, Others(a), m' = m,
         bytes' - bytes = Unsettled(a)' - Unsettled(a)
  PROVE  BytesAccounted'
<1>1. SizeOf(EmptyId) \in Int /\ SizeOf(EmptyId)' = SizeOf(EmptyId)
  BY TermsInt DEF ByteInv, CountInv, OvershootInv, TypeOK, Record, SizeOf
<1>2. Unsettled(a) \in Int /\ Unsettled(a)' \in Int
  <2>1. (TypeOK => Sizes \in [Ids -> Int] /\ BytesInHand \in [Actors -> Int])'
    BY TermsInt, PTL
  <2>2. BytesInHand \in [Actors -> Int] /\ BytesInHand' \in [Actors -> Int]
    BY <2>1, TermsInt DEF ByteInv, CountInv, OvershootInv
  <2>3. BytesInHand[a] = Unsettled(a) /\ BytesInHand'[a] = Unsettled(a)'
    BY DEF BytesInHand
  <2>4. QED
    BY <2>2, <2>3
<1>3. bytes' - bytes = (SizeOf(EmptyId)' - SizeOf(EmptyId)) + (Unsettled(a)' - Unsettled(a))
  BY <1>1, <1>2
<1>4. Settles(a)
  BY <1>3 DEF Settles
<1>5. Local(a)
  BY DEF Local
<1>6. QED
  BY <1>4, <1>5, BytesStep DEF ByteInv

\* The size of a removed record is owed to the counter.
LEMMA RemovingSettles ==
  ASSUME ByteInv, TypeOK', NEW a \in Actors, Removes(a)
  PROVE  BytesAccounted'
<1>1. /\ Others(a) /\ bytes' = bytes
      /\ pc[a] \in {"putEvict", "getDrop", "delLock", "sweepScan", "sweepEvict"}
      /\ pc'[a] = IF pc[a] = "putEvict" THEN "putDropEntry" ELSE "dropEntry"
  BY RemovingFacts DEF ByteInv
<1>2. PICK i \in Ids, op \in {"put", "get", "delete", "expire", "evict"} :
        Removal(a, i, op) /\ lock[ShardOf[i]] \in {a, NoOne}
  BY RemovingFacts DEF ByteInv
<1>3. /\ TypeOK /\ bytes \in Int
      /\ m[i] # Absent /\ m[i] \in Record /\ m[i].size \in Int
  BY <1>2 DEF ByteInv, CountInv, OvershootInv, TypeOK, Removal, Record
<1>4. /\ m'[i] = Absent /\ \A j \in Ids \ {i} : m'[j] = m[j]
      /\ loc'[a].cut = m[i].size
  BY <1>2, <1>3, RemoveEffect DEF Removal
<1>5. Unsettled(a) = 0 /\ Unsettled(a)' = m[i].size
  BY <1>1, <1>4 DEF Unsettled
<1>6. SizeOf(i) = m[i].size /\ SizeOf(i)' = 0
  BY <1>3, <1>4 DEF SizeOf
<1>7. bytes' - bytes = (SizeOf(i)' - SizeOf(i)) + (Unsettled(a)' - Unsettled(a))
  BY <1>1, <1>3, <1>5, <1>6
<1>8. Settles(a) /\ Local(a)
  BY <1>1, <1>2, <1>4, <1>7 DEF Settles, Local
<1>9. QED
  BY <1>8, BytesStep DEF ByteInv

\* The record takes the place of the one whose bytes were given back.
LEMMA StoreSettles ==
  ASSUME ByteInv, TypeOK', NEW w \in Workers, PutStore(w), Others(w)
  PROVE  BytesAccounted'
<1> DEFINE r == loc[w].rec
<1>a. PICK i \in Ids : i = loc[w].id
  BY DEF ByteInv, CountInv, OvershootInv, TypeOK, LocalsType, Actors
<1>0. TypeOK /\ LockOwned /\ w \in Actors /\ i = loc[w].id /\ bytes \in Int
  BY <1>a DEF ByteInv, CountInv, OvershootInv, TypeOK, Actors
<1>1. pc[w] = "putStore" /\ pc'[w] = "idle" /\ lock[ShardOf[i]] = w
  BY <1>0 DEF PutStore, Goto, TypeOK, LockOwned, Holds, PutHolds, ShardOfActor
<1>2. r \in Record /\ r # Absent /\ r.size \in Int
  BY <1>0, <1>1 DEF TypeOK, PutHolds, Record
<1>3. m' = [m EXCEPT ![i] = r] /\ bytes' = bytes
  BY <1>0 DEF PutStore
<1>4. Unsettled(w) = r.size - SizeOf(i) /\ Unsettled(w)' = 0
  BY <1>0, <1>1 DEF Unsettled
<1> HIDE DEF r
<1>5. m'[i] = r /\ \A j \in Ids \ {i} : m'[j] = m[j]
  BY <1>0, <1>3 DEF TypeOK
<1>6. SizeOf(i)' = r.size /\ SizeOf(i) \in Int
  <2>1. SizeOf(i)' = IF m'[i] = Absent THEN 0 ELSE m'[i].size
    BY DEF SizeOf
  <2>2. SizeOf(i) \in Int
    BY <1>0 DEF SizeOf, TypeOK, Record
  <2>3. QED
    BY <1>2, <1>5, <2>1, <2>2
<1>7. bytes' - bytes = (SizeOf(i)' - SizeOf(i)) + (Unsettled(w)' - Unsettled(w))
  BY <1>0, <1>2, <1>3, <1>4, <1>6
<1>8. Settles(w) /\ Local(w)
  BY <1>0, <1>1, <1>3, <1>5, <1>7 DEF Settles, Local
<1>9. QED
  BY <1>0, <1>8, BytesStep DEF ByteInv

LEMMA WorkerSettles ==
  ASSUME ByteInv, TypeOK', NEW w \in Workers, WorkerStep(w)
  PROVE  BytesAccounted'
<1>0. /\ TypeOK /\ Others(w) /\ w \in Actors /\ bytes \in Int
      /\ loc[w] \in LocalsType /\ loc[w].cut \in Int /\ SizeOf(loc[w].id) \in Int
  BY WorkerMovesAlone DEF ByteInv, CountInv, OvershootInv, TypeOK, LocalsType, Actors, SizeOf, Record
<1>1. CASE PutEvictExpired(w) \/ PutEvictOldest(w) \/ GetDrop(w) \/ DeleteFound(w)
  BY <1>0, <1>1, RemovingSettles DEF Removes
<1>2. CASE PutStore(w)
  BY <1>0, <1>2, StoreSettles
<1>3. CASE PutLockExisting(w) \/ PutLockNew(w)
  <2>1. /\ m' = m /\ loc' = loc /\ pc[w] = "putLock"
        /\ \/ /\ pc'[w] = "putGrow" /\ m[loc[w].id] # Absent
              /\ bytes' = bytes - m[loc[w].id].size
           \/ pc'[w] = "putCapEntries" /\ bytes' = bytes
    BY <1>0, <1>3 DEF PutLockExisting, Replace, PutLockNew, Insert, Goto, TypeOK
  <2>2. bytes' - bytes = Unsettled(w)' - Unsettled(w)
    BY <1>0, <2>1 DEF Unsettled, SizeOf
  <2>3. QED
    BY <1>0, <2>1, <2>2, TableKept
<1>4. CASE PutDropEntry(w) \/ DropEntry(w)
  <2>1. /\ m' = m /\ loc' = loc /\ bytes' = bytes
        /\ pc[w] \in {"putDropEntry", "dropEntry"} /\ pc'[w] \in {"putDropBytes", "dropBytes"}
    BY <1>0, <1>4 DEF PutDropEntry, DropEntry, Goto, TypeOK
  <2>2. bytes' - bytes = Unsettled(w)' - Unsettled(w)
    BY <1>0, <2>1 DEF Unsettled
  <2>3. QED
    BY <1>0, <2>1, <2>2, TableKept
<1>5. CASE PutDropBytes(w) \/ DropBytes(w)
  <2>1. /\ m' = m /\ bytes' = bytes - loc[w].cut
        /\ pc[w] \in {"putDropBytes", "dropBytes"} /\ pc'[w] \in {"putCapEntries", "putAdd", "idle"}
    BY <1>0, <1>5 DEF PutDropBytes, DropBytes, Goto, TypeOK
  <2>2. bytes' - bytes = Unsettled(w)' - Unsettled(w)
    BY <1>0, <2>1 DEF Unsettled
  <2>3. QED
    BY <1>0, <2>1, <2>2, TableKept
<1>6. CASE PutAdd(w)
  <2>1. /\ m' = m /\ loc' = loc /\ bytes' = bytes /\ pc[w] = "putAdd" /\ pc'[w] = "putGrow"
    BY <1>0, <1>6 DEF PutAdd, Goto, TypeOK
  <2>2. m[loc[w].id] = Absent
    BY <2>1 DEF ByteInv, CountInv, InsertsAbsent, PutHolds
  <2>3. bytes' - bytes = Unsettled(w)' - Unsettled(w)
    BY <1>0, <2>1, <2>2 DEF Unsettled, SizeOf
  <2>4. QED
    BY <1>0, <2>1, <2>3, TableKept
<1>7. CASE PutGrow(w)
  <2>1. /\ m' = m /\ loc' = loc /\ pc[w] = "putGrow" /\ pc'[w] = "putStore"
        /\ bytes' = bytes + loc[w].rec.size
    BY <1>0, <1>7 DEF PutGrow, Goto, TypeOK
  <2>2. loc[w].rec.size \in Int /\ SizeOf(loc[w].id)' = SizeOf(loc[w].id)
    BY <1>0, <2>1 DEF TypeOK, PutHolds, Record, SizeOf
  <2>3. Unsettled(w) = 0 - SizeOf(loc[w].id) /\ Unsettled(w)' = loc[w].rec.size - SizeOf(loc[w].id)
    BY <2>1, <2>2 DEF Unsettled
  <2>4. bytes' - bytes = Unsettled(w)' - Unsettled(w)
    BY <1>0, <2>1, <2>2, <2>3
  <2>5. QED
    BY <1>0, <2>1, <2>4, TableKept
<1>8. CASE ~(\/ PutEvictExpired(w) \/ PutEvictOldest(w) \/ GetDrop(w) \/ DeleteFound(w)
             \/ PutStore(w) \/ PutLockExisting(w) \/ PutLockNew(w) \/ PutDropEntry(w)
             \/ PutDropBytes(w) \/ PutAdd(w) \/ PutGrow(w) \/ DropEntry(w) \/ DropBytes(w))
  <2> DEFINE Even == {"idle", "putLock", "getRead", "getCheck", "getDrop", "delLock", "closeOnce",
                      "closeWait", "putCapEntries", "putCapBytes", "putEvict", "putAdd"}
  <2>1. /\ m' = m /\ bytes' = bytes
        /\ \E from \in Even, to \in Even : Goto(w, from, to)
    BY <1>8
    DEF WorkerStep, Put, PutRefused, PutStart, PutCapEntries, PutCapBytes,
        PutEvictNone, Get, GetStart, GetAbsent, GetFound, GetHit, Serve, GetStale, GetKeep,
        Delete, DeleteStart, DeleteAbsent, Close, CloseStart, CloseFirst, CloseDone, CloseAgain,
        Begin
  <2>2. pc[w] \in Even /\ pc'[w] \in Even
    BY <1>0, <2>1 DEF Goto, TypeOK
  <2>3. Unsettled(w) = 0 /\ Unsettled(w)' = 0
    BY <2>2 DEF Unsettled
  <2>4. QED
    BY <1>0, <2>1, <2>3, TableKept
<1>9. QED
  BY <1>1, <1>2, <1>3, <1>4, <1>5, <1>6, <1>7, <1>8

LEMMA SweeperSettles ==
  ASSUME ByteInv, TypeOK', SweepWork \/ SweepStop
  PROVE  BytesAccounted'
<1>0. /\ TypeOK /\ Others(Sweeper) /\ Sweeper \in Actors /\ bytes \in Int
      /\ loc[Sweeper] \in LocalsType /\ loc[Sweeper].cut \in Int
  BY SweeperMovesAlone DEF ByteInv, CountInv, OvershootInv, TypeOK, LocalsType, Actors
<1>1. CASE SweepExpired \/ SweepEvict
  BY <1>0, <1>1, RemovingSettles DEF Removes
<1>2. CASE DropEntry(Sweeper)
  <2>1. /\ m' = m /\ loc' = loc /\ bytes' = bytes
        /\ pc[Sweeper] = "dropEntry" /\ pc'[Sweeper] = "dropBytes"
    BY <1>0, <1>2 DEF DropEntry, Goto, TypeOK
  <2>2. bytes' - bytes = Unsettled(Sweeper)' - Unsettled(Sweeper)
    BY <1>0, <2>1 DEF Unsettled
  <2>3. QED
    BY <1>0, <2>1, <2>2, TableKept
<1>3. CASE SweepDropBytes
  <2>1. /\ m' = m /\ bytes' = bytes - loc[Sweeper].cut
        /\ pc[Sweeper] = "dropBytes" /\ pc'[Sweeper] \in {"sweepScan", "sweepEvict"}
    BY <1>0, <1>3 DEF SweepDropBytes, Goto, TypeOK
  <2>2. bytes' - bytes = Unsettled(Sweeper)' - Unsettled(Sweeper)
    BY <1>0, <2>1 DEF Unsettled
  <2>3. QED
    BY <1>0, <2>1, <2>2, TableKept
<1>4. CASE ~(SweepExpired \/ SweepEvict \/ DropEntry(Sweeper) \/ SweepDropBytes)
  <2> DEFINE Even == {"off", "select", "capEntries", "capBytes", "sweepNow", "sweepLock",
                      "sweepScan", "quotaOver", "quotaCount", "quotaBytes", "quotaMean", "sweepEvict"}
  <2>1. /\ m' = m /\ bytes' = bytes
        /\ \E from \in Even, to \in Even : Goto(Sweeper, from, to)
    BY <1>4
    DEF SweepWork, SweepStop, Stop, SweepTick, SweepCapEntries, SweepCapBytes, SweepNow,
        SweepLock, SweepScanned, QuotaOver, QuotaCount, QuotaBytes, QuotaMean, SweepNext, MoveOn
  <2>2. pc[Sweeper] \in Even /\ pc'[Sweeper] \in Even
    BY <1>0, <2>1 DEF Goto, TypeOK
  <2>3. Unsettled(Sweeper) = 0 /\ Unsettled(Sweeper)' = 0
    BY <2>2 DEF Unsettled
  <2>4. QED
    BY <1>0, <2>1, <2>3, TableKept
<1>5. QED
  BY <1>1, <1>2, <1>3, <1>4

LEMMA InitBytes == Init => BytesAccounted
<1> SUFFICES ASSUME Init PROVE BytesAccounted
  OBVIOUS
<1>1. Sizes \in [Ids -> Int] /\ BytesInHand \in [Actors -> Int]
  BY InitTypeOK, TermsInt
<1>2. (\A i \in Ids : Sizes[i] = 0) /\ \A a \in Actors : BytesInHand[a] = 0
  BY DEF Init, Sizes, SizeOf, BytesInHand, Unsettled
<1>3. IsFiniteSet(Ids) /\ IsFiniteSet(Actors)
  BY FS_AddElement DEF Actors
<1>4. SumFunction(Sizes) = 0 /\ SumFunction(BytesInHand) = 0
  BY <1>1, <1>2, <1>3, SumOfZeros
<1>5. QED
  BY <1>4 DEF Init, BytesAccounted

\* The byte counter is the sum of the live sizes up to the operations in flight,
\* for any number of shards, ids and goroutines: no interleaving of replacement,
\* eviction, expiry and Delete lets Stats.Bytes drift from what is stored.
THEOREM BytesExact == Spec => []BytesAccounted
<1>1. Init => ByteInv
  BY InitCount, InitBytes DEF ByteInv
<1>2. ByteInv /\ [Next]_vars => ByteInv'
  <2> SUFFICES ASSUME ByteInv, [Next]_vars PROVE ByteInv'
    OBVIOUS
  <2>1. CountInv' /\ TypeOK'
    BY NextCount DEF ByteInv, CountInv, OvershootInv
  <2>2. ASSUME m' = m, bytes' = bytes, pc' = pc, loc' = loc PROVE BytesAccounted'
    BY <2>2 DEF ByteInv, BytesAccounted, Sizes, SizeOf, BytesInHand, Unsettled
  <2>3. CASE Elapse \/ UNCHANGED vars
    BY <2>1, <2>2, <2>3 DEF ByteInv, Elapse, vars
  <2>4. QED
    BY <2>1, <2>3, WorkerSettles, SweeperSettles DEF Next, ByteInv
<1>3. QED
  BY <1>1, <1>2, PTL DEF Spec, ByteInv

-----------------------------------------------------------------------------
(* One undisturbed cycle of the sweeper *)

\* How far the rotation is from shard s, and the shards it has still to visit
\* before the cycle is complete.
Distance(s) == IF s >= sw.next THEN s - sw.next ELSE s - sw.next + NumShards
Unswept == {s \in Shards : Distance(s) < NumShards - quiet}

\* The shard being swept has given up its share of the overshoot.
HandedOver ==
  \/ pc[Sweeper] = "dropBytes" /\ loc[Sweeper].op # "expire"
  \/ pc[Sweeper] = "sweepEvict" /\ sw.need <= 0

\* The shards that have still to give one entry each.
Pending == (Settled \cap Unswept) \ (IF HandedOver THEN {sw.next} ELSE {})

QuotaKnown == {"quotaCount", "quotaBytes", "quotaMean"}

\* While no worker moves, every shard swept takes one entry off the overshoot.
CycleInv ==
  /\ quiet \in -1 .. NumShards
  /\ quiet >= 0 =>
       /\ entries <= MaxEntries \/ entries <= MaxEntries - 1 + Cardinality(Pending)
       /\ pc[Sweeper] \in QuotaKnown => (entries > MaxEntries => sw.need > 0)
       /\ pc[Sweeper] \in QuotaKnown \cup {"quotaOver"} => Live(sw.next) # {}

LEMMA PendingFinite ==
  ASSUME NEW P \in SUBSET Shards
  PROVE  IsFiniteSet(P) /\ Cardinality(P) \in Nat
  BY SettledFinite

\* What a sweeper's step may do to the count and to the shards still to give.
LEMMA LessPending ==
  ASSUME TypeOK, TypeOK', NEW P \in SUBSET Shards, NEW Q \in SUBSET Shards,
         entries <= MaxEntries \/ entries <= MaxEntries - 1 + Cardinality(P),
         \/ entries' = entries /\ P \subseteq Q
         \/ entries' = entries - 1 /\ \E s \in Shards : P \ {s} \subseteq Q
  PROVE  entries' <= MaxEntries \/ entries' <= MaxEntries - 1 + Cardinality(Q)
<1>1. /\ IsFiniteSet(P) /\ Cardinality(P) \in Nat
      /\ IsFiniteSet(Q) /\ Cardinality(Q) \in Nat
  BY PendingFinite
<1>2. entries \in Int
  BY DEF TypeOK
<1>3. P \subseteq Q => Cardinality(P) <= Cardinality(Q)
  BY <1>1, FS_Subset
<1>4. ASSUME NEW s \in Shards, P \ {s} \subseteq Q PROVE Cardinality(P) - 1 <= Cardinality(Q)
  <2>1. Cardinality(P \ {s}) <= Cardinality(Q)
    BY <1>1, <1>4, FS_Subset
  <2>2. Cardinality(P \ {s}) = IF s \in P THEN Cardinality(P) - 1 ELSE Cardinality(P)
    BY <1>1, FS_RemoveElement
  <2>3. QED
    BY <1>1, <2>1, <2>2
<1>5. QED
  BY <1>1, <1>2, <1>3, <1>4

\* A sweeper's step leaves the other shards as settled as they were.
LEMMA SweeperElsewhere ==
  ASSUME OvershootInv, SweepWork \/ SweepStop
  PROVE  /\ Others(Sweeper) /\ Elsewhere(Sweeper)
         /\ \A t \in Shards \ {sw.next} : SettledAt(t)' <=> SettledAt(t)
<1>0. TypeOK /\ LockOwned /\ Sweeper \in Actors /\ ShardOfActor(Sweeper) = sw.next
  BY DEF OvershootInv, Actors, ShardOfActor
<1>1. Others(Sweeper)
  BY <1>0, SweeperMovesAlone
<1>2. lock' = lock \/ Acquire(Sweeper) \/ Release(Sweeper)
  BY DEF SweepWork, SweepStop, Stop, SweepTick, SweepCapEntries, SweepCapBytes, SweepNow,
         SweepLock, SweepExpired, SweepScanned, QuotaOver, QuotaCount, QuotaBytes, QuotaMean,
         SweepEvict, DropEntry, SweepDropBytes, SweepNext, MoveOn
<1>3. \A i \in Ids : ShardOf[i] # sw.next => m'[i] = m[i]
  <2>1. CASE SweepExpired \/ SweepEvict
    <3>1. PICK i \in Live(sw.next), op \in {"expire", "evict"} : Remove(Sweeper, i, op)
      BY <2>1 DEF SweepExpired, SweepEvict, Oldest, Dead
    <3>2. QED
      BY <1>0, <3>1, RemoveEffect DEF Live
  <2>2. CASE ~(SweepExpired \/ SweepEvict)
    BY <2>2
    DEF SweepWork, SweepStop, Stop, SweepTick, SweepCapEntries, SweepCapBytes, SweepNow,
        SweepLock, SweepScanned, QuotaOver, QuotaCount, QuotaBytes, QuotaMean, DropEntry,
        SweepDropBytes, SweepNext, MoveOn
  <2>3. QED
    BY <2>1, <2>2
<1>4. Elsewhere(Sweeper)
  BY <1>0, <1>2, <1>3 DEF Elsewhere, Acquire, Release, TypeOK
<1>5. QED
  BY <1>0, <1>1, <1>4, OtherShardsSettled

\* In the shard it holds, the sweeper sees what is settled.
LEMMA SettledForSweeper ==
  ASSUME OvershootInv, pc[Sweeper] \in Holds
  PROVE  SettledAt(sw.next) <=> Live(sw.next) # {} \/ pc[Sweeper] = "dropEntry"
<1>1. TypeOK /\ LockOwned /\ Sweeper \in Actors /\ ShardOfActor(Sweeper) = sw.next
  BY DEF OvershootInv, Actors, ShardOfActor
<1>2. sw.next \in Shards /\ lock[sw.next] = Sweeper
  BY <1>1, OwnShard DEF LockOwned
<1>3. pc[Sweeper] \in SweeperLabels
  BY <1>1 DEF TypeOK
<1>4. QED
  BY <1>1, <1>2, <1>3, SettledHere DEF HasInHand, ReservedBy, SweeperLabels, SweepHolds, DropHolds

LEMMA SettledForSweeperNext ==
  ASSUME OvershootInv', pc'[Sweeper] \in Holds, NEW s \in Shards, s = sw'.next
  PROVE  SettledAt(s)' <=> Live(s)' # {} \/ pc'[Sweeper] = "dropEntry"
<1>1. TypeOK' /\ LockOwned' /\ Sweeper \in Actors /\ ShardOfActor(Sweeper)' = s
  BY DEF OvershootInv, Actors, ShardOfActor
<1>2. lock'[s] = Sweeper
  BY <1>1 DEF LockOwned
<1>3. pc'[Sweeper] \in SweeperLabels
  BY <1>1 DEF TypeOK
<1>4. QED
  BY <1>1, <1>2, <1>3, SettledHereNext
  DEF HasInHand, ReservedBy, SweeperLabels, SweepHolds, DropHolds

\* The history variable moves with the sweeper.
LEMMA QuietMoves ==
  ASSUME SweeperMoves, ~(entries' <= MaxEntries)
  PROVE  /\ pc[Sweeper] = "sweepNow" /\ quiet < 0 => quiet' = 0
         /\ SweepNext /\ quiet \in 0 .. NumShards - 1 => quiet' = quiet + 1
         /\ /\ ~(pc[Sweeper] = "sweepNow" /\ quiet < 0)
            /\ ~(SweepNext /\ quiet \in 0 .. NumShards - 1)
            => quiet' = quiet
<1>1. ~(pc[Sweeper] = "sweepNow" /\ SweepNext)
  BY DEF SweepNext, MoveOn, Goto
<1>2. QED
  BY <1>1 DEF SweeperMoves

\* The shards still to visit: all at first, one less after each sweep.
LEMMA UnsweptAtFirst ==
  ASSUME sw.next \in Shards, quiet = 0
  PROVE  Unswept = Shards
  BY DEF Unswept, Distance, Shards

LEMMA UnsweptInTheEnd ==
  ASSUME sw.next \in Shards, quiet = NumShards
  PROVE  Unswept = {}
  BY DEF Unswept, Distance, Shards

LEMMA UnsweptAfterOne ==
  ASSUME sw.next \in Shards, quiet \in 0 .. NumShards - 1,
         sw'.next = (sw.next + 1) % NumShards, quiet' = quiet + 1
  PROVE  Unswept' = Unswept \ {sw.next}
<1>0. PICK n \in Shards : n = sw.next
  OBVIOUS
<1>1. sw'.next = IF n = NumShards - 1 THEN 0 ELSE n + 1
  BY <1>0 DEF Shards
<1>2. ASSUME NEW s \in Shards
      PROVE  /\ Distance(s) \in Int
             /\ s # n => Distance(s)' = Distance(s) - 1
             /\ s = n => Distance(s) = 0 /\ Distance(s)' = NumShards - 1
  <2>1. /\ s \in Int /\ s >= 0 /\ s <= NumShards - 1
        /\ n \in Int /\ n >= 0 /\ n <= NumShards - 1 /\ NumShards \in Int
    BY DEF Shards
  <2>2. CASE n = NumShards - 1
    BY <1>0, <1>1, <2>1, <2>2 DEF Distance
  <2>3. CASE n # NumShards - 1
    BY <1>0, <1>1, <2>1, <2>3 DEF Distance
  <2>4. QED
    BY <2>2, <2>3
<1>3. ASSUME NEW s \in Shards
      PROVE  Distance(s)' < NumShards - quiet' <=> s # n /\ Distance(s) < NumShards - quiet
  BY <1>2
<1>4. QED
  BY <1>0, <1>3 DEF Unswept

\* What is left to show of a step that stays on the shard.
LEMMA SameShard ==
  ASSUME OvershootInv, OvershootInv', CycleInv, SweepWork \/ SweepStop,
         quiet >= 0, quiet' = quiet, sw'.next = sw.next,
         \/ /\ entries' = entries
            /\ SettledAt(sw.next) /\ ~HandedOver => SettledAt(sw.next)' /\ ~HandedOver'
         \/ entries' = entries - 1
  PROVE  entries' <= MaxEntries \/ entries' <= MaxEntries - 1 + Cardinality(Pending')
<1>1. Unswept' = Unswept
  BY DEF Unswept, Distance
<1>2. \A t \in Shards \ {sw.next} : t \in Settled' <=> t \in Settled
  BY SweeperElsewhere DEF Settled
<1>3. Pending \in SUBSET Shards /\ Pending' \in SUBSET Shards
  BY DEF Pending, Settled
<1>4. Pending \ {sw.next} \subseteq Pending'
  BY <1>1, <1>2 DEF Pending, Settled
<1>5. (SettledAt(sw.next) /\ ~HandedOver => SettledAt(sw.next)' /\ ~HandedOver')
      => Pending \subseteq Pending'
  BY <1>1, <1>2 DEF Pending, Settled
<1>6. sw.next \in Shards /\ TypeOK /\ TypeOK'
  BY DEF OvershootInv, TypeOK, SweepType
<1>7. entries <= MaxEntries \/ entries <= MaxEntries - 1 + Cardinality(Pending)
  BY DEF CycleInv
<1>8. \/ entries' = entries /\ Pending \subseteq Pending'
      \/ entries' = entries - 1 /\ \E s \in Shards : Pending \ {s} \subseteq Pending'
  BY <1>4, <1>5, <1>6
<1>9. QED
  BY <1>3, <1>6, <1>7, <1>8, LessPending

\* A share of a positive need is positive while the shard holds something.
LEMMA SharePositive ==
  ASSUME NEW need \in Int, need > 0, NEW shardLen \in Nat, shardLen > 0
  PROVE  Share(need, shardLen) > 0
  BY DEF Share, ShareOf

LEMMA LiveCount ==
  ASSUME NEW s \in Shards, Live(s) # {}
  PROVE  Cardinality(Live(s)) \in Nat /\ Cardinality(Live(s)) > 0
  BY LiveFinite, FS_EmptySet

\* The sweeper's steps on a shard, while no worker moves.
LEMMA CycleOnShard ==
  ASSUME OvershootInv, OvershootInv', CycleInv, SweepWork \/ SweepStop, ~SweepNext,
         quiet >= 0, quiet' = quiet
  PROVE  CycleInv'
<1>a. PICK s \in Shards : s = sw.next
  BY DEF OvershootInv, TypeOK, SweepType
<1> USE <1>a
<1>0. /\ TypeOK /\ TypeOK' /\ Sweeper \in Actors /\ s \in Shards /\ sw \in SweepType
      /\ entries \in Int
  BY DEF OvershootInv, TypeOK, SweepType, Actors
<1>1. Others(Sweeper) /\ sw'.next = s
  BY <1>0, SweeperElsewhere
  DEF SweepWork, SweepStop, Stop, SweepTick, SweepCapEntries, SweepPlan, SweepCapBytes, SweepNow,
      SweepLock, SweepExpired, SweepScanned, QuotaOver, QuotaCount, QuotaBytes, QuotaMean,
      SweepEvict, DropEntry, SweepDropBytes, SweepType
<1>2. pc[Sweeper] \in Holds => (SettledAt(s) <=> Live(s) # {} \/ pc[Sweeper] = "dropEntry")
  BY SettledForSweeper
<1>3. pc'[Sweeper] \in Holds => (SettledAt(s)' <=> Live(s)' # {} \/ pc'[Sweeper] = "dropEntry")
  BY <1>1, SettledForSweeperNext
<1>4. quiet' \in -1 .. NumShards /\ quiet' >= 0
  BY DEF CycleInv
<1>5. SUFFICES /\ \/ /\ entries' = entries
                     /\ SettledAt(s) /\ ~HandedOver => SettledAt(s)' /\ ~HandedOver'
                  \/ entries' = entries - 1
                  \/ entries' = entries /\ entries <= MaxEntries
               /\ pc'[Sweeper] \in QuotaKnown => (entries' > MaxEntries => sw'.need > 0)
               /\ pc'[Sweeper] \in QuotaKnown \cup {"quotaOver"} => Live(s)' # {}
  BY <1>1, <1>4, SameShard DEF CycleInv
<1>6. CASE SweepStop \/ SweepTick \/ SweepCapEntries \/ SweepCapBytes \/ SweepNow
  <2>1. /\ m' = m /\ lock' = lock /\ entries' = entries
        /\ pc[Sweeper] \in {"select", "capEntries", "capBytes", "sweepNow"}
        /\ pc'[Sweeper] \in {"off", "capEntries", "capBytes", "sweepNow", "sweepLock"}
    BY <1>0, <1>6 DEF SweepStop, Stop, SweepTick, SweepCapEntries, SweepCapBytes, SweepNow, Goto,
                      TypeOK
  <2>2. lock[s] # Sweeper
    BY <1>0, <2>1 DEF OvershootInv, LockOwned, Holds, PutHolds, DropHolds, SweepHolds
  <2>3. lock[s] # NoOne => pc'[lock[s]] = pc[lock[s]] /\ loc'[lock[s]] = loc[lock[s]]
    BY <1>0, <1>1, <2>2 DEF Others, TypeOK
  <2>4. SettledAt(s) <=> SettledAt(s)'
    BY <1>1, <2>1, <2>3 DEF SettledAt, Live, Reserved, InHand
  <2>5. QED
    BY <2>1, <2>4 DEF HandedOver, QuotaKnown
<1>7. CASE SweepLock
  <2>1. /\ m' = m /\ entries' = entries /\ lock[s] = NoOne
        /\ pc[Sweeper] = "sweepLock" /\ pc'[Sweeper] = "sweepScan"
    BY <1>0, <1>7 DEF SweepLock, Acquire, ShardOfActor, Goto, TypeOK
  <2>2. SettledAt(s) => Live(s)' # {}
    BY <1>1, <2>1 DEF SettledAt, InHand, Live
  <2>3. QED
    BY <1>3, <2>1, <2>2 DEF HandedOver, QuotaKnown, Holds, SweepHolds
<1>8. CASE SweepExpired \/ SweepEvict
  <2>1. /\ entries' = entries /\ pc[Sweeper] \in {"sweepScan", "sweepEvict"}
        /\ pc'[Sweeper] = "dropEntry"
    BY <1>0, <1>8 DEF SweepExpired, SweepEvict, Goto, TypeOK
  <2>2. QED
    BY <1>3, <2>1 DEF HandedOver, QuotaKnown, Holds, DropHolds
<1>9. CASE SweepScanned
  <2>1. /\ m' = m /\ entries' = entries /\ pc[Sweeper] = "sweepScan"
        /\ pc'[Sweeper] = IF Live(s) = {} THEN "sweepEvict" ELSE "quotaOver"
    BY <1>0, <1>9 DEF SweepScanned, Goto, TypeOK
  <2>2. Live(s)' = Live(s)
    BY <1>1, <2>1 DEF Live
  <2>3. QED
    BY <1>2, <1>3, <2>1, <2>2 DEF HandedOver, QuotaKnown, Holds, SweepHolds
<1>10. CASE QuotaOver \/ QuotaCount
  <2>1. /\ m' = m /\ entries' = entries
        /\ \/ pc[Sweeper] = "quotaOver" /\ pc'[Sweeper] = "quotaCount"
           \/ pc[Sweeper] = "quotaCount" /\ pc'[Sweeper] = "quotaBytes"
    BY <1>0, <1>10 DEF QuotaOver, QuotaCount, Goto, TypeOK
  <2>2. Live(s)' = Live(s) /\ Live(s) # {}
    BY <1>1, <2>1 DEF Live, CycleInv, QuotaKnown
  <2>3. entries > MaxEntries => sw'.need > 0
    <3>1. CASE QuotaOver
      BY <1>0, <3>1 DEF QuotaOver, SweepType
    <3>2. CASE QuotaCount
      BY <1>0, <3>2 DEF QuotaCount, SweepType, CycleInv, QuotaKnown, Goto
    <3>3. QED
      BY <1>10, <3>1, <3>2
  <2>4. QED
    BY <1>3, <2>1, <2>2, <2>3 DEF HandedOver, Holds, SweepHolds
<1>11. CASE QuotaBytes \/ QuotaMean
  <2>1. /\ m' = m /\ entries' = entries /\ pc[Sweeper] \in {"quotaBytes", "quotaMean"}
        /\ pc'[Sweeper] \in {"quotaMean", "sweepEvict"}
    BY <1>0, <1>11 DEF QuotaBytes, QuotaMean, Goto, TypeOK
  <2>2. Live(s)' = Live(s) /\ Live(s) # {}
    BY <1>1, <2>1 DEF Live, CycleInv, QuotaKnown
  <2>3. Cardinality(Live(s)) \in Nat /\ Cardinality(Live(s)) > 0
    BY <1>0, <2>2, LiveCount
  <2>4. entries > MaxEntries => sw.need > 0
    BY <2>1 DEF CycleInv, QuotaKnown
  <2>5. sw.need \in Int /\ sw.count \in Int /\ sw.over \in Int
    BY <1>0 DEF SweepType
  <2>6. entries > MaxEntries => sw'.need > 0
    <3>1. CASE QuotaBytes
      <4>1. entries > MaxEntries => Share(sw.need, Cardinality(Live(s))) > 0
        BY <2>3, <2>4, <2>5, SharePositive
      <4>2. sw'.need = sw.need \/ sw'.need = Share(sw.need, Cardinality(Live(s)))
        BY <1>0, <3>1 DEF QuotaBytes, SweepType
      <4>3. QED
        BY <2>4, <4>1, <4>2
    <3>2. CASE QuotaMean
      <4> DEFINE mean  == IF bytes \div sw.count < 1 THEN 1 ELSE bytes \div sw.count
                 count == sw.over \div mean
                 need  == IF count > sw.need THEN count ELSE sw.need
      <4>1. sw.count > 0 /\ bytes \in Int
        BY <1>0, <3>2 DEF QuotaMean, Goto, TypeOK
      <4>2. mean \in Nat \ {0}
        BY <2>5, <4>1
      <4>3. count \in Int
        BY <2>5, <4>2
      <4>4. need \in Int /\ need >= sw.need
        BY <2>5, <4>3
      <4>5. sw' = [sw EXCEPT !.count = 0, !.over = 0, !.need = Share(need, Cardinality(Live(s)))]
        BY <3>2 DEF QuotaMean
      <4> HIDE DEF need
      <4>6. sw'.need = Share(need, Cardinality(Live(s)))
        BY <1>0, <4>5 DEF SweepType
      <4>7. entries > MaxEntries => need > 0
        BY <2>4, <2>5, <4>4
      <4>8. QED
        BY <2>3, <4>4, <4>6, <4>7, SharePositive
    <3>3. QED
      BY <1>11, <3>1, <3>2
  <2>7. sw'.need \in Int
    BY <1>0 DEF SweepType, OvershootInv, TypeOK
  <2>8. entries <= MaxEntries \/ ~HandedOver'
    BY <1>0, <2>1, <2>6, <2>7 DEF HandedOver
  <2>9. SettledAt(s)'
    BY <1>3, <2>1, <2>2 DEF Holds, SweepHolds
  <2>10. QED
    BY <1>0, <2>1, <2>2, <2>6, <2>8, <2>9
<1>12. CASE DropEntry(Sweeper)
  <2>1. entries' = entries - 1 /\ pc'[Sweeper] = "dropBytes"
    BY <1>0, <1>12 DEF DropEntry, Goto, TypeOK
  <2>2. QED
    BY <2>1 DEF QuotaKnown
<1>13. CASE SweepDropBytes
  <2>1. /\ m' = m /\ entries' = entries /\ sw' = sw /\ pc[Sweeper] = "dropBytes"
        /\ pc'[Sweeper] = IF loc[Sweeper].op = "expire" THEN "sweepScan" ELSE "sweepEvict"
    BY <1>0, <1>13 DEF SweepDropBytes, Goto, TypeOK
  <2>2. Live(s)' = Live(s)
    BY <1>1, <2>1 DEF Live
  <2>3. QED
    BY <1>2, <1>3, <2>1, <2>2 DEF HandedOver, QuotaKnown, Holds, DropHolds, SweepHolds
<1>14. QED
  BY <1>6, <1>7, <1>8, <1>9, <1>10, <1>11, <1>12, <1>13 DEF SweepWork

LEMMA CycleNextShard ==
  ASSUME OvershootInv, OvershootInv', CycleInv, SweepNext, quiet >= 0,
         quiet \in 0 .. NumShards - 1 => quiet' = quiet + 1,
         quiet = NumShards => quiet' = quiet
  PROVE  CycleInv'
<1>0. /\ TypeOK /\ TypeOK' /\ Sweeper \in Actors /\ sw.next \in Shards /\ sw \in SweepType
      /\ sw'.next \in Shards /\ quiet \in -1 .. NumShards
  BY DEF OvershootInv, TypeOK, SweepType, Actors, CycleInv
<1>1. /\ entries' = entries /\ sw.need <= 0 /\ pc[Sweeper] = "sweepEvict"
      /\ pc'[Sweeper] \in {"sweepNow", "select"} /\ sw'.next = (sw.next + 1) % NumShards
  BY <1>0 DEF SweepNext, MoveOn, Goto, TypeOK, SweepType
<1>2. \A t \in Shards \ {sw.next} : t \in Settled' <=> t \in Settled
  BY SweeperElsewhere DEF Settled, SweepWork
<1>3. HandedOver /\ ~HandedOver'
  BY <1>1 DEF HandedOver
<1>4. Pending \in SUBSET Shards /\ Pending' \in SUBSET Shards
  BY DEF Pending, Settled
<1>5. Pending \subseteq Pending'
  <2>1. CASE quiet \in 0 .. NumShards - 1
    <3>1. Unswept' = Unswept \ {sw.next}
      BY <1>0, <1>1, <2>1, UnsweptAfterOne
    <3>2. QED
      BY <1>2, <1>3, <3>1 DEF Pending, Settled
  <2>2. CASE quiet = NumShards
    BY <1>0, <2>2, UnsweptInTheEnd DEF Pending
  <2>3. QED
    BY <1>0, <2>1, <2>2
<1>6. entries <= MaxEntries \/ entries <= MaxEntries - 1 + Cardinality(Pending)
  BY DEF CycleInv
<1>7. entries' <= MaxEntries \/ entries' <= MaxEntries - 1 + Cardinality(Pending')
  BY <1>0, <1>1, <1>4, <1>5, <1>6, LessPending
<1>8. quiet' \in -1 .. NumShards
  BY <1>0
<1>9. QED
  BY <1>1, <1>7, <1>8 DEF CycleInv, QuotaKnown

LEMMA CycleBegins ==
  ASSUME OvershootInv', SweepNow, TypeOK, quiet' = 0
  PROVE  CycleInv'
<1>1. pc'[Sweeper] = "sweepLock"
  BY DEF SweepNow, Goto, TypeOK, Actors
<1>2. Unswept' = Shards
  <2>1. sw'.next \in Shards
    BY DEF OvershootInv, TypeOK, SweepType
  <2>2. \A s \in Shards : Distance(s)' < NumShards - quiet'
    BY <2>1 DEF Distance, Shards
  <2>3. QED
    BY <2>2 DEF Unswept
<1>3. Pending' = Settled'
  BY <1>1, <1>2 DEF Pending, HandedOver, Settled
<1>4. QED
  BY <1>1, <1>3 DEF CycleInv, QuotaKnown, OvershootInv, OvershootPerShard

LEMMA NextCycle == OvershootInv /\ OvershootInv' /\ CycleInv /\ [HNext]_hvars => CycleInv'
<1> SUFFICES ASSUME OvershootInv, OvershootInv', CycleInv, [HNext]_hvars PROVE CycleInv'
  OBVIOUS
<1>1. CASE WorkersMove
  BY <1>1 DEF WorkersMove, CycleInv
<1>2. CASE SweeperMoves /\ ~(entries' <= MaxEntries)
  <2>1. CASE quiet >= 0 /\ SweepNext
    BY <1>2, <2>1, QuietMoves, CycleNextShard DEF SweepNext, MoveOn, Goto
  <2>2. CASE quiet >= 0 /\ ~SweepNext
    <3>1. quiet' = quiet
      <4>1. ~(quiet < 0)
        BY <2>2 DEF CycleInv
      <4>2. QED
        BY <1>2, <2>2, <4>1, QuietMoves
    <3>2. QED
      BY <1>2, <2>2, <3>1, CycleOnShard DEF SweeperMoves
  <2>3. CASE quiet < 0 /\ pc[Sweeper] = "sweepNow"
    <3>1. SweepNow
      BY <1>2, <2>3
      DEF SweeperMoves, SweepWork, SweepStop, Stop, SweepTick, SweepCapEntries, SweepCapBytes,
          SweepLock, SweepExpired, SweepScanned, QuotaOver, QuotaCount, QuotaBytes, QuotaMean,
          SweepEvict, DropEntry, SweepDropBytes, SweepNext, MoveOn, Goto
    <3>2. QED
      BY <1>2, <2>3, <3>1, QuietMoves, CycleBegins DEF OvershootInv
  <2>4. CASE quiet < 0 /\ pc[Sweeper] # "sweepNow"
    <3>1. quiet' = quiet
      BY <1>2, <2>4, QuietMoves
    <3>2. QED
      BY <2>4, <3>1 DEF CycleInv
  <2>5. QED
    BY <2>1, <2>2, <2>3, <2>4 DEF CycleInv
<1>3. ASSUME UNCHANGED <<m, lock, entries, pc, loc, sw, quiet>> PROVE CycleInv'
  BY <1>3 DEF CycleInv, Pending, HandedOver, Unswept, Distance, Settled, SettledAt, InHand,
              Reserved, Live
<1>4. CASE (Elapse /\ UNCHANGED quiet) \/ UNCHANGED hvars
  BY <1>3, <1>4 DEF Elapse, hvars, vars
<1>5. CASE SweeperMoves /\ entries' <= MaxEntries
  BY <1>5 DEF SweeperMoves, CycleInv
<1>6. QED
  BY <1>1, <1>2, <1>4, <1>5 DEF HNext

\* "One sweep cycle brings the store back under the cap": once every shard has
\* been swept and no call was under way, the count is back within MaxEntries,
\* for any number of shards and any overshoot the racing Puts left behind.
THEOREM CycleRestoresEntries == HSpec => []SweepCycleRestoresEntries
<1>1. HInit => OvershootInv /\ CycleInv
  BY InitOvershoot DEF HInit, CycleInv, Shards
<1>2. OvershootInv /\ [HNext]_hvars => OvershootInv'
  <2>1. [HNext]_hvars => [Next]_vars
    BY DEF HNext, hvars, WorkersMove, SweeperMoves, Next
  <2>2. QED
    BY <2>1, NextOvershoot
<1>3. OvershootInv /\ CycleInv => SweepCycleRestoresEntries
  <2> SUFFICES ASSUME OvershootInv, CycleInv, quiet = NumShards PROVE entries <= MaxEntries
    BY DEF SweepCycleRestoresEntries
  <2>1. Pending = {}
    BY UnsweptInTheEnd DEF Pending, OvershootInv, TypeOK, SweepType
  <2>2. Cardinality(Pending) = 0
    BY <2>1, FS_EmptySet
  <2>3. QED
    BY <2>2 DEF CycleInv, OvershootInv, TypeOK
<1>4. QED
  BY <1>1, <1>2, <1>3, NextCycle, PTL DEF HSpec
=============================================================================
