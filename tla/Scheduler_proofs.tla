------------------------- MODULE Scheduler_proofs --------------------------
(***************************************************************************)
(* Proofs about the scheduling simulation, for any process table and any    *)
(* time quanta, and any sequence of runs on the same table.                 *)
(* The invariant says what the chart, the clock and the figures have to do  *)
(* with what is left of each burst, for the tables that leave no gap.       *)
(***************************************************************************)
EXTENDS Scheduler, SequenceTheorems, FiniteSetTheorems, TLAPS

-----------------------------------------------------------------------------
(* Sums *)

\* A set with a bad subset has a least one.
LEMMA LeastBad ==
    ASSUME NEW S, IsFiniteSet(S), NEW Bad \in SUBSET (SUBSET S), Bad # {}
    PROVE  \E T \in Bad : \A U \in SUBSET T : U # T => U \notin Bad
<1>1. Bad \subseteq FiniteSubsetsOf(S)
  BY FS_FiniteSubsetsOfFinite
<1>2. IsWellFoundedOn(StrictSubsetOrdering(S), FiniteSubsetsOf(S))
  BY FS_StrictSubsetOrderingWellFounded
<1>3. PICK T \in Bad : \A U \in Bad : <<U, T>> \notin StrictSubsetOrdering(S)
  BY <1>1, <1>2, WFMin
<1> QED  BY <1>3 DEF StrictSubsetOrdering

\* F[s] is the sum of f over s.
IsSum(F, f, S) ==
    /\ F \in [SUBSET S -> Int]
    /\ F[{}] = 0
    /\ \A s \in SUBSET S : \A x \in s : F[s] = f[x] + F[s \ {x}]

LEMMA SumExists ==
    ASSUME NEW S, IsFiniteSet(S), NEW f, \A x \in S : f[x] \in Int
    PROVE  \E F : IsSum(F, f, S)
<1> DEFINE Bad == {E \in SUBSET S : ~ \E F : IsSum(F, f, E)}
<1> SUFFICES ASSUME Bad # {}  PROVE FALSE
  OBVIOUS
<1>1. PICK E \in Bad : \A U \in SUBSET E : U # E => U \notin Bad
  <2> HIDE DEF Bad
  <2>1. Bad \in SUBSET (SUBSET S)
    BY DEF Bad
  <2> QED BY <2>1, LeastBad
<1>2. E # {}
  <2> SUFFICES ASSUME E = {}  PROVE FALSE
    OBVIOUS
  <2> DEFINE F == [s \in SUBSET E |-> 0]
  <2>1. IsSum(F, f, E)
    BY DEF IsSum
  <2> QED  BY <2>1
<1>3. PICK x \in E : TRUE
  BY <1>2
<1>4. PICK F : IsSum(F, f, E \ {x})
  BY <1>1, <1>3
<1> DEFINE G == [s \in SUBSET E |-> IF x \in s THEN f[x] + F[s \ {x}] ELSE F[s]]
<1>5. \A s \in SUBSET E : s \ {x} \in SUBSET (E \ {x}) /\ (x \notin s => s \in SUBSET (E \ {x}))
  OBVIOUS
<1>6. \A s \in SUBSET (E \ {x}) : F[s] \in Int
  BY <1>4 DEF IsSum
<1>7. f[x] \in Int
  BY <1>3
<1>8. G \in [SUBSET E -> Int]
  BY <1>5, <1>6, <1>7
<1>9. G[{}] = 0
  BY <1>4 DEF IsSum
<1>10. ASSUME NEW s \in SUBSET E, NEW y \in s  PROVE G[s] = f[y] + G[s \ {y}]
  <2>1. f[y] \in Int
    OBVIOUS
  <2>2. CASE y = x
    BY <2>2
  <2>3. CASE y # x /\ x \notin s
    BY <2>3, <1>4, <1>5 DEF IsSum
  <2>4. CASE y # x /\ x \in s
    <3>1. F[s \ {x}] = f[y] + F[(s \ {x}) \ {y}]
      BY <2>4, <1>4, <1>5 DEF IsSum
    <3>2. G[s] = f[x] + F[s \ {x}]
      BY <2>4
    <3>3. G[s \ {y}] = f[x] + F[(s \ {y}) \ {x}]
      BY <2>4
    <3>4. F[(s \ {y}) \ {x}] = F[(s \ {x}) \ {y}]
      <4>1. (s \ {y}) \ {x} = (s \ {x}) \ {y}
        OBVIOUS
      <4> QED  BY <4>1
    <3>5. F[(s \ {x}) \ {y}] \in Int
      <4>1. (s \ {x}) \ {y} \in SUBSET (E \ {x})
        OBVIOUS
      <4> QED  BY <4>1, <1>6
    <3> DEFINE g == G[s]   h == G[s \ {y}]   c == F[(s \ {x}) \ {y}]
    <3>6. g = f[x] + (f[y] + c) /\ h = f[x] + c
      BY <3>1, <3>2, <3>3, <3>4
    <3> HIDE DEF g, h, c
    <3>7. c \in Int
      BY <3>5 DEF c
    <3>8. g = f[y] + h
      BY <3>6, <3>7, <2>1, <1>7
    <3> QED  BY <3>8 DEF g, h
  <2> QED  BY <2>2, <2>3, <2>4
<1>11. IsSum(G, f, E)
  <2> HIDE DEF G
  <2> QED  BY <1>8, <1>9, <1>10 DEF IsSum
<1> QED  BY <1>11

LEMMA SumIs ==
    ASSUME NEW S, IsFiniteSet(S), NEW f, NEW F, IsSum(F, f, S)
    PROVE  SumFunctionOnSet(f, S) = F[S]
<1> DEFINE Iter(g) == [s \in SUBSET S |->
                         IF s = {} THEN 0
                         ELSE f[CHOOSE x \in s : TRUE] + g[s \ {CHOOSE x \in s : TRUE}]]
           it == CHOOSE g : g = Iter(g)
<1>1. SumFunctionOnSet(f, S) = it[S]
  BY DEF SumFunctionOnSet, FoldFunctionOnSet, MapThenFoldSet
<1>2. F = Iter(F)
  <2>1. \A s \in SUBSET S : s # {} => F[s] = f[CHOOSE x \in s : TRUE] + F[s \ {CHOOSE x \in s : TRUE}]
    BY DEF IsSum
  <2> QED  BY <2>1 DEF IsSum
<1>3. it = Iter(it)
  BY <1>2
<1> DEFINE Bad == {s \in SUBSET S : it[s] # F[s]}
<1>4. Bad = {}
  <2> SUFFICES ASSUME Bad # {}  PROVE FALSE
    OBVIOUS
  <2>1. PICK T \in Bad : \A U \in SUBSET T : U # T => U \notin Bad
    <3>1. Bad \in SUBSET (SUBSET S)
      OBVIOUS
    <3> HIDE DEF Bad
    <3> QED BY <3>1, LeastBad
  <2>2. T # {}
    BY <1>3 DEF IsSum
  <2> DEFINE x == CHOOSE x \in T : TRUE
  <2>3. x \in T
    BY <2>2
  <2>4. it[T] = f[x] + it[T \ {x}]
    BY <1>3, <2>2
  <2>5. F[T] = f[x] + F[T \ {x}]
    BY <2>3 DEF IsSum
  <2>6. it[T \ {x}] = F[T \ {x}]
    BY <2>1, <2>3
  <2> QED  BY <2>4, <2>5, <2>6
<1> QED  BY <1>1, <1>4

\* A sum is a number, 0 over no index, and splits off any of its terms.
LEMMA SumSplits ==
    ASSUME NEW S, IsFiniteSet(S), NEW f, \A x \in S : f[x] \in Int
    PROVE  /\ SumFunctionOnSet(f, S) \in Int
           /\ S = {} => SumFunctionOnSet(f, S) = 0
           /\ \A x \in S : SumFunctionOnSet(f, S) = f[x] + SumFunctionOnSet(f, S \ {x})
<1>1. PICK F : IsSum(F, f, S)
  BY SumExists
<1>2. SumFunctionOnSet(f, S) = F[S]
  BY <1>1, SumIs
<1>3. ASSUME NEW x \in S
      PROVE  SumFunctionOnSet(f, S \ {x}) = F[S \ {x}]
  <2> DEFINE G == [s \in SUBSET (S \ {x}) |-> F[s]]
  <2>1. IsSum(G, f, S \ {x})
    BY <1>1 DEF IsSum
  <2>2. IsFiniteSet(S \ {x})
    BY FS_RemoveElement
  <2> HIDE DEF G
  <2>3. SumFunctionOnSet(f, S \ {x}) = G[S \ {x}]
    BY <2>1, <2>2, SumIs
  <2> QED  BY <2>3 DEF G
<1> QED  BY <1>1, <1>2, <1>3 DEF IsSum

\* Sums of functions that agree are equal, and of functions that compare, compare.
LEMMA SumCompares ==
    ASSUME NEW S, IsFiniteSet(S), NEW f, NEW g,
           \A x \in S : f[x] \in Int /\ g[x] \in Int /\ f[x] =< g[x]
    PROVE  /\ SumFunctionOnSet(f, S) =< SumFunctionOnSet(g, S)
           /\ SumFunctionOnSet(f, S) = SumFunctionOnSet(g, S) => \A x \in S : f[x] = g[x]
<1> DEFINE Fine(s) == /\ SumFunctionOnSet(f, s) =< SumFunctionOnSet(g, s)
                      /\ SumFunctionOnSet(f, s) = SumFunctionOnSet(g, s) => \A x \in s : f[x] = g[x]
           Bad == {s \in SUBSET S : ~ Fine(s)}
<1> SUFFICES ASSUME Bad # {}  PROVE FALSE
  OBVIOUS
<1>1. PICK T \in Bad : \A U \in SUBSET T : U # T => U \notin Bad
  <2>1. Bad \in SUBSET (SUBSET S)
    OBVIOUS
  <2> HIDE DEF Bad
  <2> QED BY <2>1, LeastBad
<1>2. IsFiniteSet(T)
  BY FS_Subset
<1>3. /\ T = {} => SumFunctionOnSet(f, T) = 0
      /\ \A x \in T : SumFunctionOnSet(f, T) = f[x] + SumFunctionOnSet(f, T \ {x})
  BY <1>2, SumSplits
<1>4. /\ T = {} => SumFunctionOnSet(g, T) = 0
      /\ \A x \in T : SumFunctionOnSet(g, T) = g[x] + SumFunctionOnSet(g, T \ {x})
  BY <1>2, SumSplits
<1>5. T # {}
  BY <1>3, <1>4
<1>6. ASSUME NEW x \in T  
      PROVE  /\ SumFunctionOnSet(f, T) =< SumFunctionOnSet(g, T)
             /\ SumFunctionOnSet(f, T) = SumFunctionOnSet(g, T) => f[x] = g[x]
  <2>1. Fine(T \ {x})
    BY <1>1
  <2>2. SumFunctionOnSet(f, T \ {x}) \in Int /\ SumFunctionOnSet(g, T \ {x}) \in Int
    <3>1. IsFiniteSet(T \ {x})
      BY <1>2, FS_RemoveElement
    <3>2. SumFunctionOnSet(f, T \ {x}) \in Int
      BY <3>1, SumSplits
    <3>3. SumFunctionOnSet(g, T \ {x}) \in Int
      BY <3>1, SumSplits
    <3> QED  BY <3>2, <3>3
  <2>3. f[x] \in Int /\ g[x] \in Int /\ f[x] =< g[x]
    OBVIOUS
  <2> QED  BY <2>1, <2>2, <2>3, <1>3, <1>4
<1> QED  BY <1>5, <1>6

LEMMA SumSame ==
    ASSUME NEW S, IsFiniteSet(S), NEW f, NEW g, \A x \in S : f[x] \in Int /\ f[x] = g[x]
    PROVE  SumFunctionOnSet(f, S) = SumFunctionOnSet(g, S)
<1>1. SumFunctionOnSet(f, S) =< SumFunctionOnSet(g, S)
  BY SumCompares
<1>2. SumFunctionOnSet(g, S) =< SumFunctionOnSet(f, S)
  BY SumCompares
<1>3. SumFunctionOnSet(f, S) \in Int
  BY SumSplits
<1>4. SumFunctionOnSet(g, S) \in Int
  BY SumSplits
<1> QED  BY <1>1, <1>2, <1>3, <1>4

\* When one term changes, the sum changes by as much.
LEMMA SumChanges ==
    ASSUME NEW S, IsFiniteSet(S), NEW f, NEW g, NEW y \in S,
           \A x \in S : f[x] \in Int /\ g[x] \in Int /\ (x # y => f[x] = g[x])
    PROVE  SumFunctionOnSet(g, S) = (SumFunctionOnSet(f, S) + g[y]) - f[y]
<1>1. SumFunctionOnSet(f, S) = f[y] + SumFunctionOnSet(f, S \ {y})
  BY SumSplits
<1>2. SumFunctionOnSet(g, S) = g[y] + SumFunctionOnSet(g, S \ {y})
  BY SumSplits
<1>3. IsFiniteSet(S \ {y})
  BY FS_RemoveElement
<1>4. SumFunctionOnSet(f, S \ {y}) = SumFunctionOnSet(g, S \ {y})
  BY <1>3, SumSame
<1>5. SumFunctionOnSet(f, S \ {y}) \in Int
  BY <1>3, SumSplits
<1> QED  BY <1>1, <1>2, <1>4, <1>5

LEMMA SumZero ==
    ASSUME NEW S, IsFiniteSet(S), NEW f, \A x \in S : f[x] = 0
    PROVE  SumFunctionOnSet(f, S) = 0
<1> DEFINE F == [s \in SUBSET S |-> 0]
<1>1. IsSum(F, f, S)
  BY DEF IsSum
<1> HIDE DEF F
<1>2. SumFunctionOnSet(f, S) = F[S]
  BY <1>1, SumIs
<1> QED  BY <1>2 DEF F

\* More indices, and larger terms none of which is negative.
LEMMA SumOfMore ==
    ASSUME NEW S, IsFiniteSet(S), NEW T \in SUBSET S, NEW f, NEW g,
           \A x \in T : f[x] \in Int /\ f[x] =< g[x], \A x \in S : g[x] \in Nat
    PROVE  SumFunctionOnSet(f, T) =< SumFunctionOnSet(g, S)
<1> DEFINE Bad == {U \in SUBSET S : T \subseteq U
                                  /\ ~ SumFunctionOnSet(f, T) =< SumFunctionOnSet(g, U)}
<1> SUFFICES ASSUME Bad # {}  PROVE FALSE
  OBVIOUS
<1>1. PICK U \in Bad : \A V \in SUBSET U : V # U => V \notin Bad
  <2>1. Bad \in SUBSET (SUBSET S)
    OBVIOUS
  <2> HIDE DEF Bad
  <2> QED BY <2>1, LeastBad
<1>2. IsFiniteSet(T) /\ IsFiniteSet(U)
  BY FS_Subset
<1>3. SumFunctionOnSet(f, T) =< SumFunctionOnSet(g, T)
  BY <1>2, SumCompares
<1>4. PICK x \in U : x \notin T
  <2>1. U # T /\ T \subseteq U
    BY <1>1, <1>3
  <2> QED  BY <2>1
<1>5. SumFunctionOnSet(g, U) = g[x] + SumFunctionOnSet(g, U \ {x})
  BY <1>2, SumSplits
<1>6. IsFiniteSet(U \ {x})
  BY <1>2, FS_RemoveElement
<1>7. SumFunctionOnSet(g, U \ {x}) \in Int
  BY <1>6, SumSplits
<1>8. SumFunctionOnSet(f, T) =< SumFunctionOnSet(g, U \ {x})
  BY <1>1, <1>4
<1>9. SumFunctionOnSet(f, T) \in Int
  BY <1>2, SumSplits
<1>10. g[x] \in Nat
  OBVIOUS
<1> QED  BY <1>1, <1>5, <1>7, <1>8, <1>9, <1>10

-----------------------------------------------------------------------------
(* Minima, and the table after the bubble sort *)

LEMMA PairsInOrder ==
    ASSUME NEW a \in Int, NEW b \in Int, NEW c \in Int, NEW u \in Int, NEW v \in Int, NEW w \in Int,
           a < b \/ (a = b /\ u =< v), b < c \/ (b = c /\ v =< w)
    PROVE  a < c \/ (a = c /\ u =< w)
  OBVIOUS

\* What remains has a first least element.
LEMMA LeastExists ==
    ASSUME NEW n \in Nat \ {0}, NEW r \in [1 .. n -> Int]
    PROVE  \E p \in 1 .. n : \A o \in 1 .. n : r[p] < r[o] \/ (r[p] = r[o] /\ p =< o)
<1> DEFINE Least(p, T) == \A o \in T : r[p] < r[o] \/ (r[p] = r[o] /\ p =< o)
           Bad == {T \in SUBSET (1 .. n) : T # {} /\ ~ \E p \in T : Least(p, T)}
<1>1. IsFiniteSet(1 .. n)
  BY FS_Interval
<1>2. Bad = {}
  <2> SUFFICES ASSUME Bad # {}  PROVE FALSE
    OBVIOUS
  <2>1. PICK T \in Bad : \A U \in SUBSET T : U # T => U \notin Bad
    <3>1. Bad \in SUBSET (SUBSET (1 .. n))
      OBVIOUS
    <3> HIDE DEF Bad
    <3> QED BY <1>1, <3>1, LeastBad
  <2>2. PICK x \in T : TRUE
    OBVIOUS
  <2>3. r[x] \in Int /\ x \in Int
    OBVIOUS
  <2>4. CASE T = {x}
    BY <2>3, <2>4
  <2>5. CASE T # {x}
    <3>1. PICK y \in T \ {x} : Least(y, T \ {x})
      <4>1. T \ {x} \in SUBSET T /\ T \ {x} # T /\ T \ {x} # {} /\ T \ {x} \in SUBSET (1 .. n)
        BY <2>2, <2>5
      <4>2. T \ {x} \notin Bad
        BY <2>1, <4>1
      <4> QED  BY <4>1, <4>2
    <3>2. r[y] \in Int /\ y \in Int
      OBVIOUS
    <3>3. Least(x, T) \/ Least(y, T)
      <4>1. CASE r[x] < r[y] \/ (r[x] = r[y] /\ x =< y)
        <5>1. ASSUME NEW o \in T  PROVE r[x] < r[o] \/ (r[x] = r[o] /\ x =< o)
          <6>1. r[o] \in Int /\ o \in Int
            OBVIOUS
          <6>2. CASE o = x
            BY <2>3, <6>2
          <6>3. CASE o # x
            <7>1. r[y] < r[o] \/ (r[y] = r[o] /\ y =< o)
              BY <3>1, <6>3
            <7> QED  BY <7>1, <6>1, <4>1, <3>2, <2>3, PairsInOrder
          <6> QED  BY <6>2, <6>3
        <5> QED  BY <5>1
      <4>2. CASE ~ (r[x] < r[y] \/ (r[x] = r[y] /\ x =< y))
        <5>1. r[y] < r[x] \/ (r[y] = r[x] /\ y =< x)
          BY <4>2, <2>3, <3>2
        <5> QED  BY <3>1, <5>1
      <4> QED  BY <4>1, <4>2
    <3> QED  BY <3>3
  <2> QED  BY <2>4, <2>5
<1>3. 1 .. n # {}
  OBVIOUS
<1> QED  BY <1>2, <1>3

LEMMA ShortestIs ==
    ASSUME N \in Nat \ {0}, i \in Procs, NEW r \in [Procs -> Int]
    PROVE  Shortest(r) \in Procs /\ \A o \in Procs : r[Shortest(r)] =< r[o]
<1>1. \E p \in Procs : \A o \in Procs : r[p] < r[o] \/ (r[p] = r[o] /\ p =< o)
  BY LeastExists DEF Procs
<1>2. \A o \in Procs : r[o] \in Int
  OBVIOUS
<1>3. CASE \A o \in Procs : r[i] =< r[o]
  BY <1>3 DEF Shortest
<1>4. CASE ~ \A o \in Procs : r[i] =< r[o]
  <2> DEFINE k == CHOOSE p \in Procs : \A o \in Procs : r[p] < r[o] \/ (r[p] = r[o] /\ p =< o)
  <2>1. k \in Procs /\ \A o \in Procs : r[k] < r[o] \/ (r[k] = r[o] /\ k =< o)
    BY <1>1
  <2>2. Shortest(r) = k
    BY <1>4 DEF Shortest
  <2> HIDE DEF k
  <2> QED  BY <2>1, <2>2, <1>2
<1> QED  BY <1>3, <1>4

\* A row of the table; INT_MAX is no burst.
Row == [arr : Nat, burst : 1 .. INT_MAX - 1, tat : Int, wait : Int]

LEMMA CountOf ==
    ASSUME NEW n \in Nat
    PROVE  IsFiniteSet(1 .. n) /\ Cardinality(1 .. n) = n
<1>1. IsFiniteSet(1 .. n) /\ Cardinality(1 .. n) = IF 1 > n THEN 0 ELSE n - 1 + 1
  BY FS_Interval
<1> QED  BY <1>1

\* The places that the sort gives to the processes are all different.
LEMMA PlacesTaken ==
    ASSUME NEW s \in Seq(Row), NEW n \in DOMAIN s
    PROVE  \E p \in DOMAIN s : Place(s, p) = n
<1> DEFINE D == DOMAIN s
           before(p) == {o \in D : Earlier(s, o, p)}
           place == [p \in D |-> Place(s, p)]
<1>1. D = 1 .. Len(s) /\ IsFiniteSet(D) /\ Cardinality(D) = Len(s) /\ Len(s) \in Nat
  <2>1. D = 1 .. Len(s) /\ Len(s) \in Nat
    OBVIOUS
  <2>2. IsFiniteSet(1 .. Len(s)) /\ Cardinality(1 .. Len(s)) = Len(s)
    BY <2>1, CountOf
  <2> QED  BY <2>1, <2>2
<1>2. \A p \in D : p \in Nat /\ s[p].arr \in Nat
  <2> SUFFICES ASSUME NEW p \in D  PROVE p \in Nat /\ s[p].arr \in Nat
    OBVIOUS
  <2>1. s[p] \in Row
    OBVIOUS
  <2>2. s[p].arr \in Nat
    BY <2>1 DEF Row
  <2> QED  BY <1>1, <2>2
<1>3. ASSUME NEW p \in D
      PROVE  IsFiniteSet(before(p)) /\ Cardinality(before(p)) \in 1 .. Len(s)
  <2>1. before(p) \subseteq D /\ p \in before(p)
    BY <1>2 DEF Earlier
  <2>2. IsFiniteSet(before(p)) /\ Cardinality(before(p)) =< Len(s)
    BY <2>1, <1>1, FS_Subset
  <2>3. Cardinality(before(p)) # 0
    BY <2>1, <2>2, FS_EmptySet
  <2>4. Cardinality(before(p)) \in Nat
    BY <2>2, FS_CardinalityType
  <2> QED  BY <2>2, <2>3, <2>4, <1>1
<1>4. ASSUME NEW p \in D, NEW o \in D, p # o, Cardinality(before(p)) = Cardinality(before(o))
      PROVE  FALSE
  <2>1. before(p) \subseteq before(o) \/ before(o) \subseteq before(p)
    BY <1>2 DEF Earlier
  <2>2. before(p) = before(o)
    <3>1. CASE before(p) \subseteq before(o)
      BY <3>1, <1>3, <1>4, FS_Subset
    <3>2. CASE before(o) \subseteq before(p)
      BY <3>2, <1>3, <1>4, FS_Subset
    <3> QED  BY <2>1, <3>1, <3>2
  <2>3. p \in before(p) /\ o \in before(o)
    BY <1>2 DEF Earlier
  <2> QED  BY <2>2, <2>3, <1>2, <1>4 DEF Earlier
<1>5. place \in Injection(D, D)
  <2>1. \A p \in D : place[p] = Cardinality(before(p))
    BY DEF Place
  <2>2. place \in [D -> D]
    <3>1. \A p \in D : Place(s, p) \in D
      BY <1>1, <1>3 DEF Place
    <3> QED  BY <3>1
  <2>3. \A p, o \in D : place[p] = place[o] => p = o
    <3> HIDE DEF place, D, before
    <3> QED  BY <2>1, <1>4
  <2> HIDE DEF place, D
  <2> QED  BY <2>2, <2>3 DEF Injection, IsInjective
<1>6. place \in Surjection(D, D)
  BY <1>1, <1>5, FS_Injection
<1> QED  BY <1>6 DEF Surjection

LEMMA SortedInOrder ==
    ASSUME NEW s \in Seq(Row)
    PROVE  /\ Sorted(s) \in Seq(Row) /\ Len(Sorted(s)) = Len(s)
           /\ \A m, n \in DOMAIN s : m =< n => Sorted(s)[m].arr =< Sorted(s)[n].arr
<1> DEFINE at(n) == CHOOSE p \in DOMAIN s : Place(s, p) = n
<1>1. \A n \in DOMAIN s : at(n) \in DOMAIN s /\ Place(s, at(n)) = n
  BY PlacesTaken
<1>2. Sorted(s) = [n \in DOMAIN s |-> s[at(n)]]
  BY DEF Sorted
<1>3. DOMAIN s = 1 .. Len(s) /\ Len(s) \in Nat /\ \A p \in DOMAIN s : s[p] \in Row /\ p \in Nat
  OBVIOUS
<1> HIDE DEF at
<1>4. Sorted(s) \in [1 .. Len(s) -> Row]
  BY <1>1, <1>2, <1>3
<1>5. Sorted(s) \in Seq(Row) /\ Len(Sorted(s)) = Len(s)
  BY <1>3, <1>4
<1>6. ASSUME NEW m \in DOMAIN s, NEW n \in DOMAIN s, m < n
      PROVE  s[at(m)].arr =< s[at(n)].arr
  <2> DEFINE p == at(m)  o == at(n)  before(x) == {y \in DOMAIN s : Earlier(s, y, x)}
  <2>0. s[o].arr \in Nat /\ s[p].arr \in Nat
    BY <1>1, <1>3 DEF Row
  <2> SUFFICES ASSUME s[o].arr < s[p].arr  PROVE FALSE
    BY <2>0
  <2>1. p \in DOMAIN s /\ o \in DOMAIN s /\ \A x \in DOMAIN s : s[x].arr \in Nat /\ x \in Nat
    <3>1. \A x \in DOMAIN s : s[x].arr \in Nat
      BY <1>3 DEF Row
    <3> QED  BY <3>1, <1>1, <1>3
  <2>2. before(o) \subseteq before(p)
    BY <2>1 DEF Earlier
  <2>3. IsFiniteSet(DOMAIN s)
    BY <1>3, FS_Interval
  <2>4. IsFiniteSet(before(p))
    BY <2>3, FS_Subset
  <2>5. Cardinality(before(o)) =< Cardinality(before(p))
    BY <2>2, <2>4, FS_Subset
  <2>6. Cardinality(before(o)) = n /\ Cardinality(before(p)) = m
    BY <1>1 DEF Place
  <2> QED  BY <2>5, <2>6, <1>6, <1>3
<1>7. \A n \in DOMAIN s : s[at(n)].arr \in Nat
  BY <1>1, <1>3 DEF Row
<1> QED  BY <1>1, <1>2, <1>3, <1>5, <1>6, <1>7
-----------------------------------------------------------------------------
(* What an algorithm has come to *)

Line == [p : Nat, from : Nat, to : Nat]

Types ==
    /\ table \in Seq(Row) /\ N \in Nat \ {0}
    /\ pc \in {"menu", "FCFS", "RR", "SRBF", "undefined", "exit"}
    /\ alg \in {"none", "FCFS", "RR", "SRBF"}
    /\ pc \in {"FCFS", "RR", "SRBF"} => alg = pc
    /\ time \in Nat /\ otime \in Nat /\ chart \in Seq(Line)
    /\ i \in Nat \ {0} /\ j \in Nat \ {0}
    /\ pc \in {"RR", "SRBF"} => i \in Procs
    /\ alg # "none" => i \in 1 .. N + 1 /\ j \in 1 .. N + 1 /\ t \in [Procs -> Int]
    /\ pc = "RR" => q \in Nat \ {0} /\ \A p \in Procs : t[p] >= 0

\* Who is known to the algorithm, and how much of a burst is left.
Came(p) == IF alg = "FCFS" THEN p < i ELSE p < j

Left(p) == IF ~Came(p) THEN table[p].burst
           ELSE IF alg = "FCFS" \/ t[p] = INT_MAX THEN 0 ELSE t[p]

Done(p) == table[p].burst - Left(p)

\* The line that is not printed yet: its length, and where it begins.
Unprinted(p) == IF pc = "SRBF" /\ p = i THEN time - otime ELSE 0

Printed == IF pc = "SRBF" THEN otime ELSE time

\* The sort has put the table in the order of arrival.
Ordered == \A p, o \in Procs : p =< o => table[p].arr =< table[o].arr

\* The lines follow each other up to the time that is printed,
Joined ==
    /\ \A l \in Lines : /\ chart[l].p \in Procs
                        /\ chart[l].from =< chart[l].to /\ chart[l].to =< Printed
                        /\ chart[l].from = (IF l = 1 THEN 0 ELSE chart[l - 1].to)
    /\ Printed = IF chart = <<>> THEN 0 ELSE chart[Len(chart)].to
    /\ Printed =< time

\* no process runs before it is there,
InTime == \A l \in Lines : Slice(l) > 0 => chart[l].from >= table[chart[l].p].arr

\* and what is left of a burst is what the chart does not show.
Accounted ==
    \A p \in Procs : Left(p) \in 0 .. table[p].burst /\ TimeOf(p, Lines) + Unprinted(p) = Done(p)

\* Nobody idles: the time is the sum of what was run.
Clock == time = SumFunctionOnSet([p \in Procs |-> Done(p)], Procs)

\* What a process got, it got since it arrived.
Served == \A p \in Procs : Came(p) => table[p].arr + Done(p) =< time

\* The queue of each algorithm.
Queued ==
    /\ pc = "RR" => \A p \in Procs : t[p] =< table[p].burst /\ (p >= j => t[p] = 0)
    /\ pc = "SRBF" =>
          /\ \A p \in Procs : p >= j => t[p] = INT_MAX
          /\ \A p \in Procs : t[p] = 0 => p = i
          /\ j =< N => time =< table[j].arr
          /\ Unprinted(i) > 0 => table[i].arr =< otime

\* The line that ends process p.
IsLast(l, p) ==
    chart[l].p = p /\ Slice(l) > 0 /\ \A m \in Lines : m > l => chart[m].p # p \/ Slice(m) = 0

\* The figures of a process that has ended.
Figures ==
    \A p \in Procs : Left(p) = 0 =>
        /\ table[p].tat >= table[p].burst
        /\ IF pc = "SRBF" /\ p = i
           THEN otime < time /\ table[p].tat = time - table[p].arr
           ELSE \E l \in Lines : IsLast(l, p) /\ table[p].tat = chart[l].to - table[p].arr
        /\ pc # "SRBF" => table[p].wait = table[p].tat - table[p].burst

AllDone == pc = "menu" => \A p \in Procs : Left(p) = 0

Sched ==
    /\ Ordered /\ Joined /\ InTime /\ Accounted /\ Clock
    /\ Served /\ Queued /\ Figures /\ AllDone

Inv == Types /\ (Busy /\ alg # "none" => Sched)

-----------------------------------------------------------------------------
(* Types *)

LEMMA IntMax == INT_MAX \in Nat \ {0}
  BY SMT DEF INT_MAX

LEMMA TableSize ==
    ASSUME Types
    PROVE  /\ N \in Nat \ {0} /\ Procs = 1 .. N /\ DOMAIN table = Procs /\ IsFiniteSet(Procs)
           /\ \A p \in Procs : /\ p \in Nat \ {0} /\ table[p] \in Row
                               /\ table[p].arr \in Nat /\ table[p].burst \in 1 .. INT_MAX - 1
                               /\ table[p].tat \in Int /\ table[p].wait \in Int
<1>1. N \in Nat \ {0} /\ Procs = 1 .. N /\ DOMAIN table = Procs /\ \A p \in Procs : table[p] \in Row
  BY DEF Types, N, Procs
<1>2. IsFiniteSet(1 .. N)
  BY <1>1, FS_Interval
<1> QED  BY <1>1, <1>2 DEF Row

\* An algorithm changes the figures of the table only.
SameWork ==
    /\ table' \in Seq(Row) /\ N' = N
    /\ \A p \in Procs : table'[p].arr = table[p].arr /\ table'[p].burst = table[p].burst

LEMMA SameTable ==
    ASSUME Types, UNCHANGED table
    PROVE  SameWork
  BY DEF SameWork, Types, N

LEMMA TatSet ==
    ASSUME Types, NEW k \in Procs, NEW end \in Int, table' = WithTat(k, end)
    PROVE  /\ SameWork
           /\ \A p \in Procs : p # k => table'[p] = table[p]
           /\ table'[k].tat = end - table[k].arr
<1> DEFINE row == [table[k] EXCEPT !.tat = end - table[k].arr]
<1>1. table[k] \in Row /\ table[k].arr \in Nat /\ DOMAIN table = Procs /\ Procs = 1 .. Len(table)
  BY TableSize DEF N
<1>2. table' = [table EXCEPT ![k] = row]
  BY DEF WithTat
<1>3. row \in Row /\ row.arr = table[k].arr /\ row.burst = table[k].burst
      /\ row.tat = end - table[k].arr
  BY <1>1 DEF Row
<1> HIDE DEF row
<1>4. table' \in Seq(Row) /\ Len(table') = Len(table)
      /\ \A p \in Procs : table'[p] = IF p = k THEN row ELSE table[p]
  BY <1>1, <1>2, <1>3, ExceptSeq DEF Types
<1> QED  BY <1>3, <1>4 DEF SameWork, N

LEMMA TatAndWaitSet ==
    ASSUME Types, NEW k \in Procs, NEW end \in Int, table' = WithTatAndWait(k, end)
    PROVE  /\ SameWork
           /\ \A p \in Procs : p # k => table'[p] = table[p]
           /\ table'[k].tat = end - table[k].arr
           /\ table'[k].wait = table'[k].tat - table[k].burst
<1> DEFINE row == [table[k] EXCEPT !.tat = end - table[k].arr,
                                   !.wait = end - table[k].arr - table[k].burst]
<1>1. /\ table[k] \in Row /\ table[k].arr \in Nat /\ table[k].burst \in Int
      /\ DOMAIN table = Procs /\ Procs = 1 .. Len(table)
  BY TableSize DEF N
<1>2. table' = [table EXCEPT ![k] = row]
  BY DEF WithTatAndWait
<1>3. row \in Row /\ row.arr = table[k].arr /\ row.burst = table[k].burst
      /\ row.tat = end - table[k].arr /\ row.wait = row.tat - table[k].burst
  <2> DEFINE d == end - table[k].arr
             w == end - table[k].arr - table[k].burst
  <2>1. d \in Int /\ w \in Int /\ w = d - table[k].burst
    BY <1>1
  <2>2. row = [table[k] EXCEPT !.tat = d, !.wait = w]
    OBVIOUS
  <2> HIDE DEF d, w, row
  <2>3. row \in Row /\ row.arr = table[k].arr /\ row.burst = table[k].burst
        /\ row.tat = d /\ row.wait = w
    BY <1>1, <2>1, <2>2 DEF Row
  <2> QED  BY <2>1, <2>3 DEF d
<1> HIDE DEF row
<1>4. table' \in Seq(Row) /\ Len(table') = Len(table)
      /\ \A p \in Procs : table'[p] = IF p = k THEN row ELSE table[p]
  BY <1>1, <1>2, <1>3, ExceptSeq DEF Types
<1> QED  BY <1>3, <1>4 DEF SameWork, N

LEMMA WaitsSet ==
    ASSUME Types, table' = [p \in Procs |-> [table[p] EXCEPT !.wait = table[p].tat - table[p].burst]]
    PROVE  /\ SameWork
           /\ \A p \in Procs : /\ table'[p].tat = table[p].tat
                               /\ table'[p].wait = table[p].tat - table[p].burst
<1>1. N \in Nat /\ Procs = 1 .. N
  BY TableSize
<1>2. ASSUME NEW p \in Procs
      PROVE  /\ table'[p] \in Row /\ table'[p].arr = table[p].arr /\ table'[p].burst = table[p].burst
             /\ table'[p].tat = table[p].tat /\ table'[p].wait = table[p].tat - table[p].burst
  <2>1. table[p] \in Row /\ table[p].tat \in Int /\ table[p].burst \in Int
    BY TableSize
  <2>2. table'[p] = [table[p] EXCEPT !.wait = table[p].tat - table[p].burst]
    OBVIOUS
  <2> QED  BY <2>1, <2>2 DEF Row
<1>3. table' \in [1 .. N -> Row]
  BY <1>1, <1>2
<1>4. table' \in Seq(Row) /\ Len(table') = N
  BY <1>1, <1>3
<1> QED  BY <1>2, <1>4 DEF SameWork, N

\* What a turn of round robin does before and after the slice.
LEMMA RemainingTypes ==
    ASSUME Types, pc = "RR"
    PROVE  /\ Remaining \in [Procs -> Nat]
           /\ \A p \in Procs : Remaining[p] = IF Admits /\ p = j THEN table[j].burst ELSE t[p]
<1>1. t \in [Procs -> Nat] /\ j \in 1 .. N + 1 /\ Procs = 1 .. N /\ N \in Nat
  BY TableSize DEF Types
<1>2. j \in Procs => table[j].burst \in Nat
  BY TableSize
<1>3. Admits => j \in Procs
  BY <1>1 DEF Admits
<1> QED  BY <1>1, <1>2, <1>3 DEF Remaining

LEMMA NextTurn ==
    ASSUME NEW n \in Nat \ {0}, NEW x \in 1 .. n
    PROVE  (x % n) + 1 = IF x = n THEN 1 ELSE x + 1
<1>1. CASE x = n
  <2>1. n % n = 0
    OBVIOUS
  <2> QED  BY <1>1, <2>1
<1>2. CASE x < n
  <2>1. x % n = x
    BY <1>2
  <2> QED  BY <1>2, <2>1
<1> QED  BY <1>1, <1>2

\* A slice of round robin, as a line of the chart.
LEMMA SliceOf ==
    ASSUME Types, pc = "RR", Remaining[i] # 0
    PROVE  LET run == Lesser(Remaining[i], q)
           IN  run \in Nat \ {0} /\ run =< Remaining[i] /\ run \in Int
<1>1. i \in Procs /\ q \in Nat \ {0}
  BY DEF Types
<1>2. Remaining[i] \in Nat
  BY <1>1, RemainingTypes
<1> QED  BY <1>1, <1>2 DEF Lesser

LEMMA AppendedLine ==
    ASSUME Types, NEW p \in Nat, NEW from \in Nat, NEW to \in Nat, chart' = Running(p, from, to)
    PROVE  /\ chart' \in Seq(Line) /\ chart' # <<>> /\ Len(chart') = Len(chart) + 1
           /\ Len(chart) \in Nat /\ Lines = 1 .. Len(chart) /\ Lines' = 1 .. Len(chart) + 1
           /\ \A l \in Lines : chart'[l] = chart[l]
           /\ chart'[Len(chart) + 1] = [p |-> p, from |-> from, to |-> to]
<1>1. [p |-> p, from |-> from, to |-> to] \in Line
  BY DEF Line
<1>2. chart \in Seq(Line)
  BY DEF Types
<1> QED  BY <1>1, <1>2, AppendProperties DEF Running, Lines

LEMMA TypesInit ==
    Init => Types
<1> SUFFICES ASSUME Init  PROVE Types
  OBVIOUS
<1>1. PICK n \in 1 .. MaxN : table \in [1 .. n -> Table]
  BY DEF Init
<1>2. n \in Nat \ {0}
  BY InputAssumption
<1>3. \A r \in Table : r \in Row
  <2>1. ASSUME NEW r \in Table
        PROVE  r.arr \in Nat /\ r.burst \in 1 .. INT_MAX - 1 /\ r.tat \in Int /\ r.wait \in Int
    <3>1. r.arr \in Arrivals /\ r.burst \in Bursts /\ r.tat = 0 /\ r.wait = 0
      BY DEF Table
    <3>2. r.arr \in Nat
      BY <3>1, InputAssumption
    <3>3. r.burst \in 1 .. INT_MAX - 1
      BY <3>1, InputAssumption
    <3> QED  BY <3>1, <3>2, <3>3
  <2>2. \A r \in Table : r = [arr |-> r.arr, burst |-> r.burst, tat |-> r.tat, wait |-> r.wait]
    BY DEF Table
  <2> QED  BY <2>1, <2>2 DEF Row
<1>4. table \in [1 .. n -> Row]
  BY <1>1, <1>3
<1>5. table \in Seq(Row) /\ Len(table) = n
  BY <1>2, <1>4
<1> QED  BY <1>2, <1>5 DEF Init, Types, N

LEMMA StartTypes ==
    ASSUME Types, StartFCFS \/ StartRR \/ StartSRBF
    PROVE  /\ Types' /\ N' = N /\ Procs' = Procs /\ Ordered'
           /\ chart' = <<>> /\ time' = 0 /\ otime' = 0 /\ i' = 1 /\ j' = 1
           /\ pc' = alg' /\ alg' \in {"FCFS", "RR", "SRBF"}
           /\ t' = [p \in Procs |-> IF alg' = "SRBF" THEN INT_MAX ELSE 0]
<1>1. /\ table' = Sorted(table) /\ chart' = <<>> /\ time' = 0 /\ otime' = 0 /\ i' = 1 /\ j' = 1
      /\ pc' = alg' /\ alg' \in {"FCFS", "RR", "SRBF"}
      /\ t' = [p \in Procs |-> IF alg' = "SRBF" THEN INT_MAX ELSE 0]
  BY DEF StartFCFS, StartRR, StartSRBF, Start
<1>2. alg' = "RR" => q' \in Nat \ {0}
  BY InputAssumption DEF StartFCFS, StartRR, StartSRBF, Start
<1>3. /\ table' \in Seq(Row) /\ Len(table') = Len(table)
      /\ \A m, n \in DOMAIN table : m =< n => table'[m].arr =< table'[n].arr
  BY <1>1, SortedInOrder DEF Types
<1>4. N' = N /\ Procs' = Procs /\ Procs = 1 .. N /\ N \in Nat \ {0} /\ DOMAIN table = Procs
  BY <1>3, TableSize DEF N, Procs
<1>5. chart' \in Seq(Line)
  BY <1>1
<1>6. Types'
  BY <1>1, <1>2, <1>3, <1>4, <1>5, IntMax DEF Types
<1>7. Ordered'
  BY <1>3, <1>4 DEF Ordered
<1> QED  BY <1>1, <1>4, <1>6, <1>7

LEMMA FCFSRunTypes ==
    ASSUME Types, FCFSRun
    PROVE  /\ Types' /\ SameWork /\ i \in Procs
           /\ \A p \in Procs : p # i => table'[p] = table[p]
           /\ table'[i].tat = time' - table[i].arr
           /\ table'[i].wait = table'[i].tat - table[i].burst
<1>1. i \in Procs /\ alg = "FCFS" /\ N \in Nat /\ Procs = 1 .. N
  BY TableSize DEF Types, FCFSRun
<1>2. time' \in Nat
  BY <1>1, TableSize DEF Types, FCFSRun
<1>3. table' = WithTatAndWait(i, time')
  BY DEF FCFSRun
<1>4. /\ SameWork
      /\ \A p \in Procs : p # i => table'[p] = table[p]
      /\ table'[i].tat = time' - table[i].arr
      /\ table'[i].wait = table'[i].tat - table[i].burst
  BY <1>1, <1>2, <1>3, TatAndWaitSet
<1>5. chart' \in Seq(Line)
  BY <1>1, <1>2, AppendedLine DEF FCFSRun, Types
<1>6. Procs' = Procs
  BY <1>4 DEF SameWork, Procs, N
<1>7. Types'
  BY <1>1, <1>2, <1>4, <1>5, <1>6 DEF Types, FCFSRun, SameWork
<1> QED  BY <1>1, <1>4, <1>7

LEMMA RRStepTypes ==
    ASSUME Types, RRStep
    PROVE  /\ Types' /\ SameWork /\ i \in Procs
           /\ i' = (IF i = N THEN 1 ELSE i + 1)
           /\ t' \in [Procs -> Nat]
           /\ Remaining[i] # 0 =>
                 /\ t'[i] = Remaining[i] - Lesser(Remaining[i], q)
                 /\ time' = time + Lesser(Remaining[i], q)
                 /\ chart' = Running(i, time, time + Lesser(Remaining[i], q))
                 /\ \A p \in Procs : p # i => table'[p] = table[p] /\ t'[p] = Remaining[p]
                 /\ t'[i] = 0 => /\ table'[i].tat = time' - table[i].arr
                                 /\ table'[i].wait = table'[i].tat - table[i].burst
           /\ Remaining[i] = 0 => t' = Remaining /\ UNCHANGED <<table, time, chart>>
<1> DEFINE run == Lesser(Remaining[i], q)
<1>1. pc = "RR" /\ alg = "RR" /\ i \in Procs /\ j \in 1 .. N + 1 /\ q \in Nat \ {0} /\ time \in Nat
  BY DEF Types, RRStep
<1>2. N \in Nat \ {0} /\ Procs = 1 .. N
  BY TableSize
<1>3. i' = IF i = N THEN 1 ELSE i + 1
  BY <1>1, <1>2, NextTurn DEF RRStep, RRTurn
<1>4. i' \in Procs /\ i' \in Nat \ {0}
  BY <1>1, <1>2, <1>3
<1>5. j' \in 1 .. N + 1 /\ j' \in Nat \ {0}
  BY <1>1, <1>2 DEF RRStep, Admits
<1>6. Remaining \in [Procs -> Nat]
  BY <1>1, RemainingTypes
<1>7. CASE Remaining[i] = 0
  <2>1. t' = Remaining /\ UNCHANGED <<table, time, chart>>
    BY <1>7 DEF RRStep, RRTurn
  <2>2. SameWork
    BY <2>1, SameTable
  <2>3. Procs' = Procs
    BY <2>2 DEF SameWork, Procs, N
  <2>4. Types'
    BY <1>1, <1>2, <1>4, <1>5, <1>6, <2>1, <2>2, <2>3 DEF Types, RRStep, SameWork
  <2> QED  BY <1>1, <1>3, <1>6, <1>7, <2>1, <2>2, <2>4
<1>8. CASE Remaining[i] # 0
  <2>1. run \in Nat \ {0} /\ run =< Remaining[i]
    BY <1>1, <1>8, SliceOf
  <2>2. RRSlice(Remaining, run)
    BY <1>8 DEF RRStep, RRTurn
  <2>3. /\ chart' = Running(i, time, time + run) /\ time' = time + run
        /\ t' = [Remaining EXCEPT ![i] = Remaining[i] - run]
        /\ table' = IF Remaining[i] = run THEN WithTatAndWait(i, time') ELSE table
    BY <2>2 DEF RRSlice
  <2> HIDE DEF run
  <2>4. time' \in Nat /\ i \in Nat
    BY <1>1, <1>2, <2>1, <2>3
  <2>5. chart' \in Seq(Line)
    BY <1>1, <2>3, <2>4, AppendedLine
  <2>6. /\ t' \in [Procs -> Nat] /\ t'[i] = Remaining[i] - run
        /\ \A p \in Procs : p # i => t'[p] = Remaining[p]
    BY <1>1, <1>6, <2>1, <2>3
  <2>7. /\ SameWork
        /\ \A p \in Procs : p # i => table'[p] = table[p]
        /\ t'[i] = 0 => /\ table'[i].tat = time' - table[i].arr
                        /\ table'[i].wait = table'[i].tat - table[i].burst
    <3>1. CASE Remaining[i] = run
      BY <1>1, <2>3, <2>4, <3>1, TatAndWaitSet
    <3>2. CASE Remaining[i] # run
      <4>1. t'[i] # 0
        BY <1>1, <1>6, <2>1, <2>6, <3>2
      <4> QED  BY <2>3, <3>2, <4>1, SameTable
    <3> QED  BY <3>1, <3>2
  <2>8. Procs' = Procs
    BY <2>7 DEF SameWork, Procs, N
  <2>9. Types'
    <3>1. UNCHANGED <<pc, alg, otime, q>>
      BY DEF RRStep
    <3>2. table' \in Seq(Row) /\ N' = N
      BY <2>7 DEF SameWork
    <3>3. t' \in [Procs -> Int] /\ \A p \in Procs : t'[p] >= 0
      BY <2>6
    <3>4. otime \in Nat
      BY DEF Types
    <3>5. i' \in 1 .. N + 1
      BY <1>2, <1>4
    <3> QED
      BY <1>1, <1>2, <1>4, <1>5, <2>4, <2>5, <2>8, <3>1, <3>2, <3>3, <3>4, <3>5 DEF Types
  <2> QED  BY <1>1, <1>3, <1>8, <2>3, <2>6, <2>7, <2>9 DEF run
<1> QED  BY <1>7, <1>8

LEMMA SRBFAdmitTypes ==
    ASSUME Types, SRBFAdmit
    PROVE  /\ Types' /\ SameWork /\ j \in Procs /\ j' = j + 1
           /\ \A p \in Procs : t'[p] = IF p = j THEN table[j].burst ELSE t[p]
<1>1. pc = "SRBF" /\ alg = "SRBF" /\ t \in [Procs -> Int] /\ j \in 1 .. N + 1
  BY DEF Types, SRBFAdmit
<1>2. N \in Nat \ {0} /\ Procs = 1 .. N /\ \A p \in Procs : table[p].burst \in Int
  BY TableSize
<1>3. j \in Procs
  BY <1>1, <1>2 DEF SRBFAdmit
<1>4. SameWork
  BY SameTable DEF SRBFAdmit
<1>5. t' \in [Procs -> Int] /\ \A p \in Procs : t'[p] = IF p = j THEN table[j].burst ELSE t[p]
  BY <1>1, <1>2, <1>3 DEF SRBFAdmit
<1>6. Procs' = Procs
  BY <1>4 DEF SameWork, Procs, N
<1>7. Types'
  BY <1>1, <1>2, <1>3, <1>4, <1>5, <1>6 DEF Types, SRBFAdmit, SameWork
<1> QED  BY <1>3, <1>4, <1>5, <1>7 DEF SRBFAdmit

\* What remains, when the process that runs has just ended.
Rem == [t EXCEPT ![i] = IF @ = 0 THEN INT_MAX ELSE @]

LEMMA SRBFTickTypes ==
    ASSUME Types, SRBFTick
    PROVE  /\ Types' /\ SameWork /\ i \in Procs /\ i' \in Procs /\ time' = time + 1
           /\ Rem \in [Procs -> Int]
           /\ \A p \in Procs : Rem[p] = IF p = i /\ t[p] = 0 THEN INT_MAX ELSE t[p]
           /\ \A o \in Procs : Rem[i'] =< Rem[o]
           /\ \A p \in Procs : t'[p] = IF p = i' THEN Rem[p] - 1 ELSE Rem[p]
           /\ i' = i => UNCHANGED <<chart, otime>>
           /\ i' # i => chart' = Running(i, otime, time) /\ otime' = time
           /\ \A p \in Procs : p # i' => table'[p] = table[p]
           /\ t'[i'] = 0 => table'[i'].tat = time' - table[i'].arr
           /\ t'[i'] # 0 => table' = table
<1>1. /\ pc = "SRBF" /\ alg = "SRBF" /\ t \in [Procs -> Int] /\ i \in Procs
      /\ time \in Nat /\ otime \in Nat
  BY DEF Types, SRBFTick
<1>2. N \in Nat \ {0} /\ Procs = 1 .. N
  BY TableSize
<1>3. Rem \in [Procs -> Int]
      /\ \A p \in Procs : Rem[p] = IF p = i /\ t[p] = 0 THEN INT_MAX ELSE t[p]
  BY <1>1, IntMax DEF Rem
<1>4. /\ Switch(Shortest(Rem)) /\ i' = Shortest(Rem) /\ time' = time + 1
      /\ t' = [Rem EXCEPT ![i'] = @ - 1]
      /\ table' = IF t'[i'] = 0 THEN WithTat(i', time') ELSE table
  BY DEF SRBFTick, Rem
<1>5. i' \in Procs /\ \A o \in Procs : Rem[i'] =< Rem[o]
  BY <1>1, <1>2, <1>3, <1>4, ShortestIs
<1>6. t' \in [Procs -> Int] /\ \A p \in Procs : t'[p] = IF p = i' THEN Rem[p] - 1 ELSE Rem[p]
  BY <1>3, <1>4, <1>5
<1>7. time' \in Nat /\ i \in Nat
  BY <1>1, <1>2, <1>4
<1>8. /\ SameWork /\ \A p \in Procs : p # i' => table'[p] = table[p]
      /\ t'[i'] = 0 => table'[i'].tat = time' - table[i'].arr
      /\ t'[i'] # 0 => table' = table
  <2>1. CASE t'[i'] = 0
    BY <1>4, <1>5, <1>7, <2>1, TatSet
  <2>2. CASE t'[i'] # 0
    BY <1>4, <2>2, SameTable
  <2> QED  BY <2>1, <2>2
<1>9. i' = i => UNCHANGED <<chart, otime>>
  BY <1>4 DEF Switch
<1>10. i' # i => chart' = Running(i, otime, time) /\ otime' = time
  BY <1>4 DEF Switch
<1>11. chart' \in Seq(Line) /\ otime' \in Nat
  <2>1. CASE i' = i
    BY <1>1, <1>9, <2>1 DEF Types
  <2>2. CASE i' # i
    BY <1>1, <1>7, <1>10, <2>2, AppendedLine
  <2> QED  BY <2>1, <2>2
<1>12. Procs' = Procs
  BY <1>8 DEF SameWork, Procs, N
<1>13. UNCHANGED <<pc, alg, j, q>>
  BY DEF SRBFTick
<1>14. i' \in Nat \ {0} /\ i' \in 1 .. N + 1
  BY <1>2, <1>5
<1>15. table' \in Seq(Row) /\ N' = N
  BY <1>8 DEF SameWork
<1>16. Types'
  BY <1>1, <1>2, <1>5, <1>6, <1>7, <1>11, <1>12, <1>13, <1>14, <1>15 DEF Types
<1> QED  BY <1>1, <1>3, <1>4, <1>5, <1>6, <1>8, <1>9, <1>10, <1>16

LEMMA SRBFEndsTypes ==
    ASSUME Types, SRBFEnds
    PROVE  /\ Types' /\ SameWork /\ i \in Procs
           /\ chart' = Running(i, otime, time)
           /\ \A p \in Procs : /\ table'[p].tat = table[p].tat
                               /\ table'[p].wait = table[p].tat - table[p].burst
<1>1. i \in Procs /\ i \in Nat /\ alg = "SRBF" /\ otime \in Nat /\ time \in Nat
  BY DEF Types, SRBFEnds
<1>2. SameWork /\ \A p \in Procs : /\ table'[p].tat = table[p].tat
                                   /\ table'[p].wait = table[p].tat - table[p].burst
  BY WaitsSet DEF SRBFEnds
<1>3. chart' = Running(i, otime, time)
  BY DEF SRBFEnds
<1>4. chart' \in Seq(Line)
  BY <1>1, <1>3, AppendedLine
<1>5. Procs' = Procs
  BY <1>2 DEF SameWork, Procs, N
<1>6. Types'
  BY <1>1, <1>2, <1>4, <1>5 DEF Types, SRBFEnds, SameWork
<1> QED  BY <1>1, <1>2, <1>3, <1>6

\* The steps that end an algorithm or the program, and stuttering.
Rest ==
    /\ UNCHANGED <<table, alg, time, otime, t, i, j, q, chart>>
    /\ pc' = pc \/ (pc # "SRBF" /\ pc' \in {"menu", "undefined", "exit"})

LEMMA RestSteps ==
    ASSUME FCFSEnds \/ RRBeyond \/ RREnds \/ Exit \/ UNCHANGED vars
    PROVE  Rest
  BY DEF FCFSEnds, RRBeyond, RREnds, Exit, vars, Rest

LEMMA RestTypes ==
    ASSUME Types, Rest
    PROVE  Types' /\ SameWork
<1>1. SameWork
  BY SameTable DEF Rest
<1>2. N' = N /\ Procs' = Procs
  BY DEF Rest, Procs, N
<1> QED  BY <1>1, <1>2 DEF Types, Rest, SameWork

LEMMA TypesNext ==
    ASSUME Types, [Next]_vars
    PROVE  Types'
  BY StartTypes, FCFSRunTypes, RRStepTypes, SRBFAdmitTypes, SRBFTickTypes, SRBFEndsTypes,
     RestSteps, RestTypes DEF Next, Step

\* The table is in range, the clock and what remains are numbers, and the process
\* whose turn it is is in the table, in any sequence of runs.
THEOREM TypeCorrect == Spec => []Types
<1>1. Types /\ [Next]_vars => Types'
  BY TypesNext
<1> QED  BY <1>1, TypesInit, PTL DEF Spec

-----------------------------------------------------------------------------
(* The time that the chart gives to a process *)

\* TimeOf, for any chart.
Spent(c, o, ls) ==
    LET own == {l \in ls : c[l].p = o}
    IN  SumFunctionOnSet([l \in own |-> c[l].to - c[l].from], own)

LEMMA SameSpent ==
    ASSUME NEW c, NEW d, NEW o, NEW ls, \A l \in ls : c[l] = d[l]
    PROVE  Spent(c, o, ls) = Spent(d, o, ls)
<1>1. {l \in ls : c[l].p = o} = {l \in ls : d[l].p = o}
  OBVIOUS
<1>2. [l \in {m \in ls : c[m].p = o} |-> c[l].to - c[l].from]
        = [l \in {m \in ls : d[m].p = o} |-> d[l].to - d[l].from]
  OBVIOUS
<1> QED  BY <1>1, <1>2 DEF Spent

LEMMA SpentAppend ==
    ASSUME NEW c \in Seq(Line), NEW d \in Seq(Line), NEW n \in Nat, Len(c) = n, Len(d) = n + 1,
           \A l \in 1 .. n : d[l] = c[l], NEW o
    PROVE  /\ Spent(c, o, 1 .. n) \in Int
           /\ Spent(d, o, 1 .. n + 1) = Spent(c, o, 1 .. n)
                + (IF d[n + 1].p = o THEN d[n + 1].to - d[n + 1].from ELSE 0)
<1> DEFINE own == {l \in 1 .. n : c[l].p = o}
           f == [l \in own |-> c[l].to - c[l].from]
           own2 == {l \in 1 .. n + 1 : d[l].p = o}
           g == [l \in own2 |-> d[l].to - d[l].from]
<1>1. \A l \in 1 .. n : c[l] \in Line
  OBVIOUS
<1>2. \A l \in 1 .. n + 1 : d[l] \in Line
  OBVIOUS
<1>3. IsFiniteSet(own)
  <2>1. IsFiniteSet(1 .. n)
    BY FS_Interval
  <2> QED  BY <2>1, FS_Subset
<1>4. IsFiniteSet(own2)
  <2>1. IsFiniteSet(1 .. n + 1)
    BY FS_Interval
  <2> QED  BY <2>1, FS_Subset
<1>5. \A l \in own : f[l] \in Int
  BY <1>1 DEF Line
<1>6. \A l \in own2 : g[l] \in Int
  BY <1>2 DEF Line
<1>7. SumFunctionOnSet(f, own) \in Int
  <2> HIDE DEF f, own
  <2> QED  BY <1>3, <1>5, SumSplits
<1>8. Spent(c, o, 1 .. n) = SumFunctionOnSet(f, own)
  BY DEF Spent
<1>9. Spent(d, o, 1 .. n + 1) = SumFunctionOnSet(g, own2)
  BY DEF Spent
<1>10. \A l \in own : l \in own2 /\ g[l] = f[l]
  OBVIOUS
<1>11. CASE d[n + 1].p = o
  <2>1. n + 1 \in own2 /\ own2 \ {n + 1} = own /\ g[n + 1] = d[n + 1].to - d[n + 1].from
    BY <1>11
  <2>2. SumFunctionOnSet(g, own) = SumFunctionOnSet(f, own)
    <3> HIDE DEF f, g, own, own2
    <3> QED  BY <1>3, <1>5, <1>6, <1>10, SumSame
  <2>3. SumFunctionOnSet(g, own2) = g[n + 1] + SumFunctionOnSet(g, own2 \ {n + 1})
    <3> HIDE DEF g, own2
    <3> QED  BY <1>4, <1>6, <2>1, SumSplits
  <2>4. g[n + 1] \in Int
    BY <1>6, <2>1
  <2> HIDE DEF f, g, own, own2
  <2>5. SumFunctionOnSet(g, own2) = SumFunctionOnSet(f, own) + g[n + 1]
    <3> DEFINE x == g[n + 1]   y == SumFunctionOnSet(f, own)
    <3>1. own2 \ {n + 1} = own
      BY <2>1
    <3>2. SumFunctionOnSet(g, own2) = x + y
      BY <3>1, <2>2, <2>3
    <3>3. x \in Int /\ y \in Int
      BY <1>7, <2>4
    <3> HIDE DEF x, y
    <3>4. SumFunctionOnSet(g, own2) = y + x
      BY <3>2, <3>3
    <3> QED  BY <3>4 DEF x, y
  <2>6. Spent(d, o, 1 .. n + 1) = Spent(c, o, 1 .. n) + (d[n + 1].to - d[n + 1].from)
    BY <1>8, <1>9, <2>1, <2>5
  <2> QED  BY <1>7, <1>8, <1>11, <2>6
<1>12. CASE d[n + 1].p # o
  <2>1. own2 = own
    BY <1>12
  <2>2. SumFunctionOnSet(g, own) = SumFunctionOnSet(f, own)
    <3> HIDE DEF f, g, own, own2
    <3> QED  BY <1>3, <1>5, <1>6, <1>10, SumSame
  <2> HIDE DEF f, g, own, own2
  <2> QED  BY <1>7, <1>8, <1>9, <1>12, <2>1, <2>2
<1> QED  BY <1>11, <1>12

LEMMA TimeIsSpent ==
    ASSUME NEW o, NEW ls
    PROVE  /\ TimeOf(o, ls) = Spent(chart, o, ls)
           /\ TimeOf(o, ls)' = Spent(chart', o, ls)
           /\ TimeOf(o, Lines) = Spent(chart, o, Lines)
           /\ TimeOf(o, Lines)' = Spent(chart', o, Lines')
  BY DEF TimeOf, Spent, Slice, Lines

\* Nobody has got anything before the first line.
LEMMA NothingSpent ==
    ASSUME NEW o, chart = <<>>
    PROVE  TimeOf(o, Lines) = 0
<1>1. {l \in Lines : chart[l].p = o} = {}
  BY DEF Lines
<1>2. \A f : SumFunctionOnSet(f, {}) = 0
  BY SumZero, FS_EmptySet
<1> QED  BY <1>1, <1>2 DEF TimeOf

LEMMA TimeIsNumber ==
    ASSUME Types, NEW o
    PROVE  TimeOf(o, Lines) \in Int
<1>1. chart \in Seq(Line) /\ Len(chart) \in Nat /\ Lines = 1 .. Len(chart)
  BY DEF Types, Lines
<1> DEFINE d == Append(chart, [p |-> 0, from |-> 0, to |-> 0])
<1>2. d \in Seq(Line) /\ Len(d) = Len(chart) + 1 /\ \A l \in 1 .. Len(chart) : d[l] = chart[l]
  <2>1. [p |-> 0, from |-> 0, to |-> 0] \in Line
    BY DEF Line
  <2> QED  BY <1>1, <2>1, AppendProperties
<1> HIDE DEF d
<1>3. Spent(chart, o, 1 .. Len(chart)) \in Int
  BY <1>1, <1>2, SpentAppend
<1> QED  BY <1>1, <1>3, TimeIsSpent

\* A line adds its length to the time of its process.
LEMMA TimeGrows ==
    ASSUME Types, NEW k \in Nat, NEW from \in Nat, NEW to \in Nat, chart' = Running(k, from, to)
    PROVE  /\ \A o : TimeOf(o, Lines)' = TimeOf(o, Lines) + (IF o = k THEN to - from ELSE 0)
           /\ \A o : \A b \in Lines : TimeOf(o, 1 .. b)' = TimeOf(o, 1 .. b)
<1>1. /\ chart' \in Seq(Line) /\ Len(chart') = Len(chart) + 1
      /\ Len(chart) \in Nat /\ Lines = 1 .. Len(chart) /\ Lines' = 1 .. Len(chart) + 1
      /\ \A l \in Lines : chart'[l] = chart[l]
      /\ chart'[Len(chart) + 1] = [p |-> k, from |-> from, to |-> to]
  BY AppendedLine
<1>2. chart \in Seq(Line)
  BY DEF Types
<1>3. ASSUME NEW o
      PROVE  TimeOf(o, Lines)' = TimeOf(o, Lines) + (IF o = k THEN to - from ELSE 0)
  <2>1. Spent(chart', o, 1 .. Len(chart) + 1) = Spent(chart, o, 1 .. Len(chart))
          + (IF chart'[Len(chart) + 1].p = o
             THEN chart'[Len(chart) + 1].to - chart'[Len(chart) + 1].from ELSE 0)
    <3> DEFINE c == chart'   n == Len(chart)
    <3>1. c \in Seq(Line) /\ n \in Nat /\ Len(c) = n + 1 /\ \A l \in 1 .. n : c[l] = chart[l]
      BY <1>1
    <3> HIDE DEF c
    <3> QED  BY <1>2, <3>1, SpentAppend DEF c
  <2> QED  BY <1>1, <2>1, TimeIsSpent
<1>4. ASSUME NEW o, NEW b \in Lines
      PROVE  TimeOf(o, 1 .. b)' = TimeOf(o, 1 .. b)
  <2>1. b \in Nat /\ \A l \in 1 .. b : chart[l] = chart'[l]
    BY <1>1
  <2>2. Spent(chart, o, 1 .. b) = Spent(chart', o, 1 .. b)
    BY <2>1, SameSpent
  <2> QED  BY <2>2, TimeIsSpent
<1> QED  BY <1>3, <1>4

-----------------------------------------------------------------------------
(* Work at every moment *)

\* Whether there is always work depends on what an algorithm leaves alone.
LEMMA BusyStays ==
    ASSUME Types, SameWork, Busy'
    PROVE  Busy
<1> SUFFICES ASSUME NEW p \in Procs
             PROVE  LET before == {o \in Procs : table[o].arr < table[p].arr}
                    IN  table[p].arr =< SumFunctionOnSet([o \in before |-> table[o].burst], before)
  BY DEF Busy
<1> DEFINE before == {o \in Procs : table[o].arr < table[p].arr}
           later == {o \in Procs' : table'[o].arr < table'[p].arr}
<1>1. Procs' = Procs
  BY DEF SameWork, Procs, N
<1>2. table'[p].arr =< SumFunctionOnSet([o \in later |-> table'[o].burst], later)
  BY <1>1 DEF Busy
<1>3. later = before
  BY <1>1 DEF SameWork
<1>4. [o \in later |-> table'[o].burst] = [o \in before |-> table[o].burst]
  BY <1>3 DEF SameWork
<1>5. table'[p].arr = table[p].arr
  BY DEF SameWork
<1> HIDE DEF before, later
<1> QED  BY <1>2, <1>3, <1>4, <1>5 DEF before

\* A process that comes after all that has been done is there.
LEMMA HasArrived ==
    ASSUME Types, Busy, Accounted, Clock, NEW p \in Procs,
           \A o \in Procs : table[o].arr < table[p].arr => Left(o) = 0
    PROVE  table[p].arr =< time
<1> DEFINE before == {o \in Procs : table[o].arr < table[p].arr}
           f == [o \in before |-> table[o].burst]
           g == [o \in Procs |-> Done(o)]
<1>1. table[p].arr =< SumFunctionOnSet(f, before)
  BY DEF Busy
<1>2. \A o \in before : f[o] \in Int /\ f[o] =< g[o]
  BY TableSize DEF Done
<1>3. \A o \in Procs : g[o] \in Nat
  BY TableSize DEF Done, Accounted
<1>4. before \in SUBSET Procs /\ IsFiniteSet(Procs)
  BY TableSize
<1>5. time = SumFunctionOnSet(g, Procs)
  BY DEF Clock
<1>6. table[p].arr \in Int /\ time \in Int
  BY TableSize DEF Types
<1>7. SumFunctionOnSet(f, before) \in Int
  <2>1. IsFiniteSet(before)
    BY <1>4, FS_Subset
  <2> HIDE DEF before, f
  <2> QED  BY <1>2, <2>1, SumSplits
<1> HIDE DEF before, f, g
<1>8. SumFunctionOnSet(f, before) =< SumFunctionOnSet(g, Procs)
  BY <1>2, <1>3, <1>4, SumOfMore
<1> QED  BY <1>1, <1>5, <1>6, <1>7, <1>8

\* When the time is the sum of all bursts, all are done, and not before.
LEMMA AllIsDone ==
    ASSUME Types, Accounted, Clock
    PROVE  time = Total <=> \A p \in Procs : Left(p) = 0
<1> DEFINE f == [p \in Procs |-> table[p].burst]
           g == [p \in Procs |-> Done(p)]
<1>1. IsFiniteSet(Procs) /\ \A p \in Procs : f[p] \in Int /\ g[p] \in Int /\ g[p] =< f[p]
  BY TableSize DEF Done, Accounted
<1>2. \A p \in Procs : g[p] = f[p] <=> Left(p) = 0
  BY TableSize DEF Done, Accounted
<1>3. time = SumFunctionOnSet(g, Procs) /\ Total = SumFunctionOnSet(f, Procs)
  BY DEF Clock, Total
<1> HIDE DEF f, g
<1>4. SumFunctionOnSet(g, Procs) = SumFunctionOnSet(f, Procs) => \A x \in Procs : g[x] = f[x]
  BY <1>1, SumCompares
<1>5. (\A x \in Procs : g[x] = f[x]) => SumFunctionOnSet(g, Procs) = SumFunctionOnSet(f, Procs)
  BY <1>1, SumSame
<1> QED  BY <1>2, <1>3, <1>4, <1>5

-----------------------------------------------------------------------------
(* What each step does to it *)

LEMMA Bound ==
    ASSUME Types, alg # "none", NEW p \in Procs
    PROVE  Left(p) \in Int /\ Done(p) \in Int /\ (~Came(p) => Left(p) = table[p].burst)
  BY TableSize DEF Types, Left, Done

\* An algorithm begins with nothing done.
LEMMA StartHolds ==
    ASSUME Types, StartFCFS \/ StartRR \/ StartSRBF
    PROVE  Types' /\ Sched'
<1>1. /\ Types' /\ N' = N /\ Procs' = Procs /\ Ordered'
      /\ chart' = <<>> /\ time' = 0 /\ otime' = 0 /\ i' = 1 /\ j' = 1
      /\ pc' = alg' /\ alg' \in {"FCFS", "RR", "SRBF"}
      /\ t' = [p \in Procs |-> IF alg' = "SRBF" THEN INT_MAX ELSE 0]
  BY StartTypes
<1>2. /\ Procs' = Procs /\ Procs = 1 .. N /\ N \in Nat \ {0} /\ IsFiniteSet(Procs)
      /\ \A p \in Procs : table'[p].arr \in Nat /\ table'[p].burst \in 1 .. INT_MAX - 1
  <2>1. Procs = 1 .. N /\ N \in Nat \ {0} /\ IsFiniteSet(Procs)
    BY TableSize
  <2>2. \A p \in Procs : table'[p] \in Row
    <3>1. table' \in Seq(Row) /\ Len(table') = N
      BY <1>1 DEF Types, N
    <3> QED  BY <2>1, <3>1
  <2> QED  BY <1>1, <2>1, <2>2 DEF Row
<1>3. \A p \in Procs : ~Came(p)' /\ Left(p)' = table'[p].burst /\ Done(p)' = 0 /\ Unprinted(p)' = 0
  <2>1. \A p \in Procs : ~Came(p)'
    BY <1>1, <1>2 DEF Came
  <2>2. \A p \in Procs : Left(p)' = table'[p].burst
    BY <2>1 DEF Left
  <2>3. \A p \in Procs : Done(p)' = 0
    BY <1>2, <2>2 DEF Done
  <2> QED  BY <1>1, <2>1, <2>2, <2>3 DEF Unprinted
<1>4. \A p \in Procs : TimeOf(p, Lines)' = 0
  <2>1. Lines' = {}
    BY <1>1 DEF Lines
  <2> SUFFICES ASSUME NEW p \in Procs  PROVE Spent(chart', p, {}) = 0
    BY <2>1, TimeIsSpent
  <2>2. {l \in {} : chart'[l].p = p} = {}
    OBVIOUS
  <2>3. \A f : SumFunctionOnSet(f, {}) = 0
    BY SumZero, FS_EmptySet
  <2> QED  BY <2>2, <2>3 DEF Spent
<1>5. Joined' /\ InTime'
  BY <1>1 DEF Joined, InTime, Lines, Printed
<1>6. Accounted'
  BY <1>2, <1>3, <1>4 DEF Accounted
<1>7. Clock'
  <2> DEFINE g == [p \in Procs |-> Done(p)']
  <2>1. \A p \in Procs : g[p] = 0
    BY <1>3
  <2>2. SumFunctionOnSet(g, Procs) = 0
    <3> HIDE DEF g
    <3> QED  BY <1>2, <2>1, SumZero
  <2>3. [p \in Procs' |-> Done(p)'] = g
    BY <1>1
  <2> QED  BY <1>1, <2>2, <2>3 DEF Clock
<1>8. Served' /\ Figures' /\ AllDone'
  BY <1>1, <1>2, <1>3 DEF Served, Figures, AllDone
<1>9. Queued'
  BY <1>1, <1>2, <1>3, IntMax DEF Queued
<1> QED  BY <1>1, <1>5, <1>6, <1>7, <1>8, <1>9 DEF Sched

LEMMA ClockNext ==
    ASSUME Types, Clock, SameWork, alg # "none", NEW k \in Procs, NEW run \in Int,
           \A p \in Procs : Done(p) \in Int,
           \A p \in Procs : Done(p)' = Done(p) + (IF p = k THEN run ELSE 0),
           time' = time + run
    PROVE  Clock'
<1> DEFINE f == [p \in Procs |-> Done(p)]
           g == [p \in Procs |-> Done(p)']
<1>1. Procs' = Procs /\ IsFiniteSet(Procs)
  BY TableSize DEF SameWork, Procs, N
<1>2. \A p \in Procs : f[p] \in Int /\ g[p] \in Int /\ (p # k => f[p] = g[p])
  OBVIOUS
<1>3. f[k] = Done(k) /\ g[k] = Done(k) + run /\ Done(k) \in Int
  OBVIOUS
<1>4. time = SumFunctionOnSet(f, Procs) /\ time \in Int
  BY DEF Clock, Types
<1>5. [p \in Procs' |-> Done(p)'] = g
  BY <1>1
<1> HIDE DEF f, g
<1>6. SumFunctionOnSet(g, Procs) = (SumFunctionOnSet(f, Procs) + g[k]) - f[k]
  BY <1>1, <1>2, SumChanges
<1>7. SumFunctionOnSet(g, Procs) = time'
  BY <1>3, <1>4, <1>6
<1> QED  BY <1>1, <1>5, <1>7 DEF Clock

LEMMA ClockStays ==
    ASSUME Clock, SameWork, \A p \in Procs : Done(p)' = Done(p), time' = time
    PROVE  Clock'
<1>1. Procs' = Procs
  BY DEF SameWork, Procs, N
<1>2. [p \in Procs' |-> Done(p)'] = [p \in Procs |-> Done(p)]
  BY <1>1
<1> QED  BY <1>1, <1>2 DEF Clock

LEMMA OrderStays ==
    ASSUME Ordered, SameWork
    PROVE  Ordered'
<1>1. Procs' = Procs
  BY DEF SameWork, Procs, N
<1> QED  BY <1>1 DEF Ordered, SameWork

\* Steps in which nobody runs.
LEMMA NobodyRuns ==
    ASSUME Types, Types', Sched, alg # "none", UNCHANGED <<table, time, otime, chart, alg>>,
           \A p \in Procs : Left(p)' = Left(p),
           \A p \in Procs : Came(p)' => Came(p) \/ table[p].arr =< time,
           \/ pc' = pc
           \/ pc # "SRBF" /\ pc' \in {"menu", "undefined", "exit"},
           pc = "SRBF" => i' = i,
           pc' = "menu" => \A p \in Procs : Left(p) = 0
    PROVE  /\ Ordered' /\ Joined' /\ InTime' /\ Accounted' /\ Clock'
           /\ Served' /\ Figures' /\ AllDone'
<1>1. SameWork
  BY SameTable
<1>2. Procs' = Procs /\ Lines' = Lines /\ Printed' = Printed
  BY DEF Procs, N, Lines, Printed
<1>3. \A p \in Procs : Done(p)' = Done(p) /\ Unprinted(p)' = Unprinted(p)
  BY DEF Done, Unprinted
<1>4. Ordered' /\ Clock'
  BY <1>1, <1>3, OrderStays, ClockStays DEF Sched
<1>5. Joined' /\ InTime'
  BY <1>2 DEF Sched, Joined, InTime, Slice
<1>6. Accounted'
  <2>1. \A p \in Procs : TimeOf(p, Lines)' = TimeOf(p, Lines)
    BY <1>2, TimeIsSpent
  <2> QED  BY <1>2, <1>3, <2>1 DEF Sched, Accounted
<1>7. Served'
  <2> SUFFICES ASSUME NEW p \in Procs, Came(p)'
               PROVE  table'[p].arr + Done(p)' =< time'
    BY <1>2 DEF Served
  <2>1. CASE Came(p)
    BY <1>3, <2>1 DEF Sched, Served
  <2>2. CASE ~Came(p)
    <3>1. Done(p) = 0 /\ table[p].arr \in Int
      BY <2>2, Bound, TableSize DEF Done
    <3> QED  BY <1>3, <2>2, <3>1
  <2> QED  BY <2>1, <2>2
<1>8. Figures'
  <2>1. \A l, p : IsLast(l, p)' = IsLast(l, p)
    BY <1>2 DEF IsLast, Slice
  <2> SUFFICES ASSUME NEW p \in Procs, Left(p)' = 0
               PROVE  /\ table'[p].tat >= table'[p].burst
                      /\ IF pc' = "SRBF" /\ p = i'
                         THEN otime' < time' /\ table'[p].tat = time' - table'[p].arr
                         ELSE \E l \in Lines' : IsLast(l, p)' /\ table'[p].tat = chart'[l].to - table'[p].arr
                      /\ pc' # "SRBF" => table'[p].wait = table'[p].tat - table'[p].burst
    BY <1>2 DEF Figures
  <2>2. Left(p) = 0
    OBVIOUS
  <2>3. (pc' = "SRBF") <=> (pc = "SRBF")
    OBVIOUS
  <2> QED  BY <1>2, <2>1, <2>2, <2>3 DEF Sched, Figures
<1>9. AllDone'
  BY <1>2 DEF AllDone
<1> QED  BY <1>4, <1>5, <1>6, <1>7, <1>8, <1>9

\* A new line is the last of its process if it is not empty, and leaves the last
\* lines of the others.
LEMMA LastLines ==
    ASSUME Types, NEW k \in Nat, NEW from \in Nat, NEW to \in Nat, chart' = Running(k, from, to),
           NEW p
    PROVE  /\ p = k /\ from < to => \E l \in Lines' : IsLast(l, p)' /\ chart'[l].to = to
           /\ p # k \/ from = to =>
                 \A l \in Lines : IsLast(l, p) => IsLast(l, p)' /\ l \in Lines' /\ chart'[l] = chart[l]
<1>1. /\ Len(chart) \in Nat /\ Lines = 1 .. Len(chart) /\ Lines' = 1 .. Len(chart) + 1
      /\ \A l \in Lines : chart'[l] = chart[l]
      /\ chart'[Len(chart) + 1] = [p |-> k, from |-> from, to |-> to]
  BY AppendedLine
<1>2. ASSUME p = k, from < to
      PROVE  \E l \in Lines' : IsLast(l, p)' /\ chart'[l].to = to
  <2>0. PICK n \in Lines' : n = Len(chart) + 1
    BY <1>1
  <2>1. n \in Lines' /\ \A m \in Lines' : ~ m > n
    BY <1>1, <2>0
  <2>2. chart'[n].p = p /\ chart'[n].from = from /\ chart'[n].to = to
    BY <1>1, <1>2, <2>0
  <2>3. to - from > 0
    BY <1>2
  <2>4. IsLast(n, p)'
    BY <2>1, <2>2, <2>3 DEF IsLast, Slice
  <2> QED  BY <2>1, <2>2, <2>4
<1>3. ASSUME p # k \/ from = to, NEW l \in Lines, IsLast(l, p)
      PROVE  IsLast(l, p)' /\ l \in Lines' /\ chart'[l] = chart[l]
  <2>1. l \in Lines' /\ chart'[l] = chart[l]
    BY <1>1
  <2>2. chart'[l].p = p /\ Slice(l)' > 0
    BY <2>1, <1>3 DEF IsLast, Slice
  <2>3. ASSUME NEW m \in Lines', m > l  PROVE chart'[m].p # p \/ Slice(m)' = 0
    <3>1. CASE m \in Lines
      BY <1>1, <1>3, <2>3, <3>1 DEF IsLast, Slice
    <3>2. CASE m = Len(chart) + 1
      BY <1>1, <1>3, <3>2 DEF Slice
    <3> QED  BY <1>1, <3>1, <3>2
  <2> QED  BY <2>1, <2>2, <2>3 DEF IsLast
<1> QED  BY <1>2, <1>3

LEMMA LineJoins ==
    ASSUME Types, Joined, InTime, SameWork, NEW k \in Procs, NEW from \in Nat, NEW to \in Nat,
           chart' = Running(k, from, to), from =< to, Printed = from, Printed' = to, to =< time',
           from < to => table[k].arr =< from
    PROVE  Joined' /\ InTime'
<1>1. k \in Nat
  BY TableSize
<1>2. /\ chart' # <<>> /\ Len(chart') = Len(chart) + 1
      /\ Len(chart) \in Nat /\ Lines = 1 .. Len(chart) /\ Lines' = 1 .. Len(chart) + 1
      /\ \A l \in Lines : chart'[l] = chart[l]
      /\ chart'[Len(chart) + 1] = [p |-> k, from |-> from, to |-> to]
  BY <1>1, AppendedLine
<1>3. Procs' = Procs /\ \A p \in Procs : table'[p].arr = table[p].arr /\ table[p].arr \in Nat
  BY TableSize DEF SameWork, Procs, N
<1>4. chart = <<>> <=> Len(chart) = 0
  BY DEF Types
<1>5. ASSUME NEW l \in Lines'
      PROVE  /\ chart'[l].p \in Procs'
             /\ chart'[l].from =< chart'[l].to /\ chart'[l].to =< Printed'
             /\ chart'[l].from = (IF l = 1 THEN 0 ELSE chart'[l - 1].to)
             /\ chart'[l].to - chart'[l].from > 0 => chart'[l].from >= table'[chart'[l].p].arr
  <2>1. CASE l \in Lines
    <3>1. l # 1 => l - 1 \in Lines
      BY <1>2, <2>1
    <3>2. chart'[l] = chart[l] /\ (l # 1 => chart'[l - 1] = chart[l - 1])
      BY <1>2, <2>1, <3>1
    <3>3. /\ chart[l].p \in Procs /\ chart[l].from =< chart[l].to /\ chart[l].to =< from
          /\ chart[l].from = (IF l = 1 THEN 0 ELSE chart[l - 1].to)
      BY <2>1 DEF Joined
    <3>4. chart[l].to - chart[l].from > 0 => chart[l].from >= table[chart[l].p].arr
      BY <2>1 DEF InTime, Slice
    <3>5. chart[l].to \in Nat
      <4>1. chart[l] \in Line
        BY <1>2, <2>1 DEF Types
      <4> QED  BY <4>1 DEF Line
    <3>6. chart'[l].to =< Printed'
      BY <3>2, <3>3, <3>5
    <3> QED  BY <1>3, <3>2, <3>3, <3>4, <3>6
  <2>2. CASE l = Len(chart) + 1
    <3>1. chart'[l].p = k /\ chart'[l].from = from /\ chart'[l].to = to
      BY <1>2, <2>2
    <3>2. from = (IF l = 1 THEN 0 ELSE chart'[l - 1].to)
      <4>1. CASE Len(chart) = 0
        BY <1>4, <2>2, <4>1 DEF Joined
      <4>2. CASE Len(chart) # 0
        <5>1. l # 1 /\ l - 1 = Len(chart) /\ chart'[Len(chart)] = chart[Len(chart)]
          BY <1>2, <2>2, <4>2
        <5> QED  BY <1>4, <4>2, <5>1 DEF Joined
      <4> QED  BY <4>1, <4>2
    <3> QED  BY <1>3, <3>1, <3>2
  <2> QED  BY <1>2, <2>1, <2>2
<1>6. chart'[Len(chart')].to = to
  BY <1>2
<1>7. Joined'
  BY <1>2, <1>5, <1>6 DEF Joined
<1>8. InTime'
  BY <1>5 DEF InTime, Slice
<1> QED  BY <1>7, <1>8

\* A turn in which process k runs for a while, from the present time on.
LEMMA ProcessRuns ==
    ASSUME Types, Types', Sched, SameWork, pc \in {"FCFS", "RR"}, UNCHANGED <<pc, alg>>,
           NEW k \in Procs, NEW run \in Nat \ {0},
           table[k].arr =< time, time' = time + run, chart' = Running(k, time, time + run),
           \A p \in Procs : p # k => Left(p)' = Left(p) /\ table'[p] = table[p],
           Left(k)' = Left(k) - run, Left(k)' >= 0,
           \A p \in Procs : Came(p)' => Came(p) \/ table[p].arr =< time,
           Left(k)' = 0 => /\ table'[k].tat = time' - table[k].arr
                           /\ table'[k].wait = table'[k].tat - table[k].burst
    PROVE  /\ Ordered' /\ Joined' /\ InTime' /\ Accounted' /\ Clock'
           /\ Served' /\ Figures' /\ AllDone'
<1>1. /\ Procs' = Procs /\ time \in Nat /\ time' \in Nat /\ k \in Nat /\ alg = pc
      /\ \A p \in Procs : /\ table'[p].arr = table[p].arr /\ table'[p].burst = table[p].burst
                          /\ table[p].arr \in Nat /\ table[p].burst \in Nat \ {0}
  <2>1. Procs' = Procs
    BY DEF SameWork, Procs, N
  <2>2. time \in Nat /\ time' \in Nat /\ alg = pc
    BY DEF Types
  <2>3. k \in Nat /\ \A p \in Procs : table[p].arr \in Nat /\ table[p].burst \in Nat \ {0}
    BY TableSize, IntMax
  <2> QED  BY <2>1, <2>2, <2>3 DEF SameWork
<1>2. \A p \in Procs : Left(p) \in Int /\ Done(p) \in Int
  BY <1>1, Bound
<1>3. \A p \in Procs : /\ Left(p)' = Left(p) - (IF p = k THEN run ELSE 0)
                       /\ Done(p)' = Done(p) + (IF p = k THEN run ELSE 0)
  <2>1. \A p \in Procs : Left(p)' = Left(p) - (IF p = k THEN run ELSE 0)
    BY <1>2
  <2>2. \A p \in Procs : Done(p) = table[p].burst - Left(p) /\ Done(p)' = table'[p].burst - Left(p)'
    BY DEF Done
  <2>3. ASSUME NEW p \in Procs
        PROVE  Done(p)' = Done(p) + (IF p = k THEN run ELSE 0)
    BY <1>1, <1>2, <2>1, <2>2
  <2> QED  BY <2>1, <2>3
<1>4. Ordered' /\ Clock'
  <2>1. Ordered /\ Clock
    BY DEF Sched
  <2>2. Ordered'
    BY <2>1, OrderStays
  <2>3. alg # "none" /\ run \in Int
    BY <1>1
  <2>4. Clock'
    BY <1>2, <1>3, <2>1, <2>3, ClockNext
  <2> QED  BY <2>2, <2>4
<1>5. Printed = time /\ Printed' = time'
  BY <1>1 DEF Printed
<1>6. Joined' /\ InTime'
  BY <1>1, <1>5, LineJoins DEF Sched
<1>7. \A p \in Procs : TimeOf(p, Lines)' = TimeOf(p, Lines) + (IF p = k THEN run ELSE 0)
  <2>1. \A p : TimeOf(p, Lines)' = TimeOf(p, Lines) + (IF p = k THEN (time + run) - time ELSE 0)
    BY <1>1, TimeGrows
  <2> QED  BY <1>1, <2>1
<1>8. \A p \in Procs : Unprinted(p) = 0 /\ Unprinted(p)' = 0
  BY <1>1 DEF Unprinted
<1>9. Accounted'
  <2> SUFFICES ASSUME NEW p \in Procs
               PROVE  Left(p)' \in 0 .. table[p].burst /\ TimeOf(p, Lines)' = Done(p)'
    <3>1. \A p \in Procs : Done(p)' \in Int
      BY <1>2, <1>3
    <3> QED  BY <1>1, <1>8, <3>1 DEF Accounted
  <2>1. Left(p) \in 0 .. table[p].burst /\ TimeOf(p, Lines) = Done(p)
    BY <1>2, <1>8, TimeIsNumber DEF Sched, Accounted
  <2>2. TimeOf(p, Lines)' = Done(p)'
    BY <1>3, <1>7, <2>1
  <2>3. Left(p)' \in 0 .. table[p].burst
    BY <1>1, <1>3, <2>1
  <2> QED  BY <2>2, <2>3
<1>10. Served'
  <2> SUFFICES ASSUME NEW p \in Procs, Came(p)'
               PROVE  table[p].arr + Done(p)' =< time'
    BY <1>1 DEF Served
  <2>1. table[p].arr + Done(p) =< time
    <3>1. CASE Came(p)
      BY <3>1 DEF Sched, Served
    <3>2. CASE ~Came(p)
      <4>1. Done(p) = 0 /\ table[p].arr =< time
        BY <1>1, <3>2, Bound DEF Done
      <4> QED  BY <1>1, <4>1
    <3> QED  BY <3>1, <3>2
  <2> QED  BY <1>1, <1>2, <1>3, <2>1
<1>11. Figures'
  <2> SUFFICES ASSUME NEW p \in Procs, Left(p)' = 0
               PROVE  /\ table'[p].tat >= table'[p].burst
                      /\ \E l \in Lines' : IsLast(l, p)' /\ table'[p].tat = chart'[l].to - table'[p].arr
                      /\ table'[p].wait = table'[p].tat - table'[p].burst
    BY <1>1 DEF Figures
  <2>1. CASE p = k
    <3>1. table'[k].tat = time' - table[k].arr /\ table'[k].wait = table'[k].tat - table[k].burst
      BY <2>1
    <3>2. table[k].arr + Done(k)' =< time' /\ Done(k)' = table[k].burst
      <4>1. Done(k)' = table[k].burst
        BY <1>1, <2>1 DEF Done
      <4>2. table[k].arr + Done(k) =< time
        <5>1. CASE Came(k)
          BY <5>1 DEF Sched, Served
        <5>2. CASE ~Came(k)
          <6>1. Done(k) = 0
            BY <1>1, <5>2, Bound DEF Done
          <6> QED  BY <1>1, <6>1
        <5> QED  BY <5>1, <5>2
      <4>3. table[k].arr + Done(k)' =< time'
        BY <1>1, <1>2, <1>3, <4>2
      <4> QED  BY <4>1, <4>3
    <3>3. table'[k].tat >= table[k].burst
      BY <1>1, <3>1, <3>2
    <3>4. \E l \in Lines' : IsLast(l, k)' /\ chart'[l].to = time'
      <4>1. time + run \in Nat /\ time < time + run
        BY <1>1
      <4>2. \E l \in Lines' : IsLast(l, k)' /\ chart'[l].to = time + run
        <5> DEFINE to == time + run
        <5>1. to \in Nat /\ time \in Nat /\ k \in Nat /\ time < to /\ chart' = Running(k, time, to)
          BY <1>1, <4>1
        <5> HIDE DEF to
        <5>2. \E l \in Lines' : IsLast(l, k)' /\ chart'[l].to = to
          BY <5>1, LastLines
        <5> QED  BY <5>2 DEF to
      <4> QED  BY <4>2
    <3> QED  BY <1>1, <2>1, <3>1, <3>3, <3>4
  <2>2. CASE p # k
    <3>1. Left(p) = 0 /\ table'[p] = table[p]
      BY <2>2
    <3>2. PICK l \in Lines : IsLast(l, p) /\ table[p].tat = chart[l].to - table[p].arr
      BY <1>1, <3>1 DEF Sched, Figures
    <3>3. IsLast(l, p)' /\ l \in Lines' /\ chart'[l] = chart[l]
      <4>1. time + run \in Nat
        BY <1>1
      <4> QED  BY <1>1, <2>2, <3>2, <4>1, LastLines
    <3>4. table[p].tat >= table[p].burst /\ table[p].wait = table[p].tat - table[p].burst
      BY <1>1, <3>1 DEF Sched, Figures
    <3> QED  BY <3>1, <3>2, <3>3, <3>4
  <2> QED  BY <2>1, <2>2
<1>12. AllDone'
  BY <1>1 DEF AllDone
<1> QED  BY <1>4, <1>6, <1>9, <1>10, <1>11, <1>12

LEMMA FCFSRunHolds ==
    ASSUME Types, Busy, Sched, FCFSRun
    PROVE  Types' /\ Sched'
<1>1. /\ Types' /\ SameWork /\ i \in Procs
      /\ \A p \in Procs : p # i => table'[p] = table[p]
      /\ table'[i].tat = time' - table[i].arr
      /\ table'[i].wait = table'[i].tat - table[i].burst
  BY FCFSRunTypes
<1>2. pc = "FCFS" /\ alg = "FCFS" /\ UNCHANGED <<pc, alg>> /\ i' = i + 1
  BY DEF Types, FCFSRun
<1>3. /\ Procs = 1 .. N /\ N \in Nat /\ time \in Nat
      /\ \A p \in Procs : table[p].arr \in Nat /\ table[p].burst \in Nat \ {0}
      /\ \A p \in Procs : table'[p].burst = table[p].burst
  BY <1>1, IntMax, TableSize DEF Types, SameWork
<1>4. \A p \in Procs : /\ Left(p) = IF p < i THEN 0 ELSE table[p].burst
                       /\ Left(p)' = IF p < i + 1 THEN 0 ELSE table[p].burst
                       /\ Came(p)' <=> p < i + 1
  BY <1>2, <1>3 DEF Left, Came
<1>5. table[i].arr =< time
  <2>1. \A o \in Procs : table[o].arr < table[i].arr => Left(o) = 0
    <3> SUFFICES ASSUME NEW o \in Procs, table[o].arr < table[i].arr  PROVE o < i
      BY <1>4
    <3>1. o >= i => table[i].arr =< table[o].arr
      BY <1>1 DEF Sched, Ordered
    <3> QED  BY <1>1, <1>3, <3>1
  <2> QED  BY <1>1, <2>1, HasArrived DEF Sched
<1> DEFINE run == table[i].burst
<1>6. run \in Nat \ {0} /\ time' = time + run /\ chart' = Running(i, time, time + run)
  BY <1>1, <1>3 DEF FCFSRun
<1>7. \A p \in Procs : p # i => Left(p)' = Left(p) /\ table'[p] = table[p]
  BY <1>1, <1>3, <1>4
<1>8. \E k \in Procs : k = i
  BY <1>1
<1>9. PICK k \in Procs : k = i
  BY <1>8
<1>10. Left(k)' = Left(k) - run /\ Left(k)' = 0
  BY <1>3, <1>4, <1>6, <1>9
<1>11. \A p \in Procs : Came(p)' => Came(p) \/ table[p].arr =< time
  BY <1>2, <1>3, <1>4, <1>5, <1>1 DEF Came
<1> HIDE DEF run
<1>12. /\ Ordered' /\ Joined' /\ InTime' /\ Accounted' /\ Clock'
       /\ Served' /\ Figures' /\ AllDone'
  BY <1>1, <1>2, <1>5, <1>6, <1>7, <1>9, <1>10, <1>11, ProcessRuns
<1>13. Queued'
  BY <1>2 DEF Queued
<1> QED  BY <1>1, <1>12, <1>13 DEF Sched

LEMMA RRStepHolds ==
    ASSUME Types, Sched, RRStep
    PROVE  /\ Types' /\ Sched'
           /\ \A p \in Procs : Left(p)' > 0 => Left(p) > 0
           /\ Remaining[i] # 0 => i < j'
           /\ Remaining[i] = 0 /\ Left(i) > 0 => i >= j'
<1>1. /\ Types' /\ SameWork /\ i \in Procs /\ t' \in [Procs -> Nat]
      /\ Remaining[i] # 0 =>
            /\ t'[i] = Remaining[i] - Lesser(Remaining[i], q)
            /\ time' = time + Lesser(Remaining[i], q)
            /\ chart' = Running(i, time, time + Lesser(Remaining[i], q))
            /\ \A p \in Procs : p # i => table'[p] = table[p] /\ t'[p] = Remaining[p]
            /\ t'[i] = 0 => /\ table'[i].tat = time' - table[i].arr
                            /\ table'[i].wait = table'[i].tat - table[i].burst
      /\ Remaining[i] = 0 => t' = Remaining /\ UNCHANGED <<table, time, chart>>
  BY RRStepTypes
<1>2. /\ pc = "RR" /\ alg = "RR" /\ UNCHANGED <<pc, alg, otime>>
      /\ j' = IF Admits THEN j + 1 ELSE j
  BY DEF Types, RRStep
<1>3. /\ Procs = 1 .. N /\ N \in Nat /\ time \in Nat /\ j \in 1 .. N + 1 /\ Procs' = Procs
      /\ \A p \in Procs : table[p].arr \in Nat /\ table[p].burst \in Nat \ {0} /\ table[p].burst < INT_MAX
      /\ \A p \in Procs : table'[p].burst = table[p].burst
  <2>1. Procs' = Procs
    BY <1>1 DEF SameWork, Procs, N
  <2>2. j \in 1 .. N + 1 /\ time \in Nat
    BY <1>2 DEF Types
  <2>3. Procs = 1 .. N /\ N \in Nat /\ \A p \in Procs : table[p].arr \in Nat
    BY TableSize
  <2>4. \A p \in Procs : table[p].burst \in Nat \ {0} /\ table[p].burst < INT_MAX
    BY TableSize, IntMax
  <2> QED  BY <1>1, <2>1, <2>2, <2>3, <2>4 DEF SameWork
<1>4. Admits <=> j =< N /\ table[j].arr =< time
  BY DEF Admits
<1>5. \A p \in Procs : t[p] \in 0 .. table[p].burst /\ (p >= j => t[p] = 0)
  <2>1. \A p \in Procs : t[p] \in Nat /\ t[p] =< table[p].burst /\ (p >= j => t[p] = 0)
    BY <1>2, <1>3 DEF Sched, Queued, Types
  <2> QED  BY <1>3, <2>1
<1>6. \A p \in Procs : Left(p) = IF p < j THEN t[p] ELSE table[p].burst
  BY <1>2, <1>3, <1>5, IntMax DEF Left, Came
<1>7. ASSUME NEW p \in Procs
      PROVE  /\ Remaining[p] \in 0 .. table[p].burst /\ (p >= j' => Remaining[p] = 0)
             /\ Left(p) = IF p < j' THEN Remaining[p] ELSE table[p].burst
  <2>1. Remaining[p] = IF Admits /\ p = j THEN table[j].burst ELSE t[p]
    BY <1>2, RemainingTypes
  <2>2. CASE p = j /\ Admits
    BY <1>2, <1>3, <1>5, <1>6, <2>1, <2>2
  <2>3. CASE ~ (p = j /\ Admits)
    <3>1. p < j' <=> p < j
      BY <1>2, <1>3, <2>3
    <3>2. Remaining[p] = t[p]
      BY <2>1, <2>3
    <3> QED  BY <1>2, <1>3, <1>5, <1>6, <2>3, <3>1, <3>2
  <2> QED  BY <2>2, <2>3
<1>8. \A p \in Procs : p < j' => p < j \/ table[p].arr =< time
  BY <1>2, <1>3, <1>4
<1>9. \A p \in Procs : Came(p)' => Came(p) \/ table[p].arr =< time
  BY <1>2, <1>8 DEF Came
<1>10. \A p \in Procs : t'[p] # INT_MAX =>
          Left(p)' = IF p < j' THEN t'[p] ELSE table[p].burst
  BY <1>2, <1>3 DEF Left, Came
<1>11. CASE Remaining[i] = 0
  <2>1. t' = Remaining /\ UNCHANGED <<table, time, chart>>
    BY <1>1, <1>11
  <2>2. \A p \in Procs : Left(p)' = Left(p)
    BY <1>3, <1>7, <1>10, <2>1, IntMax
  <2>3. /\ Ordered' /\ Joined' /\ InTime' /\ Accounted' /\ Clock'
        /\ Served' /\ Figures' /\ AllDone'
    BY <1>1, <1>2, <1>9, <2>1, <2>2, NobodyRuns
  <2>4. Queued'
    BY <1>2, <1>3, <1>7, <2>1 DEF Queued
  <2>5. i >= j' \/ Left(i) = 0
    BY <1>1, <1>2, <1>3, <1>7, <1>11
  <2>6. Types' /\ Sched'
    BY <1>1, <2>3, <2>4 DEF Sched
  <2> QED  BY <1>11, <2>2, <2>5, <2>6
<1>12. CASE Remaining[i] # 0
  <2> DEFINE run == Lesser(Remaining[i], q)
  <2>1. run \in Nat \ {0} /\ run =< Remaining[i]
    BY <1>2, <1>12, SliceOf
  <2>2. /\ t'[i] = Remaining[i] - run /\ time' = time + run /\ chart' = Running(i, time, time + run)
        /\ \A p \in Procs : p # i => table'[p] = table[p] /\ t'[p] = Remaining[p]
        /\ t'[i] = 0 => /\ table'[i].tat = time' - table[i].arr
                        /\ table'[i].wait = table'[i].tat - table[i].burst
    BY <1>1, <1>12
  <2> HIDE DEF run
  <2>3. \A p \in Procs : t'[p] \in 0 .. table[p].burst /\ (p >= j' => t'[p] = 0)
    <3> SUFFICES ASSUME NEW p \in Procs
                 PROVE  t'[p] \in 0 .. table[p].burst /\ (p >= j' => t'[p] = 0)
      OBVIOUS
    <3>1. CASE p # i
      BY <1>7, <2>2, <3>1
    <3>2. CASE p = i
      BY <1>3, <1>7, <1>12, <2>1, <2>2, <3>2
    <3> QED  BY <3>1, <3>2
  <2>4. i < j'
    BY <1>1, <1>2, <1>3, <1>7, <1>12
  <2>5. table[i].arr =< time
    <3>1. CASE i < j
      <4>1. Came(i)
        BY <1>2, <3>1 DEF Came
      <4>2. table[i].arr + Done(i) =< time
        BY <1>1, <4>1 DEF Sched, Served
      <4>3. Done(i) \in Nat
        BY <1>1, <1>3, <1>5, <1>6, <3>1 DEF Done
      <4> QED  BY <1>1, <1>3, <4>2, <4>3
    <3> QED  BY <1>1, <1>8, <2>4, <3>1
  <2>6. PICK k \in Procs : k = i
    BY <1>1
  <2>7. \A p \in Procs : Left(p)' = IF p < j' THEN t'[p] ELSE table[p].burst
    BY <1>3, <1>10, <2>3, IntMax
  <2>8. \A p \in Procs : p # k => Left(p)' = Left(p) /\ table'[p] = table[p]
    BY <1>7, <2>2, <2>6, <2>7
  <2>9. Left(k)' = Left(k) - run /\ Left(k)' >= 0 /\ Left(k)' = t'[k]
    BY <1>3, <1>7, <2>1, <2>2, <2>3, <2>4, <2>6, <2>7
  <2>10. /\ Ordered' /\ Joined' /\ InTime' /\ Accounted' /\ Clock'
         /\ Served' /\ Figures' /\ AllDone'
    BY <1>1, <1>2, <1>9, <2>1, <2>2, <2>5, <2>6, <2>8, <2>9, ProcessRuns
  <2>11. Queued'
    BY <1>2, <1>3, <2>3 DEF Queued
  <2>12. \A p \in Procs : Left(p)' > 0 => Left(p) > 0
    <3>1. \A p \in Procs : Left(p) \in Nat /\ Left(p)' \in Nat
      BY <1>3, <1>7, <2>3, <2>7
    <3> QED  BY <2>1, <2>6, <2>8, <2>9, <3>1
  <2>13. Types' /\ Sched'
    BY <1>1, <2>10, <2>11 DEF Sched
  <2> QED  BY <1>12, <2>4, <2>12, <2>13
<1> QED  BY <1>11, <1>12

\* Whoever sits in the menu or leaves it, and a step past the table.
LEMMA RestHolds ==
    ASSUME Types, Sched, alg # "none", FCFSEnds \/ RRBeyond \/ RREnds \/ Exit \/ UNCHANGED vars
    PROVE  Types' /\ Sched'
<1>1. Rest /\ Types'
  BY RestSteps, RestTypes
<1>2. \A p \in Procs : Left(p)' = Left(p) /\ (Came(p)' <=> Came(p))
  BY <1>1 DEF Rest, Left, Came
<1>3. pc' = "menu" => \A p \in Procs : Left(p) = 0
  <2>1. CASE FCFSEnds
    <3>1. i > N /\ pc = "FCFS" /\ alg = "FCFS" /\ Procs = 1 .. N /\ N \in Nat /\ i \in Nat
      BY <2>1, TableSize DEF FCFSEnds, Types
    <3>2. \A p \in Procs : p < i
      BY <3>1
    <3> QED  BY <3>1, <3>2 DEF Left, Came
  <2>2. CASE RREnds
    BY <2>2, AllIsDone DEF RREnds, Sched
  <2>3. CASE RRBeyond \/ Exit
    BY <2>3 DEF RRBeyond, Exit
  <2>4. CASE UNCHANGED vars
    BY <2>4 DEF vars, Sched, AllDone
  <2> QED  BY <2>1, <2>2, <2>3, <2>4
<1>4. /\ Ordered' /\ Joined' /\ InTime' /\ Accounted' /\ Clock'
      /\ Served' /\ Figures' /\ AllDone'
  BY <1>1, <1>2, <1>3, NobodyRuns DEF Rest
<1>5. Queued'
  BY <1>1 DEF Rest, Queued, Sched, Unprinted, Procs, N
<1> QED  BY <1>1, <1>4, <1>5 DEF Sched

\* What remains under shortest remaining burst first.
LEMMA RemainsLeft ==
    ASSUME Types, Sched, pc = "SRBF", NEW p \in Procs
    PROVE  /\ p < j => Left(p) = (IF t[p] = INT_MAX THEN 0 ELSE t[p]) /\ t[p] \in 0 .. INT_MAX
           /\ p >= j => Left(p) = table[p].burst /\ t[p] = INT_MAX
<1>1. alg = "SRBF" /\ t[p] \in Int /\ j \in Int /\ p \in Int
  BY TableSize DEF Types
<1>2. Left(p) \in 0 .. table[p].burst /\ table[p].burst \in 1 .. INT_MAX - 1
  BY TableSize DEF Sched, Accounted
<1>3. p >= j => t[p] = INT_MAX
  BY DEF Sched, Queued
<1> QED  BY <1>1, <1>2, <1>3, IntMax DEF Left, Came

LEMMA SRBFAdmitHolds ==
    ASSUME Types, Sched, SRBFAdmit
    PROVE  Types' /\ Sched'
<1>1. /\ Types' /\ SameWork /\ j \in Procs /\ j' = j + 1
      /\ \A p \in Procs : t'[p] = IF p = j THEN table[j].burst ELSE t[p]
  BY SRBFAdmitTypes
<1>2. /\ pc = "SRBF" /\ alg = "SRBF" /\ UNCHANGED <<table, pc, alg, time, otime, i, chart>>
      /\ table[j].arr = time
  BY DEF Types, SRBFAdmit
<1>3. /\ Procs = 1 .. N /\ N \in Nat /\ Procs' = Procs /\ N' = N /\ time \in Nat
      /\ \A p \in Procs : table[p].arr \in Nat /\ table[p].burst \in Nat \ {0} /\ table[p].burst # INT_MAX
  <2>1. Procs' = Procs /\ N' = N
    BY <1>1 DEF SameWork, Procs, N
  <2>2. \A p \in Procs : table[p].burst \in Nat \ {0} /\ table[p].burst # INT_MAX
    BY TableSize, IntMax
  <2> QED  BY <2>1, <2>2, TableSize DEF Types
<1>4. \A p \in Procs : Left(p)' = Left(p)
  <2> SUFFICES ASSUME NEW p \in Procs  PROVE Left(p)' = Left(p)
    OBVIOUS
  <2>1. CASE p = j
    BY <1>1, <1>2, <1>3, <2>1 DEF Left, Came
  <2>2. CASE p # j
    <3>1. p < j' <=> p < j
      BY <1>1, <1>3, <2>2
    <3> QED  BY <1>1, <1>2, <2>2, <3>1 DEF Left, Came
  <2> QED  BY <2>1, <2>2
<1>5. \A p \in Procs : Came(p)' => Came(p) \/ table[p].arr =< time
  BY <1>1, <1>2, <1>3 DEF Came
<1>6. /\ Ordered' /\ Joined' /\ InTime' /\ Accounted' /\ Clock'
      /\ Served' /\ Figures' /\ AllDone'
  <2>1. pc' = "menu" => \A p \in Procs : Left(p) = 0
    BY <1>2
  <2> QED  BY <1>1, <1>2, <1>4, <1>5, <2>1, NobodyRuns
<1>7. Queued'
  <2>1. \A p \in Procs : p >= j' => t'[p] = INT_MAX
    BY <1>1, <1>2, <1>3 DEF Sched, Queued
  <2>2. \A p \in Procs : t'[p] = 0 => p = i'
    BY <1>1, <1>2, <1>3 DEF Sched, Queued
  <2>3. j' =< N' => time' =< table'[j'].arr
    BY <1>1, <1>2, <1>3 DEF Sched, Ordered
  <2>4. Unprinted(i)' > 0 => table'[i'].arr =< otime'
    BY <1>2 DEF Sched, Queued, Unprinted
  <2> QED  BY <1>2, <1>3, <2>1, <2>2, <2>3, <2>4 DEF Queued
<1> QED  BY <1>1, <1>6, <1>7 DEF Sched

\* While time is left, somebody who is there is not done.
LEMMA SomebodyReady ==
    ASSUME Types, Busy, Sched, SRBFTick
    PROVE  \E p \in Procs : Rem[p] < INT_MAX
<1> SUFFICES ASSUME \A p \in Procs : ~ Rem[p] < INT_MAX  PROVE FALSE
  OBVIOUS
<1>1. pc = "SRBF" /\ time # Total /\ ~ (j =< N /\ table[j].arr = time)
  BY DEF SRBFTick
<1>2. /\ Rem \in [Procs -> Int]
      /\ \A p \in Procs : Rem[p] = IF p = i /\ t[p] = 0 THEN INT_MAX ELSE t[p]
  BY SRBFTickTypes
<1>3. /\ Procs = 1 .. N /\ N \in Nat /\ j \in 1 .. N + 1 /\ time \in Nat
      /\ \A p \in Procs : table[p].arr \in Nat
  BY <1>1, TableSize DEF Types
<1>4. \A p \in Procs : p < j => Left(p) = 0
  <2> SUFFICES ASSUME NEW p \in Procs, p < j  PROVE Left(p) = 0
    OBVIOUS
  <2>1. Left(p) = (IF t[p] = INT_MAX THEN 0 ELSE t[p]) /\ t[p] \in 0 .. INT_MAX
    BY <1>1, RemainsLeft
  <2>2. t[p] = 0 \/ t[p] = INT_MAX
    BY <1>2, <2>1, IntMax
  <2> QED  BY <2>1, <2>2
<1>5. j \in Procs
  <2>1. PICK p \in Procs : Left(p) # 0
    BY <1>1, AllIsDone DEF Sched
  <2> QED  BY <1>3, <1>4, <2>1
<1>6. table[j].arr =< time
  <2>1. ASSUME NEW o \in Procs, table[o].arr < table[j].arr  PROVE Left(o) = 0
    <3>1. j =< o => table[j].arr =< table[o].arr
      BY <1>5 DEF Sched, Ordered
    <3>2. o < j
      BY <1>3, <1>5, <2>1, <3>1
    <3> QED  BY <1>4, <3>2
  <2> QED  BY <1>5, <2>1, HasArrived DEF Sched
<1>7. time =< table[j].arr
  BY <1>1, <1>3, <1>5 DEF Sched, Queued
<1> QED  BY <1>1, <1>3, <1>5, <1>6, <1>7

LEMMA SRBFTickHolds ==
    ASSUME Types, Busy, Sched, SRBFTick
    PROVE  Types' /\ Sched'
<1>1. /\ Types' /\ SameWork /\ i \in Procs /\ i' \in Procs /\ time' = time + 1
      /\ Rem \in [Procs -> Int]
      /\ \A p \in Procs : Rem[p] = IF p = i /\ t[p] = 0 THEN INT_MAX ELSE t[p]
      /\ \A o \in Procs : Rem[i'] =< Rem[o]
      /\ \A p \in Procs : t'[p] = IF p = i' THEN Rem[p] - 1 ELSE Rem[p]
      /\ i' = i => UNCHANGED <<chart, otime>>
      /\ i' # i => chart' = Running(i, otime, time) /\ otime' = time
      /\ \A p \in Procs : p # i' => table'[p] = table[p]
      /\ t'[i'] = 0 => table'[i'].tat = time' - table[i'].arr
  BY SRBFTickTypes
<1>2. /\ pc = "SRBF" /\ alg = "SRBF" /\ UNCHANGED <<pc, alg, j>>
      /\ ~ (j =< N /\ table[j].arr = time)
  BY DEF Types, SRBFTick
<1>3. /\ Procs = 1 .. N /\ N \in Nat /\ Procs' = Procs /\ N' = N /\ time \in Nat /\ otime \in Nat
      /\ j \in 1 .. N + 1 /\ i \in Nat
      /\ \A p \in Procs : table[p].arr \in Nat /\ table[p].burst \in 1 .. INT_MAX - 1
      /\ \A p \in Procs : table'[p].arr = table[p].arr /\ table'[p].burst = table[p].burst
  <2>1. Procs' = Procs /\ N' = N
    BY <1>1 DEF SameWork, Procs, N
  <2>2. j \in 1 .. N + 1 /\ time \in Nat /\ otime \in Nat /\ i \in Nat
    BY <1>2 DEF Types
  <2>3. \A p \in Procs : table'[p].arr = table[p].arr /\ table'[p].burst = table[p].burst
    BY <1>1 DEF SameWork
  <2> QED  BY <2>1, <2>2, <2>3, TableSize
<1>4. PICK k \in Procs : k = i'
  BY <1>1
<1>5. \A p \in Procs : /\ Rem[p] # 0
                       /\ p < j => Left(p) = (IF Rem[p] = INT_MAX THEN 0 ELSE Rem[p]) /\ Rem[p] \in 1 .. INT_MAX
                       /\ p >= j => Left(p) = table[p].burst /\ Rem[p] = INT_MAX
  <2> SUFFICES ASSUME NEW p \in Procs
               PROVE  /\ Rem[p] # 0
                      /\ p < j => Left(p) = (IF Rem[p] = INT_MAX THEN 0 ELSE Rem[p]) /\ Rem[p] \in 1 .. INT_MAX
                      /\ p >= j => Left(p) = table[p].burst /\ Rem[p] = INT_MAX
    OBVIOUS
  <2>1. /\ p < j => Left(p) = (IF t[p] = INT_MAX THEN 0 ELSE t[p]) /\ t[p] \in 0 .. INT_MAX
        /\ p >= j => Left(p) = table[p].burst /\ t[p] = INT_MAX
    BY <1>2, RemainsLeft
  <2>2. t[p] = 0 => p = i
    BY <1>2 DEF Sched, Queued
  <2>3. p < j \/ p >= j
    BY <1>3
  <2> QED  BY <1>1, <2>1, <2>2, <2>3, IntMax
<1>6. Rem[k] \in 1 .. INT_MAX - 1 /\ k < j /\ Left(k) = Rem[k]
  <2>1. PICK p \in Procs : Rem[p] < INT_MAX
    BY SomebodyReady
  <2>2. Rem[k] < INT_MAX
    BY <1>1, <1>4, <2>1, IntMax
  <2> QED  BY <1>3, <1>5, <2>2, IntMax
<1>7. \A p \in Procs : Left(p)' = Left(p) - (IF p = k THEN 1 ELSE 0)
  <2> SUFFICES ASSUME NEW p \in Procs  PROVE Left(p)' = Left(p) - (IF p = k THEN 1 ELSE 0)
    OBVIOUS
  <2>1. Left(p) \in Int
    BY <1>2, Bound
  <2>2. Left(p)' = IF p < j THEN (IF t'[p] = INT_MAX THEN 0 ELSE t'[p]) ELSE table[p].burst
    BY <1>2, <1>3 DEF Left, Came
  <2>3. CASE p = k
    <3>1. t'[p] = Rem[k] - 1
      BY <1>1, <1>4, <2>3
    <3> QED  BY <1>6, <2>2, <2>3, <3>1
  <2>4. CASE p # k
    <3>1. t'[p] = Rem[p]
      BY <1>1, <1>4, <2>4
    <3> QED  BY <1>3, <1>5, <2>1, <2>2, <2>4, <3>1
  <2> QED  BY <2>3, <2>4
<1>8. \A p \in Procs : /\ Left(p) \in Int /\ Done(p) \in Int
                       /\ Done(p)' = Done(p) + (IF p = k THEN 1 ELSE 0)
  <2> SUFFICES ASSUME NEW p \in Procs
               PROVE  Left(p) \in Int /\ Done(p) \in Int
                      /\ Done(p)' = Done(p) + (IF p = k THEN 1 ELSE 0)
    OBVIOUS
  <2>1. Left(p) \in Int /\ Done(p) \in Int /\ table[p].burst \in Int
    BY <1>2, <1>3, Bound
  <2>2. Done(p) = table[p].burst - Left(p) /\ Done(p)' = table[p].burst - Left(p)'
    BY <1>3 DEF Done
  <2> QED  BY <1>7, <2>1, <2>2
<1>9. Ordered' /\ Clock'
  <2>1. Ordered /\ Clock /\ alg # "none"
    BY <1>2 DEF Sched
  <2>2. Ordered'
    BY <1>1, <2>1, OrderStays
  <2>3. Clock'
    BY <1>1, <1>8, <2>1, ClockNext
  <2> QED  BY <2>2, <2>3
<1>10. otime =< time /\ otime' =< time /\ (Unprinted(i) = time - otime)
  <2>1. otime =< time
    BY <1>2 DEF Sched, Joined, Printed
  <2> QED  BY <1>1, <1>2, <1>3, <2>1 DEF Unprinted
<1>11. table[k].arr + Done(k) =< time
  BY <1>2, <1>6 DEF Sched, Served, Came
<1>12. Done(k) \in Nat /\ table[k].arr =< time
  <2>1. Done(k) \in Nat
    BY <1>2, <1>3 DEF Sched, Accounted, Done
  <2> QED  BY <1>3, <1>11, <2>1
<1>13. Joined' /\ InTime'
  <2>1. CASE i' = i
    <3>1. UNCHANGED <<chart, otime, pc>> /\ Lines' = Lines
      BY <1>1, <1>2, <2>1 DEF Lines
    <3>2. Joined'
      BY <1>1, <1>2, <1>3, <1>10, <3>1 DEF Sched, Joined, Printed
    <3>3. InTime'
      BY <1>3, <3>1 DEF Sched, Joined, InTime, Slice
    <3> QED  BY <3>2, <3>3
  <2>2. CASE i' # i
    <3>1. chart' = Running(i, otime, time) /\ otime' = time
      BY <1>1, <2>2
    <3>2. Printed = otime /\ Printed' = time
      BY <1>2, <3>1 DEF Printed
    <3>3. otime < time => table[i].arr =< otime
      BY <1>2, <1>3, <1>10 DEF Sched, Queued
    <3>4. time =< time'
      BY <1>1, <1>3
    <3> QED  BY <1>1, <1>3, <1>10, <3>1, <3>2, <3>3, <3>4, LineJoins DEF Sched
  <2> QED  BY <2>1, <2>2
<1>14. \A p \in Procs : TimeOf(p, Lines)' + Unprinted(p)'
                          = (TimeOf(p, Lines) + Unprinted(p)) + (IF p = k THEN 1 ELSE 0)
  <2> SUFFICES ASSUME NEW p \in Procs
               PROVE  TimeOf(p, Lines)' + Unprinted(p)'
                          = (TimeOf(p, Lines) + Unprinted(p)) + (IF p = k THEN 1 ELSE 0)
    OBVIOUS
  <2>1. TimeOf(p, Lines) \in Int
    BY TimeIsNumber
  <2>2. /\ Unprinted(p) = (IF p = i THEN time - otime ELSE 0)
        /\ Unprinted(p)' = (IF p = k THEN (time + 1) - otime' ELSE 0)
    BY <1>1, <1>2, <1>4 DEF Unprinted
  <2>3. CASE i' = i
    <3>1. TimeOf(p, Lines)' = TimeOf(p, Lines) /\ otime' = otime
      BY <1>1, <2>3, TimeIsSpent DEF Lines
    <3> QED  BY <1>3, <1>4, <2>1, <2>2, <2>3, <3>1
  <2>4. CASE i' # i
    <3>1. chart' = Running(i, otime, time) /\ otime' = time
      BY <1>1, <2>4
    <3>2. TimeOf(p, Lines)' = TimeOf(p, Lines) + (IF p = i THEN time - otime ELSE 0)
      BY <1>3, <3>1, TimeGrows
    <3> QED  BY <1>3, <1>4, <2>1, <2>2, <2>4, <3>1, <3>2
  <2> QED  BY <2>3, <2>4
<1>15. Accounted'
  <2> SUFFICES ASSUME NEW p \in Procs
               PROVE  Left(p)' \in 0 .. table[p].burst /\ TimeOf(p, Lines)' + Unprinted(p)' = Done(p)'
    BY <1>3 DEF Accounted
  <2>1. Left(p) \in 0 .. table[p].burst /\ TimeOf(p, Lines) + Unprinted(p) = Done(p)
    BY DEF Sched, Accounted
  <2>2. Left(p)' \in 0 .. table[p].burst
    BY <1>3, <1>6, <1>7, <2>1
  <2> QED  BY <1>8, <1>14, <2>1, <2>2
<1>16. Served'
  <2> SUFFICES ASSUME NEW p \in Procs, Came(p)'
               PROVE  table[p].arr + Done(p)' =< time'
    BY <1>3 DEF Served
  <2>1. Came(p)
    BY <1>2 DEF Came
  <2>2. table[p].arr + Done(p) =< time
    BY <2>1 DEF Sched, Served
  <2>3. Done(p)' = Done(p) \/ Done(p)' = Done(p) + 1
    BY <1>8
  <2>4. table[p].arr \in Nat /\ Done(p) \in Int /\ time \in Nat /\ time' = time + 1
    BY <1>1, <1>3, <1>8
  <2> QED  BY <2>2, <2>3, <2>4
<1>17. Queued'
  <2>1. \A p \in Procs : p >= j => t'[p] = INT_MAX
    BY <1>1, <1>3, <1>4, <1>5, <1>6
  <2>2. \A p \in Procs : t'[p] = 0 => p = i'
    BY <1>1, <1>5
  <2>3. j =< N => time' =< table'[j].arr
    <3>1. j =< N => j \in Procs /\ time =< table[j].arr
      BY <1>2, <1>3 DEF Sched, Queued
    <3>2. j =< N => time # table[j].arr
      BY <1>2
    <3>3. j =< N => table'[j].arr = table[j].arr /\ table[j].arr \in Nat
      BY <1>3, <3>1
    <3>4. time' = time + 1 /\ time \in Nat
      BY <1>1, <1>3
    <3> QED  BY <3>1, <3>2, <3>3, <3>4
  <2>4. table'[i'].arr =< otime'
    <3>1. CASE i' = i
      <4>1. otime' = otime /\ k = i
        BY <1>1, <1>4, <3>1
      <4>2. otime < time => table[i].arr =< otime
        BY <1>2, <1>3, <1>10 DEF Sched, Queued
      <4>3. table'[i'].arr = table[i].arr /\ table[i].arr =< time
        BY <1>3, <1>4, <1>12, <4>1
      <4>4. otime < time \/ otime = time
        BY <1>3, <1>10
      <4> QED  BY <4>1, <4>2, <4>3, <4>4
    <3>2. CASE i' # i
      BY <1>1, <1>3, <1>4, <1>12, <3>2
    <3> QED  BY <3>1, <3>2
  <2> QED  BY <1>2, <1>3, <2>1, <2>2, <2>3, <2>4 DEF Queued
<1>18. Figures'
  <2> SUFFICES ASSUME NEW p \in Procs, Left(p)' = 0
               PROVE  /\ table'[p].tat >= table[p].burst
                      /\ IF p = k THEN otime' < time' /\ table'[p].tat = time' - table[p].arr
                         ELSE \E l \in Lines' : IsLast(l, p)' /\ table'[p].tat = chart'[l].to - table[p].arr
    BY <1>2, <1>3, <1>4 DEF Figures
  <2>1. CASE p = k
    <3>1. t'[k] = 0
      BY <1>1, <1>4, <1>6, <1>7, <2>1
    <3>2. table'[k].tat = time' - table[k].arr
      BY <1>1, <1>4, <3>1
    <3>3. otime' < time'
      <4>1. otime' \in Int
        BY <1>1, <1>3
      <4> QED  BY <1>1, <1>3, <1>10, <4>1
    <3>4. Done(k) + 1 = table[k].burst
      BY <1>3, <1>7, <1>8, <2>1 DEF Done
    <3>5. table'[k].tat >= table[k].burst
      <4>1. table[k].arr \in Nat /\ time \in Nat
        BY <1>3
      <4>2. time' = time + 1 /\ Done(k) \in Nat
        BY <1>1, <1>12
      <4> QED  BY <1>11, <3>2, <3>4, <4>1, <4>2
    <3>6. table'[p].tat >= table[p].burst
      BY <2>1, <3>5
    <3>7. otime' < time' /\ table'[p].tat = time' - table[p].arr
      BY <2>1, <3>2, <3>3
    <3> QED  BY <2>1, <3>6, <3>7
  <2>2. CASE p # k
    <3>1. Left(p) = 0 /\ table'[p] = table[p]
      BY <1>1, <1>4, <1>7, <1>8, <2>2
    <3>2. table[p].tat >= table[p].burst
      BY <3>1 DEF Sched, Figures
    <3>3. CASE p = i
      <4>1. otime < time /\ table[p].tat = time - table[p].arr
        BY <1>2, <3>1, <3>3 DEF Sched, Figures
      <4>2. chart' = Running(i, otime, time)
        BY <1>1, <1>4, <2>2, <3>3
      <4>3. time \in Nat /\ otime \in Nat /\ i \in Nat /\ otime < time
        BY <1>3, <4>1
      <4>4. \E l \in Lines' : IsLast(l, p)' /\ chart'[l].to = time
        BY <3>3, <4>2, <4>3, LastLines
      <4> QED  BY <2>2, <3>1, <3>2, <4>1, <4>4
    <3>4. CASE p # i
      <4>1. PICK l \in Lines : IsLast(l, p) /\ table[p].tat = chart[l].to - table[p].arr
        BY <1>2, <3>1, <3>4 DEF Sched, Figures
      <4>2. IsLast(l, p)' /\ l \in Lines' /\ chart'[l] = chart[l]
        <5>1. CASE i' = i
          <6>1. chart' = chart /\ Lines' = Lines
            BY <1>1, <5>1 DEF Lines
          <6> QED  BY <4>1, <6>1 DEF IsLast, Slice
        <5>2. CASE i' # i
          <6>1. chart' = Running(i, otime, time)
            BY <1>1, <5>2
          <6>2. i \in Nat /\ otime \in Nat /\ time \in Nat
            BY <1>3
          <6> QED  BY <3>4, <4>1, <6>1, <6>2, LastLines
        <5> QED  BY <5>1, <5>2
      <4> QED  BY <2>2, <3>1, <3>2, <4>1, <4>2
    <3> QED  BY <3>3, <3>4
  <2> QED  BY <2>1, <2>2
<1>19. AllDone'
  BY <1>2 DEF AllDone
<1> QED  BY <1>1, <1>9, <1>13, <1>15, <1>16, <1>17, <1>18, <1>19 DEF Sched

LEMMA SRBFEndsHolds ==
    ASSUME Types, Sched, SRBFEnds
    PROVE  Types' /\ Sched'
<1>1. /\ Types' /\ SameWork /\ i \in Procs
      /\ chart' = Running(i, otime, time)
      /\ \A p \in Procs : /\ table'[p].tat = table[p].tat
                          /\ table'[p].wait = table[p].tat - table[p].burst
  BY SRBFEndsTypes
<1>2. /\ pc = "SRBF" /\ alg = "SRBF" /\ pc' = "menu" /\ time = Total
      /\ UNCHANGED <<alg, time, otime, t, i, j, q>>
  BY DEF Types, SRBFEnds
<1>3. /\ Procs' = Procs /\ time \in Nat /\ otime \in Nat /\ i \in Nat
      /\ \A p \in Procs : table'[p].arr = table[p].arr /\ table'[p].burst = table[p].burst
  BY <1>1 DEF SameWork, Types, Procs, N
<1>4. \A p \in Procs : Left(p) = 0
  BY <1>2, AllIsDone DEF Sched
<1>5. \A p \in Procs : Left(p)' = Left(p) /\ Done(p)' = Done(p) /\ (Came(p)' <=> Came(p))
  BY <1>2, <1>3 DEF Left, Done, Came
<1>6. Ordered' /\ Clock'
  BY <1>1, <1>2, <1>5, OrderStays, ClockStays DEF Sched
<1>7. otime =< time /\ Printed = otime /\ Printed' = time
  BY <1>2 DEF Sched, Joined, Printed
<1>8. otime < time => table[i].arr =< otime
  <2>1. Unprinted(i) = time - otime
    BY <1>2 DEF Unprinted
  <2> QED  BY <1>2, <1>3, <2>1 DEF Sched, Queued
<1>9. Joined' /\ InTime'
  BY <1>1, <1>2, <1>3, <1>7, <1>8, LineJoins DEF Sched
<1>10. Accounted'
  <2> SUFFICES ASSUME NEW p \in Procs
               PROVE  Left(p)' \in 0 .. table[p].burst /\ TimeOf(p, Lines)' + Unprinted(p)' = Done(p)'
    BY <1>3 DEF Accounted
  <2>1. Left(p) \in 0 .. table[p].burst /\ TimeOf(p, Lines) + Unprinted(p) = Done(p)
    BY DEF Sched, Accounted
  <2>2. /\ Unprinted(p) = (IF p = i THEN time - otime ELSE 0) /\ Unprinted(p)' = 0
    BY <1>2 DEF Unprinted
  <2>3. TimeOf(p, Lines)' = TimeOf(p, Lines) + (IF p = i THEN time - otime ELSE 0)
    BY <1>1, <1>3, TimeGrows
  <2>4. TimeOf(p, Lines) \in Int
    BY TimeIsNumber
  <2> QED  BY <1>3, <1>5, <2>1, <2>2, <2>3, <2>4
<1>11. Served' /\ Queued' /\ AllDone'
  BY <1>2, <1>3, <1>4, <1>5 DEF Sched, Served, Queued, AllDone
<1>12. Figures'
  <2> SUFFICES ASSUME NEW p \in Procs
               PROVE  /\ table[p].tat >= table[p].burst
                      /\ \E l \in Lines' : IsLast(l, p)' /\ table[p].tat = chart'[l].to - table[p].arr
    BY <1>1, <1>2, <1>3 DEF Figures
  <2>1. table[p].tat >= table[p].burst
    BY <1>4 DEF Sched, Figures
  <2>2. CASE p = i
    <3>1. otime < time /\ table[p].tat = time - table[p].arr
      BY <1>2, <1>4, <2>2 DEF Sched, Figures
    <3>2. \E l \in Lines' : IsLast(l, p)' /\ chart'[l].to = time
      <4>1. chart' = Running(i, otime, time) /\ time \in Nat /\ otime \in Nat /\ i \in Nat
        BY <1>1, <1>3
      <4> QED  BY <2>2, <3>1, <4>1, LastLines
    <3> QED  BY <2>1, <3>1, <3>2
  <2>3. CASE p # i
    <3>1. PICK l \in Lines : IsLast(l, p) /\ table[p].tat = chart[l].to - table[p].arr
      BY <1>2, <1>4, <2>3 DEF Sched, Figures
    <3>2. IsLast(l, p)' /\ l \in Lines' /\ chart'[l] = chart[l]
      BY <1>1, <1>3, <2>3, <3>1, LastLines
    <3> QED  BY <2>1, <3>1, <3>2
  <2> QED  BY <2>2, <2>3
<1> QED  BY <1>1, <1>6, <1>9, <1>10, <1>11, <1>12 DEF Sched

-----------------------------------------------------------------------------
(* Every run is a schedule *)

LEMMA InvNext ==
    ASSUME Inv, [Next]_vars
    PROVE  Inv'
<1>1. Types
  BY DEF Inv
<1>2. CASE StartFCFS \/ StartRR \/ StartSRBF
  BY <1>1, <1>2, StartHolds DEF Inv
<1>3. ASSUME SameWork, UNCHANGED alg, Busy', alg' # "none"
      PROVE  Busy /\ alg # "none" /\ Sched
  BY <1>1, <1>3, BusyStays DEF Inv
<1>4. CASE FCFSRun
  <2>1. SameWork /\ Types' /\ UNCHANGED alg
    BY <1>1, <1>4, FCFSRunTypes DEF FCFSRun
  <2> QED  BY <1>1, <1>3, <1>4, <2>1, FCFSRunHolds DEF Inv
<1>5. CASE RRStep
  <2>1. SameWork /\ Types' /\ UNCHANGED alg
    BY <1>1, <1>5, RRStepTypes DEF RRStep
  <2> QED  BY <1>1, <1>3, <1>5, <2>1, RRStepHolds DEF Inv
<1>6. CASE SRBFAdmit
  <2>1. SameWork /\ Types' /\ UNCHANGED alg
    BY <1>1, <1>6, SRBFAdmitTypes DEF SRBFAdmit
  <2> QED  BY <1>1, <1>3, <1>6, <2>1, SRBFAdmitHolds DEF Inv
<1>7. CASE SRBFTick
  <2>1. SameWork /\ Types' /\ UNCHANGED alg
    BY <1>1, <1>7, SRBFTickTypes DEF SRBFTick
  <2> QED  BY <1>1, <1>3, <1>7, <2>1, SRBFTickHolds DEF Inv
<1>8. CASE SRBFEnds
  <2>1. SameWork /\ Types' /\ UNCHANGED alg
    BY <1>1, <1>8, SRBFEndsTypes DEF SRBFEnds
  <2> QED  BY <1>1, <1>3, <1>8, <2>1, SRBFEndsHolds DEF Inv
<1>9. CASE FCFSEnds \/ RRBeyond \/ RREnds \/ Exit \/ UNCHANGED vars
  <2>1. SameWork /\ Types' /\ UNCHANGED alg
    BY <1>1, <1>9, RestSteps, RestTypes DEF Rest
  <2> QED  BY <1>1, <1>3, <1>9, <2>1, RestHolds DEF Inv
<1> QED  BY <1>2, <1>4, <1>5, <1>6, <1>7, <1>8, <1>9 DEF Next, Step

LEMMA Invariant == Spec => []Inv
<1>1. Init => Inv
  BY TypesInit DEF Init, Inv
<1>2. Inv /\ [Next]_vars => Inv'
  BY InvNext
<1> QED  BY <1>1, <1>2, PTL DEF Spec

\* What any algorithm prints, on a table with work at every moment, is a
\* schedule: it begins at 0 without gaps or overlaps, nobody runs before it
\* arrives or for longer than its burst, and in the end everybody had all of it.
THEOREM ChartsAreSchedules == Spec => []ChartIsSchedule
<1>1. ASSUME Inv  PROVE ChartIsSchedule
  <2> SUFFICES ASSUME Busy, alg # "none"
               PROVE  /\ \A l \in Lines : chart[l].from = (IF l = 1 THEN 0 ELSE chart[l - 1].to)
                      /\ \A l \in Lines : Slice(l) > 0 => chart[l].from >= table[chart[l].p].arr
                      /\ \A p \in Procs : TimeOf(p, Lines) =< table[p].burst
                      /\ Finished => \A p \in Procs : TimeOf(p, Lines) = table[p].burst
    BY DEF ChartIsSchedule
  <2>1. Types /\ Sched
    BY <1>1 DEF Inv
  <2>2. \A p \in Procs : /\ TimeOf(p, Lines) + Unprinted(p) = table[p].burst - Left(p)
                         /\ Left(p) \in 0 .. table[p].burst
    BY <2>1 DEF Sched, Accounted, Done
  <2>3. \A p \in Procs : TimeOf(p, Lines) \in Int /\ table[p].burst \in Int
    BY <2>1, TableSize, TimeIsNumber
  <2>4. \A p \in Procs : Unprinted(p) \in Nat
    BY <2>1 DEF Types, Sched, Joined, Printed, Unprinted
  <2>5. \A p \in Procs : TimeOf(p, Lines) =< table[p].burst
    BY <2>2, <2>3, <2>4
  <2>6. ASSUME Finished, NEW p \in Procs  PROVE TimeOf(p, Lines) = table[p].burst
    <3>1. pc = "menu" /\ Left(p) = 0
      BY <2>1, <2>6 DEF Finished, Sched, AllDone
    <3>2. Unprinted(p) = 0
      BY <3>1 DEF Unprinted
    <3> QED  BY <2>2, <2>3, <3>1, <3>2
  <2> QED  BY <2>1, <2>5, <2>6 DEF Sched, Joined, InTime
<1> QED  BY <1>1, Invariant, PTL

\* On a table with work at every moment (Busy) the turnaround and waiting times
\* that an algorithm leaves there are those of the chart it printed: every
\* process ends, so none keeps a figure of an earlier run.  On a table with a gap
\* SRBF may stop before that, and nothing is claimed.
THEOREM StatsFollowChart == Spec => []StatsMatchChart
<1>1. ASSUME Inv  PROVE StatsMatchChart
  <2> SUFFICES ASSUME Busy, Finished, NEW p \in Procs
               PROVE  /\ table[p].tat = chart[LastOf(p)].to - table[p].arr
                      /\ table[p].wait = (chart[LastOf(p)].to - table[p].arr) - table[p].burst
                      /\ table[p].wait >= 0
    BY DEF StatsMatchChart
  <2>1. Types /\ Sched /\ pc = "menu"
    BY <1>1 DEF Inv, Finished
  <2>2. Left(p) = 0
    BY <2>1 DEF Sched, AllDone
  <2>3. /\ table[p].tat >= table[p].burst
        /\ table[p].wait = table[p].tat - table[p].burst
    BY <2>1, <2>2 DEF Sched, Figures
  <2>4. PICK l \in Lines : IsLast(l, p) /\ table[p].tat = chart[l].to - table[p].arr
    BY <2>1, <2>2 DEF Sched, Figures
  <2>5. Lines \subseteq Int
    BY <2>1 DEF Lines, Types
  <2>6. ASSUME NEW m \in Lines, IsLast(m, p)  PROVE m = l
    BY <2>4, <2>5, <2>6 DEF IsLast
  <2>7. LastOf(p) = CHOOSE m \in Lines : IsLast(m, p)
    BY DEF LastOf, IsLast
  <2>8. LastOf(p) = l
    BY <2>4, <2>6, <2>7
  <2> QED  BY <2>1, <2>3, <2>4, <2>8, TableSize
<1> QED  BY <1>1, Invariant, PTL

-----------------------------------------------------------------------------
(* Round robin starves nobody *)

\* The lines up to b that process p has waited for: it was there, and none of
\* them, or of those that follow, is its own.
Waited(p, b) ==
    {l \in 1 .. b : chart[l].from >= table[p].arr /\ \A m \in l .. b : chart[m].p # p}

\* On the way round from o, the turn x has not gone past p.
Between(o, p, x) == IF o < p THEN o < x /\ x =< p ELSE x > o \/ x =< p

\* The turn does not overtake the admission, unless there is nobody to admit.
InTurn == alg = "RR" => i =< j \/ j > N \/ table[j].arr > time

\* Whoever has run once while p waited is behind the turn, and p before it.
TurnComes ==
    pc = "RR" => \A p, o \in Procs : p # o /\ Left(p) > 0 =>
        \A l, m \in Waited(p, Len(chart)) :
            chart[l].p = o /\ chart[m].p = o => l = m /\ Between(o, p, i)

NeverTwice ==
    alg = "RR" => \A b \in Lines : \A p, o \in Procs :
        p # o /\ TimeOf(p, 1 .. b) < table[p].burst =>
            \A l, m \in Waited(p, b) : chart[l].p = o /\ chart[m].p = o => l = m

LEMMA WaitedAppend ==
    ASSUME Types, SameWork, NEW k \in Procs, NEW from \in Nat, NEW to \in Nat,
           chart' = Running(k, from, to), NEW p \in Procs
    PROVE  /\ \A b \in Lines : Waited(p, b)' = Waited(p, b)
           /\ p = k => Waited(p, Len(chart))' = {}
           /\ p # k => \A l \in Waited(p, Len(chart))' :
                 \/ l \in Waited(p, Len(chart)) /\ chart'[l] = chart[l]
                 \/ l = Len(chart) + 1 /\ chart'[l].p = k /\ from >= table[p].arr
<1>1. /\ Len(chart') = Len(chart) + 1
      /\ Len(chart) \in Nat /\ Lines = 1 .. Len(chart) /\ Lines' = 1 .. Len(chart) + 1
      /\ \A l \in Lines : chart'[l] = chart[l]
      /\ chart'[Len(chart) + 1] = [p |-> k, from |-> from, to |-> to]
  <2>1. k \in Nat
    BY TableSize
  <2> QED  BY <2>1, AppendedLine
<1>2. table'[p].arr = table[p].arr
  BY DEF SameWork
<1>3. ASSUME NEW b \in Lines  PROVE Waited(p, b)' = Waited(p, b)
  <2>1. b \in Nat /\ \A l \in 1 .. b : chart'[l] = chart[l] /\ \A m \in l .. b : chart'[m] = chart[m]
    BY <1>1
  <2>2. Waited(p, b)' = {l \in 1 .. b : /\ chart'[l].from >= table[p].arr
                                        /\ \A m \in l .. b : chart'[m].p # p}
    BY <1>2 DEF Waited
  <2> QED  BY <2>1, <2>2 DEF Waited
<1>4. Waited(p, Len(chart))' = {l \in 1 .. Len(chart) + 1 :
                                    /\ chart'[l].from >= table[p].arr
                                    /\ \A m \in l .. Len(chart) + 1 : chart'[m].p # p}
  BY <1>1, <1>2 DEF Waited
<1>5. \A l \in 1 .. Len(chart) + 1 : Len(chart) + 1 \in l .. Len(chart) + 1
  BY <1>1
<1>6. p = k => Waited(p, Len(chart))' = {}
  BY <1>1, <1>4, <1>5
<1>7. ASSUME NEW l \in Waited(p, Len(chart))'
      PROVE  \/ l \in Waited(p, Len(chart)) /\ chart'[l] = chart[l]
             \/ l = Len(chart) + 1 /\ chart'[l].p = k /\ from >= table[p].arr
  <2>1. /\ l \in 1 .. Len(chart) + 1 /\ chart'[l].from >= table[p].arr
        /\ \A m \in l .. Len(chart) + 1 : chart'[m].p # p
    BY <1>4
  <2>2. CASE l = Len(chart) + 1
    BY <1>1, <2>1, <2>2
  <2>3. CASE l # Len(chart) + 1
    <3>1. l \in 1 .. Len(chart) /\ chart'[l] = chart[l]
      BY <1>1, <2>1, <2>3
    <3>2. \A m \in l .. Len(chart) : m \in l .. Len(chart) + 1 /\ chart'[m] = chart[m]
      BY <1>1, <3>1
    <3> QED  BY <2>1, <3>1, <3>2 DEF Waited
  <2> QED  BY <2>2, <2>3
<1> QED  BY <1>3, <1>6, <1>7


\* A line begins in the past.
LEMMA FromThePast ==
    ASSUME Types, Sched, pc = "RR", NEW l \in Lines
    PROVE  chart[l].from \in Nat /\ chart[l].from =< time
<1>1. chart[l] \in Line /\ time \in Nat
  BY DEF Types, Lines
<1>2. chart[l].from =< chart[l].to /\ chart[l].to =< time
  BY DEF Sched, Joined, Printed
<1> QED  BY <1>1, <1>2 DEF Line

LEMMA InTurnNext ==
    ASSUME Types, Sched, InTurn, RRStep
    PROVE  InTurn'
<1>1. /\ alg = "RR" /\ i \in Procs /\ Procs = 1 .. N /\ N \in Nat /\ j \in 1 .. N + 1
      /\ time \in Nat /\ j' = (IF Admits THEN j + 1 ELSE j)
      /\ i' = (IF i = N THEN 1 ELSE i + 1)
      /\ Remaining[i] = 0 => time' = time
  BY RRStepTypes, TableSize DEF Types, RRStep
<1>2. N' = N /\ \A p \in Procs : table'[p].arr = table[p].arr
  BY RRStepTypes DEF SameWork
<1>3. Remaining[i] # 0 => i < j'
  BY RRStepHolds
<1>4. CASE Admits
  <2>1. i =< j
    <3>1. j \in Procs /\ table[j].arr =< time
      BY <1>1, <1>4 DEF Admits
    <3>2. table[j].arr \in Nat
      BY <3>1, TableSize
    <3> QED  BY <1>1, <3>1, <3>2 DEF InTurn
  <2> QED  BY <1>1, <1>4, <2>1 DEF InTurn
<1>5. CASE ~Admits
  <2>1. CASE i < j \/ j > N
    BY <1>1, <1>2, <1>5, <2>1 DEF InTurn
  <2>2. CASE j =< i /\ j =< N
    <3>1. j \in Procs /\ table[j].arr > time
      <4>1. \A p \in Procs : table[p].arr \in Nat
        BY TableSize
      <4> QED  BY <1>1, <1>5, <2>2, <4>1 DEF Admits
    <3>2. time' = time
      BY <1>1, <1>3, <1>5, <2>2
    <3> QED  BY <1>1, <1>2, <1>5, <3>1, <3>2 DEF InTurn
  <2> QED  BY <1>1, <2>1, <2>2
<1> QED  BY <1>4, <1>5

LEMMA TurnNext ==
    ASSUME Types, Sched, InTurn, TurnComes, RRStep
    PROVE  TurnComes'
<1>1. /\ pc = "RR" /\ alg = "RR" /\ i \in Procs /\ Procs = 1 .. N /\ N \in Nat /\ j \in 1 .. N + 1
      /\ time \in Nat /\ j' = (IF Admits THEN j + 1 ELSE j)
      /\ i' = (IF i = N THEN 1 ELSE i + 1)
      /\ Remaining[i] = 0 => UNCHANGED <<table, time, chart>>
      /\ Remaining[i] # 0 => chart' = Running(i, time, time + Lesser(Remaining[i], q))
      /\ SameWork
  BY RRStepTypes, TableSize DEF Types, RRStep
<1>2. /\ \A p \in Procs : Left(p)' > 0 => Left(p) > 0
      /\ Remaining[i] = 0 /\ Left(i) > 0 => i >= j'
  BY RRStepHolds
<1>3. Procs' = Procs
  BY <1>1 DEF SameWork, Procs, N
<1>4. SUFFICES ASSUME NEW p \in Procs, NEW o \in Procs, p # o, Left(p)' > 0,
                      NEW l \in Waited(p, Len(chart))', NEW m \in Waited(p, Len(chart))',
                      chart'[l].p = o, chart'[m].p = o
               PROVE  l = m /\ Between(o, p, i')
  BY <1>3 DEF TurnComes, Between
<1>5. p \in 1 .. N /\ o \in 1 .. N /\ i \in 1 .. N /\ Left(p) > 0
  BY <1>1, <1>2, <1>4
<1>6. ASSUME Between(o, p, i), p # i  PROVE Between(o, p, i')
  BY <1>1, <1>4, <1>5, <1>6 DEF Between
<1>7. CASE Remaining[i] = 0
  <2>1. chart' = chart /\ table' = table
    BY <1>1, <1>7
  <2>2. l \in Waited(p, Len(chart)) /\ m \in Waited(p, Len(chart)) /\ chart[l].p = o /\ chart[m].p = o
    BY <1>4, <2>1 DEF Waited
  <2>3. l = m /\ Between(o, p, i)
    BY <1>1, <1>4, <1>5, <2>2 DEF TurnComes
  <2>4. p # i
    <3> SUFFICES ASSUME p = i  PROVE FALSE
      OBVIOUS
    <3>1. i >= j'
      BY <1>2, <1>5, <1>7
    <3>2. ~Admits /\ j =< i /\ j \in Procs
      <4>1. j =< i /\ j \in Procs
        BY <1>1, <3>1
      <4>2. table[j].arr \in Nat
        BY <4>1, TableSize
      <4>3. ~Admits
        <5> SUFFICES ASSUME Admits  PROVE FALSE
          OBVIOUS
        <5>1. j < i
          BY <1>1, <3>1
        <5> QED  BY <1>1, <4>1, <4>2, <5>1 DEF InTurn, Admits
      <4> QED  BY <4>1, <4>3
    <3>3. table[j].arr > time
      <4>1. \A x \in Procs : table[x].arr \in Nat
        BY TableSize
      <4> QED  BY <1>1, <3>2, <4>1 DEF Admits
    <3>4. table[p].arr >= table[j].arr
      BY <1>1, <3>2 DEF Sched, Ordered
    <3>5. chart[l].from =< time /\ chart[l].from \in Nat
      <4>1. l \in Lines
        BY <2>2 DEF Waited, Lines, Types
      <4> QED  BY <1>1, <4>1, FromThePast
    <3>6. chart[l].from >= table[p].arr
      BY <2>2 DEF Waited
    <3>7. table[j].arr \in Nat /\ table[p].arr \in Nat
      BY <3>2, TableSize
    <3> QED  BY <1>1, <3>3, <3>4, <3>5, <3>6, <3>7
  <2> QED  BY <1>6, <2>3, <2>4
<1>8. CASE Remaining[i] # 0
  <2>1. /\ p # i
        /\ \A n \in Waited(p, Len(chart))' :
                 \/ n \in Waited(p, Len(chart)) /\ chart'[n] = chart[n]
                 \/ n = Len(chart) + 1 /\ chart'[n].p = i
    <3>1. PICK k \in Procs : k = i
      BY <1>1
    <3>2. Lesser(Remaining[i], q) \in Nat
      BY <1>1, <1>8, SliceOf
    <3>3. PICK to \in Nat : to = time + Lesser(Remaining[i], q)
      BY <1>1, <3>2
    <3>4. chart' = Running(k, time, to)
      BY <1>1, <1>8, <3>1, <3>3
    <3>5. /\ p = k => Waited(p, Len(chart))' = {}
          /\ p # k => \A n \in Waited(p, Len(chart))' :
                 \/ n \in Waited(p, Len(chart)) /\ chart'[n] = chart[n]
                 \/ n = Len(chart) + 1 /\ chart'[n].p = k /\ time >= table[p].arr
      BY <1>1, <3>4, WaitedAppend
    <3> QED  BY <1>4, <3>1, <3>5
  <2>2. \A n \in Waited(p, Len(chart)) : chart[n].p # i
    <3> SUFFICES ASSUME NEW n \in Waited(p, Len(chart)), chart[n].p = i  PROVE FALSE
      OBVIOUS
    <3>1. Between(i, p, i)
      BY <1>1, <1>5, <2>1 DEF TurnComes
    <3> QED  BY <1>5, <2>1, <3>1 DEF Between
  <2>3. CASE o = i
    <3>1. l = Len(chart) + 1 /\ m = Len(chart) + 1
      BY <1>4, <2>1, <2>2, <2>3
    <3>2. Between(i, p, i')
      BY <1>1, <1>5, <2>1 DEF Between
    <3> QED  BY <2>3, <3>1, <3>2
  <2>4. CASE o # i
    <3>1. /\ l \in Waited(p, Len(chart)) /\ chart[l].p = o
          /\ m \in Waited(p, Len(chart)) /\ chart[m].p = o
      BY <1>4, <2>1, <2>4
    <3>2. l = m /\ Between(o, p, i)
      BY <1>1, <1>4, <1>5, <3>1 DEF TurnComes
    <3> QED  BY <1>6, <2>1, <3>2
  <2> QED  BY <2>3, <2>4
<1> QED  BY <1>7, <1>8

LEMMA NeverTwiceNext ==
    ASSUME Types, Sched, TurnComes, NeverTwice, RRStep
    PROVE  NeverTwice'
<1>1. /\ pc = "RR" /\ alg = "RR" /\ i \in Procs /\ time \in Nat
      /\ Remaining[i] = 0 => UNCHANGED <<table, time, chart>>
      /\ Remaining[i] # 0 => chart' = Running(i, time, time + Lesser(Remaining[i], q))
      /\ SameWork /\ Types' /\ Sched' /\ pc' = "RR"
      /\ \A p \in Procs : Left(p)' > 0 => Left(p) > 0
  BY RRStepTypes, RRStepHolds DEF Types, RRStep
<1>2. Procs' = Procs /\ \A p \in Procs : table'[p].burst = table[p].burst
  BY <1>1 DEF SameWork, Procs, N
<1>3. SUFFICES ASSUME NEW b \in Lines', NEW p \in Procs, NEW o \in Procs, p # o,
                      TimeOf(p, 1 .. b)' < table[p].burst,
                      NEW l \in Waited(p, b)', NEW m \in Waited(p, b)',
                      chart'[l].p = o, chart'[m].p = o
               PROVE  l = m
  BY <1>2 DEF NeverTwice
<1>4. CASE Remaining[i] = 0
  <2>1. chart' = chart /\ table' = table /\ Lines' = Lines
    BY <1>1, <1>4 DEF Lines
  <2>2. TimeOf(p, 1 .. b) < table[p].burst
    BY <1>3, <2>1, TimeIsSpent
  <2>3. l \in Waited(p, b) /\ m \in Waited(p, b) /\ chart[l].p = o /\ chart[m].p = o
    BY <1>3, <2>1 DEF Waited
  <2> QED  BY <1>1, <1>3, <2>1, <2>2, <2>3 DEF NeverTwice
<1>5. CASE Remaining[i] # 0
  <2>1. PICK k \in Procs : k = i
    BY <1>1
  <2>2. PICK to \in Nat : to = time + Lesser(Remaining[i], q)
    <3>1. Lesser(Remaining[i], q) \in Nat
      BY <1>1, <1>5, SliceOf
    <3> QED  BY <1>1, <3>1
  <2>3. chart' = Running(k, time, to) /\ k \in Nat
    BY <1>1, <1>5, <2>1, <2>2, TableSize
  <2>4. /\ Len(chart') = Len(chart) + 1 /\ Len(chart) \in Nat
        /\ Lines = 1 .. Len(chart) /\ Lines' = 1 .. Len(chart) + 1
        /\ \A n \in Lines : chart'[n] = chart[n]
    BY <1>1, <2>3, AppendedLine
  <2>5. CASE b \in Lines
    <3>1. Waited(p, b)' = Waited(p, b)
      BY <1>1, <2>3, <2>5, WaitedAppend
    <3>2. TimeOf(p, 1 .. b)' = TimeOf(p, 1 .. b)
      BY <1>1, <2>3, <2>5, TimeGrows
    <3>3. l \in Lines /\ m \in Lines
      BY <2>4, <2>5, <3>1 DEF Waited
    <3>4. chart[l].p = o /\ chart[m].p = o
      BY <1>3, <2>4, <3>3
    <3> QED  BY <1>1, <1>3, <2>5, <3>1, <3>2, <3>4 DEF NeverTwice
  <2>6. CASE b = Len(chart')
    <3>1. Left(p) > 0
      <4>1. /\ TimeOf(p, 1 .. b)' = TimeOf(p, Lines)'
        BY <2>4, <2>6, TimeIsSpent
      <4>2. TimeOf(p, Lines)' = table[p].burst - Left(p)' /\ Left(p)' \in 0 .. table[p].burst
        <5>1. Left(p)' \in 0 .. table'[p].burst /\ TimeOf(p, Lines)' + Unprinted(p)' = Done(p)'
          BY <1>1, <1>2 DEF Sched, Accounted
        <5>2. Unprinted(p)' = 0 /\ Done(p)' = table'[p].burst - Left(p)'
          BY <1>1 DEF Unprinted, Done
        <5>3. TimeOf(p, Lines)' \in Int
          <6>1. TimeOf(p, Lines) \in Int
            BY TimeIsNumber
          <6>2. TimeOf(p, Lines)' = TimeOf(p, Lines) + (IF p = k THEN to - time ELSE 0)
            BY <1>1, <2>2, <2>3, TimeGrows
          <6> QED  BY <1>1, <2>2, <6>1, <6>2
        <5> QED  BY <1>2, <5>1, <5>2, <5>3
      <4>3. table[p].burst \in Nat
        BY TableSize
      <4>4. Left(p)' > 0
        BY <1>3, <4>1, <4>2, <4>3
      <4> QED  BY <1>1, <4>4
    <3>2. l \in Waited(p, Len(chart))' /\ m \in Waited(p, Len(chart))'
      BY <1>3, <2>6
    <3>3. /\ p # k
          /\ \A n \in Waited(p, Len(chart))' :
                 \/ n \in Waited(p, Len(chart)) /\ chart'[n] = chart[n]
                 \/ n = Len(chart) + 1 /\ chart'[n].p = k
      BY <1>1, <2>2, <2>3, <3>2, WaitedAppend
    <3>4. \A n \in Waited(p, Len(chart)) : chart[n].p # k
      <4> SUFFICES ASSUME NEW n \in Waited(p, Len(chart)), chart[n].p = k  PROVE FALSE
        OBVIOUS
      <4>1. Between(k, p, i)
        BY <1>1, <3>1, <3>3 DEF TurnComes
      <4>2. p \in Nat /\ k \in Nat
        BY TableSize
      <4> QED  BY <2>1, <3>3, <4>1, <4>2 DEF Between
    <3>5. CASE o = k
      BY <1>3, <3>2, <3>3, <3>4, <3>5
    <3>6. CASE o # k
      <4>1. /\ l \in Waited(p, Len(chart)) /\ chart[l].p = o
            /\ m \in Waited(p, Len(chart)) /\ chart[m].p = o
        BY <1>3, <3>2, <3>3, <3>6
      <4> QED  BY <1>1, <1>3, <3>1, <4>1 DEF TurnComes
    <3> QED  BY <3>5, <3>6
  <2> QED  BY <1>3, <2>4, <2>5, <2>6
<1> QED  BY <1>4, <1>5

Turns == InTurn /\ TurnComes /\ NeverTwice

LEMMA TurnsNext ==
    ASSUME Inv, [Next]_vars, Busy /\ alg # "none" => Turns, Busy', alg' # "none"
    PROVE  Turns'
<1>1. Types
  BY DEF Inv
<1>2. CASE StartFCFS \/ StartRR \/ StartSRBF
  <2>1. chart' = <<>> /\ i' = 1 /\ j' = 1
    BY <1>1, <1>2, StartTypes
  <2>2. Lines' = {} /\ Len(chart') = 0
    BY <2>1 DEF Lines
  <2>3. \A p \in Procs' : Waited(p, Len(chart))' = {}
    BY <2>2 DEF Waited
  <2> QED  BY <2>1, <2>2, <2>3 DEF Turns, InTurn, TurnComes, NeverTwice
<1>3. CASE RRStep
  <2>1. SameWork /\ UNCHANGED alg
    BY <1>1, <1>3, RRStepTypes DEF RRStep
  <2>2. Busy /\ alg # "none"
    BY <1>1, <2>1, BusyStays
  <2>3. Sched /\ Turns
    BY <2>2 DEF Inv
  <2> QED  BY <1>1, <1>3, <2>3, InTurnNext, TurnNext, NeverTwiceNext DEF Turns
<1>4. CASE FCFSRun \/ SRBFAdmit \/ SRBFTick \/ SRBFEnds
  <2>1. alg' # "RR" /\ pc' # "RR"
    BY <1>1, <1>4 DEF Types, FCFSRun, SRBFAdmit, SRBFTick, SRBFEnds
  <2> QED  BY <2>1 DEF Turns, InTurn, TurnComes, NeverTwice
<1>5. CASE FCFSEnds \/ RRBeyond \/ RREnds \/ Exit \/ UNCHANGED vars
  <2>1. Rest /\ SameWork
    BY <1>1, <1>5, RestSteps, RestTypes
  <2>2. /\ UNCHANGED <<table, alg, time, t, i, j, chart>> /\ Procs' = Procs /\ N' = N
        /\ Lines' = Lines
        /\ pc' = "RR" => pc = "RR"
    BY <2>1 DEF Rest, Procs, N, Lines
  <2>3. Busy /\ alg # "none"
    BY <1>1, <2>1, <2>2, BusyStays
  <2>4. Turns
    BY <2>3
  <2>5. InTurn'
    BY <2>2, <2>4 DEF Turns, InTurn
  <2>6. TurnComes'
    <3> SUFFICES ASSUME pc' = "RR", NEW p \in Procs', NEW o \in Procs', p # o, Left(p)' > 0,
                        NEW l \in Waited(p, Len(chart))', NEW m \in Waited(p, Len(chart))',
                        chart'[l].p = o, chart'[m].p = o
                 PROVE  l = m /\ Between(o, p, i')
      BY DEF TurnComes, Between
    <3>1. l \in Waited(p, Len(chart)) /\ m \in Waited(p, Len(chart))
      BY <2>2 DEF Waited
    <3>2. Left(p) > 0
      BY <2>2 DEF Left, Came
    <3> QED  BY <2>2, <2>4, <3>1, <3>2 DEF Turns, TurnComes
  <2>7. NeverTwice'
    <3> SUFFICES ASSUME alg' = "RR", NEW b \in Lines', NEW p \in Procs', NEW o \in Procs',
                        p # o, TimeOf(p, 1 .. b)' < table'[p].burst,
                        NEW l \in Waited(p, b)', NEW m \in Waited(p, b)',
                        chart'[l].p = o, chart'[m].p = o
                 PROVE  l = m
      BY DEF NeverTwice
    <3>1. l \in Waited(p, b) /\ m \in Waited(p, b)
      BY <2>2 DEF Waited
    <3>2. TimeOf(p, 1 .. b) < table[p].burst
      BY <2>2, TimeIsSpent
    <3> QED  BY <2>2, <2>4, <3>1, <3>2 DEF Turns, NeverTwice
  <2> QED  BY <2>5, <2>6, <2>7 DEF Turns
<1> QED  BY <1>2, <1>3, <1>4, <1>5 DEF Next, Step

\* Round robin starves nobody: between a process and its next slice, from its
\* arrival on, every other process starts at most one.
THEOREM NobodyStarves == Spec => []BypassedOnce
<1>1. Init => (Busy /\ alg # "none" => Turns)
  BY DEF Init
<1>2. Inv /\ (Busy /\ alg # "none" => Turns) /\ [Next]_vars => (Busy /\ alg # "none" => Turns)'
  BY TurnsNext
<1>3. ASSUME Types, Busy /\ alg # "none" => Turns  PROVE BypassedOnce
  <2> SUFFICES ASSUME alg = "RR", Busy, NEW p \in Procs, NEW o \in Procs, NEW b \in Lines,
                      p # o, TimeOf(p, 1 .. b) < table[p].burst
               PROVE  Cardinality({l \in Waited(p, b) : chart[l].p = o}) =< 1
    BY DEF BypassedOnce, Waited
  <2> DEFINE mine == {l \in Waited(p, b) : chart[l].p = o}
  <2>1. \A l, m \in mine : l = m
    BY <1>3 DEF Turns, NeverTwice
  <2>2. CASE mine = {}
    <3> HIDE DEF mine
    <3>1. Cardinality(mine) = 0
      BY <2>2, FS_EmptySet
    <3> QED  BY <3>1 DEF mine
  <2>3. CASE mine # {}
    <3>1. PICK x : mine = {x}
      BY <2>1, <2>3
    <3> HIDE DEF mine
    <3>2. Cardinality(mine) = 1
      BY <3>1, FS_Singleton
    <3> QED  BY <3>2 DEF mine
  <2> QED  BY <2>2, <2>3
<1>4. Inv => Types
  BY DEF Inv
<1> QED  BY <1>1, <1>2, <1>3, <1>4, Invariant, PTL DEF Spec
====
