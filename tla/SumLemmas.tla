------------------------------ MODULE SumLemmas ------------------------------
(***************************************************************************)
(* Sums and folds over finite sets, for the proofs about accounts, fills   *)
(* and rounds.  Induction is over sets of numbers: a set that holds 0 and  *)
(* the successor of each of its members is Nat, since otherwise the rest   *)
(* of Nat would have a smallest member.                                    *)
(***************************************************************************)
EXTENDS FiniteSetsExt, FiniteSetTheorems, WellFoundedInduction, TLAPS

(***************************************************************************)
(* Induction.                                                              *)
(***************************************************************************)

\* A nonempty set of numbers has a smallest element: its smallest interval
\* 0..n, since finite sets of numbers are well-founded by inclusion.
LEMMA Smallest ==
  ASSUME NEW S \in SUBSET Nat, S # {}
  PROVE  \E n \in S : \A m \in S : n <= m
<1> DEFINE intervals == {0..n : n \in S}
           finite == FiniteSubsetsOf(Nat)
           order == StrictSubsetOrdering(Nat)
<1>1. \A n \in S : IsFiniteSet(0..n)
  BY FS_Interval
<1>2. intervals \subseteq finite /\ intervals # {}
  <2>1. \A n \in S : 0..n \subseteq Nat
    BY SMT
  <2>2. \A n \in S : 0..n \in finite
    BY <1>1, <2>1 DEF FiniteSubsetsOf
  <2> HIDE DEF finite
  <2> QED BY <2>2
<1>3. IsWellFoundedOn(order, finite)
  BY FS_StrictSubsetOrderingWellFounded
<1>4. PICK U \in intervals : \A V \in intervals : <<V, U>> \notin order
  <2> HIDE DEF intervals, order, finite
  <2> QED BY <1>2, <1>3, WFMin
<1>5. PICK n \in S : U = 0..n
  OBVIOUS
<1>6. ASSUME NEW m \in S, m < n PROVE FALSE
  <2>1. 0..m \in intervals
    OBVIOUS
  <2>2. 0..m \subseteq 0..n /\ 0..m # 0..n
    <3>1. n \in 0..n /\ n \notin 0..m
      BY <1>6
    <3> QED BY <1>6, <3>1
  <2>3. <<0..m, 0..n>> \in order
    BY <2>2 DEF StrictSubsetOrdering
  <2> HIDE DEF order, intervals
  <2> QED BY <1>4, <1>5, <2>1, <2>3
<1> QED BY <1>6

\* Induction over the numbers, for a set of them.
LEMMA AllNumbers ==
  ASSUME NEW P \in SUBSET Nat, 0 \in P, \A n \in P : n + 1 \in P
  PROVE  P = Nat
<1>1. SUFFICES ASSUME Nat \ P # {} PROVE FALSE
  OBVIOUS
<1>2. PICK n \in Nat \ P : \A m \in Nat \ P : n <= m
  BY <1>1, Smallest
<1>3. n - 1 \in Nat /\ n - 1 \notin P
  <2>1. n # 0 BY <1>2
  <2>2. n - 1 \in Nat /\ (n - 1) + 1 = n BY <2>1
  <2> QED BY <1>2, <2>2
<1> QED BY <1>2, <1>3

(***************************************************************************)
(* Iteration over a finite set: pick[s] is the element of s taken first.   *)
(***************************************************************************)

Picks(pick, S) == \A s \in SUBSET S : s # {} => pick[s] \in s

\* g iterates step over every subset of S.
Iterates(g, S, base, pick, step) ==
  \A s \in SUBSET S : g[s] = IF s = {} THEN base ELSE step[pick[s]][g[s \ {pick[s]}]]

LEMMA SmallerWithout ==
  ASSUME NEW S, IsFiniteSet(S), NEW s \in SUBSET S, NEW x \in s
  PROVE  /\ IsFiniteSet(s) /\ s \ {x} \in SUBSET S
         /\ Cardinality(s) \in Nat \ {0} /\ Cardinality(s \ {x}) = Cardinality(s) - 1
<1>1. IsFiniteSet(s)
  BY FS_Subset
<1>2. Cardinality(s) \in Nat
  BY <1>1, FS_CardinalityType
<1>3. Cardinality(s) # 0
  BY <1>1, FS_EmptySet
<1>4. Cardinality(s \ {x}) = Cardinality(s) - 1
  BY <1>1, FS_RemoveElement
<1> QED BY <1>1, <1>2, <1>3, <1>4

LEMMA PickSmaller ==
  ASSUME NEW S, IsFiniteSet(S), NEW pick, Picks(pick, S),
         NEW s \in SUBSET S
  PROVE  /\ Cardinality(s) \in Nat
         /\ s # {} => /\ Cardinality(s) # 0 /\ pick[s] \in S
                      /\ s \ {pick[s]} \in SUBSET S
                      /\ Cardinality(s \ {pick[s]}) = Cardinality(s) - 1
<1>1. Cardinality(s) \in Nat
  BY FS_Subset, FS_CardinalityType
<1>2. ASSUME s # {}
      PROVE  /\ Cardinality(s) # 0 /\ pick[s] \in S /\ s \ {pick[s]} \in SUBSET S
             /\ Cardinality(s \ {pick[s]}) = Cardinality(s) - 1
  <2>1. PICK x \in s : x = pick[s] BY <1>2 DEF Picks
  <2> QED BY <2>1, SmallerWithout
<1> QED BY <1>1, <1>2

\* Induction over the subsets of a finite set, for a set of them: a subset is
\* in P once all it leaves when it loses one element are.
LEMMA AllSubsets ==
  ASSUME NEW S, IsFiniteSet(S), NEW P \in SUBSET SUBSET S,
         \A s \in SUBSET S : (\A x \in s : s \ {x} \in P) => s \in P
  PROVE  P = SUBSET S
<1> DEFINE N == {k \in Nat : \A s \in SUBSET S : Cardinality(s) = k => s \in P}
<1>1. 0 \in N
  <2>1. \A s \in SUBSET S : Cardinality(s) = 0 => s = {}
    BY SmallerWithout
  <2> QED BY <2>1
<1>2. ASSUME NEW k \in N PROVE k + 1 \in N
  <2>1. k \in Nat /\ \A s \in SUBSET S : Cardinality(s) = k => s \in P
    OBVIOUS
  <2>2. ASSUME NEW s \in SUBSET S, Cardinality(s) = k + 1 PROVE s \in P
    <3>1. ASSUME NEW x \in s PROVE s \ {x} \in P
      <4>1. s \ {x} \in SUBSET S /\ Cardinality(s \ {x}) = k
        BY <2>1, <2>2, SmallerWithout
      <4> QED BY <2>1, <4>1
    <3> QED BY <3>1
  <2> QED BY <2>1, <2>2
<1>3. N = Nat
  <2>1. N \in SUBSET Nat OBVIOUS
  <2> HIDE DEF N
  <2> QED BY <1>1, <1>2, <2>1, AllNumbers
<1>4. ASSUME NEW s \in SUBSET S PROVE s \in P
  <2>1. Cardinality(s) \in Nat BY FS_Subset, FS_CardinalityType
  <2> QED BY <1>3, <2>1
<1> QED BY <1>4

LEMMA IterationExists ==
  ASSUME NEW S, IsFiniteSet(S), NEW T, NEW base \in T,
         NEW pick, Picks(pick, S),
         NEW step \in [S -> [T -> T]]
  PROVE  \E g \in [SUBSET S -> T] : Iterates(g, S, base, pick, step)
<1> DEFINE Upto(k) == {s \in SUBSET S : Cardinality(s) <= k}
           Good(g, k) == /\ g \in [Upto(k) -> T]
                         /\ \A s \in Upto(k) :
                              g[s] = IF s = {} THEN base ELSE step[pick[s]][g[s \ {pick[s]}]]
           P == {k \in Nat : \E g : Good(g, k)}
<1>1. 0 \in P
  <2>1. Upto(0) = {{}}
    <3>1. Cardinality({}) = 0 BY FS_EmptySet
    <3>2. ASSUME NEW s \in Upto(0) PROVE s = {}
      <4>1. s \in SUBSET S /\ Cardinality(s) <= 0 OBVIOUS
      <4>2. Cardinality(s) \in Nat /\ (s # {} => Cardinality(s) # 0)
        BY <4>1, PickSmaller
      <4>3. Cardinality(s) = 0 BY <4>1, <4>2
      <4> QED BY <4>2, <4>3
    <3>3. {} \in Upto(0) BY <3>1
    <3> HIDE DEF Upto
    <3> QED BY <3>2, <3>3
  <2>2. PICK g : g = [s \in Upto(0) |-> base]
    OBVIOUS
  <2> HIDE DEF Upto
  <2>3. Good(g, 0) BY <2>1, <2>2
  <2> QED BY <2>3
<1>2. ASSUME NEW k \in P PROVE k + 1 \in P
  <2>1. k \in Nat /\ \E g : Good(g, k)
    OBVIOUS
  <2>2. PICK g : Good(g, k)
    BY <2>1
  <2>3. \A s \in Upto(k + 1) : s # {} => s \ {pick[s]} \in Upto(k) /\ pick[s] \in S
    <3>1. SUFFICES ASSUME NEW s \in Upto(k + 1), s # {}
                   PROVE s \ {pick[s]} \in Upto(k) /\ pick[s] \in S
      OBVIOUS
    <3>2. s \in SUBSET S /\ Cardinality(s) <= k + 1
      OBVIOUS
    <3>3. /\ Cardinality(s) \in Nat /\ s \ {pick[s]} \in SUBSET S
          /\ Cardinality(s \ {pick[s]}) = Cardinality(s) - 1
      BY <3>1, <3>2, PickSmaller
    <3>4. Cardinality(s \ {pick[s]}) <= k
      BY <2>1, <3>2, <3>3
    <3> HIDE DEF Good, P
    <3> QED BY <3>1, <3>2, <3>3, <3>4
  <2>4. \A s \in Upto(k) : s \in Upto(k + 1)
    <3>1. SUFFICES ASSUME NEW s \in Upto(k) PROVE s \in Upto(k + 1)
      OBVIOUS
    <3>2. s \in SUBSET S /\ Cardinality(s) <= k
      OBVIOUS
    <3>3. Cardinality(s) \in Nat BY <3>2, PickSmaller
    <3>4. Cardinality(s) <= k + 1 BY <2>1, <3>2, <3>3
    <3> QED BY <3>2, <3>4
  <2>5. PICK h : h = [s \in Upto(k + 1) |-> IF s = {} THEN base ELSE step[pick[s]][g[s \ {pick[s]}]]]
    OBVIOUS
  <2> HIDE DEF Upto
  <2>6. h \in [Upto(k + 1) -> T]
    BY <2>2, <2>3, <2>5
  <2>7. \A s \in Upto(k) : h[s] = g[s]
    BY <2>2, <2>4, <2>5
  <2>8. Good(h, k + 1)
    BY <2>3, <2>5, <2>6, <2>7
  <2> HIDE DEF Good
  <2> QED BY <2>1, <2>8
<1>3. P = Nat
  <2> HIDE DEF Good
  <2>1. P \in SUBSET Nat OBVIOUS
  <2> HIDE DEF P
  <2> QED BY <1>1, <1>2, <2>1, AllNumbers
<1>4. Cardinality(S) \in Nat /\ \A s \in SUBSET S : Cardinality(s) <= Cardinality(S)
  BY FS_CardinalityType, FS_Subset
<1>5. Upto(Cardinality(S)) = SUBSET S
  BY <1>4
<1>6. PICK g : Good(g, Cardinality(S))
  <2> HIDE DEF Good
  <2> QED BY <1>3, <1>4
<1>7. g \in [SUBSET S -> T] /\ Iterates(g, S, base, pick, step)
  <2> HIDE DEF Upto
  <2> QED BY <1>5, <1>6 DEF Iterates
<1> QED BY <1>7

\* The iterations over two sets agree on the subsets of both.
LEMMA IterationUnique ==
  ASSUME NEW S, IsFiniteSet(S), NEW base, NEW pick, Picks(pick, S),
         NEW step, NEW g, Iterates(g, S, base, pick, step), NEW h, Iterates(h, S, base, pick, step)
  PROVE  \A s \in SUBSET S : g[s] = h[s]
<1> DEFINE P == {s \in SUBSET S : g[s] = h[s]}
<1>1. ASSUME NEW s \in SUBSET S, \A x \in s : s \ {x} \in P PROVE s \in P
  BY <1>1 DEF Iterates, Picks
<1>2. P \in SUBSET SUBSET S OBVIOUS
<1>3. P = SUBSET S
  <2> HIDE DEF P
  <2> QED BY <1>1, <1>2, AllSubsets
<1> QED BY <1>3

(***************************************************************************)
(* Sums of the values of a function over a finite set.                     *)
(***************************************************************************)

IntOn(f, S) == \A x \in S : f[x] \in Int

\* The recursion that SumFunctionOnSet is defined by has a solution, and the
\* sum is its value.
SumIter(g, f, S) ==
  /\ g \in [SUBSET S -> Int]
  /\ g = [s \in SUBSET S |-> IF s = {} THEN 0
                            ELSE f[CHOOSE x \in s : TRUE] + g[s \ {CHOOSE x \in s : TRUE}]]

LEMMA SumIterExists ==
  ASSUME NEW S, IsFiniteSet(S), NEW f, IntOn(f, S)
  PROVE  \E g : SumIter(g, f, S)
<1>1. PICK pick : pick = [s \in SUBSET S |-> CHOOSE x \in s : TRUE]
  OBVIOUS
<1>2. PICK step : step = [x \in S |-> [t \in Int |-> f[x] + t]]
  OBVIOUS
<1>3. Picks(pick, S)
  BY <1>1 DEF Picks
<1>4. step \in [S -> [Int -> Int]]
  BY <1>2 DEF IntOn
<1>5. PICK g \in [SUBSET S -> Int] : Iterates(g, S, 0, pick, step)
  <2>1. 0 \in Int OBVIOUS
  <2> QED BY <1>3, <1>4, <2>1, IterationExists
<1>6. ASSUME NEW s \in SUBSET S
      PROVE  g[s] = IF s = {} THEN 0
                    ELSE f[CHOOSE x \in s : TRUE] + g[s \ {CHOOSE x \in s : TRUE}]
  <2>1. g[s] = IF s = {} THEN 0 ELSE step[pick[s]][g[s \ {pick[s]}]]
    BY <1>5 DEF Iterates
  <2>2. CASE s # {}
    <3>1. PICK x \in S : x = pick[s] /\ x = CHOOSE y \in s : TRUE
      BY <1>1, <1>3, <2>2 DEF Picks
    <3>2. g[s \ {x}] \in Int
      BY <1>5
    <3>3. step[x][g[s \ {x}]] = f[x] + g[s \ {x}]
      BY <1>2, <3>2
    <3> QED BY <2>1, <2>2, <3>1, <3>3
  <2> QED BY <2>1, <2>2
<1>7. g = [s \in SUBSET S |-> g[s]]
  BY <1>5
<1>8. g = [s \in SUBSET S |-> IF s = {} THEN 0
                             ELSE f[CHOOSE x \in s : TRUE] + g[s \ {CHOOSE x \in s : TRUE}]]
  BY <1>6, <1>7, Zenon
<1> QED BY <1>5, <1>8 DEF SumIter

LEMMA SumIsIter ==
  ASSUME NEW S, IsFiniteSet(S), NEW f, IntOn(f, S)
  PROVE  \E g : SumIter(g, f, S) /\ SumFunctionOnSet(f, S) = g[S]
<1>1. PICK h : SumIter(h, f, S)
  BY SumIterExists
<1> DEFINE G(g) == g = [s \in SUBSET S |->
                          IF s = {} THEN 0
                          ELSE f[CHOOSE x \in s : TRUE] + g[s \ {CHOOSE x \in s : TRUE}]]
           iter == CHOOSE g : G(g)
<1>2. G(iter)
  <2>1. G(h) BY <1>1 DEF SumIter
  <2> QED BY <2>1
<1>3. SumFunctionOnSet(f, S) = iter[S]
  BY DEF SumFunctionOnSet, FoldFunctionOnSet, MapThenFoldSet
<1>4. iter[S] = h[S]
  <2> HIDE DEF iter
  <2> DEFINE P == {s \in SUBSET S : iter[s] = h[s]}
  <2>1. ASSUME NEW s \in SUBSET S, \A x \in s : s \ {x} \in P PROVE s \in P
    <3>1. CASE s = {}
      <4>1. iter[s] = 0 /\ h[s] = 0 BY <1>1, <1>2, <3>1 DEF SumIter
      <4> QED BY <4>1
    <3>2. CASE s # {}
      <4>1. PICK x \in s : x = CHOOSE y \in s : TRUE
        BY <3>2
      <4>2. iter[s] = f[x] + iter[s \ {x}] /\ h[s] = f[x] + h[s \ {x}]
        BY <1>1, <1>2, <3>2, <4>1 DEF SumIter
      <4>3. iter[s \ {x}] = h[s \ {x}]
        BY <2>1
      <4> QED BY <4>2, <4>3
    <3> QED BY <3>1, <3>2
  <2>2. P \in SUBSET SUBSET S OBVIOUS
  <2>3. P = SUBSET S
    <3> HIDE DEF P
    <3> QED BY <2>1, <2>2, AllSubsets
  <2> QED BY <2>3
<1> QED BY <1>1, <1>2, <1>3, <1>4

\* The sum over a nonempty set takes one of its elements and adds the rest.
LEMMA SumChosen ==
  ASSUME NEW S, IsFiniteSet(S), S # {}, NEW f, IntOn(f, S)
  PROVE  \E x \in S : SumFunctionOnSet(f, S) = f[x] + SumFunctionOnSet(f, S \ {x})
<1>1. PICK g : SumIter(g, f, S) /\ SumFunctionOnSet(f, S) = g[S]
  BY SumIsIter
<1>2. PICK x \in S : x = CHOOSE y \in S : TRUE
  OBVIOUS
<1>3. g[S] = f[x] + g[S \ {x}]
  BY <1>1, <1>2 DEF SumIter
<1>4. IsFiniteSet(S \ {x}) /\ IntOn(f, S \ {x})
  BY FS_RemoveElement DEF IntOn
<1>5. PICK h : SumIter(h, f, S \ {x}) /\ SumFunctionOnSet(f, S \ {x}) = h[S \ {x}]
  BY <1>4, SumIsIter
<1>6. h[S \ {x}] = g[S \ {x}]
  <2> DEFINE R == S \ {x}
             P == {s \in SUBSET R : h[s] = g[s]}
  <2>1. ASSUME NEW s \in SUBSET R, \A y \in s : s \ {y} \in P PROVE s \in P
    <3>1. CASE s = {}
      <4>1. h[s] = 0 /\ g[s] = 0 BY <1>1, <1>5, <3>1 DEF SumIter
      <4> QED BY <4>1
    <3>2. CASE s # {}
      <4>1. PICK y \in s : y = CHOOSE z \in s : TRUE
        BY <3>2
      <4>2. h[s] = f[y] + h[s \ {y}] /\ g[s] = f[y] + g[s \ {y}]
        BY <1>1, <1>5, <3>2, <4>1 DEF SumIter
      <4>3. h[s \ {y}] = g[s \ {y}]
        BY <2>1
      <4> QED BY <4>2, <4>3
    <3> QED BY <3>1, <3>2
  <2>2. P \in SUBSET SUBSET R OBVIOUS
  <2>3. P = SUBSET R
    <3> HIDE DEF P, R
    <3>1. IsFiniteSet(R) BY <1>4 DEF R
    <3> QED BY <2>1, <2>2, <3>1, AllSubsets
  <2> QED BY <2>3
<1> QED BY <1>1, <1>3, <1>5, <1>6

\* The sum over no element is 0.
LEMMA SumEmpty ==
  ASSUME NEW f
  PROVE  SumFunctionOnSet(f, {}) = 0
<1>1. IsFiniteSet({}) /\ IntOn(f, {})
  BY FS_EmptySet DEF IntOn
<1>2. PICK g : SumIter(g, f, {}) /\ SumFunctionOnSet(f, {}) = g[{}]
  BY <1>1, SumIsIter
<1> QED BY <1>2 DEF SumIter

\* A sum of integers is an integer.
LEMMA SumInt ==
  ASSUME NEW S, IsFiniteSet(S), NEW f, IntOn(f, S)
  PROVE  SumFunctionOnSet(f, S) \in Int
<1>1. PICK g : SumIter(g, f, S) /\ SumFunctionOnSet(f, S) = g[S]
  BY SumIsIter
<1> QED BY <1>1 DEF SumIter

LEMMA IntOnSubset ==
  ASSUME NEW S, IsFiniteSet(S), NEW f, IntOn(f, S), NEW s \in SUBSET S
  PROVE  IsFiniteSet(s) /\ IntOn(f, s)
BY FS_Subset DEF IntOn

\* Any element may be taken first.
LEMMA SumTake ==
  ASSUME NEW S, IsFiniteSet(S), NEW f, IntOn(f, S), NEW x \in S
  PROVE  SumFunctionOnSet(f, S) = f[x] + SumFunctionOnSet(f, S \ {x})
<1> DEFINE Sum(s) == SumFunctionOnSet(f, s)
           Splits(s) == \A y \in s : Sum(s) = f[y] + Sum(s \ {y})
           P == {s \in SUBSET S : Splits(s)}
<1>1. ASSUME NEW s \in SUBSET S, \A y \in s : s \ {y} \in P PROVE s \in P
  <2>0. \A y \in s : Splits(s \ {y})
    BY <1>1
  <2>1. ASSUME NEW y \in s PROVE Sum(s) = f[y] + Sum(s \ {y})
    <3>1. IsFiniteSet(s) /\ IntOn(f, s) /\ s # {}
      BY IntOnSubset
    <3>2. PICK z \in s : Sum(s) = f[z] + Sum(s \ {z})
      BY <3>1, SumChosen
    <3> HIDE DEF Sum
    <3>3. CASE z = y
      BY <3>2, <3>3
    <3>4. CASE z # y
      <4>1. Sum(s \ {z}) = f[y] + Sum((s \ {z}) \ {y})
        BY <2>0, <3>4
      <4>2. Sum(s \ {y}) = f[z] + Sum((s \ {y}) \ {z})
        BY <2>0, <3>4
      <4>3. (s \ {z}) \ {y} = (s \ {y}) \ {z}
        OBVIOUS
      <4>4. f[y] \in Int /\ f[z] \in Int /\ Sum((s \ {y}) \ {z}) \in Int
        <5>1. IsFiniteSet((s \ {y}) \ {z}) /\ IntOn(f, (s \ {y}) \ {z})
          BY IntOnSubset
        <5> QED BY <5>1, SumInt DEF IntOn, Sum
      <4>5. PICK a \in Int, b \in Int, r \in Int :
              a = f[y] /\ b = f[z] /\ r = Sum((s \ {y}) \ {z})
        BY <4>4
      <4>6. Sum(s \ {z}) = a + r /\ Sum(s \ {y}) = b + r /\ Sum(s) = b + Sum(s \ {z})
        BY <3>2, <4>1, <4>2, <4>3, <4>5
      <4>7. Sum(s) = b + (a + r) /\ a + (b + r) = b + (a + r)
        BY <4>6
      <4> QED BY <4>5, <4>6, <4>7
    <3> QED BY <3>3, <3>4
  <2> HIDE DEF Sum
  <2> QED BY <2>1
<1>2. P \in SUBSET SUBSET S OBVIOUS
<1>3. P = SUBSET S
  <2> HIDE DEF P
  <2> QED BY <1>1, <1>2, AllSubsets
<1>4. Splits(S)
  <2> HIDE DEF Splits
  <2> QED BY <1>3
<1> QED BY <1>4

\* The sum over a set that gains an element.
LEMMA SumWith ==
  ASSUME NEW S, IsFiniteSet(S), NEW f, IntOn(f, S), NEW x, x \notin S, f[x] \in Int
  PROVE  /\ IsFiniteSet(S \union {x}) /\ IntOn(f, S \union {x})
         /\ SumFunctionOnSet(f, S \union {x}) = f[x] + SumFunctionOnSet(f, S)
<1>1. IsFiniteSet(S \union {x})
  BY FS_AddElement
<1>2. IntOn(f, S \union {x})
  BY DEF IntOn
<1>3. (S \union {x}) \ {x} = S /\ x \in S \union {x}
  OBVIOUS
<1>4. SumFunctionOnSet(f, S \union {x}) = f[x] + SumFunctionOnSet(f, (S \union {x}) \ {x})
  BY <1>1, <1>2, <1>3, SumTake
<1> QED BY <1>1, <1>2, <1>3, <1>4

\* Functions that agree on a set have the same sum over it.
LEMMA SumSame ==
  ASSUME NEW S, IsFiniteSet(S), NEW f, IntOn(f, S), NEW h, \A x \in S : h[x] = f[x]
  PROVE  SumFunctionOnSet(h, S) = SumFunctionOnSet(f, S)
<1> DEFINE Agrees(s) == SumFunctionOnSet(h, s) = SumFunctionOnSet(f, s)
           P == {s \in SUBSET S : Agrees(s)}
<1>0. IntOn(h, S) BY DEF IntOn
<1>1. ASSUME NEW s \in SUBSET S, \A x \in s : s \ {x} \in P PROVE s \in P
  <2>1. CASE s = {}
    BY <2>1, SumEmpty
  <2>2. CASE s # {}
    <3>1. PICK x \in s : TRUE BY <2>2
    <3>2. SumFunctionOnSet(h, s \ {x}) = SumFunctionOnSet(f, s \ {x})
      BY <1>1
    <3>3. /\ SumFunctionOnSet(h, s) = h[x] + SumFunctionOnSet(h, s \ {x})
          /\ SumFunctionOnSet(f, s) = f[x] + SumFunctionOnSet(f, s \ {x})
      <4>1. IsFiniteSet(s) /\ IntOn(f, s) /\ IntOn(h, s)
        BY <1>0, IntOnSubset
      <4> QED BY <4>1, SumTake
    <3> QED BY <3>2, <3>3
  <2> QED BY <2>1, <2>2
<1>2. P \in SUBSET SUBSET S OBVIOUS
<1>3. P = SUBSET S
  <2> HIDE DEF P
  <2> QED BY <1>1, <1>2, AllSubsets
<1>4. Agrees(S)
  <2> HIDE DEF Agrees
  <2> QED BY <1>3
<1> QED BY <1>4

\* The sum when the function changes at one element.
LEMMA SumChange ==
  ASSUME NEW S, IsFiniteSet(S), NEW f, IntOn(f, S), NEW x \in S,
         NEW h, h[x] \in Int, \A y \in S \ {x} : h[y] = f[y]
  PROVE  SumFunctionOnSet(h, S) = SumFunctionOnSet(f, S) - f[x] + h[x]
<1>1. IntOn(h, S)
  BY DEF IntOn
<1>2. IsFiniteSet(S \ {x}) /\ IntOn(f, S \ {x})
  BY IntOnSubset
<1>3. SumFunctionOnSet(h, S \ {x}) = SumFunctionOnSet(f, S \ {x})
  BY <1>2, SumSame
<1>4. PICK a \in Int, b \in Int, r \in Int :
        a = f[x] /\ b = h[x] /\ r = SumFunctionOnSet(f, S \ {x})
  <2>1. SumFunctionOnSet(f, S \ {x}) \in Int BY <1>2, SumInt
  <2> QED BY <2>1 DEF IntOn
<1>5. SumFunctionOnSet(f, S) = a + r /\ SumFunctionOnSet(h, S) = b + r
  <2>1. /\ SumFunctionOnSet(f, S) = f[x] + SumFunctionOnSet(f, S \ {x})
        /\ SumFunctionOnSet(h, S) = h[x] + SumFunctionOnSet(h, S \ {x})
    BY <1>1, SumTake
  <2> QED BY <1>3, <1>4, <2>1
<1>6. (a + r) - a + b = b + r
  OBVIOUS
<1> QED BY <1>4, <1>5, <1>6

\* A sum of numbers that are not negative is not negative, and at least each
\* of them.
LEMMA SumNat ==
  ASSUME NEW S, IsFiniteSet(S), NEW f, \A x \in S : f[x] \in Nat
  PROVE  SumFunctionOnSet(f, S) \in Nat
<1> DEFINE Natural(s) == SumFunctionOnSet(f, s) \in Nat
           P == {s \in SUBSET S : Natural(s)}
<1>0. IntOn(f, S) BY DEF IntOn
<1>1. ASSUME NEW s \in SUBSET S, \A x \in s : s \ {x} \in P PROVE s \in P
  <2>1. CASE s = {}
    BY <2>1, SumEmpty
  <2>2. CASE s # {}
    <3>1. PICK x \in s : TRUE BY <2>2
    <3>2. SumFunctionOnSet(f, s \ {x}) \in Nat /\ f[x] \in Nat
      BY <1>1
    <3>3. SumFunctionOnSet(f, s) = f[x] + SumFunctionOnSet(f, s \ {x})
      <4>1. IsFiniteSet(s) /\ IntOn(f, s)
        BY <1>0, IntOnSubset
      <4> QED BY <4>1, SumTake
    <3> QED BY <3>2, <3>3
  <2> QED BY <2>1, <2>2
<1>2. P \in SUBSET SUBSET S OBVIOUS
<1>3. P = SUBSET S
  <2> HIDE DEF P
  <2> QED BY <1>1, <1>2, AllSubsets
<1>4. Natural(S)
  <2> HIDE DEF Natural
  <2> QED BY <1>3
<1> QED BY <1>4

LEMMA SumTerm ==
  ASSUME NEW S, IsFiniteSet(S), NEW f, \A x \in S : f[x] \in Nat, NEW x \in S
  PROVE  f[x] <= SumFunctionOnSet(f, S)
<1>1. IsFiniteSet(S \ {x}) /\ IntOn(f, S)
  BY FS_Subset DEF IntOn
<1>2. SumFunctionOnSet(f, S) = f[x] + SumFunctionOnSet(f, S \ {x})
  BY <1>1, SumTake
<1>3. SumFunctionOnSet(f, S \ {x}) \in Nat
  BY <1>1, SumNat
<1> QED BY <1>2, <1>3

\* A sum of zeroes is zero.
LEMMA SumZero ==
  ASSUME NEW S, IsFiniteSet(S), NEW f, \A x \in S : f[x] = 0
  PROVE  SumFunctionOnSet(f, S) = 0
<1> DEFINE Zero(s) == SumFunctionOnSet(f, s) = 0
           P == {s \in SUBSET S : Zero(s)}
<1>0. IntOn(f, S) BY DEF IntOn
<1>1. ASSUME NEW s \in SUBSET S, \A x \in s : s \ {x} \in P PROVE s \in P
  <2>1. CASE s = {}
    BY <2>1, SumEmpty
  <2>2. CASE s # {}
    <3>1. PICK x \in s : TRUE BY <2>2
    <3>2. SumFunctionOnSet(f, s \ {x}) = 0 /\ f[x] = 0
      BY <1>1
    <3>3. SumFunctionOnSet(f, s) = f[x] + SumFunctionOnSet(f, s \ {x})
      <4>1. IsFiniteSet(s) /\ IntOn(f, s)
        BY <1>0, IntOnSubset
      <4> QED BY <4>1, SumTake
    <3> QED BY <3>2, <3>3
  <2> QED BY <2>1, <2>2
<1>2. P \in SUBSET SUBSET S OBVIOUS
<1>3. P = SUBSET S
  <2> HIDE DEF P
  <2> QED BY <1>1, <1>2, AllSubsets
<1>4. Zero(S)
  <2> HIDE DEF Zero
  <2> QED BY <1>3
<1> QED BY <1>4

\* The sum of a function that is zero but at two elements.
LEMMA SumTwo ==
  ASSUME NEW S, IsFiniteSet(S), NEW f, IntOn(f, S), NEW x \in S, NEW y \in S, x # y,
         \A z \in S \ {x, y} : f[z] = 0
  PROVE  SumFunctionOnSet(f, S) = f[x] + f[y]
<1>1. IsFiniteSet(S \ {x}) /\ IntOn(f, S \ {x})
  BY IntOnSubset
<1>2. IsFiniteSet((S \ {x}) \ {y}) /\ \A z \in (S \ {x}) \ {y} : f[z] = 0
  BY IntOnSubset
<1>3. SumFunctionOnSet(f, (S \ {x}) \ {y}) = 0
  BY <1>2, SumZero
<1>4. SumFunctionOnSet(f, S) = f[x] + SumFunctionOnSet(f, S \ {x})
  BY SumTake
<1>5. SumFunctionOnSet(f, S \ {x}) = f[y] + SumFunctionOnSet(f, (S \ {x}) \ {y})
  BY <1>1, SumTake
<1>6. f[x] \in Int /\ f[y] \in Int
  BY DEF IntOn
<1>7. SumFunctionOnSet(f, S \ {x}) = f[y]
  BY <1>3, <1>5, <1>6
<1> QED BY <1>4, <1>7

\* The sum when the function changes at two elements.
LEMMA SumChangeTwo ==
  ASSUME NEW S, IsFiniteSet(S), NEW f, IntOn(f, S), NEW x \in S, NEW y \in S, x # y,
         NEW h, h[x] \in Int, h[y] \in Int, \A z \in S \ {x, y} : h[z] = f[z]
  PROVE  SumFunctionOnSet(h, S) = SumFunctionOnSet(f, S) - f[x] + h[x] - f[y] + h[y]
<1>1. PICK m : m = [z \in S |-> IF z = x THEN h[x] ELSE f[z]]
  OBVIOUS
<1>2. /\ IntOn(m, S) /\ m[x] = h[x] /\ m[y] = f[y]
      /\ \A z \in S \ {x} : m[z] = f[z]
      /\ \A z \in S \ {y} : h[z] = m[z]
  BY <1>1 DEF IntOn
<1>3. SumFunctionOnSet(m, S) = SumFunctionOnSet(f, S) - f[x] + m[x]
  BY <1>2, SumChange
<1>4. SumFunctionOnSet(h, S) = SumFunctionOnSet(m, S) - m[y] + h[y]
  BY <1>2, SumChange
<1>5. SumFunctionOnSet(m, S) = SumFunctionOnSet(f, S) - f[x] + h[x]
  BY <1>2, <1>3
<1>6. SumFunctionOnSet(h, S) = SumFunctionOnSet(m, S) - f[y] + h[y]
  BY <1>2, <1>4
<1>7. PICK k \in Int : k = SumFunctionOnSet(m, S)
  BY <1>2, SumInt
<1>8. PICK n \in Int : n = SumFunctionOnSet(f, S)
  BY SumInt
<1>9. PICK a \in Int, b \in Int, c \in Int, d \in Int : a = f[x] /\ b = h[x] /\ c = f[y] /\ d = h[y]
  BY DEF IntOn
<1>10. k = n - a + b /\ SumFunctionOnSet(h, S) = k - c + d
  BY <1>5, <1>6, <1>7, <1>8, <1>9
<1>11. SumFunctionOnSet(h, S) = n - a + b - c + d
  BY <1>10
<1> QED BY <1>8, <1>9, <1>11

\* The sum when the domain gains an element and the rest stays.
LEMMA SumGains ==
  ASSUME NEW S, IsFiniteSet(S), NEW f, IntOn(f, S), NEW x, x \notin S,
         NEW h, h[x] \in Int, \A y \in S : h[y] = f[y]
  PROVE  SumFunctionOnSet(h, S \union {x}) = SumFunctionOnSet(f, S) + h[x]
<1>1. IntOn(h, S)
  BY DEF IntOn
<1>2. SumFunctionOnSet(h, S \union {x}) = h[x] + SumFunctionOnSet(h, S)
  BY <1>1, SumWith
<1>3. SumFunctionOnSet(h, S) = SumFunctionOnSet(f, S) /\ SumFunctionOnSet(f, S) \in Int
  BY SumSame, SumInt
<1> QED BY <1>2, <1>3

\* SumFunction sums over the domain.
LEMMA SumOver ==
  ASSUME NEW f
  PROVE  SumFunction(f) = SumFunctionOnSet(f, DOMAIN f)
BY DEF SumFunction

\* The sum over a list with one number more.
LEMMA SumLonger ==
  ASSUME NEW n \in Nat, NEW f, IntOn(f, 1..n),
         NEW h, h[n + 1] \in Int, \A i \in 1..n : h[i] = f[i]
  PROVE  SumFunctionOnSet(h, 1..(n + 1)) = SumFunctionOnSet(f, 1..n) + h[n + 1]
<1>1. 1..(n + 1) = 1..n \union {n + 1} /\ n + 1 \notin 1..n
  OBVIOUS
<1>2. IsFiniteSet(1..n)
  BY FS_Interval
<1>3. PICK S, x : S = 1..n /\ x = n + 1
  OBVIOUS
<1>4. IsFiniteSet(S) /\ IntOn(f, S) /\ x \notin S /\ h[x] \in Int /\ \A y \in S : h[y] = f[y]
  BY <1>1, <1>2, <1>3
<1>5. SumFunctionOnSet(h, S \union {x}) = SumFunctionOnSet(f, S) + h[x]
  BY <1>4, SumGains
<1> QED BY <1>1, <1>3, <1>5

\* The sum over the beginning of a list of natural numbers is no larger than
\* the sum over all of it.
LEMMA SumUpTo ==
  ASSUME NEW n \in Nat, NEW f, \A i \in 1..n : f[i] \in Nat, NEW k \in 0..n
  PROVE  SumFunctionOnSet(f, 1..k) <= SumFunctionOnSet(f, 1..n)
<1> DEFINE Sum(i) == SumFunctionOnSet(f, 1..i)
           Grows(j) == k + j <= n => Sum(k) <= Sum(k + j)
           P == {j \in Nat : Grows(j)}
<1>0. \A i \in 0..n : IntOn(f, 1..i) /\ Sum(i) \in Int
  <2>1. ASSUME NEW i \in 0..n PROVE IntOn(f, 1..i) /\ IsFiniteSet(1..i)
    <3>1. \A j \in 1..i : j \in 1..n OBVIOUS
    <3> QED BY <3>1, FS_Interval DEF IntOn
  <2> QED BY <2>1, SumInt
<1>1. Grows(0)
  BY <1>0
<1>2. ASSUME NEW j \in P PROVE Grows(j + 1)
  <2>1. SUFFICES ASSUME k + (j + 1) <= n PROVE Sum(k) <= Sum(k + (j + 1))
    OBVIOUS
  <2>2. PICK i \in 0..n : i = k + j
    BY <2>1
  <2>3. Sum(k) <= Sum(i) /\ k + (j + 1) = i + 1 /\ i + 1 \in 1..n
    BY <2>1, <2>2
  <2>4. f[i + 1] \in Nat /\ f[i + 1] \in Int /\ \A x \in 1..i : f[x] = f[x]
    BY <2>3
  <2>5. Sum(i + 1) = Sum(i) + f[i + 1]
    BY <1>0, <2>4, SumLonger
  <2>6. Sum(i) \in Int /\ Sum(k) \in Int /\ Sum(i + 1) \in Int
    BY <1>0, <2>3
  <2> HIDE DEF Sum
  <2> QED BY <2>3, <2>4, <2>5, <2>6
<1>3. P = Nat
  <2>1. 0 \in P /\ \A j \in P : j + 1 \in P
    <3> HIDE DEF Grows
    <3> QED BY <1>1, <1>2
  <2> HIDE DEF P
  <2> QED BY <2>1, AllNumbers DEF P
<1>4. Grows(n - k)
  <2>1. n - k \in Nat OBVIOUS
  <2> HIDE DEF Grows
  <2> QED BY <1>3, <2>1
<1> QED BY <1>4

\* e is the numbers of f followed by those of h.
Appended(e, f, m, h, n) ==
  (\A i \in 1..m : e[i] = f[i]) /\ (\A i \in 1..n : e[m + i] = h[i])

\* The sum over one list of numbers followed by another.
LEMMA SumAppended ==
  ASSUME NEW m \in Nat, NEW n \in Nat, NEW f, IntOn(f, 1..m), NEW h, IntOn(h, 1..n),
         NEW e, Appended(e, f, m, h, n)
  PROVE  SumFunctionOnSet(e, 1..(m + n)) = SumFunctionOnSet(f, 1..m) + SumFunctionOnSet(h, 1..n)
<1> DEFINE Adds(k) == k <= n =>
             SumFunctionOnSet(e, 1..(m + k)) = SumFunctionOnSet(f, 1..m) + SumFunctionOnSet(h, 1..k)
           P == {k \in Nat : Adds(k)}
<1> USE DEF Appended
<1>0. \A k \in Nat : k <= n => /\ IsFiniteSet(1..k) /\ IntOn(h, 1..k) /\ IsFiniteSet(1..(m + k))
                              /\ IntOn(e, 1..(m + k))
  <2>1. ASSUME NEW k \in Nat, k <= n PROVE IntOn(h, 1..k) /\ IntOn(e, 1..(m + k))
    <3>1. ASSUME NEW i \in 1..(m + k) PROVE e[i] \in Int
      <4>1. CASE i <= m
        BY <4>1 DEF IntOn
      <4>2. CASE i > m
        <5>1. PICK j \in 1..n : i = m + j
          <6>1. i - m \in 1..n /\ i = m + (i - m) BY <2>1, <4>2
          <6> QED BY <6>1
        <5> QED BY <5>1 DEF IntOn
      <4> QED BY <4>1, <4>2
    <3> QED BY <2>1, <3>1 DEF IntOn
  <2>2. \A k \in Nat : IsFiniteSet(1..k) /\ IsFiniteSet(1..(m + k))
    BY FS_Interval
  <2> QED BY <2>1, <2>2
<1>1. Adds(0)
  <2>0. IsFiniteSet(1..m) BY FS_Interval
  <2>1. SumFunctionOnSet(e, 1..m) = SumFunctionOnSet(f, 1..m) /\ SumFunctionOnSet(f, 1..m) \in Int
    BY <2>0, SumSame, SumInt
  <2>2. 1..0 = {} /\ m + 0 = m OBVIOUS
  <2> QED BY <2>1, <2>2, SumEmpty
<1>2. ASSUME NEW k \in P PROVE Adds(k + 1)
  <2>0. k \in Nat /\ Adds(k) OBVIOUS
  <2>1. SUFFICES ASSUME k + 1 <= n
                 PROVE  SumFunctionOnSet(e, 1..(m + (k + 1)))
                          = SumFunctionOnSet(f, 1..m) + SumFunctionOnSet(h, 1..(k + 1))
    OBVIOUS
  <2>2. /\ 1..(m + (k + 1)) = 1..(m + k) \union {m + (k + 1)} /\ m + (k + 1) \notin 1..(m + k)
        /\ 1..(k + 1) = 1..k \union {k + 1} /\ k + 1 \notin 1..k
        /\ k + 1 \in 1..n /\ k <= n
    BY <2>0, <2>1
  <2>3. e[m + (k + 1)] = h[k + 1] /\ h[k + 1] \in Int
    BY <2>2 DEF IntOn
  <2>4. SumFunctionOnSet(e, 1..(m + (k + 1))) = e[m + (k + 1)] + SumFunctionOnSet(e, 1..(m + k))
    BY <1>0, <2>0, <2>2, <2>3, SumWith
  <2>5. SumFunctionOnSet(h, 1..(k + 1)) = h[k + 1] + SumFunctionOnSet(h, 1..k)
    BY <1>0, <2>0, <2>2, <2>3, SumWith
  <2>6. SumFunctionOnSet(e, 1..(m + k)) = SumFunctionOnSet(f, 1..m) + SumFunctionOnSet(h, 1..k)
    BY <2>0, <2>2
  <2>7. SumFunctionOnSet(f, 1..m) \in Int /\ SumFunctionOnSet(h, 1..k) \in Int
    BY <1>0, <2>0, <2>2, SumInt, FS_Interval
  <2> QED BY <2>3, <2>4, <2>5, <2>6, <2>7
<1>3. P = Nat
  <2>1. 0 \in P /\ \A k \in P : k + 1 \in P
    <3> HIDE DEF Adds
    <3> QED BY <1>1, <1>2
  <2> HIDE DEF P
  <2> QED BY <2>1, AllNumbers DEF P
<1>4. n \in P BY <1>3
<1> QED BY <1>4

(***************************************************************************)
(* Largest elements.                                                       *)
(***************************************************************************)

\* A function into the integers has a largest value on a finite set.
LEMMA Largest ==
  ASSUME NEW S, IsFiniteSet(S), S # {}, NEW f, IntOn(f, S)
  PROVE  \E x \in S : \A y \in S : f[y] <= f[x]
<1> DEFINE HasLargest(s) == s # {} => \E x \in s : \A y \in s : f[y] <= f[x]
           P == {s \in SUBSET S : HasLargest(s)}
<1>1. ASSUME NEW s \in SUBSET S, \A x \in s : s \ {x} \in P PROVE HasLargest(s)
  <2>1. SUFFICES ASSUME s # {} PROVE \E x \in s : \A y \in s : f[y] <= f[x]
    OBVIOUS
  <2>2. PICK z \in s : TRUE BY <2>1
  <2>3. \A y \in s : f[y] \in Int
    BY DEF IntOn
  <2>4. CASE s \ {z} = {}
    <3>1. \A y \in s : y = z BY <2>4
    <3>2. f[z] <= f[z] BY <2>3
    <3> QED BY <3>1, <3>2
  <2>5. CASE s \ {z} # {}
    <3>1. PICK x \in s \ {z} : \A y \in s \ {z} : f[y] <= f[x]
      BY <1>1, <2>5
    <3>2. CASE f[z] <= f[x]
      BY <3>1, <3>2
    <3>3. CASE ~(f[z] <= f[x])
      <4>1. f[x] <= f[z] /\ f[z] <= f[z]
        BY <2>3, <3>3
      <4>2. ASSUME NEW y \in s PROVE f[y] <= f[z]
        <5>1. CASE y = z BY <4>1, <5>1
        <5>2. CASE y # z
          <6>1. f[y] <= f[x] /\ f[y] \in Int /\ f[x] \in Int /\ f[z] \in Int
            BY <2>3, <3>1, <5>2
          <6> QED BY <4>1, <6>1
        <5> QED BY <5>1, <5>2
      <4> QED BY <4>2
    <3> QED BY <3>2, <3>3
  <2> QED BY <2>4, <2>5
<1>2. P = SUBSET S
  <2>1. \A s \in SUBSET S : (\A x \in s : s \ {x} \in P) => s \in P
    <3> HIDE DEF HasLargest
    <3> QED BY <1>1
  <2>2. P \in SUBSET SUBSET S
    <3> HIDE DEF HasLargest
    <3> QED OBVIOUS
  <2> HIDE DEF P
  <2> QED BY <2>1, <2>2, AllSubsets
<1>3. HasLargest(S)
  <2> HIDE DEF HasLargest
  <2> QED BY <1>2
<1> QED BY <1>3

(***************************************************************************)
(* Recursion along a list.                                                 *)
(***************************************************************************)

\* g iterates step over 1..n.
Recurses(g, n, T, base, step) ==
  g \in [0..n -> T] /\ g[0] = base /\ \A i \in 1..n : g[i] = step[i][g[i - 1]]

\* A recursion over 0..n has a solution.
LEMMA RecursionExists ==
  ASSUME NEW n \in Nat, NEW T, NEW base \in T, NEW step \in [1..n -> [T -> T]]
  PROVE  \E g : Recurses(g, n, T, base, step)
<1> DEFINE Good(g, k) == /\ g \in [0..k -> T] /\ g[0] = base
                         /\ \A i \in 1..k : g[i] = step[i][g[i - 1]]
           P == {k \in Nat : k <= n => \E g : Good(g, k)}
<1>1. \E g : Good(g, 0)
  <2>1. Good([i \in 0..0 |-> base], 0) OBVIOUS
  <2> QED BY <2>1
<1>2. ASSUME NEW k \in Nat, k + 1 <= n, \E g : Good(g, k) PROVE \E g : Good(g, k + 1)
  <2>0. k \in Nat OBVIOUS
  <2>1. k + 1 <= n BY <1>2
  <2>2. PICK g : Good(g, k)
    BY <1>2
  <2>3. PICK h : h = [i \in 0..(k + 1) |-> IF i = k + 1 THEN step[k + 1][g[k]] ELSE g[i]]
    OBVIOUS
  <2>4. step[k + 1] \in [T -> T] /\ g[k] \in T
    BY <2>0, <2>1, <2>2
  <2>5. h \in [0..(k + 1) -> T]
    <3>1. \A i \in 0..(k + 1) : i # k + 1 => i \in 0..k BY <2>0
    <3> QED BY <2>2, <2>3, <2>4, <3>1
  <2>6. h[0] = base
    <3>1. 0 \in 0..(k + 1) /\ 0 # k + 1 BY <2>0
    <3> QED BY <2>2, <2>3, <3>1
  <2>7. ASSUME NEW i \in 1..(k + 1) PROVE h[i] = step[i][h[i - 1]]
    <3>1. i - 1 \in 0..(k + 1) /\ i - 1 # k + 1 /\ i \in 0..(k + 1)
      BY <2>0
    <3>2. h[i - 1] = g[i - 1]
      BY <2>3, <3>1
    <3>3. CASE i = k + 1
      <4>1. i - 1 = k BY <2>0, <3>3
      <4> QED BY <2>3, <3>1, <3>2, <3>3, <4>1
    <3>4. CASE i # k + 1
      <4>1. i \in 1..k BY <2>0, <3>4
      <4> QED BY <2>2, <2>3, <3>1, <3>2, <3>4, <4>1
    <3> QED BY <3>3, <3>4
  <2>8. Good(h, k + 1) BY <2>5, <2>6, <2>7
  <2> QED BY <2>8
<1>3. \E g : Good(g, n)
  <2> HIDE DEF Good
  <2>1. P \in SUBSET Nat /\ 0 \in P BY <1>1
  <2>2. ASSUME NEW k \in P PROVE k + 1 \in P
    <3>1. k + 1 <= n => k <= n OBVIOUS
    <3> QED BY <1>2, <3>1
  <2>3. P = Nat
    <3> HIDE DEF P
    <3> QED BY <2>1, <2>2, AllNumbers
  <2>4. n \in P BY <2>3
  <2> QED BY <2>4
<1> QED BY <1>3 DEF Recurses

(***************************************************************************)
(* Sums of two functions, and over two sets.                               *)
(***************************************************************************)

\* The sum of a function that is the sum of two.
LEMMA SumPlus ==
  ASSUME NEW S, IsFiniteSet(S), NEW f, IntOn(f, S), NEW g, IntOn(g, S), NEW h, \A x \in S : h[x] = f[x] + g[x]
  PROVE  SumFunctionOnSet(h, S) = SumFunctionOnSet(f, S) + SumFunctionOnSet(g, S)
<1> DEFINE Adds(s) == SumFunctionOnSet(h, s) = SumFunctionOnSet(f, s) + SumFunctionOnSet(g, s)
           P == {s \in SUBSET S : Adds(s)}
<1>0. IntOn(h, S)
  BY DEF IntOn
<1>1. ASSUME NEW s \in SUBSET S, \A x \in s : s \ {x} \in P PROVE s \in P
  <2>1. CASE s = {}
    BY <2>1, SumEmpty
  <2>2. CASE s # {}
    <3>1. PICK x \in s : TRUE BY <2>2
    <3>2. SumFunctionOnSet(h, s \ {x}) = SumFunctionOnSet(f, s \ {x}) + SumFunctionOnSet(g, s \ {x})
      BY <1>1
    <3>3. /\ SumFunctionOnSet(h, s) = h[x] + SumFunctionOnSet(h, s \ {x})
          /\ SumFunctionOnSet(f, s) = f[x] + SumFunctionOnSet(f, s \ {x})
          /\ SumFunctionOnSet(g, s) = g[x] + SumFunctionOnSet(g, s \ {x})
      <4>1. IsFiniteSet(s) /\ IntOn(f, s) /\ IntOn(g, s) /\ IntOn(h, s)
        BY <1>0, IntOnSubset
      <4> QED BY <4>1, SumTake
    <3>4. SumFunctionOnSet(f, s \ {x}) \in Int /\ SumFunctionOnSet(g, s \ {x}) \in Int
      <4>1. IsFiniteSet(s \ {x}) /\ IntOn(f, s \ {x}) /\ IntOn(g, s \ {x})
        BY IntOnSubset
      <4> QED BY <4>1, SumInt
    <3>5. f[x] \in Int /\ g[x] \in Int /\ h[x] = f[x] + g[x]
      BY DEF IntOn
    <3> QED BY <3>2, <3>3, <3>4, <3>5
  <2> QED BY <2>1, <2>2
<1>2. P \in SUBSET SUBSET S OBVIOUS
<1>3. P = SUBSET S
  <2> HIDE DEF P
  <2> QED BY <1>1, <1>2, AllSubsets
<1>4. Adds(S)
  <2> HIDE DEF Adds
  <2> QED BY <1>3
<1> QED BY <1>4

\* A sum of terms that are each at most k times another's.
LEMMA SumAtMost ==
  ASSUME NEW S, IsFiniteSet(S), NEW f, \A x \in S : f[x] \in Nat, NEW h, \A x \in S : h[x] \in Nat,
         NEW k \in Nat, \A x \in S : f[x] <= k * h[x]
  PROVE  SumFunctionOnSet(f, S) <= k * SumFunctionOnSet(h, S)
<1> DEFINE AtMost(s) == SumFunctionOnSet(f, s) <= k * SumFunctionOnSet(h, s)
           P == {s \in SUBSET S : AtMost(s)}
<1>0. IntOn(f, S) /\ IntOn(h, S)
  BY DEF IntOn
<1>1. ASSUME NEW s \in SUBSET S, \A x \in s : s \ {x} \in P PROVE s \in P
  <2>1. CASE s = {}
    BY <2>1, SumEmpty
  <2>2. CASE s # {}
    <3>1. PICK x \in s : TRUE BY <2>2
    <3>2. SumFunctionOnSet(f, s \ {x}) <= k * SumFunctionOnSet(h, s \ {x})
      BY <1>1
    <3>3. /\ SumFunctionOnSet(f, s) = f[x] + SumFunctionOnSet(f, s \ {x})
          /\ SumFunctionOnSet(h, s) = h[x] + SumFunctionOnSet(h, s \ {x})
      <4>1. IsFiniteSet(s) /\ IntOn(f, s) /\ IntOn(h, s)
        BY <1>0, IntOnSubset
      <4> QED BY <4>1, SumTake
    <3>4. PICK a \in Nat, b \in Nat, c \in Nat, d \in Nat :
            /\ a = f[x] /\ b = SumFunctionOnSet(f, s \ {x})
            /\ c = h[x] /\ d = SumFunctionOnSet(h, s \ {x})
      <4>1. IsFiniteSet(s \ {x})
        BY <1>0, IntOnSubset
      <4>2. SumFunctionOnSet(f, s \ {x}) \in Nat /\ SumFunctionOnSet(h, s \ {x}) \in Nat
        BY <4>1, SumNat
      <4> QED BY <4>2
    <3>5. a <= k * c /\ b <= k * d
      BY <3>2, <3>4
    <3>6. a + b <= k * (c + d)
      <4>1. k * c \in Nat /\ k * d \in Nat /\ k * (c + d) = k * c + k * d
        BY SMT
      <4> QED BY <3>5, <4>1
    <3>7. SumFunctionOnSet(f, s) = a + b /\ SumFunctionOnSet(h, s) = c + d
      BY <3>3, <3>4
    <3> QED BY <3>6, <3>7
  <2> QED BY <2>1, <2>2
<1>2. P \in SUBSET SUBSET S OBVIOUS
<1>3. P = SUBSET S
  <2> HIDE DEF P
  <2> QED BY <1>1, <1>2, AllSubsets
<1>4. AtMost(S)
  <2> HIDE DEF AtMost
  <2> QED BY <1>3
<1> QED BY <1>4

\* The sum over two sets that share no element.
LEMMA SumUnion ==
  ASSUME NEW S, IsFiniteSet(S), NEW f, IntOn(f, S), NEW t \in SUBSET S
  PROVE  SumFunctionOnSet(f, S) = SumFunctionOnSet(f, S \ t) + SumFunctionOnSet(f, t)
<1> DEFINE Splits(s) == SumFunctionOnSet(f, (S \ t) \union s) = SumFunctionOnSet(f, S \ t) + SumFunctionOnSet(f, s)
           P == {s \in SUBSET t : Splits(s)}
<1>0. IsFiniteSet(t) /\ SumFunctionOnSet(f, S \ t) \in Int
  <2>1. IsFiniteSet(t) /\ IsFiniteSet(S \ t) /\ IntOn(f, S \ t)
    BY IntOnSubset
  <2> QED BY <2>1, SumInt
<1>1. ASSUME NEW s \in SUBSET t, \A x \in s : s \ {x} \in P PROVE s \in P
  <2>1. CASE s = {}
    <3>1. (S \ t) \union s = S \ t BY <2>1
    <3> QED BY <1>0, <2>1, <3>1, SumEmpty
  <2>2. CASE s # {}
    <3>1. PICK x \in s : TRUE BY <2>2
    <3>2. PICK r : r = (S \ t) \union s
      OBVIOUS
    <3>3. r \ {x} = (S \ t) \union (s \ {x}) /\ x \in r /\ r \in SUBSET S /\ s \in SUBSET S
      BY <3>2
    <3>4. SumFunctionOnSet(f, r \ {x}) = SumFunctionOnSet(f, S \ t) + SumFunctionOnSet(f, s \ {x})
      BY <1>1, <3>3
    <3>5. /\ SumFunctionOnSet(f, r) = f[x] + SumFunctionOnSet(f, r \ {x})
          /\ SumFunctionOnSet(f, s) = f[x] + SumFunctionOnSet(f, s \ {x})
      <4>1. IsFiniteSet(s) /\ IntOn(f, s) /\ IsFiniteSet(r) /\ IntOn(f, r)
        BY <3>3, IntOnSubset
      <4> QED BY <3>3, <4>1, SumTake
    <3>6. f[x] \in Int /\ SumFunctionOnSet(f, s \ {x}) \in Int
      <4>1. IsFiniteSet(s \ {x}) /\ IntOn(f, s \ {x})
        BY IntOnSubset
      <4> QED BY <4>1, SumInt DEF IntOn
    <3>7. SumFunctionOnSet(f, r) = SumFunctionOnSet(f, S \ t) + SumFunctionOnSet(f, s)
      BY <1>0, <3>4, <3>5, <3>6
    <3> QED BY <3>2, <3>7
  <2> QED BY <2>1, <2>2
<1>2. P \in SUBSET SUBSET t OBVIOUS
<1>3. P = SUBSET t
  <2> HIDE DEF P
  <2> QED BY <1>0, <1>1, <1>2, AllSubsets
<1>4. Splits(t)
  <2> HIDE DEF Splits
  <2> QED BY <1>3
<1>5. (S \ t) \union t = S
  OBVIOUS
<1> QED BY <1>4, <1>5
=============================================================================
