----------------------------- MODULE FiniteSums -----------------------------
(***************************************************************************)
(* Facts about sums over finite sets that the proofs about balances need.  *)
(*                                                                         *)
(* The sums of the models are MapThenSumSet of the community modules: a     *)
(* recursive function on the subsets of a set, which takes the elements in  *)
(* the order CHOOSE gives.  Accumulates says of a function g that it is     *)
(* that recursive function for the summands f; the lemmas say that there is *)
(* one, only one, and that the order makes no difference.  They are proved  *)
(* from the least counterexample (LeastNumber).                             *)
(*                                                                         *)
(* The rest is about other folds of the models: that the recursion over the *)
(* subsets of a finite set, or over the numbers up to one, is defined for   *)
(* any step, and that what every step keeps the fold keeps.  The step is a  *)
(* function of pairs, so that the facts need no operator as a parameter.    *)
(***************************************************************************)
EXTENDS Integers, FiniteSets, FiniteSetTheorems, WellFoundedInduction, TLAPS

LEMMA LeastNumber ==
    ASSUME NEW T \in SUBSET Nat, T # {}
    PROVE  \E x \in T : \A y \in T : x <= y
<1>1. IsWellFoundedOn(OpToRel(<, Nat), Nat)
  BY NatLessThanWellFounded, Zenon
<1>2. PICK x \in T : \A y \in T : ~ (<<y, x>> \in OpToRel(<, Nat))
  BY <1>1, WFMin, Zenon
<1>3. \A y \in T : ~(y < x)
  BY <1>2, Zenon DEF OpToRel
<1> QED
  BY <1>3

First(R) == CHOOSE x \in R : TRUE

Summed(g, f, R) == IF R = {} THEN 0 ELSE f[First(R)] + g[R \ {First(R)}]

Follows(g, f, S) == \A R \in SUBSET S : g[R] = Summed(g, f, R)

Accumulates(g, f, S) == g \in [SUBSET S -> Int] /\ Follows(g, f, S)

LEMMA FirstIsOne == ASSUME NEW R, R # {} PROVE First(R) \in R
BY DEF First

\* The recursion over the subsets of a finite set has a solution.
LEMMA SumExists ==
    ASSUME NEW S, IsFiniteSet(S), NEW f \in [S -> Int]
    PROVE  \E g : Accumulates(g, f, S)
<1> DEFINE Upto(n) == {R \in SUBSET S : Cardinality(R) <= n}
           Solves(g, n) == g \in [Upto(n) -> Int] /\ \A R \in Upto(n) : g[R] = Summed(g, f, R)
           Bad == {n \in Nat : ~ \E g : Solves(g, n)}
<1>1. \A R \in SUBSET S : IsFiniteSet(R) /\ Cardinality(R) \in Nat
  BY FS_Subset, FS_CardinalityType
<1>2. \A R \in SUBSET S : R # {} =>
          /\ First(R) \in R /\ First(R) \in S /\ f[First(R)] \in Int
          /\ R \ {First(R)} \in SUBSET S
          /\ Cardinality(R \ {First(R)}) = Cardinality(R) - 1
  BY <1>1, FirstIsOne, FS_RemoveElement
<1>3. ASSUME NEW n \in Bad, \A m \in Bad : n <= m PROVE FALSE
  <2>1. CASE n = 0
    <3>1. \A R \in Upto(0) : R = {}
      BY <1>1, FS_EmptySet
    <3>2. Solves([R \in Upto(0) |-> 0], 0)
      BY <3>1 DEF Summed
    <3> QED
      BY <2>1, <3>2
  <2>2. CASE n # 0
    <3>1. n - 1 \in Nat /\ n - 1 \notin Bad
      <4>1. Bad \subseteq Nat
        OBVIOUS
      <4> HIDE DEF Bad
      <4> QED
        BY <1>3, <2>2, <4>1
    <3>2. PICK g : Solves(g, n - 1)
      BY <3>1
    <3> DEFINE h == [R \in Upto(n) |->
                        IF Cardinality(R) <= n - 1 THEN g[R]
                        ELSE f[First(R)] + g[R \ {First(R)}]]
    <3>3. ASSUME NEW R \in Upto(n) PROVE h[R] \in Int /\ h[R] = Summed(h, f, R)
      <4>1. CASE R = {}
        <5>1. Cardinality(R) = 0 /\ R \in Upto(n - 1)
          BY <3>1, <4>1, FS_EmptySet
        <5>2. h[R] = g[R]
          BY <3>1, <5>1
        <5> HIDE DEF h
        <5> QED
          BY <3>2, <4>1, <5>1, <5>2 DEF Summed
      <4>2. CASE R # {}
        <5> DEFINE rest == R \ {First(R)}
        <5>1. /\ rest \in Upto(n - 1) /\ rest \in Upto(n) /\ f[First(R)] \in Int
              /\ Cardinality(rest) <= n - 1
          BY <1>1, <1>2, <3>1, <4>2
        <5>2. h[rest] = g[rest] /\ g[rest] \in Int
          BY <3>2, <5>1
        <5>3. CASE Cardinality(R) <= n - 1
          <6>1. h[R] = g[R] /\ R \in Upto(n - 1)
            BY <5>3
          <6>2. g[R] = f[First(R)] + g[rest]
            BY <3>2, <4>2, <6>1 DEF Summed
          <6> HIDE DEF h
          <6> QED
            BY <4>2, <5>1, <5>2, <6>1, <6>2 DEF Summed
        <5>4. CASE ~(Cardinality(R) <= n - 1)
          <6>1. h[R] = f[First(R)] + g[rest]
            BY <5>4
          <6> HIDE DEF h
          <6> QED
            BY <4>2, <5>1, <5>2, <6>1 DEF Summed
        <5> QED
          BY <5>3, <5>4
      <4> QED
        BY <4>1, <4>2
    <3>4. Solves(h, n)
      BY <3>3
    <3> HIDE DEF h
    <3> QED
      BY <3>4
  <2> QED
    BY <2>1, <2>2
<1>4. Bad = {}
  BY <1>3, LeastNumber
<1>5. Upto(Cardinality(S)) = SUBSET S /\ Cardinality(S) \in Nat
  BY <1>1, FS_Subset, FS_CardinalityType
<1>6. PICK g : Solves(g, Cardinality(S))
  BY <1>4, <1>5
<1> QED
  BY <1>5, <1>6 DEF Accumulates, Follows

\* Two solutions agree wherever both are defined, and so do two lists of summands.
LEMMA SumUnique ==
    ASSUME NEW S, IsFiniteSet(S), NEW T, S \subseteq T,
           NEW f, NEW e, \A x \in S : f[x] = e[x],
           NEW g, Follows(g, f, S), NEW h, Follows(h, e, T)
    PROVE  h[S] = g[S]
<1> DEFINE Bad == {n \in Nat : \E R \in SUBSET S : Cardinality(R) = n /\ h[R] # g[R]}
<1>1. \A R \in SUBSET S : IsFiniteSet(R) /\ Cardinality(R) \in Nat /\ R \in SUBSET T
  BY FS_Subset, FS_CardinalityType
<1>2. ASSUME NEW n \in Bad, \A m \in Bad : n <= m PROVE FALSE
  <2>1. PICK R \in SUBSET S : Cardinality(R) = n /\ h[R] # g[R]
    OBVIOUS
  <2>2. g[R] = Summed(g, f, R) /\ h[R] = Summed(h, e, R)
    BY <1>1 DEF Follows
  <2>3. R # {}
    BY <2>1, <2>2 DEF Summed
  <2> DEFINE rest == R \ {First(R)}
  <2>4. /\ First(R) \in S /\ rest \in SUBSET S /\ Cardinality(rest) = n - 1
        /\ n \in Nat /\ n - 1 \in Nat /\ n - 1 < n
    <3>1. First(R) \in R /\ Cardinality(rest) = Cardinality(R) - 1
      BY <1>1, <2>3, FirstIsOne, FS_RemoveElement
    <3>2. rest \in SUBSET S /\ Cardinality(rest) \in Nat
      BY <1>1
    <3> QED
      BY <2>1, <3>1, <3>2
  <2>5. h[rest] = g[rest]
    <3>1. n - 1 \notin Bad
      <4> HIDE DEF Bad
      <4> QED
        BY <1>2, <2>4
    <3> QED
      BY <2>4, <3>1
  <2> QED
    BY <2>1, <2>2, <2>3, <2>4, <2>5 DEF Summed
<1>3. Bad = {}
  BY <1>2, LeastNumber
<1>4. Cardinality(S) \in Nat
  BY <1>1
<1> QED
  BY <1>3, <1>4

\* Any element may be taken first.
LEMMA SumAnyOrder ==
    ASSUME NEW S, IsFiniteSet(S), NEW f \in [S -> Int], NEW g, Accumulates(g, f, S),
           NEW Q \in SUBSET S, NEW a \in Q
    PROVE  g[Q] = f[a] + g[Q \ {a}]
<1> DEFINE Bad == {n \in Nat : \E R \in SUBSET S : \E x \in R :
                       Cardinality(R) = n /\ g[R] # f[x] + g[R \ {x}]}
<1>1. \A R \in SUBSET S : IsFiniteSet(R) /\ Cardinality(R) \in Nat /\ g[R] \in Int
  BY FS_Subset, FS_CardinalityType DEF Accumulates
<1>2. ASSUME NEW n \in Bad, \A m \in Bad : n <= m PROVE FALSE
  <2>0. PICK R \in SUBSET S : \E x \in R : Cardinality(R) = n /\ g[R] # f[x] + g[R \ {x}]
    OBVIOUS
  <2>1. PICK x \in R : Cardinality(R) = n /\ g[R] # f[x] + g[R \ {x}]
    BY <2>0
  <2> DEFINE y == First(R)
  <2>2. /\ y \in R /\ g[R] = f[y] + g[R \ {y}] /\ f[x] \in Int /\ f[y] \in Int
    BY FirstIsOne DEF Accumulates, Follows, Summed
  <2> HIDE DEF y
  <2>3. x # y
    BY <2>1, <2>2
  <2>4. \A z \in R : Cardinality(R \ {z}) = n - 1 /\ R \ {z} \in SUBSET S
    BY <1>1, <2>1, FS_RemoveElement
  <2>5. n - 1 \notin Bad /\ n - 1 \in Nat
    <3>1. n - 1 \in Nat /\ n \in Nat
      BY <1>1, <2>2, <2>4
    <3> HIDE DEF Bad
    <3> QED
      BY <1>2, <3>1
  <2>6. g[R \ {y}] = f[x] + g[(R \ {y}) \ {x}]
    BY <2>2, <2>3, <2>4, <2>5
  <2>7. g[R \ {x}] = f[y] + g[(R \ {x}) \ {y}]
    BY <2>2, <2>3, <2>4, <2>5
  <2>8. (R \ {y}) \ {x} = (R \ {x}) \ {y} /\ g[(R \ {y}) \ {x}] \in Int
    BY <1>1
  <2>9. g[R] = f[x] + g[R \ {x}]
    <3> DEFINE z == g[(R \ {x}) \ {y}]
    <3>1. z \in Int /\ g[R \ {y}] = f[x] + z
      BY <2>6, <2>8
    <3>2. g[R] = f[y] + (f[x] + z)
      BY <2>2, <3>1
    <3>3. g[R \ {x}] = f[y] + z
      BY <2>7
    <3>4. f[y] + (f[x] + z) = f[x] + (f[y] + z)
      <4> HIDE DEF z
      <4> QED
        BY <2>2, <3>1
    <3> HIDE DEF z
    <3> QED
      BY <3>2, <3>3, <3>4
  <2> QED
    BY <2>1, <2>9
<1>3. Bad = {}
  BY <1>2, LeastNumber
<1>4. Cardinality(Q) \in Nat
  BY <1>1
<1> QED
  BY <1>3, <1>4

\* One more summand adds what it is, whatever solutions the two sums are read off.
LEMMA SumAddsOne ==
    ASSUME NEW S, IsFiniteSet(S), NEW a, a \notin S, NEW T, T = S \cup {a},
           NEW f \in [T -> Int], NEW g, Accumulates(g, f, T),
           NEW e \in [S -> Int], \A x \in S : e[x] = f[x], NEW h, Accumulates(h, e, S)
    PROVE  h[S] \in Int /\ g[T] = h[S] + f[a]
<1>1. IsFiniteSet(T)
  BY FS_AddElement
<1>2. g[S] = h[S]
  BY SumUnique DEF Accumulates
<1>3. T \ {a} = S /\ a \in T
  OBVIOUS
<1>4. g[T] = f[a] + g[S]
  <2>1. g[T] = f[a] + g[T \ {a}]
    BY <1>1, <1>3, SumAnyOrder
  <2> QED
    BY <1>3, <2>1
<1>5. h[S] \in Int /\ f[a] \in Int
  BY <1>3 DEF Accumulates
<1> QED
  BY <1>2, <1>4, <1>5

SummandsOn(f, S) == IsFiniteSet(S) /\ f \in [S -> Int]
AnyOrder(g, f, S) == \A Q \in SUBSET S : \A a \in Q : g[Q] = f[a] + g[Q \ {a}]

LEMMA SumInAnyOrder ==
    ASSUME NEW S, NEW f, SummandsOn(f, S), NEW g, Accumulates(g, f, S)
    PROVE  AnyOrder(g, f, S)
<1>1. IsFiniteSet(S) /\ f \in [S -> Int]
  BY DEF SummandsOn
<1>2. ASSUME NEW Q \in SUBSET S, NEW a \in Q PROVE g[Q] = f[a] + g[Q \ {a}]
  BY <1>1, SumAnyOrder
<1> QED
  BY <1>2 DEF AnyOrder

LEMMA LastTakenAway ==
    ASSUME NEW n \in Nat, NEW i \in 0..n
    PROVE  0..i \in SUBSET (0..n) /\ i \in 0..i /\ (0..i) \ {i} = 0..(i - 1)
<1>1. \A x : x \in (0..i) \ {i} <=> x \in 0..(i - 1)
  OBVIOUS
<1> QED
  BY <1>1

\* Over consecutive numbers, two sums differ by what their summands differ by in all.
Telescopes(n, e, f, c) ==
    /\ n \in Nat /\ e \in [0..n -> Int] /\ f \in [0..n -> Int] /\ c \in [0..(n + 1) -> Int]
    /\ \A i \in 0..n : f[i] - e[i] = c[i + 1] - c[i]

LEMMA SumsDiffer ==
    ASSUME NEW n, NEW e, NEW f, NEW c, Telescopes(n, e, f, c),
           NEW g, Accumulates(g, e, 0..n), NEW h, Accumulates(h, f, 0..n)
    PROVE  h[0..n] = g[0..n] + c[n + 1] - c[0]
<1>0. /\ n \in Nat /\ e \in [0..n -> Int] /\ f \in [0..n -> Int] /\ c \in [0..(n + 1) -> Int]
      /\ \A i \in 0..n : f[i] - e[i] = c[i + 1] - c[i]
  BY DEF Telescopes
<1> DEFINE Bad == {m \in Nat : m <= n + 1 /\ h[0..(m - 1)] # g[0..(m - 1)] + c[m] - c[0]}
<1>1. /\ \A R \in SUBSET (0..n) : \A a \in R : h[R] = f[a] + h[R \ {a}]
      /\ \A R \in SUBSET (0..n) : \A a \in R : g[R] = e[a] + g[R \ {a}]
  <2>1. SummandsOn(e, 0..n) /\ SummandsOn(f, 0..n)
    <3>1. IsFiniteSet(0..n)
      BY <1>0, FS_Interval
    <3> QED
      BY <1>0, <3>1, Zenon DEF SummandsOn
  <2>2. AnyOrder(g, e, 0..n) /\ AnyOrder(h, f, 0..n)
    BY <2>1, SumInAnyOrder
  <2> QED
    BY <2>2 DEF AnyOrder
<1>2. ASSUME NEW m \in Bad, \A k \in Bad : m <= k PROVE FALSE
  <2>1. CASE m = 0
    <3>1. 0..(m - 1) = {} /\ c[0] \in Int
      BY <1>0, <2>1
    <3>2. h[{}] = 0 /\ g[{}] = 0
      BY DEF Accumulates, Follows, Summed
    <3> QED
      BY <2>1, <3>1, <3>2
  <2>2. CASE m # 0
    <3> DEFINE i == m - 1
               Q == 0..i
    <3>0. m \in Nat /\ m <= n + 1 /\ h[0..(m - 1)] # g[0..(m - 1)] + c[m] - c[0]
      OBVIOUS
    <3>1. /\ i \in 0..n /\ m = i + 1 /\ i + 1 \in 0..(n + 1) /\ i \in 0..(n + 1)
          /\ Q \in SUBSET (0..n) /\ i \in Q /\ Q \ {i} = 0..(i - 1)
          /\ h[Q] # g[Q] + c[m] - c[0]
      <4> HIDE DEF Bad
      <4>1. i \in 0..n /\ m = i + 1 /\ i + 1 \in 0..(n + 1) /\ i \in 0..(n + 1)
        BY <1>0, <2>2, <3>0
      <4>2. h[Q] # g[Q] + c[m] - c[0]
        BY <3>0
      <4> HIDE DEF i
      <4> QED
        BY <1>0, <4>1, <4>2, LastTakenAway
    <3>2. i \notin Bad
      <4>1. i < m /\ i \in Nat /\ m \in Nat
        BY <3>1
      <4> HIDE DEF Bad, i
      <4> QED
        BY <1>2, <4>1
    <3>3. h[0..(i - 1)] = g[0..(i - 1)] + c[i] - c[0]
      BY <3>1, <3>2
    <3> HIDE DEF i, Q
    <3>4. h[Q] = f[i] + h[Q \ {i}] /\ g[Q] = e[i] + g[Q \ {i}]
      <4> HIDE DEF Bad
      <4>1. Q \in SUBSET (0..n) /\ i \in Q
        BY <3>1
      <4>2. h[Q] = f[i] + h[Q \ {i}]
        BY <1>1, <4>1
      <4>3. g[Q] = e[i] + g[Q \ {i}]
        BY <1>1, <4>1
      <4> QED
        BY <4>2, <4>3
    <3>5. g[0..(i - 1)] \in Int
      BY <1>0, <3>1 DEF Accumulates
    <3>6. f[i] \in Int /\ e[i] \in Int /\ c[i] \in Int /\ c[i + 1] \in Int /\ c[0] \in Int
      BY <1>0, <3>1
    <3>7. f[i] - e[i] = c[i + 1] - c[i]
      BY <1>0, <3>1
    <3> DEFINE x == g[0..(i - 1)]
               y == f[i]
               z == e[i]
               v == c[i]
               w == c[i + 1]
               o == c[0]
    <3>8. h[Q] = y + (x + v - o) /\ g[Q] = z + x /\ y - z = w - v /\ h[Q] # g[Q] + w - o
      BY <3>1, <3>3, <3>4, <3>7
    <3>9. x \in Int /\ y \in Int /\ z \in Int /\ v \in Int /\ w \in Int /\ o \in Int
      BY <3>5, <3>6
    <3> HIDE DEF x, y, z, v, w, o
    <3> QED
      BY <3>8, <3>9
  <2> QED
    BY <2>1, <2>2
<1>3. Bad = {}
  BY <1>2, LeastNumber
<1>4. \A m \in Nat : m <= n + 1 => h[0..(m - 1)] = g[0..(m - 1)] + c[m] - c[0]
  BY <1>3
<1>5. (n + 1) - 1 = n /\ n + 1 \in Nat /\ n + 1 <= n + 1
  BY <1>0
<1> HIDE DEF Bad
<1>6. h[0..((n + 1) - 1)] = g[0..((n + 1) - 1)] + c[n + 1] - c[0]
  BY <1>4, <1>5
<1> QED
  BY <1>5, <1>6

-----------------------------------------------------------------------------
(* Folds of any kind *)

LEMMA SubsetInduction ==
    ASSUME NEW S, IsFiniteSet(S), NEW H,
           {} \in H,
           \A R \in SUBSET S : R # {} => \E x \in R : R \ {x} \in H => R \in H
    PROVE  S \in H
<1> DEFINE Bad == {n \in Nat : \E R \in SUBSET S : Cardinality(R) = n /\ R \notin H}
<1>1. \A R \in SUBSET S : IsFiniteSet(R) /\ Cardinality(R) \in Nat
  BY FS_Subset, FS_CardinalityType
<1>2. ASSUME NEW n \in Bad, \A m \in Bad : n <= m PROVE FALSE
  <2>1. PICK R \in SUBSET S : Cardinality(R) = n /\ R \notin H
    OBVIOUS
  <2>2. PICK x \in R : R \ {x} \in H => R \in H
    BY <2>1
  <2>3. R \ {x} \in SUBSET S /\ Cardinality(R \ {x}) = n - 1 /\ R \ {x} \notin H
    BY <1>1, <2>1, <2>2, FS_RemoveElement
  <2>4. n - 1 \in Bad /\ n \in Nat /\ n - 1 < n
    BY <1>1, <2>1, <2>3
  <2> HIDE DEF Bad
  <2> QED
    BY <1>2, <2>4
<1>3. Bad = {}
  BY <1>2, LeastNumber
<1> QED
  BY <1>1, <1>3

\* What MapThenFoldSet reaches when step[<<x, y>>] takes the element x to the result y.
Reached(g, base, pick, step, R) ==
    IF R = {} THEN base ELSE step[<<pick[R], g[R \ {pick[R]}]>>]

IsFold(g, base, pick, step, S) == g = [R \in SUBSET S |-> Reached(g, base, pick, step, R)]

Picks(pick, S) == \A R \in SUBSET S : R # {} => pick[R] \in R

\* The fold over a finite set is defined.
LEMMA FoldExists ==
    ASSUME NEW S, IsFiniteSet(S), NEW base, NEW step,
           NEW pick, Picks(pick, S)
    PROVE  \E g : IsFold(g, base, pick, step, S)
<1> DEFINE Upto(n) == {R \in SUBSET S : Cardinality(R) <= n}
           Solves(g, n) == g = [R \in Upto(n) |-> Reached(g, base, pick, step, R)]
           Bad == {n \in Nat : ~ \E g : Solves(g, n)}
<1>1. \A R \in SUBSET S : IsFiniteSet(R) /\ Cardinality(R) \in Nat
  BY FS_Subset, FS_CardinalityType
<1>2. \A R \in SUBSET S : R # {} =>
          /\ R \ {pick[R]} \in SUBSET S
          /\ Cardinality(R \ {pick[R]}) = Cardinality(R) - 1
  BY <1>1, FS_RemoveElement DEF Picks
<1>3. ASSUME NEW n \in Bad, \A m \in Bad : n <= m PROVE FALSE
  <2>1. CASE n = 0
    <3>1. \A R \in Upto(0) : R = {}
      BY <1>1, FS_EmptySet
    <3>2. Solves([R \in Upto(0) |-> base], 0)
      BY <3>1 DEF Reached
    <3> QED
      BY <2>1, <3>2
  <2>2. CASE n # 0
    <3>1. n - 1 \in Nat /\ n - 1 \notin Bad
      <4>1. Bad \subseteq Nat
        OBVIOUS
      <4> HIDE DEF Bad
      <4> QED
        BY <1>3, <2>2, <4>1
    <3>2. PICK g : Solves(g, n - 1)
      BY <3>1
    <3> DEFINE h == [R \in Upto(n) |-> Reached(g, base, pick, step, R)]
    <3>3. ASSUME NEW R \in Upto(n - 1) PROVE R \in Upto(n) /\ h[R] = g[R]
      <4>1. R \in Upto(n)
        BY <1>1, <3>1
      <4>2. h[R] = Reached(g, base, pick, step, R)
        BY <4>1
      <4>3. g[R] = Reached(g, base, pick, step, R)
        BY <3>2
      <4> QED
        BY <4>1, <4>2, <4>3
    <3>4. ASSUME NEW R \in Upto(n) PROVE Reached(g, base, pick, step, R) = Reached(h, base, pick, step, R)
      <4>1. CASE R = {}
        BY <4>1 DEF Reached
      <4>2. CASE R # {}
        <5>1. R \ {pick[R]} \in Upto(n - 1)
          BY <1>1, <1>2, <3>1, <4>2
        <5>2. h[R \ {pick[R]}] = g[R \ {pick[R]}]
          BY <3>3, <5>1
        <5> HIDE DEF h
        <5> QED
          BY <5>2 DEF Reached
      <4> QED
        BY <4>1, <4>2
    <3>5. Solves(h, n)
      BY <3>4
    <3> HIDE DEF h
    <3> QED
      BY <3>5
  <2> QED
    BY <2>1, <2>2
<1>4. Bad = {}
  BY <1>3, LeastNumber
<1>5. Upto(Cardinality(S)) = SUBSET S /\ Cardinality(S) \in Nat
  BY <1>1, FS_Subset, FS_CardinalityType
<1>6. PICK g : Solves(g, Cardinality(S))
  BY <1>4, <1>5
<1>7. g = [R \in SUBSET S |-> Reached(g, base, pick, step, R)]
  BY <1>5, <1>6
<1> QED
  BY <1>7 DEF IsFold

\* Where every step stays within what range says of the elements it has taken,
\* so does the fold.
LEMMA FoldReaches ==
    ASSUME NEW S, IsFiniteSet(S), NEW base, NEW step,
           NEW pick, Picks(pick, S), NEW range, base \in range[{}],
           \A R \in SUBSET S : R # {} =>
               \A y \in range[R \ {pick[R]}] : step[<<pick[R], y>>] \in range[R]
    PROVE  \E g : /\ IsFold(g, base, pick, step, S)
                  /\ \A R \in SUBSET S : g[R] \in range[R]
<1>1. PICK g : IsFold(g, base, pick, step, S)
  BY FoldExists
<1>2. \A R \in SUBSET S : g[R] = Reached(g, base, pick, step, R)
  BY <1>1 DEF IsFold
<1>3. ASSUME NEW Q \in SUBSET S PROVE g[Q] \in range[Q]
  <2> DEFINE H == {R \in SUBSET Q : g[R] \in range[R]}
  <2>1. {} \in H
    BY <1>2 DEF Reached
  <2>2. ASSUME NEW R \in SUBSET Q, R # {} PROVE \E x \in R : R \ {x} \in H => R \in H
    <3>1. pick[R] \in R /\ R \in SUBSET S
      BY <2>2 DEF Picks
    <3>2. g[R] = step[<<pick[R], g[R \ {pick[R]}]>>]
      BY <1>2, <2>2, <3>1 DEF Reached
    <3> QED
      BY <2>2, <3>1, <3>2
  <2>3. IsFiniteSet(Q)
    BY FS_Subset
  <2> HIDE DEF H
  <2>4. Q \in H
    BY <2>1, <2>2, <2>3, SubsetInduction
  <2> QED
    BY <2>4 DEF H
<1> QED
  BY <1>1, <1>3, Zenon

IsLadder(g, base, step, n) == g = [i \in 0..n |-> IF i = 0 THEN base ELSE step[<<i, g[i - 1]>>]]

\* A recursion over the numbers up to n is defined.
LEMMA LadderExists ==
    ASSUME NEW n \in Nat, NEW base, NEW step
    PROVE  \E g : IsLadder(g, base, step, n)
<1> DEFINE Solves(g, m) == g = [i \in 0..m |-> IF i = 0 THEN base ELSE step[<<i, g[i - 1]>>]]
           Bad == {m \in Nat : ~ \E g : Solves(g, m)}
<1>1. ASSUME NEW m \in Bad, \A k \in Bad : m <= k PROVE FALSE
  <2>1. CASE m = 0
    <3>1. Solves([i \in 0..0 |-> base], 0)
      OBVIOUS
    <3> QED
      BY <2>1, <3>1
  <2>2. CASE m # 0
    <3>1. m \in Nat /\ m - 1 \in Nat /\ m - 1 \notin Bad
      <4>1. Bad \subseteq Nat
        OBVIOUS
      <4> HIDE DEF Bad
      <4> QED
        BY <1>1, <2>2, <4>1
    <3>2. PICK g : Solves(g, m - 1)
      BY <3>1
    <3>3. \A i \in 0..(m - 1) : g[i] = IF i = 0 THEN base ELSE step[<<i, g[i - 1]>>]
      BY <3>2
    <3> DEFINE h == [i \in 0..m |-> IF i = m THEN step[<<m, g[m - 1]>>] ELSE g[i]]
    <3>4. ASSUME NEW i \in 0..m PROVE h[i] = IF i = 0 THEN base ELSE step[<<i, h[i - 1]>>]
      <4>1. CASE i = m
        <5>1. m - 1 \in 0..m /\ m - 1 # m /\ m \in 0..m
          BY <3>1
        <5>2. h[m] = step[<<m, g[m - 1]>>] /\ h[m - 1] = g[m - 1]
          BY <5>1
        <5> HIDE DEF h
        <5> QED
          BY <2>2, <4>1, <5>2
      <4>2. CASE i # m
        <5>1. i \in 0..(m - 1) /\ (i # 0 => i - 1 \in 0..m /\ i - 1 # m)
          BY <3>1, <4>2
        <5>2. h[i] = g[i] /\ (i # 0 => h[i - 1] = g[i - 1])
          BY <4>2, <5>1
        <5>3. g[i] = IF i = 0 THEN base ELSE step[<<i, g[i - 1]>>]
          BY <3>3, <5>1
        <5> HIDE DEF h
        <5> QED
          BY <5>2, <5>3
      <4> QED
        BY <4>1, <4>2
    <3>5. Solves(h, m)
      <4> DEFINE e == [i \in 0..m |-> IF i = 0 THEN base ELSE step[<<i, h[i - 1]>>]]
      <4>1. \A i \in 0..m : h[i] = e[i]
        BY <3>4
      <4>2. h = e
        BY <4>1
      <4> QED
        BY <4>2
    <3> HIDE DEF h
    <3> QED
      BY <3>5
  <2> QED
    BY <2>1, <2>2
<1>2. Bad = {}
  BY <1>1, LeastNumber
<1>3. \E g : Solves(g, n)
  BY <1>2
<1> QED
  BY <1>3, Zenon DEF IsLadder

LEMMA GreatestNumber ==
    ASSUME NEW n \in Nat, NEW R \in SUBSET (1..n), R # {}
    PROVE  \E x \in R : \A y \in R : x >= y
<1> DEFINE T == {n - x : x \in R}
<1>1. T \in SUBSET Nat /\ T # {}
  <2>1. \A x \in R : n - x \in Nat
    OBVIOUS
  <2>2. T \in SUBSET Nat
    BY <2>1
  <2>3. PICK x \in R : TRUE
    OBVIOUS
  <2>4. n - x \in T
    OBVIOUS
  <2> QED
    BY <2>2, <2>4
<1>2. PICK z \in T : \A y \in T : z <= y
  BY <1>1, LeastNumber
<1>3. PICK x \in R : z = n - x
  OBVIOUS
<1>4. \A y \in R : n - x <= n - y
  BY <1>2, <1>3
<1> QED
  BY <1>4

=============================================================================
