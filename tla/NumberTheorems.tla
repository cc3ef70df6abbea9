--------------------------- MODULE NumberTheorems ---------------------------
(***************************************************************************)
(* What the other proofs need to know of numbers: remainders, which turn a *)
(* sequence number into an index (write_p & mask of ring_buffer.cpp,       *)
(* head & mask_ of spsc_queue.hpp); induction over the natural numbers, in *)
(* a form that needs no operator as a parameter; and with it the sum of a  *)
(* function over a finite set: that the recursive definition has a         *)
(* solution, and that any element can be taken out of the sum first.       *)
(***************************************************************************)
EXTENDS Integers, Sequences, Functions, WellFoundedInduction, FiniteSetTheorems,
        SequenceTheorems, TLAPS

-----------------------------------------------------------------------------
(* Remainders.                                                             *)

\* A multiple of n that is smaller than n is 0.
LEMMA SmallMultiple ==
  ASSUME NEW n \in Nat \ {0}, NEW k \in Int, -n < n * k, n * k < n
  PROVE  k = 0
<1>1. CASE k >= 1
  <2>1. k - 1 \in Nat /\ n * k = n + n * (k - 1)
    BY <1>1
  <2>2. n * (k - 1) >= 0
    BY <2>1
  <2>3. QED
    BY <2>1, <2>2
<1>2. CASE k <= -1
  <2>1. -1 - k \in Nat /\ n * k = -n - n * (-1 - k)
    BY <1>2
  <2>2. n * (-1 - k) >= 0
    BY <2>1
  <2>3. QED
    BY <2>1, <2>2
<1>3. QED
  BY <1>1, <1>2

\* Multiplication distributes over subtraction.
LEMMA Distributes ==
  \A n, x, y \in Int : n * (x - y) = n * x - n * y
OBVIOUS

\* An index is in the buffer, and a whole number of laps from its sequence number.
LEMMA RemainderRange ==
  ASSUME NEW n \in Nat \ {0}, NEW c \in Nat
  PROVE  /\ c % n \in 0..n - 1
         /\ c % n \in Int
         /\ \E q \in Int : c = n * q + (c % n)
<1>1. c \div n \in Int /\ c = n * (c \div n) + (c % n)
  OBVIOUS
<1>2. c % n \in 0..n - 1
  OBVIOUS
<1>3. \E q \in Int : c = n * q + (c % n)
  BY <1>1
<1>4. \A i \in 0..n - 1 : i \in Int
  OBVIOUS
<1> DEFINE r == c % n
<1>5. r \in 0..n - 1 /\ \E q \in Int : c = n * q + r
  BY <1>2, <1>3
<1> HIDE DEF r
<1>6. r \in Int
  BY <1>4, <1>5
<1>7. QED
  BY <1>5, <1>6 DEF r

\* Two sequence numbers less than a lap apart have different indexes.
LEMMA SameLap ==
  ASSUME NEW n \in Nat \ {0}, NEW c \in Nat, NEW d \in Nat, c < d, d - c < n
  PROVE  c % n # d % n
<1> SUFFICES ASSUME c % n = d % n
             PROVE  FALSE
  OBVIOUS
<1>1. PICK x \in Int : d = n * x + (d % n)
  BY RemainderRange
<1>2. PICK y \in Int : c = n * y + (c % n)
  BY RemainderRange
<1>3. /\ n \in Int /\ c % n \in Int
      /\ n * x \in Int /\ n * y \in Int
  BY RemainderRange
<1>4. n * (x - y) = n * x - n * y
  BY <1>3, Distributes
<1>5. n * (x - y) = d - c
  BY <1>1, <1>2, <1>3, <1>4
<1>6. x - y = 0
  BY <1>3, <1>5, SmallMultiple
<1>7. QED
  BY <1>3, <1>5, <1>6

\* The sequence number a lap later has the same index.
LEMMA NextLap ==
  ASSUME NEW n \in Nat \ {0}, NEW c \in Nat
  PROVE  (c + n) % n = c % n
<1>0. c + n \in Nat
  OBVIOUS
<1>1. PICK x \in Int : c + n = n * x + ((c + n) % n)
  BY <1>0, RemainderRange
<1>2. PICK y \in Int : c = n * y + (c % n)
  BY RemainderRange
<1>3. /\ n * x \in Int /\ n * y \in Int
      /\ c % n \in 0..n - 1 /\ (c + n) % n \in 0..n - 1
  BY <1>0, RemainderRange
<1>4. /\ n * (x - y) = n * x - n * y
      /\ n * ((x - y) - 1) = n * (x - y) - n * 1
  BY Distributes
<1>5. n * ((x - y) - 1) = (c % n) - ((c + n) % n)
  BY <1>1, <1>2, <1>3, <1>4
<1>6. (x - y) - 1 = 0
  BY <1>3, <1>5, SmallMultiple
<1>7. n * 0 = 0
  OBVIOUS
<1>8. QED
  BY <1>3, <1>5, <1>6, <1>7

-----------------------------------------------------------------------------
(* Induction.                                                              *)

\* A set of natural numbers has a least element.
LEMMA LeastNatural ==
  ASSUME NEW T, T \subseteq Nat, T # {}
  PROVE  \E x \in T : \A y \in T : x <= y
<1> DEFINE R == {ss \in Nat \X Nat : ss[1] < ss[2]}
<1>1. IsWellFoundedOn(R, Nat)
  BY NatLessThanWellFounded, Zenon DEF OpToRel
<1> HIDE DEF R
<1>2. \E x \in T : \A y \in T : ~ (<<y, x>> \in R)
  BY <1>1, WFMin, Zenon
<1>3. \A x, y \in Nat : y < x => <<y, x>> \in R
  BY DEF R
<1>4. \A x, y \in Nat : x <= y \/ y < x
  OBVIOUS
<1>5. QED
  BY <1>2, <1>3, <1>4, Zenon

\* A set that has 0, and the successor of every number it has, has them all.
LEMMA NatSetInduction ==
  ASSUME NEW G, G \subseteq Nat, 0 \in G, \A n \in G : n + 1 \in G
  PROVE  G = Nat
<1> SUFFICES ASSUME Nat \ G # {} PROVE FALSE
  OBVIOUS
<1>1. PICK x \in Nat \ G : \A y \in Nat \ G : x <= y
  BY LeastNatural, Nat \ G \subseteq Nat
<1>2. x # 0 /\ x - 1 \in Nat
  BY <1>1
<1>3. x - 1 \in G
  BY <1>1, <1>2
<1>4. QED
  BY <1>1, <1>3

StaysIn(g, S, m)      == \A n \in 1..m : \A u \in S : g[n][u] \in S
IsIterate(f, a, g, m) == f[0] = a /\ \A n \in 1..m : f[n] = g[n][f[n - 1]]

\* A function can be defined by its first value and a step from one value to the next.
LEMMA RecursionExists ==
  ASSUME NEW S, NEW a \in S, NEW g, NEW m \in Nat, StaysIn(g, S, m)
  PROVE  \E f \in [0..m -> S] : IsIterate(f, a, g, m)
<1> USE DEF StaysIn, IsIterate
<1> DEFINE Upto(k, f) == f[0] = a /\ \A n \in 1..k : f[n] = g[n][f[n - 1]]
           G == {k \in Nat : k <= m => \E f \in [0..k -> S] : Upto(k, f)}
<1>1. 0 \in G
  <2> DEFINE f == [n \in 0..0 |-> a]
  <2>1. f \in [0..0 -> S] /\ Upto(0, f)
    OBVIOUS
  <2> HIDE DEF f, Upto
  <2>2. QED
    BY <2>1
<1>2. ASSUME NEW k \in G
      PROVE  k + 1 \in G
  <2> SUFFICES ASSUME k + 1 <= m
               PROVE  \E f \in [0..k + 1 -> S] : Upto(k + 1, f)
    OBVIOUS
  <2>1. PICK f \in [0..k -> S] : Upto(k, f)
    OBVIOUS
  <2> DEFINE h == [n \in 0..k + 1 |-> IF n = k + 1 THEN g[n][f[k]] ELSE f[n]]
  <2>2. k \in Nat /\ k \in 0..k /\ f[k] \in S
    OBVIOUS
  <2>3. h \in [0..k + 1 -> S]
    <3>1. k + 1 \in 1..m
      BY <2>2
    <3>2. g[k + 1][f[k]] \in S
      BY <2>2, <3>1
    <3>3. \A n \in 0..k + 1 : n # k + 1 => n \in 0..k
      BY <2>2
    <3>4. QED
      BY <3>2, <3>3
  <2>4. \A n \in 0..k : h[n] = f[n]
    BY <2>2
  <2>5. h[k + 1] = g[k + 1][f[k]]
    BY <2>2
  <2> HIDE DEF h
  <2>6. Upto(k + 1, h)
    <3>1. h[0] = a
      BY <2>1, <2>2, <2>4
    <3>2. ASSUME NEW n \in 1..k + 1
          PROVE  h[n] = g[n][h[n - 1]]
      <4>1. CASE n = k + 1
        <5>1. h[n - 1] = f[k]
          BY <2>2, <2>4, <4>1
        <5>2. QED
          BY <2>5, <4>1, <5>1
      <4>2. CASE n # k + 1
        <5>1. n \in 1..k /\ n \in 0..k /\ n - 1 \in 0..k
          BY <2>2, <4>2
        <5>2. QED
          BY <2>1, <2>4, <5>1
      <4>3. QED
        BY <4>1, <4>2
    <3>3. QED
      BY <3>1, <3>2
  <2> HIDE DEF Upto
  <2>7. QED
    BY <2>2, <2>3, <2>6
<1>3. G = Nat
  <2>1. G \subseteq Nat
    OBVIOUS
  <2> HIDE DEF G
  <2>2. QED
    BY <1>1, <1>2, <2>1, NatSetInduction
<1>4. QED
  BY <1>3

-----------------------------------------------------------------------------
(* The sum of fun over the subsets of S, as SumFunctionOnSet defines it.   *)

Pick(s) == CHOOSE x \in s : TRUE
SumStep(fun, f, s) == IF s = {} THEN 0 ELSE fun[Pick(s)] + f[s \ {Pick(s)}]
Sums(fun, S) == CHOOSE f : f = [s \in SUBSET S |-> SumStep(fun, f, s)]
IsSums(f, fun, S) ==
  /\ f \in [SUBSET S -> Int]
  /\ \A s \in SUBSET S : f[s] = SumStep(fun, f, s)

LEMMA SumUnfolds ==
  ASSUME NEW fun, NEW S
  PROVE  SumFunctionOnSet(fun, S) = Sums(fun, S)[S]
BY Zenon DEF SumFunctionOnSet, FoldFunctionOnSet, MapThenFoldSet, Sums, SumStep, Pick

LEMMA PickIsIn == ASSUME NEW s, s # {} PROVE Pick(s) \in s
BY DEF Pick

\* What is left of a finite set without an element is finite and smaller.
LEMMA OneLess ==
  ASSUME NEW s, IsFiniteSet(s), NEW a \in s
  PROVE  /\ IsFiniteSet(s \ {a})
         /\ Cardinality(s) \in Nat /\ Cardinality(s \ {a}) \in Nat
         /\ Cardinality(s \ {a}) = Cardinality(s) - 1
BY FS_RemoveElement, FS_CardinalityType

\* The recursion has a solution on the subsets of a finite set: one that is good up
\* to n elements is turned into one that is good up to n + 1 by a step.
LEMMA SumsExist ==
  ASSUME NEW S, IsFiniteSet(S), NEW fun, \A x \in S : fun[x] \in Int
  PROVE  \E f : IsSums(f, fun, S)
<1> DEFINE Upto(n, f) == \A s \in SUBSET S : Cardinality(s) <= n => f[s] = SumStep(fun, f, s)
           G == {n \in Nat : \E f \in [SUBSET S -> Int] : Upto(n, f)}
<1>1. \A s \in SUBSET S : IsFiniteSet(s) /\ Cardinality(s) \in Nat
  BY FS_Subset, FS_CardinalityType
<1>2. ASSUME NEW f \in [SUBSET S -> Int], NEW s \in SUBSET S
      PROVE  SumStep(fun, f, s) \in Int
  <2>1. CASE s # {}
    BY <2>1, PickIsIn DEF SumStep
  <2>2. QED
    BY <2>1 DEF SumStep
<1>3. 0 \in G
  <2> DEFINE z == [s \in SUBSET S |-> 0]
  <2>1. \A s \in SUBSET S : Cardinality(s) <= 0 => s = {}
    BY <1>1, FS_EmptySet
  <2>2. z \in [SUBSET S -> Int] /\ Upto(0, z)
    BY <2>1 DEF SumStep
  <2>3. QED
    BY <2>2
<1>4. ASSUME NEW n \in G
      PROVE  n + 1 \in G
  <2>1. PICK f \in [SUBSET S -> Int] : Upto(n, f)
    OBVIOUS
  <2> DEFINE g == [s \in SUBSET S |-> SumStep(fun, f, s)]
  <2>2. g \in [SUBSET S -> Int]
    BY <1>2
  <2>3. ASSUME NEW s \in SUBSET S, Cardinality(s) <= n + 1
        PROVE  g[s] = SumStep(fun, g, s)
    <3>1. CASE s = {}
      BY <3>1 DEF SumStep
    <3>2. CASE s # {}
      <4> DEFINE r == s \ {Pick(s)}
      <4>1. Pick(s) \in s /\ r \in SUBSET S
        BY <3>2, PickIsIn
      <4>2. Cardinality(r) <= n
        BY <1>1, <2>3, <4>1, OneLess
      <4>3. f[r] = g[r]
        BY <2>1, <4>1, <4>2
      <4>4. QED
        BY <3>2, <4>1, <4>3 DEF SumStep
    <3>3. QED
      BY <3>1, <3>2
  <2> HIDE DEF g
  <2>4. Upto(n + 1, g)
    BY <2>3
  <2> HIDE DEF Upto
  <2>5. n + 1 \in Nat
    OBVIOUS
  <2>6. \E h \in [SUBSET S -> Int] : Upto(n + 1, h)
    BY <2>2, <2>4
  <2>7. QED
    BY <2>5, <2>6
<1>5. G = Nat
  <2>1. G \subseteq Nat
    OBVIOUS
  <2> HIDE DEF G
  <2>2. QED
    BY <1>3, <1>4, <2>1, NatSetInduction
<1>6. PICK f \in [SUBSET S -> Int] : Upto(Cardinality(S), f)
  BY <1>1, <1>5
<1>7. \A s \in SUBSET S : Cardinality(s) <= Cardinality(S)
  BY FS_Subset
<1>8. QED
  BY <1>6, <1>7 DEF IsSums

\* Sums is that solution.
LEMMA SumsIsSums ==
  ASSUME NEW S, IsFiniteSet(S), NEW fun, \A x \in S : fun[x] \in Int
  PROVE  IsSums(Sums(fun, S), fun, S)
<1>1. PICK f : IsSums(f, fun, S)
  BY SumsExist
<1>2. f = [s \in SUBSET S |-> SumStep(fun, f, s)]
  BY <1>1 DEF IsSums
<1> DEFINE h == Sums(fun, S)
<1>3. h = [s \in SUBSET S |-> SumStep(fun, h, s)]
  BY <1>2, Zenon DEF Sums
<1> HIDE DEF h
<1>4. \A s \in SUBSET S : h[s] = SumStep(fun, h, s)
  BY <1>3
<1>5. \A s \in SUBSET S : IsFiniteSet(s) /\ Cardinality(s) \in Nat
  BY FS_Subset, FS_CardinalityType
<1> DEFINE Bad == {Cardinality(s) : s \in {t \in SUBSET S : h[t] # f[t]}}
<1>6. Bad = {}
  <2> SUFFICES ASSUME Bad # {} PROVE FALSE
    OBVIOUS
  <2>1. PICK s \in SUBSET S : h[s] # f[s] /\ \A n \in Bad : Cardinality(s) <= n
    <3>1. Bad \subseteq Nat
      BY <1>5
    <3>2. QED
      BY <3>1, LeastNatural
  <2>2. s # {}
    BY <1>1, <1>4, <2>1 DEF IsSums, SumStep
  <2>3. Pick(s) \in s
    BY <2>2, PickIsIn
  <2>4. Cardinality(s \ {Pick(s)}) = Cardinality(s) - 1 /\ Cardinality(s) \in Nat
    BY <1>5, <2>3, OneLess
  <2>5. h[s \ {Pick(s)}] = f[s \ {Pick(s)}]
    BY <2>1, <2>4
  <2>6. QED
    BY <1>1, <1>4, <2>1, <2>2, <2>5 DEF IsSums, SumStep
<1>7. \A s \in SUBSET S : h[s] = f[s]
  BY <1>6
<1>8. h \in [SUBSET S -> Int]
  BY <1>1, <1>3, <1>7 DEF IsSums
<1>9. QED
  BY <1>4, <1>8 DEF IsSums, h

\* Solutions for functions that agree on a set agree on its subsets.
LEMMA SumsAgree ==
  ASSUME NEW S, NEW T, IsFiniteSet(T), T \subseteq S, NEW fun, NEW gun,
         \A x \in T : fun[x] = gun[x],
         NEW f, NEW g, IsSums(f, fun, S), IsSums(g, gun, T)
  PROVE  f[T] = g[T]
<1>1. \A s \in SUBSET T : IsFiniteSet(s) /\ Cardinality(s) \in Nat
  BY FS_Subset, FS_CardinalityType
<1> DEFINE Bad == {Cardinality(s) : s \in {t \in SUBSET T : f[t] # g[t]}}
<1>2. Bad = {}
  <2> SUFFICES ASSUME Bad # {} PROVE FALSE
    OBVIOUS
  <2>1. PICK s \in SUBSET T : f[s] # g[s] /\ \A n \in Bad : Cardinality(s) <= n
    <3>1. Bad \subseteq Nat
      BY <1>1
    <3>2. QED
      BY <3>1, LeastNatural
  <2>2. s # {}
    BY <2>1 DEF IsSums, SumStep
  <2>3. Pick(s) \in s
    BY <2>2, PickIsIn
  <2>4. Cardinality(s \ {Pick(s)}) = Cardinality(s) - 1 /\ Cardinality(s) \in Nat
    BY <1>1, <2>3, OneLess
  <2>5. f[s \ {Pick(s)}] = g[s \ {Pick(s)}]
    BY <2>1, <2>4
  <2>6. QED
    BY <2>1, <2>2, <2>3, <2>5 DEF IsSums, SumStep
<1>3. QED
  BY <1>2

\* Any element may be taken out first.
LEMMA SumsSplit ==
  ASSUME NEW S, IsFiniteSet(S), NEW fun, \A x \in S : fun[x] \in Int,
         NEW f, IsSums(f, fun, S)
  PROVE  \A s \in SUBSET S : \A a \in s : f[s] = fun[a] + f[s \ {a}]
<1>1. \A s \in SUBSET S : IsFiniteSet(s) /\ Cardinality(s) \in Nat
  BY FS_Subset, FS_CardinalityType
<1> DEFINE Odd(t) == \E a \in t : f[t] # fun[a] + f[t \ {a}]
           Bad == {Cardinality(s) : s \in {t \in SUBSET S : Odd(t)}}
<1>2. Bad = {}
  <2> SUFFICES ASSUME Bad # {} PROVE FALSE
    OBVIOUS
  <2>1. PICK s \in SUBSET S : Odd(s) /\ \A n \in Bad : Cardinality(s) <= n
    <3>1. Bad \subseteq Nat
      BY <1>1
    <3>2. QED
      BY <3>1, LeastNatural
  <2>2. PICK a \in s : f[s] # fun[a] + f[s \ {a}]
    BY <2>1
  <2> DEFINE p == Pick(s)
  <2>3. p \in s
    BY <2>2, PickIsIn
  <2>4. f[s] = fun[p] + f[s \ {p}]
    BY <2>2 DEF IsSums, SumStep
  <2>5. p # a
    BY <2>2, <2>4
  <2> HIDE DEF p
  <2>6. /\ Cardinality(s \ {p}) = Cardinality(s) - 1
        /\ Cardinality(s \ {a}) = Cardinality(s) - 1
        /\ Cardinality(s) \in Nat
    BY <1>1, <2>3, OneLess
  <2>7. ~Odd(s \ {p}) /\ ~Odd(s \ {a})
    <3>1. ASSUME NEW t \in SUBSET S, Odd(t)
          PROVE  Cardinality(t) \in Bad
      BY <3>1
    <3>2. ASSUME NEW x \in s, Cardinality(s \ {x}) = Cardinality(s) - 1
          PROVE  ~Odd(s \ {x})
      <4>1. Cardinality(s \ {x}) \notin Bad
        BY <2>1, <2>6, <3>2
      <4>2. s \ {x} \in SUBSET S
        OBVIOUS
      <4> HIDE DEF Bad, Odd
      <4>3. QED
        BY <3>1, <4>1, <4>2
    <3> HIDE DEF Bad, Odd
    <3>3. QED
      BY <2>2, <2>3, <2>6, <3>2
  <2>8. /\ f[s \ {p}] = fun[a] + f[(s \ {p}) \ {a}]
        /\ f[s \ {a}] = fun[p] + f[(s \ {a}) \ {p}]
    BY <2>3, <2>5, <2>7
  <2>9. (s \ {p}) \ {a} = (s \ {a}) \ {p}
    OBVIOUS
  <2> DEFINE u == fun[a]
             v == fun[p]
             w == f[(s \ {a}) \ {p}]
  <2>10. u \in Int /\ v \in Int /\ w \in Int
    <3>1. a \in S /\ p \in S /\ (s \ {a}) \ {p} \in SUBSET S
      BY <2>3
    <3>2. QED
      BY <3>1 DEF IsSums
  <2>11. f[s] # u + f[s \ {a}] /\ f[s] = v + f[s \ {p}]
    BY <2>2, <2>4
  <2>12. f[s \ {p}] = u + w /\ f[s \ {a}] = v + w
    BY <2>8, <2>9
  <2> HIDE DEF u, v, w
  <2>13. v + (u + w) = u + (v + w)
    BY <2>10
  <2>14. QED
    BY <2>11, <2>12, <2>13, Zenon
<1>3. QED
  BY <1>2

-----------------------------------------------------------------------------

\* The sum of nothing is 0.
LEMMA SumOfNone ==
  ASSUME NEW fun, DOMAIN fun = {}
  PROVE  SumFunction(fun) = 0
<1>1. IsFiniteSet({}) /\ \A x \in {} : fun[x] \in Int
  BY FS_EmptySet
<1>2. Sums(fun, {})[{}] = 0
  BY <1>1, SumsIsSums DEF IsSums, SumStep
<1>3. QED
  BY <1>2, SumUnfolds DEF SumFunction

\* The sum of integers is an integer.
LEMMA SumType ==
  ASSUME NEW S, IsFiniteSet(S), NEW fun \in [S -> Int]
  PROVE  SumFunction(fun) \in Int
<1>1. IsSums(Sums(fun, S), fun, S)
  BY SumsIsSums
<1>2. QED
  BY <1>1, SumUnfolds DEF SumFunction, IsSums

\* fun without its value at a.
Without(fun, a) == Restrict(fun, DOMAIN fun \ {a})

\* The sum over a set is one value plus the sum over the others.
LEMMA SumSplit ==
  ASSUME NEW S, IsFiniteSet(S), NEW fun \in [S -> Int], NEW a \in S
  PROVE  /\ fun[a] \in Int /\ SumFunction(Without(fun, a)) \in Int
         /\ SumFunction(fun) = fun[a] + SumFunction(Without(fun, a))
<1> DEFINE gun == Without(fun, a)
<1>1. gun \in [S \ {a} -> Int] /\ \A x \in S \ {a} : gun[x] = fun[x]
  BY DEF Without, Restrict
<1> HIDE DEF gun
<1>2. IsSums(Sums(fun, S), fun, S)
  BY SumsIsSums
<1>3. IsFiniteSet(S \ {a})
  BY OneLess
<1>4. IsSums(Sums(gun, S \ {a}), gun, S \ {a})
  BY <1>1, <1>3, SumsIsSums
<1>5. Sums(fun, S)[S] = fun[a] + Sums(fun, S)[S \ {a}]
  BY <1>2, SumsSplit
<1>6. Sums(fun, S)[S \ {a}] = Sums(gun, S \ {a})[S \ {a}]
  BY <1>1, <1>2, <1>3, <1>4, SumsAgree
<1>7. SumFunction(fun) = fun[a] + SumFunction(gun)
  BY <1>1, <1>5, <1>6, SumUnfolds DEF SumFunction
<1>8. SumFunction(gun) \in Int
  BY <1>1, <1>3, SumType
<1>9. QED
  BY <1>7, <1>8 DEF gun

\* The volumes of the elements of a sequence.
VolumesOf(t) == [i \in DOMAIN t |-> t[i].volume]

\* An element that is appended adds its volume to the sum.
LEMMA SumOfAppend ==
  ASSUME NEW S, \A x \in S : x.volume \in Int, NEW t \in Seq(S), NEW e \in S
  PROVE  /\ SumFunction(VolumesOf(t)) \in Int
         /\ SumFunction(VolumesOf(Append(t, e))) = SumFunction(VolumesOf(t)) + e.volume
<1> DEFINE n == Len(t)
           fun == VolumesOf(t)
           gun == VolumesOf(Append(t, e))
<1>1. /\ n \in Nat /\ DOMAIN t = 1..n
      /\ \A i \in 1..n : t[i] \in S
  BY LenProperties
<1>2. /\ DOMAIN Append(t, e) = 1..(n + 1)
      /\ \A i \in 1..n : Append(t, e)[i] = t[i]
      /\ Append(t, e)[n + 1] = e
  BY AppendProperties, LenProperties
<1> HIDE DEF n
<1>3. gun \in [1..(n + 1) -> Int] /\ gun[n + 1] = e.volume
  <2>1. \A i \in 1..(n + 1) : i \in 1..n \/ i = n + 1
    BY <1>1
  <2>2. n + 1 \in 1..(n + 1)
    BY <1>1
  <2>3. QED
    BY <1>1, <1>2, <2>1, <2>2 DEF VolumesOf
<1>4. fun = Without(gun, n + 1)
  <2>1. 1..n = (1..(n + 1)) \ {n + 1}
    BY <1>1
  <2>2. QED
    BY <1>1, <1>2, <2>1 DEF VolumesOf, Without, Restrict
<1> HIDE DEF fun, gun
<1>5. n + 1 \in 1..(n + 1) /\ IsFiniteSet(1..(n + 1))
  BY <1>1, FS_Interval
<1>6. SumFunction(gun) = gun[n + 1] + SumFunction(fun) /\ SumFunction(fun) \in Int
  BY <1>3, <1>4, <1>5, SumSplit
<1>7. QED
  BY <1>3, <1>6 DEF fun, gun

\* A sequence of nothing has no volume.
LEMMA SumOfEmpty == SumFunction(VolumesOf(<<>>)) = 0
BY SumOfNone DEF VolumesOf

\* The first elements of a sequence have no more volume than all of them.
LEMMA SumOfPrefix ==
  ASSUME NEW S, \A x \in S : x.volume \in Int, NEW t \in Seq(S),
         \A i \in DOMAIN t : t[i].volume >= 0, NEW n \in 0..Len(t)
  PROVE  /\ SumFunction(VolumesOf(SubSeq(t, 1, n))) \in Int
         /\ SumFunction(VolumesOf(t)) \in Int
         /\ SumFunction(VolumesOf(SubSeq(t, 1, n))) <= SumFunction(VolumesOf(t))
<1> DEFINE Sum(k) == SumFunction(VolumesOf(SubSeq(t, 1, k)))
           G == {k \in Nat : n + k <= Len(t) => /\ Sum(n) \in Int
                                                /\ Sum(n + k) \in Int
                                                /\ Sum(n) <= Sum(n + k)}
<1>1. /\ Len(t) \in Nat /\ DOMAIN t = 1..Len(t) /\ n \in Nat
      /\ \A i \in 1..Len(t) : t[i] \in S
      /\ SubSeq(t, 1, Len(t)) = t
  BY LenProperties
<1>2. ASSUME NEW m \in 0..Len(t)
      PROVE  SubSeq(t, 1, m) \in Seq(S)
  BY <1>1, <1>2
<1>3. ASSUME NEW m \in 0..Len(t)
      PROVE  Sum(m) \in Int
  <2>1. CASE m = 0
    <3>1. SubSeq(t, 1, 0) = <<>>
      BY SubSeqEmpty
    <3>2. SumFunction(VolumesOf(SubSeq(t, 1, 0))) = 0
      BY <3>1, SumOfEmpty, Zenon
    <3>3. QED
      BY <2>1, <3>2
  <2>2. CASE m # 0
    <3>1. SubSeq(t, 1, m) \in Seq(S) /\ t[m] \in S
      BY <1>1, <1>2, <2>2
    <3>2. QED
      BY <3>1, SumOfAppend
  <2>3. QED
    BY <2>1, <2>2
<1>4. 0 \in G
  <2>1. n + 0 = n
    BY <1>1
  <2>2. Sum(n) \in Int
    BY <1>3
  <2> HIDE DEF Sum
  <2>3. QED
    BY <2>1, <2>2
<1>5. ASSUME NEW k \in G
      PROVE  k + 1 \in G
  <2> SUFFICES ASSUME n + (k + 1) <= Len(t)
               PROVE  /\ Sum(n) \in Int /\ Sum(n + (k + 1)) \in Int
                      /\ Sum(n) <= Sum(n + (k + 1))
    BY <1>1
  <2> DEFINE m == n + k
  <2>1. m \in 0..Len(t) /\ m + 1 \in 1..Len(t) /\ n + (k + 1) = m + 1 /\ k \in Nat
    BY <1>1
  <2>2. Sum(n) \in Int /\ Sum(m) \in Int /\ Sum(n) <= Sum(m)
    BY <1>1, <2>1
  <2> HIDE DEF m
  <2>3. SubSeq(t, 1, m + 1) = Append(SubSeq(t, 1, m), t[m + 1])
    BY <1>1, <2>1
  <2>4. SubSeq(t, 1, m) \in Seq(S) /\ t[m + 1] \in S
    BY <1>1, <1>2, <2>1
  <2>5. Sum(m + 1) = Sum(m) + t[m + 1].volume
    BY <2>3, <2>4, SumOfAppend
  <2>6. t[m + 1].volume >= 0 /\ t[m + 1].volume \in Int
    BY <1>1, <2>1, <2>4
  <2> HIDE DEF Sum
  <2>7. QED
    BY <2>1, <2>2, <2>5, <2>6
<1>6. G = Nat
  <2> HIDE DEF G
  <2>1. G \subseteq Nat
    BY DEF G
  <2>2. QED
    BY <1>4, <1>5, <2>1, NatSetInduction
<1>7. Len(t) - n \in G /\ n + (Len(t) - n) = Len(t)
  <2>1. Len(t) - n \in Nat /\ n + (Len(t) - n) = Len(t)
    BY <1>1
  <2> HIDE DEF G
  <2>2. QED
    BY <1>6, <2>1
<1>8. Sum(n) \in Int /\ Sum(Len(t)) \in Int /\ Sum(n) <= Sum(Len(t))
  <2> HIDE DEF Sum
  <2>1. QED
    BY <1>1, <1>7
<1>9. QED
  BY <1>1, <1>8
=============================================================================
