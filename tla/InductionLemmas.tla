--------------------------- MODULE InductionLemmas ---------------------------
(***************************************************************************)
(* What the proofs about data share: induction over numbers and over finite *)
(* sets, sums over finite sets, and what stands where in a sequence that   *)
(* was put together from others.                                           *)
(*                                                                         *)
(* An induction principle says usually that a predicate P(_) holds of      *)
(* everything.  These speak of the set of the things it holds of, which is *)
(* a value and not an operator, so that a prover can be given it.          *)
(***************************************************************************)
EXTENDS Integers, Sequences, SequencesExt, FiniteSetTheorems, SequenceTheorems, TLAPS

-----------------------------------------------------------------------------
\* Induction

(* A set of natural numbers that is not empty has a least element.         *)
LEMMA LeastNat ==
    ASSUME NEW T \in SUBSET Nat, T # {}
    PROVE  \E m \in T : \A n \in T : m <= n
<1>1. IsWellFoundedOn(OpToRel(<, Nat), Nat)
  BY NatLessThanWellFounded
<1>2. PICK m \in T : \A n \in T : ~ (<<n, m>> \in OpToRel(<, Nat))
  BY <1>1, WFMin
<1>3. \A n \in T : ~ (n < m)
  BY <1>2 DEF OpToRel
<1> QED
  BY <1>3

(* A set of natural numbers that holds 0 and with each number the next.    *)
LEMMA NatSetInduction ==
    ASSUME NEW S \in SUBSET Nat, 0 \in S, \A n \in S : n + 1 \in S
    PROVE  S = Nat
<1> SUFFICES ASSUME Nat \ S # {}
             PROVE  FALSE
  OBVIOUS
<1>1. PICK m \in Nat \ S : \A n \in Nat \ S : m <= n
  BY LeastNat
<1>2. m # 0 /\ m - 1 \in Nat
  BY <1>1
<1>3. m - 1 \in S
  BY <1>1, <1>2
<1> QED
  BY <1>2, <1>3

(* What holds of 0 and goes on from each number below N to the next.       *)
LEMMA UpToInduction ==
    ASSUME NEW N \in Nat, NEW T, 0 \in T,
           \A n \in 0 .. N - 1 : n \in T => n + 1 \in T
    PROVE  \A n \in 0 .. N : n \in T
<1> DEFINE S == {n \in Nat : n <= N => n \in T}
<1>1. 0 \in S
  OBVIOUS
<1>2. ASSUME NEW n \in S
      PROVE  n + 1 \in S
  <2>1. CASE n + 1 <= N
    <3>1. n \in 0 .. N - 1 /\ n \in T
      BY <2>1
    <3> QED
      BY <3>1
  <2>2. CASE ~ (n + 1 <= N)
    BY <2>2
  <2> QED
    BY <2>1, <2>2
<1>3. S = Nat
  <2>1. S \in SUBSET Nat
    OBVIOUS
  <2> HIDE DEF S
  <2> QED
    BY <1>1, <1>2, <2>1, NatSetInduction
<1> QED
  BY <1>3

(* Steps that stay in a set can be taken one after the other.              *)
Iterates(N, S, x, f, g) ==
    g \in [0 .. N -> S] /\ g[0] = x /\ \A n \in 1 .. N : g[n] = f[n][g[n - 1]]

(* From x there is a run of such steps.                                    *)
LEMMA IterationExists ==
    ASSUME NEW N \in Nat, NEW S, NEW x \in S, NEW f \in [1 .. N -> [S -> S]]
    PROVE  \E g : Iterates(N, S, x, f, g)
<1> DEFINE T == {m \in 0 .. N : \E g : Iterates(m, S, x, f, g)}
<1>1. 0 \in T
  <2> DEFINE h == [n \in 0 .. 0 |-> x]
  <2>1. Iterates(0, S, x, f, h)
    BY DEF Iterates
  <2>2. \E g : Iterates(0, S, x, f, g)
    BY <2>1
  <2> QED
    BY <2>2
<1>2. ASSUME NEW m \in 0 .. N - 1, m \in T
      PROVE  m + 1 \in T
  <2>1. PICK g : Iterates(m, S, x, f, g)
    BY <1>2
  <2> DEFINE h == [n \in 0 .. m + 1 |-> IF n <= m THEN g[n] ELSE f[m + 1][g[m]]]
  <2>2. f[m + 1] \in [S -> S] /\ g[m] \in S /\ m \in Nat
    BY <2>1 DEF Iterates
  <2>3. h \in [0 .. m + 1 -> S]
    BY <2>1, <2>2 DEF Iterates
  <2>4. h[0] = x /\ h[m] = g[m] /\ h[m + 1] = f[m + 1][h[m]]
    BY <2>1, <2>2 DEF Iterates
  <2>5. ASSUME NEW n \in 1 .. m
        PROVE  h[n] = f[n][h[n - 1]]
    BY <2>1, <2>2 DEF Iterates
  <2>6. \A n \in 1 .. m + 1 : h[n] = f[n][h[n - 1]]
    <3>1. \A n \in 1 .. m + 1 : n = m + 1 \/ n \in 1 .. m
      BY <2>2
    <3>2. (m + 1) - 1 = m
      BY <2>2
    <3> HIDE DEF h
    <3> QED
      BY <2>4, <2>5, <3>1, <3>2
  <2>7. Iterates(m + 1, S, x, f, h)
    <3> HIDE DEF h
    <3> QED
      BY <2>3, <2>4, <2>6 DEF Iterates
  <2>8. m + 1 \in 0 .. N
    OBVIOUS
  <2> HIDE DEF h
  <2> QED
    BY <2>7, <2>8
<1>3. N \in T
  <2> HIDE DEF T
  <2>1. \A n \in 0 .. N : n \in T
    BY <1>1, <1>2, UpToInduction
  <2> QED
    BY <2>1
<1> QED
  BY <1>3

(* What holds of a number whenever it holds of all the smaller ones.       *)
LEMMA StrongInduction ==
    ASSUME NEW N \in Nat, NEW T,
           \A n \in 0 .. N : (\A k \in 0 .. n - 1 : k \in T) => n \in T
    PROVE  \A n \in 0 .. N : n \in T
<1> DEFINE U == {n \in 0 .. N : n \notin T}
<1> SUFFICES ASSUME U # {}
             PROVE  FALSE
  OBVIOUS
<1>1. U \in SUBSET Nat
  OBVIOUS
<1>2. PICK m \in U : \A n \in U : m <= n
  <2> HIDE DEF U
  <2> QED
    BY <1>1, LeastNat
<1>3. m \in 0 .. N /\ m \notin T
  OBVIOUS
<1>4. \A k \in 0 .. m - 1 : k \in T
  <2> SUFFICES ASSUME NEW k \in 0 .. m - 1, k \notin T
               PROVE  FALSE
    OBVIOUS
  <2>1. k \in U /\ k < m
    BY <1>3
  <2>2. m <= k
    BY <1>2, <2>1
  <2> QED
    BY <1>3, <2>1, <2>2
<1> QED
  BY <1>3, <1>4

-----------------------------------------------------------------------------
\* Division

(* What quotient and remainder are ...                                     *)
LEMMA Division ==
    ASSUME NEW n \in Nat, NEW d \in Nat, d > 0
    PROVE  n \div d \in Nat /\ n % d \in 0 .. d - 1 /\ n = d * (n \div d) + (n % d)
  OBVIOUS

(* ... and that nothing else is.                                           *)
LEMMA DivisionIsUnique ==
    ASSUME NEW d \in Nat, d > 0, NEW q \in Nat, NEW r \in Nat, r < d
    PROVE  (d * q + r) \div d = q /\ (d * q + r) % d = r
  OBVIOUS

(* Taking the divisor away leaves the remainder.                           *)
LEMMA RestOfLess ==
    ASSUME NEW n \in Nat, NEW d \in Nat, d > 0, n >= d
    PROVE  (n - d) % d = n % d
<1> DEFINE q == n \div d
           r == n % d
<1>1. q \in Nat /\ r \in 0 .. d - 1 /\ n = d * q + r
  BY Division
<1> HIDE DEF q, r
<1>2. q >= 1
  BY <1>1
<1>3. q - 1 \in Nat /\ n - d = d * (q - 1) + r
  BY <1>1, <1>2
<1>4. (n - d) % d = r
  BY <1>1, <1>3, DivisionIsUnique
<1> QED
  BY <1>4 DEF r

(* A set that holds a subset of S whenever it holds all the smaller ones.  *)
LEMMA FiniteSetInduction ==
    ASSUME NEW S, IsFiniteSet(S), NEW Q \in SUBSET (SUBSET S),
           \A T \in SUBSET S :
               (\A U \in SUBSET S : Cardinality(U) < Cardinality(T) => U \in Q) => T \in Q
    PROVE  Q = SUBSET S
<1> SUFFICES ASSUME Q # SUBSET S
             PROVE  FALSE
  OBVIOUS
<1> DEFINE Sizes == {Cardinality(T) : T \in (SUBSET S) \ Q}
<1>1. \A T \in SUBSET S : Cardinality(T) \in Nat
  BY FS_Subset, FS_CardinalityType
<1>2. Sizes \in SUBSET Nat /\ Sizes # {}
  BY <1>1
<1>3. PICK n \in Sizes : \A k \in Sizes : n <= k
  <2> HIDE DEF Sizes
  <2> QED
    BY <1>2, LeastNat
<1>4. PICK T \in (SUBSET S) \ Q : Cardinality(T) = n
  OBVIOUS
<1>5. ASSUME NEW U \in SUBSET S, Cardinality(U) < Cardinality(T), U \notin Q
      PROVE  FALSE
  <2>1. Cardinality(U) \in Sizes
    BY <1>5
  <2>2. Cardinality(T) <= Cardinality(U)
    BY <1>3, <1>4, <2>1
  <2> QED
    BY <1>1, <1>4, <1>5, <2>2
<1> QED
  BY <1>4, <1>5

(* A subset of a finite set is finite, and less one element it is smaller.  *)
LEMMA SmallerSubset ==
    ASSUME NEW S, IsFiniteSet(S)
    PROVE  \A T \in SUBSET S :
              /\ IsFiniteSet(T) /\ Cardinality(T) \in Nat
              /\ \A x \in T : /\ Cardinality(T \ {x}) = Cardinality(T) - 1
                              /\ Cardinality(T \ {x}) \in Nat
<1>1. \A T \in SUBSET S : IsFiniteSet(T) /\ Cardinality(T) \in Nat
  BY FS_Subset, FS_CardinalityType
<1>2. \A T \in SUBSET S : \A x \in T : Cardinality(T \ {x}) = Cardinality(T) - 1
  BY <1>1, FS_RemoveElement
<1>3. \A T \in SUBSET S : \A x \in T : T \ {x} \in SUBSET S
  OBVIOUS
<1>4. \A T \in SUBSET S : \A x \in T : Cardinality(T \ {x}) \in Nat
  BY <1>1, <1>3
<1> QED
  BY <1>1, <1>2, <1>4

(* A remainder is what it differs from by a multiple.                      *)
LEMMA RemainderOf ==
    ASSUME NEW d \in Nat, d > 0, NEW q \in Int, NEW r \in 0 .. d - 1
    PROVE  (d * q + r) % d = r
<1> DEFINE n == d * q + r
           k == n \div d
           m == n % d
<1>1. n \in Int
  OBVIOUS
<1>2. k \in Int /\ m \in 0 .. d - 1 /\ n = d * k + m
  <2> HIDE DEF n
  <2> QED
    BY <1>1
<1>3. d * q + r = d * k + m
  BY <1>2
<1> HIDE DEF n, k, m
<1>4. d * (q - k) = m - r
  BY <1>2, <1>3
<1>5. q - k \in Int /\ m - r < d /\ m - r > -d
  BY <1>2
<1> DEFINE x == q - k
<1>6. d * x = m - r /\ x \in Int
  BY <1>4, <1>5
<1> HIDE DEF x
<1>7. x < 1
  <2> SUFFICES ASSUME x >= 1
               PROVE  FALSE
    BY <1>6
  <2>1. d * x >= d
    BY <1>6
  <2> QED
    BY <1>2, <1>5, <1>6, <2>1
<1>8. x > -1
  <2> SUFFICES ASSUME x <= -1
               PROVE  FALSE
    BY <1>6
  <2>1. d * x <= -d
    BY <1>6
  <2> QED
    BY <1>2, <1>5, <1>6, <2>1
<1>9. x = 0
  BY <1>6, <1>7, <1>8
<1>10. m = r
  BY <1>2, <1>6, <1>9
<1> QED
  BY <1>10 DEF m, n

-----------------------------------------------------------------------------
\* Finite sets in order

(* One of the elements of a finite set has the highest rank.               *)
LEMMA HighestRank ==
    ASSUME NEW S, IsFiniteSet(S), NEW r, \A x \in S : r[x] \in Int,
           NEW T \in SUBSET S, T # {}
    PROVE  \E m \in T : \A x \in T : r[x] <= r[m]
<1> DEFINE Q == {U \in SUBSET S : U # {} => \E m \in U : \A x \in U : r[x] <= r[m]}
<1>1. ASSUME NEW U \in SUBSET S,
             \A V \in SUBSET S : Cardinality(V) < Cardinality(U) => V \in Q, U # {}
      PROVE  \E m \in U : \A x \in U : r[x] <= r[m]
  <2>1. PICK y \in U : TRUE
    BY <1>1
  <2>2. U \ {y} \in Q
    <3>1. Cardinality(U) \in Nat /\ Cardinality(U \ {y}) = Cardinality(U) - 1
      BY SmallerSubset
    <3>2. Cardinality(U \ {y}) < Cardinality(U) /\ U \ {y} \in SUBSET S
      BY <3>1
    <3> QED
      BY <3>2, <1>1
  <2>3. CASE U \ {y} = {}
    <3>1. U = {y} /\ r[y] \in Int
      BY <2>3
    <3> QED
      BY <3>1
  <2>4. CASE U \ {y} # {}
    <3>1. PICK m \in U \ {y} : \A x \in U \ {y} : r[x] <= r[m]
      BY <2>2, <2>4
    <3>2. CASE r[y] <= r[m]
      BY <3>1, <3>2
    <3>3. CASE ~ (r[y] <= r[m])
      BY <3>1, <3>3
    <3> QED
      BY <3>2, <3>3
  <2> QED
    BY <2>3, <2>4
<1>2. Q = SUBSET S
  <2>1. Q \in SUBSET (SUBSET S)
    OBVIOUS
  <2>2. \A U \in SUBSET S :
           (\A V \in SUBSET S : Cardinality(V) < Cardinality(U) => V \in Q) => U \in Q
    BY <1>1
  <2> HIDE DEF Q
  <2> QED
    BY <2>1, <2>2, FiniteSetInduction
<1>3. T \in Q
  BY <1>2
<1> QED
  BY <1>3

(* What Max and Min choose.                                                *)
LEMMA MaxIsGreatest ==
    ASSUME NEW T, IsFiniteSet(T), T \in SUBSET Int, T # {}
    PROVE  Max(T) \in T /\ \A x \in T : x <= Max(T)
<1> DEFINE r == [x \in T |-> x]
<1>1. \E m \in T : \A x \in T : r[x] <= r[m]
  <2>1. \A x \in T : r[x] \in Int
    OBVIOUS
  <2> HIDE DEF r
  <2> QED
    BY <2>1, HighestRank
<1>2. \E m \in T : \A x \in T : m >= x
  BY <1>1
<1> QED
  BY <1>2 DEF Max

(* A set of numbers has a least one.                                       *)
LEMMA MinIsLeast ==
    ASSUME NEW T \in SUBSET Nat, T # {}
    PROVE  Min(T) \in T /\ \A x \in T : Min(T) <= x
<1>1. \E m \in T : \A n \in T : m <= n
  BY LeastNat
<1> QED
  BY <1>1 DEF Min

(* What SetToSeq chooses: every element stands at one place.               *)
LEMMA SetToSeqLists ==
    ASSUME NEW S, IsFiniteSet(S)
    PROVE  /\ Cardinality(S) \in Nat
           /\ SetToSeq(S) \in [1 .. Cardinality(S) -> S]
           /\ \A x \in S : \E i \in 1 .. Cardinality(S) : SetToSeq(S)[i] = x
<1> DEFINE n == Cardinality(S)
<1>1. n \in Nat /\ ExistsBijection(1 .. n, S)
  BY FS_CardinalityType
<1>2. \E f \in [1 .. n -> S] : IsInjective(f)
  BY <1>1 DEF ExistsBijection, Bijection, Injection
<1>3. SetToSeq(S) \in [1 .. n -> S] /\ IsInjective(SetToSeq(S))
  BY <1>2 DEF SetToSeq
<1>4. SetToSeq(S) \in Injection(1 .. n, S)
  BY <1>3 DEF Injection
<1>5. IsFiniteSet(1 .. n) /\ Cardinality(1 .. n) = n
  BY <1>1, FS_Interval
<1>6. SetToSeq(S) \in Surjection(1 .. n, S)
  BY <1>4, <1>5, FS_Injection
<1> QED
  BY <1>1, <1>3, <1>6 DEF Surjection

(* A finite set whose elements have ranks of their own can be listed in    *)
(* the order of the ranks.                                                 *)
LEMMA RankedListExists ==
    ASSUME NEW S, IsFiniteSet(S), NEW r, \A x \in S : r[x] \in Int,
           \A x, y \in S : r[x] = r[y] => x = y
    PROVE  \E s \in [1 .. Cardinality(S) -> S] :
              \A i, j \in 1 .. Cardinality(S) : i < j => r[s[i]] < r[s[j]]
<1> DEFINE Listed(T, s) ==
              \A i, j \in 1 .. Cardinality(T) : i < j => r[s[i]] < r[s[j]]
           Q == {T \in SUBSET S : \E s \in [1 .. Cardinality(T) -> T] : Listed(T, s)}
<1>1. ASSUME NEW T \in SUBSET S,
             \A U \in SUBSET S : Cardinality(U) < Cardinality(T) => U \in Q
      PROVE  T \in Q
  <2>0. IsFiniteSet(T) /\ Cardinality(T) \in Nat /\ (Cardinality(T) = 0 <=> T = {})
    BY FS_Subset, FS_CardinalityType, FS_EmptySet
  <2>1. CASE T = {}
    <3>1. [i \in {} |-> r] \in [1 .. Cardinality(T) -> T] /\ 1 .. Cardinality(T) = {}
      BY <2>0, <2>1
    <3> QED
      BY <3>1
  <2>2. CASE T # {}
    <3>1. PICK m \in T : \A x \in T : r[x] <= r[m]
      BY <2>2, HighestRank
    <3> DEFINE U == T \ {m}
               n == Cardinality(T)
    <3>2. Cardinality(U) = n - 1 /\ n \in Nat /\ n - 1 \in Nat
      BY SmallerSubset
    <3>3. PICK s \in [1 .. n - 1 -> U] :
              \A i, j \in 1 .. n - 1 : i < j => r[s[i]] < r[s[j]]
      <4>1. U \in SUBSET S /\ Cardinality(U) < Cardinality(T)
        BY <3>2
      <4>2. U \in Q
        BY <4>1, <1>1
      <4> QED
        BY <3>2, <4>2
    <3> HIDE DEF U, n
    <3> DEFINE t == [i \in 1 .. n |-> IF i = n THEN m ELSE s[i]]
    <3>4. t \in [1 .. n -> T]
      <4>1. ASSUME NEW i \in 1 .. n, i # n
            PROVE  s[i] \in T
        <5>1. i \in 1 .. n - 1
          BY <3>2, <4>1
        <5> QED
          BY <5>1, <3>3 DEF U
      <4> QED
        BY <4>1
    <3>5. ASSUME NEW i \in 1 .. n, NEW j \in 1 .. n, i < j
          PROVE  r[t[i]] < r[t[j]]
      <4>1. i \in 1 .. n - 1 /\ t[i] = s[i]
        BY <3>2, <3>5
      <4>2. CASE j = n
        <5>1. t[j] = m /\ s[i] \in U
          BY <4>1, <4>2, <3>3
        <5>2. r[s[i]] <= r[m] /\ r[s[i]] # r[m] /\ r[m] \in Int /\ r[s[i]] \in Int
          BY <5>1, <3>1 DEF U
        <5> QED
          BY <5>1, <5>2, <4>1
      <4>3. CASE j # n
        <5>1. j \in 1 .. n - 1 /\ t[j] = s[j]
          BY <3>2, <4>3
        <5> QED
          BY <5>1, <4>1, <3>3, <3>5
      <4> QED
        BY <4>2, <4>3
    <3> HIDE DEF t
    <3> QED
      BY <3>4, <3>5 DEF n
  <2> QED
    BY <2>1, <2>2
<1>2. Q = SUBSET S
  <2>1. Q \in SUBSET (SUBSET S)
    OBVIOUS
  <2> HIDE DEF Q
  <2> QED
    BY <1>1, <2>1, FiniteSetInduction
<1>3. S \in Q
  BY <1>2
<1> QED
  BY <1>3

(* Such a list leaves nothing out.                                         *)
LEMMA RankedListIsComplete ==
    ASSUME NEW S, IsFiniteSet(S), NEW r, \A x \in S : r[x] \in Int,
           NEW s \in [1 .. Cardinality(S) -> S],
           \A i, j \in 1 .. Cardinality(S) : i < j => r[s[i]] < r[s[j]]
    PROVE  \A x \in S : \E i \in 1 .. Cardinality(S) : s[i] = x
<1> DEFINE n == Cardinality(S)
<1>1. n \in Nat /\ IsFiniteSet(1 .. n) /\ Cardinality(1 .. n) = n
  BY FS_CardinalityType, FS_Interval
<1>2. ASSUME NEW i \in 1 .. n, NEW j \in 1 .. n, s[i] = s[j]
      PROVE  i = j
  <2>1. r[s[i]] \in Int
    OBVIOUS
  <2>2. ~ (i < j) /\ ~ (j < i)
    BY <1>2, <2>1
  <2> QED
    BY <1>1, <2>2
<1>3. s \in Injection(1 .. n, S)
  BY <1>2 DEF Injection, IsInjective
<1>4. s \in Surjection(1 .. n, S)
  BY <1>1, <1>3, FS_Injection
<1> QED
  BY <1>4 DEF Surjection

(* What finitely many functions or sequences hold is finite.               *)
LEMMA FiniteValues ==
    ASSUME NEW S, IsFiniteSet(S), NEW f
    PROVE  IsFiniteSet({f[x] : x \in S})
<1> DEFINE T == {f[x] : x \in S}
           g == [x \in S |-> f[x]]
<1>1. g \in Surjection(S, T)
  BY DEF Surjection
<1> QED
  BY <1>1, FS_Surjection

(* The smaller of two numbers.                                             *)
LEMMA MinOfTwo ==
    ASSUME NEW a \in Nat, NEW b \in Nat
    PROVE  Min({a, b}) = IF a <= b THEN a ELSE b
<1>1. {a, b} \in SUBSET Nat /\ {a, b} # {}
  OBVIOUS
<1>2. Min({a, b}) \in {a, b} /\ \A x \in {a, b} : Min({a, b}) <= x
  BY <1>1, MinIsLeast
<1> QED
  BY <1>2

-----------------------------------------------------------------------------
(* Sums.  SumFunctionOnSet takes out one element after the other, which one *)
(* CHOOSE decides; AddsUp says that g holds the sums of the sets in D.     *)
Chosen(s) == CHOOSE x \in s : TRUE

AddsUp(d, D, g) ==
    g = [s \in D |-> IF s = {} THEN 0 ELSE d[Chosen(s)] + g[s \ {Chosen(s)}]]

SubsetsUpTo(S, n) == {s \in SUBSET S : Cardinality(s) <= n}

(* The sums of all the subsets of a finite set exist ...                   *)
LEMMA SumsExist ==
    ASSUME NEW S, IsFiniteSet(S), NEW d
    PROVE  \E g : AddsUp(d, SUBSET S, g)
<1> DEFINE Reached == {n \in Nat : \E g : AddsUp(d, SubsetsUpTo(S, n), g)}
<1>0. \A s \in SUBSET S :
         IsFiniteSet(s) /\ Cardinality(s) \in Nat /\ (Cardinality(s) = 0 <=> s = {})
  BY FS_Subset, FS_CardinalityType, FS_EmptySet
<1>1. 0 \in Reached
  <2>1. SubsetsUpTo(S, 0) = {{}}
    BY <1>0 DEF SubsetsUpTo
  <2>2. AddsUp(d, {{}}, [s \in {{}} |-> 0])
    BY DEF AddsUp
  <2> QED
    BY <2>1, <2>2
<1>2. ASSUME NEW n \in Reached
      PROVE  n + 1 \in Reached
  <2>1. PICK g : AddsUp(d, SubsetsUpTo(S, n), g)
    OBVIOUS
  <2> DEFINE h == [s \in SubsetsUpTo(S, n + 1) |->
                      IF s \in SubsetsUpTo(S, n) THEN g[s]
                      ELSE d[Chosen(s)] + g[s \ {Chosen(s)}]]
  <2>2. ASSUME NEW s \in SubsetsUpTo(S, n + 1), s # {}
        PROVE  s \ {Chosen(s)} \in SubsetsUpTo(S, n)
    <3>1. Chosen(s) \in s
      BY <2>2 DEF Chosen
    <3>2. Cardinality(s \ {Chosen(s)}) = Cardinality(s) - 1
      BY <1>0, <3>1, FS_RemoveElement DEF SubsetsUpTo
    <3> QED
      BY <3>2, <1>0 DEF SubsetsUpTo
  <2>3. ASSUME NEW s \in SubsetsUpTo(S, n)
        PROVE  h[s] = IF s = {} THEN 0 ELSE d[Chosen(s)] + g[s \ {Chosen(s)}]
    <3>1. s \in SubsetsUpTo(S, n + 1)
      BY <1>0 DEF SubsetsUpTo
    <3> QED
      BY <2>1, <3>1 DEF AddsUp
  <2>4. ASSUME NEW s \in SubsetsUpTo(S, n + 1), s # {}
        PROVE  h[s \ {Chosen(s)}] = g[s \ {Chosen(s)}]
    <3>1. s \ {Chosen(s)} \in SubsetsUpTo(S, n + 1)
      BY <2>2, <1>0, <2>4 DEF SubsetsUpTo
    <3> QED
      BY <3>1, <2>2, <2>4
  <2>5. {} \in SubsetsUpTo(S, n)
    BY <1>0 DEF SubsetsUpTo
  <2>6. ASSUME NEW s \in SubsetsUpTo(S, n + 1)
        PROVE  h[s] = IF s = {} THEN 0 ELSE d[Chosen(s)] + h[s \ {Chosen(s)}]
    <3>1. CASE s \in SubsetsUpTo(S, n)
      BY <3>1, <2>3, <2>4
    <3>2. CASE s \notin SubsetsUpTo(S, n)
      BY <3>2, <2>4, <2>5
    <3> QED
      BY <3>1, <3>2
  <2>7. AddsUp(d, SubsetsUpTo(S, n + 1), h)
    <3> HIDE DEF h
    <3>1. h = [s \in SubsetsUpTo(S, n + 1) |-> h[s]]
      BY DEF h
    <3> QED
      BY <2>6, <3>1 DEF AddsUp
  <2> QED
    BY <2>7
<1>3. Reached = Nat
  <2> HIDE DEF Reached
  <2>1. Reached \in SUBSET Nat
    BY DEF Reached
  <2> QED
    BY <1>1, <1>2, <2>1, NatSetInduction
<1>4. Cardinality(S) \in Nat /\ SubsetsUpTo(S, Cardinality(S)) = SUBSET S
  <2>1. Cardinality(S) \in Nat
    BY FS_CardinalityType
  <2>2. \A s \in SUBSET S : Cardinality(s) <= Cardinality(S)
    BY FS_Subset
  <2> QED
    BY <2>1, <2>2 DEF SubsetsUpTo
<1> QED
  BY <1>3, <1>4

(* ... and the sum of the community modules is the last of them.           *)
LEMMA SumIsChosen ==
    ASSUME NEW S, NEW d
    PROVE  SumFunctionOnSet(d, S) = (CHOOSE g : AddsUp(d, SUBSET S, g))[S]
  BY DEF SumFunctionOnSet, FoldFunctionOnSet, MapThenFoldSet, AddsUp, Chosen

(* Sums of all the subsets of S are also the sums each has by itself.      *)
LEMMA SumOnSubset ==
    ASSUME NEW S, IsFiniteSet(S), NEW d, NEW g, AddsUp(d, SUBSET S, g),
           NEW T \in SUBSET S
    PROVE  SumFunctionOnSet(d, T) = g[T]
<1>0. IsFiniteSet(T) /\ \A s \in SUBSET T : Cardinality(s) \in Nat /\ IsFiniteSet(s)
  BY FS_Subset, FS_CardinalityType
<1> DEFINE h == CHOOSE k : AddsUp(d, SUBSET T, k)
<1>1. AddsUp(d, SUBSET T, h)
  BY <1>0, SumsExist
<1>2. SumFunctionOnSet(d, T) = h[T]
  BY SumIsChosen
<1> HIDE DEF h
<1> DEFINE Same == {s \in SUBSET T : g[s] = h[s]}
<1>3. ASSUME NEW s \in SUBSET T,
             \A U \in SUBSET T : Cardinality(U) < Cardinality(s) => U \in Same
      PROVE  s \in Same
  <2>1. CASE s = {}
    BY <1>1, <2>1 DEF AddsUp
  <2>2. CASE s # {}
    <3>1. Chosen(s) \in s
      BY <2>2 DEF Chosen
    <3>2. Cardinality(s \ {Chosen(s)}) < Cardinality(s)
      BY <1>0, <3>1, FS_RemoveElement
    <3>3. s \ {Chosen(s)} \in Same
      BY <3>2, <1>3
    <3>4. h[s] = d[Chosen(s)] + h[s \ {Chosen(s)}]
      BY <1>1, <2>2 DEF AddsUp
    <3>5. g[s] = d[Chosen(s)] + g[s \ {Chosen(s)}]
      BY <2>2 DEF AddsUp
    <3> QED
      BY <3>3, <3>4, <3>5
  <2> QED
    BY <2>1, <2>2
<1>4. Same = SUBSET T
  <2> HIDE DEF Same
  <2>1. Same \in SUBSET (SUBSET T)
    BY DEF Same
  <2> QED
    BY <1>0, <1>3, <2>1, FiniteSetInduction
<1> QED
  BY <1>2, <1>4

(* A sum is a number, and any of its terms can be taken out of it.         *)
LEMMA SumFacts ==
    ASSUME NEW S, IsFiniteSet(S), NEW d, \A x \in S : d[x] \in Int
    PROVE  /\ SumFunctionOnSet(d, {}) = 0
           /\ SumFunctionOnSet(d, S) \in Int
           /\ \A x \in S : SumFunctionOnSet(d, S) = d[x] + SumFunctionOnSet(d, S \ {x})
<1>1. PICK g : AddsUp(d, SUBSET S, g)
  BY SumsExist
<1>2. \A T \in SUBSET S : SumFunctionOnSet(d, T) = g[T]
  BY <1>1, SumOnSubset
<1>3. /\ g[{}] = 0
      /\ \A T \in SUBSET S :
            T # {} => Chosen(T) \in T /\ g[T] = d[Chosen(T)] + g[T \ {Chosen(T)}]
  BY <1>1 DEF AddsUp, Chosen
<1>4. \A T \in SUBSET S :
         Cardinality(T) \in Nat /\ \A x \in T : Cardinality(T \ {x}) < Cardinality(T)
  BY FS_Subset, FS_CardinalityType, FS_RemoveElement
<1> DEFINE Q == {T \in SUBSET S : g[T] \in Int /\ \A x \in T : g[T] = d[x] + g[T \ {x}]}
<1>5. ASSUME NEW T \in SUBSET S,
             \A U \in SUBSET S : Cardinality(U) < Cardinality(T) => U \in Q
      PROVE  T \in Q
  <2>1. CASE T = {}
    BY <1>3, <2>1
  <2>2. CASE T # {}
    <3> DEFINE c == Chosen(T)
    <3>1. c \in T /\ g[T] = d[c] + g[T \ {c}]
      BY <1>3, <2>2
    <3> HIDE DEF c
    <3>2. \A x \in T : T \ {x} \in Q /\ d[x] \in Int
      BY <1>4, <1>5
    <3>3. g[T] \in Int
      BY <3>1, <3>2
    <3>4. ASSUME NEW x \in T, x # c
          PROVE  g[T] = d[x] + g[T \ {x}]
      <4> DEFINE R == (T \ {c}) \ {x}
      <4>1. R = (T \ {x}) \ {c}
        OBVIOUS
      <4>2. g[T \ {c}] = d[x] + g[R]
        BY <3>1, <3>2, <3>4
      <4>3. g[T \ {x}] = d[c] + g[R]
        BY <3>1, <3>2, <3>4, <4>1
      <4>4. g[R] \in Int
        <5>1. x \in T \ {c} /\ T \ {c} \in SUBSET S
          BY <3>4
        <5>2. Cardinality(R) < Cardinality(T \ {c}) /\ Cardinality(T \ {c}) < Cardinality(T)
          BY <5>1, <1>4, <3>1
        <5>3. R \in SUBSET S /\ Cardinality(R) < Cardinality(T)
          BY <5>1, <5>2, <1>4
        <5> QED
          BY <5>3, <1>5
      <4> HIDE DEF R
      <4> QED
        BY <3>1, <3>2, <4>2, <4>3, <4>4
    <3> QED
      BY <3>1, <3>3, <3>4
  <2> QED
    BY <2>1, <2>2
<1>6. Q = SUBSET S
  <2> HIDE DEF Q
  <2>1. Q \in SUBSET (SUBSET S)
    BY DEF Q
  <2> QED
    BY <1>5, <2>1, FiniteSetInduction
<1> QED
  BY <1>2, <1>3, <1>6

(* A sum of natural numbers is positive when one of them is.               *)
LEMMA SumOfNaturals ==
    ASSUME NEW S, IsFiniteSet(S), NEW d, \A x \in S : d[x] \in Nat
    PROVE  /\ SumFunctionOnSet(d, S) \in Nat
           /\ SumFunctionOnSet(d, S) > 0 <=> \E x \in S : d[x] > 0
<1> DEFINE Sum(T) == SumFunctionOnSet(d, T)
           Q == {T \in SUBSET S : Sum(T) \in Nat /\ (Sum(T) > 0 <=> \E x \in T : d[x] > 0)}
<1>1. \A T \in SUBSET S :
         /\ Cardinality(T) \in Nat /\ \A x \in T : Cardinality(T \ {x}) < Cardinality(T)
         /\ IsFiniteSet(T)
  BY FS_Subset, FS_CardinalityType, FS_RemoveElement
<1>2. \A T \in SUBSET S : Sum({}) = 0 /\ \A x \in T : Sum(T) = d[x] + Sum(T \ {x})
  BY <1>1, SumFacts
<1> HIDE DEF Sum
<1>3. ASSUME NEW T \in SUBSET S,
             \A U \in SUBSET S : Cardinality(U) < Cardinality(T) => U \in Q
      PROVE  T \in Q
  <2>1. CASE T = {}
    BY <1>2, <2>1
  <2>2. CASE T # {}
    <3>1. PICK y \in T : TRUE
      BY <2>2
    <3>2. Sum(T) = d[y] + Sum(T \ {y}) /\ d[y] \in Nat
      BY <1>2
    <3>3. T \ {y} \in Q
      BY <1>1, <1>3
    <3>4. Sum(T) > 0 <=> d[y] > 0 \/ Sum(T \ {y}) > 0
      BY <3>2, <3>3
    <3>5. Sum(T) \in Nat
      BY <3>2, <3>3
    <3> QED
      BY <3>3, <3>4, <3>5
  <2> QED
    BY <2>1, <2>2
<1>4. Q = SUBSET S
  <2> HIDE DEF Q
  <2>1. Q \in SUBSET (SUBSET S)
    BY DEF Q
  <2> QED
    BY <1>3, <2>1, FiniteSetInduction
<1> QED
  BY <1>4 DEF Sum

(* Sums of the same terms, named in two ways, are equal.                   *)
LEMMA SumAlongBijection ==
    ASSUME NEW S, NEW T, IsFiniteSet(S), NEW f \in Bijection(S, T),
           NEW d, \A y \in T : d[y] \in Int,
           NEW e, \A x \in S : e[x] = d[f[x]]
    PROVE  SumFunctionOnSet(e, S) = SumFunctionOnSet(d, T)
<1> DEFINE Image(U) == {f[x] : x \in U}
           Q == {U \in SUBSET S : SumFunctionOnSet(e, U) = SumFunctionOnSet(d, Image(U))}
<1>1. /\ f \in [S -> T] /\ T = Image(S)
      /\ \A x, y \in S : f[x] = f[y] => x = y
  BY DEF Bijection, Injection, Surjection, IsInjective
<1>2. IsFiniteSet(T)
  BY FS_Bijection DEF ExistsBijection
<1>3. \A U \in SUBSET S :
         /\ Cardinality(U) \in Nat /\ \A x \in U : Cardinality(U \ {x}) < Cardinality(U)
         /\ IsFiniteSet(U)
  BY FS_Subset, FS_CardinalityType, FS_RemoveElement
<1>4. \A U \in SUBSET S : IsFiniteSet(Image(U)) /\ Image(U) \in SUBSET T
  BY <1>1, <1>2, FS_Subset
<1>5. ASSUME NEW U \in SUBSET S,
             \A V \in SUBSET S : Cardinality(V) < Cardinality(U) => V \in Q
      PROVE  U \in Q
  <2>1. CASE U = {}
    <3>1. Image(U) = {}
      BY <2>1
    <3>2. SumFunctionOnSet(e, {}) = 0 /\ SumFunctionOnSet(d, {}) = 0
      BY FS_EmptySet, SumFacts
    <3> QED
      BY <2>1, <3>1, <3>2
  <2>2. CASE U # {}
    <3>1. PICK y \in U : TRUE
      BY <2>2
    <3>2. Image(U \ {y}) = Image(U) \ {f[y]} /\ f[y] \in Image(U)
      BY <1>1
    <3>3. SumFunctionOnSet(e, U) = e[y] + SumFunctionOnSet(e, U \ {y})
      <4>1. \A x \in U : e[x] \in Int
        BY <1>1
      <4> QED
        BY <1>3, <4>1, SumFacts
    <3>4. SumFunctionOnSet(d, Image(U)) = d[f[y]] + SumFunctionOnSet(d, Image(U) \ {f[y]})
      <4>1. \A x \in Image(U) : d[x] \in Int
        BY <1>4
      <4>2. IsFiniteSet(Image(U)) /\ f[y] \in Image(U)
        BY <1>4, <3>2
      <4> HIDE DEF Image
      <4> QED
        BY <4>1, <4>2, SumFacts
    <3>5. U \ {y} \in Q
      BY <1>3, <1>5
    <3> QED
      BY <3>2, <3>3, <3>4, <3>5
  <2> QED
    BY <2>1, <2>2
<1>6. Q = SUBSET S
  <2> HIDE DEF Q
  <2>1. Q \in SUBSET (SUBSET S)
    BY DEF Q
  <2> QED
    BY <1>5, <2>1, FiniteSetInduction
<1> QED
  BY <1>1, <1>6

-----------------------------------------------------------------------------
\* Sequences and what stands in them

(* The places of a concatenation.                                          *)
LEMMA ConcatFacts ==
    ASSUME NEW S, NEW a \in Seq(S), NEW b \in Seq(S), NEW c, c = a \o b
    PROVE  /\ c \in Seq(S) /\ Len(c) = Len(a) + Len(b)
           /\ \A i \in 1 .. Len(a) : c[i] = a[i]
           /\ \A i \in 1 .. Len(b) : c[Len(a) + i] = b[i]
<1>1. /\ Len(a) \in Nat /\ Len(b) \in Nat
      /\ c \in Seq(S) /\ Len(c) = Len(a) + Len(b)
      /\ \A i \in 1 .. Len(a) + Len(b) : c[i] = IF i <= Len(a) THEN a[i] ELSE b[i - Len(a)]
  BY ConcatProperties
<1>2. \A i \in 1 .. Len(a) : i \in 1 .. Len(a) + Len(b) /\ i <= Len(a)
  BY <1>1
<1>3. \A i \in 1 .. Len(b) : /\ Len(a) + i \in 1 .. Len(a) + Len(b)
                            /\ ~ (Len(a) + i <= Len(a)) /\ (Len(a) + i) - Len(a) = i
  BY <1>1
<1> QED
  BY <1>1, <1>2, <1>3

(* The bytes of enc are those of src from pos on, as far as src goes.      *)
Holds(src, pos, enc) ==
    \A i \in 1 .. Len(enc) : pos + i - 1 <= Len(src) => src[pos + i - 1] = enc[i]

(* The parts of bytes that stand in a source stand there too.              *)
LEMMA HoldsPart ==
    ASSUME NEW src \in Seq(Nat), NEW pos \in Nat \ {0}, NEW enc \in Seq(Nat),
           Holds(src, pos, enc), NEW k \in Nat, NEW part \in Seq(Nat),
           k + Len(part) <= Len(enc),
           \A i \in 1 .. Len(part) : enc[k + i] = part[i]
    PROVE  Holds(src, pos + k, part)
<1> SUFFICES ASSUME NEW i \in 1 .. Len(part), pos + k + i - 1 <= Len(src)
             PROVE  src[pos + k + i - 1] = part[i]
  BY DEF Holds
<1>1. Len(part) \in Nat /\ Len(enc) \in Nat
  BY LenProperties
<1>2. k + i \in 1 .. Len(enc) /\ pos + (k + i) - 1 = pos + k + i - 1
  BY <1>1
<1>3. src[pos + (k + i) - 1] = enc[k + i]
  BY <1>2 DEF Holds
<1> QED
  BY <1>2, <1>3

(* One sequence is the beginning of the other.                             *)
Begins(a, b) ==
    /\ Len(a) \in Nat /\ Len(b) \in Nat /\ Len(a) <= Len(b)
    /\ \A i \in 1 .. Len(a) : b[i] = a[i]

(* The first elements of a sequence.                                       *)
LEMMA FirstElements ==
    ASSUME NEW S, NEW s \in Seq(S), NEW k \in 0 .. Len(s)
    PROVE  /\ SubSeq(s, 1, k) \in Seq(S) /\ Len(SubSeq(s, 1, k)) = k
           /\ \A i \in 1 .. k : SubSeq(s, 1, k)[i] = s[i]
<1> DEFINE a == SubSeq(s, 1, k)
<1>1. Len(s) \in Nat /\ \A i \in 1 .. Len(s) : s[i] \in S
  BY LenProperties, ElementOfSeq
<1>2. \A i \in 1 .. k : s[i] \in S
  BY <1>1
<1>3. /\ a \in Seq(S) /\ Len(a) = IF 1 <= k THEN k - 1 + 1 ELSE 0
      /\ \A i \in 1 .. k - 1 + 1 : a[i] = s[1 + i - 1]
  BY <1>1, <1>2, SubSeqProperties
<1> HIDE DEF a
<1>4. Len(a) = k /\ \A i \in 1 .. k : a[i] = s[i]
  BY <1>1, <1>3
<1> QED
  BY <1>3, <1>4 DEF a

(* IsPrefix, element by element.                                           *)
LEMMA BeginsIsPrefix ==
    ASSUME NEW S, NEW a \in Seq(S), NEW b \in Seq(S), Begins(a, b)
    PROVE  IsPrefix(a, b)
<1> DEFINE c == SubSeq(b, 1, Len(a))
<1>1. Len(a) \in 0 .. Len(b) /\ Len(a) <= Len(b) /\ \A i \in 1 .. Len(a) : b[i] = a[i]
  BY DEF Begins
<1>2. c \in Seq(S) /\ Len(c) = Len(a) /\ \A i \in 1 .. Len(a) : c[i] = b[i]
  BY <1>1, FirstElements
<1> HIDE DEF c
<1>3. \A i \in 1 .. Len(a) : a[i] = c[i]
  BY <1>1, <1>2
<1>4. a = c
  BY <1>2, <1>3, SeqEqual
<1>5. SubSeq(a, 1, Len(a)) = a
  BY SubSeqFull
<1> QED
  BY <1>1, <1>4, <1>5 DEF IsPrefix, c

(* The first elements of a sequence, and one more.                         *)
LEMMA OneMore ==
    ASSUME NEW S, NEW s \in Seq(S), NEW k \in Nat, k < Len(s)
    PROVE  Append(SubSeq(s, 1, k), s[k + 1]) = SubSeq(s, 1, k + 1)
<1> DEFINE a == SubSeq(s, 1, k)
           b == Append(a, s[k + 1])
           c == SubSeq(s, 1, k + 1)
<1>1. Len(s) \in Nat /\ \A i \in 1 .. Len(s) : s[i] \in S
  BY LenProperties, ElementOfSeq
<1>2. a \in Seq(S) /\ Len(a) = k /\ \A i \in 1 .. k : a[i] = s[i]
  <2>1. \A i \in 1 .. k : s[i] \in S
    BY <1>1
  <2>2. /\ a \in Seq(S) /\ Len(a) = IF 1 <= k THEN k - 1 + 1 ELSE 0
        /\ \A i \in 1 .. k - 1 + 1 : a[i] = s[1 + i - 1]
    BY <2>1, SubSeqProperties
  <2> HIDE DEF a
  <2> QED
    BY <2>2
<1>3. c \in Seq(S) /\ Len(c) = k + 1 /\ \A i \in 1 .. k + 1 : c[i] = s[i]
  <2>1. \A i \in 1 .. k + 1 : s[i] \in S
    BY <1>1
  <2>2. /\ c \in Seq(S) /\ Len(c) = IF 1 <= k + 1 THEN (k + 1) - 1 + 1 ELSE 0
        /\ \A i \in 1 .. (k + 1) - 1 + 1 : c[i] = s[1 + i - 1]
    BY <2>1, SubSeqProperties
  <2> HIDE DEF c
  <2> QED
    BY <2>2
<1>4. s[k + 1] \in S
  BY <1>1
<1> HIDE DEF a
<1>5. /\ b \in Seq(S) /\ Len(b) = k + 1 /\ b[k + 1] = s[k + 1]
      /\ \A i \in 1 .. k : b[i] = a[i]
  <2>1. /\ b \in Seq(S) /\ Len(b) = Len(a) + 1
        /\ \A i \in 1 .. Len(a) : b[i] = a[i]
        /\ b[Len(a) + 1] = s[k + 1]
    BY <1>2, <1>4, AppendProperties
  <2> HIDE DEF b
  <2> QED
    BY <1>2, <2>1
<1> HIDE DEF b, c
<1>6. \A i \in 1 .. k + 1 : b[i] = c[i]
  <2> SUFFICES ASSUME NEW i \in 1 .. k + 1
               PROVE  b[i] = c[i]
    OBVIOUS
  <2>1. CASE i = k + 1
    BY <1>3, <1>5, <2>1
  <2>2. CASE i # k + 1
    <3>1. i \in 1 .. k
      BY <2>2
    <3> QED
      BY <1>2, <1>3, <1>5, <3>1
  <2> QED
    BY <2>1, <2>2
<1>7. b = c
  BY <1>3, <1>5, <1>6, SeqEqual
<1> QED
  BY <1>7 DEF a, b, c

-----------------------------------------------------------------------------
\* Flattening

(* Concatenating one sequence after the other.                             *)
Flattens(seqs, g) ==
    g[0] = <<>> /\ \A n \in 1 .. Len(seqs) : g[n] = g[n - 1] \o seqs[n]

(* FlattenSeq does so.                                                     *)
LEMMA FlattenSteps ==
    ASSUME NEW S, NEW seqs \in Seq(Seq(S))
    PROVE  \E g \in [0 .. Len(seqs) -> Seq(S)] :
              Flattens(seqs, g) /\ FlattenSeq(seqs) = g[Len(seqs)]
<1> DEFINE N == Len(seqs)
           f == [n \in 1 .. N |-> [a \in Seq(S) |-> a \o seqs[n]]]
           h0(h) == h = [i \in 1 .. N |-> IF i = 1 THEN seqs[i] ELSE h[i - 1] \o seqs[i]]
           flat == CHOOSE h : h0(h)
<1>1. N \in Nat /\ \A n \in 1 .. N : seqs[n] \in Seq(S)
  BY LenProperties, ElementOfSeq
<1>2. <<>> \in Seq(S)
  BY EmptySeq
<1>3. f \in [1 .. N -> [Seq(S) -> Seq(S)]]
  BY <1>1, ConcatProperties
<1>4. PICK g : Iterates(N, Seq(S), <<>>, f, g)
  <2> HIDE DEF f, N
  <2> QED
    BY <1>1, <1>2, <1>3, IterationExists
<1>5. /\ g \in [0 .. N -> Seq(S)] /\ g[0] = <<>>
      /\ \A n \in 1 .. N : g[n] = f[n][g[n - 1]]
  BY <1>4 DEF Iterates
<1>6. ASSUME NEW n \in 1 .. N
      PROVE  g[n] = g[n - 1] \o seqs[n] /\ n - 1 \in 0 .. N /\ g[n - 1] \in Seq(S)
  <2>1. n - 1 \in 0 .. N
    BY <1>1
  <2>2. g[n - 1] \in Seq(S)
    BY <1>5, <2>1
  <2> QED
    BY <1>5, <2>1, <2>2
<1>7. Flattens(seqs, g)
  BY <1>5, <1>6 DEF Flattens
<1>8. FlattenSeq(seqs) = IF N = 0 THEN seqs ELSE flat[N]
  BY DEF FlattenSeq
<1> HIDE DEF f
<1>9. ASSUME N # 0
      PROVE  flat[N] = g[N]
  <2> DEFINE h == [i \in 1 .. N |-> g[i]]
  <2>1. ASSUME NEW i \in 1 .. N
        PROVE  h[i] = IF i = 1 THEN seqs[i] ELSE h[i - 1] \o seqs[i]
    <3>1. CASE i = 1
      <4>0. i - 1 = 0 /\ g[i - 1] = <<>> /\ h[i] = g[i]
        BY <1>5, <3>1
      <4>1. h[i] = <<>> \o seqs[1]
        BY <1>6, <3>1, <4>0
      <4>2. seqs[1] \in Seq(S)
        BY <1>1, <3>1
      <4> QED
        BY <3>1, <4>1, <4>2, ConcatEmptySeq
    <3>2. CASE i # 1
      <4>1. i - 1 \in 1 .. N
        BY <1>1, <3>2
      <4> QED
        BY <1>6, <3>2, <4>1
    <3> QED
      BY <3>1, <3>2
  <2>2. h = [i \in 1 .. N |-> h[i]]
    OBVIOUS
  <2> HIDE DEF h
  <2>3. h0(h)
    BY <2>1, <2>2
  <2>4. h0(flat)
    <3> HIDE DEF h0
    <3> QED
      BY <2>3
  <2> HIDE DEF flat
  <2>5. ASSUME NEW i \in 1 .. N
        PROVE  flat[i] = IF i = 1 THEN seqs[i] ELSE flat[i - 1] \o seqs[i]
    BY <2>4
  <2> DEFINE T == {n \in 0 .. N - 1 : flat[n + 1] = h[n + 1]}
  <2>6. 1 \in 1 .. N /\ N - 1 \in Nat
    BY <1>1, <1>9
  <2>7. 0 \in T
    BY <2>1, <2>5, <2>6
  <2>8. ASSUME NEW n \in 0 .. (N - 1) - 1, n \in T
        PROVE  n + 1 \in T
    <3>1. n + 2 \in 1 .. N /\ n + 2 # 1 /\ (n + 2) - 1 = n + 1 /\ n + 1 \in 0 .. N - 1
      BY <2>6
    <3>2. flat[n + 2] = h[n + 2]
      BY <2>1, <2>5, <2>8, <3>1
    <3>3. (n + 1) + 1 = n + 2
      BY <3>1
    <3> QED
      BY <3>1, <3>2, <3>3
  <2>9. N - 1 \in T
    <3> HIDE DEF T
    <3>1. \A n \in 0 .. N - 1 : n \in T
      BY <2>6, <2>7, <2>8, UpToInduction
    <3> QED
      BY <2>6, <3>1
  <2>10. (N - 1) + 1 = N /\ N \in 1 .. N
    BY <1>1, <1>9
  <2> QED
    BY <2>9, <2>10 DEF h
<1>10. ASSUME N = 0
       PROVE  seqs = g[N]
  <2>1. seqs = <<>>
    BY <1>10
  <2> QED
    BY <1>5, <1>10, <2>1
<1>11. FlattenSeq(seqs) = g[N]
  BY <1>8, <1>9, <1>10
<1>12. g \in [0 .. N -> Seq(S)]
  BY <1>5
<1> HIDE DEF N
<1> QED
  BY <1>7, <1>11, <1>12 DEF N

(* Two functions that agree on a set.                                      *)
Alike(g, h, S) == \A n \in S : g[n] = h[n]

(* Sequences that begin alike are flattened alike.                         *)
LEMMA FlattenAlike ==
    ASSUME NEW s, NEW t, NEW g, NEW h, Flattens(s, g), Flattens(t, h),
           NEW m \in Nat, Len(s) \in Nat, Len(t) \in Nat, m <= Len(s), m <= Len(t),
           Alike(s, t, 1 .. m)
    PROVE  Alike(g, h, 0 .. m)
<1> DEFINE T == {n \in 0 .. m : g[n] = h[n]}
<1>1. 0 \in T
  BY DEF Flattens
<1>2. ASSUME NEW n \in 0 .. m - 1, n \in T
      PROVE  n + 1 \in T
  <2>1. n + 1 \in 1 .. m /\ n + 1 \in 1 .. Len(s) /\ n + 1 \in 1 .. Len(t) /\ (n + 1) - 1 = n
    OBVIOUS
  <2>2. g[n + 1] = g[n] \o s[n + 1] /\ h[n + 1] = h[n] \o t[n + 1]
    BY <2>1 DEF Flattens
  <2>3. g[n] = h[n] /\ s[n + 1] = t[n + 1]
    BY <1>2, <2>1 DEF Alike
  <2>4. g[n + 1] = h[n + 1] /\ n + 1 \in 0 .. m
    BY <2>1, <2>2, <2>3
  <2> QED
    BY <2>4
<1>3. \A n \in 0 .. m : n \in T
  <2> HIDE DEF T
  <2> QED
    BY <1>1, <1>2, UpToInduction
<1> QED
  BY <1>3 DEF Alike

(* What is flattened first is the beginning of all of it.                  *)
LEMMA FlattenGrows ==
    ASSUME NEW S, NEW seqs \in Seq(Seq(S)), NEW g \in [0 .. Len(seqs) -> Seq(S)],
           Flattens(seqs, g)
    PROVE  \A n \in 0 .. Len(seqs) : \A m \in n .. Len(seqs) : Begins(g[n], g[m])
<1> SUFFICES ASSUME NEW n \in 0 .. Len(seqs), NEW m \in n .. Len(seqs)
             PROVE  /\ Len(g[n]) \in Nat /\ Len(g[m]) \in Nat /\ Len(g[n]) <= Len(g[m])
                    /\ \A i \in 1 .. Len(g[n]) : g[m][i] = g[n][i]
  BY DEF Begins
<1> DEFINE N == Len(seqs)
           T == {d \in 0 .. N - n : /\ Len(g[n]) <= Len(g[n + d])
                                    /\ \A i \in 1 .. Len(g[n]) : g[n + d][i] = g[n][i]}
<1>1. N \in Nat
  BY LenProperties
<1>2. \A k \in 0 .. N : g[k] \in Seq(S) /\ Len(g[k]) \in Nat
  BY LenProperties
<1>3. 0 \in T
  BY <1>1, <1>2
<1>4. ASSUME NEW d \in 0 .. (N - n) - 1, d \in T
      PROVE  d + 1 \in T
  <2>1. /\ n + (d + 1) \in 1 .. N /\ (n + (d + 1)) - 1 = n + d /\ n + d \in 0 .. N
        /\ d + 1 \in 0 .. N - n /\ n + (d + 1) \in 0 .. N
    BY <1>1
  <2>2. g[n + (d + 1)] = g[n + d] \o seqs[n + (d + 1)]
    BY <2>1 DEF Flattens
  <2>3. g[n + d] \in Seq(S) /\ seqs[n + (d + 1)] \in Seq(S)
    BY <1>2, <2>1, ElementOfSeq
  <2> DEFINE a == g[n + d]
             b == seqs[n + (d + 1)]
             c == g[n + (d + 1)]
             l == Len(g[n])
  <2>4. /\ Len(c) = Len(a) + Len(b) /\ \A i \in 1 .. Len(a) : c[i] = a[i]
    <3>1. a \in Seq(S) /\ b \in Seq(S) /\ c = a \o b
      BY <2>2, <2>3
    <3> HIDE DEF a, b, c
    <3> QED
      BY <3>1, ConcatFacts
  <2>5. l \in Nat /\ Len(a) \in Nat /\ Len(b) \in Nat
    BY <1>2, <2>1, <2>3, LenProperties
  <2>6. l <= Len(a) /\ \A i \in 1 .. l : a[i] = g[n][i]
    BY <1>4
  <2> HIDE DEF a, b, c, l
  <2>7. l <= Len(c) /\ \A i \in 1 .. l : c[i] = g[n][i]
    BY <2>4, <2>5, <2>6
  <2> QED
    BY <2>1, <2>7 DEF c, l
<1>5. \A d \in 0 .. N - n : d \in T
  <2>1. N - n \in Nat
    BY <1>1
  <2> HIDE DEF T
  <2> QED
    BY <1>3, <1>4, <2>1, UpToInduction
<1>6. m - n \in 0 .. N - n /\ n + (m - n) = m /\ m \in 0 .. N
  BY <1>1
<1> QED
  BY <1>2, <1>5, <1>6

(* b stands in all, after a and up to the end of c.                        *)
Places(a, b, c, all) ==
    /\ Len(a) \in Nat /\ Len(b) \in Nat /\ Len(c) = Len(a) + Len(b) /\ Len(c) <= Len(all)
    /\ \A i \in 1 .. Len(b) : all[Len(a) + i] = b[i]

(* Each of the sequences stands in the flattened one, after those before.  *)
LEMMA FlattenPlaces ==
    ASSUME NEW S, NEW seqs \in Seq(Seq(S)), NEW g \in [0 .. Len(seqs) -> Seq(S)],
           Flattens(seqs, g), NEW n \in 1 .. Len(seqs)
    PROVE  Places(g[n - 1], seqs[n], g[n], g[Len(seqs)])
<1>1. Len(seqs) \in Nat
  BY LenProperties
<1>2. n \in 0 .. Len(seqs) /\ n - 1 \in 0 .. Len(seqs) /\ Len(seqs) \in n .. Len(seqs)
  BY <1>1
<1>3. /\ Len(g[n]) \in Nat /\ Len(g[n]) <= Len(g[Len(seqs)])
      /\ \A i \in 1 .. Len(g[n]) : g[Len(seqs)][i] = g[n][i]
  <2>1. Begins(g[n], g[Len(seqs)])
    BY <1>2, FlattenGrows
  <2> QED
    BY <2>1 DEF Begins
<1> DEFINE a == g[n - 1]
           b == seqs[n]
           c == g[n]
           all == g[Len(seqs)]
<1>4. a \in Seq(S) /\ b \in Seq(S) /\ c = a \o b
  BY <1>2, ElementOfSeq DEF Flattens
<1>5. Len(c) \in Nat /\ Len(c) <= Len(all) /\ \A i \in 1 .. Len(c) : all[i] = c[i]
  BY <1>3
<1> HIDE DEF a, b, c, all
<1>6. Len(a) \in Nat /\ Len(b) \in Nat
  BY <1>4, LenProperties
<1>7. Len(c) = Len(a) + Len(b) /\ \A i \in 1 .. Len(b) : c[Len(a) + i] = b[i]
  BY <1>4, ConcatFacts
<1>8. ASSUME NEW i \in 1 .. Len(b)
      PROVE  all[Len(a) + i] = b[i]
  <2>1. Len(a) + i \in 1 .. Len(c)
    BY <1>6, <1>7
  <2> QED
    BY <1>5, <1>7, <2>1
<1> QED
  BY <1>5, <1>6, <1>7, <1>8 DEF a, b, c, all, Places

(* x is an element of one of the sequences.                                *)
IsIn(x, seqs) == \E n \in 1 .. Len(seqs) : \E j \in 1 .. Len(seqs[n]) : x = seqs[n][j]

(* Every element of the flattened sequence is one of the sequences'.       *)
LEMMA FlattenElements ==
    ASSUME NEW S, NEW seqs \in Seq(Seq(S)), NEW g \in [0 .. Len(seqs) -> Seq(S)],
           Flattens(seqs, g), NEW i \in 1 .. Len(g[Len(seqs)])
    PROVE  IsIn(g[Len(seqs)][i], seqs)
<1> DEFINE N == Len(seqs)
           From(x) == \E n \in 1 .. N : \E j \in 1 .. Len(seqs[n]) : x = seqs[n][j]
           T == {n \in 0 .. N : \A k \in 1 .. Len(g[n]) : From(g[n][k])}
<1>1. N \in Nat
  BY LenProperties
<1>2. 0 \in T
  <2>1. g[0] = <<>> /\ 0 \in 0 .. N
    BY <1>1 DEF Flattens
  <2>2. 1 .. Len(g[0]) = {}
    BY <2>1
  <2> QED
    BY <2>1, <2>2
<1>3. ASSUME NEW n \in 0 .. N - 1, n \in T
      PROVE  n + 1 \in T
  <2> DEFINE a == g[n]
             b == seqs[n + 1]
             c == g[n + 1]
  <2>1. n + 1 \in 1 .. N /\ (n + 1) - 1 = n /\ n \in 0 .. N /\ n + 1 \in 0 .. N
    BY <1>1
  <2>2. a \in Seq(S) /\ b \in Seq(S) /\ c = a \o b
    BY <2>1, ElementOfSeq DEF Flattens
  <2>3. Len(a) \in Nat /\ Len(b) \in Nat
    BY <2>2, LenProperties
  <2>4. \A k \in 1 .. Len(a) : From(a[k])
    BY <1>3
  <2>5. \A j \in 1 .. Len(b) : From(b[j])
    BY <2>1
  <2> HIDE DEF a, b, c, From
  <2>6. /\ Len(c) = Len(a) + Len(b) /\ \A k \in 1 .. Len(a) : c[k] = a[k]
        /\ \A k \in 1 .. Len(b) : c[Len(a) + k] = b[k]
    BY <2>2, ConcatFacts
  <2>7. ASSUME NEW k \in 1 .. Len(c)
        PROVE  From(c[k])
    <3>1. CASE k <= Len(a)
      <4>1. k \in 1 .. Len(a)
        BY <2>3, <2>6, <3>1
      <4>2. c[k] = a[k] /\ From(a[k])
        BY <2>4, <2>6, <4>1
      <4> QED
        BY <4>2
    <3>2. CASE k > Len(a)
      <4>1. k - Len(a) \in 1 .. Len(b) /\ Len(a) + (k - Len(a)) = k
        BY <2>3, <2>6, <3>2
      <4>2. c[k] = b[k - Len(a)] /\ From(b[k - Len(a)])
        BY <2>5, <2>6, <4>1
      <4> QED
        BY <4>2
    <3> QED
      BY <2>3, <2>6, <3>1, <3>2
  <2> QED
    BY <2>1, <2>7 DEF c
<1>4. N \in T
  <2> HIDE DEF T
  <2>1. \A n \in 0 .. N : n \in T
    BY <1>1, <1>2, <1>3, UpToInduction
  <2> QED
    BY <1>1, <2>1
<1> QED
  BY <1>4 DEF IsIn

=============================================================================
