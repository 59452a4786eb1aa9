--------------------------- MODULE InductionLemmas --------------------------
(***************************************************************************)
(* Induction over the natural numbers for the proofs about loops that the  *)
(* modules write as recursive functions.  It is stated for sets, which     *)
(* every prover can instantiate, and follows from the well-foundedness of  *)
(* the strict subsets of a finite set.  And what it gives for sums over a  *)
(* finite set, in whatever order they are added up.                        *)
(***************************************************************************)
EXTENDS Integers, FiniteSets, WellFoundedInduction, FiniteSetTheorems, Sums, TLAPS

LEMMA LeastNumber ==
  ASSUME NEW S \in SUBSET Nat, S # {}
  PROVE  \E m \in S : \A n \in S : m <= n
  <1>1. PICK top \in S : TRUE
    OBVIOUS
  <1> DEFINE U == 0..top
             T == {0..m : m \in S \cap U}
  <1>2. IsFiniteSet(U)
    BY <1>1, FS_Interval
  <1>3. IsWellFoundedOn(StrictSubsetOrdering(U), FiniteSubsetsOf(U))
    BY FS_StrictSubsetOrderingWellFounded
  <1>4. FiniteSubsetsOf(U) = SUBSET U
    BY <1>2, FS_FiniteSubsetsOfFinite
  <1>5. T \subseteq SUBSET U /\ T # {}
    <2>1. \A m \in S \cap U : 0..m \in SUBSET U
      BY <1>1
    <2>2. top \in S \cap U
      BY <1>1
    <2> QED BY <2>1, <2>2
  <1>6. \E x \in T : \A y \in T : <<y, x>> \notin StrictSubsetOrdering(U)
    <2> HIDE DEF T, U
    <2> QED BY <1>3, <1>4, <1>5, WFMin
  <1>7. PICK m \in S \cap U : \A y \in T : <<y, 0..m>> \notin StrictSubsetOrdering(U)
    BY <1>6
  <1>8. ASSUME NEW n \in S, n < m PROVE FALSE
    <2>1. n \in S \cap U /\ m \in Nat /\ n \in Nat
      BY <1>1, <1>8
    <2>2. 0..n \in T
      BY <2>1
    <2>3. 0..n \in SUBSET U /\ 0..m \in SUBSET U
      BY <1>5, <2>1, <2>2
    <2>4. 0..n \subseteq 0..m /\ m \in 0..m /\ m \notin 0..n
      BY <1>8, <2>1
    <2>5. 0..n # 0..m
      BY <2>4
    <2>6. <<0..n, 0..m>> \in StrictSubsetOrdering(U)
      BY <2>3, <2>4, <2>5 DEF StrictSubsetOrdering
    <2> QED BY <1>7, <2>2, <2>6
  <1> QED BY <1>7, <1>8

LEMMA InductionOnNat ==
  ASSUME NEW S, 0 \in S, \A n \in Nat : n \in S => n + 1 \in S
  PROVE  Nat \subseteq S
  <1> SUFFICES ASSUME Nat \ S # {} PROVE FALSE
    OBVIOUS
  <1>1. PICK m \in Nat \ S : \A n \in Nat \ S : m <= n
    BY LeastNumber
  <1>2. m # 0 /\ m - 1 \in Nat
    OBVIOUS
  <1>3. m - 1 \in S
    BY <1>1, <1>2
  <1> QED BY <1>2, <1>3

LEMMA InductionUpTo ==
  ASSUME NEW N \in Nat, NEW S, 0 \in S, \A n \in 0..(N - 1) : n \in S => n + 1 \in S
  PROVE  0..N \subseteq S
  <1> DEFINE T == {n \in Nat : n <= N => n \in S}
  <1>1. 0 \in T
    OBVIOUS
  <1>2. ASSUME NEW n \in Nat, n \in T PROVE n + 1 \in T
    BY <1>2
  <1>3. Nat \subseteq T
    <2> HIDE DEF T
    <2> QED BY <1>1, <1>2, InductionOnNat
  <1> QED BY <1>3

\* What N turns of a loop do to a value of S, and the values of its runs from x.
Turns(N, S) == [1..N -> [S -> S]]
IsRun(f, N, x, step) == f[0] = x /\ \A n \in 1..N : f[n] = step[n][f[n - 1]]

\* Such a loop can be carried out: the recursive function that describes it exists.
LEMMA LoopExists ==
  ASSUME NEW S, NEW x \in S, NEW N \in Nat, NEW step \in Turns(N, S)
  PROVE  \E f \in [0..N -> S] : IsRun(f, N, x, step)
  <1> USE DEF Turns, IsRun
  <1> DEFINE Runs(k, f) == f[0] = x /\ \A n \in 1..k : f[n] = step[n][f[n - 1]]
             T == {k \in 0..N : \E f \in [0..k -> S] : Runs(k, f)}
  <1>1. 0 \in T
    <2> DEFINE g == [n \in 0..0 |-> x]
    <2>1. g \in [0..0 -> S] /\ g[0] = x /\ 0 \in 0..N
      OBVIOUS
    <2> HIDE DEF g
    <2>2. Runs(0, g)
      BY <2>1
    <2> QED BY <2>1, <2>2
  <1>2. ASSUME NEW k \in 0..(N - 1), k \in T PROVE k + 1 \in T
    <2>1. PICK f \in [0..k -> S] : Runs(k, f)
      BY <1>2
    <2> DEFINE g == [n \in 0..(k + 1) |-> IF n = k + 1 THEN step[k + 1][f[k]] ELSE f[n]]
    <2>2. k + 1 \in 1..N /\ k \in 0..k /\ k + 1 \in 0..N /\ 0 \in 0..(k + 1) /\ 0 # k + 1
      OBVIOUS
    <2>3. step[k + 1][f[k]] \in S
      BY <2>2
    <2>4. g \in [0..(k + 1) -> S]
      BY <2>3
    <2>5. g[0] = x
      BY <2>1, <2>2
    <2>6. ASSUME NEW n \in 1..(k + 1) PROVE g[n] = step[n][g[n - 1]]
      <3>1. CASE n = k + 1
        BY <2>2, <3>1
      <3>2. CASE n # k + 1
        <4>1. n \in 1..k /\ n - 1 \in 0..k /\ n \in 0..(k + 1) /\ n - 1 \in 0..(k + 1) /\ n - 1 # k + 1
          BY <3>2
        <4> QED BY <2>1, <3>2, <4>1
      <3> QED BY <3>1, <3>2
    <2> HIDE DEF g
    <2>7. Runs(k + 1, g)
      BY <2>5, <2>6
    <2> QED BY <2>2, <2>4, <2>7
  <1>3. N \in T
    <2> HIDE DEF T
    <2>1. 0..N \subseteq T
      BY <1>1, <1>2, InductionUpTo
    <2> QED BY <2>1
  <1> QED BY <1>3

-----------------------------------------------------------------------------
(* Sums over a finite set *)

Chosen(s) == CHOOSE x \in s : TRUE
IsSum(it, S, f) ==
  it = [s \in SUBSET S |-> IF s = {} THEN 0 ELSE f[Chosen(s)] + it[s \ {Chosen(s)}]]
IntOn(f, S) == \A x \in S : f[x] \in Int

\* Without one of its elements a set has one element fewer.
LEMMA Without ==
  ASSUME NEW S, IsFiniteSet(S), NEW s \in SUBSET S, NEW x \in s
  PROVE  /\ IsFiniteSet(s) /\ IsFiniteSet(s \ {x}) /\ s \ {x} \in SUBSET S
         /\ Cardinality(s) \in Nat \ {0} /\ Cardinality(s \ {x}) = Cardinality(s) - 1
         /\ Cardinality(s) <= Cardinality(S) /\ Cardinality(S) \in Nat
  BY FS_Subset, FS_RemoveElement, FS_CardinalityType, FS_EmptySet

LEMMA ChosenIn == ASSUME NEW s, s # {} PROVE Chosen(s) \in s
  BY DEF Chosen

LEMMA SumExists ==
  ASSUME NEW S, IsFiniteSet(S), NEW f, IntOn(f, S)
  PROVE  \E it : IsSum(it, S, f)
  <1> DEFINE Body(it, s) == IF s = {} THEN 0 ELSE f[Chosen(s)] + it[s \ {Chosen(s)}]
             Upto(n, it) == \A s \in SUBSET S : Cardinality(s) <= n => it[s] = Body(it, s)
             T == {n \in Nat : \E it \in [SUBSET S -> Int] : Upto(n, it)}
  <1>1. 0 \in T
    <2> DEFINE it == [s \in SUBSET S |-> 0]
    <2>1. ASSUME NEW s \in SUBSET S, Cardinality(s) <= 0 PROVE s = {}
      <3>1. IsFiniteSet(s)
        BY FS_Subset
      <3>2. Cardinality(s) = 0
        BY <2>1, <3>1, FS_CardinalityType
      <3> QED BY <3>1, <3>2, FS_EmptySet
    <2>2. it \in [SUBSET S -> Int] /\ Upto(0, it)
      BY <2>1
    <2> QED BY <2>2
  <1>2. ASSUME NEW n \in Nat, n \in T PROVE n + 1 \in T
    <2>1. PICK it \in [SUBSET S -> Int] : Upto(n, it)
      BY <1>2
    <2> DEFINE new == [s \in SUBSET S |-> Body(it, s)]
    <2>2. ASSUME NEW s \in SUBSET S, s # {}
          PROVE  s \ {Chosen(s)} \in SUBSET S /\ f[Chosen(s)] \in Int
      BY <2>2, ChosenIn DEF IntOn
    <2>3. new \in [SUBSET S -> Int]
      BY <2>2
    <2>4. ASSUME NEW s \in SUBSET S, Cardinality(s) <= n + 1 PROVE new[s] = Body(new, s)
      <3>1. CASE s = {}
        BY <3>1
      <3>2. CASE s # {}
        <4> DEFINE r == s \ {Chosen(s)}
        <4>1. r \in SUBSET S /\ Cardinality(r) <= n
          BY <1>2, <2>4, <3>2, ChosenIn, Without
        <4>2. it[r] = Body(it, r)
          BY <2>1, <4>1
        <4>3. new[r] = it[r]
          BY <4>1, <4>2
        <4>4. new[s] = f[Chosen(s)] + it[r]
          BY <3>2
        <4> QED BY <3>2, <4>3, <4>4
      <3> QED BY <3>1, <3>2
    <2> HIDE DEF new
    <2>5. Upto(n + 1, new)
      BY <2>4
    <2> QED BY <2>3, <2>5
  <1>3. Nat \subseteq T
    <2> HIDE DEF T
    <2> QED BY <1>1, <1>2, InductionOnNat
  <1>4. Cardinality(S) \in T
    BY <1>3, FS_CardinalityType
  <1>5. PICK it \in [SUBSET S -> Int] : Upto(Cardinality(S), it)
    BY <1>4
  <1>6. \A s \in SUBSET S : Cardinality(s) <= Cardinality(S)
    BY FS_Subset
  <1>7. \A s \in SUBSET S : it[s] = Body(it, s)
    BY <1>5, <1>6
  <1>8. it = [s \in SUBSET S |-> Body(it, s)]
    BY <1>7
  <1> QED BY <1>8 DEF IsSum

\* Two such sums agree on a set on whose elements the functions agree.
LEMMA SumsAgree ==
  ASSUME NEW S, IsFiniteSet(S), NEW R, NEW Q, Q \subseteq S, Q \subseteq R,
         NEW f, NEW g, NEW it, NEW jt,
         IsSum(it, S, f), IsSum(jt, R, g), IntOn(f, Q), \A x \in Q : f[x] = g[x]
  PROVE  it[Q] = jt[Q] /\ it[Q] \in Int
  <1> DEFINE T == {n \in Nat : \A s \in SUBSET Q : Cardinality(s) <= n => it[s] = jt[s] /\ it[s] \in Int}
  <1>f. IsFiniteSet(Q)
    BY FS_Subset
  <1>0. it[{}] = 0 /\ jt[{}] = 0
    BY DEF IsSum
  <1>a. ASSUME NEW s \in SUBSET Q, s # {}
        PROVE  /\ it[s] = f[Chosen(s)] + it[s \ {Chosen(s)}]
               /\ jt[s] = f[Chosen(s)] + jt[s \ {Chosen(s)}] /\ f[Chosen(s)] \in Int
    <2>1. Chosen(s) \in Q /\ s \in SUBSET S /\ s \in SUBSET R
      BY <1>a, ChosenIn
    <2> QED BY <1>a, <2>1 DEF IsSum, IntOn
  <1>1. 0 \in T
    <2>1. ASSUME NEW s \in SUBSET Q, Cardinality(s) <= 0 PROVE s = {}
      <3>1. CASE s # {}
        <4>1. PICK x \in s : TRUE
          BY <3>1
        <4>2. Cardinality(s) \in Nat \ {0}
          BY <1>f, <4>1, Without
        <4> QED BY <2>1, <4>2
      <3> QED BY <3>1
    <2> QED BY <1>0, <2>1
  <1>2. ASSUME NEW n \in Nat, n \in T PROVE n + 1 \in T
    <2>1. ASSUME NEW s \in SUBSET Q, Cardinality(s) <= n + 1 PROVE it[s] = jt[s] /\ it[s] \in Int
      <3>1. CASE s = {}
        BY <1>0, <3>1
      <3>2. CASE s # {}
        <4>0. Cardinality(s) \in Nat /\ Cardinality(s \ {Chosen(s)}) = Cardinality(s) - 1
          BY <1>f, <3>2, ChosenIn, Without
        <4>1. s \ {Chosen(s)} \in SUBSET Q /\ Cardinality(s \ {Chosen(s)}) <= n
          BY <2>1, <4>0
        <4>2. it[s \ {Chosen(s)}] = jt[s \ {Chosen(s)}] /\ it[s \ {Chosen(s)}] \in Int
          BY <1>2, <4>1
        <4> HIDE DEF T
        <4>3. /\ it[s] = f[Chosen(s)] + it[s \ {Chosen(s)}]
              /\ jt[s] = f[Chosen(s)] + jt[s \ {Chosen(s)}] /\ f[Chosen(s)] \in Int
          BY <1>a, <3>2
        <4> QED BY <4>2, <4>3
      <3> QED BY <3>1, <3>2
    <2> QED BY <2>1
  <1>3. Nat \subseteq T
    <2> HIDE DEF T
    <2> QED BY <1>1, <1>2, InductionOnNat
  <1>4. Cardinality(Q) \in T
    BY <1>f, <1>3, FS_CardinalityType
  <1>5. Cardinality(Q) \in Nat
    BY <1>f, FS_CardinalityType
  <1> QED BY <1>4, <1>5

LEMMA SumIs ==
  ASSUME NEW S, IsFiniteSet(S), NEW f, IntOn(f, S)
  PROVE  \E it : IsSum(it, S, f) /\ SumOver(S, f) = it[S]
  <1> DEFINE it == CHOOSE g : IsSum(g, S, f)
  <1>1. IsSum(it, S, f)
    BY SumExists
  <1>2. SumOver(S, f) = it[S]
    BY DEF SumOver, FoldFunctionOnSet, MapThenFoldSet, IsSum, Chosen
  <1> QED BY <1>1, <1>2

\* A sum over a set depends on the values of its elements only.
LEMMA SumOfSame ==
  ASSUME NEW S, IsFiniteSet(S), NEW f, NEW g, IntOn(f, S), \A x \in S : f[x] = g[x]
  PROVE  SumOver(S, f) = SumOver(S, g) /\ SumOver(S, f) \in Int
  <1>1. IntOn(g, S)
    BY DEF IntOn
  <1>2. PICK it : IsSum(it, S, f) /\ SumOver(S, f) = it[S]
    BY SumIs
  <1>3. PICK jt : IsSum(jt, S, g) /\ SumOver(S, g) = jt[S]
    BY <1>1, SumIs
  <1>4. S \subseteq S
    OBVIOUS
  <1>5. it[S] = jt[S] /\ it[S] \in Int
    BY <1>1, <1>2, <1>3, <1>4, SumsAgree, SMTT(30)
  <1> QED BY <1>2, <1>3, <1>5

LEMMA SumOfNone == ASSUME NEW f PROVE SumOver({}, f) = 0
  <1>1. IsFiniteSet({}) /\ IntOn(f, {})
    BY FS_EmptySet DEF IntOn
  <1>2. PICK it : IsSum(it, {}, f) /\ SumOver({}, f) = it[{}]
    BY <1>1, SumIs
  <1> QED BY <1>2 DEF IsSum

LEMMA SumTakesChosen ==
  ASSUME NEW S, IsFiniteSet(S), NEW f, IntOn(f, S), S # {}
  PROVE  SumOver(S, f) = f[Chosen(S)] + SumOver(S \ {Chosen(S)}, f)
  <1> DEFINE R == S \ {Chosen(S)}
  <1>1. IsFiniteSet(R) /\ IntOn(f, R) /\ R \subseteq S
    BY FS_Subset DEF IntOn
  <1>2. PICK it : IsSum(it, S, f) /\ SumOver(S, f) = it[S]
    BY SumIs
  <1>3. PICK jt : IsSum(jt, R, f) /\ SumOver(R, f) = jt[R]
    BY <1>1, SumIs
  <1>4. it[R] = jt[R]
    <2> HIDE DEF R
    <2> QED BY <1>1, <1>2, <1>3, SumsAgree
  <1>5. it[S] = f[Chosen(S)] + it[R]
    BY <1>2 DEF IsSum
  <1> QED BY <1>2, <1>3, <1>4, <1>5

\* Any element can be taken out of a sum.
LEMMA SumTakes ==
  ASSUME NEW S, IsFiniteSet(S), NEW f, IntOn(f, S), NEW x \in S
  PROVE  SumOver(S, f) = f[x] + SumOver(S \ {x}, f) /\ f[x] \in Int /\ SumOver(S \ {x}, f) \in Int
  <1> DEFINE T == {n \in Nat : \A s \in SUBSET S : Cardinality(s) <= n =>
                     \A y \in s : SumOver(s, f) = f[y] + SumOver(s \ {y}, f)}
  <1>0. \A s \in SUBSET S : IsFiniteSet(s) /\ IntOn(f, s) /\ SumOver(s, f) \in Int
    <2> TAKE s \in SUBSET S
    <2>1. IsFiniteSet(s) /\ IntOn(f, s)
      BY FS_Subset DEF IntOn
    <2>2. SumOver(s, f) \in Int
      BY <2>1, SumOfSame
    <2> QED BY <2>1, <2>2
  <1>1. 0 \in T
    <2>1. ASSUME NEW s \in SUBSET S, Cardinality(s) <= 0, NEW y \in s PROVE FALSE
      <3>1. Cardinality(s) \in Nat \ {0}
        BY Without
      <3> QED BY <2>1, <3>1
    <2> QED BY <2>1
  <1>2. ASSUME NEW n \in Nat, n \in T PROVE n + 1 \in T
    <2>1. ASSUME NEW s \in SUBSET S, Cardinality(s) <= n + 1, NEW y \in s
          PROVE  SumOver(s, f) = f[y] + SumOver(s \ {y}, f)
      <3> DEFINE c == Chosen(s)
      <3>1. c \in s
        BY ChosenIn
      <3>2. SumOver(s, f) = f[c] + SumOver(s \ {c}, f)
        BY <1>0, SumTakesChosen
      <3>3. CASE y = c
        BY <3>2, <3>3
      <3>4. CASE y # c
        <4> HIDE DEF c
        <4>1. /\ s \ {c} \in SUBSET S /\ Cardinality(s \ {c}) <= n /\ y \in s \ {c}
              /\ s \ {y} \in SUBSET S /\ Cardinality(s \ {y}) <= n /\ c \in s \ {y}
          BY <1>2, <2>1, <3>1, <3>4, Without
        <4>2. SumOver(s \ {c}, f) = f[y] + SumOver((s \ {c}) \ {y}, f)
          BY <1>2, <4>1
        <4>3. SumOver(s \ {y}, f) = f[c] + SumOver((s \ {y}) \ {c}, f)
          BY <1>2, <4>1
        <4>4. (s \ {c}) \ {y} = (s \ {y}) \ {c} /\ (s \ {y}) \ {c} \in SUBSET S
          OBVIOUS
        <4>5. f[c] \in Int /\ f[y] \in Int /\ SumOver((s \ {y}) \ {c}, f) \in Int
          BY <1>0, <3>1, <4>4 DEF IntOn
        <4>6. SumOver(s, f) = f[c] + (f[y] + SumOver((s \ {y}) \ {c}, f))
          BY <3>2, <4>2, <4>4
        <4>7. f[c] + (f[y] + SumOver((s \ {y}) \ {c}, f)) = f[y] + (f[c] + SumOver((s \ {y}) \ {c}, f))
          BY <4>5
        <4> QED BY <4>3, <4>6, <4>7
      <3> QED BY <3>3, <3>4
    <2> QED BY <2>1
  <1>3. Nat \subseteq T
    <2> HIDE DEF T
    <2> QED BY <1>1, <1>2, InductionOnNat
  <1>4. Cardinality(S) \in T /\ Cardinality(S) \in Nat
    BY <1>3, FS_CardinalityType
  <1>5. SumOver(S, f) = f[x] + SumOver(S \ {x}, f)
    BY <1>4
  <1>6. S \ {x} \in SUBSET S
    OBVIOUS
  <1> QED BY <1>0, <1>5, <1>6 DEF IntOn

\* What a sum becomes when one value changes.
LEMMA SumChanges ==
  ASSUME NEW S, IsFiniteSet(S), NEW f, NEW g, IntOn(f, S), IntOn(g, S), NEW x \in S,
         \A y \in S \ {x} : f[y] = g[y]
  PROVE  /\ SumOver(S, g) = SumOver(S, f) - f[x] + g[x]
         /\ SumOver(S, f) \in Int /\ SumOver(S, g) \in Int /\ f[x] \in Int /\ g[x] \in Int
  <1>1. IsFiniteSet(S \ {x}) /\ IntOn(f, S \ {x})
    BY FS_Subset DEF IntOn
  <1>2. SumOver(S \ {x}, f) = SumOver(S \ {x}, g)
    BY <1>1, SumOfSame
  <1>3. SumOver(S, f) = f[x] + SumOver(S \ {x}, f) /\ f[x] \in Int /\ SumOver(S \ {x}, f) \in Int
    BY SumTakes
  <1>4. SumOver(S, g) = g[x] + SumOver(S \ {x}, g) /\ g[x] \in Int
    BY SumTakes
  <1> QED BY <1>2, <1>3, <1>4

LEMMA SumOfZeros ==
  ASSUME NEW S, IsFiniteSet(S), NEW f, \A x \in S : f[x] = 0
  PROVE  SumOver(S, f) = 0
  <1> DEFINE T == {n \in Nat : \A s \in SUBSET S : Cardinality(s) <= n => SumOver(s, f) = 0}
  <1>0. \A s \in SUBSET S : IsFiniteSet(s) /\ IntOn(f, s)
    BY FS_Subset DEF IntOn
  <1>1. 0 \in T
    <2>1. ASSUME NEW s \in SUBSET S, Cardinality(s) <= 0 PROVE SumOver(s, f) = 0
      <3>1. ASSUME NEW y \in s PROVE FALSE
        <4>1. Cardinality(s) \in Nat \ {0}
          BY Without
        <4> QED BY <2>1, <4>1
      <3> QED BY <3>1, SumOfNone
    <2> QED BY <2>1
  <1>2. ASSUME NEW n \in Nat, n \in T PROVE n + 1 \in T
    <2>1. ASSUME NEW s \in SUBSET S, Cardinality(s) <= n + 1 PROVE SumOver(s, f) = 0
      <3>1. CASE s = {}
        BY <3>1, SumOfNone
      <3>2. ASSUME NEW x \in s PROVE SumOver(s, f) = 0
        <4>1. SumOver(s, f) = f[x] + SumOver(s \ {x}, f)
          BY <1>0, SumTakes
        <4>2. s \ {x} \in SUBSET S /\ Cardinality(s \ {x}) <= n
          BY <1>2, <2>1, Without
        <4> QED BY <1>2, <4>1, <4>2
      <3> QED BY <3>1, <3>2
    <2> QED BY <2>1
  <1>3. Nat \subseteq T
    <2> HIDE DEF T
    <2> QED BY <1>1, <1>2, InductionOnNat
  <1>4. Cardinality(S) \in T /\ Cardinality(S) \in Nat
    BY <1>3, FS_CardinalityType
  <1> QED BY <1>4

\* Of natural numbers: the sum is one, and not below any of them.
LEMMA SumOfNat ==
  ASSUME NEW S, IsFiniteSet(S), NEW f, \A x \in S : f[x] \in Nat
  PROVE  SumOver(S, f) \in Nat /\ \A x \in S : f[x] <= SumOver(S, f)
  <1> DEFINE T == {n \in Nat : \A s \in SUBSET S : Cardinality(s) <= n => SumOver(s, f) \in Nat}
  <1>0. \A s \in SUBSET S : IsFiniteSet(s) /\ IntOn(f, s)
    BY FS_Subset DEF IntOn
  <1>1. 0 \in T
    <2>1. ASSUME NEW s \in SUBSET S, Cardinality(s) <= 0 PROVE SumOver(s, f) \in Nat
      <3>1. ASSUME NEW y \in s PROVE FALSE
        <4>1. Cardinality(s) \in Nat \ {0}
          BY Without
        <4> QED BY <2>1, <4>1
      <3>2. s = {}
        BY <3>1
      <3> QED BY <3>2, SumOfNone
    <2> QED BY <2>1
  <1>2. ASSUME NEW n \in Nat, n \in T PROVE n + 1 \in T
    <2>1. ASSUME NEW s \in SUBSET S, Cardinality(s) <= n + 1 PROVE SumOver(s, f) \in Nat
      <3>1. CASE s = {}
        BY <3>1, SumOfNone
      <3>2. ASSUME NEW x \in s PROVE SumOver(s, f) \in Nat
        <4>1. SumOver(s, f) = f[x] + SumOver(s \ {x}, f)
          BY <1>0, SumTakes
        <4>2. s \ {x} \in SUBSET S /\ Cardinality(s \ {x}) <= n
          BY <1>2, <2>1, Without
        <4> QED BY <1>2, <4>1, <4>2
      <3> QED BY <3>1, <3>2
    <2> QED BY <2>1
  <1>3. Nat \subseteq T
    <2> HIDE DEF T
    <2> QED BY <1>1, <1>2, InductionOnNat
  <1>4. \A s \in SUBSET S : SumOver(s, f) \in Nat
    <2> TAKE s \in SUBSET S
    <2>1. IsFiniteSet(s)
      BY <1>0
    <2>2. Cardinality(s) \in T /\ Cardinality(s) \in Nat
      BY <1>3, <2>1, FS_CardinalityType
    <2> QED BY <2>2
  <1>5. ASSUME NEW x \in S PROVE f[x] <= SumOver(S, f)
    <2>1. S \ {x} \in SUBSET S /\ IntOn(f, S)
      BY <1>0
    <2>2. SumOver(S, f) = f[x] + SumOver(S \ {x}, f) /\ SumOver(S \ {x}, f) \in Nat
      BY <1>4, <2>1, SumTakes
    <2> QED BY <2>2
  <1> QED BY <1>4, <1>5
=============================================================================
