-------------------------------- MODULE Sums --------------------------------
(***************************************************************************)
(* Induction for the proofs of this project, and what they need to know of   *)
(* sums over finite sets.  A statement is proved for all numbers by showing  *)
(* that the set of the numbers it holds for is closed under successor.       *)
(***************************************************************************)
EXTENDS Naturals, FiniteSets, FiniteSetsExt, FiniteSetTheorems, TLAPS

\* The sum of f over the elements of S.
Sum(f, S) == MapThenSumSet(LAMBDA x : f[x], S)

-----------------------------------------------------------------------------
\* A set of numbers that is not empty has a least element.
LEMMA LeastNumber ==
    ASSUME NEW T \in SUBSET Nat, T # {}
    PROVE  \E x \in T : \A y \in T : x <= y
  <1>1. PICK x \in T : \A y \in T : ~(<<y, x>> \in OpToRel(<, Nat))
    BY NatLessThanWellFounded, WFMin
  <1>2. ASSUME NEW y \in T PROVE x <= y
    <2>1. ~(y < x)
      BY <1>1 DEF OpToRel
    <2> QED
      BY <2>1
  <1> QED
    BY <1>2

\* A set of numbers that has 0 and the successor of each of its elements has all numbers.
LEMMA InductiveSet ==
    ASSUME NEW S \in SUBSET Nat, 0 \in S, \A n \in S : n + 1 \in S
    PROVE  S = Nat
  <1> SUFFICES ASSUME S # Nat PROVE FALSE
    OBVIOUS
  <1>1. PICK m \in Nat \ S : \A y \in Nat \ S : m <= y
    BY LeastNumber
  <1>2. m - 1 \in S
    BY <1>1
  <1> QED
    BY <1>2

-----------------------------------------------------------------------------
(* Sum is the value of a recursive function at S.                            *)

Chosen(s) == CHOOSE x \in s : TRUE

\* One unfolding of the sum of s, by means of g.
Unfolded(f, g, s) == IF s = {} THEN 0 ELSE f[Chosen(s)] + g[s \ {Chosen(s)}]

\* The subsets of S with at most n elements.
Small(S, n) == {s \in SUBSET S : Cardinality(s) <= n}

\* The element taken out of a set is one of its elements, and leaves one less.
LEMMA ChosenLeaves ==
    ASSUME NEW s, IsFiniteSet(s), s # {}
    PROVE  /\ Chosen(s) \in s
           /\ IsFiniteSet(s \ {Chosen(s)})
           /\ Cardinality(s) \in Nat /\ Cardinality(s \ {Chosen(s)}) \in Nat
           /\ Cardinality(s) = Cardinality(s \ {Chosen(s)}) + 1
  <1>1. Chosen(s) \in s
    BY DEF Chosen
  <1>2. /\ IsFiniteSet(s \ {Chosen(s)})
        /\ Cardinality(s \ {Chosen(s)}) = Cardinality(s) - 1
    BY <1>1, FS_RemoveElement
  <1>3. Cardinality(s) \in Nat /\ Cardinality(s \ {Chosen(s)}) \in Nat
    BY <1>2, FS_CardinalityType
  <1> QED
    BY <1>1, <1>2, <1>3

\* There is a function that satisfies the recursion, on all subsets of a finite set.
LEMMA SumFunctionExists ==
    ASSUME NEW f, NEW S, IsFiniteSet(S)
    PROVE  \E g : g = [s \in SUBSET S |-> Unfolded(f, g, s)]
  <1> DEFINE N == {n \in Nat : \E g : g = [s \in Small(S, n) |-> Unfolded(f, g, s)]}
  <1>0. \A s \in SUBSET S : IsFiniteSet(s) /\ Cardinality(s) \in Nat
    BY FS_Subset, FS_CardinalityType
  <1>1. 0 \in N
    <2> DEFINE g == [s \in Small(S, 0) |-> 0]
    <2>1. \A s \in Small(S, 0) : s = {}
      BY <1>0, FS_EmptySet DEF Small
    <2>2. \A s \in Small(S, 0) : g[s] = Unfolded(f, g, s)
      BY <2>1 DEF Unfolded
    <2>3. g = [s \in Small(S, 0) |-> Unfolded(f, g, s)]
      BY <2>2
    <2> QED
      BY <2>3
  <1>2. ASSUME NEW n \in N PROVE n + 1 \in N
    <2>1. PICK g : g = [s \in Small(S, n) |-> Unfolded(f, g, s)]
      OBVIOUS
    <2> DEFINE h == [s \in Small(S, n + 1) |-> IF s \in Small(S, n) THEN g[s] ELSE Unfolded(f, g, s)]
    <2>2. ASSUME NEW s \in Small(S, n + 1) PROVE h[s] = Unfolded(f, h, s)
      <3>1. h[s] = Unfolded(f, g, s)
        BY <2>1
      <3>2. CASE s = {}
        BY <3>1, <3>2 DEF Unfolded
      <3>3. CASE s # {}
        <4>1. s \ {Chosen(s)} \in Small(S, n)
          BY <1>0, <3>3, ChosenLeaves DEF Small
        <4>2. Small(S, n) \subseteq Small(S, n + 1)
          BY <1>0 DEF Small
        <4>3. h[s \ {Chosen(s)}] = g[s \ {Chosen(s)}]
          BY <4>1, <4>2
        <4> QED
          BY <3>1, <3>3, <4>3 DEF Unfolded
      <3> QED
        BY <3>2, <3>3
    <2>3. h = [s \in Small(S, n + 1) |-> Unfolded(f, h, s)]
      BY <2>2
    <2> HIDE DEF h
    <2> QED
      BY <2>3
  <1>3. N = Nat
    <2> HIDE DEF N
    <2>1. N \in SUBSET Nat
      BY DEF N
    <2> QED
      BY <1>1, <1>2, <2>1, InductiveSet
  <1>4. Cardinality(S) \in N
    BY <1>3, FS_CardinalityType
  <1>5. Small(S, Cardinality(S)) = SUBSET S
    BY FS_Subset DEF Small
  <1> QED
    BY <1>4, <1>5

\* g satisfies the recursion on all subsets of S.
Solves(f, g, S) == \A s \in SUBSET S : g[s] = Unfolded(f, g, s)

\* Two functions that satisfy the recursion agree wherever both are defined.
LEMMA SumFunctionUnique ==
    ASSUME NEW f, NEW S, NEW T, IsFiniteSet(S), T \subseteq S, NEW g, NEW h,
           Solves(f, g, S), Solves(f, h, T)
    PROVE  g[T] = h[T]
  <1> DEFINE N == {n \in Nat : \A s \in Small(T, n) : g[s] = h[s]}
  <1>0. /\ IsFiniteSet(T)
        /\ \A s \in SUBSET T : IsFiniteSet(s) /\ Cardinality(s) \in Nat
    BY FS_Subset, FS_CardinalityType
  <1>1. \A s \in SUBSET T : g[s] = Unfolded(f, g, s) /\ h[s] = Unfolded(f, h, s)
    BY DEF Solves
  <1>2. 0 \in N
    <2>1. \A s \in Small(T, 0) : s = {}
      BY <1>0, FS_EmptySet DEF Small
    <2> QED
      BY <1>1, <2>1 DEF Unfolded
  <1>3. ASSUME NEW n \in N PROVE n + 1 \in N
    <2>1. ASSUME NEW s \in Small(T, n + 1) PROVE g[s] = h[s]
      <3>1. s \in SUBSET T
        BY DEF Small
      <3>2. CASE s = {}
        BY <1>1, <3>1, <3>2 DEF Unfolded
      <3>3. CASE s # {}
        <4>1. s \ {Chosen(s)} \in Small(T, n)
          BY <1>0, <3>3, ChosenLeaves DEF Small
        <4>2. g[s \ {Chosen(s)}] = h[s \ {Chosen(s)}]
          BY <4>1
        <4> QED
          BY <1>1, <3>1, <3>3, <4>2 DEF Unfolded
      <3> QED
        BY <3>2, <3>3
    <2>2. n + 1 \in Nat
      OBVIOUS
    <2> QED
      BY <2>1, <2>2
  <1>4. N = Nat
    <2> HIDE DEF N
    <2>1. N \in SUBSET Nat
      BY DEF N
    <2> QED
      BY <1>2, <1>3, <2>1, InductiveSet
  <1>5. Cardinality(T) \in N
    BY <1>0, <1>4
  <1>6. T \in Small(T, Cardinality(T))
    <2> HIDE DEF N
    <2> QED
      BY <1>0 DEF Small
  <1> QED
    BY <1>5, <1>6

\* Sum is the value at S of the function that SumFunctionExists is about.
LEMMA SumIsValue ==
    ASSUME NEW f, NEW S
    PROVE  Sum(f, S) = (CHOOSE g : g = [s \in SUBSET S |-> Unfolded(f, g, s)])[S]
  BY DEF Sum, MapThenSumSet, MapThenFoldSet, Unfolded, Chosen

\* The sum of a set is that of one element and of the others.
LEMMA SumUnfolds ==
    ASSUME NEW f, NEW S, IsFiniteSet(S)
    PROVE  /\ S = {} => Sum(f, S) = 0
           /\ S # {} => Sum(f, S) = f[Chosen(S)] + Sum(f, S \ {Chosen(S)})
  <1> DEFINE G(R) == CHOOSE g : g = [s \in SUBSET R |-> Unfolded(f, g, s)]
  <1>1. ASSUME NEW R, IsFiniteSet(R)
        PROVE  G(R) = [s \in SUBSET R |-> Unfolded(f, G(R), s)]
    BY <1>1, SumFunctionExists
  <1>2. \A R : Sum(f, R) = G(R)[R]
    BY SumIsValue
  <1> HIDE DEF G
  <1>3. G(S)[S] = Unfolded(f, G(S), S)
    BY <1>1
  <1>4. CASE S = {}
    BY <1>2, <1>3, <1>4 DEF Unfolded
  <1>5. CASE S # {}
    <2> DEFINE T == S \ {Chosen(S)}
    <2>0. IsFiniteSet(T)
      BY <1>5, ChosenLeaves
    <2>1. T \subseteq S
      OBVIOUS
    <2>2. Solves(f, G(S), S)
      BY <1>1 DEF Solves
    <2>3. Solves(f, G(T), T)
      BY <1>1, <2>0 DEF Solves
    <2> HIDE DEF T
    <2>4. G(S)[T] = G(T)[T]
      BY <2>1, <2>2, <2>3, SumFunctionUnique
    <2>5. Sum(f, S) = f[Chosen(S)] + G(S)[T]
      BY <1>2, <1>3, <1>5 DEF T, Unfolded
    <2>6. Sum(f, S) = f[Chosen(S)] + Sum(f, T)
      BY <1>2, <2>4, <2>5
    <2> QED
      BY <1>5, <2>6 DEF T
  <1> QED
    BY <1>4, <1>5

\* A sum of numbers is a number.
LEMMA SumType ==
    ASSUME NEW f, NEW S, IsFiniteSet(S), \A x \in S : f[x] \in Nat
    PROVE  Sum(f, S) \in Nat
  <1> DEFINE N == {n \in Nat : \A s \in Small(S, n) : Sum(f, s) \in Nat}
  <1>0. \A s \in SUBSET S : IsFiniteSet(s) /\ Cardinality(s) \in Nat
    BY FS_Subset, FS_CardinalityType
  <1>1. 0 \in N
    <2>1. \A s \in Small(S, 0) : s = {} /\ IsFiniteSet(s)
      BY <1>0, FS_EmptySet DEF Small
    <2>2. \A s \in Small(S, 0) : Sum(f, s) = 0
      BY <2>1, SumUnfolds
    <2> QED
      BY <2>2
  <1>2. ASSUME NEW n \in N PROVE n + 1 \in N
    <2>1. ASSUME NEW s \in Small(S, n + 1) PROVE Sum(f, s) \in Nat
      <3>1. s \in SUBSET S /\ IsFiniteSet(s)
        BY <1>0 DEF Small
      <3>2. CASE s = {}
        <4>1. Sum(f, s) = 0
          BY <3>1, <3>2, SumUnfolds
        <4> QED
          BY <4>1
      <3>3. CASE s # {}
        <4>1. s \ {Chosen(s)} \in Small(S, n) /\ Chosen(s) \in S
          BY <1>0, <3>1, <3>3, ChosenLeaves DEF Small
        <4>2. Sum(f, s \ {Chosen(s)}) \in Nat /\ f[Chosen(s)] \in Nat
          BY <4>1
        <4>3. Sum(f, s) = f[Chosen(s)] + Sum(f, s \ {Chosen(s)})
          BY <3>1, <3>3, SumUnfolds
        <4> QED
          BY <4>2, <4>3
      <3> QED
        BY <3>2, <3>3
    <2>2. n + 1 \in Nat
      OBVIOUS
    <2> QED
      BY <2>1, <2>2
  <1>3. N = Nat
    <2> HIDE DEF N
    <2>1. N \in SUBSET Nat
      BY DEF N
    <2> QED
      BY <1>1, <1>2, <2>1, InductiveSet
  <1>4. Cardinality(S) \in N
    BY <1>0, <1>3
  <1>5. S \in Small(S, Cardinality(S))
    <2> HIDE DEF N
    <2> QED
      BY <1>0 DEF Small
  <1> QED
    BY <1>4, <1>5

\* Any element can be taken out of a sum.
LEMMA SumSplit ==
    ASSUME NEW f, NEW S, IsFiniteSet(S), \A x \in S : f[x] \in Nat, NEW y \in S
    PROVE  Sum(f, S) = f[y] + Sum(f, S \ {y})
  <1> DEFINE N == {n \in Nat : \A s \in Small(S, n) : \A x \in s :
                       Sum(f, s) = f[x] + Sum(f, s \ {x})}
  <1>0. \A s \in SUBSET S : IsFiniteSet(s) /\ Cardinality(s) \in Nat /\ Sum(f, s) \in Nat
    BY FS_Subset, FS_CardinalityType, SumType
  <1>1. 0 \in N
    <2>1. \A s \in Small(S, 0) : s = {}
      BY <1>0, FS_EmptySet DEF Small
    <2> QED
      BY <2>1
  <1>2. ASSUME NEW n \in N PROVE n + 1 \in N
    <2>1. ASSUME NEW s \in Small(S, n + 1), NEW x \in s
          PROVE  Sum(f, s) = f[x] + Sum(f, s \ {x})
      <3> DEFINE c == Chosen(s)
      <3>1. s \in SUBSET S /\ IsFiniteSet(s) /\ c \in s
        BY <1>0, ChosenLeaves DEF Small
      <3>2. Sum(f, s) = f[c] + Sum(f, s \ {c})
        BY <3>1, SumUnfolds
      <3>3. s \ {c} \in Small(S, n)
        BY <1>0, <3>1, ChosenLeaves DEF Small
      <3>4. s \ {x} \in Small(S, n)
        BY <1>0, <3>1, FS_RemoveElement DEF Small
      <3> HIDE DEF c
      <3>5. CASE x = c
        BY <3>2, <3>5
      <3>6. CASE x # c
        <4>1. x \in s \ {c} /\ c \in s \ {x}
          BY <3>1, <3>6
        <4>2. Sum(f, s \ {c}) = f[x] + Sum(f, (s \ {c}) \ {x})
          BY <3>3, <4>1
        <4>3. Sum(f, s \ {x}) = f[c] + Sum(f, (s \ {x}) \ {c})
          BY <3>4, <4>1
        <4>4. Sum(f, (s \ {c}) \ {x}) = Sum(f, (s \ {x}) \ {c})
          <5>1. (s \ {c}) \ {x} = (s \ {x}) \ {c}
            OBVIOUS
          <5> QED
            BY <5>1, Zenon
        <4>5. Sum(f, (s \ {c}) \ {x}) \in Nat /\ f[x] \in Nat /\ f[c] \in Nat
          BY <1>0, <3>1
        <4>6. \A a, b \in Nat, r \in Nat : a + (b + r) = b + (a + r)
          OBVIOUS
        <4> HIDE DEF N
        <4> QED
          BY <3>2, <4>2, <4>3, <4>4, <4>5, <4>6
      <3> QED
        BY <3>5, <3>6
    <2>2. n + 1 \in Nat
      OBVIOUS
    <2> QED
      BY <2>1, <2>2
  <1>3. N = Nat
    <2> HIDE DEF N
    <2>1. N \in SUBSET Nat
      BY DEF N
    <2> QED
      BY <1>1, <1>2, <2>1, InductiveSet
  <1>4. Cardinality(S) \in N
    BY <1>0, <1>3
  <1>5. S \in Small(S, Cardinality(S))
    <2> HIDE DEF N
    <2> QED
      BY <1>0 DEF Small
  <1> QED
    BY <1>4, <1>5

\* The sum over a part is at most the sum over the whole.
LEMMA SumMonotone ==
    ASSUME NEW f, NEW S, IsFiniteSet(S), \A x \in S : f[x] \in Nat, NEW T \in SUBSET S
    PROVE  Sum(f, T) <= Sum(f, S)
  <1> DEFINE N == {n \in Nat : \A s \in Small(S, n) : T \subseteq s => Sum(f, T) <= Sum(f, s)}
  <1>0. \A s \in SUBSET S : IsFiniteSet(s) /\ Cardinality(s) \in Nat /\ Sum(f, s) \in Nat
    BY FS_Subset, FS_CardinalityType, SumType
  <1>1. 0 \in N
    <2>1. \A s \in Small(S, 0) : s = {}
      BY <1>0, FS_EmptySet DEF Small
    <2>2. \A s \in Small(S, 0) : T \subseteq s => Sum(f, T) <= Sum(f, s)
      <3> SUFFICES ASSUME NEW s \in Small(S, 0), T \subseteq s PROVE Sum(f, T) <= Sum(f, s)
        OBVIOUS
      <3>1. s = T
        BY <2>1
      <3> QED
        BY <1>0, <3>1
    <2> QED
      BY <2>2
  <1>2. ASSUME NEW n \in N PROVE n + 1 \in N
    <2>1. ASSUME NEW s \in Small(S, n + 1), T \subseteq s PROVE Sum(f, T) <= Sum(f, s)
      <3>1. s \in SUBSET S
        BY DEF Small
      <3>2. CASE T = s
        BY <1>0, <3>2
      <3>3. CASE T # s
        <4>1. PICK x \in s : x \notin T
          BY <2>1, <3>3
        <4>2. s \ {x} \in Small(S, n) /\ T \subseteq s \ {x}
          BY <1>0, <2>1, <3>1, <4>1, FS_RemoveElement DEF Small
        <4>3. Sum(f, T) <= Sum(f, s \ {x})
          BY <4>2
        <4>4. Sum(f, s) = f[x] + Sum(f, s \ {x})
          BY <1>0, <3>1, SumSplit
        <4>5. Sum(f, s \ {x}) \in Nat /\ f[x] \in Nat /\ Sum(f, T) \in Nat
          BY <1>0, <3>1
        <4> QED
          BY <4>3, <4>4, <4>5
      <3> QED
        BY <3>2, <3>3
    <2>2. n + 1 \in Nat
      OBVIOUS
    <2> QED
      BY <2>1, <2>2
  <1>3. N = Nat
    <2> HIDE DEF N
    <2>1. N \in SUBSET Nat
      BY DEF N
    <2> QED
      BY <1>1, <1>2, <2>1, InductiveSet
  <1>4. Cardinality(S) \in N
    BY <1>0, <1>3
  <1>5. S \in Small(S, Cardinality(S))
    <2> HIDE DEF N
    <2> QED
      BY <1>0 DEF Small
  <1> QED
    BY <1>4, <1>5

\* Adding an element that was not there adds its value.
LEMMA SumAdd ==
    ASSUME NEW f, NEW S, IsFiniteSet(S), NEW y, y \notin S,
           \A x \in S \cup {y} : f[x] \in Nat
    PROVE  Sum(f, S \cup {y}) = f[y] + Sum(f, S)
  <1>1. IsFiniteSet(S \cup {y})
    BY FS_AddElement
  <1>2. (S \cup {y}) \ {y} = S
    OBVIOUS
  <1> QED
    BY <1>1, <1>2, SumSplit

\* A sum of values that are nowhere greater is not greater.
LEMMA SumPointwise ==
    ASSUME NEW f, NEW g, NEW S, IsFiniteSet(S),
           \A x \in S : f[x] \in Nat /\ g[x] \in Nat /\ f[x] <= g[x]
    PROVE  Sum(f, S) <= Sum(g, S)
  <1> DEFINE N == {n \in Nat : \A s \in Small(S, n) : Sum(f, s) <= Sum(g, s)}
  <1>0. \A s \in SUBSET S : /\ IsFiniteSet(s) /\ Cardinality(s) \in Nat
                            /\ Sum(f, s) \in Nat /\ Sum(g, s) \in Nat
    BY FS_Subset, FS_CardinalityType, SumType
  <1>1. 0 \in N
    <2>1. \A s \in Small(S, 0) : s = {}
      BY <1>0, FS_EmptySet DEF Small
    <2>2. \A s \in Small(S, 0) : Sum(f, s) = 0 /\ Sum(g, s) = 0
      BY <2>1, FS_EmptySet, SumUnfolds
    <2> QED
      BY <2>2
  <1>2. ASSUME NEW n \in N PROVE n + 1 \in N
    <2>1. ASSUME NEW s \in Small(S, n + 1) PROVE Sum(f, s) <= Sum(g, s)
      <3>1. s \in SUBSET S
        BY DEF Small
      <3>2. CASE s = {}
        <4>1. Sum(f, s) = 0 /\ Sum(g, s) = 0
          BY <3>2, FS_EmptySet, SumUnfolds
        <4> QED
          BY <4>1
      <3>3. CASE s # {}
        <4>1. PICK x \in s : TRUE
          BY <3>3
        <4>2. s \ {x} \in Small(S, n)
          BY <1>0, <3>1, <4>1, FS_RemoveElement DEF Small
        <4>3. Sum(f, s \ {x}) <= Sum(g, s \ {x})
          BY <4>2
        <4>4. Sum(f, s) = f[x] + Sum(f, s \ {x})
          BY <1>0, <3>1, SumSplit
        <4>5. Sum(g, s) = g[x] + Sum(g, s \ {x})
          BY <1>0, <3>1, SumSplit
        <4>6. /\ Sum(f, s \ {x}) \in Nat /\ Sum(g, s \ {x}) \in Nat
              /\ f[x] \in Nat /\ g[x] \in Nat /\ f[x] <= g[x]
          BY <1>0, <3>1
        <4> QED
          BY <4>3, <4>4, <4>5, <4>6
      <3> QED
        BY <3>2, <3>3
    <2>2. n + 1 \in Nat
      OBVIOUS
    <2> QED
      BY <2>1, <2>2
  <1>3. N = Nat
    <2> HIDE DEF N
    <2>1. N \in SUBSET Nat
      BY DEF N
    <2> QED
      BY <1>1, <1>2, <2>1, InductiveSet
  <1>4. Cardinality(S) \in N
    BY <1>0, <1>3
  <1>5. S \in Small(S, Cardinality(S))
    <2> HIDE DEF N
    <2> QED
      BY <1>0 DEF Small
  <1> QED
    BY <1>4, <1>5

=============================================================================
