----------------------------- MODULE SumLemmas -----------------------------
(***************************************************************************)
(* What the proofs need of the folds of the community modules: sums over   *)
(* finite sets, with which the counters of the system are compared, folds  *)
(* along a sequence, as the loops of the code are, and the line that       *)
(* sorting a finite set gives.  The sum of the community modules is a      *)
(* recursive function over the subsets of its set, which takes out one     *)
(* chosen element after another; the lemmas below say that it exists, that *)
(* the order does not matter, and how it changes with one element.         *)
(***************************************************************************)
EXTENDS Integers, FiniteSets, Functions, SequencesExt, FiniteSetTheorems,
        SequenceTheorems, WellFoundedInduction, TLAPS

-----------------------------------------------------------------------------
(* Induction, with a set in place of a predicate *)

\* A set of naturals that holds 0 and with each number the next one holds all:
\* its least exception would have to follow a member.
LEMMA Counting ==
  ASSUME NEW P, 0 \in P, \A n \in Nat : n \in P => n + 1 \in P
  PROVE  \A n \in Nat : n \in P
<1> DEFINE T == {n \in Nat : n \notin P}
<1>1. SUFFICES ASSUME T # {} PROVE FALSE
  OBVIOUS
<1>2. T \subseteq Nat
  OBVIOUS
<1>3. PICK m \in T : \A k \in T : <<k, m>> \notin OpToRel(<, Nat)
  BY <1>1, <1>2, WFMin, NatLessThanWellFounded, Zenon
<1>4. \A k \in T : ~(k < m)
  BY <1>2, <1>3, Zenon DEF OpToRel
<1>5. m \in Nat /\ m \notin P /\ m # 0
  OBVIOUS
<1>6. m - 1 \in Nat /\ m - 1 < m /\ (m - 1) + 1 = m
  BY <1>5
<1>7. m - 1 \in P
  BY <1>4, <1>6
<1> QED
  BY <1>5, <1>6, <1>7

\* A finite set less one of its elements.
LEMMA OneLess ==
  ASSUME NEW S, IsFiniteSet(S), NEW x \in S
  PROVE  /\ IsFiniteSet(S \ {x})
         /\ Cardinality(S) \in Nat
         /\ Cardinality(S \ {x}) \in Nat
         /\ Cardinality(S) = Cardinality(S \ {x}) + 1
<1>1. IsFiniteSet(S \ {x}) /\ Cardinality(S \ {x}) = Cardinality(S) - 1
  BY FS_RemoveElement
<1>2. Cardinality(S) \in Nat /\ Cardinality(S \ {x}) \in Nat
  BY <1>1, FS_CardinalityType
<1> QED
  BY <1>1, <1>2

-----------------------------------------------------------------------------
(* The recursion that adds up f *)

Turn(f, iter, s) == IF s = {} THEN 0
                    ELSE LET x == CHOOSE x \in s : TRUE IN f[x] + iter[s \ {x}]

IsIter(iter, f, S) == iter = [s \in SUBSET S |-> Turn(f, iter, s)]

\* The sum is what the recursion gives for the whole set.
LEMMA SumDef ==
  ASSUME NEW f, NEW S
  PROVE  SumFunctionOnSet(f, S) = (CHOOSE iter : IsIter(iter, f, S))[S]
BY DEF SumFunctionOnSet, FoldFunctionOnSet, MapThenFoldSet, Turn, IsIter

\* The recursion has a result: one size of subsets after the other.
LEMMA IterExists ==
  ASSUME NEW f, NEW S, IsFiniteSet(S)
  PROVE  \E iter : IsIter(iter, f, S)
<1> DEFINE Level(n) == {s \in SUBSET S : Cardinality(s) <= n}
           P == {n \in Nat : \E g : g = [s \in Level(n) |-> Turn(f, g, s)]}
<1>f. ASSUME NEW s \in SUBSET S
      PROVE  IsFiniteSet(s) /\ Cardinality(s) \in Nat /\ Cardinality(s) <= Cardinality(S)
  BY FS_Subset, FS_CardinalityType
<1>1. 0 \in P
  <2> DEFINE g == [s \in Level(0) |-> 0]
  <2>1. \A s \in Level(0) : s = {}
    BY <1>f, FS_EmptySet
  <2>2. g = [s \in Level(0) |-> Turn(f, g, s)]
    BY <2>1 DEF Turn
  <2> QED
    BY <2>2
<1>2. ASSUME NEW n \in Nat, n \in P PROVE n + 1 \in P
  <2>1. PICK g : g = [s \in Level(n) |-> Turn(f, g, s)]
    BY <1>2
  <2> DEFINE h == [s \in Level(n + 1) |-> Turn(f, g, s)]
  <2>2. \A s \in Level(n) : s \in Level(n + 1)
    BY <1>f
  <2>3. \A s \in Level(n) : h[s] = g[s]
    BY <2>1, <2>2
  <2>4. ASSUME NEW s \in Level(n + 1), s # {}
        PROVE  s \ {CHOOSE x \in s : TRUE} \in Level(n)
    <3> DEFINE x == CHOOSE x \in s : TRUE
    <3>1. x \in s
      BY <2>4
    <3> HIDE DEF x
    <3>2. IsFiniteSet(s)
      BY <1>f
    <3>3. Cardinality(s) = Cardinality(s \ {x}) + 1 /\ Cardinality(s \ {x}) \in Nat
      BY <3>1, <3>2, OneLess
    <3>4. s \ {x} \in Level(n)
      BY <3>3
    <3> QED
      BY <3>4 DEF x
  <2> HIDE DEF h, Level
  <2>5. \A s \in Level(n + 1) : Turn(f, h, s) = Turn(f, g, s)
    BY <2>3, <2>4 DEF Turn
  <2>6. h = [s \in Level(n + 1) |-> Turn(f, h, s)]
    BY <2>5 DEF h
  <2> QED
    BY <2>6
<1> HIDE DEF P
<1>3. Cardinality(S) \in P
  BY <1>1, <1>2, <1>f, Counting
<1>4. Level(Cardinality(S)) = SUBSET S
  BY <1>f
<1> QED
  BY <1>3, <1>4 DEF P, IsIter

\* Two recursions agree on the sets on which what they add up agrees.
LEMMA IterUnique ==
  ASSUME NEW a, NEW f, NEW S, IsIter(a, f, S),
         NEW b, NEW g, NEW T, IsIter(b, g, T),
         NEW U, IsFiniteSet(U), U \subseteq S, U \subseteq T,
         \A x \in U : f[x] = g[x]
  PROVE  a[U] = b[U]
<1> DEFINE P == {n \in Nat : \A s \in SUBSET U : Cardinality(s) = n => a[s] = b[s]}
<1>f. ASSUME NEW s \in SUBSET U PROVE IsFiniteSet(s) /\ Cardinality(s) \in Nat
  BY FS_Subset, FS_CardinalityType
<1>a. ASSUME NEW s \in SUBSET U PROVE a[s] = Turn(f, a, s) /\ b[s] = Turn(g, b, s)
  BY DEF IsIter
<1>1. 0 \in P
  BY <1>f, <1>a, FS_EmptySet DEF Turn
<1>2. ASSUME NEW n \in Nat, n \in P PROVE n + 1 \in P
  <2>1. ASSUME NEW s \in SUBSET U, Cardinality(s) = n + 1 PROVE a[s] = b[s]
    <3> DEFINE x == CHOOSE x \in s : TRUE
    <3>1. s # {}
      BY <2>1, FS_EmptySet
    <3>2. x \in s
      BY <3>1
    <3>3. a[s] = f[x] + a[s \ {x}] /\ b[s] = g[x] + b[s \ {x}]
      BY <1>a, <3>1 DEF Turn
    <3> HIDE DEF x
    <3>4. Cardinality(s \ {x}) = n
      BY <1>f, <2>1, <3>2, OneLess
    <3>5. a[s \ {x}] = b[s \ {x}]
      BY <1>2, <3>4
    <3> QED
      BY <3>2, <3>3, <3>5
  <2> QED
    BY <2>1
<1> HIDE DEF P
<1>3. Cardinality(U) \in P
  BY <1>1, <1>2, <1>f, Counting
<1> QED
  BY <1>3 DEF P

-----------------------------------------------------------------------------
(* Sums *)

\* The sum over a finite set, by any of its recursions.
LEMMA SumIs ==
  ASSUME NEW f, NEW S, IsFiniteSet(S)
  PROVE  \E iter : IsIter(iter, f, S) /\ SumFunctionOnSet(f, S) = iter[S]
BY IterExists, SumDef

\* What lies outside the set does not matter.
LEMMA SumSame ==
  ASSUME NEW f, NEW g, NEW S, IsFiniteSet(S), \A x \in S : f[x] = g[x]
  PROVE  SumFunctionOnSet(f, S) = SumFunctionOnSet(g, S)
<1>1. PICK a : IsIter(a, f, S) /\ SumFunctionOnSet(f, S) = a[S]
  BY SumIs
<1>2. PICK b : IsIter(b, g, S) /\ SumFunctionOnSet(g, S) = b[S]
  BY SumIs
<1> QED
  BY <1>1, <1>2, IterUnique

\* Nothing sums up to 0.
LEMMA SumEmpty ==
  ASSUME NEW f
  PROVE  SumFunctionOnSet(f, {}) = 0
<1>1. PICK a : IsIter(a, f, {}) /\ SumFunctionOnSet(f, {}) = a[{}]
  BY SumIs, FS_EmptySet
<1> QED
  BY <1>1 DEF IsIter, Turn

\* The chosen element comes first.
LEMMA SumChosen ==
  ASSUME NEW f, NEW S, IsFiniteSet(S), S # {}
  PROVE  LET x == CHOOSE x \in S : TRUE
         IN  SumFunctionOnSet(f, S) = f[x] + SumFunctionOnSet(f, S \ {x})
<1> DEFINE x == CHOOSE x \in S : TRUE
<1>1. x \in S
  OBVIOUS
<1>2. IsFiniteSet(S \ {x})
  BY <1>1, OneLess
<1>3. PICK a : IsIter(a, f, S) /\ SumFunctionOnSet(f, S) = a[S]
  BY SumIs
<1>4. PICK b : IsIter(b, f, S \ {x}) /\ SumFunctionOnSet(f, S \ {x}) = b[S \ {x}]
  BY <1>2, SumIs
<1>5. a[S] = f[x] + a[S \ {x}]
  BY <1>3 DEF IsIter, Turn
<1>6. a[S \ {x}] = b[S \ {x}]
  BY <1>2, <1>3, <1>4, IterUnique
<1> QED
  BY <1>3, <1>4, <1>5, <1>6

\* A sum of integers is one.
LEMMA SumType ==
  ASSUME NEW f, NEW S, IsFiniteSet(S), \A x \in S : f[x] \in Int
  PROVE  SumFunctionOnSet(f, S) \in Int
<1> DEFINE P == {n \in Nat : \A s \in SUBSET S :
                   Cardinality(s) = n => SumFunctionOnSet(f, s) \in Int}
<1>f. ASSUME NEW s \in SUBSET S PROVE IsFiniteSet(s) /\ Cardinality(s) \in Nat
  BY FS_Subset, FS_CardinalityType
<1>1. 0 \in P
  BY <1>f, FS_EmptySet, SumEmpty
<1>2. ASSUME NEW n \in Nat, n \in P PROVE n + 1 \in P
  <2>1. ASSUME NEW s \in SUBSET S, Cardinality(s) = n + 1
        PROVE  SumFunctionOnSet(f, s) \in Int
    <3> DEFINE x == CHOOSE x \in s : TRUE
    <3>1. s # {}
      BY <2>1, FS_EmptySet
    <3>2. x \in s
      BY <3>1
    <3>3. SumFunctionOnSet(f, s) = f[x] + SumFunctionOnSet(f, s \ {x})
      BY <1>f, <3>1, SumChosen
    <3> HIDE DEF x
    <3>4. Cardinality(s \ {x}) = n
      BY <1>f, <2>1, <3>2, OneLess
    <3>5. SumFunctionOnSet(f, s \ {x}) \in Int
      BY <1>2, <3>4
    <3> QED
      BY <3>2, <3>3, <3>5
  <2> QED
    BY <2>1
<1> HIDE DEF P
<1>3. Cardinality(S) \in P
  BY <1>1, <1>2, <1>f, Counting
<1> QED
  BY <1>3 DEF P

\* The order does not matter: any element may come first.
LEMMA SumRemove ==
  ASSUME NEW f, NEW S, IsFiniteSet(S), \A x \in S : f[x] \in Int, NEW x \in S
  PROVE  SumFunctionOnSet(f, S) = f[x] + SumFunctionOnSet(f, S \ {x})
<1> DEFINE P == {n \in Nat : \A s \in SUBSET S : Cardinality(s) = n =>
                   \A y \in s : SumFunctionOnSet(f, s) = f[y] + SumFunctionOnSet(f, s \ {y})}
<1>f. ASSUME NEW s \in SUBSET S PROVE IsFiniteSet(s) /\ Cardinality(s) \in Nat
  BY FS_Subset, FS_CardinalityType
<1>1. 0 \in P
  BY <1>f, FS_EmptySet
<1>2. ASSUME NEW n \in Nat, n \in P PROVE n + 1 \in P
  <2>1. ASSUME NEW s \in SUBSET S, Cardinality(s) = n + 1, NEW y \in s
        PROVE  SumFunctionOnSet(f, s) = f[y] + SumFunctionOnSet(f, s \ {y})
    <3> DEFINE c == CHOOSE c \in s : TRUE
    <3>1. c \in s /\ SumFunctionOnSet(f, s) = f[c] + SumFunctionOnSet(f, s \ {c})
      BY <1>f, SumChosen
    <3> HIDE DEF c
    <3>2. CASE y = c
      BY <3>1, <3>2
    <3>3. CASE y # c
      <4>1. Cardinality(s \ {c}) = n /\ Cardinality(s \ {y}) = n
        BY <1>f, <2>1, <3>1, OneLess
      <4>2. SumFunctionOnSet(f, s \ {c}) = f[y] + SumFunctionOnSet(f, (s \ {c}) \ {y})
        BY <1>2, <3>3, <4>1
      <4>3. SumFunctionOnSet(f, s \ {y}) = f[c] + SumFunctionOnSet(f, (s \ {y}) \ {c})
        BY <1>2, <3>1, <3>3, <4>1
      <4>4. (s \ {c}) \ {y} = (s \ {y}) \ {c}
        OBVIOUS
      <4>5. PICK r : r = SumFunctionOnSet(f, (s \ {y}) \ {c})
        OBVIOUS
      <4>6. r \in Int
        BY <1>f, <4>5, SumType
      <4>7. f[c] \in Int /\ f[y] \in Int
        BY <3>1
      <4>8. f[c] + (f[y] + r) = f[y] + (f[c] + r)
        BY <4>6, <4>7
      <4> QED
        BY <3>1, <4>2, <4>3, <4>4, <4>5, <4>8
    <3> QED
      BY <3>2, <3>3
  <2> QED
    BY <2>1
<1> HIDE DEF P
<1>3. Cardinality(S) \in P
  BY <1>1, <1>2, <1>f, Counting
<1> QED
  BY <1>3 DEF P

\* An element more.
LEMMA SumAdd ==
  ASSUME NEW f, NEW S, IsFiniteSet(S), NEW x, x \notin S, \A y \in S \cup {x} : f[y] \in Int
  PROVE  SumFunctionOnSet(f, S \cup {x}) = SumFunctionOnSet(f, S) + f[x]
<1>1. IsFiniteSet(S \cup {x}) /\ (S \cup {x}) \ {x} = S
  BY FS_AddElement
<1>2. SumFunctionOnSet(f, S \cup {x}) = f[x] + SumFunctionOnSet(f, S)
  BY <1>1, SumRemove
<1>3. \A y \in S : f[y] \in Int
  OBVIOUS
<1>4. SumFunctionOnSet(f, S) \in Int
  BY <1>3, SumType
<1>5. f[x] \in Int
  OBVIOUS
<1> QED
  BY <1>2, <1>4, <1>5

\* One value changes.
LEMMA SumChange ==
  ASSUME NEW f, NEW g, NEW S, IsFiniteSet(S), NEW x \in S,
         \A y \in S : f[y] \in Int /\ g[y] \in Int,
         \A y \in S \ {x} : g[y] = f[y]
  PROVE  SumFunctionOnSet(g, S) = SumFunctionOnSet(f, S) - f[x] + g[x]
<1>1. SumFunctionOnSet(f, S) = f[x] + SumFunctionOnSet(f, S \ {x})
  BY SumRemove
<1>2. SumFunctionOnSet(g, S) = g[x] + SumFunctionOnSet(g, S \ {x})
  BY SumRemove
<1>3. IsFiniteSet(S \ {x})
  BY OneLess
<1>4. SumFunctionOnSet(f, S \ {x}) = SumFunctionOnSet(g, S \ {x})
  BY <1>3, SumSame
<1>5. SumFunctionOnSet(f, S \ {x}) \in Int
  BY <1>3, SumType
<1> QED
  BY <1>1, <1>2, <1>4, <1>5

\* One value changes, whether it counts in the sum or not.
LEMMA SumMoves ==
  ASSUME NEW f, NEW g, NEW S, IsFiniteSet(S), NEW x,
         \A y \in S : f[y] \in Int /\ g[y] \in Int,
         \A y \in S : y # x => g[y] = f[y]
  PROVE  SumFunctionOnSet(g, S)
           = SumFunctionOnSet(f, S) + (IF x \in S THEN g[x] - f[x] ELSE 0)
<1>1. SumFunctionOnSet(f, S) \in Int
  BY SumType
<1>2. CASE x \in S
  <2>1. \A y \in S \ {x} : g[y] = f[y]
    OBVIOUS
  <2>2. SumFunctionOnSet(g, S) = SumFunctionOnSet(f, S) - f[x] + g[x]
    BY <1>2, <2>1, SumChange
  <2> QED
    BY <1>1, <1>2, <2>2
<1>3. CASE x \notin S
  <2>1. \A y \in S : g[y] = f[y]
    BY <1>3
  <2>2. SumFunctionOnSet(g, S) = SumFunctionOnSet(f, S)
    BY <2>1, SumSame
  <2> QED
    BY <1>1, <1>3, <2>2
<1> QED
  BY <1>2, <1>3

\* A sum of naturals is one, and none of them is more than the sum.
LEMMA SumNat ==
  ASSUME NEW f, NEW S, IsFiniteSet(S), \A x \in S : f[x] \in Nat
  PROVE  /\ SumFunctionOnSet(f, S) \in Nat
         /\ \A x \in S : f[x] <= SumFunctionOnSet(f, S)
<1> DEFINE P == {n \in Nat : \A s \in SUBSET S :
                   Cardinality(s) = n => SumFunctionOnSet(f, s) \in Nat}
<1>f. ASSUME NEW s \in SUBSET S PROVE IsFiniteSet(s) /\ Cardinality(s) \in Nat
  BY FS_Subset, FS_CardinalityType
<1>1. 0 \in P
  BY <1>f, FS_EmptySet, SumEmpty
<1>2. ASSUME NEW n \in Nat, n \in P PROVE n + 1 \in P
  <2>1. ASSUME NEW s \in SUBSET S, Cardinality(s) = n + 1
        PROVE  SumFunctionOnSet(f, s) \in Nat
    <3>1. PICK x \in s : TRUE
      BY <2>1, FS_EmptySet
    <3>2. SumFunctionOnSet(f, s) = f[x] + SumFunctionOnSet(f, s \ {x})
      BY <1>f, SumRemove
    <3>3. Cardinality(s \ {x}) = n
      BY <1>f, <2>1, OneLess
    <3>4. SumFunctionOnSet(f, s \ {x}) \in Nat /\ f[x] \in Nat
      BY <1>2, <3>3
    <3> QED
      BY <3>2, <3>4
  <2> QED
    BY <2>1
<1> HIDE DEF P
<1>3. \A n \in Nat : n \in P
  BY <1>1, <1>2, Counting
<1>4. \A s \in SUBSET S : SumFunctionOnSet(f, s) \in Nat
  BY <1>3, <1>f DEF P
<1>5. ASSUME NEW x \in S PROVE f[x] <= SumFunctionOnSet(f, S)
  <2>1. SumFunctionOnSet(f, S) = f[x] + SumFunctionOnSet(f, S \ {x})
    BY SumRemove
  <2> QED
    BY <1>4, <2>1
<1> QED
  BY <1>4, <1>5

\* Zeros add up to 0.
LEMMA SumZero ==
  ASSUME NEW f, NEW S, IsFiniteSet(S), \A x \in S : f[x] = 0
  PROVE  SumFunctionOnSet(f, S) = 0
<1> DEFINE P == {n \in Nat : \A s \in SUBSET S :
                   Cardinality(s) = n => SumFunctionOnSet(f, s) = 0}
<1>f. ASSUME NEW s \in SUBSET S PROVE IsFiniteSet(s) /\ Cardinality(s) \in Nat
  BY FS_Subset, FS_CardinalityType
<1>1. 0 \in P
  BY <1>f, FS_EmptySet, SumEmpty
<1>2. ASSUME NEW n \in Nat, n \in P PROVE n + 1 \in P
  <2>1. ASSUME NEW s \in SUBSET S, Cardinality(s) = n + 1
        PROVE  SumFunctionOnSet(f, s) = 0
    <3>1. PICK x \in s : TRUE
      BY <2>1, FS_EmptySet
    <3>2. \A y \in s : f[y] \in Int
      OBVIOUS
    <3>3. SumFunctionOnSet(f, s) = f[x] + SumFunctionOnSet(f, s \ {x})
      BY <1>f, <3>2, SumRemove
    <3>4. Cardinality(s \ {x}) = n
      BY <1>f, <2>1, OneLess
    <3>5. SumFunctionOnSet(f, s \ {x}) = 0
      BY <1>2, <3>4
    <3> QED
      BY <3>1, <3>3, <3>5
  <2> QED
    BY <2>1
<1> HIDE DEF P
<1>3. Cardinality(S) \in P
  BY <1>1, <1>2, <1>f, Counting
<1> QED
  BY <1>3 DEF P

\* A part and the rest.
LEMMA SumApart ==
  ASSUME NEW f, NEW S, IsFiniteSet(S), \A x \in S : f[x] \in Int, NEW D \in SUBSET S
  PROVE  SumFunctionOnSet(f, S) = SumFunctionOnSet(f, S \ D) + SumFunctionOnSet(f, D)
<1> DEFINE P == {n \in Nat : \A d \in SUBSET S : Cardinality(d) = n =>
                   SumFunctionOnSet(f, S) = SumFunctionOnSet(f, S \ d) + SumFunctionOnSet(f, d)}
<1>f. ASSUME NEW d \in SUBSET S
      PROVE  /\ IsFiniteSet(d) /\ IsFiniteSet(S \ d) /\ Cardinality(d) \in Nat
             /\ SumFunctionOnSet(f, d) \in Int /\ SumFunctionOnSet(f, S \ d) \in Int
  <2>1. IsFiniteSet(d) /\ IsFiniteSet(S \ d)
    BY FS_Subset
  <2>2. SumFunctionOnSet(f, d) \in Int
    BY <2>1, SumType
  <2>3. SumFunctionOnSet(f, S \ d) \in Int
    BY <2>1, SumType
  <2> QED
    BY <2>1, <2>2, <2>3, FS_CardinalityType
<1>1. 0 \in P
  <2>1. ASSUME NEW d \in SUBSET S, Cardinality(d) = 0
        PROVE  SumFunctionOnSet(f, S) = SumFunctionOnSet(f, S \ d) + SumFunctionOnSet(f, d)
    <3>1. d = {} /\ S \ d = S
      BY <1>f, <2>1, FS_EmptySet
    <3>2. SumFunctionOnSet(f, d) = 0
      BY <3>1, SumEmpty
    <3>3. SumFunctionOnSet(f, S \ d) = SumFunctionOnSet(f, S)
      BY <3>1
    <3> QED
      BY <1>f, <3>2, <3>3
  <2> QED
    BY <2>1
<1>2. ASSUME NEW n \in Nat, n \in P PROVE n + 1 \in P
  <2>1. ASSUME NEW d \in SUBSET S, Cardinality(d) = n + 1
        PROVE  SumFunctionOnSet(f, S) = SumFunctionOnSet(f, S \ d) + SumFunctionOnSet(f, d)
    <3>1. PICK x \in d : TRUE
      BY <2>1, FS_EmptySet
    <3>2. PICK e \in SUBSET S : e = d \ {x}
      OBVIOUS
    <3>3. Cardinality(e) = n
      <4>1. IsFiniteSet(d) /\ x \in d
        BY <1>f, <3>1
      <4>2. Cardinality(d) = Cardinality(d \ {x}) + 1 /\ Cardinality(d \ {x}) \in Nat
        BY <4>1, OneLess
      <4> QED
        BY <2>1, <3>2, <4>2
    <3>4. SumFunctionOnSet(f, S) = SumFunctionOnSet(f, S \ e) + SumFunctionOnSet(f, e)
      BY <1>2, <3>3
    <3>5. SumFunctionOnSet(f, d) = f[x] + SumFunctionOnSet(f, d \ {x})
      <4>1. IsFiniteSet(d) /\ x \in d /\ \A y \in d : f[y] \in Int
        BY <1>f, <3>1
      <4> QED
        BY <4>1, SumRemove
    <3>6. SumFunctionOnSet(f, S \ e) = f[x] + SumFunctionOnSet(f, (S \ e) \ {x})
      <4>1. PICK r : r = S \ e
        OBVIOUS
      <4>2. IsFiniteSet(r) /\ x \in r /\ \A y \in r : f[y] \in Int
        BY <1>f, <3>1, <3>2, <4>1
      <4>3. SumFunctionOnSet(f, r) = f[x] + SumFunctionOnSet(f, r \ {x})
        BY <4>2, SumRemove
      <4> QED
        BY <4>1, <4>3
    <3>7. (S \ e) \ {x} = S \ d
      BY <3>1, <3>2
    <3>8. SumFunctionOnSet(f, (S \ e) \ {x}) = SumFunctionOnSet(f, S \ d)
      BY <3>7
    <3>9. f[x] \in Int
      BY <3>1
    <3> QED
      BY <1>f, <3>2, <3>4, <3>5, <3>6, <3>8, <3>9
  <2> QED
    BY <2>1
<1> HIDE DEF P
<1>3. Cardinality(D) \in P
  BY <1>1, <1>2, <1>f, Counting
<1> QED
  BY <1>3 DEF P

-----------------------------------------------------------------------------
(* The sum of all values of a function *)

\* Whole numbers add up to one, naturals to one that none of them exceeds.
LEMMA TotalType ==
  ASSUME NEW f, IsFiniteSet(DOMAIN f), \A x \in DOMAIN f : f[x] \in Int
  PROVE  SumFunction(f) \in Int
BY SumType DEF SumFunction

LEMMA TotalNat ==
  ASSUME NEW f, IsFiniteSet(DOMAIN f), \A x \in DOMAIN f : f[x] \in Nat
  PROVE  /\ SumFunction(f) \in Nat
         /\ \A x \in DOMAIN f : f[x] <= SumFunction(f)
BY SumNat DEF SumFunction

LEMMA TotalEmpty == ASSUME NEW f, DOMAIN f = {} PROVE SumFunction(f) = 0
BY SumEmpty DEF SumFunction

LEMMA TotalZero ==
  ASSUME NEW f, IsFiniteSet(DOMAIN f), \A x \in DOMAIN f : f[x] = 0
  PROVE  SumFunction(f) = 0
BY SumZero DEF SumFunction

\* One value changes.
LEMMA TotalChange ==
  ASSUME NEW f, NEW g, NEW x, DOMAIN g = DOMAIN f, x \in DOMAIN f, IsFiniteSet(DOMAIN f),
         \A y \in DOMAIN f : f[y] \in Int,
         g[x] \in Int,
         \A y \in DOMAIN f \ {x} : g[y] = f[y]
  PROVE  SumFunction(g) = SumFunction(f) - f[x] + g[x]
<1>1. \A y \in DOMAIN f : f[y] \in Int /\ g[y] \in Int
  OBVIOUS
<1> QED
  BY <1>1, SumChange DEF SumFunction

\* A value more.
LEMMA TotalMore ==
  ASSUME NEW f, NEW g, NEW x, x \notin DOMAIN f, DOMAIN g = DOMAIN f \cup {x},
         IsFiniteSet(DOMAIN f), \A y \in DOMAIN f : f[y] \in Int,
         g[x] \in Int,
         \A y \in DOMAIN f : g[y] = f[y]
  PROVE  SumFunction(g) = SumFunction(f) + g[x]
<1>1. \A y \in DOMAIN f \cup {x} : g[y] \in Int
  OBVIOUS
<1>2. SumFunctionOnSet(g, DOMAIN f \cup {x}) = SumFunctionOnSet(g, DOMAIN f) + g[x]
  BY <1>1, SumAdd
<1>3. SumFunctionOnSet(g, DOMAIN f) = SumFunctionOnSet(f, DOMAIN f)
  BY SumSame
<1> QED
  BY <1>2, <1>3 DEF SumFunction

\* The values of a sequence, and one more.
LEMMA SumUpTo ==
  ASSUME NEW f, NEW n \in Nat, \A i \in 1 .. (n + 1) : f[i] \in Int
  PROVE  SumFunctionOnSet(f, 1 .. (n + 1)) = SumFunctionOnSet(f, 1 .. n) + f[n + 1]
<1>1. PICK S : S = 1 .. n
  OBVIOUS
<1>2. PICK x : x = n + 1
  OBVIOUS
<1>3. /\ 1 .. (n + 1) = S \cup {x}
      /\ x \notin S
  BY <1>1, <1>2
<1>4. IsFiniteSet(S)
  BY <1>1, FS_Interval
<1>5. SumFunctionOnSet(f, S \cup {x}) = SumFunctionOnSet(f, S) + f[x]
  BY <1>3, <1>4, SumAdd
<1> QED
  BY <1>1, <1>2, <1>3, <1>5

\* The values of a sequence, without the first one.
LEMMA SumShift ==
  ASSUME NEW f, NEW g, NEW m \in Nat,
         \A i \in 1 .. (m + 1) : f[i] \in Int,
         \A i \in 1 .. m : g[i] = f[i + 1]
  PROVE  SumFunctionOnSet(f, 1 .. (m + 1)) = f[1] + SumFunctionOnSet(g, 1 .. m)
<1> DEFINE P == {n \in Nat : n <= m =>
                   SumFunctionOnSet(f, 1 .. (n + 1)) = f[1] + SumFunctionOnSet(g, 1 .. n)}
<1>f. ASSUME NEW n \in Nat PROVE IsFiniteSet(1 .. n)
  BY FS_Interval
<1>g. ASSUME NEW i \in 1 .. m PROVE g[i] \in Int
  BY <1>g
<1>1. 0 \in P
  <2>1. 1 .. 0 = {} /\ 1 .. 1 = {} \cup {1} /\ 1 .. (0 + 1) = 1 .. 1
    OBVIOUS
  <2>2. f[1] \in Int
    OBVIOUS
  <2>3. IsFiniteSet({})
    BY FS_EmptySet
  <2>4. SumFunctionOnSet(f, {} \cup {1}) = SumFunctionOnSet(f, {}) + f[1]
    BY <2>2, <2>3, SumAdd
  <2>5. SumFunctionOnSet(f, {}) = 0 /\ SumFunctionOnSet(g, {}) = 0
    BY SumEmpty
  <2>6. SumFunctionOnSet(f, 1 .. (0 + 1)) = f[1] + SumFunctionOnSet(g, 1 .. 0)
    BY <2>1, <2>2, <2>4, <2>5
  <2> QED
    BY <2>6
<1>2. ASSUME NEW n \in Nat, n \in P PROVE n + 1 \in P
  <2>1. ASSUME n + 1 <= m
        PROVE  SumFunctionOnSet(f, 1 .. ((n + 1) + 1)) = f[1] + SumFunctionOnSet(g, 1 .. (n + 1))
    <3>1. (n + 1) + 1 <= m + 1
      BY <2>1
    <3>2. \A i \in 1 .. ((n + 1) + 1) : f[i] \in Int
      BY <3>1
    <3>3. \A i \in 1 .. (n + 1) : g[i] \in Int
      BY <1>g, <2>1
    <3>4. IsFiniteSet(1 .. n)
      BY <1>f
    <3>5. SumFunctionOnSet(f, 1 .. ((n + 1) + 1))
            = SumFunctionOnSet(f, 1 .. (n + 1)) + f[(n + 1) + 1]
      BY <3>2, SumUpTo
    <3>6. SumFunctionOnSet(g, 1 .. (n + 1)) = SumFunctionOnSet(g, 1 .. n) + g[n + 1]
      BY <3>3, SumUpTo
    <3>7. SumFunctionOnSet(f, 1 .. (n + 1)) = f[1] + SumFunctionOnSet(g, 1 .. n)
      BY <1>2, <2>1
    <3>8. PICK s : s = SumFunctionOnSet(g, 1 .. n)
      OBVIOUS
    <3>9. s \in Int /\ f[1] \in Int /\ g[n + 1] \in Int
      BY <3>3, <3>4, <3>8, SumType
    <3>10. g[n + 1] = f[(n + 1) + 1]
      BY <2>1
    <3>11. (f[1] + s) + g[n + 1] = f[1] + (s + g[n + 1])
      BY <3>9
    <3> QED
      BY <3>5, <3>6, <3>7, <3>8, <3>10, <3>11
  <2> QED
    BY <2>1
<1> HIDE DEF P
<1>3. \A n \in Nat : n \in P
  BY <1>1, <1>2, Counting
<1> QED
  BY <1>3 DEF P
-----------------------------------------------------------------------------
(* Folds over a sequence.  FoldLeft is a recursion over the sets of indices, *)
(* which takes out the greatest one; step is the operator that is folded, as *)
(* a function on what it is applied to.                                      *)

\* The greatest of some indices is one of them.
LEMMA MaxOf ==
  ASSUME NEW n \in Nat, NEW s \in SUBSET (1 .. n), s # {}
  PROVE  Max(s) \in s /\ \A i \in s : Max(s) >= i
<1> DEFINE T == {m \in Nat : \A i \in s : m >= i}
<1>0. \A i \in s : i \in Nat /\ i <= n /\ i >= 1
  OBVIOUS
<1>1. PICK m \in T : \A k \in T : <<k, m>> \notin OpToRel(<, Nat)
  <2>1. n \in T /\ T \subseteq Nat
    BY <1>0
  <2> QED
    BY <2>1, WFMin, NatLessThanWellFounded, Zenon
<1>2. \A k \in T : ~(k < m)
  BY <1>1, Zenon DEF OpToRel
<1>t. m \in Nat /\ \A i \in s : m >= i
  OBVIOUS
<1>3. m \in s
  <2>1. SUFFICES ASSUME m \notin s PROVE FALSE
    OBVIOUS
  <2>2. PICK i : i \in s
    OBVIOUS
  <2>3. m - 1 \in Nat
    BY <1>0, <1>t, <2>2
  <2>4. \A j \in s : m - 1 >= j
    BY <1>0, <1>t, <2>1
  <2>5. m - 1 \in T
    BY <2>3, <2>4
  <2>6. m - 1 < m
    BY <1>t
  <2> QED
    BY <1>2, <2>5, <2>6
<1>4. \E x \in s : \A y \in s : x >= y
  BY <1>t, <1>3
<1> QED
  BY <1>4 DEF Max

LEMMA MinOf ==
  ASSUME NEW s \in SUBSET Nat, s # {}
  PROVE  Min(s) \in s /\ \A i \in s : Min(s) <= i
<1>1. PICK m \in s : \A k \in s : <<k, m>> \notin OpToRel(<, Nat)
  BY WFMin, NatLessThanWellFounded, Zenon
<1>2. \A k \in s : ~(k < m)
  BY <1>1, Zenon DEF OpToRel
<1>3. m \in s /\ \A k \in s : m <= k
  BY <1>2
<1> QED
  BY <1>3 DEF Min

LEMMA MaxUpTo ==
  ASSUME NEW n \in Nat, NEW i \in 1 .. n
  PROVE  Max(1 .. i) = i /\ (1 .. i) \ {i} = 1 .. (i - 1) /\ 1 .. i # {}
<1>1. 1 .. i \in SUBSET (1 .. n) /\ i \in 1 .. i
  OBVIOUS
<1>2. Max(1 .. i) \in 1 .. i /\ Max(1 .. i) >= i
  BY <1>1, MaxOf
<1> QED
  BY <1>2

FoldTurn(step, base, seq, iter, s) ==
  IF s = {} THEN base ELSE step[<<iter[s \ {Max(s)}], seq[Max(s)]>>]

\* What is folded: a step on accumulators and elements, a base and a sequence.
Folding(Acc, Elem, step, base, seq) ==
  step \in [Acc \X Elem -> Acc] /\ base \in Acc /\ seq \in Seq(Elem)

FoldOf(Acc, step, base, seq, iter) ==
  /\ iter \in [SUBSET DOMAIN seq -> Acc]
  /\ \A s \in SUBSET DOMAIN seq : iter[s] = FoldTurn(step, base, seq, iter, s)

\* A recursion that takes the step as long as it stays in the accumulators.
StepwiseFold(Acc, step, base, seq, iter) ==
  /\ iter[{}] = base
  /\ \A s \in SUBSET DOMAIN seq : s # {} /\ iter[s \ {Max(s)}] \in Acc =>
        iter[s] = step[<<iter[s \ {Max(s)}], seq[Max(s)]>>]

\* The values of such a recursion, one element after the other.
StepsOf(Acc, step, base, seq, iter, acc) ==
  /\ acc \in [0 .. Len(seq) -> Acc]
  /\ acc[0] = base
  /\ \A i \in 1 .. Len(seq) : acc[i] = step[<<acc[i - 1], seq[i]>>]
  /\ acc[Len(seq)] = iter[DOMAIN seq]

\* The recursion has a result, and each value of it is of the accumulators.
LEMMA FoldExists ==
  ASSUME NEW Acc, NEW Elem, NEW step, NEW base, NEW seq,
         Folding(Acc, Elem, step, base, seq)
  PROVE  \E iter : FoldOf(Acc, step, base, seq, iter)
<1>f. step \in [Acc \X Elem -> Acc] /\ base \in Acc /\ seq \in Seq(Elem)
  BY DEF Folding
<1> DEFINE n == Len(seq)
           Fits(m, g) == /\ g \in [SUBSET (1 .. m) -> Acc]
                         /\ \A s \in SUBSET (1 .. m) : g[s] = FoldTurn(step, base, seq, g, s)
           P == {m \in Nat : m <= n => \E g : Fits(m, g)}
<1>d. n \in Nat /\ DOMAIN seq = 1 .. n /\ \A i \in 1 .. n : seq[i] \in Elem
  BY <1>f, LenProperties, ElementOfSeq
<1> HIDE DEF n
<1>1. 0 \in P
  <2> DEFINE g == [s \in SUBSET (1 .. 0) |-> base]
  <2>1. \A s \in SUBSET (1 .. 0) : s = {}
    <3>1. \A i \in Int : ~(1 <= i /\ i <= 0)
      OBVIOUS
    <3>2. \A i : i \notin 1 .. 0
      BY <3>1
    <3> QED
      BY <3>2, Zenon
  <2>2. Fits(0, g)
    BY <1>f, <2>1 DEF FoldTurn
  <2> QED
    BY <2>2
<1>2. ASSUME NEW m \in Nat, m \in P PROVE m + 1 \in P
  <2> HIDE DEF Fits
  <2>1. SUFFICES ASSUME m + 1 <= n PROVE \E g : Fits(m + 1, g)
    OBVIOUS
  <2> USE DEF Fits
  <2>2. PICK g : Fits(m, g)
    <3>1. m <= n
      BY <1>d, <2>1
    <3> HIDE DEF Fits
    <3> QED
      BY <1>2, <3>1
  <2> DEFINE low(s) == s \cap (1 .. m)
             h == [s \in SUBSET (1 .. m + 1) |->
                     IF m + 1 \in s THEN step[<<g[low(s)], seq[m + 1]>>] ELSE g[low(s)]]
  <2>3. \A s \in SUBSET (1 .. m + 1) :
          /\ low(s) \in SUBSET (1 .. m)
          /\ m + 1 \notin s => low(s) = s
          /\ m + 1 \in s => s \ {m + 1} = low(s)
    <3>1. \A i : i \in 1 .. m + 1 <=> i \in 1 .. m \/ i = m + 1
      OBVIOUS
    <3>2. m + 1 \notin 1 .. m
      OBVIOUS
    <3> QED
      BY <3>1, <3>2
  <2>4. seq[m + 1] \in Elem
    BY <1>d, <2>1
  <2>5. h \in [SUBSET (1 .. m + 1) -> Acc]
    <3>1. \A s \in SUBSET (1 .. m + 1) : g[low(s)] \in Acc
      BY <2>2, <2>3
    <3>2. \A s \in SUBSET (1 .. m + 1) : <<g[low(s)], seq[m + 1]>> \in Acc \X Elem
      BY <3>1, <2>4
    <3> QED
      BY <1>f, <3>1, <3>2
  <2>6. ASSUME NEW s \in SUBSET (1 .. m + 1)
        PROVE  h[s] = FoldTurn(step, base, seq, h, s)
    <3>1. CASE m + 1 \in s
      <4>0. m + 1 \in Nat /\ s # {}
        BY <3>1
      <4>1. Max(s) \in s /\ \A i \in s : Max(s) >= i
        BY <4>0, MaxOf, Zenon
      <4>2. Max(s) = m + 1
        <5>1. Max(s) >= m + 1 /\ Max(s) \in 1 .. m + 1
          BY <3>1, <4>1
        <5> QED
          BY <5>1
      <4>3. h[low(s)] = g[low(s)]
        <5>1. low(s) \in SUBSET (1 .. m + 1) /\ m + 1 \notin low(s) /\ low(low(s)) = low(s)
          OBVIOUS
        <5> QED
          BY <5>1
      <4>4. h[s] = step[<<g[low(s)], seq[m + 1]>>]
        BY <3>1
      <4> QED
        BY <2>3, <3>1, <4>0, <4>2, <4>3, <4>4 DEF FoldTurn
    <3>2. CASE m + 1 \notin s
      <4>1. h[s] = g[s] /\ s \in SUBSET (1 .. m)
        BY <2>3, <3>2
      <4>2. g[s] = FoldTurn(step, base, seq, g, s)
        BY <2>2, <4>1
      <4>3. CASE s = {}
        BY <4>1, <4>2, <4>3 DEF FoldTurn
      <4>4. CASE s # {}
        <5> DEFINE r == s \ {Max(s)}
        <5>1. r \in SUBSET (1 .. m)
          BY <4>1
        <5>3. r \in SUBSET (1 .. m + 1) /\ m + 1 \notin r /\ low(r) = r
          <6>1. \A i \in 1 .. m : i \in 1 .. m + 1 /\ i # m + 1
            OBVIOUS
          <6> QED
            BY <5>1, <6>1
        <5>2. h[r] = g[r]
          BY <5>3
        <5> QED
          BY <4>1, <4>2, <4>4, <5>2 DEF FoldTurn
      <4> QED
        BY <4>3, <4>4
    <3> QED
      BY <3>1, <3>2
  <2>7. Fits(m + 1, h)
    BY <2>5, <2>6
  <2> QED
    BY <2>7
<1>3. n \in P
  <2> HIDE DEF P
  <2> QED
    BY <1>1, <1>2, <1>d, Counting
<1>4. PICK g : Fits(n, g)
  <2>1. n <= n
    BY <1>d
  <2> HIDE DEF Fits
  <2> QED
    BY <1>3, <2>1
<1> QED
  BY <1>4, <1>d DEF FoldOf

\* What such a recursion gives for the indices up to each one.
LEMMA FoldSteps ==
  ASSUME NEW Acc, NEW Elem, NEW step, NEW base, NEW seq, NEW iter,
         Folding(Acc, Elem, step, base, seq),
         StepwiseFold(Acc, step, base, seq, iter)
  PROVE  \E acc : StepsOf(Acc, step, base, seq, iter, acc)
<1>f. step \in [Acc \X Elem -> Acc] /\ base \in Acc /\ seq \in Seq(Elem)
  BY DEF Folding
<1>s. /\ iter[{}] = base
      /\ \A s \in SUBSET DOMAIN seq : s # {} /\ iter[s \ {Max(s)}] \in Acc =>
            iter[s] = step[<<iter[s \ {Max(s)}], seq[Max(s)]>>]
  BY DEF StepwiseFold
<1> DEFINE n == Len(seq)
           acc == [i \in 0 .. n |-> iter[1 .. i]]
           P == {m \in Nat : m <= n => acc[m] \in Acc}
<1>d. n \in Nat /\ DOMAIN seq = 1 .. n /\ \A i \in 1 .. n : seq[i] \in Elem
  BY <1>f, LenProperties, ElementOfSeq
<1> HIDE DEF n
<1>0. acc[0] = base
  <2>1. 1 .. 0 = {}
    OBVIOUS
  <2>2. 0 \in 0 .. n
    BY <1>d
  <2> QED
    BY <1>s, <2>1, <2>2
<1>1. ASSUME NEW i \in 1 .. n, acc[i - 1] \in Acc
      PROVE  acc[i] = step[<<acc[i - 1], seq[i]>>] /\ acc[i] \in Acc
  <2>1. i \in 0 .. n /\ i - 1 \in 0 .. n /\ 1 .. i \in SUBSET DOMAIN seq
    BY <1>d
  <2>2. Max(1 .. i) = i /\ (1 .. i) \ {i} = 1 .. (i - 1) /\ 1 .. i # {}
    BY <1>d, MaxUpTo
  <2>3. acc[i] = iter[1 .. i] /\ acc[i - 1] = iter[1 .. (i - 1)]
    BY <2>1
  <2> HIDE DEF acc
  <2>4. acc[i] = step[<<acc[i - 1], seq[i]>>]
    BY <1>1, <1>s, <2>1, <2>2, <2>3
  <2>5. <<acc[i - 1], seq[i]>> \in Acc \X Elem
    BY <1>1, <1>d
  <2> QED
    BY <1>f, <2>4, <2>5
<1>2. 0 \in P
  BY <1>0, <1>f
<1>3. ASSUME NEW m \in Nat, m \in P PROVE m + 1 \in P
  <2>1. SUFFICES ASSUME m + 1 <= n PROVE acc[m + 1] \in Acc
    OBVIOUS
  <2>2. m + 1 \in 1 .. n /\ (m + 1) - 1 = m /\ acc[m] \in Acc
    BY <1>d, <1>3, <2>1
  <2> HIDE DEF acc
  <2> QED
    BY <1>1, <2>2
<1>4. \A m \in Nat : m \in P
  <2> HIDE DEF P
  <2> QED
    BY <1>2, <1>3, Counting
<1>5. \A i \in 0 .. n : acc[i] \in Acc
  <2>1. \A i \in 0 .. n : i \in Nat /\ i <= n
    BY <1>d
  <2> HIDE DEF acc
  <2> QED
    BY <1>4, <2>1
<1>6. acc \in [0 .. n -> Acc]
  BY <1>5
<1>7. \A i \in 1 .. n : acc[i] = step[<<acc[i - 1], seq[i]>>]
  <2>1. \A i \in 1 .. n : i - 1 \in 0 .. n
    BY <1>d
  <2> HIDE DEF acc
  <2> QED
    BY <1>1, <1>5, <2>1
<1>8. acc[n] = iter[DOMAIN seq]
  BY <1>d
<1> HIDE DEF acc
<1> QED
  BY <1>0, <1>6, <1>7, <1>8 DEF n, StepsOf

\* What the turn for some indices is applied to.
LEMMA TurnOf ==
  ASSUME NEW Elem, NEW seq \in Seq(Elem), NEW s \in SUBSET DOMAIN seq, s # {}
  PROVE  /\ Max(s) \in DOMAIN seq
         /\ seq[Max(s)] \in Elem
         /\ s \ {Max(s)} \in SUBSET DOMAIN seq
<1>1. Len(seq) \in Nat /\ DOMAIN seq = 1 .. Len(seq)
  BY LenProperties
<1>2. Max(s) \in s
  BY <1>1, MaxOf
<1> QED
  BY <1>1, <1>2, ElementOfSeq

\* The indices of a sequence and those before them.
LEMMA Indices ==
  ASSUME NEW S, NEW seq \in Seq(S)
  PROVE  /\ Len(seq) \in Nat
         /\ \A i \in 1 .. Len(seq) :
              i \in 0 .. Len(seq) /\ i - 1 \in 0 .. Len(seq) /\ seq[i] \in S
         /\ 0 \in 0 .. Len(seq) /\ Len(seq) \in 0 .. Len(seq)
BY LenProperties, ElementOfSeq
-----------------------------------------------------------------------------
(* Sorting.  R is an order, the pairs of which one comes before the other.   *)

Orders(R, S) ==
  /\ \A x \in S : <<x, x>> \notin R
  /\ \A x, y, z \in S : <<x, y>> \in R /\ <<y, z>> \in R => <<x, z>> \in R
  /\ \A x, y \in S : x = y \/ <<x, y>> \in R \/ <<y, x>> \in R
Ascending(line, R) == \A i, j \in DOMAIN line : i < j => <<line[i], line[j]>> \in R

\* One element of a finite set comes after all others.
LEMMA LastElement ==
  ASSUME NEW S, IsFiniteSet(S), S # {}, NEW R, Orders(R, S)
  PROVE  \E m \in S : \A x \in S : x = m \/ <<x, m>> \in R
<1> DEFINE Lasts(s) == {m \in s : \A x \in s : x = m \/ <<x, m>> \in R}
           P == {n \in Nat : \A s \in SUBSET S : Cardinality(s) = n /\ s # {} => Lasts(s) # {}}
<1>f. ASSUME NEW s \in SUBSET S PROVE IsFiniteSet(s) /\ Cardinality(s) \in Nat
  BY FS_Subset, FS_CardinalityType
<1>1. 0 \in P
  BY <1>f, FS_EmptySet
<1>2. ASSUME NEW n \in Nat, n \in P PROVE n + 1 \in P
  <2>1. ASSUME NEW s \in SUBSET S, Cardinality(s) = n + 1, s # {} PROVE Lasts(s) # {}
    <3>1. PICK y \in s : TRUE
      BY <2>1
    <3>2. Cardinality(s \ {y}) = n /\ s \ {y} \in SUBSET S
      <4>1. IsFiniteSet(s)
        BY <1>f
      <4>2. Cardinality(s) = Cardinality(s \ {y}) + 1 /\ Cardinality(s \ {y}) \in Nat
        BY <3>1, <4>1, OneLess
      <4>3. \A c \in Nat : n + 1 = c + 1 => c = n
        OBVIOUS
      <4> QED
        BY <2>1, <4>2, <4>3
    <3>3. CASE s \ {y} = {}
      BY <3>1, <3>3
    <3>4. CASE s \ {y} # {}
      <4>1. PICK m : m \in Lasts(s \ {y})
        BY <1>2, <3>2, <3>4
      <4>2. m \in s /\ \A x \in s : x = y \/ x = m \/ <<x, m>> \in R
        BY <4>1
      <4>3. <<m, y>> \in R \/ <<y, m>> \in R
        BY <3>1, <4>1 DEF Orders
      <4>4. CASE <<y, m>> \in R
        BY <4>2, <4>4
      <4>5. CASE <<m, y>> \in R
        <5>1. \A x \in s : x = y \/ <<x, y>> \in R
          BY <3>1, <4>2, <4>5 DEF Orders
        <5> QED
          BY <3>1, <5>1
      <4> QED
        BY <4>3, <4>4, <4>5
    <3> QED
      BY <3>3, <3>4
  <2> QED
    BY <2>1
<1> HIDE DEF P
<1>3. Cardinality(S) \in P
  BY <1>1, <1>2, <1>f, Counting
<1> QED
  BY <1>3 DEF P

\* The lines of the elements of a finite set.
LEMMA LineOf ==
  ASSUME NEW S, IsFiniteSet(S), NEW line \in SetToSeqs(S)
  PROVE  /\ line \in Seq(S) /\ Len(line) = Cardinality(S) /\ Cardinality(S) \in Nat
         /\ DOMAIN line = 1 .. Cardinality(S)
         /\ \A i, j \in DOMAIN line : i # j => line[i] # line[j]
         /\ \A x \in S : \E i \in DOMAIN line : line[i] = x
<1> DEFINE n == Cardinality(S)
<1>1. n \in Nat
  BY FS_CardinalityType
<1>2. line \in [1 .. n -> S] /\ \A i, j \in 1 .. n : i # j => line[i] # line[j]
  BY DEF SetToSeqs
<1>3. IsFiniteSet(1 .. n) /\ Cardinality(1 .. n) = n
  BY <1>1, FS_Interval
<1>4. line \in Injection(1 .. n, S)
  BY <1>2 DEF Injection, IsInjective
<1>5. line \in Surjection(1 .. n, S)
  BY <1>3, <1>4, FS_Injection
<1>6. line \in Seq(S) /\ Len(line) = n
  BY <1>1, <1>2, SeqDef, LenProperties
<1> QED
  BY <1>1, <1>2, <1>5, <1>6 DEF Surjection

\* A finite set can be sorted.
LEMMA SortedExists ==
  ASSUME NEW S, IsFiniteSet(S), NEW R, Orders(R, S)
  PROVE  \E line \in SetToSeqs(S) : Ascending(line, R)
<1> DEFINE Sorted(s) == {line \in SetToSeqs(s) : Ascending(line, R)}
           P == {n \in Nat : \A s \in SUBSET S : Cardinality(s) = n => Sorted(s) # {}}
<1>f. ASSUME NEW s \in SUBSET S
      PROVE  IsFiniteSet(s) /\ Cardinality(s) \in Nat /\ Orders(R, s)
  BY FS_Subset, FS_CardinalityType DEF Orders
<1>1. 0 \in P
  <2>1. ASSUME NEW s \in SUBSET S, Cardinality(s) = 0 PROVE Sorted(s) # {}
    <3> DEFINE none == [i \in 1 .. 0 |-> CHOOSE x \in s : TRUE]
    <3>1. \A i : i \notin 1 .. 0
      <4>1. \A i \in Int : ~(1 <= i /\ i <= 0)
        OBVIOUS
      <4> QED
        BY <4>1
    <3>2. none \in [1 .. Cardinality(s) -> s] /\ DOMAIN none = 1 .. 0
      BY <2>1, <3>1
    <3> HIDE DEF none
    <3>3. none \in SetToSeqs(s)
      BY <2>1, <3>1, <3>2 DEF SetToSeqs
    <3>4. Ascending(none, R)
      BY <3>1, <3>2 DEF Ascending
    <3> QED
      BY <3>3, <3>4
  <2> QED
    BY <2>1
<1>2. ASSUME NEW n \in Nat, n \in P PROVE n + 1 \in P
  <2>1. ASSUME NEW s \in SUBSET S, Cardinality(s) = n + 1 PROVE Sorted(s) # {}
    <3>1. s # {}
      BY <2>1, FS_EmptySet
    <3>2. PICK m \in s : \A x \in s : x = m \/ <<x, m>> \in R
      BY <1>f, <3>1, LastElement
    <3>3. Cardinality(s \ {m}) = n /\ s \ {m} \in SUBSET S
      <4>1. IsFiniteSet(s)
        BY <1>f
      <4>2. Cardinality(s) = Cardinality(s \ {m}) + 1 /\ Cardinality(s \ {m}) \in Nat
        BY <3>2, <4>1, OneLess
      <4>3. \A c \in Nat : n + 1 = c + 1 => c = n
        OBVIOUS
      <4> QED
        BY <2>1, <4>2, <4>3
    <3>4. PICK t : t \in SetToSeqs(s \ {m}) /\ Ascending(t, R)
      BY <1>2, <3>3
    <3>5. t \in [1 .. n -> s \ {m}] /\ \A i, j \in 1 .. n : i # j => t[i] # t[j]
      BY <3>3, <3>4 DEF SetToSeqs
    <3> DEFINE line == [i \in 1 .. n + 1 |-> IF i = n + 1 THEN m ELSE t[i]]
    <3>6. \A i \in 1 .. n + 1 : i = n + 1 \/ i \in 1 .. n
      OBVIOUS
    <3>7. line \in [1 .. n + 1 -> s]
      BY <3>2, <3>5, <3>6
    <3>8. line[n + 1] = m /\ \A i \in 1 .. n : line[i] = t[i] /\ line[i] \in s \ {m}
      BY <3>5
    <3> HIDE DEF line
    <3>9. \A i, j \in 1 .. n + 1 : i # j => line[i] # line[j]
      BY <3>5, <3>6, <3>8
    <3>10. line \in SetToSeqs(s)
      BY <2>1, <3>7, <3>9 DEF SetToSeqs
    <3>11. \A i, j \in 1 .. n + 1 : i < j => <<line[i], line[j]>> \in R
      <4>1. ASSUME NEW i \in 1 .. n + 1, NEW j \in 1 .. n + 1, i < j
            PROVE  <<line[i], line[j]>> \in R
        <5>1. i \in 1 .. n
          BY <4>1
        <5>2. CASE j = n + 1
          BY <3>2, <3>8, <5>1, <5>2
        <5>3. CASE j \in 1 .. n
          <6>1. <<t[i], t[j]>> \in R
            BY <3>4, <3>5, <4>1, <5>1, <5>3 DEF Ascending
          <6> QED
            BY <3>8, <5>1, <5>3, <6>1
        <5> QED
          BY <3>6, <5>2, <5>3
      <4> QED
        BY <4>1
    <3>12. Ascending(line, R)
      BY <3>7, <3>11 DEF Ascending
    <3> QED
      BY <3>10, <3>12
  <2> QED
    BY <2>1
<1> HIDE DEF P
<1>3. Cardinality(S) \in P
  BY <1>1, <1>2, <1>f, Counting
<1> QED
  BY <1>3, <1>f DEF P

\* What two sequences give one after the other.
LEMMA Joined ==
  ASSUME NEW S, NEW a \in Seq(S), NEW b \in Seq(S)
  PROVE  /\ a \o b \in Seq(S) /\ Len(a \o b) = Len(a) + Len(b)
         /\ Len(a) \in Nat /\ Len(b) \in Nat
         /\ \A i \in 1 .. Len(a) : (a \o b)[i] = a[i] /\ a[i] \in S
         /\ \A i \in 1 .. Len(b) : (a \o b)[Len(a) + i] = b[i] /\ b[i] \in S
         /\ \A i \in 1 .. Len(a) + Len(b) : i \in 1 .. Len(a)
                                            \/ (i > Len(a) /\ i - Len(a) \in 1 .. Len(b))
         /\ ToSet(a \o b) = ToSet(a) \cup ToSet(b)
<1>1. /\ a \o b \in Seq(S) /\ Len(a \o b) = Len(a) + Len(b)
      /\ Len(a) \in Nat /\ Len(b) \in Nat
  BY ConcatProperties, LenProperties
<1>2. \A i \in 1 .. Len(a) : (a \o b)[i] = a[i] /\ a[i] \in S
  BY <1>1, ConcatProperties, ElementOfSeq
<1>3. \A i \in 1 .. Len(b) : (a \o b)[Len(a) + i] = b[i] /\ b[i] \in S
  <2>1. ASSUME NEW i \in 1 .. Len(b) PROVE (a \o b)[Len(a) + i] = b[i]
    <3>1. Len(a) + i \in 1 .. Len(a) + Len(b) /\ ~(Len(a) + i <= Len(a)) /\ (Len(a) + i) - Len(a) = i
      BY <1>1
    <3> QED
      BY <3>1, ConcatProperties
  <2> QED
    BY <1>1, <2>1, ElementOfSeq
<1>4. \A i \in 1 .. Len(a) + Len(b) : i \in 1 .. Len(a) \/ (i > Len(a) /\ i - Len(a) \in 1 .. Len(b))
  <2>1. ASSUME NEW m \in Nat, NEW n \in Nat, NEW i \in 1 .. m + n
        PROVE  i \in 1 .. m \/ (i > m /\ i - m \in 1 .. n)
    <3>1. i \in Int /\ 1 <= i /\ i <= m + n
      OBVIOUS
    <3>2. i <= m \/ (i > m /\ 1 <= i - m /\ i - m <= n /\ i - m \in Int)
      BY <3>1
    <3> QED
      BY <3>1, <3>2
  <2> QED
    BY <1>1, <2>1
<1>5. DOMAIN a = 1 .. Len(a) /\ DOMAIN b = 1 .. Len(b) /\ DOMAIN (a \o b) = 1 .. Len(a) + Len(b)
  BY <1>1, LenProperties
<1>6. ToSet(a \o b) = ToSet(a) \cup ToSet(b)
  <2>1. ASSUME NEW x \in ToSet(a \o b) PROVE x \in ToSet(a) \cup ToSet(b)
    <3>1. PICK i \in 1 .. Len(a) + Len(b) : x = (a \o b)[i]
      BY <1>5 DEF ToSet
    <3>2. CASE i \in 1 .. Len(a)
      BY <1>2, <1>5, <3>1, <3>2 DEF ToSet
    <3>3. CASE i - Len(a) \in 1 .. Len(b)
      <4>1. Len(a) + (i - Len(a)) = i
        BY <1>1
      <4>2. x = b[i - Len(a)]
        BY <1>3, <3>1, <3>3, <4>1
      <4> QED
        BY <1>5, <3>3, <4>2 DEF ToSet
    <3> QED
      BY <1>4, <3>2, <3>3
  <2>2. ASSUME NEW x \in ToSet(a) PROVE x \in ToSet(a \o b)
    <3>1. PICK i \in 1 .. Len(a) : x = a[i]
      BY <1>5, <2>2 DEF ToSet
    <3>2. i \in 1 .. Len(a) + Len(b)
      BY <1>1
    <3> QED
      BY <1>2, <1>5, <3>1, <3>2 DEF ToSet
  <2>3. ASSUME NEW x \in ToSet(b) PROVE x \in ToSet(a \o b)
    <3>1. PICK i \in 1 .. Len(b) : x = b[i]
      BY <1>5, <2>3 DEF ToSet
    <3>2. Len(a) + i \in 1 .. Len(a) + Len(b)
      BY <1>1
    <3> QED
      BY <1>3, <1>5, <3>1, <3>2 DEF ToSet
  <2> QED
    BY <2>1, <2>2, <2>3
<1> QED
  BY <1>1, <1>2, <1>3, <1>4, <1>6
\* A sequence that repeats nothing is as long as the set of its elements.
LEMMA DistinctCount ==
  ASSUME NEW S, NEW seq \in Seq(S), \A i, j \in 1 .. Len(seq) : i # j => seq[i] # seq[j]
  PROVE  Cardinality(ToSet(seq)) = Len(seq)
<1> DEFINE n == Len(seq)
<1>1. n \in Nat /\ DOMAIN seq = 1 .. n /\ seq \in [1 .. n -> S]
  BY LenProperties
<1>2. seq \in [1 .. n -> ToSet(seq)] /\ \A x \in ToSet(seq) : \E i \in 1 .. n : seq[i] = x
  BY <1>1 DEF ToSet
<1>3. seq \in Injection(1 .. n, ToSet(seq)) /\ seq \in Surjection(1 .. n, ToSet(seq))
  BY <1>2 DEF Injection, IsInjective, Surjection
<1>4. IsFiniteSet(1 .. n) /\ Cardinality(1 .. n) = n
  BY <1>1, FS_Interval
<1> QED
  BY <1>3, <1>4, FS_Surjection
=============================================================================
