--------------------------------- MODULE Sums ---------------------------------
(***************************************************************************)
(* Sums of a function over a finite set, as Functions!SumFunctionOnSet     *)
(* defines them: by a recursion that takes the elements out in the order   *)
(* of CHOOSE.  That the order does not matter is proved by induction on    *)
(* the size of the set.                                                    *)
(***************************************************************************)
EXTENDS Functions, FiniteSetTheorems, WellFoundedInduction, TLAPS

\* A set of natural numbers that is not empty has a least element.
LEMMA LeastNumber ==
  ASSUME NEW T, T \subseteq Nat, T # {}
  PROVE  \E n \in T : \A m \in T : n <= m
<1> DEFINE Less == {pair \in Nat \X Nat : pair[1] < pair[2]}
<1>1. IsWellFoundedOn(Less, Nat)
  BY NatLessThanWellFounded DEF OpToRel
<1> HIDE DEF Less
<1>2. PICK n \in T : \A m \in T : <<m, n>> \notin Less
  BY <1>1, WFMin
<1>3. ASSUME NEW m \in T, m < n
      PROVE  FALSE
  <2>1. <<m, n>> \in Less
    BY <1>3 DEF Less
  <2>2. QED
    BY <1>2, <2>1
<1>4. QED
  BY <1>2, <1>3

\* Induction, for a set of natural numbers instead of a predicate.
LEMMA InductiveSet ==
  ASSUME NEW G, G \subseteq Nat, 0 \in G, \A n \in G : n + 1 \in G
  PROVE  G = Nat
<1>1. SUFFICES ASSUME Nat \ G # {}
               PROVE  FALSE
  OBVIOUS
<1>2. PICK n \in Nat \ G : \A m \in Nat \ G : n <= m
  <2>1. Nat \ G \subseteq Nat
    OBVIOUS
  <2>2. QED
    BY <1>1, <2>1, LeastNumber
<1>3. n # 0 /\ n - 1 \in Nat /\ n - 1 \in G
  BY <1>2
<1>4. (n - 1) + 1 \in G
  BY <1>3
<1>5. QED
  BY <1>2, <1>4

-----------------------------------------------------------------------------
\* The element that the recursion takes out of s.
Taken(s) == CHOOSE x \in s : TRUE

\* One step of the recursion: what sum says of T, given what it says of less.
SumStep(sum, f, T) == IF T = {} THEN 0 ELSE f[Taken(T)] + sum[T \ {Taken(T)}]

\* A function that satisfies the recursion on the subsets of S.
SumsUp(sum, f, S) == sum = [T \in SUBSET S |-> SumStep(sum, f, T)]

\* The subsets of S with up to n elements.
UpTo(S, n) == {T \in SUBSET S : Cardinality(T) <= n}

\* What is left of a set without one of its elements is smaller by one.
LEMMA OneLess ==
  ASSUME NEW S, IsFiniteSet(S), NEW T, T \subseteq S, NEW x \in T
  PROVE  /\ IsFiniteSet(T) /\ IsFiniteSet(T \ {x})
         /\ Cardinality(T) \in Nat /\ Cardinality(T) >= 1
         /\ Cardinality(T \ {x}) = Cardinality(T) - 1
<1>1. IsFiniteSet(T)
  BY FS_Subset
<1>2. /\ IsFiniteSet(T \ {x})
      /\ Cardinality(T \ {x}) = Cardinality(T) - 1
      /\ Cardinality(T) \in Nat /\ Cardinality(T \ {x}) \in Nat
  BY <1>1, FS_RemoveElement, FS_CardinalityType
<1>3. QED
  BY <1>1, <1>2

\* What the recursion takes out is in the set.
LEMMA TakenFrom ==
  ASSUME NEW T, T # {}
  PROVE  Taken(T) \in T
BY DEF Taken

\* Subsets by size.
LEMMA UpToMembers ==
  ASSUME NEW S, IsFiniteSet(S), NEW n \in Nat, NEW T \in UpTo(S, n)
  PROVE  /\ T \subseteq S /\ IsFiniteSet(T) /\ T \in UpTo(S, n + 1)
         /\ n = 0 => T = {}
         /\ \A x \in T : T \ {x} \in UpTo(S, n)
<1>1. T \subseteq S /\ IsFiniteSet(T) /\ Cardinality(T) \in Nat /\ Cardinality(T) <= n
  BY FS_Subset, FS_CardinalityType DEF UpTo
<1>2. T \in UpTo(S, n + 1)
  BY <1>1 DEF UpTo
<1>3. ASSUME NEW x \in T
      PROVE  n # 0 /\ T \ {x} \in UpTo(S, n)
  <2>1. Cardinality(T) >= 1 /\ Cardinality(T \ {x}) = Cardinality(T) - 1
    BY <1>1, OneLess
  <2>2. QED
    BY <1>1, <2>1 DEF UpTo
<1>4. QED
  BY <1>1, <1>2, <1>3

\* Without one of its elements a set is one size down.
LEMMA UpToNext ==
  ASSUME NEW S, IsFiniteSet(S), NEW n \in Nat, NEW T \in UpTo(S, n + 1), NEW x \in T
  PROVE  T \ {x} \in UpTo(S, n)
<1>1. T \subseteq S /\ Cardinality(T) <= n + 1
  BY DEF UpTo
<1>2. Cardinality(T) \in Nat /\ Cardinality(T \ {x}) = Cardinality(T) - 1
  BY <1>1, OneLess
<1>3. QED
  BY <1>1, <1>2 DEF UpTo

\* Every subset has some size.
LEMMA UpToAll ==
  ASSUME NEW S, IsFiniteSet(S)
  PROVE  /\ Cardinality(S) \in Nat
         /\ UpTo(S, Cardinality(S)) = SUBSET S
BY FS_Subset, FS_CardinalityType DEF UpTo

\* The recursion has a solution.
LEMMA SumsExist ==
  ASSUME NEW S, IsFiniteSet(S), NEW f, \A x \in S : f[x] \in Int
  PROVE  \E sum \in [SUBSET S -> Int] : SumsUp(sum, f, S)
<1> DEFINE Solves(sum, n) == \A T \in UpTo(S, n) : sum[T] = SumStep(sum, f, T)
           Good == {n \in Nat : \E sum \in [UpTo(S, n) -> Int] : Solves(sum, n)}
<1>1. 0 \in Good
  <2>1. UpTo(S, 0) = {{}}
    <3>1. {} \in UpTo(S, 0)
      BY FS_EmptySet DEF UpTo
    <3>2. ASSUME NEW T \in UpTo(S, 0)
          PROVE  T = {}
      BY UpToMembers
    <3>3. QED
      BY <3>1, <3>2
  <2>2. [T \in {{}} |-> 0] \in [UpTo(S, 0) -> Int] /\ Solves([T \in {{}} |-> 0], 0)
    BY <2>1 DEF SumStep
  <2>3. QED
    BY <2>2
<1>2. ASSUME NEW n \in Good
      PROVE  n + 1 \in Good
  <2>0. n \in Nat
    OBVIOUS
  <2>1. PICK sum \in [UpTo(S, n) -> Int] : Solves(sum, n)
    OBVIOUS
  <2> DEFINE next == [T \in UpTo(S, n + 1) |-> SumStep(sum, f, T)]
  <2> HIDE DEF Good
  <2>2. ASSUME NEW T \in UpTo(S, n + 1), T # {}
        PROVE  T \ {Taken(T)} \in UpTo(S, n) /\ Taken(T) \in S
    <3>1. Taken(T) \in T
      BY <2>2, TakenFrom
    <3>2. QED
      BY <2>0, <3>1, UpToNext DEF UpTo
  <2>3. next \in [UpTo(S, n + 1) -> Int]
    BY <2>1, <2>2 DEF SumStep
  <2>4. ASSUME NEW T \in UpTo(S, n)
        PROVE  T \in UpTo(S, n + 1) /\ next[T] = sum[T]
    BY <2>0, <2>1, UpToMembers
  <2>5. ASSUME NEW T \in UpTo(S, n + 1)
        PROVE  next[T] = SumStep(next, f, T)
    BY <2>2, <2>4 DEF SumStep
  <2>6. \E other \in [UpTo(S, n + 1) -> Int] : Solves(other, n + 1)
    <3> HIDE DEF next
    <3>1. QED
      BY <2>3, <2>5
  <2>7. QED
    BY <2>0, <2>6 DEF Good
<1> HIDE DEF Good
<1>3. Good = Nat
  <2>1. Good \subseteq Nat
    BY DEF Good
  <2>2. QED
    BY <1>1, <1>2, <2>1, InductiveSet
<1>4. Cardinality(S) \in Good
  BY <1>3, UpToAll
<1>5. PICK sum \in [SUBSET S -> Int] : \A T \in SUBSET S : sum[T] = SumStep(sum, f, T)
  BY <1>4, UpToAll DEF Good
<1>6. SumsUp(sum, f, S)
  BY <1>5 DEF SumsUp
<1>7. QED
  BY <1>5, <1>6

\* Solutions for a set and for a smaller one agree on the smaller one.
LEMMA SumsAgree ==
  ASSUME NEW S, IsFiniteSet(S), NEW R, R \subseteq S, NEW f,
         NEW sum, SumsUp(sum, f, S), NEW less, SumsUp(less, f, R)
  PROVE  sum[R] = less[R]
<1> DEFINE Good == {n \in Nat : \A T \in UpTo(R, n) : sum[T] = less[T]}
<1>0. IsFiniteSet(R)
  BY FS_Subset
<1>1. 0 \in Good
  <2>1. ASSUME NEW T \in UpTo(R, 0)
        PROVE  sum[T] = less[T]
    <3>1. T = {} /\ T \subseteq S
      BY <1>0, UpToMembers
    <3>2. QED
      BY <3>1 DEF SumsUp, SumStep
  <2>2. QED
    BY <2>1
<1>2. ASSUME NEW n \in Good
      PROVE  n + 1 \in Good
  <2>1. ASSUME NEW T \in UpTo(R, n + 1)
        PROVE  sum[T] = less[T]
    <3>1. T \subseteq R /\ T \subseteq S
      BY DEF UpTo
    <3>2. sum[T] = SumStep(sum, f, T) /\ less[T] = SumStep(less, f, T)
      BY <3>1 DEF SumsUp
    <3>3. ASSUME T # {}
          PROVE  sum[T \ {Taken(T)}] = less[T \ {Taken(T)}]
      <4>1. Taken(T) \in T
        BY <3>3, TakenFrom
      <4>2. T \ {Taken(T)} \in UpTo(R, n)
        BY <1>0, <4>1, UpToNext
      <4>3. QED
        BY <4>2
    <3>4. QED
      BY <3>2, <3>3 DEF SumStep
  <2>2. QED
    BY <2>1
<1> HIDE DEF Good
<1>3. Good = Nat
  <2>1. Good \subseteq Nat
    BY DEF Good
  <2>2. QED
    BY <1>1, <1>2, <2>1, InductiveSet
<1>4. Cardinality(R) \in Good /\ R \in UpTo(R, Cardinality(R))
  BY <1>0, <1>3, UpToAll
<1>5. QED
  BY <1>4 DEF Good

\* The sum is what some solution says of the whole set.
LEMMA SumSolves ==
  ASSUME NEW S, IsFiniteSet(S), NEW f, \A x \in S : f[x] \in Int
  PROVE  \E sum \in [SUBSET S -> Int] :
           SumsUp(sum, f, S) /\ SumFunctionOnSet(f, S) = sum[S]
<1> DEFINE chosen == CHOOSE sum : SumsUp(sum, f, S)
<1>1. SumFunctionOnSet(f, S) = chosen[S]
  BY DEF SumFunctionOnSet, FoldFunctionOnSet, MapThenFoldSet, SumsUp, SumStep, Taken
<1>2. SumsUp(chosen, f, S)
  BY SumsExist
<1>3. PICK sum \in [SUBSET S -> Int] : SumsUp(sum, f, S)
  BY SumsExist
<1> HIDE DEF chosen
<1>4. chosen[S] = sum[S]
  BY <1>2, <1>3, SumsAgree
<1>5. QED
  BY <1>1, <1>3, <1>4

-----------------------------------------------------------------------------
\* Nothing adds up to 0.
LEMMA SumOfNothing ==
  ASSUME NEW f
  PROVE  SumFunctionOnSet(f, {}) = 0
<1>1. IsFiniteSet({})
  BY FS_EmptySet
<1>2. PICK sum \in [SUBSET {} -> Int] : SumsUp(sum, f, {}) /\ SumFunctionOnSet(f, {}) = sum[{}]
  BY <1>1, SumSolves
<1>3. QED
  BY <1>2 DEF SumsUp, SumStep

\* The sum follows the recursion.
LEMMA SumWithTaken ==
  ASSUME NEW S, IsFiniteSet(S), S # {}, NEW f, \A x \in S : f[x] \in Int
  PROVE  /\ SumFunctionOnSet(f, S) \in Int
         /\ SumFunctionOnSet(f, S) = f[Taken(S)] + SumFunctionOnSet(f, S \ {Taken(S)})
<1> DEFINE R == S \ {Taken(S)}
<1>1. IsFiniteSet(R) /\ R \subseteq S
  BY FS_Subset
<1>2. PICK sum \in [SUBSET S -> Int] : SumsUp(sum, f, S) /\ SumFunctionOnSet(f, S) = sum[S]
  BY SumSolves
<1>3. PICK less \in [SUBSET R -> Int] : SumsUp(less, f, R) /\ SumFunctionOnSet(f, R) = less[R]
  BY <1>1, SumSolves
<1>4. sum[R] = less[R]
  BY <1>1, <1>2, <1>3, SumsAgree
<1>5. sum[S] = SumStep(sum, f, S)
  BY <1>2 DEF SumsUp
<1> HIDE DEF R
<1>6. sum[S] = f[Taken(S)] + sum[S \ {Taken(S)}]
  BY <1>5 DEF SumStep
<1>7. QED
  BY <1>2, <1>3, <1>4, <1>6 DEF R

\* A sum of integers is an integer.
LEMMA SumType ==
  ASSUME NEW S, IsFiniteSet(S), NEW f, \A x \in S : f[x] \in Int
  PROVE  SumFunctionOnSet(f, S) \in Int
<1>1. PICK sum \in [SUBSET S -> Int] : SumFunctionOnSet(f, S) = sum[S]
  BY SumSolves
<1>2. QED
  BY <1>1

\* The order does not matter: any element can be the first.
LEMMA SumWith ==
  ASSUME NEW S, IsFiniteSet(S), NEW f, \A x \in S : f[x] \in Int, NEW x \in S
  PROVE  SumFunctionOnSet(f, S) = f[x] + SumFunctionOnSet(f, S \ {x})
<1> DEFINE First(T, y) == SumFunctionOnSet(f, T) = f[y] + SumFunctionOnSet(f, T \ {y})
           Good == {n \in Nat : \A T \in UpTo(S, n) : \A y \in T : First(T, y)}
<1>1. 0 \in Good
  <2>1. ASSUME NEW T \in UpTo(S, 0)
        PROVE  T = {}
    BY UpToMembers
  <2>2. QED
    BY <2>1
<1>2. ASSUME NEW n \in Good
      PROVE  n + 1 \in Good
  <2>1. ASSUME NEW T \in UpTo(S, n + 1), NEW y \in T
        PROVE  First(T, y)
    <3> DEFINE t == Taken(T)
               Both == (T \ {t}) \ {y}
    <3>1. t \in T
      BY TakenFrom
    <3>2. T \subseteq S /\ IsFiniteSet(T)
      BY FS_Subset DEF UpTo
    <3>3. SumFunctionOnSet(f, T) = f[t] + SumFunctionOnSet(f, T \ {t})
      BY <3>1, <3>2, SumWithTaken
    <3>4. ASSUME y # t
          PROVE  First(T, y)
      <4>1. y \in T \ {t} /\ t \in T \ {y} /\ (T \ {y}) \ {t} = Both
        BY <3>1, <3>4
      <4>2. T \ {t} \in UpTo(S, n) /\ T \ {y} \in UpTo(S, n)
        BY <3>1, UpToNext
      <4>3. SumFunctionOnSet(f, T \ {t}) = f[y] + SumFunctionOnSet(f, Both)
        BY <4>1, <4>2
      <4>4. SumFunctionOnSet(f, T \ {y}) = f[t] + SumFunctionOnSet(f, Both)
        BY <4>1, <4>2
      <4>5. f[t] \in Int /\ f[y] \in Int /\ SumFunctionOnSet(f, Both) \in Int
        <5>1. Both \subseteq S /\ IsFiniteSet(Both)
          BY <3>2, FS_Subset
        <5>2. SumFunctionOnSet(f, Both) \in Int
          BY <5>1, SumType
        <5>3. QED
          BY <3>1, <3>2, <5>2
      <4> HIDE DEF t, Both
      <4>6. QED
        BY <3>3, <4>3, <4>4, <4>5
    <3>5. QED
      BY <3>3, <3>4
  <2> HIDE DEF First
  <2>2. QED
    BY <2>1
<1> HIDE DEF Good
<1>3. Good = Nat
  <2>1. Good \subseteq Nat
    BY DEF Good
  <2>2. QED
    BY <1>1, <1>2, <2>1, InductiveSet
<1>4. Cardinality(S) \in Good /\ S \in UpTo(S, Cardinality(S))
  BY <1>3, UpToAll
<1>5. QED
  BY <1>4 DEF Good

\* Only the values on the set count.
LEMMA SumSame ==
  ASSUME NEW S, IsFiniteSet(S), NEW f, \A x \in S : f[x] \in Int,
         NEW g, \A x \in S : g[x] = f[x]
  PROVE  SumFunctionOnSet(g, S) = SumFunctionOnSet(f, S)
<1> DEFINE Same(T) == SumFunctionOnSet(g, T) = SumFunctionOnSet(f, T)
           Good == {n \in Nat : \A T \in UpTo(S, n) : Same(T)}
<1>1. 0 \in Good
  <2>1. ASSUME NEW T \in UpTo(S, 0)
        PROVE  Same(T)
    <3>1. T = {}
      BY UpToMembers
    <3>2. QED
      BY <3>1, SumOfNothing
  <2>2. QED
    BY <2>1
<1>2. ASSUME NEW n \in Good
      PROVE  n + 1 \in Good
  <2>1. ASSUME NEW T \in UpTo(S, n + 1), T # {}
        PROVE  Same(T)
    <3>1. PICK x \in T : TRUE
      BY <2>1
    <3>2. T \subseteq S /\ IsFiniteSet(T)
      BY FS_Subset DEF UpTo
    <3>3. Same(T \ {x})
      BY UpToNext
    <3>4. SumFunctionOnSet(f, T) = f[x] + SumFunctionOnSet(f, T \ {x})
      BY <3>2, SumWith
    <3>5. SumFunctionOnSet(g, T) = g[x] + SumFunctionOnSet(g, T \ {x})
      BY <3>2, SumWith
    <3>6. QED
      BY <3>2, <3>3, <3>4, <3>5
  <2>2. Same({})
    BY SumOfNothing
  <2> HIDE DEF Same
  <2>3. QED
    BY <2>1, <2>2
<1> HIDE DEF Good
<1>3. Good = Nat
  <2>1. Good \subseteq Nat
    BY DEF Good
  <2>2. QED
    BY <1>1, <1>2, <2>1, InductiveSet
<1>4. Cardinality(S) \in Good /\ S \in UpTo(S, Cardinality(S))
  BY <1>3, UpToAll
<1>5. QED
  BY <1>4 DEF Good

\* A value that is 0 everywhere adds up to 0, and natural numbers to a natural
\* number.
LEMMA SumNat ==
  ASSUME NEW S, IsFiniteSet(S), NEW f, \A x \in S : f[x] \in Nat
  PROVE  /\ SumFunctionOnSet(f, S) \in Nat
         /\ (\A x \in S : f[x] = 0) => SumFunctionOnSet(f, S) = 0
<1> DEFINE AddsUp(T) == /\ SumFunctionOnSet(f, T) \in Nat
                        /\ (\A x \in S : f[x] = 0) => SumFunctionOnSet(f, T) = 0
           Good == {n \in Nat : \A T \in UpTo(S, n) : AddsUp(T)}
<1>1. 0 \in Good
  <2>1. ASSUME NEW T \in UpTo(S, 0)
        PROVE  AddsUp(T)
    <3>1. T = {}
      BY UpToMembers
    <3>2. QED
      BY <3>1, SumOfNothing
  <2>2. QED
    BY <2>1
<1>2. ASSUME NEW n \in Good
      PROVE  n + 1 \in Good
  <2>1. ASSUME NEW T \in UpTo(S, n + 1), T # {}
        PROVE  AddsUp(T)
    <3>1. PICK x \in T : TRUE
      BY <2>1
    <3>2. T \subseteq S /\ IsFiniteSet(T)
      BY FS_Subset DEF UpTo
    <3>3. AddsUp(T \ {x})
      BY UpToNext
    <3>4. SumFunctionOnSet(f, T) = f[x] + SumFunctionOnSet(f, T \ {x})
      BY <3>2, SumWith
    <3>5. QED
      BY <3>2, <3>3, <3>4
  <2>2. AddsUp({})
    BY SumOfNothing
  <2>3. n + 1 \in Nat
    OBVIOUS
  <2> HIDE DEF AddsUp
  <2>4. QED
    BY <2>1, <2>2, <2>3
<1> HIDE DEF Good
<1>3. Good = Nat
  <2>1. Good \subseteq Nat
    BY DEF Good
  <2>2. QED
    BY <1>1, <1>2, <2>1, InductiveSet
<1>4. Cardinality(S) \in Good /\ S \in UpTo(S, Cardinality(S))
  BY <1>3, UpToAll
<1>5. QED
  BY <1>4 DEF Good

\* No summand exceeds a sum of natural numbers.
LEMMA SummandAtMost ==
  ASSUME NEW S, IsFiniteSet(S), NEW f, \A x \in S : f[x] \in Nat, NEW x \in S
  PROVE  f[x] <= SumFunctionOnSet(f, S)
<1>1. IsFiniteSet(S \ {x})
  BY FS_Subset
<1>2. SumFunctionOnSet(f, S \ {x}) \in Nat
  BY <1>1, SumNat
<1>3. SumFunctionOnSet(f, S) = f[x] + SumFunctionOnSet(f, S \ {x})
  BY SumWith
<1>4. QED
  BY <1>2, <1>3

\* Changing one value changes the sum by as much.
LEMMA SumAfterChange ==
  ASSUME NEW S, IsFiniteSet(S), NEW f, \A y \in S : f[y] \in Int,
         NEW x \in S, NEW g, g[x] \in Int, \A y \in S \ {x} : g[y] = f[y]
  PROVE  SumFunctionOnSet(g, S) = SumFunctionOnSet(f, S) - f[x] + g[x]
<1> DEFINE R == S \ {x}
<1>1. IsFiniteSet(R)
  BY FS_Subset
<1>2. SumFunctionOnSet(g, R) = SumFunctionOnSet(f, R) /\ SumFunctionOnSet(f, R) \in Int
  BY <1>1, SumSame, SumType
<1>3. SumFunctionOnSet(f, S) = f[x] + SumFunctionOnSet(f, R)
  BY SumWith
<1>4. SumFunctionOnSet(g, S) = g[x] + SumFunctionOnSet(g, R)
  BY SumWith
<1>5. f[x] \in Int
  OBVIOUS
<1> HIDE DEF R
<1>6. QED
  BY <1>2, <1>3, <1>4, <1>5
=============================================================================
