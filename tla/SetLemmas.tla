------------------------------ MODULE SetLemmas -------------------------------
(***************************************************************************)
(* Facts about sets that the other proofs use.                             *)
(*                                                                         *)
(* Min and Max of the community modules choose an element; that there is   *)
(* one to choose follows from the order of the naturals being well-founded.*)
(*                                                                         *)
(* SumFunctionOnSet chooses the order in which it adds.  That the order    *)
(* makes no difference, and with it what a sum over a union, over parts    *)
(* and under other names is, follows by taking a least set of elements for *)
(* which it does.                                                          *)
(***************************************************************************)
EXTENDS Integers, FiniteSetsExt, Functions, FiniteSetTheorems, WellFoundedInduction, TLAPS

-----------------------------------------------------------------------------
(* Extrema. *)

\* A set of naturals that is not empty has a least element.
LEMMA LeastNatural ==
  ASSUME NEW T \in SUBSET Nat, T # {}
  PROVE  \E t \in T : \A u \in T : t <= u
<1>1. PICK t \in T : \A u \in T : <<u, t>> \notin OpToRel(<, Nat)
  BY NatLessThanWellFounded, WFMin
<1>2. ASSUME NEW u \in T PROVE t <= u
  <2>1. ~(u < t)
    BY <1>1, <1>2 DEF OpToRel
  <2> QED
    BY <2>1
<1> QED
  BY <1>2

\* What holds of 0 and, up to n, of a number with the one before, holds up to n.
LEMMA UpTo ==
  ASSUME NEW n \in Nat, NEW S, 0 \in S,
         \A i \in 1 .. n : i - 1 \in S => i \in S
  PROVE  0 .. n \subseteq S
<1> DEFINE Missing == {i \in 0 .. n : i \notin S}
<1> SUFFICES ASSUME Missing # {} PROVE FALSE
  OBVIOUS
<1>1. PICK i \in Missing : \A j \in Missing : i <= j
  <2>1. Missing \in SUBSET Nat
    OBVIOUS
  <2> HIDE DEF Missing
  <2> QED
    BY <2>1, LeastNatural
<1>2. i \in 1 .. n /\ i \notin S
  OBVIOUS
<1>3. i - 1 \in 0 .. n /\ i - 1 \notin Missing
  BY <1>1, <1>2
<1>4. i - 1 \in S
  BY <1>3
<1> QED
  BY <1>2, <1>4

\* A set of integers with a lower bound has a least element.
LEMMA MinOfBounded ==
  ASSUME NEW S \in SUBSET Int, S # {}, NEW b \in Int, \A x \in S : x >= b
  PROVE  Min(S) \in S /\ \A x \in S : Min(S) <= x
<1> DEFINE T == {x - b : x \in S}
<1>0. T # {}
  OBVIOUS
<1>1. T \in SUBSET Nat
  <2>1. ASSUME NEW x \in S PROVE x - b \in Nat
    <3>1. x \in Int /\ x >= b
      OBVIOUS
    <3> QED
      BY <3>1
  <2> QED
    BY <2>1
<1>2. PICK t \in T : \A u \in T : t <= u
  <2> HIDE DEF T
  <2> QED
    BY <1>0, <1>1, LeastNatural
<1>3. PICK m \in S : t = m - b
  OBVIOUS
<1>4. ASSUME NEW x \in S PROVE m <= x
  <2>1. m - b <= x - b
    BY <1>2, <1>3, <1>4
  <2>2. m \in Int /\ x \in Int
    OBVIOUS
  <2> QED
    BY <2>1, <2>2
<1> QED
  BY <1>4 DEF Min

\* A set of integers with an upper bound has a greatest element.
LEMMA MaxOfBounded ==
  ASSUME NEW S \in SUBSET Int, S # {}, NEW b \in Int, \A x \in S : x <= b
  PROVE  Max(S) \in S /\ \A x \in S : Max(S) >= x
<1> DEFINE T == {b - x : x \in S}
<1>0. T # {}
  OBVIOUS
<1>1. T \in SUBSET Nat
  <2>1. ASSUME NEW x \in S PROVE b - x \in Nat
    <3>1. x \in Int /\ x <= b
      OBVIOUS
    <3> QED
      BY <3>1
  <2> QED
    BY <2>1
<1>2. PICK t \in T : \A u \in T : t <= u
  <2> HIDE DEF T
  <2> QED
    BY <1>0, <1>1, LeastNatural
<1>3. PICK m \in S : t = b - m
  OBVIOUS
<1>4. ASSUME NEW x \in S PROVE m >= x
  <2>1. b - m <= b - x
    BY <1>2, <1>3, <1>4
  <2>2. m \in Int /\ x \in Int
    OBVIOUS
  <2> QED
    BY <2>1, <2>2
<1> QED
  BY <1>4 DEF Max

-----------------------------------------------------------------------------
(* Sums. *)

\* Of sets of elements of a finite set one is a least.
LEMMA LeastSubset ==
  ASSUME NEW S, IsFiniteSet(S), NEW W \in SUBSET (SUBSET S), W # {}
  PROVE  \E T \in W : \A U \in W : U \subseteq T => U = T
<1>1. IsWellFoundedOn(StrictSubsetOrdering(S), FiniteSubsetsOf(S))
  BY FS_StrictSubsetOrderingWellFounded
<1>2. W \in SUBSET FiniteSubsetsOf(S)
  BY FS_Subset DEF FiniteSubsetsOf
<1>3. PICK T \in W : \A U \in W : <<U, T>> \notin StrictSubsetOrdering(S)
  BY <1>1, <1>2, WFMin
<1> QED
  BY <1>3 DEF StrictSubsetOrdering

-----------------------------------------------------------------------------
(* A sum takes its elements one by one, as they are chosen.                  *)

FirstTaken(T) == CHOOSE x \in T : TRUE

TakesFirst(it, f, T) == IF T = {} THEN 0 ELSE f[FirstTaken(T)] + it[T \ {FirstTaken(T)}]

IteratesSum(it, f, S) == it = [T \in SUBSET S |-> TakesFirst(it, f, T)]

LEMMA SumIsIterated ==
  ASSUME NEW f, NEW S
  PROVE  SumFunctionOnSet(f, S) = (CHOOSE it : IteratesSum(it, f, S))[S]
BY DEF SumFunctionOnSet, FoldFunctionOnSet, MapThenFoldSet, IteratesSum, TakesFirst, FirstTaken

\* There is such a function, which agrees with itself up to any size of the sets.
LEMMA IteratedUpTo ==
  ASSUME NEW f, NEW S, IsFiniteSet(S)
  PROVE  \E h : \A T \in SUBSET S : h[T] = TakesFirst(h, f, T)
<1> DEFINE Upto(n) == \E h : \A T \in SUBSET S :
                        Cardinality(T) <= n => h[T] = TakesFirst(h, f, T)
           N == {n \in Nat : Upto(n)}
           size == Cardinality(S)
<1>0. size \in Nat
  BY FS_CardinalityType
<1>1. 0 \in N
  <2> DEFINE h == [T \in SUBSET S |-> 0]
  <2>1. ASSUME NEW T \in SUBSET S, Cardinality(T) <= 0 PROVE T = {}
    BY <2>1, FS_Subset, FS_EmptySet, FS_CardinalityType
  <2>2. \A T \in SUBSET S : Cardinality(T) <= 0 => h[T] = TakesFirst(h, f, T)
    BY <2>1 DEF TakesFirst
  <2>3. Upto(0)
    BY <2>2
  <2> QED
    BY <2>3
<1>2. ASSUME NEW n \in 1 .. size, n - 1 \in N PROVE n \in N
  <2>1. PICK g : \A T \in SUBSET S : Cardinality(T) <= n - 1 => g[T] = TakesFirst(g, f, T)
    BY <1>2
  <2> DEFINE h == [T \in SUBSET S |-> TakesFirst(g, f, T)]
  <2>2. ASSUME NEW T \in SUBSET S, Cardinality(T) <= n PROVE h[T] = TakesFirst(h, f, T)
    <3>1. CASE T = {}
      BY <3>1 DEF TakesFirst
    <3>2. CASE T # {}
      <4> DEFINE U == T \ {FirstTaken(T)}
      <4>1. FirstTaken(T) \in T
        BY <3>2 DEF FirstTaken
      <4>2. U \in SUBSET S /\ Cardinality(U) <= n - 1
        <5>1. IsFiniteSet(T) /\ Cardinality(T) \in Nat
          BY FS_Subset, FS_CardinalityType
        <5>2. Cardinality(U) = Cardinality(T) - 1
          BY <4>1, <5>1, FS_RemoveElement
        <5> HIDE DEF U
        <5> QED
          BY <2>2, <5>1, <5>2 DEF U
      <4>3. h[U] = g[U]
        <5>1. h[U] = TakesFirst(g, f, U)
          BY <4>2
        <5> QED
          BY <2>1, <4>2, <5>1
      <4>4. h[T] = f[FirstTaken(T)] + g[U]
        BY <3>2 DEF TakesFirst
      <4> HIDE DEF h
      <4> QED
        BY <3>2, <4>3, <4>4 DEF TakesFirst
    <3> QED
      BY <3>1, <3>2
  <2>3. Upto(n)
    <3> HIDE DEF h
    <3> QED
      BY <2>2
  <2> QED
    BY <2>3
<1>3. size \in N
  <2> HIDE DEF N
  <2>1. 0 .. size \subseteq N
    BY <1>0, <1>1, <1>2, UpTo
  <2> QED
    BY <1>0, <2>1
<1>4. PICK h : \A T \in SUBSET S : Cardinality(T) <= size => h[T] = TakesFirst(h, f, T)
  BY <1>3
<1>5. \A T \in SUBSET S : Cardinality(T) <= size
  BY FS_Subset
<1> QED
  BY <1>4, <1>5

LEMMA SumIterates ==
  ASSUME NEW f, NEW S, IsFiniteSet(S)
  PROVE  LET it == CHOOSE it : IteratesSum(it, f, S)
         IN  \A T \in SUBSET S : it[T] = TakesFirst(it, f, T)
<1>1. PICK h : \A T \in SUBSET S : h[T] = TakesFirst(h, f, T)
  BY IteratedUpTo
<1> DEFINE g == [T \in SUBSET S |-> TakesFirst(h, f, T)]
<1>2. \A T \in SUBSET S : g[T] = h[T]
  BY <1>1
<1>3. ASSUME NEW T \in SUBSET S PROVE TakesFirst(h, f, T) = TakesFirst(g, f, T)
  <2> HIDE DEF g
  <2>1. T \ {FirstTaken(T)} \in SUBSET S
    OBVIOUS
  <2> QED
    BY <1>2, <2>1 DEF TakesFirst
<1>4. g = [T \in SUBSET S |-> TakesFirst(g, f, T)]
  <2> DEFINE k == [T \in SUBSET S |-> TakesFirst(g, f, T)]
  <2>1. \A T \in SUBSET S : g[T] = k[T]
    <3> HIDE DEF TakesFirst
    <3> QED
      BY <1>3
  <2>2. g = k
    BY <1>3 DEF TakesFirst
  <2> QED
    BY <2>2
<1>5. IteratesSum(g, f, S)
  <2> HIDE DEF g
  <2> QED
    BY <1>4 DEF IteratesSum
<1> DEFINE it == CHOOSE it : IteratesSum(it, f, S)
<1>6. IteratesSum(it, f, S)
  BY <1>5
<1> HIDE DEF it
<1>7. \A T \in SUBSET S : it[T] = TakesFirst(it, f, T)
  <2> DEFINE F(T) == TakesFirst(it, f, T)
  <2>1. it = [T \in SUBSET S |-> F(T)]
    BY <1>6 DEF IteratesSum
  <2> HIDE DEF F
  <2>2. \A T \in SUBSET S : it[T] = F(T)
    BY <2>1
  <2> QED
    BY <2>2 DEF F
<1> QED
  BY <1>7 DEF it

LEMMA SumOfSubset ==
  ASSUME NEW f, NEW S, IsFiniteSet(S), NEW T \in SUBSET S
  PROVE  SumFunctionOnSet(f, T) = (CHOOSE it : IteratesSum(it, f, S))[T]
<1> DEFINE big == CHOOSE it : IteratesSum(it, f, S)
           small == CHOOSE it : IteratesSum(it, f, T)
           Wrong == {U \in SUBSET T : small[U] # big[U]}
<1>1. /\ \A U \in SUBSET S : big[U] = TakesFirst(big, f, U)
      /\ \A U \in SUBSET T : small[U] = TakesFirst(small, f, U)
  BY SumIterates, FS_Subset
<1> HIDE DEF big, small
<1>2. ASSUME Wrong # {} PROVE FALSE
  <2>1. Wrong \in SUBSET (SUBSET T) /\ IsFiniteSet(T)
    BY FS_Subset
  <2>2. PICK U \in Wrong : \A V \in Wrong : V \subseteq U => V = U
    <3> HIDE DEF Wrong
    <3> QED
      BY <1>2, <2>1, LeastSubset
  <2>3. U \in SUBSET T /\ small[U] # big[U]
    OBVIOUS
  <2>4. CASE U = {}
    BY <1>1, <2>3, <2>4 DEF TakesFirst
  <2>5. CASE U # {}
    <3> DEFINE V == U \ {FirstTaken(U)}
    <3>1. FirstTaken(U) \in U
      BY <2>5 DEF FirstTaken
    <3>2. V \in SUBSET T /\ V \subseteq U /\ V # U
      BY <2>3, <3>1
    <3>3. small[V] = big[V]
      BY <2>2, <3>2
    <3> QED
      BY <1>1, <2>3, <2>5, <3>3 DEF TakesFirst
  <2> QED
    BY <2>4, <2>5
<1>3. small[T] = big[T]
  BY <1>2
<1> QED
  BY <1>3, SumIsIterated DEF small, big

LEMMA SumEmpty == ASSUME NEW f PROVE SumFunctionOnSet(f, {}) = 0
<1> DEFINE it == CHOOSE it : IteratesSum(it, f, {})
<1>1. it[{}] = TakesFirst(it, f, {})
  BY SumIterates, FS_EmptySet
<1>2. SumFunctionOnSet(f, {}) = it[{}]
  BY SumIsIterated
<1> QED
  BY <1>1, <1>2 DEF TakesFirst

LEMMA SumPicks ==
  ASSUME NEW f, NEW S, IsFiniteSet(S), S # {}
  PROVE  /\ FirstTaken(S) \in S
         /\ SumFunctionOnSet(f, S) = f[FirstTaken(S)] + SumFunctionOnSet(f, S \ {FirstTaken(S)})
<1> DEFINE it == CHOOSE it : IteratesSum(it, f, S)
<1>1. it[S] = TakesFirst(it, f, S)
  BY SumIterates
<1>2. \A T \in SUBSET S : SumFunctionOnSet(f, T) = it[T]
  BY SumOfSubset
<1> HIDE DEF it
<1> QED
  BY <1>1, <1>2 DEF TakesFirst, FirstTaken

\* A sum of integers is an integer.
LEMMA SumInt ==
  ASSUME NEW f, NEW S, IsFiniteSet(S), \A x \in S : f[x] \in Int
  PROVE  SumFunctionOnSet(f, S) \in Int
<1> DEFINE Wrong == {T \in SUBSET S : SumFunctionOnSet(f, T) \notin Int}
<1> SUFFICES ASSUME Wrong # {} PROVE FALSE
  OBVIOUS
<1>1. Wrong \in SUBSET (SUBSET S)
  OBVIOUS
<1>2. PICK T \in Wrong : \A U \in Wrong : U \subseteq T => U = T
  <2> HIDE DEF Wrong
  <2> QED
    BY <1>1, LeastSubset
<1>3. T \in SUBSET S /\ IsFiniteSet(T) /\ SumFunctionOnSet(f, T) \notin Int
  BY FS_Subset
<1>4. T # {}
  BY <1>3, SumEmpty
<1>5. /\ FirstTaken(T) \in T
      /\ SumFunctionOnSet(f, T) = f[FirstTaken(T)] + SumFunctionOnSet(f, T \ {FirstTaken(T)})
  BY <1>3, <1>4, SumPicks
<1>6. SumFunctionOnSet(f, T \ {FirstTaken(T)}) \in Int
  BY <1>2, <1>3, <1>5
<1> QED
  BY <1>3, <1>5, <1>6

\* Any element may be taken out first.
LEMMA SumTakes ==
  ASSUME NEW f, NEW S, IsFiniteSet(S), \A x \in S : f[x] \in Int, NEW x \in S
  PROVE  SumFunctionOnSet(f, S) = f[x] + SumFunctionOnSet(f, S \ {x})
<1> DEFINE Takes(T) == \A y \in T :
                         SumFunctionOnSet(f, T) = f[y] + SumFunctionOnSet(f, T \ {y})
           Wrong == {T \in SUBSET S : ~Takes(T)}
<1>1. ASSUME Wrong # {} PROVE FALSE
  <2>1. Wrong \in SUBSET (SUBSET S)
    OBVIOUS
  <2>2. PICK T \in Wrong : \A U \in Wrong : U \subseteq T => U = T
    <3> HIDE DEF Wrong
    <3> QED
      BY <1>1, <2>1, LeastSubset
  <2>3. T \in SUBSET S /\ IsFiniteSet(T)
    BY FS_Subset
  <2>4. PICK y \in T : SumFunctionOnSet(f, T) # f[y] + SumFunctionOnSet(f, T \ {y})
    OBVIOUS
  <2> DEFINE p == FirstTaken(T)
  <2>5. p \in T /\ SumFunctionOnSet(f, T) = f[p] + SumFunctionOnSet(f, T \ {p})
    BY <2>3, <2>4, SumPicks
  <2> HIDE DEF p
  <2>6. p # y
    BY <2>4, <2>5
  <2>7. Takes(T \ {p}) /\ Takes(T \ {y})
    <3>1. T \ {p} \in SUBSET S /\ T \ {y} \in SUBSET S
      BY <2>3
    <3>2. T \ {p} \notin Wrong /\ T \ {y} \notin Wrong
      <4> HIDE DEF Wrong
      <4> QED
        BY <2>2, <2>4, <2>5
    <3> HIDE DEF Takes
    <3> QED
      BY <3>1, <3>2
  <2>8. y \in T \ {p} /\ p \in T \ {y} /\ (T \ {p}) \ {y} = (T \ {y}) \ {p}
    BY <2>4, <2>5, <2>6
  <2> DEFINE rest == SumFunctionOnSet(f, (T \ {y}) \ {p})
  <2>9. /\ SumFunctionOnSet(f, T \ {p}) = f[y] + rest
        /\ SumFunctionOnSet(f, T \ {y}) = f[p] + rest
    BY <2>7, <2>8
  <2>10. rest \in Int /\ f[y] \in Int /\ f[p] \in Int
    <3>1. (T \ {y}) \ {p} \in SUBSET S
      BY <2>3
    <3>2. IsFiniteSet((T \ {y}) \ {p})
      BY <3>1, FS_Subset
    <3> QED
      BY <2>3, <2>4, <2>5, <3>1, <3>2, SumInt
  <2> HIDE DEF rest
  <2> QED
    BY <2>4, <2>5, <2>9, <2>10
<1>2. S \notin Wrong
  BY <1>1
<1> QED
  BY <1>2

\* One element.
LEMMA SumSingle ==
  ASSUME NEW f, NEW x, f[x] \in Int
  PROVE  SumFunctionOnSet(f, {x}) = f[x]
<1>1. IsFiniteSet({x}) /\ {x} \ {x} = {}
  BY FS_Singleton
<1>2. SumFunctionOnSet(f, {x}) = f[x] + SumFunctionOnSet(f, {x} \ {x})
  BY <1>1, SumTakes
<1> QED
  BY <1>1, <1>2, SumEmpty

\* A sum depends on the values at its elements only, and sums add up.
LEMMA SumAdds ==
  ASSUME NEW f, NEW g, NEW h, NEW S, IsFiniteSet(S),
         \A x \in S : f[x] \in Int /\ g[x] \in Int /\ h[x] = f[x] + g[x]
  PROVE  SumFunctionOnSet(h, S) = SumFunctionOnSet(f, S) + SumFunctionOnSet(g, S)
<1> DEFINE Wrong == {T \in SUBSET S : SumFunctionOnSet(h, T) #
                       SumFunctionOnSet(f, T) + SumFunctionOnSet(g, T)}
<1>1. ASSUME Wrong # {} PROVE FALSE
  <2>1. PICK T \in Wrong : \A U \in Wrong : U \subseteq T => U = T
    <3>1. Wrong \in SUBSET (SUBSET S)
      OBVIOUS
    <3> HIDE DEF Wrong
    <3> QED
      BY <1>1, <3>1, LeastSubset
  <2>2. /\ T \in SUBSET S /\ IsFiniteSet(T)
        /\ SumFunctionOnSet(h, T) # SumFunctionOnSet(f, T) + SumFunctionOnSet(g, T)
    BY FS_Subset
  <2>3. PICK x \in T : TRUE
    BY <2>2, SumEmpty
  <2>4. T \ {x} \in SUBSET S /\ T \ {x} \notin Wrong
    <3> HIDE DEF Wrong
    <3> QED
      BY <2>1, <2>2, <2>3
  <2> DEFINE U == T \ {x}
  <2>5. IsFiniteSet(U) /\ U \in SUBSET S
    BY <2>4, FS_Subset
  <2>6. /\ SumFunctionOnSet(f, T) = f[x] + SumFunctionOnSet(f, U)
        /\ SumFunctionOnSet(g, T) = g[x] + SumFunctionOnSet(g, U)
        /\ SumFunctionOnSet(h, T) = h[x] + SumFunctionOnSet(h, U)
    BY <2>2, <2>3, SumTakes
  <2>7. /\ SumFunctionOnSet(f, U) \in Int /\ SumFunctionOnSet(g, U) \in Int
        /\ SumFunctionOnSet(h, U) = SumFunctionOnSet(f, U) + SumFunctionOnSet(g, U)
    BY <2>4, <2>5, SumInt
  <2> HIDE DEF U, Wrong
  <2> QED
    BY <2>2, <2>3, <2>6, <2>7
<1> QED
  BY <1>1

LEMMA ZeroDoubled == ASSUME NEW n \in Int, n = n + n PROVE n = 0
OBVIOUS

\* Zeros add up to zero.
LEMMA SumZero ==
  ASSUME NEW f, NEW S, IsFiniteSet(S), \A x \in S : f[x] = 0
  PROVE  SumFunctionOnSet(f, S) = 0
<1>1. \A x \in S : f[x] \in Int /\ f[x] \in Int /\ f[x] = f[x] + f[x]
  OBVIOUS
<1>2. SumFunctionOnSet(f, S) = SumFunctionOnSet(f, S) + SumFunctionOnSet(f, S)
  BY <1>1, SumAdds
<1>3. SumFunctionOnSet(f, S) \in Int
  BY <1>1, SumInt
<1> QED
  BY <1>2, <1>3, ZeroDoubled, Zenon

\* Equal values have equal sums.
LEMMA SumSame ==
  ASSUME NEW f, NEW g, NEW S, IsFiniteSet(S),
         \A x \in S : f[x] \in Int /\ f[x] = g[x]
  PROVE  SumFunctionOnSet(f, S) = SumFunctionOnSet(g, S)
<1> DEFINE zero == [x \in S |-> 0]
<1>1. SumFunctionOnSet(zero, S) = 0
  BY SumZero
<1>2. \A x \in S : f[x] \in Int /\ zero[x] \in Int /\ g[x] = f[x] + zero[x]
  OBVIOUS
<1> HIDE DEF zero
<1>3. SumFunctionOnSet(g, S) = SumFunctionOnSet(f, S) + SumFunctionOnSet(zero, S)
  BY <1>2, SumAdds
<1>4. SumFunctionOnSet(f, S) \in Int
  BY SumInt
<1> QED
  BY <1>1, <1>3, <1>4

\* The sum of a function is the sum over its domain, of any function with its values.
LEMMA SumOver ==
  ASSUME NEW f, NEW S, IsFiniteSet(S), \A x \in S : f[x] \in Int
  PROVE  SumFunction([x \in S |-> f[x]]) = SumFunctionOnSet(f, S)
<1> DEFINE g == [x \in S |-> f[x]]
<1>1. \A x \in S : f[x] \in Int /\ f[x] = g[x]
  OBVIOUS
<1>2. DOMAIN g = S
  OBVIOUS
<1> HIDE DEF g
<1>3. SumFunctionOnSet(f, S) = SumFunctionOnSet(g, S)
  BY <1>1, SumSame
<1>4. SumFunction(g) = SumFunctionOnSet(g, S)
  BY <1>2 DEF SumFunction
<1> QED
  BY <1>3, <1>4 DEF g

\* The sum over two sets without a common element.
LEMMA SumUnion ==
  ASSUME NEW f, NEW S, NEW T, IsFiniteSet(S), IsFiniteSet(T), S \cap T = {},
         \A x \in S \cup T : f[x] \in Int
  PROVE  SumFunctionOnSet(f, S \cup T) = SumFunctionOnSet(f, S) + SumFunctionOnSet(f, T)
<1> DEFINE Wrong == {U \in SUBSET S : SumFunctionOnSet(f, U \cup T) #
                       SumFunctionOnSet(f, U) + SumFunctionOnSet(f, T)}
<1>0. SumFunctionOnSet(f, T) \in Int
  BY SumInt
<1>1. ASSUME Wrong # {} PROVE FALSE
  <2>1. PICK U \in Wrong : \A V \in Wrong : V \subseteq U => V = U
    <3>1. Wrong \in SUBSET (SUBSET S)
      OBVIOUS
    <3> HIDE DEF Wrong
    <3> QED
      BY <1>1, <3>1, LeastSubset
  <2>2. /\ U \in SUBSET S /\ IsFiniteSet(U)
        /\ SumFunctionOnSet(f, U \cup T) # SumFunctionOnSet(f, U) + SumFunctionOnSet(f, T)
    BY FS_Subset
  <2>3. PICK x \in U : TRUE
    <3>1. CASE U = {}
      <4>1. U \cup T = T
        BY <3>1
      <4> QED
        BY <1>0, <2>2, <3>1, <4>1, SumEmpty
    <3> QED
      BY <3>1
  <2> DEFINE V == U \ {x}
  <2>4. V \in SUBSET S /\ V \notin Wrong /\ IsFiniteSet(V)
    <3>1. V \in SUBSET S /\ V # U /\ V \subseteq U
      BY <2>2, <2>3
    <3> HIDE DEF Wrong, V
    <3> QED
      BY <2>1, <3>1, FS_Subset
  <2>5. /\ SumFunctionOnSet(f, V \cup T) = SumFunctionOnSet(f, V) + SumFunctionOnSet(f, T)
        /\ SumFunctionOnSet(f, V) \in Int
    BY <2>4, SumInt
  <2>6. SumFunctionOnSet(f, U) = f[x] + SumFunctionOnSet(f, V)
    BY <2>2, <2>3, SumTakes
  <2>7. SumFunctionOnSet(f, U \cup T) = f[x] + SumFunctionOnSet(f, V \cup T)
    <3>1. (U \cup T) \ {x} = V \cup T
      BY <2>2, <2>3
    <3>2. IsFiniteSet(U \cup T)
      BY <2>2, FS_Union
    <3>3. x \in U \cup T /\ \A y \in U \cup T : f[y] \in Int
      BY <2>2, <2>3
    <3> HIDE DEF V
    <3>4. SumFunctionOnSet(f, U \cup T) = f[x] + SumFunctionOnSet(f, (U \cup T) \ {x})
      BY <3>2, <3>3, SumTakes
    <3> QED
      BY <3>1, <3>4
  <2>8. f[x] \in Int
    BY <2>2, <2>3
  <2> HIDE DEF V, Wrong
  <2> QED
    BY <1>0, <2>2, <2>5, <2>6, <2>7, <2>8
<1> QED
  BY <1>1

\* A sum over the parts of a set.
LEMMA SumOfParts ==
  ASSUME NEW f, NEW S, IsFiniteSet(S), \A x \in S : f[x] \in Int,
         NEW K, IsFiniteSet(K), NEW part,
         \A k \in K : part[k] \subseteq S,
         \A x \in S : \E k \in K : x \in part[k],
         \A k, l \in K : \A x \in part[k] : x \in part[l] => k = l,
         NEW g, \A k \in K : g[k] = SumFunctionOnSet(f, part[k])
  PROVE  SumFunctionOnSet(f, S) = SumFunctionOnSet(g, K)
<1> DEFINE Of(L) == UNION {part[k] : k \in L}
           Wrong == {L \in SUBSET K : SumFunctionOnSet(f, Of(L)) # SumFunctionOnSet(g, L)}
<1>1. ASSUME Wrong # {} PROVE FALSE
  <2>1. PICK L \in Wrong : \A M \in Wrong : M \subseteq L => M = L
    <3>1. Wrong \in SUBSET (SUBSET K)
      OBVIOUS
    <3> HIDE DEF Wrong
    <3> QED
      BY <1>1, <3>1, LeastSubset
  <2>2. /\ L \in SUBSET K /\ IsFiniteSet(L)
        /\ SumFunctionOnSet(f, Of(L)) # SumFunctionOnSet(g, L)
    BY FS_Subset
  <2>3. PICK k \in L : TRUE
    <3>1. CASE L = {}
      <4>1. Of(L) = {}
        BY <3>1
      <4> QED
        BY <2>2, <3>1, <4>1, SumEmpty
    <3> QED
      BY <3>1
  <2> DEFINE M == L \ {k}
             rest == Of(M)
             whole == Of(L)
  <2>4. M \in SUBSET K /\ M \notin Wrong /\ IsFiniteSet(M)
    <3>1. M \in SUBSET K /\ M # L /\ M \subseteq L
      BY <2>2, <2>3
    <3> HIDE DEF Wrong, M
    <3> QED
      BY <2>1, <3>1, FS_Subset
  <2>5. whole = part[k] \cup rest /\ rest \in SUBSET S /\ part[k] \in SUBSET S
    BY <2>2, <2>3
  <2>6. part[k] \cap rest = {}
    <3> SUFFICES ASSUME NEW l \in M, NEW x \in part[k], x \in part[l] PROVE FALSE
      OBVIOUS
    <3>1. k \in K /\ l \in K /\ l # k
      BY <2>2
    <3> QED
      BY <3>1
  <2>7. SumFunctionOnSet(f, rest) = SumFunctionOnSet(g, M)
    BY <2>4
  <2>8. SumFunctionOnSet(f, part[k] \cup rest)
          = SumFunctionOnSet(f, part[k]) + SumFunctionOnSet(f, rest)
    <3>1. IsFiniteSet(part[k]) /\ IsFiniteSet(rest)
      BY <2>5, FS_Subset
    <3>2. \A x \in part[k] \cup rest : f[x] \in Int
      BY <2>5
    <3> HIDE DEF rest
    <3> QED
      BY <2>6, <3>1, <3>2, SumUnion
  <2>9. SumFunctionOnSet(g, L) = g[k] + SumFunctionOnSet(g, M)
    <3>1. \A l \in L : g[l] \in Int
      <4> SUFFICES ASSUME NEW l \in L PROVE SumFunctionOnSet(f, part[l]) \in Int
        BY <2>2
      <4>1. part[l] \in SUBSET S
        BY <2>2
      <4>2. IsFiniteSet(part[l])
        BY <4>1, FS_Subset
      <4> QED
        BY <4>1, <4>2, SumInt
    <3> QED
      BY <2>2, <2>3, <3>1, SumTakes
  <2>10. g[k] = SumFunctionOnSet(f, part[k])
    BY <2>2, <2>3
  <2>11. SumFunctionOnSet(f, whole) # SumFunctionOnSet(g, L)
    BY <2>2
  <2> HIDE DEF M, rest, whole, Wrong
  <2> QED
    BY <2>5, <2>7, <2>8, <2>9, <2>10, <2>11
<1>2. SumFunctionOnSet(f, Of(K)) = SumFunctionOnSet(g, K)
  BY <1>1
<1>3. Of(K) = S
  OBVIOUS
<1> QED
  BY <1>2, <1>3

\* A sum over elements that are named anew, each by a name of its own.
LEMMA SumRenamed ==
  ASSUME NEW f, NEW S, IsFiniteSet(S), \A x \in S : f[x] \in Int,
         NEW name, NEW T, IsFiniteSet(T), \A x \in S : name[x] \in T,
         \A t \in T : \E x \in S : name[x] = t,
         \A x, y \in S : name[x] = name[y] => x = y,
         NEW g, \A x \in S : g[name[x]] = f[x]
  PROVE  SumFunctionOnSet(f, S) = SumFunctionOnSet(g, T)
<1> DEFINE part == [t \in T |-> {x \in S : name[x] = t}]
<1>1. ASSUME NEW t \in T PROVE g[t] = SumFunctionOnSet(f, part[t])
  <2>1. PICK x \in S : name[x] = t
    OBVIOUS
  <2>2. part[t] = {x}
    BY <2>1
  <2>3. g[t] = f[x] /\ f[x] \in Int
    BY <2>1
  <2>4. SumFunctionOnSet(f, {x}) = f[x]
    BY <2>3, SumSingle
  <2> HIDE DEF part
  <2> QED
    BY <2>2, <2>3, <2>4
<1>2. /\ \A t \in T : part[t] \subseteq S
      /\ \A x \in S : \E t \in T : x \in part[t]
      /\ \A t, u \in T : \A x \in part[t] : x \in part[u] => t = u
  OBVIOUS
<1> HIDE DEF part
<1> QED
  BY <1>1, <1>2, SumOfParts

\* A multiple of every term is a multiple of the sum.
LEMMA SumMultiplies ==
  ASSUME NEW f, NEW g, NEW S, IsFiniteSet(S), \A x \in S : f[x] \in Int /\ g[x] = 10 * f[x]
  PROVE  SumFunctionOnSet(g, S) = 10 * SumFunctionOnSet(f, S)
<1> DEFINE Wrong == {T \in SUBSET S :
                       SumFunctionOnSet(g, T) # 10 * SumFunctionOnSet(f, T)}
<1>1. ASSUME Wrong # {} PROVE FALSE
  <2>1. PICK T \in Wrong : \A U \in Wrong : U \subseteq T => U = T
    <3>1. Wrong \in SUBSET (SUBSET S)
      OBVIOUS
    <3> HIDE DEF Wrong
    <3> QED
      BY <1>1, <3>1, LeastSubset
  <2>2. /\ T \in SUBSET S /\ IsFiniteSet(T)
        /\ SumFunctionOnSet(g, T) # 10 * SumFunctionOnSet(f, T)
    BY FS_Subset
  <2>3. PICK x \in T : TRUE
    BY <2>2, SumEmpty
  <2> DEFINE U == T \ {x}
  <2>4. U \in SUBSET S /\ U \notin Wrong /\ IsFiniteSet(U)
    <3>1. U \in SUBSET S /\ U # T /\ U \subseteq T
      BY <2>2, <2>3
    <3> HIDE DEF Wrong, U
    <3> QED
      BY <2>1, <3>1, FS_Subset
  <2>5. /\ SumFunctionOnSet(f, T) = f[x] + SumFunctionOnSet(f, U)
        /\ SumFunctionOnSet(g, T) = g[x] + SumFunctionOnSet(g, U)
    BY <2>2, <2>3, SumTakes
  <2>6. /\ SumFunctionOnSet(f, U) \in Int
        /\ SumFunctionOnSet(g, U) = 10 * SumFunctionOnSet(f, U)
    BY <2>4, SumInt
  <2> HIDE DEF U, Wrong
  <2> QED
    BY <2>2, <2>3, <2>5, <2>6
<1> QED
  BY <1>1

\* Counting is adding ones.
LEMMA CountIsSum ==
  ASSUME NEW one, NEW S, IsFiniteSet(S), \A x \in S : one[x] = 1
  PROVE  Cardinality(S) = SumFunctionOnSet(one, S)
<1> DEFINE Wrong == {T \in SUBSET S : Cardinality(T) # SumFunctionOnSet(one, T)}
<1>1. ASSUME Wrong # {} PROVE FALSE
  <2>1. PICK T \in Wrong : \A U \in Wrong : U \subseteq T => U = T
    <3>1. Wrong \in SUBSET (SUBSET S)
      OBVIOUS
    <3> HIDE DEF Wrong
    <3> QED
      BY <1>1, <3>1, LeastSubset
  <2>2. /\ T \in SUBSET S /\ IsFiniteSet(T)
        /\ Cardinality(T) # SumFunctionOnSet(one, T)
    BY FS_Subset
  <2>3. PICK x \in T : TRUE
    BY <2>2, SumEmpty, FS_EmptySet
  <2> DEFINE U == T \ {x}
  <2>4. U \in SUBSET S /\ U \notin Wrong /\ IsFiniteSet(U)
    <3>1. U \in SUBSET S /\ U # T /\ U \subseteq T
      BY <2>2, <2>3
    <3> HIDE DEF Wrong, U
    <3> QED
      BY <2>1, <3>1, FS_Subset
  <2>5. SumFunctionOnSet(one, T) = one[x] + SumFunctionOnSet(one, U)
    BY <2>2, <2>3, SumTakes
  <2>6. Cardinality(U) = Cardinality(T) - 1 /\ Cardinality(T) \in Nat
    BY <2>2, <2>3, FS_RemoveElement, FS_CardinalityType
  <2>7. Cardinality(U) = SumFunctionOnSet(one, U) /\ one[x] = 1
    BY <2>2, <2>4
  <2> HIDE DEF U, Wrong
  <2> QED
    BY <2>2, <2>5, <2>6, <2>7
<1> QED
  BY <1>1

\* The values of a function on a finite set.
LEMMA FiniteValues ==
  ASSUME NEW S, IsFiniteSet(S), NEW f
  PROVE  IsFiniteSet({f[x] : x \in S})
<1> DEFINE T == {f[x] : x \in S}
           g == [x \in S |-> f[x]]
<1>1. g \in Surjection(S, T)
  BY DEF Surjection
<1> HIDE DEF g, T
<1>2. IsFiniteSet(T)
  BY <1>1, FS_Surjection
<1> QED
  BY <1>2 DEF T
\* A finite set has a last element of a total order.
LEMMA LastOfOrdered ==
  ASSUME NEW S, IsFiniteSet(S), S # {}, NEW later,
         \A a, b \in S : a # b => b \in later[a] \/ a \in later[b],
         \A a, b, c \in S : b \in later[a] /\ c \in later[b] => c \in later[a]
  PROVE  \E a \in S : \A b \in S \ {a} : a \in later[b]
<1> DEFINE HasLast(T) == \E a \in T : \A b \in T \ {a} : a \in later[b]
           Wrong == {T \in SUBSET S : T # {} /\ ~HasLast(T)}
<1>1. ASSUME Wrong # {} PROVE FALSE
  <2>1. PICK T \in Wrong : \A U \in Wrong : U \subseteq T => U = T
    <3>1. Wrong \in SUBSET (SUBSET S)
      OBVIOUS
    <3> HIDE DEF Wrong
    <3> QED
      BY <1>1, <3>1, LeastSubset
  <2>2. T \subseteq S /\ T # {} /\ ~HasLast(T)
    OBVIOUS
  <2>3. PICK x \in T : TRUE
    BY <2>2
  <2>4. T \ {x} # {}
    BY <2>2
  <2>5. HasLast(T \ {x})
    <3>1. T \ {x} \in Wrong => T \ {x} = T
      <4> HIDE DEF Wrong
      <4> QED
        BY <2>1
    <3> QED
      BY <2>2, <2>3, <2>4, <3>1
  <2>6. PICK a \in T \ {x} : \A b \in (T \ {x}) \ {a} : a \in later[b]
    BY <2>5
  <2>7. CASE a \in later[x]
    <3>1. \A b \in T \ {a} : a \in later[b]
      BY <2>6, <2>7
    <3> QED
      BY <2>2, <2>6, <3>1
  <2>8. CASE x \in later[a]
    <3>1. \A b \in T \ {x} : x \in later[b]
      <4> TAKE b \in T \ {x}
      <4>1. CASE b = a
        BY <2>8, <4>1
      <4>2. CASE b # a
        BY <2>2, <2>3, <2>6, <2>8, <4>2
      <4> QED
        BY <4>1, <4>2
    <3> QED
      BY <2>2, <2>3, <3>1
  <2> QED
    BY <2>2, <2>3, <2>6, <2>7, <2>8
<1> QED
  BY <1>1

\* A finite set of integers has a least and a largest element.
LEMMA FiniteExtrema ==
  ASSUME NEW S \in SUBSET Int, IsFiniteSet(S), S # {}
  PROVE  /\ Min(S) \in S /\ \A x \in S : Min(S) <= x
         /\ Max(S) \in S /\ \A x \in S : Max(S) >= x
<1> DEFINE above == [a \in S |-> {b \in S : a < b}]
           below == [a \in S |-> {b \in S : a > b}]
<1>1. /\ \A a, b \in S : b \in above[a] <=> a < b
      /\ \A a, b \in S : b \in below[a] <=> a > b
  OBVIOUS
<1> HIDE DEF above, below
<1>2. PICK a \in S : \A b \in S \ {a} : a \in above[b]
  <2>1. \A c, d \in S : c # d => d \in above[c] \/ c \in above[d]
    <3> TAKE c, d \in S
    <3>1. c # d => c < d \/ d < c
      OBVIOUS
    <3> QED
      BY <1>1, <3>1
  <2>2. \A c, d, e \in S : d \in above[c] /\ e \in above[d] => e \in above[c]
    <3> TAKE c, d, e \in S
    <3>1. c < d /\ d < e => c < e
      OBVIOUS
    <3> QED
      BY <1>1, <3>1
  <2> QED
    BY <2>1, <2>2, LastOfOrdered
<1>3. PICK z \in S : \A b \in S \ {z} : z \in below[b]
  <2>1. \A c, d \in S : c # d => d \in below[c] \/ c \in below[d]
    <3> TAKE c, d \in S
    <3>1. c # d => c < d \/ d < c
      OBVIOUS
    <3> QED
      BY <1>1, <3>1
  <2>2. \A c, d, e \in S : d \in below[c] /\ e \in below[d] => e \in below[c]
    <3> TAKE c, d, e \in S
    <3>1. c > d /\ d > e => c > e
      OBVIOUS
    <3> QED
      BY <1>1, <3>1
  <2> QED
    BY <2>1, <2>2, LastOfOrdered
<1>4. ASSUME NEW x \in S PROVE x <= a
  <2>1. x = a \/ x < a
    BY <1>1, <1>2
  <2>2. x \in Int /\ a \in Int
    OBVIOUS
  <2> QED
    BY <2>1, <2>2
<1>5. ASSUME NEW x \in S PROVE z <= x
  <2>1. x = z \/ x > z
    BY <1>1, <1>3
  <2>2. x \in Int /\ z \in Int
    OBVIOUS
  <2> QED
    BY <2>1, <2>2
<1>6. Min(S) \in S /\ \A x \in S : Min(S) <= x
  <2>1. z \in Int /\ \A x \in S : x >= z
    BY <1>5
  <2> QED
    BY <2>1, MinOfBounded
<1>7. Max(S) \in S /\ \A x \in S : Max(S) >= x
  <2>1. a \in Int /\ \A x \in S : x <= a
    BY <1>4
  <2> QED
    BY <2>1, MaxOfBounded
<1> QED
  BY <1>6, <1>7
=============================================================================
