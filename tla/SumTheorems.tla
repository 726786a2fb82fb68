------------------------------ MODULE SumTheorems ------------------------------
(***************************************************************************)
(* Sums of the values of a function over a finite set (SumFunctionOnSet    *)
(* and SumFunction of Functions), for reports that add up.                 *)
(***************************************************************************)
EXTENDS Functions, FiniteSetTheorems, TLAPS

-------------------------------------------------------------------------------
(* Folds *)

\* Of the subsets of a finite set, one is smallest: what induction over finite sets rests on.
LEMMA Smallest ==
  ASSUME NEW S, IsFiniteSet(S), NEW sets \in SUBSET SUBSET S, sets # {}
  PROVE  \E least \in sets : \A T \in sets : T \subseteq least => T = least
<1>1. IsWellFoundedOn(StrictSubsetOrdering(S), SUBSET S)
  BY FS_StrictSubsetOrderingWellFounded, FS_FiniteSubsetsOfFinite
<1>2. \E least \in sets : \A T \in sets : <<T, least>> \notin StrictSubsetOrdering(S)
  BY <1>1, WFMin
<1> QED BY <1>2 DEF StrictSubsetOrdering

\* The fold that sums: what it is of a set is what it is of the set without an element.
Picked(T) == CHOOSE x \in T : TRUE
FoldsTo(iter, f, S) ==
  iter = [T \in SUBSET S |-> IF T = {} THEN 0 ELSE f[Picked(T)] + iter[T \ {Picked(T)}]]

LEMMA PickedIn == \A T : T # {} => Picked(T) \in T
BY DEF Picked

LEMMA SumIsFold ==
  ASSUME NEW f, NEW S
  PROVE  SumFunctionOnSet(f, S) = (CHOOSE iter : FoldsTo(iter, f, S))[S]
BY DEF SumFunctionOnSet, FoldFunctionOnSet, MapThenFoldSet, FoldsTo, Picked

\* The folds of two sets are the same on what is in both.
LEMMA FoldsAgree ==
  ASSUME NEW f, NEW S, IsFiniteSet(S), NEW U \in SUBSET S, NEW a, NEW b, FoldsTo(a, f, S), FoldsTo(b, f, U)
  PROVE  a[U] = b[U]
<1> DEFINE differ == {T \in SUBSET U : a[T] # b[T]}
<1> SUFFICES ASSUME differ # {} PROVE FALSE
  BY Zenon
<1>1. IsFiniteSet(U)
  BY FS_Subset, Zenon
<1>2. PICK T \in differ : \A X \in differ : X \subseteq T => X = T
  <2> HIDE DEF differ
  <2>1. differ \in SUBSET SUBSET U
    BY DEF differ
  <2> QED BY <1>1, <2>1, Smallest
<1>3. ASSUME NEW iter, NEW D, FoldsTo(iter, f, D), T \in SUBSET D
      PROVE  iter[T] = IF T = {} THEN 0 ELSE f[Picked(T)] + iter[T \ {Picked(T)}]
  BY <1>3 DEF FoldsTo
<1>4. T \in SUBSET U /\ T \in SUBSET S
  OBVIOUS
<1>5. a[T] = IF T = {} THEN 0 ELSE f[Picked(T)] + a[T \ {Picked(T)}]
  BY <1>3, <1>4
<1>6. b[T] = IF T = {} THEN 0 ELSE f[Picked(T)] + b[T \ {Picked(T)}]
  BY <1>3, <1>4
<1>7. T # {} => a[T \ {Picked(T)}] = b[T \ {Picked(T)}]
  BY <1>2, PickedIn
<1>8. a[T] # b[T]
  OBVIOUS
<1> HIDE DEF differ
<1> QED BY <1>5, <1>6, <1>7, <1>8

LEMMA FoldExists ==
  ASSUME NEW f, NEW S, IsFiniteSet(S)
  PROVE  \E iter : FoldsTo(iter, f, S)
<1> DEFINE without == {T \in SUBSET S : ~ \E iter : FoldsTo(iter, f, T)}
<1> SUFFICES ASSUME without # {} PROVE FALSE
  OBVIOUS
<1>1. PICK T \in without : \A U \in without : U \subseteq T => U = T
  <2> HIDE DEF without
  <2>1. without \in SUBSET SUBSET S
    BY DEF without
  <2> QED BY <2>1, Smallest
<1>2. \A U \in SUBSET T : U # T => \E iter : FoldsTo(iter, f, U)
  BY <1>1
<1> DEFINE of(U) == CHOOSE iter : FoldsTo(iter, f, U)
           iter == [U \in SUBSET T |-> IF U = {} THEN 0 ELSE f[Picked(U)] + of(U \ {Picked(U)})[U \ {Picked(U)}]]
<1>3. \A U \in SUBSET T : U # T => FoldsTo(of(U), f, U)
  BY <1>2
<1> HIDE DEF of
<1>4. ASSUME NEW U \in SUBSET T, U # T, NEW V \in SUBSET U
      PROVE  of(U)[V] = IF V = {} THEN 0 ELSE f[Picked(V)] + of(U)[V \ {Picked(V)}]
  BY <1>3, <1>4 DEF FoldsTo
<1>5. ASSUME NEW U \in SUBSET T, U # T, NEW V \in SUBSET U
      PROVE  of(U)[V] = of(V)[V]
  <2>1. FoldsTo(of(U), f, U) /\ FoldsTo(of(V), f, V)
    BY <1>3, <1>5
  <2>2. IsFiniteSet(U)
    BY FS_Subset, Zenon
  <2> QED BY <2>1, <2>2, FoldsAgree
<1>6. FoldsTo(iter, f, T)
  <2>1. ASSUME NEW U \in SUBSET T
        PROVE  iter[U] = IF U = {} THEN 0 ELSE f[Picked(U)] + iter[U \ {Picked(U)}]
    <3>1. CASE U = {}
      BY <3>1
    <3>2. CASE U # {}
      <4> DEFINE V == U \ {Picked(U)}
      <4>1. Picked(U) \in U /\ V \in SUBSET T /\ V # T
        BY <3>2, PickedIn
      <4>2. iter[U] = f[Picked(U)] + of(V)[V]
        BY <3>2
      <4>3. iter[V] = of(V)[V]
        <5>1. CASE V = {}
          <6>1. iter[V] = 0
            BY <4>1, <5>1
          <6> QED BY <1>4, <4>1, <5>1, <6>1
        <5>2. CASE V # {}
          <6>1. Picked(V) \in V
            BY <5>2, PickedIn
          <6> DEFINE X == V \ {Picked(V)}
          <6>2. iter[V] = f[Picked(V)] + of(X)[X]
            BY <4>1, <5>2
          <6>3. of(V)[V] = f[Picked(V)] + of(V)[X]
            BY <1>4, <4>1, <5>2
          <6>4. of(V)[X] = of(X)[X]
            BY <1>5, <4>1
          <6> QED BY <6>2, <6>3, <6>4
        <5> QED BY <5>1, <5>2
      <4> QED BY <3>2, <4>2, <4>3
    <3> QED BY <3>1, <3>2
  <2>2. iter = [U \in SUBSET T |-> iter[U]]
    OBVIOUS
  <2> HIDE DEF iter
  <2> QED BY <2>1, <2>2, Zenon DEF FoldsTo
<1> QED BY <1>1, <1>6

-------------------------------------------------------------------------------
(* Sums *)

LEMMA SumOfEmpty == \A f : SumFunctionOnSet(f, {}) = 0
<1> SUFFICES ASSUME NEW f PROVE SumFunctionOnSet(f, {}) = 0
  OBVIOUS
<1> DEFINE iter == CHOOSE iter : FoldsTo(iter, f, {})
<1>1. FoldsTo(iter, f, {})
  BY FoldExists, FS_EmptySet
<1>2. SumFunctionOnSet(f, {}) = iter[{}]
  BY SumIsFold
<1> HIDE DEF iter
<1> QED BY <1>1, <1>2 DEF FoldsTo

LEMMA SumOfPicked ==
  ASSUME NEW f, NEW S, IsFiniteSet(S), S # {}
  PROVE  SumFunctionOnSet(f, S) = f[Picked(S)] + SumFunctionOnSet(f, S \ {Picked(S)})
<1> DEFINE rest == S \ {Picked(S)}
           of(T) == CHOOSE iter : FoldsTo(iter, f, T)
<1>1. IsFiniteSet(rest) /\ rest \in SUBSET S
  BY FS_Subset, Zenon
<1>2. FoldsTo(of(S), f, S) /\ FoldsTo(of(rest), f, rest)
  BY <1>1, FoldExists
<1>3. SumFunctionOnSet(f, S) = of(S)[S] /\ SumFunctionOnSet(f, rest) = of(rest)[rest]
  BY SumIsFold
<1> HIDE DEF of, rest
<1>4. of(S)[rest] = of(rest)[rest]
  BY <1>1, <1>2, FoldsAgree
<1>5. of(S)[S] = f[Picked(S)] + of(S)[rest]
  BY <1>2 DEF FoldsTo, rest
<1> QED BY <1>3, <1>4, <1>5 DEF rest

\* A sum of integers is an integer, and the same whichever element is added last.
LEMMA SumIsInt ==
  ASSUME NEW f, NEW S, IsFiniteSet(S), \A x \in S : f[x] \in Int
  PROVE  SumFunctionOnSet(f, S) \in Int
<1> DEFINE not == {T \in SUBSET S : SumFunctionOnSet(f, T) \notin Int}
<1> SUFFICES ASSUME not # {} PROVE FALSE
  OBVIOUS
<1>1. PICK T \in not : \A U \in not : U \subseteq T => U = T
  <2> HIDE DEF not
  <2>1. not \in SUBSET SUBSET S
    BY DEF not
  <2> QED BY <2>1, Smallest
<1>2. T # {}
  BY SumOfEmpty
<1>3. IsFiniteSet(T)
  BY FS_Subset, Zenon
<1>4. Picked(T) \in T
  BY <1>2, PickedIn
<1>5. SumFunctionOnSet(f, T \ {Picked(T)}) \in Int
  BY <1>1, <1>4
<1>6. SumFunctionOnSet(f, T) = f[Picked(T)] + SumFunctionOnSet(f, T \ {Picked(T)})
  BY <1>2, <1>3, SumOfPicked
<1> QED BY <1>4, <1>5, <1>6

LEMMA SumWithout ==
  ASSUME NEW f, NEW S, IsFiniteSet(S), \A x \in S : f[x] \in Int, NEW one \in S
  PROVE  SumFunctionOnSet(f, S) = f[one] + SumFunctionOnSet(f, S \ {one})
<1> DEFINE Sum(T) == SumFunctionOnSet(f, T)
           not == {T \in SUBSET S : \E x \in T : Sum(T) # f[x] + Sum(T \ {x})}
<1> SUFFICES ASSUME not # {} PROVE FALSE
  OBVIOUS
<1>1. PICK T \in not : \A U \in not : U \subseteq T => U = T
  <2> HIDE DEF not
  <2>1. not \in SUBSET SUBSET S
    BY DEF not
  <2> QED BY <2>1, Smallest
<1>2. PICK x \in T : Sum(T) # f[x] + Sum(T \ {x})
  OBVIOUS
<1> DEFINE p == Picked(T)
           both == (T \ {x}) \ {p}
<1>3. p \in T
  BY <1>2, PickedIn
<1>4. \A U \in SUBSET T : IsFiniteSet(U) /\ Sum(U) \in Int
  <2> SUFFICES ASSUME NEW U \in SUBSET T PROVE IsFiniteSet(U) /\ Sum(U) \in Int
    OBVIOUS
  <2>1. IsFiniteSet(U)
    BY FS_Subset, Zenon
  <2> QED BY <2>1, SumIsInt
<1>5. Sum(T) = f[p] + Sum(T \ {p})
  BY <1>2, <1>4, SumOfPicked
<1>6. \A U \in SUBSET T : U # T => \A y \in U : Sum(U) = f[y] + Sum(U \ {y})
  BY <1>1
<1> HIDE DEF Sum, p
<1>7. p # x
  BY <1>2, <1>5
<1>8. Sum(T \ {x}) = f[p] + Sum(both)
  BY <1>2, <1>3, <1>6, <1>7
<1>9. Sum(T \ {p}) = f[x] + Sum(both)
  <2>1. (T \ {p}) \ {x} = both
    OBVIOUS
  <2> QED BY <1>2, <1>3, <1>6, <1>7, <2>1
<1>10. f[p] \in Int /\ f[x] \in Int /\ Sum(both) \in Int
  BY <1>2, <1>3, <1>4
<1> QED BY <1>2, <1>5, <1>8, <1>9, <1>10

LEMMA SumWith ==
  ASSUME NEW f, NEW S, IsFiniteSet(S), NEW one, one \notin S, \A x \in S \union {one} : f[x] \in Int
  PROVE  SumFunctionOnSet(f, S \union {one}) = f[one] + SumFunctionOnSet(f, S)
<1>1. IsFiniteSet(S \union {one})
  BY FS_AddElement
<1>2. (S \union {one}) \ {one} = S
  OBVIOUS
<1> QED BY <1>1, <1>2, SumWithout

\* A sum depends on what is summed.
LEMMA SumOfSame ==
  ASSUME NEW f, NEW g, NEW S, IsFiniteSet(S), \A x \in S : f[x] = g[x]
  PROVE  SumFunctionOnSet(f, S) = SumFunctionOnSet(g, S)
<1> DEFINE not == {T \in SUBSET S : SumFunctionOnSet(f, T) # SumFunctionOnSet(g, T)}
<1> SUFFICES ASSUME not # {} PROVE FALSE
  OBVIOUS
<1>1. PICK T \in not : \A U \in not : U \subseteq T => U = T
  <2> HIDE DEF not
  <2>1. not \in SUBSET SUBSET S
    BY DEF not
  <2> QED BY <2>1, Smallest
<1>2. T # {}
  BY SumOfEmpty
<1>3. IsFiniteSet(T)
  BY FS_Subset, Zenon
<1>4. Picked(T) \in T
  BY <1>2, PickedIn
<1>5. SumFunctionOnSet(f, T \ {Picked(T)}) = SumFunctionOnSet(g, T \ {Picked(T)})
  BY <1>1, <1>4
<1>6. /\ SumFunctionOnSet(f, T) = f[Picked(T)] + SumFunctionOnSet(f, T \ {Picked(T)})
      /\ SumFunctionOnSet(g, T) = g[Picked(T)] + SumFunctionOnSet(g, T \ {Picked(T)})
  BY <1>2, <1>3, SumOfPicked
<1> QED BY <1>1, <1>4, <1>5, <1>6

\* What is summed by key and then over the keys is the sum of all: why a report may add up the
\* rows of the ledger under any column and give one total for all of its tables (export_usage).
THEOREM SumByKey ==
  ASSUME NEW S, IsFiniteSet(S), NEW f, \A x \in S : f[x] \in Int, NEW key
  PROVE  LET keys == {key[x] : x \in S}
         IN SumFunctionOnSet([k \in keys |-> SumFunctionOnSet(f, {x \in S : key[x] = k})], keys)
            = SumFunctionOnSet(f, S)
<1> DEFINE Keys(T) == {key[x] : x \in T}
           Those(T, k) == {x \in T : key[x] = k}
           Sum(T) == SumFunctionOnSet(f, T)
           by(T) == [k \in Keys(T) |-> Sum(Those(T, k))]
           BySum(T) == SumFunctionOnSet(by(T), Keys(T))
           not == {T \in SUBSET S : BySum(T) # Sum(T)}
<1> SUFFICES ASSUME not # {} PROVE FALSE
  OBVIOUS
<1>1. PICK T \in not : \A U \in not : U \subseteq T => U = T
  <2> HIDE DEF not
  <2>1. not \in SUBSET SUBSET S
    BY DEF not
  <2> QED BY <2>1, Smallest
<1>2. T # {}
  <2> SUFFICES BySum({}) = Sum({})
    BY <1>1
  <2>1. Keys({}) = {}
    OBVIOUS
  <2> QED BY <2>1, SumOfEmpty
<1>3. PICK one \in T : TRUE
  BY <1>2
<1> DEFINE rest == T \ {one}
           first == key[one]
<1>4. /\ T \in SUBSET S /\ rest \in SUBSET S /\ T = rest \union {one} /\ one \notin rest
      /\ BySum(T) # Sum(T) /\ BySum(rest) = Sum(rest)
  BY <1>1, <1>3
<1>5. \A U \in SUBSET S : IsFiniteSet(U) /\ Sum(U) \in Int
  <2> SUFFICES ASSUME NEW U \in SUBSET S PROVE IsFiniteSet(U) /\ Sum(U) \in Int
    OBVIOUS
  <2>1. IsFiniteSet(U)
    BY FS_Subset, Zenon
  <2> QED BY <2>1, SumIsInt
<1>6. \A U \in SUBSET S : IsFiniteSet(Keys(U))
  <2> SUFFICES ASSUME NEW U \in SUBSET S PROVE IsFiniteSet(Keys(U))
    OBVIOUS
  <2> DEFINE image == [x \in U |-> key[x]]
  <2>1. image \in Surjection(U, Keys(U))
    BY DEF Surjection
  <2> HIDE DEF image, Keys
  <2> QED BY <1>5, <2>1, FS_Surjection
<1>7. Sum(T) = f[one] + Sum(rest) /\ f[one] \in Int
  <2>1. f[one] \in Int /\ \A x \in rest \union {one} : f[x] \in Int
    BY <1>4
  <2> HIDE DEF rest
  <2> QED BY <1>4, <1>5, <2>1, SumWith
<1>8. \A U \in SUBSET S : \A k \in Keys(U) : by(U)[k] = Sum(Those(U, k)) /\ by(U)[k] \in Int
  <2> SUFFICES ASSUME NEW U \in SUBSET S, NEW k \in Keys(U)
               PROVE  by(U)[k] = Sum(Those(U, k)) /\ by(U)[k] \in Int
    OBVIOUS
  <2>1. Those(U, k) \in SUBSET S
    OBVIOUS
  <2>2. by(U)[k] = Sum(Those(U, k))
    OBVIOUS
  <2> HIDE DEF by, Those, Sum
  <2> QED BY <1>5, <2>1, <2>2
<1>9. \A k \in Keys(rest) : k # first => by(T)[k] = by(rest)[k]
  <2> SUFFICES ASSUME NEW k \in Keys(rest), k # first PROVE by(T)[k] = by(rest)[k]
    OBVIOUS
  <2>1. Those(T, k) = Those(rest, k) /\ k \in Keys(T)
    OBVIOUS
  <2>2. by(T)[k] = Sum(Those(T, k)) /\ by(rest)[k] = Sum(Those(rest, k))
    BY <2>1
  <2> QED BY <2>1, <2>2
<1>10. first \in Keys(T) /\ by(T)[first] = f[one] + Sum(Those(rest, first))
  <2>1. first \in Keys(T)
    BY <1>3
  <2>2. Those(T, first) = Those(rest, first) \union {one} /\ one \notin Those(rest, first)
    BY <1>3
  <2>3. Those(rest, first) \in SUBSET S /\ \A x \in Those(rest, first) \union {one} : f[x] \in Int
    BY <1>4
  <2>4. by(T)[first] = Sum(Those(T, first))
    BY <2>1
  <2> HIDE DEF Those, by
  <2>5. Sum(Those(rest, first) \union {one}) = f[one] + Sum(Those(rest, first))
    BY <1>5, <2>2, <2>3, SumWith
  <2> QED BY <2>1, <2>2, <2>4, <2>5
<1>11. Keys(T) = Keys(rest) \union {first}
  BY <1>4
<1> HIDE DEF Keys, by, Those, Sum, rest, first
<1>12. CASE first \in Keys(rest)
  <2> DEFINE others == Keys(rest) \ {first}
  <2>1. Keys(T) = Keys(rest) /\ IsFiniteSet(Keys(rest)) /\ IsFiniteSet(others)
    <3>1. IsFiniteSet(others)
      BY <1>4, <1>6, FS_RemoveElement
    <3> QED BY <1>4, <1>6, <1>11, <1>12, <3>1
  <2>2. BySum(T) = by(T)[first] + SumFunctionOnSet(by(T), others)
    BY <1>4, <1>8, <1>12, <2>1, SumWithout
  <2>3. BySum(rest) = by(rest)[first] + SumFunctionOnSet(by(rest), others)
    BY <1>4, <1>8, <1>12, <2>1, SumWithout
  <2>4. SumFunctionOnSet(by(T), others) = SumFunctionOnSet(by(rest), others)
    BY <1>9, <2>1, SumOfSame
  <2>5. SumFunctionOnSet(by(rest), others) \in Int /\ by(rest)[first] \in Int
    BY <1>4, <1>8, <1>12, <2>1, SumIsInt
  <2>6. by(T)[first] = f[one] + by(rest)[first]
    BY <1>4, <1>8, <1>10, <1>12
  <2> HIDE DEF others
  <2> QED BY <1>4, <1>7, <2>2, <2>3, <2>4, <2>5, <2>6
<1>13. CASE first \notin Keys(rest)
  <2>1. IsFiniteSet(Keys(rest))
    BY <1>4, <1>6
  <2>2. BySum(T) = by(T)[first] + SumFunctionOnSet(by(T), Keys(rest))
    BY <1>4, <1>8, <1>11, <1>13, <2>1, SumWith
  <2>3. SumFunctionOnSet(by(T), Keys(rest)) = BySum(rest)
    BY <1>9, <1>13, <2>1, SumOfSame
  <2>4. by(T)[first] = f[one]
    <3>1. Those(rest, first) = {}
      BY <1>13 DEF Those, Keys
    <3>2. Sum(Those(rest, first)) = 0
      BY <3>1, SumOfEmpty DEF Sum
    <3> QED BY <1>7, <1>10, <3>2
  <2>5. BySum(rest) \in Int
    BY <1>4, <1>5
  <2> QED BY <1>4, <1>7, <2>2, <2>3, <2>4, <2>5
<1> QED BY <1>12, <1>13

\* A function that has one more value.
LEMMA SumGrows ==
  ASSUME NEW f, NEW g, IsFiniteSet(DOMAIN f), NEW one, one \notin DOMAIN f,
         DOMAIN g = DOMAIN f \union {one},
         \A x \in DOMAIN f : g[x] = f[x] /\ f[x] \in Int, g[one] \in Int
  PROVE  SumFunction(g) = SumFunction(f) + g[one] /\ SumFunction(f) \in Int
<1>1. SumFunctionOnSet(g, DOMAIN g) = g[one] + SumFunctionOnSet(g, DOMAIN f)
  BY SumWith
<1>2. SumFunctionOnSet(g, DOMAIN f) = SumFunctionOnSet(f, DOMAIN f)
  BY SumOfSame
<1>3. SumFunctionOnSet(f, DOMAIN f) \in Int
  BY SumIsInt
<1> QED BY <1>1, <1>2, <1>3 DEF SumFunction

=============================================================================
