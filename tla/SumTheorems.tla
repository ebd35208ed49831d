---------------------------- MODULE SumTheorems ----------------------------
(***************************************************************************)
(* Facts about SumFunctionOnSet (module Functions), the sum the components *)
(* use for quantities, over a finite set.  The community modules define it *)
(* by recursion on subsets with an arbitrary choice of the next element;   *)
(* the lemmas show that the recursion is well defined and that the choice  *)
(* does not matter.  FoldLeft (module SequencesExt) is such a recursion    *)
(* over the positions of a list; it is shown to go through the list.       *)
(***************************************************************************)
EXTENDS FiniteSetsExt, FiniteSetTheorems, TLAPS

Pick(T) == CHOOSE x \in T : TRUE

\* One step of the recursion that defines the sum of f over T, with g the
\* sums of the smaller sets.
SumStep(f, g, T) == IF T = {} THEN 0 ELSE f[Pick(T)] + g[T \ {Pick(T)}]

\* The sums of f over the subsets of S.
SumsWithin(f, S) ==
    CHOOSE g : g = [T \in SUBSET S |-> SumStep(f, g, T)]

Solves(f, g, S) == \A T \in SUBSET S : g[T] = SumStep(f, g, T)

SumsOn(f, g, S) == g \in [SUBSET S -> Int] /\ Solves(f, g, S)

-----------------------------------------------------------------------------

\* The library's sum is the value at S of the recursive function.
LEMMA SumIsRecursive ==
    ASSUME NEW f, NEW S
    PROVE  SumFunctionOnSet(f, S) = SumsWithin(f, S)[S]
BY DEF SumFunctionOnSet, FoldFunctionOnSet, MapThenFoldSet, SumsWithin, SumStep, Pick

\* Induction over the subsets of a finite set: a non-empty set of them has an
\* element none of whose proper subsets is in it.
LEMMA MinimalSubset ==
    ASSUME NEW S, IsFiniteSet(S), NEW B \in SUBSET SUBSET S, B # {}
    PROVE  \E U \in B : \A V \in SUBSET U : V # U => V \notin B
<1>1. IsWellFoundedOn(StrictSubsetOrdering(S), FiniteSubsetsOf(S))
    BY FS_StrictSubsetOrderingWellFounded
<1>2. FiniteSubsetsOf(S) = SUBSET S
    BY FS_FiniteSubsetsOfFinite
<1>3. PICK U \in B : \A V \in B : ~ (<<V, U>> \in StrictSubsetOrdering(S))
    BY <1>1, <1>2, WFMin
<1>4. ASSUME NEW V \in SUBSET U, V # U, V \in B
      PROVE  FALSE
    <2>1. <<V, U>> \in (SUBSET S) \X (SUBSET S)
        OBVIOUS
    <2>2. <<V, U>> \in StrictSubsetOrdering(S)
        BY <2>1, <1>4 DEF StrictSubsetOrdering
    <2> QED BY <2>2, <1>3, <1>4
<1> QED BY <1>3, <1>4

\* A set of natural numbers that has an element up to n has a least one.
LEMMA LeastUpTo ==
    ASSUME NEW n \in Nat, NEW B, n \in B
    PROVE  \E q \in B \cap 0..n : \A k \in 0..(q - 1) : k \notin B
<1> DEFINE Segments == {T \in SUBSET (0..n) : \E q \in B \cap 0..n : T = 0..q}
<1>1. IsFiniteSet(0..n)
    BY FS_Interval
<1>2. 0..n \in Segments
    OBVIOUS
<1>3. PICK U \in Segments : \A V \in SUBSET U : V # U => V \notin Segments
    <2>1. Segments \in SUBSET SUBSET (0..n) /\ Segments # {}
        BY <1>2
    <2> HIDE DEF Segments
    <2> QED
        BY <1>1, <2>1, MinimalSubset
<1>4. PICK q \in B \cap 0..n : U = 0..q
    OBVIOUS
<1>5. ASSUME NEW k \in 0..(q - 1), k \in B PROVE FALSE
    <2>1. 0..k \in Segments /\ 0..k \in SUBSET U /\ q \in U /\ q \notin 0..k
        BY <1>4, <1>5
    <2> QED
        BY <1>3, <2>1
<1> QED
    BY <1>4, <1>5

\* The recursion picks a member.
LEMMA PickIsMember ==
    ASSUME NEW T, T # {}
    PROVE  Pick(T) \in T
BY DEF Pick

\* Two solutions agree on the sets both are defined on.
LEMMA SumsAgree ==
    ASSUME NEW f, NEW S, IsFiniteSet(S), NEW R, NEW Q, S \subseteq R, S \subseteq Q,
           NEW g, Solves(f, g, R), NEW h, Solves(f, h, Q)
    PROVE  g[S] = h[S]
<1> DEFINE B == {U \in SUBSET S : g[U] # h[U]}
<1>1. SUFFICES B = {}
    OBVIOUS
<1>2. SUFFICES ASSUME B # {} PROVE FALSE
    OBVIOUS
<1>3. PICK U \in B : \A V \in SUBSET U : V # U => V \notin B
    <2>1. B \in SUBSET SUBSET S
        OBVIOUS
    <2> HIDE DEF B
    <2> QED BY <2>1, <1>2, MinimalSubset
<1>4. U \in SUBSET R /\ U \in SUBSET Q
    OBVIOUS
<1>5. g[U] = SumStep(f, g, U) /\ h[U] = SumStep(f, h, U)
    BY <1>4 DEF Solves
<1>6. CASE U = {}
    BY <1>3, <1>5, <1>6 DEF SumStep
<1>7. CASE U # {}
    <2>1. Pick(U) \in U
        BY <1>7, PickIsMember
    <2>2. U \ {Pick(U)} \in SUBSET S /\ U \ {Pick(U)} \notin B
        BY <2>1, <1>3
    <2>3. g[U \ {Pick(U)}] = h[U \ {Pick(U)}]
        BY <2>2
    <2> QED BY <2>3, <1>3, <1>5, <1>7 DEF SumStep
<1> QED BY <1>6, <1>7

\* The recursion has a solution.
LEMMA SumsExist ==
    ASSUME NEW S, IsFiniteSet(S), NEW f, \A x \in S : f[x] \in Int
    PROVE  \E g : SumsOn(f, g, S)
<1> DEFINE Has(U) == \E g : SumsOn(f, g, U)
           B == {U \in SUBSET S : ~ Has(U)}
<1>1. SUFFICES ASSUME B # {} PROVE FALSE
    OBVIOUS
<1>2. PICK U \in B : \A V \in SUBSET U : V # U => V \notin B
    <2>1. B \in SUBSET SUBSET S
        OBVIOUS
    <2> HIDE DEF B
    <2> QED BY <2>1, <1>1, MinimalSubset
<1> DEFINE G(V) == CHOOSE g : SumsOn(f, g, V)
           Value(V) == IF V = U THEN IF U = {} THEN 0 ELSE f[Pick(U)] + G(U \ {Pick(U)})[U \ {Pick(U)}]
                               ELSE G(V)[V]
           w == [V \in SUBSET U |-> Value(V)]
<1>3. ASSUME NEW V \in SUBSET U, V # U
      PROVE  SumsOn(f, G(V), V)
    BY <1>2, <1>3
<1>4. ASSUME NEW V \in SUBSET U, V # {}
      PROVE  /\ Pick(V) \in V
             /\ V \ {Pick(V)} \in SUBSET U
             /\ V \ {Pick(V)} # U
             /\ V \ {Pick(V)} \in SUBSET V
             /\ IsFiniteSet(V \ {Pick(V)})
             /\ f[Pick(V)] \in Int
    <2>1. Pick(V) \in V
        BY <1>4, PickIsMember
    <2>2. IsFiniteSet(V \ {Pick(V)})
        BY FS_Subset
    <2> QED BY <2>1, <2>2
<1>5. ASSUME NEW V \in SUBSET U
      PROVE  Value(V) \in Int /\ Value(V) = SumStep(f, w, V)
    <2>1. CASE V = U /\ U = {}
        BY <2>1 DEF SumStep
    <2>2. CASE V = U /\ U # {}
        <3> DEFINE X == U \ {Pick(U)}
        <3>1. /\ X \in SUBSET U /\ X # U /\ f[Pick(U)] \in Int
            BY <2>2, <1>4
        <3>2. SumsOn(f, G(X), X)
            BY <3>1, <1>3
        <3>3. G(X)[X] \in Int
            BY <3>2 DEF SumsOn
        <3>4. w[X] = G(X)[X]
            BY <3>1
        <3>5. Value(U) = f[Pick(U)] + G(X)[X]
            BY <2>2
        <3> QED BY <3>1, <3>3, <3>4, <3>5, <2>2 DEF SumStep
    <2>3. CASE V # U
        <3>1. SumsOn(f, G(V), V)
            BY <2>3, <1>3
        <3>2. Value(V) = G(V)[V] /\ G(V)[V] \in Int /\ G(V)[V] = SumStep(f, G(V), V)
            BY <2>3, <3>1 DEF SumsOn, Solves
        <3>3. CASE V = {}
            BY <3>2, <3>3 DEF SumStep
        <3>4. CASE V # {}
            <4> DEFINE X == V \ {Pick(V)}
            <4>1. X \in SUBSET U /\ X # U /\ X \in SUBSET V /\ IsFiniteSet(X)
                BY <3>4, <1>4
            <4>2. SumsOn(f, G(X), X)
                BY <4>1, <1>3
            <4>3. G(V)[X] = G(X)[X]
                <5>1. X \subseteq V /\ X \subseteq X
                    BY <4>1
                <5> HIDE DEF X, G
                <5> QED BY <5>1, <4>1, <4>2, <3>1, SumsAgree DEF SumsOn
            <4>4. w[X] = G(X)[X]
                BY <4>1
            <4> QED BY <4>3, <4>4, <3>2, <3>4 DEF SumStep
        <3> QED BY <3>3, <3>4
    <2> QED BY <2>1, <2>2, <2>3
<1>6. SumsOn(f, w, U)
    <2>1. w \in [SUBSET U -> Int]
        BY <1>5
    <2>2. \A V \in SUBSET U : w[V] = SumStep(f, w, V)
        BY <1>5
    <2> QED BY <2>1, <2>2 DEF SumsOn, Solves
<1> QED BY <1>6, <1>2

\* The function the recursion chooses is a solution, with integer values.
LEMMA SumsWithinAreSums ==
    ASSUME NEW S, IsFiniteSet(S), NEW f, \A x \in S : f[x] \in Int
    PROVE  SumsOn(f, SumsWithin(f, S), S)
<1>1. PICK g : SumsOn(f, g, S)
    BY SumsExist
<1>2. g = [T \in SUBSET S |-> SumStep(f, g, T)]
    BY <1>1 DEF SumsOn, Solves
<1> DEFINE h == SumsWithin(f, S)
<1>3. h = [T \in SUBSET S |-> SumStep(f, h, T)]
    BY <1>2 DEF SumsWithin
<1>4. Solves(f, h, S)
    <2> HIDE DEF h
    <2> QED BY <1>3 DEF Solves
<1>5. ASSUME NEW T \in SUBSET S
      PROVE  h[T] = g[T]
    <2>1. IsFiniteSet(T)
        BY FS_Subset
    <2> HIDE DEF h
    <2> QED BY <2>1, <1>1, <1>4, SumsAgree DEF SumsOn
<1>6. h \in [SUBSET S -> Int]
    <2>1. \A T \in SUBSET S : h[T] \in Int
        BY <1>5, <1>1 DEF SumsOn
    <2> HIDE DEF h
    <2> QED BY <2>1, <1>3
<1> QED BY <1>4, <1>6 DEF SumsOn

-----------------------------------------------------------------------------

\* The sum over no element is zero.
THEOREM SumEmpty ==
    ASSUME NEW f
    PROVE  SumFunctionOnSet(f, {}) = 0
<1>1. SumsOn(f, SumsWithin(f, {}), {})
    BY FS_EmptySet, SumsWithinAreSums
<1> QED BY <1>1, SumIsRecursive DEF SumsOn, Solves, SumStep

\* A sum of integers is an integer.
THEOREM SumType ==
    ASSUME NEW S, IsFiniteSet(S), NEW f, \A x \in S : f[x] \in Int
    PROVE  SumFunctionOnSet(f, S) \in Int
<1>1. SumsOn(f, SumsWithin(f, S), S)
    BY SumsWithinAreSums
<1> QED BY <1>1, SumIsRecursive DEF SumsOn

\* A sum is the picked member's summand and the sum over the others.
LEMMA SumPick ==
    ASSUME NEW S, IsFiniteSet(S), NEW f, \A x \in S : f[x] \in Int, S # {}
    PROVE  SumFunctionOnSet(f, S) = f[Pick(S)] + SumFunctionOnSet(f, S \ {Pick(S)})
<1> DEFINE R == S \ {Pick(S)}
<1>1. R \subseteq S /\ R \subseteq R /\ IsFiniteSet(R)
    BY FS_Subset
<1>2. SumsOn(f, SumsWithin(f, S), S) /\ SumsOn(f, SumsWithin(f, R), R)
    BY <1>1, SumsWithinAreSums
<1>3. SumsWithin(f, S)[R] = SumsWithin(f, R)[R]
    <2> HIDE DEF R
    <2> QED BY <1>1, <1>2, SumsAgree DEF SumsOn
<1>4. SumsWithin(f, S)[S] = f[Pick(S)] + SumsWithin(f, S)[R]
    BY <1>2 DEF SumsOn, Solves, SumStep
<1> QED BY <1>3, <1>4, SumIsRecursive

\* Any element can be taken out of the sum first.
THEOREM SumRemove ==
    ASSUME NEW S, IsFiniteSet(S), NEW f, \A x \in S : f[x] \in Int, NEW x \in S
    PROVE  SumFunctionOnSet(f, S) = f[x] + SumFunctionOnSet(f, S \ {x})
<1> DEFINE Sum(U) == SumFunctionOnSet(f, U)
           B == {U \in SUBSET S : \E y \in U : Sum(U) # f[y] + Sum(U \ {y})}
<1>1. SUFFICES ASSUME B # {} PROVE FALSE
    OBVIOUS
<1>2. PICK U \in B : \A V \in SUBSET U : V # U => V \notin B
    <2>1. B \in SUBSET SUBSET S
        OBVIOUS
    <2> HIDE DEF B
    <2> QED BY <2>1, <1>1, MinimalSubset
<1>3. PICK y \in U : Sum(U) # f[y] + Sum(U \ {y})
    OBVIOUS
<1> DEFINE c == Pick(U)
<1>4. c \in U
    BY PickIsMember
<1>5. ASSUME NEW V \in SUBSET S
      PROVE  IsFiniteSet(V) /\ (\A z \in V : f[z] \in Int) /\ Sum(V) \in Int
    <2>1. IsFiniteSet(V) /\ \A z \in V : f[z] \in Int
        BY FS_Subset
    <2> QED BY <2>1, SumType
<1>6. Sum(U) = f[c] + Sum(U \ {c})
    BY <1>5, SumPick
<1>7. y # c
    BY <1>3, <1>6
<1>8. U \ {c} \in SUBSET S /\ U \ {c} \notin B /\ y \in U \ {c}
    BY <1>2, <1>4, <1>7
<1>9. Sum(U \ {c}) = f[y] + Sum((U \ {c}) \ {y})
    BY <1>8
<1>10. U \ {y} \in SUBSET S /\ U \ {y} \notin B /\ c \in U \ {y}
    BY <1>2, <1>4, <1>7
<1>11. Sum(U \ {y}) = f[c] + Sum((U \ {y}) \ {c})
    BY <1>10
<1>12. (U \ {y}) \ {c} = (U \ {c}) \ {y}
    OBVIOUS
<1>13. Sum((U \ {c}) \ {y}) \in Int /\ f[c] \in Int /\ f[y] \in Int
    BY <1>4, <1>5
<1>14. Sum(U) = f[y] + Sum(U \ {y})
    <2> DEFINE rest == Sum((U \ {c}) \ {y})
    <2>1. Sum(U) = f[c] + (f[y] + rest)
        BY <1>6, <1>9
    <2>2. Sum(U \ {y}) = f[c] + rest
        BY <1>11, <1>12
    <2>3. rest \in Int /\ f[c] \in Int /\ f[y] \in Int
        BY <1>13
    <2> HIDE DEF Sum, c, rest
    <2> QED BY <2>1, <2>2, <2>3
<1> QED BY <1>14, <1>3

\* The sum over a set with one more element.
THEOREM SumAdd ==
    ASSUME NEW S, IsFiniteSet(S), NEW x, x \notin S,
           NEW f, \A y \in S \cup {x} : f[y] \in Int
    PROVE  SumFunctionOnSet(f, S \cup {x}) = f[x] + SumFunctionOnSet(f, S)
<1>1. IsFiniteSet(S \cup {x})
    BY FS_AddElement
<1>2. (S \cup {x}) \ {x} = S
    OBVIOUS
<1> QED BY <1>1, <1>2, SumRemove

\* Summands that are zero add nothing.
THEOREM SumZero ==
    ASSUME NEW S, IsFiniteSet(S), NEW f, \A x \in S : f[x] = 0
    PROVE  SumFunctionOnSet(f, S) = 0
<1> DEFINE B == {U \in SUBSET S : SumFunctionOnSet(f, U) # 0}
<1>1. SUFFICES ASSUME B # {} PROVE FALSE
    OBVIOUS
<1>2. PICK U \in B : \A V \in SUBSET U : V # U => V \notin B
    <2>1. B \in SUBSET SUBSET S
        OBVIOUS
    <2> HIDE DEF B
    <2> QED BY <2>1, <1>1, MinimalSubset
<1>3. U # {}
    BY SumEmpty
<1>4. PICK x \in U : TRUE
    BY <1>3
<1>5. IsFiniteSet(U) /\ \A y \in U : f[y] \in Int
    BY FS_Subset
<1>6. SumFunctionOnSet(f, U) = f[x] + SumFunctionOnSet(f, U \ {x})
    BY <1>5, SumRemove
<1>7. SumFunctionOnSet(f, U \ {x}) = 0
    BY <1>2
<1> QED BY <1>6, <1>7

\* A sum of naturals is a natural.
THEOREM SumNat ==
    ASSUME NEW S, IsFiniteSet(S), NEW f, \A x \in S : f[x] \in Nat
    PROVE  SumFunctionOnSet(f, S) \in Nat
<1> DEFINE B == {U \in SUBSET S : SumFunctionOnSet(f, U) \notin Nat}
<1>1. SUFFICES ASSUME B # {} PROVE FALSE
    OBVIOUS
<1>2. PICK U \in B : \A V \in SUBSET U : V # U => V \notin B
    <2>1. B \in SUBSET SUBSET S
        OBVIOUS
    <2> HIDE DEF B
    <2> QED BY <2>1, <1>1, MinimalSubset
<1>3. U # {}
    BY SumEmpty
<1>4. PICK x \in U : TRUE
    BY <1>3
<1>5. IsFiniteSet(U) /\ \A y \in U : f[y] \in Int
    BY FS_Subset
<1>6. SumFunctionOnSet(f, U) = f[x] + SumFunctionOnSet(f, U \ {x})
    BY <1>5, SumRemove
<1>7. SumFunctionOnSet(f, U \ {x}) \in Nat
    BY <1>2
<1> QED BY <1>6, <1>7

\* Functions that agree on a set have the same sum over it.
THEOREM SumSame ==
    ASSUME NEW S, IsFiniteSet(S), NEW f, NEW g,
           \A x \in S : f[x] \in Int /\ f[x] = g[x]
    PROVE  SumFunctionOnSet(f, S) = SumFunctionOnSet(g, S)
<1> DEFINE B == {U \in SUBSET S : SumFunctionOnSet(f, U) # SumFunctionOnSet(g, U)}
<1>1. SUFFICES ASSUME B # {} PROVE FALSE
    OBVIOUS
<1>2. PICK U \in B : \A V \in SUBSET U : V # U => V \notin B
    <2>1. B \in SUBSET SUBSET S
        OBVIOUS
    <2> HIDE DEF B
    <2> QED BY <2>1, <1>1, MinimalSubset
<1>3. U # {}
    BY SumEmpty
<1>4. PICK x \in U : TRUE
    BY <1>3
<1>5. IsFiniteSet(U) /\ (\A y \in U : f[y] \in Int) /\ (\A y \in U : g[y] \in Int)
    BY FS_Subset
<1>6. SumFunctionOnSet(f, U) = f[x] + SumFunctionOnSet(f, U \ {x})
    BY <1>5, SumRemove
<1>7. SumFunctionOnSet(g, U) = g[x] + SumFunctionOnSet(g, U \ {x})
    BY <1>5, SumRemove
<1>8. SumFunctionOnSet(f, U \ {x}) = SumFunctionOnSet(g, U \ {x})
    BY <1>2
<1> QED BY <1>6, <1>7, <1>8

\* Members whose summand is zero can be left out.
THEOREM SumWithoutZeros ==
    ASSUME NEW S, IsFiniteSet(S), NEW f, \A x \in S : f[x] \in Int,
           NEW T \in SUBSET S, \A x \in S \ T : f[x] = 0
    PROVE  SumFunctionOnSet(f, S) = SumFunctionOnSet(f, T)
<1> DEFINE B == {U \in SUBSET S : T \subseteq U /\ SumFunctionOnSet(f, U) # SumFunctionOnSet(f, T)}
<1>1. SUFFICES ASSUME B # {} PROVE FALSE
    OBVIOUS
<1>2. PICK U \in B : \A V \in SUBSET U : V # U => V \notin B
    <2>1. B \in SUBSET SUBSET S
        OBVIOUS
    <2> HIDE DEF B
    <2> QED BY <2>1, <1>1, MinimalSubset
<1>3. PICK x \in U \ T : TRUE
    BY <1>2
<1>4. IsFiniteSet(U) /\ IsFiniteSet(T) /\ (\A y \in U : f[y] \in Int) /\ (\A y \in T : f[y] \in Int)
    BY FS_Subset
<1>5. SumFunctionOnSet(f, U) = f[x] + SumFunctionOnSet(f, U \ {x})
    BY <1>4, SumRemove
<1>6. SumFunctionOnSet(f, U \ {x}) = SumFunctionOnSet(f, T)
    BY <1>2, <1>3
<1>7. SumFunctionOnSet(f, T) \in Int
    BY <1>4, SumType
<1> QED BY <1>2, <1>5, <1>6, <1>7

\* Summands that are all the same.
THEOREM SumConstant ==
    ASSUME NEW S, IsFiniteSet(S), NEW c \in Int, NEW f, \A x \in S : f[x] = c
    PROVE  SumFunctionOnSet(f, S) = c * Cardinality(S)
<1> DEFINE B == {U \in SUBSET S : SumFunctionOnSet(f, U) # c * Cardinality(U)}
<1>1. SUFFICES ASSUME B # {} PROVE FALSE
    OBVIOUS
<1>2. PICK U \in B : \A V \in SUBSET U : V # U => V \notin B
    <2>1. B \in SUBSET SUBSET S
        OBVIOUS
    <2> HIDE DEF B
    <2> QED BY <2>1, <1>1, MinimalSubset
<1>3. U # {}
    BY SumEmpty, FS_EmptySet
<1>4. PICK x \in U : TRUE
    BY <1>3
<1>5. IsFiniteSet(U) /\ \A y \in U : f[y] \in Int
    BY FS_Subset
<1>6. SumFunctionOnSet(f, U) = f[x] + SumFunctionOnSet(f, U \ {x})
    BY <1>5, SumRemove
<1>7. SumFunctionOnSet(f, U \ {x}) = c * Cardinality(U \ {x})
    BY <1>2
<1>8. Cardinality(U \ {x}) = Cardinality(U) - 1 /\ Cardinality(U) \in Nat
    BY <1>5, FS_RemoveElement, FS_CardinalityType
<1>9. \A n \in Nat : c + c * (n - 1) = c * n
    OBVIOUS
<1>10. f[x] = c
    OBVIOUS
<1>11. SumFunctionOnSet(f, U) = c * Cardinality(U)
    BY <1>6, <1>7, <1>8, <1>9, <1>10
<1> QED BY <1>2, <1>11

\* The sum of sums.
THEOREM SumPlus ==
    ASSUME NEW S, IsFiniteSet(S), NEW f, NEW g, NEW h,
           \A x \in S : f[x] \in Int /\ g[x] \in Int /\ h[x] = f[x] + g[x]
    PROVE  SumFunctionOnSet(h, S) = SumFunctionOnSet(f, S) + SumFunctionOnSet(g, S)
<1> DEFINE B == {U \in SUBSET S : SumFunctionOnSet(h, U) # SumFunctionOnSet(f, U) + SumFunctionOnSet(g, U)}
<1>1. SUFFICES ASSUME B # {} PROVE FALSE
    OBVIOUS
<1>2. PICK U \in B : \A V \in SUBSET U : V # U => V \notin B
    <2>1. B \in SUBSET SUBSET S
        OBVIOUS
    <2> HIDE DEF B
    <2> QED BY <2>1, <1>1, MinimalSubset
<1>3. U # {}
    <2>1. SUFFICES ASSUME U = {} PROVE FALSE
        OBVIOUS
    <2>2. SumFunctionOnSet(h, U) = 0 /\ SumFunctionOnSet(f, U) = 0 /\ SumFunctionOnSet(g, U) = 0
        BY <2>1, SumEmpty
    <2>3. SumFunctionOnSet(h, U) # SumFunctionOnSet(f, U) + SumFunctionOnSet(g, U)
        OBVIOUS
    <2> QED BY <2>2, <2>3
<1>4. PICK x \in U : TRUE
    BY <1>3
<1>5. IsFiniteSet(U) /\ (\A y \in U : f[y] \in Int /\ g[y] \in Int /\ h[y] \in Int)
    BY FS_Subset
<1>6. /\ SumFunctionOnSet(f, U) = f[x] + SumFunctionOnSet(f, U \ {x})
      /\ SumFunctionOnSet(g, U) = g[x] + SumFunctionOnSet(g, U \ {x})
      /\ SumFunctionOnSet(h, U) = h[x] + SumFunctionOnSet(h, U \ {x})
    BY <1>5, SumRemove
<1>7. SumFunctionOnSet(h, U \ {x}) = SumFunctionOnSet(f, U \ {x}) + SumFunctionOnSet(g, U \ {x})
    BY <1>2
<1>8. SumFunctionOnSet(f, U \ {x}) \in Int /\ SumFunctionOnSet(g, U \ {x}) \in Int
    <2>1. IsFiniteSet(U \ {x})
        BY <1>5, FS_Subset
    <2> QED BY <1>5, <2>1, SumType
<1>9. h[x] = f[x] + g[x] /\ f[x] \in Int /\ g[x] \in Int
    OBVIOUS
<1>10. SumFunctionOnSet(h, U) = SumFunctionOnSet(f, U) + SumFunctionOnSet(g, U)
    BY <1>6, <1>7, <1>8, <1>9
<1> QED BY <1>2, <1>10

\* Larger summands have a larger sum.
THEOREM SumAtMost ==
    ASSUME NEW S, IsFiniteSet(S), NEW f, NEW g, \A x \in S : f[x] \in Int /\ g[x] \in Int /\ f[x] <= g[x]
    PROVE  SumFunctionOnSet(f, S) <= SumFunctionOnSet(g, S)
<1> DEFINE B == {U \in SUBSET S : ~ (SumFunctionOnSet(f, U) <= SumFunctionOnSet(g, U))}
<1>1. SUFFICES ASSUME B # {} PROVE FALSE
    OBVIOUS
<1>2. PICK U \in B : \A V \in SUBSET U : V # U => V \notin B
    <2>1. B \in SUBSET SUBSET S
        OBVIOUS
    <2> HIDE DEF B
    <2> QED BY <2>1, <1>1, MinimalSubset
<1>3. U # {}
    BY SumEmpty
<1>4. PICK x \in U : TRUE
    BY <1>3
<1>5. IsFiniteSet(U) /\ (\A y \in U : f[y] \in Int /\ g[y] \in Int)
    BY FS_Subset
<1>6. /\ SumFunctionOnSet(f, U) = f[x] + SumFunctionOnSet(f, U \ {x})
      /\ SumFunctionOnSet(g, U) = g[x] + SumFunctionOnSet(g, U \ {x})
    BY <1>5, SumRemove
<1>7. SumFunctionOnSet(f, U \ {x}) <= SumFunctionOnSet(g, U \ {x})
    BY <1>2
<1>8. SumFunctionOnSet(f, U \ {x}) \in Int /\ SumFunctionOnSet(g, U \ {x}) \in Int
    <2>1. IsFiniteSet(U \ {x})
        BY <1>5, FS_Subset
    <2> QED BY <1>5, <2>1, SumType
<1>9. f[x] <= g[x] /\ f[x] \in Int /\ g[x] \in Int
    OBVIOUS
<1>10. SumFunctionOnSet(f, U) <= SumFunctionOnSet(g, U)
    BY <1>6, <1>7, <1>8, <1>9
<1> QED BY <1>2, <1>10

\* A common factor.
THEOREM SumScaled ==
    ASSUME NEW S, IsFiniteSet(S), NEW c \in Int, NEW f, NEW g,
           \A x \in S : f[x] \in Int /\ g[x] = c * f[x]
    PROVE  SumFunctionOnSet(g, S) = c * SumFunctionOnSet(f, S)
<1> DEFINE B == {U \in SUBSET S : SumFunctionOnSet(g, U) # c * SumFunctionOnSet(f, U)}
<1>1. SUFFICES ASSUME B # {} PROVE FALSE
    OBVIOUS
<1>2. PICK U \in B : \A V \in SUBSET U : V # U => V \notin B
    <2>1. B \in SUBSET SUBSET S
        OBVIOUS
    <2> HIDE DEF B
    <2> QED BY <2>1, <1>1, MinimalSubset
<1>3. U # {}
    <2>1. SUFFICES ASSUME U = {} PROVE FALSE
        OBVIOUS
    <2>2. SumFunctionOnSet(f, U) = 0 /\ SumFunctionOnSet(g, U) = 0
        BY <2>1, SumEmpty
    <2>3. SumFunctionOnSet(g, U) # c * SumFunctionOnSet(f, U)
        OBVIOUS
    <2>4. c * 0 = 0
        OBVIOUS
    <2> QED BY <2>2, <2>3, <2>4
<1>4. PICK x \in U : TRUE
    BY <1>3
<1>5. IsFiniteSet(U) /\ (\A y \in U : f[y] \in Int /\ g[y] \in Int)
    BY FS_Subset
<1>6. /\ SumFunctionOnSet(f, U) = f[x] + SumFunctionOnSet(f, U \ {x})
      /\ SumFunctionOnSet(g, U) = g[x] + SumFunctionOnSet(g, U \ {x})
    BY <1>5, SumRemove
<1>7. SumFunctionOnSet(g, U \ {x}) = c * SumFunctionOnSet(f, U \ {x})
    BY <1>2
<1>8. SumFunctionOnSet(f, U \ {x}) \in Int
    <2>1. IsFiniteSet(U \ {x})
        BY <1>5, FS_Subset
    <2> QED BY <1>5, <2>1, SumType
<1>9. f[x] \in Int /\ g[x] = c * f[x]
    OBVIOUS
<1>10. \A a, b \in Int : c * a + c * b = c * (a + b)
    OBVIOUS
<1>11. SumFunctionOnSet(g, U) = c * SumFunctionOnSet(f, U)
    BY <1>6, <1>7, <1>8, <1>9, <1>10
<1> QED BY <1>2, <1>11

\* The sum over two sets that have no member in common.
THEOREM SumUnion ==
    ASSUME NEW S, IsFiniteSet(S), NEW T, IsFiniteSet(T), S \cap T = {},
           NEW f, \A x \in S \cup T : f[x] \in Int
    PROVE  SumFunctionOnSet(f, S \cup T) = SumFunctionOnSet(f, S) + SumFunctionOnSet(f, T)
<1> DEFINE B == {U \in SUBSET S : SumFunctionOnSet(f, U \cup T) # SumFunctionOnSet(f, U) + SumFunctionOnSet(f, T)}
<1>1. SUFFICES ASSUME B # {} PROVE FALSE
    OBVIOUS
<1>2. PICK U \in B : \A V \in SUBSET U : V # U => V \notin B
    <2>1. B \in SUBSET SUBSET S
        OBVIOUS
    <2> HIDE DEF B
    <2> QED BY <2>1, <1>1, MinimalSubset
<1>3. SumFunctionOnSet(f, T) \in Int
    BY SumType
<1>4. U # {}
    <2>1. SUFFICES ASSUME U = {} PROVE FALSE
        OBVIOUS
    <2>2. U \cup T = T /\ SumFunctionOnSet(f, U) = 0
        BY <2>1, SumEmpty
    <2>3. SumFunctionOnSet(f, U \cup T) # SumFunctionOnSet(f, U) + SumFunctionOnSet(f, T)
        OBVIOUS
    <2>4. SumFunctionOnSet(f, U \cup T) = SumFunctionOnSet(f, T)
        BY <2>2
    <2> HIDE DEF B
    <2> QED BY <1>3, <2>2, <2>3, <2>4
<1>5. PICK x \in U : TRUE
    BY <1>4
<1>6. IsFiniteSet(U) /\ IsFiniteSet(U \ {x}) /\ IsFiniteSet(U \cup T)
    BY FS_Subset, FS_Union
<1>7. SumFunctionOnSet(f, U) = f[x] + SumFunctionOnSet(f, U \ {x})
    BY <1>6, SumRemove
<1>8. SumFunctionOnSet(f, U \cup T) = f[x] + SumFunctionOnSet(f, (U \ {x}) \cup T)
    <2>1. (U \cup T) \ {x} = (U \ {x}) \cup T /\ x \in U \cup T /\ \A y \in U \cup T : f[y] \in Int
        OBVIOUS
    <2> QED BY <1>6, <2>1, SumRemove
<1>9. SumFunctionOnSet(f, (U \ {x}) \cup T) = SumFunctionOnSet(f, U \ {x}) + SumFunctionOnSet(f, T)
    BY <1>2
<1>10. SumFunctionOnSet(f, U \ {x}) \in Int /\ f[x] \in Int
    BY <1>6, SumType
<1>11. SumFunctionOnSet(f, U \cup T) = SumFunctionOnSet(f, U) + SumFunctionOnSet(f, T)
    BY <1>3, <1>7, <1>8, <1>9, <1>10
<1> QED BY <1>2, <1>11

\* r gives every member of S a name of its own in R.
Renames(r, S, R) ==
    /\ \A x, y \in S : r[x] = r[y] => x = y
    /\ \A x \in S : r[x] \in R
    /\ \A z \in R : \E x \in S : z = r[x]

\* The sum over a set whose members are given other names.
THEOREM SumRenamed ==
    ASSUME NEW S, IsFiniteSet(S), NEW R, NEW r, Renames(r, S, R),
           NEW f, NEW g, \A x \in S : f[x] \in Int /\ g[r[x]] = f[x]
    PROVE  SumFunctionOnSet(g, R) = SumFunctionOnSet(f, S)
<1> DEFINE B == {U \in SUBSET S : SumFunctionOnSet(g, {r[x] : x \in U}) # SumFunctionOnSet(f, U)}
<1> USE DEF Renames
<1>1. SUFFICES ASSUME B # {} PROVE FALSE
    <2>1. R = {r[x] : x \in S}
        OBVIOUS
    <2>2. S \notin B => SumFunctionOnSet(g, {r[x] : x \in S}) = SumFunctionOnSet(f, S)
        OBVIOUS
    <2> QED BY <2>1, <2>2
<1>2. PICK U \in B : \A V \in SUBSET U : V # U => V \notin B
    <2>1. B \in SUBSET SUBSET S
        OBVIOUS
    <2> HIDE DEF B
    <2> QED BY <2>1, <1>1, MinimalSubset
<1>3. U # {}
    <2>1. {r[x] : x \in {}} = {}
        OBVIOUS
    <2> QED BY <1>2, <2>1, SumEmpty
<1>4. PICK x \in U : TRUE
    BY <1>3
<1>5. IsFiniteSet(U) /\ (\A y \in U : f[y] \in Int)
    BY FS_Subset
<1>6. SumFunctionOnSet(f, U) = f[x] + SumFunctionOnSet(f, U \ {x})
    BY <1>5, SumRemove
<1> DEFINE T == {r[y] : y \in U}
<1>7. IsFiniteSet(T)
    <2>1. [y \in U |-> r[y]] \in Surjection(U, T)
        BY DEF Surjection
    <2> HIDE DEF T
    <2> QED BY <1>5, <2>1, FS_Surjection
<1>8. r[x] \in T /\ (\A z \in T : g[z] \in Int) /\ g[r[x]] = f[x]
    OBVIOUS
<1>9. T \ {r[x]} = {r[y] : y \in U \ {x}}
    OBVIOUS
<1>10. SumFunctionOnSet(g, T) = g[r[x]] + SumFunctionOnSet(g, T \ {r[x]})
    <2> HIDE DEF T
    <2> QED BY <1>7, <1>8, SumRemove
<1>11. SumFunctionOnSet(g, {r[y] : y \in U \ {x}}) = SumFunctionOnSet(f, U \ {x})
    BY <1>2
<1> QED BY <1>2, <1>6, <1>8, <1>9, <1>10, <1>11

-----------------------------------------------------------------------------
(* Folds over lists *)

\* A bounded set of numbers that is not empty has a greatest member.
LEMMA MaxIs ==
    ASSUME NEW upper \in Nat, NEW S \in SUBSET (0..upper), S # {}
    PROVE  Max(S) \in S /\ \A y \in S : y <= Max(S)
<1>1. PICK x \in S : TRUE
    OBVIOUS
<1> DEFINE B == {k \in 0..upper : upper - k \in S}
<1>2. upper - x \in Nat /\ upper - x \in B
    OBVIOUS
<1>3. PICK q \in B \cap 0..(upper - x) : \A k \in 0..(q - 1) : k \notin B
    <2> HIDE DEF B
    <2> QED BY <1>2, LeastUpTo
<1>4. upper - q \in S
    BY <1>3
<1>5. ASSUME NEW y \in S PROVE y <= upper - q
    <2>1. upper - y \in B /\ upper - y \in Nat /\ y \in Nat /\ q \in Nat
        OBVIOUS
    <2>2. ~ (upper - y \in 0..(q - 1))
        BY <1>3, <2>1
    <2>3. ~ (upper - y < q)
        <3> HIDE DEF B
        <3> QED BY <2>1, <2>2
    <2> HIDE DEF B
    <2> QED BY <2>1, <2>3
<1>6. \E m \in S : \A y \in S : m >= y
    <2>1. \A y \in S : y \in Nat /\ upper - q >= y
        BY <1>4, <1>5
    <2> QED BY <1>4, <2>1
<1>7. Max(S) \in S /\ \A y \in S : Max(S) >= y
    <2>1. PICK m : m = Max(S)
        OBVIOUS
    <2>2. m = CHOOSE z \in S : \A y \in S : z >= y
        BY <2>1 DEF Max
    <2>3. m \in S /\ \A y \in S : m >= y
        BY <1>6, <2>2
    <2> QED BY <2>1, <2>3
<1> QED BY <1>7

\* h is the fold over each set of positions, by the step for the last of them.
FoldsBy(h, base, step, Sets) ==
    \A T \in Sets : h[T] = IF T = {} THEN base ELSE step[<<h[T \ {Max(T)}], Max(T)>>]

UpTo(n, k) == {T \in SUBSET (1..n) : Cardinality(T) <= k}

\* A recursion over the positions of a list has a solution.
LEMMA FoldsExist ==
    ASSUME NEW States, NEW n \in Nat, NEW base \in States, NEW step \in [States \X (1..n) -> States]
    PROVE  \E h : h \in [SUBSET (1..n) -> States] /\ FoldsBy(h, base, step, SUBSET (1..n))
<1> DEFINE Has(k) == \E h : h \in [UpTo(n, k) -> States] /\ FoldsBy(h, base, step, UpTo(n, k))
           B == {k \in 0..n : ~ Has(k)}
<1>1. IsFiniteSet(1..n) /\ Cardinality(1..n) = n
    BY FS_Interval
<1>2. \A T \in SUBSET (1..n) : IsFiniteSet(T) /\ Cardinality(T) \in 0..n
    <2>1. ASSUME NEW T \in SUBSET (1..n)
          PROVE  IsFiniteSet(T) /\ Cardinality(T) \in 0..n
        <3>1. IsFiniteSet(T) /\ Cardinality(T) <= Cardinality(1..n)
            BY <1>1, FS_Subset
        <3>2. Cardinality(T) \in Nat
            BY <3>1, FS_CardinalityType
        <3> QED BY <1>1, <3>1, <3>2
    <2> QED BY <2>1
<1>3. Has(0)
    <2>1. \A T \in UpTo(n, 0) : T = {}
        <3>1. ASSUME NEW T \in UpTo(n, 0) PROVE Cardinality(T) = 0
            BY <1>2 DEF UpTo
        <3> QED BY <1>2, <3>1, FS_EmptySet DEF UpTo
    <2> DEFINE h == [T \in UpTo(n, 0) |-> base]
    <2>2. h \in [UpTo(n, 0) -> States] /\ \A T \in UpTo(n, 0) : h[T] = base
        OBVIOUS
    <2> HIDE DEF h
    <2>3. FoldsBy(h, base, step, UpTo(n, 0))
        BY <2>1, <2>2 DEF FoldsBy
    <2> QED BY <2>2, <2>3
<1>4. ASSUME NEW k \in 0..(n - 1), Has(k)
      PROVE  Has(k + 1)
    <2>1. PICK h : h \in [UpTo(n, k) -> States] /\ FoldsBy(h, base, step, UpTo(n, k))
        BY <1>4
    <2> DEFINE Before(T) == T \ {Max(T)}
               w == [T \in UpTo(n, k + 1) |-> IF T = {} THEN base ELSE step[<<h[Before(T)], Max(T)>>]]
    <2>2. ASSUME NEW m \in 0..n, NEW T \in UpTo(n, m), T # {}
          PROVE  Max(T) \in 1..n /\ m > 0 /\ Before(T) \in UpTo(n, m - 1)
        <3>1. T \in SUBSET (0..n) /\ T \in SUBSET (1..n)
            BY DEF UpTo
        <3>2. Max(T) \in T
            BY <2>2, <3>1, MaxIs
        <3>3. IsFiniteSet(T) /\ Cardinality(T) <= m /\ Cardinality(T) \in Nat
            BY <1>2, <3>1 DEF UpTo
        <3>4. Cardinality(Before(T)) = Cardinality(T) - 1
            BY <3>2, <3>3, FS_RemoveElement
        <3>5. Cardinality(Before(T)) \in Nat
            BY <1>2, <3>1
        <3> HIDE DEF Before
        <3>6. m > 0 /\ Cardinality(Before(T)) <= m - 1
            BY <3>3, <3>4, <3>5
        <3>7. Before(T) \in SUBSET (1..n)
            BY <3>1 DEF Before
        <3> QED BY <3>1, <3>2, <3>6, <3>7 DEF UpTo
    <2>3. k + 1 \in 0..n /\ (k + 1) - 1 = k /\ k \in 0..n
        OBVIOUS
    <2>4. w \in [UpTo(n, k + 1) -> States]
        <3>1. ASSUME NEW T \in UpTo(n, k + 1), T # {}
              PROVE  step[<<h[Before(T)], Max(T)>>] \in States
            <4>1. Max(T) \in 1..n /\ Before(T) \in UpTo(n, k)
                BY <2>2, <2>3, <3>1
            <4> HIDE DEF Before
            <4>2. h[Before(T)] \in States
                BY <2>1, <4>1
            <4> QED BY <4>1, <4>2
        <3> QED BY <3>1
    <2>5. ASSUME NEW T \in UpTo(n, k)
          PROVE  T \in UpTo(n, k + 1) /\ w[T] = h[T]
        <3>1. T \in UpTo(n, k + 1)
            BY <1>2 DEF UpTo
        <3> QED BY <2>1, <3>1 DEF FoldsBy
    <2>6. FoldsBy(w, base, step, UpTo(n, k + 1))
        <3>1. ASSUME NEW T \in UpTo(n, k + 1), T # {}
              PROVE  w[T] = step[<<w[Before(T)], Max(T)>>]
            <4>1. Before(T) \in UpTo(n, k)
                BY <2>2, <2>3, <3>1
            <4>2. w[Before(T)] = h[Before(T)]
                BY <2>5, <4>1
            <4> QED BY <3>1, <4>2
        <3>2. \A T \in UpTo(n, k + 1) : T = {} => w[T] = base
            OBVIOUS
        <3> HIDE DEF w
        <3> QED BY <3>1, <3>2 DEF FoldsBy
    <2> QED BY <2>4, <2>6
<1>5. B = {}
    <2>1. SUFFICES ASSUME NEW k \in B PROVE FALSE
        OBVIOUS
    <2>2. k \in Nat /\ k \in 0..n
        OBVIOUS
    <2>3. PICK q \in B \cap 0..k : \A j \in 0..(q - 1) : j \notin B
        <3> HIDE DEF B
        <3> QED BY <2>1, <2>2, LeastUpTo
    <2>4. q # 0 /\ q \in 0..n
        BY <1>3, <2>3
    <2>5. q - 1 \in 0..(q - 1) /\ q - 1 \in 0..(n - 1) /\ (q - 1) + 1 = q
        BY <2>4
    <2>6. Has(q - 1)
        <3>1. q - 1 \in 0..n /\ q - 1 \notin B
            BY <2>3, <2>4, <2>5
        <3> QED BY <3>1
    <2>7. Has(q)
        <3> HIDE DEF Has
        <3> QED BY <1>4, <2>5, <2>6
    <2> QED BY <2>3, <2>7
<1>6. Has(n)
    <2>1. n \in 0..n
        OBVIOUS
    <2> HIDE DEF Has
    <2> QED BY <1>5, <2>1
<1>7. UpTo(n, n) = SUBSET (1..n)
    BY <1>2 DEF UpTo
<1> QED BY <1>6, <1>7

\* The last of the first k positions.
LEMMA LastOfPrefix ==
    ASSUME NEW k \in Nat \ {0}
    PROVE  1..k # {} /\ Max(1..k) = k /\ (1..k) \ {Max(1..k)} = 1..(k - 1)
<1>1. 1..k \in SUBSET (0..k) /\ k \in 1..k
    OBVIOUS
<1>2. Max(1..k) \in 1..k /\ \A y \in 1..k : y <= Max(1..k)
    BY <1>1, MaxIs
<1>3. PICK m : m = Max(1..k)
    OBVIOUS
<1>4. m \in 1..k /\ k <= m
    BY <1>1, <1>2, <1>3
<1>5. m = k
    BY <1>4
<1> QED BY <1>1, <1>3, <1>5

\* p lists the states of a fold over n positions, the first of them before any step.
StepsThrough(p, States, n, base, step) ==
    /\ p \in [0..n -> States]
    /\ p[0] = base
    /\ \A k \in 1..n : p[k] = step[<<p[k - 1], k>>]

IsStep(step, States, n) == step \in [States \X (1..n) -> States]

\* g follows the recursion as long as its values are states.
Recurses(g, States, n, base, step) ==
    /\ g[{}] = base
    /\ \A T \in SUBSET (1..n) : T # {} /\ g[T \ {Max(T)}] \in States =>
           g[T] = step[<<g[T \ {Max(T)}], Max(T)>>]

\* What a recursion over the positions of a list chooses goes through the
\* steps in the order of the list.
LEMMA FoldGoesThrough ==
    ASSUME NEW States, NEW n \in Nat, NEW base \in States,
           NEW step, IsStep(step, States, n), NEW g, Recurses(g, States, n, base, step)
    PROVE  \E p : StepsThrough(p, States, n, base, step) /\ p[n] = g[1..n]
<1> DEFINE B == {k \in 0..n : g[1..k] \notin States}
           p == [k \in 0..n |-> g[1..k]]
<1> USE DEF Recurses, IsStep
<1>1. ASSUME NEW k \in 1..n, g[1..(k - 1)] \in States
      PROVE  g[1..k] = step[<<g[1..(k - 1)], k>>] /\ g[1..k] \in States
    <2>1. 1..k # {} /\ Max(1..k) = k /\ (1..k) \ {Max(1..k)} = 1..(k - 1)
        BY LastOfPrefix
    <2>2. 1..k \in SUBSET (1..n)
        OBVIOUS
    <2>3. g[1..k] = step[<<g[1..(k - 1)], k>>]
        BY <1>1, <2>1, <2>2
    <2> QED BY <1>1, <2>3
<1>2. 1..0 = {}
    OBVIOUS
<1>3. B = {}
    <2>1. SUFFICES ASSUME NEW k \in B PROVE FALSE
        OBVIOUS
    <2>2. k \in Nat /\ k \in 0..n
        OBVIOUS
    <2>3. PICK q \in B \cap 0..k : \A j \in 0..(q - 1) : j \notin B
        <3> HIDE DEF B
        <3> QED BY <2>1, <2>2, LeastUpTo
    <2>4. q # 0 /\ q \in 0..n
        BY <1>2, <2>3
    <2>5. q - 1 \in 0..(q - 1) /\ q - 1 \in 0..n /\ q \in 1..n
        BY <2>4
    <2>6. g[1..(q - 1)] \in States
        BY <2>3, <2>5
    <2> QED BY <1>1, <2>3, <2>5, <2>6
<1>4. \A k \in 0..n : g[1..k] \in States
    BY <1>3
<1>5. p \in [0..n -> States] /\ p[0] = base /\ p[n] = g[1..n]
    BY <1>2, <1>4
<1>6. ASSUME NEW k \in 1..n PROVE p[k] = step[<<p[k - 1], k>>]
    <2>1. k \in 0..n /\ k - 1 \in 0..n
        OBVIOUS
    <2>2. g[1..k] = step[<<g[1..(k - 1)], k>>]
        BY <1>1, <1>4, <2>1
    <2> QED BY <2>1, <2>2
<1> HIDE DEF p
<1> QED BY <1>5, <1>6 DEF StepsThrough

KeptTo(n, Good) == 0 \in Good /\ \A k \in 1..n : k - 1 \in Good => k \in Good

\* What holds at the start and is kept by each step holds after every step.
LEMMA AfterEveryStep ==
    ASSUME NEW n \in Nat, NEW Good, KeptTo(n, Good)
    PROVE  n \in Good
<1> USE DEF KeptTo
<1> DEFINE B == {k \in 0..n : k \notin Good}
<1>1. SUFFICES ASSUME n \in B PROVE FALSE
    OBVIOUS
<1>3. PICK q \in B \cap 0..n : \A j \in 0..(q - 1) : j \notin B
    <2> HIDE DEF B
    <2> QED BY <1>1, LeastUpTo
<1>4. q # 0 /\ q \in 0..n
    BY <1>3
<1>5. q - 1 \in 0..(q - 1) /\ q - 1 \in 0..n /\ q \in 1..n
    BY <1>4
<1> QED BY <1>3, <1>5
=============================================================================
