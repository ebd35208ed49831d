--------------------------- MODULE SelectionProofs ---------------------------
(***************************************************************************)
(* Theorems about select: no entry of the UTxO is lost or used twice, the  *)
(* round-robin selection covers every token, the change shares out exactly *)
(* what is left, the result is what an InputSelector promises, and select  *)
(* gives up only for lack of funds.  They hold for every UTxO, every       *)
(* arguments and every sequence of random draws.                           *)
(***************************************************************************)
EXTENDS InputSelection, SumTheorems, SequenceTheorems

\* A value has a quantity of every token, zero of most.
LEMMA QuantityIsNat ==
    ASSUME NEW v, IsValue(v), NEW k
    PROVE  Quantity(v, k) \in Nat
BY DEF IsValue, Quantity

\* The totals of values are naturals.
LEMMA TotalIsNat ==
    ASSUME NEW values, NEW S, IsFiniteSet(S), \A x \in S : IsValue(values[x]), NEW k
    PROVE  Total(values, S, k) \in Nat
<1> DEFINE f == [x \in S |-> Quantity(values[x], k)]
<1>1. \A x \in S : f[x] \in Nat
    BY QuantityIsNat
<1> HIDE DEF f
<1>2. SumFunctionOnSet(f, S) \in Nat
    BY <1>1, SumNat
<1> QED BY <1>2 DEF f, Total

\* One more member adds its quantity to the total.
LEMMA TotalAdd ==
    ASSUME NEW values, NEW S, IsFiniteSet(S), NEW u, u \notin S,
           \A x \in S \cup {u} : IsValue(values[x]), NEW k
    PROVE  Total(values, S \cup {u}, k) = Quantity(values[u], k) + Total(values, S, k)
<1> DEFINE f == [x \in S |-> Quantity(values[x], k)]
           g == [x \in S \cup {u} |-> Quantity(values[x], k)]
<1>1. \A x \in S \cup {u} : g[x] \in Int
    BY QuantityIsNat
<1>2. \A x \in S : g[x] = f[x]
    OBVIOUS
<1>3. g[u] = Quantity(values[u], k)
    OBVIOUS
<1>4. Total(values, S, k) = SumFunctionOnSet(f, S)
    BY DEF Total
<1>5. Total(values, S \cup {u}, k) = SumFunctionOnSet(g, S \cup {u})
    BY DEF Total
<1> HIDE DEF f, g
<1>6. SumFunctionOnSet(g, S \cup {u}) = g[u] + SumFunctionOnSet(g, S)
    BY <1>1, SumAdd
<1>7. SumFunctionOnSet(g, S) = SumFunctionOnSet(f, S)
    BY <1>1, <1>2, SumSame
<1> QED BY <1>3, <1>4, <1>5, <1>6, <1>7

\* Members that do not hold the token do not change its total.
LEMMA TotalWithout ==
    ASSUME NEW values, NEW S, IsFiniteSet(S), \A x \in S : IsValue(values[x]),
           NEW T \in SUBSET S, NEW k, \A x \in S \ T : Quantity(values[x], k) = 0
    PROVE  Total(values, S, k) = Total(values, T, k)
<1> DEFINE f == [x \in S |-> Quantity(values[x], k)]
           g == [x \in T |-> Quantity(values[x], k)]
<1>1. \A x \in S : f[x] \in Int
    BY QuantityIsNat
<1>2. (\A x \in T : f[x] \in Int /\ f[x] = g[x]) /\ \A x \in S \ T : f[x] = 0
    BY <1>1
<1>3. Total(values, S, k) = SumFunctionOnSet(f, S) /\ Total(values, T, k) = SumFunctionOnSet(g, T)
    BY DEF Total
<1>4. IsFiniteSet(T)
    BY FS_Subset
<1> HIDE DEF f, g
<1>5. SumFunctionOnSet(f, S) = SumFunctionOnSet(f, T)
    BY <1>1, <1>2, SumWithoutZeros
<1>6. SumFunctionOnSet(f, T) = SumFunctionOnSet(g, T)
    BY <1>2, <1>4, SumSame
<1> QED BY <1>3, <1>5, <1>6

\* What splicing one entry out of the list leaves.
LEMMA RemoveAtEntry ==
    ASSUME NEW T, NEW s \in Seq(T), NEW i \in 1..Len(s)
    PROVE  /\ RemoveAt(s, i) \in Seq(T)
           /\ Len(RemoveAt(s, i)) = Len(s) - 1
           /\ ToSet(RemoveAt(s, i)) \subseteq ToSet(s)
           /\ ToSet(s) \subseteq ToSet(RemoveAt(s, i)) \cup {s[i]}
<1> DEFINE r == RemoveAt(s, i)
<1>1. /\ r \in Seq(T)
      /\ Len(r) = Len(s) - 1
      /\ \A j \in 1..(Len(s) - 1) : r[j] = IF j < i THEN s[j] ELSE s[j + 1]
    <2> DEFINE s1 == SubSeq(s, 1, i - 1)
               s2 == SubSeq(s, i + 1, Len(s))
    <2>1. (\A j \in 1..(i - 1) : s[j] \in T) /\ (\A j \in (i + 1)..Len(s) : s[j] \in T)
        OBVIOUS
    <2>2. s1 \in Seq(T) /\ Len(s1) = i - 1 /\ \A j \in 1..(i - 1) : s1[j] = s[j]
        BY <2>1, SubSeqProperties
    <2>3. s2 \in Seq(T) /\ Len(s2) = Len(s) - i /\ \A j \in 1..(Len(s) - i) : s2[j] = s[i + j]
        BY <2>1, SubSeqProperties
    <2>4. r = s1 \o s2
        BY DEF RemoveAt
    <2> HIDE DEF s1, s2, r
    <2>5. /\ r \in Seq(T) /\ Len(r) = Len(s1) + Len(s2)
          /\ \A j \in 1..(Len(s1) + Len(s2)) : r[j] = IF j <= Len(s1) THEN s1[j] ELSE s2[j - Len(s1)]
        BY <2>2, <2>3, <2>4, ConcatProperties
    <2>6. Len(r) = Len(s) - 1
        BY <2>2, <2>3, <2>5
    <2>7. ASSUME NEW j \in 1..(Len(s) - 1)
          PROVE  r[j] = IF j < i THEN s[j] ELSE s[j + 1]
        <3>1. CASE j < i
            <4>1. j \in 1..(Len(s1) + Len(s2)) /\ j <= Len(s1)
                BY <3>1, <2>2, <2>3
            <4>2. r[j] = s1[j]
                BY <4>1, <2>5
            <4>3. j \in 1..(i - 1)
                BY <3>1
            <4> QED BY <4>2, <4>3, <3>1, <2>2
        <3>2. CASE j >= i
            <4>1. r[j] = s2[j - (i - 1)]
                BY <3>2, <2>2, <2>3, <2>5
            <4>2. j - (i - 1) \in 1..(Len(s) - i)
                BY <3>2
            <4> QED BY <4>1, <4>2, <3>2, <2>3
        <3> QED BY <3>1, <3>2
    <2> QED BY <2>5, <2>6, <2>7
<1>2. DOMAIN r = 1..(Len(s) - 1) /\ DOMAIN s = 1..Len(s)
    BY <1>1
<1> HIDE DEF r
<1>3. ASSUME NEW j \in 1..(Len(s) - 1)
      PROVE  r[j] \in ToSet(s)
    BY <1>1, <1>2 DEF ToSet
<1>4. ASSUME NEW j \in 1..Len(s), j # i
      PROVE  s[j] \in ToSet(r)
    <2>1. CASE j < i
        BY <2>1, <1>1, <1>2 DEF ToSet
    <2>2. CASE j > i
        <3>1. j - 1 \in 1..(Len(s) - 1) /\ r[j - 1] = s[j]
            BY <2>2, <1>1
        <3> QED BY <3>1, <1>2 DEF ToSet
    <2> QED BY <2>1, <2>2, <1>4
<1>5. ToSet(r) \subseteq ToSet(s)
    BY <1>2, <1>3 DEF ToSet
<1>6. ToSet(s) \subseteq ToSet(r) \cup {s[i]}
    BY <1>2, <1>4 DEF ToSet
<1> QED BY <1>1, <1>5, <1>6 DEF r

-----------------------------------------------------------------------------
(* The inductive invariant: with the types, that the remaining entries are *)
(* exactly those that are not selected.                                    *)

SelectionInv ==
    /\ args \in Instance
    /\ utxoSelected \subseteq Utxo
    /\ utxoRemaining = Utxo \ utxoSelected
    /\ tokensRemaining \in Seq(Token)
    /\ ToSet(tokensRemaining) \subseteq ToSet(args.tokens)
    /\ Len(tokensRemaining) <= Len(args.tokens)
    /\ tokenIdx \in 1..(Len(args.tokens) + 1)

\* The types and the conservation of the UTxO are part of the invariant.
LEMMA SelectionInvImplies ==
    ASSUME SelectionInv
    PROVE  RoundRobinTypeOK /\ ConservationOfUtxo
BY DEF SelectionInv, RoundRobinTypeOK, ConservationOfUtxo

\* The arguments of a call: the tokens are those of the outputs and the coin.
LEMMA ArgumentsAreTyped ==
    ASSUME NEW x \in Instance
    PROVE  /\ IsFiniteSet(Utxo)
           /\ x.input \in Nat /\ x.deposit \in Nat
           /\ \A u \in Utxo : IsValue(x.utxo[u])
           /\ x.tokens \in Seq(Token) /\ Len(x.tokens) \in Nat
           /\ ToSet(x.tokens) = OutputAssets(x) \cup {Coin}
BY InstanceAssumption DEF InstanceAssumption, IsTokenList, IsParsedValue

\* The loops start with every entry remaining.
LEMMA RoundRobinInitInv ==
    ASSUME RoundRobinInit
    PROVE  SelectionInv
BY ArgumentsAreTyped DEF RoundRobinInit, SelectionInv

\* Selecting an entry in any stage keeps the partition.
LEMMA SelectOneInv ==
    ASSUME SelectionInv, NEW u \in utxoRemaining,
           utxoSelected' = utxoSelected \cup {u}, utxoRemaining' = utxoRemaining \ {u},
           UNCHANGED <<args, tokensRemaining>>, tokenIdx' \in {tokenIdx, tokenIdx + 1},
           tokenIdx' # tokenIdx => IteratorHasNext
    PROVE  SelectionInv'
<1>1. Len(tokensRemaining) \in Nat /\ Len(args.tokens) \in Nat
    BY ArgumentsAreTyped DEF SelectionInv
<1>2. tokenIdx' \in 1..(Len(args.tokens) + 1)
    BY <1>1 DEF SelectionInv, IteratorHasNext
<1> QED BY <1>2 DEF SelectionInv

\* Dropping a token leaves the entries alone.
LEMMA DropTokenInv ==
    ASSUME SelectionInv, IteratorHasNext, DropToken
    PROVE  SelectionInv'
<1>1. Len(tokensRemaining) \in Nat /\ Len(args.tokens) \in Nat
    BY ArgumentsAreTyped DEF SelectionInv
<1>2. tokenIdx \in 1..Len(tokensRemaining)
    BY <1>1 DEF SelectionInv, IteratorHasNext
<1>3. /\ tokensRemaining' \in Seq(Token)
      /\ Len(tokensRemaining') = Len(tokensRemaining) - 1
      /\ ToSet(tokensRemaining') \subseteq ToSet(tokensRemaining)
    BY <1>2, RemoveAtEntry DEF SelectionInv, DropToken
<1>4. tokenIdx' \in 1..(Len(args.tokens) + 1)
    BY <1>1, <1>2 DEF SelectionInv, DropToken
<1> QED BY <1>1, <1>3, <1>4 DEF SelectionInv, DropToken

\* Every step of the loops preserves the invariant.
LEMMA RoundRobinStepInv ==
    ASSUME SelectionInv, RoundRobinStep
    PROVE  SelectionInv'
<1>1. ASSUME NEW u \in Utxo, SelectInput(u)
      PROVE  SelectionInv'
    <2>1. u \in utxoRemaining
        BY <1>1 DEF SelectInput, FilterUtxo
    <2> QED BY <1>1, <2>1, SelectOneInv DEF SelectInput
<1>2. ASSUME NEW u \in Utxo, NoImprovement(u)
      PROVE  SelectionInv'
    BY <1>2, DropTokenInv DEF NoImprovement
<1>3. CASE NoneLeft
    BY <1>3, DropTokenInv DEF NoneLeft
<1>4. CASE NextRound
    BY <1>4, ArgumentsAreTyped DEF NextRound, SelectionInv
<1> QED BY <1>1, <1>2, <1>3, <1>4 DEF RoundRobinStep

-----------------------------------------------------------------------------
(* Coverage *)

\* The quantities the selection compares are naturals.
LEMMA SelectedIsNat ==
    ASSUME args \in Instance, NEW S \in SUBSET Utxo, NEW k
    PROVE  SelectedQuantity(S, k) \in Nat
<1>1. IsFiniteSet(S) /\ \A x \in S : IsValue(args.utxo[x])
    BY ArgumentsAreTyped, FS_Subset
<1>2. Total(args.utxo, S, k) \in Nat
    BY <1>1, TotalIsNat
<1> QED BY <1>2, ArgumentsAreTyped DEF SelectedQuantity, ImplicitInput

\* The outputs of a call are parsed values.
LEMMA OutputsAreTyped ==
    ASSUME NEW x \in Instance
    PROVE  /\ IsFiniteSet(DOMAIN x.outputs)
           /\ \A i \in DOMAIN x.outputs : IsParsedValue(x.outputs[i]) /\ IsValue(x.outputs[i])
<1>1. x.outputs \in Seq(Range(x.outputs)) /\ \A i \in DOMAIN x.outputs : IsParsedValue(x.outputs[i])
    BY InstanceAssumption DEF InstanceAssumption
<1>2. DOMAIN x.outputs = 1..Len(x.outputs) /\ Len(x.outputs) \in Nat
    BY <1>1
<1>3. IsFiniteSet(DOMAIN x.outputs)
    BY <1>2, FS_Interval
<1> QED BY <1>1, <1>3 DEF IsParsedValue

\* Every token has a target to reach.
LEMMA TargetIsNat ==
    ASSUME args \in Instance, NEW k
    PROVE  MinimumTarget(k) \in Nat
<1>1. Requested(args, k) \in Nat
    BY OutputsAreTyped, TotalIsNat DEF Requested
<1> QED BY <1>1, ArgumentsAreTyped DEF MinimumTarget, ImplicitDeposit

\* The outputs ask for more than nothing of each of their assets.
LEMMA RequestedIsPositive ==
    ASSUME NEW x \in Instance, NEW a \in OutputAssets(x)
    PROVE  a # Coin /\ Requested(x, a) > 0
<1> DEFINE D == DOMAIN x.outputs
<1>1. PICK i \in D : a \in DOMAIN x.outputs[i].assets
    BY DEF OutputAssets
<1>2. a # Coin
    BY <1>1, OutputsAreTyped, ValueAssumption DEF ValueAssumption, IsValue
<1>3. Quantity(x.outputs[i], a) \in Nat /\ Quantity(x.outputs[i], a) > 0
    BY <1>1, <1>2, OutputsAreTyped, QuantityIsNat DEF Quantity, IsParsedValue
<1>4. IsFiniteSet(D \ {i}) /\ (D \ {i}) \cup {i} = D /\ i \notin D \ {i}
      /\ \A j \in D : IsValue(x.outputs[j])
    BY OutputsAreTyped, FS_Subset
<1>5. Total(x.outputs, D, a) = Quantity(x.outputs[i], a) + Total(x.outputs, D \ {i}, a)
    <2>1. Total(x.outputs, (D \ {i}) \cup {i}, a) = Quantity(x.outputs[i], a) + Total(x.outputs, D \ {i}, a)
        BY <1>4, TotalAdd
    <2> QED BY <2>1, <1>4
<1>6. Total(x.outputs, D \ {i}, a) \in Nat
    BY <1>4, TotalIsNat
<1> QED BY <1>2, <1>3, <1>5, <1>6 DEF Requested

\* A selected entry never lowers the selected quantity of a token.
LEMMA SelectingAdds ==
    ASSUME args \in Instance, NEW S \in SUBSET Utxo, NEW u \in Utxo, u \notin S, NEW k
    PROVE  SelectedQuantity(S \cup {u}, k) >= SelectedQuantity(S, k)
<1>1. IsFiniteSet(S) /\ \A x \in S \cup {u} : IsValue(args.utxo[x])
    BY ArgumentsAreTyped, FS_Subset
<1>2. Total(args.utxo, S \cup {u}, k) = Quantity(args.utxo[u], k) + Total(args.utxo, S, k)
    BY <1>1, TotalAdd
<1>3. Quantity(args.utxo[u], k) \in Nat /\ Total(args.utxo, S, k) \in Nat /\ ImplicitInput(k) \in Nat
    BY <1>1, QuantityIsNat, TotalIsNat, ArgumentsAreTyped DEF ImplicitInput
<1> QED BY <1>2, <1>3 DEF SelectedQuantity

\* What DroppedIsCovered says, for a token.
Covered(k) == SelectedQuantity(utxoSelected, k) >= MinimumTarget(k)

\* A covered token stays covered when an entry is selected.
LEMMA CoveredStays ==
    ASSUME SelectionInv, NEW u \in utxoRemaining, NEW k, Covered(k),
           utxoSelected' = utxoSelected \cup {u}, args' = args
    PROVE  Covered(k)'
<1>1. SelectedQuantity(utxoSelected \cup {u}, k) >= SelectedQuantity(utxoSelected, k)
    BY SelectingAdds DEF SelectionInv
<1>2. /\ SelectedQuantity(utxoSelected, k) \in Nat /\ SelectedQuantity(utxoSelected \cup {u}, k) \in Nat
      /\ MinimumTarget(k) \in Nat
    BY SelectedIsNat, TargetIsNat DEF SelectionInv
<1>3. SelectedQuantity(utxoSelected \cup {u}, k) >= MinimumTarget(k)
    BY <1>1, <1>2 DEF Covered
<1>4. /\ SelectedQuantity(utxoSelected, k)' = SelectedQuantity(utxoSelected \cup {u}, k)
      /\ MinimumTarget(k)' = MinimumTarget(k)
    BY DEF SelectedQuantity, MinimumTarget, ImplicitInput, ImplicitDeposit
<1> QED BY <1>3, <1>4 DEF Covered

\* Selecting an entry uncovers no dropped token.
LEMMA SelectOneCovers ==
    ASSUME SelectionInv, DroppedIsCovered, NEW u \in utxoRemaining,
           utxoSelected' = utxoSelected \cup {u}, UNCHANGED <<args, tokensRemaining>>
    PROVE  DroppedIsCovered'
<1>1. ASSUME NEW k \in ToSet(args.tokens) \ ToSet(tokensRemaining)
      PROVE  Covered(k)'
    BY <1>1, CoveredStays DEF DroppedIsCovered, Covered
<1> QED BY <1>1 DEF DroppedIsCovered, Covered

\* When no entry with the token is left, what is selected has all of it.
LEMMA NoneLeftCovers ==
    ASSUME SelectionInv, BalanceSufficient, NEW k \in ToSet(args.tokens), FilterUtxo(k) = {}
    PROVE  Covered(k)
<1>1. IsFiniteSet(Utxo) /\ \A x \in Utxo : IsValue(args.utxo[x])
    BY ArgumentsAreTyped DEF SelectionInv
<1>2. ASSUME NEW u \in Utxo \ utxoSelected
      PROVE  Quantity(args.utxo[u], k) = 0
    <2>1. ~ (Quantity(args.utxo[u], k) > 0)
        BY <1>2 DEF FilterUtxo, SelectionInv
    <2>2. Quantity(args.utxo[u], k) \in Nat
        BY <1>1, QuantityIsNat
    <2> QED BY <2>1, <2>2
<1>3. Total(args.utxo, Utxo, k) = Total(args.utxo, utxoSelected, k)
    BY <1>1, <1>2, TotalWithout DEF SelectionInv
<1>4. MinimumTarget(k) <= SelectedQuantity(Utxo, k)
    BY ArgumentsAreTyped DEF BalanceSufficient, SelectionInv
<1>5. SelectedQuantity(utxoSelected, k) = SelectedQuantity(Utxo, k)
    BY <1>3 DEF SelectedQuantity
<1>6. SelectedQuantity(Utxo, k) \in Nat /\ MinimumTarget(k) \in Nat
    BY SelectedIsNat, TargetIsNat DEF SelectionInv
<1> QED BY <1>4, <1>5, <1>6 DEF Covered

\* A token is dropped only when it is covered.
LEMMA DropTokenCovers ==
    ASSUME SelectionInv, DroppedIsCovered, IteratorHasNext, DropToken, Covered(CurrentToken)
    PROVE  DroppedIsCovered'
<1>1. tokenIdx \in 1..Len(tokensRemaining)
    BY ArgumentsAreTyped DEF SelectionInv, IteratorHasNext
<1>2. ToSet(tokensRemaining) \subseteq ToSet(tokensRemaining') \cup {CurrentToken}
    BY <1>1, RemoveAtEntry DEF SelectionInv, DropToken, CurrentToken
<1>3. ASSUME NEW k \in ToSet(args.tokens) \ ToSet(tokensRemaining')
      PROVE  Covered(k)
    <2>1. CASE k = CurrentToken
        BY <2>1
    <2>2. CASE k # CurrentToken
        BY <2>2, <1>2 DEF DroppedIsCovered, Covered
    <2> QED BY <2>1, <2>2
<1>4. \A k : Covered(k)' = Covered(k)
    BY DEF DropToken, Covered, SelectedQuantity, MinimumTarget, ImplicitInput, ImplicitDeposit
<1> QED BY <1>3, <1>4 DEF DroppedIsCovered, Covered, DropToken

\* A token is dropped when it is covered or no entry remains for it.
LEMMA RoundRobinStepCovers ==
    ASSUME SelectionInv, BalanceSufficient, DroppedIsCovered, RoundRobinStep
    PROVE  DroppedIsCovered'
<1>1. ASSUME NEW u \in Utxo, SelectInput(u)
      PROVE  DroppedIsCovered'
    <2>1. u \in utxoRemaining
        BY <1>1 DEF SelectInput, FilterUtxo
    <2> QED BY <1>1, <2>1, SelectOneCovers DEF SelectInput
<1>2. ASSUME NEW u \in Utxo, NoImprovement(u)
      PROVE  DroppedIsCovered'
    <2>1. ~ (SelectedQuantity(utxoSelected, CurrentToken) < MinimumTarget(CurrentToken))
        BY <1>2 DEF NoImprovement, ImprovesSelection
    <2>2. Covered(CurrentToken)
        BY <2>1, SelectedIsNat, TargetIsNat DEF Covered, SelectionInv
    <2> QED BY <1>2, <2>2, DropTokenCovers DEF NoImprovement
<1>3. CASE NoneLeft
    <2>1. tokenIdx \in DOMAIN tokensRemaining
        BY <1>3, ArgumentsAreTyped DEF NoneLeft, SelectionInv, IteratorHasNext
    <2>2. CurrentToken \in ToSet(tokensRemaining)
        BY <2>1 DEF CurrentToken, ToSet
    <2>3. Covered(CurrentToken)
        BY <1>3, <2>2, NoneLeftCovers DEF NoneLeft, SelectionInv
    <2> QED BY <1>3, <2>3, DropTokenCovers DEF NoneLeft
<1>4. CASE NextRound
    BY <1>4 DEF NextRound, DroppedIsCovered, SelectedQuantity, MinimumTarget, ImplicitInput, ImplicitDeposit
<1> QED BY <1>1, <1>2, <1>3, <1>4 DEF RoundRobinStep

\* Whether the balance suffices depends on the arguments only.
LEMMA BalanceIsConstant ==
    ASSUME args' = args
    PROVE  BalanceSufficient' = BalanceSufficient
BY DEF BalanceSufficient, SelectedQuantity, MinimumTarget, ImplicitInput, ImplicitDeposit

\* The loops do not touch the arguments.
LEMMA RoundRobinKeepsArguments ==
    ASSUME RoundRobinStep
    PROVE  args' = args
BY DEF RoundRobinStep, SelectInput, NoImprovement, NoneLeft, NextRound, DropToken

-----------------------------------------------------------------------------
(* The round-robin selection by itself *)

RoundRobinInv == SelectionInv /\ BalanceSufficient /\ DroppedIsCovered

\* The invariant of the loops.
LEMMA RoundRobinInvHolds == Spec => []RoundRobinInv
<1>1. Init => RoundRobinInv
    BY RoundRobinInitInv DEF Init, RoundRobinInv, DroppedIsCovered, RoundRobinInit
<1>2. RoundRobinInv /\ [Next]_vars => RoundRobinInv'
    <2>1. CASE Next
        BY <2>1, RoundRobinStepInv, RoundRobinStepCovers, BalanceIsConstant,
           RoundRobinKeepsArguments DEF Next, RoundRobinInv
    <2>2. CASE UNCHANGED vars
        BY <2>2, BalanceIsConstant DEF vars, roundRobinVars, RoundRobinInv, SelectionInv,
           DroppedIsCovered, SelectedQuantity, MinimumTarget, ImplicitInput, ImplicitDeposit
    <2> QED BY <2>1, <2>2
<1> QED BY <1>1, <1>2, PTL DEF Spec

\* The state has its shape: in particular the iterator never stands further
\* than one past the first length of the list, although entries are spliced
\* out of the list under it.
THEOREM RoundRobinTypeCorrect == Spec => []RoundRobinTypeOK
<1>1. RoundRobinInv => RoundRobinTypeOK
    BY SelectionInvImplies DEF RoundRobinInv
<1> QED BY <1>1, RoundRobinInvHolds, PTL

\* Every token that is no longer considered is covered by what is selected,
\* although the iterator skips tokens and other tokens go on selecting.
THEOREM DroppedTokensAreCovered == Spec => []DroppedIsCovered
<1>1. RoundRobinInv => DroppedIsCovered
    BY DEF RoundRobinInv
<1> QED BY <1>1, RoundRobinInvHolds, PTL

\* When the selection returns, every token of the outputs is covered.
AllCovered ==
    RoundRobinDone =>
        \A k \in OutputAssets(args) \cup {Coin} :
            SelectedQuantity(utxoSelected, k) >= MinimumTarget(k)

\* roundRobinSelection returns only with enough of every token.
THEOREM SelectionIsSufficient == Spec => []AllCovered
<1>1. RoundRobinInv => AllCovered
    BY ArgumentsAreTyped DEF RoundRobinInv, SelectionInv, DroppedIsCovered, AllCovered,
       RoundRobinDone, ToSet
<1> QED BY <1>1, RoundRobinInvHolds, PTL

-----------------------------------------------------------------------------
(* select *)

\* Steps that do not select keep the invariant.
LEMMA KeepSelectionInv ==
    ASSUME SelectionInv, UNCHANGED <<args, roundRobinVars>>
    PROVE  SelectionInv'
BY DEF SelectionInv, roundRobinVars

\* An extra entry moves from one list to the other.
LEMMA PickExtraInv ==
    ASSUME SelectionInv, PickExtraRandomUtxo, UNCHANGED <<args, tokensRemaining, tokenIdx>>
    PROVE  SelectionInv'
<1>1. PICK u \in utxoRemaining : utxoSelected' = utxoSelected \cup {u} /\ utxoRemaining' = utxoRemaining \ {u}
    BY DEF PickExtraRandomUtxo, CoinOnly
<1> QED BY <1>1, SelectOneInv

\* Every step of select preserves the invariant of the lists.
LEMMA SelectNextInv ==
    ASSUME SelectionInv, SelectNext
    PROVE  SelectionInv'
<1> USE DEF GoTo, KeepSelection, roundRobinVars
<1>1. CASE Start
    BY <1>1, KeepSelectionInv DEF Start
<1>2. CASE RoundRobinSelection
    BY <1>2, RoundRobinStepInv DEF RoundRobinSelection
<1>3. CASE RoundRobinReturns
    BY <1>3, KeepSelectionInv DEF RoundRobinReturns
<1>4. CASE ComputeBundles
    BY <1>4, KeepSelectionInv DEF ComputeBundles
<1>5. CASE MergeSmallest
    BY <1>5, KeepSelectionInv DEF MergeSmallest
<1>6. CASE TakeExtraForChange
    BY <1>6, PickExtraInv DEF TakeExtraForChange
<1>7. CASE FullyDepleted
    BY <1>7, KeepSelectionInv DEF FullyDepleted
<1>8. CASE ChangeInclFee
    BY <1>8, KeepSelectionInv DEF ChangeInclFee
<1>9. CASE FeeCovered
    BY <1>9, KeepSelectionInv DEF FeeCovered
<1>10. CASE FeeNotCovered
    BY <1>10, PickExtraInv, KeepSelectionInv DEF FeeNotCovered
<1>11. CASE FinalChange
    BY <1>11, KeepSelectionInv DEF FinalChange
<1> QED BY <1>1, <1>2, <1>3, <1>4, <1>5, <1>6, <1>7, <1>8, <1>9, <1>10, <1>11 DEF SelectNext

\* However often select starts over with an extra entry, no entry of the UTxO
\* is lost, and none is both selected and remaining.
THEOREM NoUtxoLost == SelectSpec => []ConservationOfUtxo
<1>1. SelectInit => SelectionInv
    BY RoundRobinInitInv DEF SelectInit
<1>2. SelectionInv /\ [SelectNext]_selectVars => SelectionInv'
    BY SelectNextInv, KeepSelectionInv DEF selectVars
<1>3. SelectionInv => ConservationOfUtxo
    BY SelectionInvImplies
<1> QED BY <1>1, <1>2, <1>3, PTL DEF SelectSpec

\* What select knows in each stage: the balance was checked before the
\* round-robin selection, which has dropped every token before it returns.
SelectInv ==
    /\ SelectionInv
    /\ DroppedIsCovered
    /\ stage = "roundRobin" => BalanceSufficient
    /\ stage \in {"start", "roundRobin", "UtxoBalanceInsufficient"} \/ tokensRemaining = <<>>

\* A call has selected nothing at first.
LEMMA SelectInitCovers == SelectInit => SelectInv
BY RoundRobinInitInv DEF SelectInit, RoundRobinInit, SelectInv, DroppedIsCovered

\* Steps that do not select keep what is covered.
LEMMA KeepCovers ==
    ASSUME DroppedIsCovered, UNCHANGED <<args, roundRobinVars>>
    PROVE  DroppedIsCovered'
BY DEF DroppedIsCovered, SelectedQuantity, MinimumTarget, ImplicitInput, ImplicitDeposit, roundRobinVars

\* An extra entry uncovers no token.
LEMMA PickExtraCovers ==
    ASSUME SelectionInv, DroppedIsCovered, PickExtraRandomUtxo, UNCHANGED <<args, tokensRemaining>>
    PROVE  DroppedIsCovered'
<1>1. PICK u \in utxoRemaining : utxoSelected' = utxoSelected \cup {u}
    BY DEF PickExtraRandomUtxo, CoinOnly
<1> QED BY <1>1, SelectOneCovers

\* Every step after the selection leaves the dropped tokens covered.
LEMMA SelectNextCovers ==
    ASSUME SelectInv, SelectNext
    PROVE  SelectInv'
<1>1. SelectionInv'
    BY SelectNextInv DEF SelectInv
<1> USE DEF GoTo, KeepSelection, roundRobinVars, SelectInv
<1>2. CASE Start
    BY <1>1, <1>2, KeepCovers, BalanceIsConstant DEF Start
<1>3. CASE RoundRobinSelection
    BY <1>1, <1>3, RoundRobinStepCovers, RoundRobinKeepsArguments, BalanceIsConstant DEF RoundRobinSelection
<1>4. CASE RoundRobinReturns
    BY <1>1, <1>4, KeepCovers DEF RoundRobinReturns, RoundRobinDone
<1>5. CASE ComputeBundles
    BY <1>1, <1>5, KeepCovers DEF ComputeBundles
<1>6. CASE MergeSmallest
    BY <1>1, <1>6, KeepCovers DEF MergeSmallest, Merging
<1>7. CASE TakeExtraForChange
    BY <1>1, <1>7, PickExtraCovers DEF TakeExtraForChange, Merging
<1>8. CASE FullyDepleted
    BY <1>1, <1>8, KeepCovers DEF FullyDepleted, Merging
<1>9. CASE ChangeInclFee
    BY <1>1, <1>9, KeepCovers DEF ChangeInclFee
<1>10. CASE FeeCovered
    BY <1>1, <1>10, KeepCovers DEF FeeCovered
<1>11. CASE FeeNotCovered
    BY <1>1, <1>11, PickExtraCovers, KeepCovers DEF FeeNotCovered
<1>12. CASE FinalChange
    BY <1>1, <1>12, KeepCovers DEF FinalChange
<1> QED BY <1>2, <1>3, <1>4, <1>5, <1>6, <1>7, <1>8, <1>9, <1>10, <1>11, <1>12 DEF SelectNext

\* What is selected when the change is divided holds some of every asset.
LEMMA SelectedIsPositive ==
    ASSUME SelectInv, tokensRemaining = <<>>, NEW a \in OutputAssets(args)
    PROVE  Selected(args, utxoSelected, a) > 0
<1>1. args \in Instance /\ utxoSelected \in SUBSET Utxo
    BY DEF SelectInv, SelectionInv
<1>2. a # Coin /\ Requested(args, a) > 0
    BY <1>1, RequestedIsPositive
<1>3. a \in ToSet(args.tokens) \ ToSet(tokensRemaining)
    BY <1>1, ArgumentsAreTyped DEF ToSet
<1>4. SelectedQuantity(utxoSelected, a) >= MinimumTarget(a)
    BY <1>3 DEF SelectInv, DroppedIsCovered
<1>5. SelectedQuantity(utxoSelected, a) = Total(args.utxo, utxoSelected, a) + 0
      /\ Selected(args, utxoSelected, a) = Total(args.utxo, utxoSelected, a) + 0
      /\ MinimumTarget(a) = Requested(args, a) + 0
    BY <1>2 DEF SelectedQuantity, Selected, MinimumTarget, ImplicitInput, ImplicitDeposit
<1>6. SelectedQuantity(utxoSelected, a) \in Nat /\ MinimumTarget(a) \in Nat /\ Requested(args, a) \in Nat
    BY <1>1, SelectedIsNat, TargetIsNat, OutputsAreTyped, TotalIsNat DEF Requested
<1> QED BY <1>2, <1>4, <1>5, <1>6

\* The division of the change never divides by zero, so select rejects with an
\* InputSelectionError or not at all.
THEOREM ChangeIsDivided == SelectSpec => []NoDivisionByZero
<1>1. SelectInv /\ [SelectNext]_selectVars => SelectInv'
    <2>1. CASE SelectNext
        BY <2>1, SelectNextCovers
    <2>2. CASE UNCHANGED selectVars
        BY <2>2, KeepSelectionInv, KeepCovers, BalanceIsConstant DEF selectVars, SelectInv, roundRobinVars
    <2> QED BY <2>1, <2>2
<1>2. SelectInv => NoDivisionByZero
    BY SelectedIsPositive DEF NoDivisionByZero, SelectInv
<1> QED BY <1>1, <1>2, SelectInitCovers, PTL DEF SelectSpec

-----------------------------------------------------------------------------
(* The orderings of the change bundles *)

\* What InOrder needs of a relation: it is total and transitive.
IsOrdering(S, related) ==
    /\ \A x, y \in S : x # y => <<x, y>> \in related \/ <<y, x>> \in related
    /\ \A x, y, z \in S : <<x, y>> \in related /\ <<y, z>> \in related => <<x, z>> \in related

\* A finite ordered set has a member all the others are related to.
LEMMA LastExists ==
    ASSUME NEW S, IsFiniteSet(S), S # {}, NEW related, IsOrdering(S, related)
    PROVE  \E m \in S : \A x \in S : x # m => <<x, m>> \in related
<1> DEFINE Above(y) == {z \in S : z # y /\ <<z, y>> \notin related}
           B == {U \in SUBSET S : \E y \in S : U = Above(y)}
<1>1. B # {}
    <2>1. PICK y \in S : TRUE
        OBVIOUS
    <2>2. Above(y) \in B
        BY <2>1
    <2> QED BY <2>2
<1>2. PICK U \in B : \A V \in SUBSET U : V # U => V \notin B
    <2>1. B \in SUBSET SUBSET S
        OBVIOUS
    <2> HIDE DEF B
    <2> QED BY <2>1, <1>1, MinimalSubset
<1>3. PICK y \in S : U = Above(y)
    OBVIOUS
<1>4. ASSUME NEW z \in Above(y) PROVE FALSE
    <2>1. z \in S /\ <<y, z>> \in related
        BY DEF IsOrdering
    <2>2. ASSUME NEW w \in Above(z)
          PROVE  w \in Above(y)
        <3>1. w \in S /\ w # y
            BY <2>1, <2>2
        <3>2. <<w, y>> \notin related
            BY <2>1, <2>2, <3>1 DEF IsOrdering
        <3> QED BY <3>1, <3>2
    <2>3. Above(z) \in SUBSET U /\ Above(z) \in B
        BY <1>3, <2>1, <2>2
    <2>4. z \in U /\ z \notin Above(z)
        BY <1>3
    <2> QED BY <1>2, <2>3, <2>4
<1> QED BY <1>4

\* The enumerations InOrder chooses from.
Enumerates(s, S, related) ==
    /\ s \in [1..Cardinality(S) -> S]
    /\ IsInjective(s)
    /\ \A i, j \in DOMAIN s : i < j => <<s[i], s[j]>> \in related

\* One of the members that are last goes behind an enumeration of the rest.
LEMMA EnumerationExists ==
    ASSUME NEW S, IsFiniteSet(S), NEW related, IsOrdering(S, related)
    PROVE  \E s : Enumerates(s, S, related)
<1> DEFINE B == {U \in SUBSET S : ~ \E s : Enumerates(s, U, related)}
<1>1. SUFFICES ASSUME B # {} PROVE FALSE
    OBVIOUS
<1>2. PICK U \in B : \A V \in SUBSET U : V # U => V \notin B
    <2>1. B \in SUBSET SUBSET S
        OBVIOUS
    <2> HIDE DEF B
    <2> QED BY <2>1, <1>1, MinimalSubset
<1>3. IsFiniteSet(U) /\ IsOrdering(U, related)
    BY FS_Subset DEF IsOrdering
<1>4. U # {}
    <2>1. SUFFICES ASSUME U = {} PROVE FALSE
        OBVIOUS
    <2>2. Cardinality(U) = 0
        BY <2>1, FS_EmptySet
    <2>3. 1..0 = {}
        OBVIOUS
    <2>4. Enumerates([i \in 1..0 |-> 0], U, related)
        BY <2>2, <2>3 DEF Enumerates, IsInjective
    <2> QED BY <2>4
<1>5. PICK m \in U : \A x \in U : x # m => <<x, m>> \in related
    BY <1>3, <1>4, LastExists
<1>6. PICK s : Enumerates(s, U \ {m}, related)
    BY <1>2, <1>5
<1>7. PICK n \in Nat : n = Cardinality(U \ {m}) /\ Cardinality(U) = n + 1
    <2>1. Cardinality(U) \in Nat /\ Cardinality(U \ {m}) = Cardinality(U) - 1
        BY <1>3, FS_RemoveElement, FS_CardinalityType
    <2>2. Cardinality(U) # 0
        BY <1>3, <1>4, FS_EmptySet
    <2> QED BY <2>1, <2>2
<1> DEFINE t == [i \in 1..(n + 1) |-> IF i = n + 1 THEN m ELSE s[i]]
<1>8. s \in [1..n -> U \ {m}]
    BY <1>6, <1>7 DEF Enumerates
<1>9. ASSUME NEW i \in 1..(n + 1), i # n + 1
      PROVE  i \in DOMAIN s /\ t[i] = s[i] /\ s[i] \in U /\ s[i] # m
    <2>1. i \in 1..n
        BY <1>9
    <2> QED BY <2>1, <1>8, <1>9
<1>10. t[n + 1] = m
    OBVIOUS
<1>11. t \in [1..(n + 1) -> U]
    BY <1>9, <1>10
<1>12. IsInjective(t)
    BY <1>6, <1>9, <1>10 DEF IsInjective, Enumerates
<1>13. ASSUME NEW i \in 1..(n + 1), NEW j \in 1..(n + 1), i < j
       PROVE  <<t[i], t[j]>> \in related
    <2>1. i # n + 1
        BY <1>13
    <2>2. CASE j = n + 1
        BY <1>5, <1>9, <1>10, <2>1, <2>2
    <2>3. CASE j # n + 1
        BY <1>6, <1>9, <1>13, <2>1, <2>3 DEF Enumerates
    <2> QED BY <2>2, <2>3
<1>14. Enumerates(t, U, related)
    BY <1>7, <1>11, <1>12, <1>13 DEF Enumerates
<1> QED BY <1>14

\* InOrder lists every member once, in an order that agrees with the relation.
LEMMA InOrderEnumerates ==
    ASSUME NEW S, IsFiniteSet(S), NEW related, IsOrdering(S, related)
    PROVE  LET s == InOrder(S, related)
           IN  /\ Cardinality(S) \in Nat
               /\ s \in [1..Cardinality(S) -> S]
               /\ IsInjective(s)
               /\ S = {s[i] : i \in 1..Cardinality(S)}
               /\ \A i, j \in 1..Cardinality(S) : i < j => <<s[i], s[j]>> \in related
<1> DEFINE s == InOrder(S, related)
<1>1. \E e \in [1..Cardinality(S) -> S] :
        IsInjective(e) /\ \A i, j \in DOMAIN e : i < j => <<e[i], e[j]>> \in related
    BY EnumerationExists DEF Enumerates
<1>2. /\ s \in [1..Cardinality(S) -> S]
      /\ IsInjective(s)
      /\ \A i, j \in DOMAIN s : i < j => <<s[i], s[j]>> \in related
    BY <1>1 DEF InOrder
<1>3. Cardinality(S) \in Nat
    BY FS_CardinalityType
<1> HIDE DEF s
<1>4. s \in Surjection(1..Cardinality(S), S)
    <2>1. s \in Injection(1..Cardinality(S), S)
        BY <1>2 DEF Injection
    <2>2. Cardinality(1..Cardinality(S)) = Cardinality(S)
        BY <1>3, FS_Interval
    <2> QED BY <2>1, <2>2, FS_Injection
<1>5. S = {s[i] : i \in 1..Cardinality(S)}
    BY <1>2, <1>4 DEF Surjection
<1>6. \A i, j \in 1..Cardinality(S) : i < j => <<s[i], s[j]>> \in related
    BY <1>2
<1> QED BY <1>2, <1>3, <1>5, <1>6 DEF s

-----------------------------------------------------------------------------
(* Lists of bundles and their totals *)

IsBundles(b) ==
    /\ b \in Seq(Range(b))
    /\ \A i \in DOMAIN b : IsValue(b[i])

\* A function on 1..n with values is a list of bundles.
LEMMA BundlesFromValues ==
    ASSUME NEW n \in Nat, NEW b, b = [i \in 1..n |-> b[i]], \A i \in 1..n : IsValue(b[i])
    PROVE  IsBundles(b) /\ Len(b) = n
<1>1. DOMAIN b = 1..n
    OBVIOUS
<1>2. b \in [1..n -> Range(b)]
    BY DEF Range
<1>3. b \in Seq(Range(b))
    BY <1>2
<1>4. Len(b) = n
    <2>1. Len(b) \in Nat /\ DOMAIN b = 1..Len(b)
        BY <1>3, LenProperties
    <2> QED BY <1>1, <2>1
<1> QED BY <1>1, <1>3, <1>4 DEF IsBundles

\* A list of bundles has its length and its members.
LEMMA BundlesAreListed ==
    ASSUME NEW b, IsBundles(b)
    PROVE  /\ Len(b) \in Nat /\ DOMAIN b = 1..Len(b) /\ IsFiniteSet(DOMAIN b)
           /\ b = [i \in 1..Len(b) |-> b[i]]
           /\ b = <<>> <=> Len(b) = 0
<1>1. Len(b) \in Nat /\ DOMAIN b = 1..Len(b) /\ b \in [1..Len(b) -> Range(b)]
    BY LenProperties DEF IsBundles
<1>2. b = <<>> <=> Len(b) = 0
    BY EmptySeq DEF IsBundles
<1>3. IsFiniteSet(DOMAIN b)
    BY <1>1, FS_Interval
<1> QED BY <1>1, <1>2, <1>3

\* The quantity of token k in all of the bundles.
BundlesTotal(b, k) == Total(b, DOMAIN b, k)

\* Values that agree on a token have the same total of it.
LEMMA TotalSame ==
    ASSUME NEW S, IsFiniteSet(S), NEW v, NEW w, NEW k,
           \A x \in S : IsValue(v[x]) /\ Quantity(v[x], k) = Quantity(w[x], k)
    PROVE  Total(v, S, k) = Total(w, S, k)
<1> DEFINE f == [x \in S |-> Quantity(v[x], k)]
           g == [x \in S |-> Quantity(w[x], k)]
<1>1. \A x \in S : f[x] \in Int /\ f[x] = g[x]
    BY QuantityIsNat
<1> HIDE DEF f, g
<1>2. SumFunctionOnSet(f, S) = SumFunctionOnSet(g, S)
    BY <1>1, SumSame
<1> QED BY <1>2 DEF Total, f, g

\* Listing some of the values in another order leaves their total as it is.
LEMMA ReorderedBundles ==
    ASSUME NEW b, NEW S, IsFiniteSet(S), \A x \in S : IsValue(b[x]),
           NEW related, IsOrdering(S, related)
    PROVE  LET order == InOrder(S, related)
               c == [n \in DOMAIN order |-> b[order[n]]]
           IN  /\ IsBundles(c)
               /\ Len(c) = Cardinality(S)
               /\ \A i \in DOMAIN c : order[i] \in S /\ c[i] = b[order[i]]
               /\ \A x \in S : \E i \in DOMAIN c : c[i] = b[x]
               /\ \A i, j \in DOMAIN c : i < j => <<order[i], order[j]>> \in related
               /\ \A k : BundlesTotal(c, k) = Total(b, S, k)
<1> DEFINE order == InOrder(S, related)
           m == Cardinality(S)
           c == [n \in DOMAIN order |-> b[order[n]]]
<1>1. /\ m \in Nat
      /\ order \in [1..m -> S]
      /\ \A i, j \in 1..m : order[i] = order[j] => i = j
      /\ S = {order[i] : i \in 1..m}
      /\ \A i, j \in 1..m : i < j => <<order[i], order[j]>> \in related
    <2>1. DOMAIN order = 1..m
        BY InOrderEnumerates
    <2> QED BY <2>1, InOrderEnumerates DEF IsInjective
<1> HIDE DEF m, order
<1>2. c = [n \in 1..m |-> b[order[n]]] /\ DOMAIN c = 1..m
    BY <1>1
<1>3. \A i \in 1..m : order[i] \in S /\ c[i] = b[order[i]] /\ IsValue(c[i])
    BY <1>1
<1>4. IsBundles(c) /\ Len(c) = m
    <2>1. c = [i \in 1..m |-> c[i]]
        BY <1>2
    <2> HIDE DEF c
    <2> QED BY <1>1, <1>3, <2>1, BundlesFromValues
<1>5. \A x \in S : \E i \in DOMAIN c : c[i] = b[x]
    BY <1>1, <1>2, <1>3
<1>6. ASSUME NEW k PROVE BundlesTotal(c, k) = Total(b, S, k)
    <2> DEFINE f == [i \in 1..m |-> Quantity(c[i], k)]
               g == [x \in S |-> Quantity(b[x], k)]
    <2>1. \A i \in 1..m : f[i] \in Int /\ g[order[i]] = f[i]
        BY <1>3, QuantityIsNat
    <2>2. BundlesTotal(c, k) = SumFunctionOnSet(f, 1..m) /\ Total(b, S, k) = SumFunctionOnSet(g, S)
        BY <1>2 DEF BundlesTotal, Total
    <2>3. IsFiniteSet(1..m)
        BY <1>1, FS_Interval
    <2> HIDE DEF f, g
    <2>4. Renames(order, 1..m, S)
        BY <1>1 DEF Renames
    <2>5. SumFunctionOnSet(g, S) = SumFunctionOnSet(f, 1..m)
        <3>1. PICK F, G, D, r : F = f /\ G = g /\ D = 1..m /\ r = order
            OBVIOUS
        <3>2. IsFiniteSet(D)
            BY <3>1, <2>3
        <3>3. Renames(r, D, S)
            BY <3>1, <2>4
        <3>4. \A i \in D : F[i] \in Int /\ G[r[i]] = F[i]
            BY <3>1, <2>1
        <3>5. SumFunctionOnSet(G, S) = SumFunctionOnSet(F, D)
            BY <3>2, <3>3, <3>4, SumRenamed
        <3> QED BY <3>1, <3>5
    <2> QED BY <2>2, <2>5
<1> QED BY <1>1, <1>2, <1>3, <1>4, <1>5, <1>6 DEF m, order

\* The bundles hold assets of A only.
HoldOnly(b, A) == \A i \in DOMAIN b : DOMAIN b[i].assets \subseteq A

\* Sorted by their coins, largest first.
IsDescending(b) == \A i, j \in DOMAIN b : i < j => b[i].coins >= b[j].coins

\* Sorting keeps the assets that are held and every total.
LEMMA LargestFirstKeeps ==
    ASSUME NEW b, IsBundles(b)
    PROVE  LET c == LargestFirst(b)
           IN  /\ IsBundles(c) /\ Len(c) = Len(b) /\ IsDescending(c)
               /\ \A A : HoldOnly(b, A) => HoldOnly(c, A)
               /\ \A k : BundlesTotal(c, k) = BundlesTotal(b, k)
<1> DEFINE D == DOMAIN b
           before == {e \in D \X D : \/ b[e[1]].coins > b[e[2]].coins
                                     \/ b[e[1]].coins = b[e[2]].coins /\ e[1] < e[2]}
           order == InOrder(D, before)
           c == [n \in DOMAIN order |-> b[order[n]]]
<1>1. /\ IsFiniteSet(D) /\ D = 1..Len(b) /\ Len(b) \in Nat
      /\ \A x \in D : IsValue(b[x]) /\ b[x].coins \in Nat
    BY BundlesAreListed DEF IsBundles, IsValue
<1>2. Cardinality(D) = Len(b)
    <2>1. \A n \in Nat : Cardinality(1..n) = n
        BY FS_Interval
    <2> QED BY <1>1, <2>1
<1>3. IsOrdering(D, before)
    <2>1. \A x \in D : x \in Nat /\ b[x].coins \in Nat
        BY <1>1
    <2>2. \A x, y \in D : <<x, y>> \in before <=>
            \/ b[x].coins > b[y].coins
            \/ b[x].coins = b[y].coins /\ x < y
        OBVIOUS
    <2> HIDE DEF before, D
    <2> QED BY <2>1, <2>2 DEF IsOrdering
<1>4. c = LargestFirst(b)
    BY DEF LargestFirst
<1>5. /\ IsBundles(c)
      /\ Len(c) = Cardinality(D)
      /\ \A i \in DOMAIN c : order[i] \in D /\ c[i] = b[order[i]]
      /\ \A i, j \in DOMAIN c : i < j => <<order[i], order[j]>> \in before
      /\ \A k : BundlesTotal(c, k) = Total(b, D, k)
    <2>1. IsFiniteSet(D) /\ \A x \in D : IsValue(b[x])
        BY <1>1
    <2> HIDE DEF before, D
    <2> QED BY <2>1, <1>3, ReorderedBundles
<1>6. \A i \in DOMAIN c : order[i] \in D /\ c[i] = b[order[i]] /\ b[order[i]].coins \in Nat
    <2> HIDE DEF c, order
    <2> QED BY <1>1, <1>5
<1>7. IsDescending(c)
    <2>1. \A x, y \in D : <<x, y>> \in before => b[x].coins > b[y].coins \/ b[x].coins = b[y].coins
        OBVIOUS
    <2>2. ASSUME NEW i \in DOMAIN c, NEW j \in DOMAIN c, i < j
          PROVE  c[i].coins >= c[j].coins
        <3> HIDE DEF c, order, before, D
        <3>1. <<order[i], order[j]>> \in before
            BY <1>5, <2>2
        <3>2. /\ order[i] \in D /\ order[j] \in D
              /\ c[i] = b[order[i]] /\ c[j] = b[order[j]]
              /\ b[order[i]].coins \in Nat /\ b[order[j]].coins \in Nat
            BY <1>6
        <3> QED BY <2>1, <3>1, <3>2
    <2> HIDE DEF c
    <2> QED BY <2>2 DEF IsDescending
<1>8. \A A : HoldOnly(b, A) => HoldOnly(c, A)
    <2> HIDE DEF c, order
    <2> QED BY <1>6 DEF HoldOnly
<1>9. \A k : BundlesTotal(c, k) = BundlesTotal(b, k)
    <2> HIDE DEF c
    <2> QED BY <1>5 DEF BundlesTotal
<1> QED BY <1>2, <1>4, <1>5, <1>7, <1>8, <1>9

\* Coalescing two values adds their quantities.
LEMMA CoalesceAdds ==
    ASSUME NEW v, NEW w, IsValue(v), IsValue(w)
    PROVE  /\ IsValue(Coalesce(v, w))
           /\ DOMAIN Coalesce(v, w).assets = DOMAIN v.assets \cup DOMAIN w.assets
           /\ \A k \in Token : Quantity(Coalesce(v, w), k) = Quantity(v, k) + Quantity(w, k)
<1> DEFINE c == Coalesce(v, w)
           D == DOMAIN v.assets \cup DOMAIN w.assets
<1>1. /\ c.coins = v.coins + w.coins
      /\ DOMAIN c.assets = D
      /\ \A a \in D : c.assets[a] = Quantity(v, a) + Quantity(w, a)
    BY DEF Coalesce
<1>2. \A k : Quantity(v, k) \in Nat /\ Quantity(w, k) \in Nat
    BY QuantityIsNat
<1> HIDE DEF c, D
<1>3. IsValue(c)
    <2>1. c.coins \in Nat
        BY <1>1 DEF IsValue
    <2>2. D \subseteq Asset
        BY DEF D, IsValue
    <2>3. \A a \in D : c.assets[a] \in Nat
        BY <1>1, <1>2
    <2> QED BY <1>1, <2>1, <2>2, <2>3 DEF IsValue
<1>4. ASSUME NEW k \in Token PROVE Quantity(c, k) = Quantity(v, k) + Quantity(w, k)
    <2>1. CASE k = Coin
        BY <1>1, <2>1 DEF Quantity
    <2>2. CASE k # Coin /\ k \in D
        BY <1>1, <2>2 DEF Quantity
    <2>3. CASE k # Coin /\ k \notin D
        BY <1>1, <2>3 DEF Quantity, D
    <2> QED BY <2>1, <2>2, <2>3
<1> QED BY <1>1, <1>3, <1>4 DEF c, D

\* The total of the first n + 1 values.
LEMMA TotalUpTo ==
    ASSUME NEW n \in Nat, NEW v, \A i \in 1..(n + 1) : IsValue(v[i]), NEW k
    PROVE  Total(v, 1..(n + 1), k) = Quantity(v[n + 1], k) + Total(v, 1..n, k)
<1>1. 1..(n + 1) = (1..n) \cup {n + 1} /\ n + 1 \notin 1..n /\ IsFiniteSet(1..n)
    BY FS_Interval
<1>2. PICK D, T, m : D = 1..(n + 1) /\ T = 1..n /\ m = n + 1
    OBVIOUS
<1>3. D = T \cup {m} /\ m \notin T /\ IsFiniteSet(T) /\ \A i \in T \cup {m} : IsValue(v[i])
    BY <1>1, <1>2
<1>4. Total(v, T \cup {m}, k) = Quantity(v[m], k) + Total(v, T, k)
    BY <1>3, TotalAdd
<1> QED BY <1>2, <1>3, <1>4

\* Merging the last bundle into the one before keeps every total.
LEMMA MergeLastKeeps ==
    ASSUME NEW b, IsBundles(b), Len(b) > 1
    PROVE  LET c == MergeLast(b)
           IN  /\ IsBundles(c) /\ Len(c) = Len(b) - 1 /\ IsDescending(c)
               /\ \A A : HoldOnly(b, A) => HoldOnly(c, A)
               /\ \A k \in Token : BundlesTotal(c, k) = BundlesTotal(b, k)
<1>1. PICK n \in Nat : Len(b) = n + 2
    <2>1. Len(b) \in Nat /\ Len(b) - 2 \in Nat /\ Len(b) = (Len(b) - 2) + 2
        BY BundlesAreListed
    <2> QED BY <2>1
<1>2. DOMAIN b = 1..(n + 2) /\ \A i \in 1..(n + 2) : IsValue(b[i])
    BY <1>1, BundlesAreListed DEF IsBundles
<1> DEFINE both == Coalesce(b[n + 1], b[n + 2])
           m == [i \in 1..(n + 1) |-> IF i = n + 1 THEN both ELSE b[i]]
<1>3. /\ IsValue(both)
      /\ DOMAIN both.assets = DOMAIN b[n + 1].assets \cup DOMAIN b[n + 2].assets
      /\ \A k \in Token : Quantity(both, k) = Quantity(b[n + 1], k) + Quantity(b[n + 2], k)
    BY <1>2, CoalesceAdds
<1> HIDE DEF both
<1>4. /\ m = [i \in 1..(n + 1) |-> m[i]]
      /\ m[n + 1] = both
      /\ \A i \in 1..n : m[i] = b[i]
      /\ \A i \in 1..(n + 1) : IsValue(m[i])
    BY <1>2, <1>3
<1>5. MergeLast(b) = LargestFirst(m)
    <2>1. Len(b) - 1 = n + 1
        BY <1>1
    <2> QED BY <1>1, <2>1 DEF MergeLast, both
<1> HIDE DEF m
<1>6. IsBundles(m) /\ Len(m) = n + 1 /\ DOMAIN m = 1..(n + 1)
    <2>1. IsBundles(m) /\ Len(m) = n + 1
        BY <1>4, BundlesFromValues
    <2> QED BY <2>1, BundlesAreListed
<1>7. ASSUME NEW k \in Token PROVE BundlesTotal(m, k) = BundlesTotal(b, k)
    <2>1. Total(m, 1..(n + 1), k) = Quantity(both, k) + Total(m, 1..n, k)
        BY <1>4, TotalUpTo
    <2>2. Total(b, 1..(n + 1), k) = Quantity(b[n + 1], k) + Total(b, 1..n, k)
        BY <1>2, TotalUpTo
    <2>3. Total(b, 1..(n + 2), k) = Quantity(b[n + 2], k) + Total(b, 1..(n + 1), k)
        <3>1. n + 1 \in Nat /\ (n + 1) + 1 = n + 2
            OBVIOUS
        <3>2. Total(b, 1..((n + 1) + 1), k) = Quantity(b[(n + 1) + 1], k) + Total(b, 1..(n + 1), k)
            BY <1>2, <3>1, TotalUpTo
        <3> QED BY <3>1, <3>2
    <2>4. IsFiniteSet(1..n) /\ \A i \in 1..n : IsValue(m[i]) /\ Quantity(m[i], k) = Quantity(b[i], k)
        <3>1. \A i \in 1..n : i \in 1..(n + 1) /\ m[i] = b[i]
            BY <1>4
        <3>2. \A i \in 1..n : IsValue(m[i])
            BY <1>4, <3>1
        <3>3. IsFiniteSet(1..n)
            BY FS_Interval
        <3> QED BY <3>1, <3>2, <3>3
    <2>5. Total(m, 1..n, k) = Total(b, 1..n, k)
        BY <2>4, TotalSame
    <2>6. /\ Quantity(b[n + 1], k) \in Nat /\ Quantity(b[n + 2], k) \in Nat
          /\ Total(b, 1..n, k) \in Nat
        <3>1. \A i \in 1..n : IsValue(b[i])
            BY <1>2
        <3> QED BY <1>2, <2>4, <3>1, QuantityIsNat, TotalIsNat
    <2> QED BY <1>2, <1>3, <1>6, <2>1, <2>2, <2>3, <2>5, <2>6 DEF BundlesTotal
<1>8. \A A : HoldOnly(b, A) => HoldOnly(m, A)
    <2>1. ASSUME NEW A, HoldOnly(b, A), NEW i \in 1..(n + 1)
          PROVE  DOMAIN m[i].assets \subseteq A
        <3>1. i \in 1..(n + 2) /\ n + 1 \in 1..(n + 2) /\ n + 2 \in 1..(n + 2)
            OBVIOUS
        <3>2. /\ DOMAIN b[i].assets \subseteq A
              /\ DOMAIN b[n + 1].assets \subseteq A
              /\ DOMAIN b[n + 2].assets \subseteq A
            BY <1>2, <2>1, <3>1 DEF HoldOnly
        <3>3. CASE i = n + 1
            BY <1>3, <1>4, <3>2, <3>3
        <3>4. CASE i # n + 1
            <4>1. i \in 1..n
                BY <3>4
            <4>2. m[i] = b[i]
                BY <1>4, <4>1
            <4> QED BY <3>2, <4>2
        <3> QED BY <3>3, <3>4
    <2> QED BY <1>6, <2>1 DEF HoldOnly
<1> QED BY <1>1, <1>5, <1>6, <1>7, <1>8, LargestFirstKeeps

\* Bundles that hold nothing can be left out.
LEMMA NonEmptyKeeps ==
    ASSUME NEW b, IsBundles(b)
    PROVE  LET c == NonEmptyBundles(b)
           IN  /\ IsBundles(c)
               /\ \A i \in DOMAIN c : \E j \in DOMAIN b : c[i] = b[j]
               /\ \A k \in Token : BundlesTotal(c, k) = BundlesTotal(b, k)
<1> DEFINE D == DOMAIN b
           kept == {i \in D : ~ IsEmptyBundle(b[i])}
           before == {e \in kept \X kept : e[1] < e[2]}
           order == InOrder(kept, before)
           c == [n \in DOMAIN order |-> b[order[n]]]
<1>1. /\ IsFiniteSet(D) /\ D \subseteq Nat
      /\ \A x \in D : IsValue(b[x])
    BY BundlesAreListed DEF IsBundles
<1>2. IsFiniteSet(kept) /\ kept \subseteq D /\ \A x \in kept : IsValue(b[x])
    BY <1>1, FS_Subset
<1>3. IsOrdering(kept, before)
    <2>1. kept \subseteq Nat
        BY <1>1
    <2>2. \A x, y \in kept : <<x, y>> \in before <=> x < y
        OBVIOUS
    <2> HIDE DEF before, kept
    <2> QED BY <2>1, <2>2 DEF IsOrdering
<1>4. c = NonEmptyBundles(b)
    BY DEF NonEmptyBundles
<1>5. /\ IsBundles(c)
      /\ \A i \in DOMAIN c : order[i] \in kept /\ c[i] = b[order[i]]
      /\ \A k : BundlesTotal(c, k) = Total(b, kept, k)
    <2> HIDE DEF before, kept
    <2> QED BY <1>2, <1>3, ReorderedBundles
<1>6. ASSUME NEW k \in Token PROVE Total(b, D, k) = Total(b, kept, k)
    <2>1. \A x \in D \ kept : Quantity(b[x], k) = 0
        BY DEF IsEmptyBundle, Quantity
    <2> HIDE DEF kept, D
    <2> QED BY <1>1, <1>2, <2>1, TotalWithout
<1>7. \A i \in DOMAIN c : \E j \in D : c[i] = b[j]
    <2> HIDE DEF c, order, kept
    <2> QED BY <1>2, <1>5
<1>8. \A k \in Token : BundlesTotal(c, k) = BundlesTotal(b, k)
    <2> HIDE DEF c
    <2> QED BY <1>5, <1>6 DEF BundlesTotal
<1> QED BY <1>4, <1>5, <1>7, <1>8

-----------------------------------------------------------------------------
(* The bundles of the outputs *)

\* The excess that is divided is a natural.
ExcessIsNat(x, S, f) ==
    \A k \in OutputAssets(x) \cup {Coin} : Excess(x, S, f, k) \in Nat

\* What is requested, paid and selected are numbers, the excess a difference.
LEMMA QuantitiesOfCall ==
    ASSUME NEW x \in Instance, NEW S \in SUBSET Utxo, NEW f \in Nat, NEW k
    PROVE  /\ Requested(x, k) \in Nat
           /\ ToPay(x, f, k) \in Nat /\ ToPay(x, f, k) >= Requested(x, k)
           /\ Selected(x, S, k) \in Nat
           /\ Excess(x, S, f, k) = Selected(x, S, k) - ToPay(x, f, k)
<1>1. IsFiniteSet(S) /\ (\A u \in S : IsValue(x.utxo[u])) /\ x.input \in Nat /\ x.deposit \in Nat
    BY ArgumentsAreTyped, FS_Subset
<1>2. Requested(x, k) \in Nat
    BY OutputsAreTyped, TotalIsNat DEF Requested
<1>3. Total(x.utxo, S, k) \in Nat
    BY <1>1, TotalIsNat
<1> QED BY <1>1, <1>2, <1>3 DEF ToPay, Selected, Excess

\* Integer division rounds down.
LEMMA QuotientBounds ==
    ASSUME NEW a \in Nat, NEW d \in Nat, d # 0
    PROVE  a \div d \in Nat /\ d * (a \div d) <= a
OBVIOUS

\* The shares of a token are naturals and do not exceed what is divided.
LEMMA SharesAreBounded ==
    ASSUME NEW x \in Instance, NEW S \in SUBSET Utxo, NEW f \in Nat, NEW k,
           Excess(x, S, f, k) \in Nat
    PROVE  /\ \A i \in DOMAIN x.outputs : Share(x, S, f, i, k) \in Nat
           /\ Lost(x, S, f, k) \in Nat
<1> DEFINE D == DOMAIN x.outputs
           E == Excess(x, S, f, k)
           d == IF k = Coin THEN ToPay(x, f, k) ELSE Selected(x, S, k)
           q == [i \in D |-> Quantity(x.outputs[i], k)]
           share == [i \in D |-> Share(x, S, f, i, k)]
           Req == Requested(x, k)
<1>1. /\ E \in Nat /\ d \in Nat /\ Req \in Nat /\ Req <= d
    BY QuantitiesOfCall
<1>2. IsFiniteSet(D) /\ \A i \in D : q[i] \in Nat
    BY OutputsAreTyped, QuantityIsNat
<1>3. Req = SumFunctionOnSet(q, D)
    BY DEF Requested, Total
<1>4. \A i \in D : share[i] = IF d = 0 THEN 0 ELSE (E * q[i]) \div d
    BY DEF Share
<1>5. Lost(x, S, f, k) = E - SumFunctionOnSet(share, D)
    BY DEF Lost
<1>6. \A i \in D : share[i] = Share(x, S, f, i, k)
    OBVIOUS
<1> HIDE DEF E, d, q, share, D, Req
<1>7. CASE d = 0
    <2>1. \A i \in D : share[i] = 0
        BY <1>4, <1>7
    <2>2. SumFunctionOnSet(share, D) = 0
        BY <1>2, <2>1, SumZero
    <2> QED BY <1>1, <1>5, <1>6, <2>1, <2>2 DEF D
<1>8. CASE d # 0
    <2> DEFINE times == [i \in D |-> E * q[i]]
               back == [i \in D |-> d * share[i]]
    <2>1. ASSUME NEW i \in D
          PROVE  share[i] \in Nat /\ times[i] \in Nat /\ back[i] \in Nat /\ back[i] <= times[i]
        <3>1. PICK a \in Nat : a = E * q[i]
            BY <1>1, <1>2
        <3>2. share[i] = a \div d
            BY <1>4, <1>8, <3>1
        <3>3. share[i] \in Nat /\ d * share[i] <= a
            BY <1>1, <1>8, <3>2, QuotientBounds
        <3>4. d * share[i] \in Nat
            BY <1>1, <3>3
        <3> QED BY <3>1, <3>3, <3>4
    <2>2. (\A i \in D : times[i] = E * q[i]) /\ \A i \in D : back[i] = d * share[i]
        OBVIOUS
    <2> HIDE DEF times, back
    <2>3. PICK T \in Nat : T = SumFunctionOnSet(share, D)
        BY <1>2, <2>1, SumNat
    <2>4. SumFunctionOnSet(times, D) = E * Req
        <3>1. \A i \in D : q[i] \in Int /\ times[i] = E * q[i]
            BY <1>2, <2>2
        <3>2. E \in Int
            BY <1>1
        <3> QED BY <1>2, <1>3, <3>1, <3>2, SumScaled
    <2>5. SumFunctionOnSet(back, D) = d * T
        <3>1. \A i \in D : share[i] \in Int /\ back[i] = d * share[i]
            BY <2>1, <2>2
        <3>2. d \in Int
            BY <1>1
        <3> QED BY <1>2, <2>3, <3>1, <3>2, SumScaled
    <2>6. SumFunctionOnSet(back, D) <= SumFunctionOnSet(times, D)
        <3>1. \A i \in D : back[i] \in Int /\ times[i] \in Int /\ back[i] <= times[i]
            BY <2>1
        <3> QED BY <1>2, <3>1, SumAtMost
    <2>7. T <= E
        <3>1. d * T <= E * Req
            BY <2>4, <2>5, <2>6
        <3>2. \A e, r, c, t \in Nat : c # 0 /\ r <= c /\ c * t <= e * r => t <= e
            <4>1. SUFFICES ASSUME NEW e \in Nat, NEW r \in Nat, NEW c \in Nat, NEW t \in Nat,
                                  c # 0, r <= c, c * t <= e * r, t > e
                           PROVE  FALSE
                OBVIOUS
            <4>2. e * r <= e * c
                BY <4>1
            <4>3. c * e < c * t
                BY <4>1
            <4>4. c * e = e * c /\ c * t \in Nat /\ e * r \in Nat /\ e * c \in Nat
                OBVIOUS
            <4> QED BY <4>1, <4>2, <4>3, <4>4
        <3> QED BY <1>1, <1>8, <2>3, <3>1, <3>2
    <2> QED BY <1>1, <1>5, <1>6, <2>1, <2>3, <2>7 DEF D
<1> QED BY <1>7, <1>8

\* A token none of the bundles holds.
LEMMA NotHeld ==
    ASSUME NEW b, IsBundles(b), NEW A, HoldOnly(b, A), NEW k, k # Coin, k \notin A
    PROVE  BundlesTotal(b, k) = 0 /\ \A i \in DOMAIN b : Quantity(b[i], k) = 0
<1> DEFINE f == [i \in DOMAIN b |-> Quantity(b[i], k)]
<1>1. \A i \in DOMAIN b : Quantity(b[i], k) = 0
    BY DEF HoldOnly, Quantity
<1>2. \A i \in DOMAIN b : f[i] = 0
    BY <1>1
<1>3. BundlesTotal(b, k) = SumFunctionOnSet(f, DOMAIN b)
    BY DEF BundlesTotal, Total
<1>4. IsFiniteSet(DOMAIN b)
    BY BundlesAreListed
<1> HIDE DEF f
<1> QED BY <1>1, <1>2, <1>3, <1>4, SumZero

\* The bundle that gets the remainder holds the token.
LEMMA FirstHolds ==
    ASSUME NEW x \in Instance, x.outputs # <<>>, NEW k \in OutputAssets(x) \cup {Coin}
    PROVE  LET j == FirstWith(x, k)
           IN  j \in DOMAIN x.outputs /\ (k = Coin \/ k \in DOMAIN x.outputs[j].assets)
<1> DEFINE D == DOMAIN x.outputs
           W == {i \in D : k = Coin \/ k \in DOMAIN x.outputs[i].assets}
<1>1. D = 1..Len(x.outputs) /\ Len(x.outputs) \in Nat \ {0}
    BY InstanceAssumption, EmptySeq, LenProperties DEF InstanceAssumption
<1>2. PICK n \in W : n \in Nat
    <2>1. W # {}
        <3>1. CASE k = Coin
            <4>1. 1 \in W
                BY <1>1, <3>1
            <4> QED BY <4>1
        <3>2. CASE k \in OutputAssets(x)
            BY <3>2 DEF OutputAssets
        <3> QED BY <3>1, <3>2
    <2> QED BY <1>1, <2>1
<1>3. PICK j \in W : j \in 0..n /\ \A i \in 0..(j - 1) : i \notin W
    <2> HIDE DEF W
    <2> QED BY <1>2, LeastUpTo
<1>4. \A i \in W : j <= i
    <2>1. W \subseteq Nat
        BY <1>1
    <2> HIDE DEF W
    <2> QED BY <1>3, <2>1
<1>5. Min(W) \in W
    <2> HIDE DEF W
    <2> QED BY <1>4 DEF Min
<1> QED BY <1>5 DEF FirstWith

\* Each bundle has the quantities that the division gives it.
LEMMA BundleQuantities ==
    ASSUME NEW x \in Instance, x.outputs # <<>>, NEW S \in SUBSET Utxo, NEW f \in Nat,
           ExcessIsNat(x, S, f)
    PROVE  LET b == RequestedBundles(x, S, f)
           IN  /\ IsBundles(b) /\ Len(b) = Len(x.outputs) /\ DOMAIN b = DOMAIN x.outputs
               /\ HoldOnly(b, OutputAssets(x))
               /\ \A i \in DOMAIN b : \A k \in OutputAssets(x) \cup {Coin} :
                     Quantity(b[i], k) = BundleQuantity(x, S, f, i, k)
<1> DEFINE D == DOMAIN x.outputs
           held(i) == [a \in DOMAIN x.outputs[i].assets |-> BundleQuantity(x, S, f, i, a)]
           bundle(i) == [coins |-> BundleQuantity(x, S, f, i, Coin), assets |-> held(i)]
           b == [i \in D |-> bundle(i)]
<1>1. D = 1..Len(x.outputs) /\ Len(x.outputs) \in Nat
    BY InstanceAssumption, LenProperties DEF InstanceAssumption
<1>2. b = RequestedBundles(x, S, f)
    BY DEF RequestedBundles
<1>3. ASSUME NEW i \in D, NEW k \in OutputAssets(x) \cup {Coin}
      PROVE  BundleQuantity(x, S, f, i, k) \in Nat
    <2>1. Share(x, S, f, i, k) \in Nat /\ Lost(x, S, f, k) \in Nat
        BY SharesAreBounded DEF ExcessIsNat
    <2> QED BY <2>1 DEF BundleQuantity
<1>4. \A i \in D : DOMAIN x.outputs[i].assets \subseteq OutputAssets(x)
    BY DEF OutputAssets
<1>5. ASSUME NEW i \in D
      PROVE  /\ b[i].coins = BundleQuantity(x, S, f, i, Coin)
             /\ DOMAIN b[i].assets = DOMAIN x.outputs[i].assets
             /\ \A a \in DOMAIN x.outputs[i].assets : b[i].assets[a] = BundleQuantity(x, S, f, i, a)
    OBVIOUS
<1> HIDE DEF D, b, bundle, held
<1>6. ASSUME NEW i \in D PROVE IsValue(b[i])
    <2>1. DOMAIN b[i].assets \subseteq Asset
        BY <1>5, OutputsAreTyped DEF IsValue, D
    <2>2. \A a \in DOMAIN b[i].assets : b[i].assets[a] \in Nat
        <3>1. ASSUME NEW a \in DOMAIN x.outputs[i].assets
              PROVE  b[i].assets[a] \in Nat
            <4>1. a \in OutputAssets(x) \cup {Coin}
                BY <1>4
            <4>2. BundleQuantity(x, S, f, i, a) \in Nat
                BY <1>3, <4>1
            <4> QED BY <1>5, <4>2
        <3> QED BY <1>5, <3>1
    <2>3. b[i].coins \in Nat
        <3>1. BundleQuantity(x, S, f, i, Coin) \in Nat
            BY <1>3
        <3> QED BY <1>5, <3>1
    <2> QED BY <2>1, <2>2, <2>3 DEF IsValue
<1>7. IsBundles(b) /\ Len(b) = Len(x.outputs) /\ DOMAIN b = D
    <2>1. b = [i \in 1..Len(x.outputs) |-> b[i]]
        BY <1>1 DEF b, bundle, held
    <2>2. IsBundles(b) /\ Len(b) = Len(x.outputs)
        BY <1>1, <1>6, <2>1, BundlesFromValues
    <2> QED BY <1>1, <2>2, BundlesAreListed
<1>8. ASSUME NEW i \in D, NEW k \in OutputAssets(x) \cup {Coin}
      PROVE  Quantity(b[i], k) = BundleQuantity(x, S, f, i, k)
    <2>1. CASE k = Coin
        BY <1>5, <2>1 DEF Quantity
    <2>2. CASE k # Coin /\ k \in DOMAIN x.outputs[i].assets
        BY <1>5, <2>2 DEF Quantity
    <2>3. CASE k # Coin /\ k \notin DOMAIN x.outputs[i].assets
        <3>1. Quantity(b[i], k) = 0
            BY <1>5, <2>3 DEF Quantity
        <3>2. FirstWith(x, k) # i
            BY <2>3, FirstHolds
        <3>3. Share(x, S, f, i, k) = 0
            <4>1. Quantity(x.outputs[i], k) = 0
                BY <2>3 DEF Quantity
            <4>2. Excess(x, S, f, k) \in Nat /\ Selected(x, S, k) \in Nat
                BY QuantitiesOfCall DEF ExcessIsNat
            <4>3. Excess(x, S, f, k) * 0 = 0 /\ \A d \in Nat \ {0} : 0 \div d = 0
                BY <4>2
            <4>4. Share(x, S, f, i, k)
                    = IF Selected(x, S, k) = 0 THEN 0
                      ELSE (Excess(x, S, f, k) * Quantity(x.outputs[i], k)) \div Selected(x, S, k)
                BY <2>3 DEF Share
            <4> QED BY <4>1, <4>2, <4>3, <4>4
        <3> QED BY <3>1, <3>2, <3>3 DEF BundleQuantity
    <2> QED BY <2>1, <2>2, <2>3
<1>9. HoldOnly(b, OutputAssets(x))
    BY <1>4, <1>5, <1>7 DEF HoldOnly
<1> QED BY <1>2, <1>7, <1>8, <1>9 DEF D

\* The bundles made for the outputs add up to the excess of every token the
\* outputs ask for, what the divisions lose included.
LEMMA RequestedBundlesAdd ==
    ASSUME NEW x \in Instance, NEW S \in SUBSET Utxo, NEW f \in Nat, ExcessIsNat(x, S, f)
    PROVE  LET b == RequestedBundles(x, S, f)
           IN  /\ IsBundles(b) /\ (Len(b) <= 1 \/ Len(b) = Len(x.outputs))
               /\ HoldOnly(b, OutputAssets(x))
               /\ \A k \in OutputAssets(x) \cup {Coin} : BundlesTotal(b, k) = Excess(x, S, f, k)
<1> DEFINE b == RequestedBundles(x, S, f)
<1>1. CASE x.outputs # <<>>
    <2>1. /\ IsBundles(b) /\ Len(b) = Len(x.outputs) /\ DOMAIN b = DOMAIN x.outputs
          /\ HoldOnly(b, OutputAssets(x))
          /\ \A i \in DOMAIN b : \A k \in OutputAssets(x) \cup {Coin} :
                Quantity(b[i], k) = BundleQuantity(x, S, f, i, k)
        BY <1>1, BundleQuantities
    <2>2. ASSUME NEW k \in OutputAssets(x) \cup {Coin}
          PROVE  BundlesTotal(b, k) = Excess(x, S, f, k)
        <3> DEFINE D == DOMAIN b
                   j == FirstWith(x, k)
                   lost == Lost(x, S, f, k)
                   q == [i \in D |-> Quantity(b[i], k)]
                   share == [i \in D |-> Share(x, S, f, i, k)]
        <3>1. IsFiniteSet(D) /\ j \in D
            BY <1>1, <2>1, BundlesAreListed, FirstHolds
        <3>2. lost \in Nat /\ \A i \in D : share[i] \in Nat
            BY <2>1, SharesAreBounded DEF ExcessIsNat
        <3>3. \A i \in D : q[i] = share[i] + IF i = j THEN lost ELSE 0
            BY <2>1 DEF BundleQuantity
        <3>4. BundlesTotal(b, k) = SumFunctionOnSet(q, D)
            BY DEF BundlesTotal, Total
        <3>5. lost = Excess(x, S, f, k) - SumFunctionOnSet(share, D) /\ Excess(x, S, f, k) \in Nat
            BY <2>1 DEF Lost, ExcessIsNat
        <3> HIDE DEF D, j, lost, q, share
        <3>6. /\ IsFiniteSet(D \ {j}) /\ \A i \in D : q[i] \in Int /\ share[i] \in Int
              /\ \A i \in D \ {j} : share[i] \in Int /\ share[i] = q[i]
            BY <3>1, <3>2, <3>3, FS_Subset
        <3>7. SumFunctionOnSet(q, D) = q[j] + SumFunctionOnSet(q, D \ {j})
            BY <3>1, <3>6, SumRemove
        <3>8. SumFunctionOnSet(share, D) = share[j] + SumFunctionOnSet(share, D \ {j})
            BY <3>1, <3>6, SumRemove
        <3>9. SumFunctionOnSet(share, D \ {j}) = SumFunctionOnSet(q, D \ {j})
            BY <3>6, SumSame
        <3>10. SumFunctionOnSet(share, D \ {j}) \in Int
            BY <3>6, SumType
        <3>11. q[j] = share[j] + lost /\ share[j] \in Int
            BY <3>1, <3>3, <3>6
        <3> QED BY <3>2, <3>4, <3>5, <3>7, <3>8, <3>9, <3>10, <3>11
    <2> QED BY <2>1, <2>2
<1>2. CASE x.outputs = <<>>
    <2>1. DOMAIN x.outputs = {} /\ OutputAssets(x) = {}
        BY <1>2 DEF OutputAssets
    <2>2. Lost(x, S, f, Coin) = Excess(x, S, f, Coin) /\ Excess(x, S, f, Coin) \in Nat
        <3>1. SumFunctionOnSet([i \in DOMAIN x.outputs |-> Share(x, S, f, i, Coin)], {}) = 0
            BY SumEmpty
        <3>2. Lost(x, S, f, Coin) = Excess(x, S, f, Coin) - 0
            BY <2>1, <3>1 DEF Lost
        <3> QED BY <3>2 DEF ExcessIsNat
    <2>3. CASE Lost(x, S, f, Coin) > 0
        <3> DEFINE v == [coins |-> Lost(x, S, f, Coin), assets |-> NoAssets]
        <3>1. b = <<v>>
            BY <1>2, <2>3 DEF RequestedBundles
        <3>2. DOMAIN v.assets = {} /\ v.coins = Lost(x, S, f, Coin) /\ IsValue(v)
            BY <2>2 DEF NoAssets, IsValue
        <3> HIDE DEF v, b
        <3>3. b = [i \in 1..1 |-> b[i]] /\ b[1] = v /\ \A i \in 1..1 : b[i] = v
            BY <3>1
        <3>4. IsBundles(b) /\ Len(b) = 1 /\ DOMAIN b = 1..1
            <4>1. IsBundles(b) /\ Len(b) = 1
                BY <3>2, <3>3, BundlesFromValues
            <4> QED BY <4>1, BundlesAreListed
        <3>5. Total(b, {} \cup {1}, Coin) = Quantity(b[1], Coin) + Total(b, {}, Coin)
            <4>1. \A i \in {} \cup {1} : IsValue(b[i])
                BY <3>2, <3>3
            <4> QED BY <4>1, TotalAdd, FS_EmptySet
        <3>6. Total(b, {}, Coin) = 0 /\ {} \cup {1} = 1..1
            BY SumEmpty DEF Total
        <3>7. BundlesTotal(b, Coin) = Excess(x, S, f, Coin)
            BY <2>2, <3>2, <3>3, <3>4, <3>5, <3>6 DEF BundlesTotal, Quantity
        <3> QED BY <2>1, <3>2, <3>3, <3>4, <3>7 DEF HoldOnly, b
    <2>4. CASE ~ (Lost(x, S, f, Coin) > 0)
        <3>1. b = <<>>
            BY <1>2, <2>4 DEF RequestedBundles
        <3>2. IsBundles(b) /\ Len(b) = 0 /\ DOMAIN b = {}
            BY <3>1 DEF IsBundles, Range
        <3>3. BundlesTotal(b, Coin) = 0
            BY <3>2, SumEmpty DEF BundlesTotal, Total
        <3>4. Excess(x, S, f, Coin) = 0
            BY <2>2, <2>4
        <3> QED BY <2>1, <3>2, <3>3, <3>4 DEF HoldOnly
    <2> QED BY <2>3, <2>4
<1> QED BY <1>1, <1>2

-----------------------------------------------------------------------------
(* The tokens no output asks for *)

\* Values none of which holds the token.
LEMMA TotalOfNone ==
    ASSUME NEW v, NEW S, IsFiniteSet(S), NEW k, \A x \in S : Quantity(v[x], k) = 0
    PROVE  Total(v, S, k) = 0
<1> DEFINE f == [x \in S |-> Quantity(v[x], k)]
<1>1. \A x \in S : f[x] = 0
    OBVIOUS
<1>2. Total(v, S, k) = SumFunctionOnSet(f, S)
    BY DEF Total
<1> HIDE DEF f
<1> QED BY <1>1, <1>2, SumZero

\* The quantities of a leftover asset, as they are listed.
LEMMA LeftoversAreListed ==
    ASSUME NEW x \in Instance, NEW S \in SUBSET Utxo, NEW a \in LeftoverAssets(x, S)
    PROVE  LET q == LeftoverQuantities(x, S, a)
           IN  /\ a \in Asset /\ a # Coin
               /\ Len(q) \in Nat \ {0} /\ \A i \in 1..Len(q) : q[i] \in Nat
               /\ SumFunctionOnSet(q, 1..Len(q)) = Selected(x, S, a)
<1> DEFINE holders == {u \in S : a \in DOMAIN x.utxo[u].assets}
           qty(u) == Quantity(x.utxo[u], a)
           before == {e \in holders \X holders : qty(e[1]) >= qty(e[2])}
           order == InOrder(holders, before)
           m == Cardinality(holders)
           q == LeftoverQuantities(x, S, a)
<1>1. IsFiniteSet(S) /\ \A u \in S : IsValue(x.utxo[u]) /\ qty(u) \in Nat
    BY ArgumentsAreTyped, FS_Subset, QuantityIsNat
<1>2. a \in Asset /\ a # Coin /\ holders # {}
    BY <1>1, ValueAssumption DEF LeftoverAssets, ValueAssumption, IsValue
<1>3. IsFiniteSet(holders) /\ \A u \in holders : qty(u) \in Nat
    BY <1>1, FS_Subset
<1>4. IsOrdering(holders, before)
    <2>1. \A u, v \in holders : <<u, v>> \in before <=> qty(u) >= qty(v)
        OBVIOUS
    <2> HIDE DEF before, holders, qty
    <2> QED BY <1>3, <2>1 DEF IsOrdering
<1>5. q = [n \in DOMAIN order |-> qty(order[n])]
    BY DEF LeftoverQuantities
<1>6. /\ m \in Nat /\ DOMAIN order = 1..m
      /\ Renames(order, 1..m, holders)
    <2>1. /\ m \in Nat /\ order \in [1..m -> holders] /\ IsInjective(order)
          /\ holders = {order[i] : i \in 1..m}
        <3> HIDE DEF before, holders
        <3> QED BY <1>3, <1>4, InOrderEnumerates
    <2>2. DOMAIN order = 1..m
        BY <2>1
    <2> HIDE DEF order, holders, m
    <2> QED BY <2>1, <2>2 DEF Renames, IsInjective
<1>7. m # 0
    <2> HIDE DEF holders
    <2> QED BY <1>2, <1>3, FS_EmptySet
<1> HIDE DEF order, m, q, before
<1>8. \A i \in 1..m : order[i] \in holders /\ q[i] = qty(order[i]) /\ q[i] \in Nat
    <2>1. \A i \in 1..m : order[i] \in holders
        BY <1>6 DEF Renames
    <2> QED BY <1>3, <1>5, <1>6, <2>1
<1>9. Len(q) = m
    <2>1. q \in [1..m -> Nat]
        BY <1>5, <1>6, <1>8
    <2>2. q \in Seq(Nat)
        BY <1>6, <2>1
    <2>3. DOMAIN q = 1..m /\ Len(q) \in Nat /\ DOMAIN q = 1..Len(q)
        BY <2>1, <2>2, LenProperties
    <2> QED BY <1>6, <2>3
<1>10. SumFunctionOnSet(q, 1..m) = Total(x.utxo, holders, a)
    <2> DEFINE g == [u \in holders |-> qty(u)]
    <2>1. PICK D, R, r, F, G : D = 1..m /\ R = holders /\ r = order /\ F = q /\ G = g
        OBVIOUS
    <2>2. Renames(r, D, R)
        BY <1>6, <2>1
    <2>3. IsFiniteSet(D)
        BY <1>6, <2>1, FS_Interval
    <2>4. \A i \in D : F[i] \in Int /\ G[r[i]] = F[i]
        BY <1>8, <2>1
    <2>5. SumFunctionOnSet(G, R) = SumFunctionOnSet(F, D)
        BY <2>2, <2>3, <2>4, SumRenamed
    <2>6. Total(x.utxo, holders, a) = SumFunctionOnSet(G, R)
        BY <2>1 DEF Total
    <2> QED BY <2>1, <2>5, <2>6
<1>11. Total(x.utxo, S, a) = Total(x.utxo, holders, a)
    <2>1. \A u \in S \ holders : Quantity(x.utxo[u], a) = 0
        BY <1>2 DEF Quantity
    <2>2. holders \in SUBSET S
        OBVIOUS
    <2> HIDE DEF holders
    <2> QED BY <1>1, <2>1, <2>2, TotalWithout
<1>12. Selected(x, S, a) = Total(x.utxo, S, a)
    <2>1. Total(x.utxo, S, a) \in Nat
        BY <1>1, TotalIsNat
    <2> QED BY <1>2, <2>1 DEF Selected
<1> QED BY <1>2, <1>6, <1>7, <1>8, <1>9, <1>10, <1>11, <1>12 DEF q

\* However the quantities are dealt out to the bundles, nothing is lost: the
\* last bundle gets all that are left.
LEMMA LeftoverSharesAdd ==
    ASSUME NEW q, NEW m \in Nat \ {0}, Len(q) = m, \A i \in 1..m : q[i] \in Nat,
           NEW n \in Nat \ {0},
           NEW share, \A i \in 1..n : share[i] = IF i <= m THEN LeftoverShare(q, i, n) ELSE 0
    PROVE  /\ \A i \in 1..n : share[i] \in Nat
           /\ SumFunctionOnSet(share, 1..n) = SumFunctionOnSet(q, 1..m)
<1>1. /\ IsFiniteSet(1..n) /\ IsFiniteSet(1..m) /\ IsFiniteSet(1..(n - 1)) /\ IsFiniteSet(n..m)
    BY FS_Interval
<1>2. \A i \in 1..n : i < n /\ i <= m => share[i] = q[i] /\ q[i] \in Nat
    BY DEF LeftoverShare
<1>3. \A i \in 1..n : i > m => share[i] = 0
    OBVIOUS
<1>4. n <= m => share[n] = SumFunctionOnSet(q, n..m)
    BY DEF LeftoverShare
<1>5. SumFunctionOnSet(q, n..m) \in Nat
    <2>1. \A i \in n..m : q[i] \in Nat
        OBVIOUS
    <2> QED BY <1>1, <2>1, SumNat
<1>6. \A i \in 1..n : share[i] \in Nat
    <2>1. ASSUME NEW i \in 1..n PROVE share[i] \in Nat
        <3>1. CASE i > m
            BY <1>3, <3>1
        <3>2. CASE i <= m /\ i < n
            BY <1>2, <3>2
        <3>3. CASE i <= m /\ i = n
            BY <1>4, <1>5, <3>3
        <3> QED BY <3>1, <3>2, <3>3
    <2> QED BY <2>1
<1>7. CASE m < n
    <2>1. 1..m \in SUBSET (1..n) /\ \A i \in (1..n) \ (1..m) : share[i] = 0
        BY <1>3, <1>7
    <2>2. \A i \in 1..m : share[i] \in Int /\ share[i] = q[i]
        BY <1>2, <1>7
    <2>3. SumFunctionOnSet(share, 1..n) = SumFunctionOnSet(share, 1..m)
        <3>1. PICK N, M : N = 1..n /\ M = 1..m
            OBVIOUS
        <3>2. IsFiniteSet(N) /\ M \in SUBSET N
            BY <1>1, <2>1, <3>1
        <3>3. (\A i \in N : share[i] \in Int) /\ \A i \in N \ M : share[i] = 0
            BY <1>6, <2>1, <3>1
        <3>4. SumFunctionOnSet(share, N) = SumFunctionOnSet(share, M)
            BY <3>2, <3>3, SumWithoutZeros
        <3> QED BY <3>1, <3>4
    <2>4. SumFunctionOnSet(share, 1..m) = SumFunctionOnSet(q, 1..m)
        BY <1>1, <2>2, SumSame
    <2> QED BY <1>6, <2>3, <2>4
<1>8. CASE n <= m
    <2>1. /\ 1..n = (1..(n - 1)) \cup {n} /\ n \notin 1..(n - 1)
          /\ 1..m = (1..(n - 1)) \cup (n..m) /\ (1..(n - 1)) \cap (n..m) = {}
        BY <1>8
    <2>2. \A i \in 1..(n - 1) : share[i] \in Int /\ share[i] = q[i]
        BY <1>2, <1>8
    <2>3. PICK T, R : T = 1..(n - 1) /\ R = n..m
        OBVIOUS
    <2>4. SumFunctionOnSet(share, T \cup {n}) = share[n] + SumFunctionOnSet(share, T)
        <3>1. IsFiniteSet(T) /\ n \notin T /\ \A i \in T \cup {n} : share[i] \in Int
            BY <1>1, <1>6, <2>1, <2>3
        <3> QED BY <3>1, SumAdd
    <2>5. SumFunctionOnSet(share, T) = SumFunctionOnSet(q, T)
        BY <1>1, <2>2, <2>3, SumSame
    <2>6. SumFunctionOnSet(q, T \cup R) = SumFunctionOnSet(q, T) + SumFunctionOnSet(q, R)
        <3>1. IsFiniteSet(T) /\ IsFiniteSet(R) /\ T \cap R = {} /\ \A i \in T \cup R : q[i] \in Int
            BY SMTT(30), <1>1, <2>1, <2>3
        <3> QED BY <3>1, SumUnion
    <2>7. SumFunctionOnSet(q, T) \in Int /\ SumFunctionOnSet(q, R) \in Int
        <3>1. \A i \in T : q[i] \in Int
            BY SMTT(30), <2>1, <2>3
        <3> QED BY <1>1, <1>5, <2>3, <3>1, SumType
    <2>8. /\ SumFunctionOnSet(share, 1..n) = SumFunctionOnSet(share, T \cup {n})
          /\ SumFunctionOnSet(q, 1..m) = SumFunctionOnSet(q, T \cup R)
          /\ share[n] = SumFunctionOnSet(q, R)
        BY <1>4, <1>8, <2>1, <2>3
    <2>9. SumFunctionOnSet(share, 1..n) = SumFunctionOnSet(q, 1..m)
        BY ONLY <2>4, <2>5, <2>6, <2>7, <2>8
    <2> QED BY <1>6, <2>9
<1> QED BY <1>7, <1>8

\* The bundles the leftover assets are added to.
LEMMA StartBundles ==
    ASSUME NEW bundles, IsBundles(bundles), NEW leftovers
    PROVE  LET start == IF bundles = <<>> /\ leftovers # {}
                        THEN <<[coins |-> 0, assets |-> NoAssets]>> ELSE bundles
           IN  /\ IsBundles(start) /\ (Len(start) <= 1 \/ Len(start) = Len(bundles))
               /\ leftovers # {} => Len(start) # 0
               /\ \A A : HoldOnly(bundles, A) => HoldOnly(start, A)
               /\ \A k : BundlesTotal(start, k) = BundlesTotal(bundles, k)
<1> DEFINE v == [coins |-> 0, assets |-> NoAssets]
<1>1. CASE bundles = <<>> /\ leftovers # {}
    <2>1. PICK b : b = <<v>>
        OBVIOUS
    <2>2. DOMAIN v.assets = {} /\ v.coins = 0
        BY DEF NoAssets
    <2> HIDE DEF v
    <2>3. IsValue(v) /\ \A k : Quantity(v, k) = 0
        BY <2>2 DEF IsValue, Quantity
    <2>4. b = [i \in 1..1 |-> b[i]] /\ \A i \in 1..1 : b[i] = v
        BY <2>1
    <2>5. IsBundles(b) /\ Len(b) = 1 /\ DOMAIN b = 1..1 /\ IsFiniteSet(DOMAIN b)
        <3>1. IsBundles(b) /\ Len(b) = 1
            BY <2>3, <2>4, BundlesFromValues
        <3> QED BY <3>1, BundlesAreListed
    <2>6. \A k : BundlesTotal(b, k) = 0
        BY <2>3, <2>4, <2>5, TotalOfNone DEF BundlesTotal
    <2>7. \A k : BundlesTotal(bundles, k) = 0
        <3>1. DOMAIN bundles = {}
            BY <1>1
        <3> QED BY <3>1, SumEmpty DEF BundlesTotal, Total
    <2>8. \A A : HoldOnly(b, A)
        BY <2>2, <2>4, <2>5 DEF HoldOnly
    <2> QED BY <1>1, <2>1, <2>5, <2>6, <2>7, <2>8 DEF v
<1>2. CASE ~ (bundles = <<>> /\ leftovers # {})
    <2>1. leftovers # {} => Len(bundles) # 0
        BY <1>2, BundlesAreListed
    <2> QED BY <1>2, <2>1
<1> QED BY <1>1, <1>2

\* redistributeLeftoverAssets adds what is selected of every leftover asset and
\* leaves the other tokens alone.
LEMMA WithLeftoversAdd ==
    ASSUME NEW x \in Instance, NEW S \in SUBSET Utxo,
           NEW bundles, IsBundles(bundles), HoldOnly(bundles, OutputAssets(x))
    PROVE  LET c == WithLeftovers(x, S, bundles)
           IN  /\ IsBundles(c) /\ (Len(c) <= 1 \/ Len(c) = Len(bundles))
               /\ HoldOnly(c, OutputAssets(x) \cup LeftoverAssets(x, S))
               /\ \A k \in OutputAssets(x) \cup {Coin} : BundlesTotal(c, k) = BundlesTotal(bundles, k)
               /\ \A k \in LeftoverAssets(x, S) : BundlesTotal(c, k) = Selected(x, S, k)
<1> DEFINE L == LeftoverAssets(x, S)
           start == IF bundles = <<>> /\ L # {}
                    THEN <<[coins |-> 0, assets |-> NoAssets]>> ELSE bundles
           Q(a) == LeftoverQuantities(x, S, a)
           Gets(i) == {a \in L : i <= Len(Q(a))}
           held(i) == [a \in Gets(i) \cup DOMAIN start[i].assets |->
                          IF a \in Gets(i) THEN LeftoverShare(Q(a), i, Len(start))
                                           ELSE start[i].assets[a]]
           c == [i \in DOMAIN start |-> [coins |-> start[i].coins, assets |-> held(i)]]
<1>1. c = WithLeftovers(x, S, bundles)
    BY DEF WithLeftovers
<1>2. /\ IsBundles(start) /\ (Len(start) <= 1 \/ Len(start) = Len(bundles))
      /\ L # {} => Len(start) # 0
      /\ HoldOnly(start, OutputAssets(x))
      /\ \A k : BundlesTotal(start, k) = BundlesTotal(bundles, k)
    <2> HIDE DEF L
    <2> QED BY StartBundles
<1>3. \A a \in L : a \notin OutputAssets(x)
    BY DEF LeftoverAssets
<1> HIDE DEF start, L
<1>4. PICK n \in Nat : n = Len(start) /\ DOMAIN start = 1..n
    BY <1>2, BundlesAreListed
<1>5. \A i \in 1..n : IsValue(start[i]) /\ DOMAIN start[i].assets \subseteq OutputAssets(x)
    BY <1>2, <1>4 DEF IsBundles, HoldOnly
<1>6. c = [i \in 1..n |-> c[i]]
    BY <1>4
<1>7. ASSUME NEW i \in 1..n
      PROVE  /\ \A k : k = Coin => Quantity(c[i], k) = Quantity(start[i], k)
             /\ c[i].coins = start[i].coins
             /\ DOMAIN c[i].assets = Gets(i) \cup DOMAIN start[i].assets
             /\ \A a \in Gets(i) : c[i].assets[a] = LeftoverShare(Q(a), i, n)
             /\ \A a \in DOMAIN start[i].assets \ Gets(i) : c[i].assets[a] = start[i].assets[a]
    <2>1. c[i] = [coins |-> start[i].coins, assets |-> held(i)]
        BY <1>4
    <2>2. c[i].coins = start[i].coins /\ c[i].assets = held(i)
        <3> HIDE DEF c, held
        <3> QED BY <2>1
    <2> QED BY <1>4, <2>2 DEF Quantity
<1> HIDE DEF c, Gets, held
<1>8. ASSUME NEW a \in L
      PROVE  /\ a \in Asset /\ a # Coin
             /\ \A i \in 1..n : Quantity(c[i], a) \in Nat
             /\ Total(c, 1..n, a) = Selected(x, S, a)
    <2>1. /\ a \in Asset /\ a # Coin
          /\ Len(Q(a)) \in Nat \ {0} /\ \A i \in 1..Len(Q(a)) : Q(a)[i] \in Nat
          /\ SumFunctionOnSet(Q(a), 1..Len(Q(a))) = Selected(x, S, a)
        BY LeftoversAreListed DEF L
    <2>2. PICK q, m : q = Q(a) /\ m = Len(q)
        OBVIOUS
    <2> DEFINE share == [i \in 1..n |-> Quantity(c[i], a)]
    <2>3. ASSUME NEW i \in 1..n
          PROVE  share[i] = IF i <= m THEN LeftoverShare(q, i, n) ELSE 0
        <3>1. a \notin DOMAIN start[i].assets
            BY <1>3, <1>5
        <3>2. CASE i <= m
            <4>1. a \in Gets(i)
                BY <2>2, <3>2 DEF Gets
            <4>2. c[i].assets[a] = LeftoverShare(q, i, n) /\ a \in DOMAIN c[i].assets
                BY <1>7, <2>2, <4>1
            <4> QED BY <2>1, <3>2, <4>2 DEF Quantity
        <3>3. CASE ~ (i <= m)
            <4>1. a \notin DOMAIN c[i].assets
                BY <1>7, <2>2, <3>1, <3>3 DEF Gets
            <4> QED BY <2>1, <3>3, <4>1 DEF Quantity
        <3> QED BY <3>2, <3>3
    <2>4. Total(c, 1..n, a) = SumFunctionOnSet(share, 1..n)
        BY DEF Total
    <2>5. \A i \in 1..n : share[i] = Quantity(c[i], a)
        OBVIOUS
    <2> HIDE DEF share
    <2>6. m \in Nat \ {0} /\ n \in Nat \ {0} /\ \A i \in 1..m : q[i] \in Nat
        BY <1>2, <1>4, <2>1, <2>2
    <2>7. /\ \A i \in 1..n : share[i] \in Nat
          /\ SumFunctionOnSet(share, 1..n) = SumFunctionOnSet(q, 1..m)
        <3>1. Len(q) = m
            BY <2>2
        <3> QED BY <2>3, <2>6, <3>1, LeftoverSharesAdd
    <2> QED BY <2>1, <2>2, <2>4, <2>5, <2>7
<1>9. ASSUME NEW i \in 1..n PROVE IsValue(c[i])
    <2>1. c[i].coins \in Nat
        BY <1>5, <1>7 DEF IsValue
    <2>2. Gets(i) \subseteq L
        BY DEF Gets
    <2>3. DOMAIN c[i].assets \subseteq Asset
        BY <1>5, <1>7, <1>8, <2>2 DEF IsValue
    <2>4. ASSUME NEW a \in DOMAIN c[i].assets PROVE c[i].assets[a] \in Nat
        <3>1. CASE a \in Gets(i)
            <4>1. a \in L /\ a # Coin /\ Quantity(c[i], a) \in Nat
                BY <1>8, <2>2, <3>1
            <4> QED BY <4>1, <2>4 DEF Quantity
        <3>2. CASE a \notin Gets(i)
            <4>1. a \in DOMAIN start[i].assets \ Gets(i)
                BY <1>7, <2>4, <3>2
            <4> QED BY <1>5, <1>7, <4>1 DEF IsValue
        <3> QED BY <3>1, <3>2
    <2> QED BY <2>1, <2>3, <2>4 DEF IsValue
<1>10. IsBundles(c) /\ Len(c) = n /\ DOMAIN c = 1..n
    <2>1. IsBundles(c) /\ Len(c) = n
        BY <1>6, <1>9, BundlesFromValues
    <2> QED BY <2>1, BundlesAreListed
<1>11. HoldOnly(c, OutputAssets(x) \cup L)
    BY <1>5, <1>7, <1>10 DEF HoldOnly, Gets
<1>12. ASSUME NEW k \in OutputAssets(x) \cup {Coin}
       PROVE  BundlesTotal(c, k) = BundlesTotal(bundles, k)
    <2>1. ASSUME NEW i \in 1..n PROVE Quantity(c[i], k) = Quantity(start[i], k)
        <3>1. CASE k = Coin
            BY <1>7, <3>1
        <3>2. CASE k # Coin
            <4>1. k \notin Gets(i)
                BY <1>3, <3>2 DEF Gets
            <4>2. k \in DOMAIN c[i].assets <=> k \in DOMAIN start[i].assets
                BY <1>7, <4>1
            <4>3. k \in DOMAIN start[i].assets => c[i].assets[k] = start[i].assets[k]
                BY <1>7, <4>1
            <4> QED BY <3>2, <4>2, <4>3 DEF Quantity
        <3> QED BY <3>1, <3>2
    <2>2. Total(c, 1..n, k) = Total(start, 1..n, k)
        <3>1. IsFiniteSet(1..n)
            BY FS_Interval
        <3> QED BY <1>9, <2>1, <3>1, TotalSame
    <2> QED BY <1>2, <1>4, <1>10, <2>2 DEF BundlesTotal
<1>13. \A k \in L : BundlesTotal(c, k) = Selected(x, S, k)
    BY <1>8, <1>10 DEF BundlesTotal
<1> QED BY <1>1, <1>2, <1>4, <1>10, <1>11, <1>12, <1>13 DEF L

-----------------------------------------------------------------------------
(* The bundles of a selection *)

HeldAssets(x, S) == UNION {DOMAIN x.utxo[u].assets : u \in S}

\* The bundles share out exactly what the selected entries hold beyond the
\* outputs, the deposit and the fee f.
AddsUp(x, S, f, b) == \A k \in Token : BundlesTotal(b, k) = Excess(x, S, f, k)

\* What every pass of the merging loop finds: bundles that add up, sorted, made
\* of selected assets, and not more than there are outputs.
WellMade(x, S, f, b) ==
    /\ IsBundles(b) /\ IsDescending(b)
    /\ Len(b) <= 1 \/ Len(b) <= Len(x.outputs)
    /\ HoldOnly(b, HeldAssets(x, S))
    /\ AddsUp(x, S, f, b)

\* Of an asset no selected entry holds, nothing is selected.
LEMMA SelectedIsHeld ==
    ASSUME NEW x \in Instance, NEW S \in SUBSET Utxo, NEW a, a # Coin, a \notin HeldAssets(x, S)
    PROVE  Selected(x, S, a) = 0
<1>1. IsFiniteSet(S) /\ \A u \in S : Quantity(x.utxo[u], a) = 0
    BY ArgumentsAreTyped, FS_Subset DEF HeldAssets, Quantity
<1>2. Total(x.utxo, S, a) = 0
    BY <1>1, TotalOfNone
<1> QED BY <1>2 DEF Selected

\* computeChangeBundles starts the merging loop with well made bundles.
LEMMA UnmergedBundlesAdd ==
    ASSUME NEW x \in Instance, NEW S \in SUBSET Utxo, NEW f \in Nat, ExcessIsNat(x, S, f)
    PROVE  WellMade(x, S, f, UnmergedBundles(x, S, f))
<1> DEFINE r == RequestedBundles(x, S, f)
           w == WithLeftovers(x, S, r)
           c == LargestFirst(w)
           O == OutputAssets(x)
           L == LeftoverAssets(x, S)
<1>1. /\ IsBundles(r) /\ (Len(r) <= 1 \/ Len(r) = Len(x.outputs)) /\ HoldOnly(r, O)
      /\ \A k \in O \cup {Coin} : BundlesTotal(r, k) = Excess(x, S, f, k)
    BY RequestedBundlesAdd
<1>2. /\ IsBundles(w) /\ (Len(w) <= 1 \/ Len(w) = Len(r)) /\ HoldOnly(w, O \cup L)
      /\ \A k \in O \cup {Coin} : BundlesTotal(w, k) = BundlesTotal(r, k)
      /\ \A k \in L : BundlesTotal(w, k) = Selected(x, S, k)
    <2> HIDE DEF r
    <2> QED BY <1>1, WithLeftoversAdd
<1>3. /\ IsBundles(c) /\ Len(c) = Len(w) /\ IsDescending(c)
      /\ \A A : HoldOnly(w, A) => HoldOnly(c, A)
      /\ \A k : BundlesTotal(c, k) = BundlesTotal(w, k)
    <2> HIDE DEF w
    <2> QED BY <1>2, LargestFirstKeeps
<1>4. \A k : Requested(x, k) \in Nat /\ Selected(x, S, k) \in Nat
              /\ Excess(x, S, f, k) = Selected(x, S, k) - ToPay(x, f, k)
              /\ (k # Coin => ToPay(x, f, k) = Requested(x, k))
    <2>1. ASSUME NEW k PROVE /\ Requested(x, k) \in Nat /\ Selected(x, S, k) \in Nat
                             /\ Excess(x, S, f, k) = Selected(x, S, k) - ToPay(x, f, k)
        BY QuantitiesOfCall
    <2>2. ASSUME NEW k, k # Coin PROVE ToPay(x, f, k) = Requested(x, k)
        BY <2>1, <2>2 DEF ToPay
    <2> QED BY <2>1, <2>2
<1>5. ASSUME NEW k, k # Coin, k \notin O PROVE Requested(x, k) = 0
    <2>1. IsFiniteSet(DOMAIN x.outputs) /\ \A i \in DOMAIN x.outputs : Quantity(x.outputs[i], k) = 0
        BY <1>5, OutputsAreTyped DEF OutputAssets, Quantity
    <2> QED BY <2>1, TotalOfNone DEF Requested
<1>6. \A a \in L : a # Coin /\ a \notin O
    BY LeftoversAreListed DEF LeftoverAssets
<1>7. O \cup L \subseteq HeldAssets(x, S)
    <2>1. ASSUME NEW a \in O PROVE a \in HeldAssets(x, S)
        <3>1. a # Coin /\ Requested(x, a) > 0
            BY RequestedIsPositive
        <3>2. Selected(x, S, a) - Requested(x, a) \in Nat
            BY <1>4, <3>1 DEF ExcessIsNat
        <3>3. Selected(x, S, a) # 0
            BY <1>4, <3>1, <3>2
        <3> QED BY <3>1, <3>3, SelectedIsHeld
    <2>2. L \subseteq HeldAssets(x, S)
        BY DEF LeftoverAssets, HeldAssets
    <2> QED BY <2>1, <2>2
<1> HIDE DEF r, w, c, O, L
<1>8. HoldOnly(c, O \cup L)
    BY <1>2, <1>3
<1>9. ASSUME NEW k \in Token PROVE BundlesTotal(c, k) = Excess(x, S, f, k)
    <2>1. CASE k \in O \cup {Coin}
        BY <1>1, <1>2, <1>3, <2>1
    <2>2. CASE k \in L
        <3>1. Requested(x, k) = 0 /\ ToPay(x, f, k) = 0
            BY <1>4, <1>5, <1>6, <2>2
        <3> QED BY <1>2, <1>3, <1>4, <2>2, <3>1
    <2>3. CASE k \notin O \cup L \cup {Coin}
        <3>1. ToPay(x, f, k) = 0
            BY <1>4, <1>5, <2>3
        <3>2. Selected(x, S, k) = 0
            BY <2>3, SelectedIsHeld DEF HeldAssets, LeftoverAssets, L, O
        <3>3. BundlesTotal(c, k) = 0
            BY <1>3, <1>8, <2>3, NotHeld
        <3> QED BY <1>4, <3>1, <3>2, <3>3
    <2> QED BY <2>1, <2>2, <2>3
<1>10. Len(c) <= 1 \/ Len(c) <= Len(x.outputs)
    <2>1. Len(x.outputs) \in Nat
        BY InstanceAssumption, LenProperties DEF InstanceAssumption
    <2> QED BY <1>1, <1>2, <1>3, <2>1
<1>11. HoldOnly(c, HeldAssets(x, S))
    BY <1>7, <1>8 DEF HoldOnly
<1>12. c = UnmergedBundles(x, S, f)
    BY DEF UnmergedBundles, c, w, r
<1> QED BY <1>3, <1>9, <1>10, <1>11, <1>12 DEF WellMade, AddsUp

\* and every pass leaves them so.
LEMMA MergedIsWellMade ==
    ASSUME NEW x, Len(x.outputs) \in Nat, NEW S, NEW f, NEW b, WellMade(x, S, f, b), Len(b) > 1
    PROVE  WellMade(x, S, f, MergeLast(b))
<1>1. Len(b) \in Nat
    BY BundlesAreListed DEF WellMade
<1>2. LET c == MergeLast(b)
      IN  /\ IsBundles(c) /\ Len(c) = Len(b) - 1 /\ IsDescending(c)
          /\ \A A : HoldOnly(b, A) => HoldOnly(c, A)
          /\ \A k \in Token : BundlesTotal(c, k) = BundlesTotal(b, k)
    BY MergeLastKeeps DEF WellMade
<1> QED BY <1>1, <1>2 DEF WellMade, AddsUp

-----------------------------------------------------------------------------
(* The inductive invariant of select: in every stage what is known of the  *)
(* fee and of the bundles computed last.                                   *)

\* The fee the bundles of the stage take into account.
FeeOfStage == IF stage \in {"change", "merge"} THEN fee ELSE 0

Stages == {"start", "roundRobin", "changeInclFee", "mergeInclFee", "fee", "change", "merge"}

ChangeInv ==
    /\ SelectInv
    /\ stage \in Stages \cup Settled
    /\ fee \in Nat
    /\ stage \notin {"change", "merge"} \cup Settled => fee = 0
    /\ stage \in {"change", "merge"} => Covers(fee)
    /\ IsBundles(change)
    /\ Merging => WellMade(args, utxoSelected, FeeOfStage, change)

\* Coins are covered exactly when the excess is not negative.
LEMMA CoversIsExcess ==
    ASSUME args \in Instance, NEW S \in SUBSET Utxo, NEW f \in Nat
    PROVE  ToPay(args, f, Coin) <= Selected(args, S, Coin) <=> Excess(args, S, f, Coin) \in Nat
<1>1. /\ ToPay(args, f, Coin) \in Nat /\ Selected(args, S, Coin) \in Nat
      /\ Excess(args, S, f, Coin) = Selected(args, S, Coin) - ToPay(args, f, Coin)
    BY QuantitiesOfCall
<1> QED BY <1>1

\* After the round-robin selection there is enough of every token, the fee not
\* counted.
LEMMA SelectedIsEnough ==
    ASSUME SelectInv, tokensRemaining = <<>>, NEW f \in Nat, f = 0 \/ Covers(f)
    PROVE  ExcessIsNat(args, utxoSelected, f)
<1>1. args \in Instance /\ utxoSelected \in SUBSET Utxo
    BY DEF SelectInv, SelectionInv
<1>2. ASSUME NEW k \in OutputAssets(args) \cup {Coin}
      PROVE  SelectedQuantity(utxoSelected, k) >= MinimumTarget(k)
    <2>1. k \in ToSet(args.tokens) \ ToSet(tokensRemaining)
        BY <1>1, ArgumentsAreTyped DEF ToSet
    <2> QED BY <2>1 DEF SelectInv, DroppedIsCovered
<1>3. ASSUME NEW k \in OutputAssets(args) \cup {Coin}
      PROVE  /\ ToPay(args, f, k) \in Nat /\ Selected(args, utxoSelected, k) \in Nat
             /\ Requested(args, k) \in Nat
             /\ Excess(args, utxoSelected, f, k) = Selected(args, utxoSelected, k) - ToPay(args, f, k)
             /\ SelectedQuantity(utxoSelected, k) = Selected(args, utxoSelected, k)
    BY <1>1, QuantitiesOfCall DEF SelectedQuantity, ImplicitInput, Selected
<1>4. ASSUME NEW a \in OutputAssets(args)
      PROVE  Excess(args, utxoSelected, f, a) \in Nat
    <2>1. a # Coin
        BY <1>1, RequestedIsPositive
    <2>2. MinimumTarget(a) = ToPay(args, f, a)
        BY <1>3, <2>1 DEF MinimumTarget, ImplicitDeposit, ToPay
    <2>3. Selected(args, utxoSelected, a) >= ToPay(args, f, a)
        BY <1>2, <1>3, <2>2
    <2> QED BY <1>3, <2>3
<1>5. Excess(args, utxoSelected, f, Coin) \in Nat
    <2>1. CASE f = 0
        <3>1. args.deposit \in Nat
            BY <1>1, ArgumentsAreTyped
        <3>2. MinimumTarget(Coin) = ToPay(args, f, Coin)
            BY <1>3, <2>1, <3>1 DEF MinimumTarget, ImplicitDeposit, ToPay
        <3>3. Selected(args, utxoSelected, Coin) >= ToPay(args, f, Coin)
            BY <1>2, <1>3, <3>2
        <3> QED BY <1>3, <3>3
    <2>2. CASE Covers(f)
        BY <1>1, <2>2, CoversIsExcess DEF Covers
    <2> QED BY <2>1, <2>2
<1> QED BY <1>4, <1>5 DEF ExcessIsNat

\* An extra entry leaves the fee covered.
LEMMA ExtraKeepsCovers ==
    ASSUME SelectionInv, NEW f \in Nat, Covers(f), PickExtraRandomUtxo, args' = args
    PROVE  ToPay(args, f, Coin) <= Selected(args, utxoSelected', Coin)
<1>1. PICK u \in utxoRemaining : utxoSelected' = utxoSelected \cup {u}
    BY DEF PickExtraRandomUtxo, CoinOnly
<1>2. args \in Instance /\ utxoSelected \in SUBSET Utxo /\ u \in Utxo /\ u \notin utxoSelected
    BY DEF SelectionInv
<1>3. SelectedQuantity(utxoSelected \cup {u}, Coin) >= SelectedQuantity(utxoSelected, Coin)
    BY <1>2, SelectingAdds
<1>4. \A S : SelectedQuantity(S, Coin) = Selected(args, S, Coin)
    BY DEF SelectedQuantity, ImplicitInput, Selected
<1>5. /\ Selected(args, utxoSelected, Coin) \in Nat
      /\ Selected(args, utxoSelected \cup {u}, Coin) \in Nat
      /\ ToPay(args, f, Coin) \in Nat
    BY <1>2, QuantitiesOfCall
<1>6. ToPay(args, f, Coin) <= Selected(args, utxoSelected \cup {u}, Coin)
    BY <1>3, <1>4, <1>5 DEF Covers
<1> QED BY <1>1, <1>6

\* The cost of a transaction is a natural.
LEMMA PoliciesAreFinite ==
    ASSUME NEW v, IsValue(v)
    PROVE  IsFiniteSet(Policies(v)) /\ Cardinality(Policies(v)) \in Nat
<1> DEFINE A == DOMAIN v.assets
           p == [a \in A |-> Policy[a]]
<1>1. IsFiniteSet(A)
    BY ValueAssumption, FS_Subset DEF ValueAssumption, IsValue
<1>2. p \in Surjection(A, Policies(v))
    BY DEF Surjection, Policies
<1>3. IsFiniteSet(Policies(v))
    <2> HIDE DEF A, p
    <2> QED BY <1>1, <1>2, FS_Surjection
<1> QED BY <1>3, FS_CardinalityType

\* Bundles have a size.
LEMMA SizesAreNat ==
    ASSUME NEW b, IsFiniteSet(DOMAIN b), \A i \in DOMAIN b : IsValue(b[i])
    PROVE  SizesOf(b) \in Nat
<1> DEFINE size == [i \in DOMAIN b |-> SizeOf(b[i])]
<1>1. \A i \in DOMAIN b : size[i] \in Nat
    BY PoliciesAreFinite DEF SizeOf
<1>2. SizesOf(b) = SumFunctionOnSet(size, DOMAIN b)
    BY DEF SizesOf
<1> HIDE DEF size
<1> QED BY <1>1, <1>2, SumNat

\* A selection has a fee.
LEMMA CostIsNat ==
    ASSUME SelectionInv, NEW S \in SUBSET Utxo, NEW b, IsBundles(b)
    PROVE  MinimumCost(S, b) \in Nat
<1>1. Cardinality(S) \in Nat
    BY ArgumentsAreTyped, FS_Subset, FS_CardinalityType DEF SelectionInv
<1>2. SizesOf(b) \in Nat
    BY BundlesAreListed, SizesAreNat DEF IsBundles
<1>3. SizesOf(args.outputs) \in Nat
    BY OutputsAreTyped, SizesAreNat DEF SelectionInv
<1>4. PICK n \in Nat : TxSize(S, b) = n
    BY <1>1, <1>2, <1>3 DEF TxSize
<1>5. FeeCoefficient * n \in Nat
    BY FeeAssumption DEF FeeAssumption
<1> QED BY <1>4, <1>5, FeeAssumption DEF MinimumCost, FeeAssumption

\* The conversion keeps the coins and the policies of a value, adds nothing, and
\* keeps an asset no other one of the value shares its policy with.
LEMMA ConvertedValue ==
    ASSUME NEW v, IsValue(v), NEW c \in CslValues(v)
    PROVE  /\ IsValue(c) /\ c.coins = v.coins /\ Policies(c) = Policies(v)
           /\ \A k : Quantity(c, k) <= Quantity(v, k)
           /\ \A k : (\A a \in DOMAIN v.assets : Policy[a] = Policy[k] => a = k)
                       => Quantity(c, k) = Quantity(v, k)
<1>1. PICK K \in SUBSET DOMAIN v.assets :
        /\ \A p \in Policies(v) : \E a \in K : {b \in K : Policy[b] = p} = {a}
        /\ c = [coins |-> v.coins, assets |-> Restrict(v.assets, K)]
    BY DEF CslValues
<1>2. /\ c.coins = v.coins /\ DOMAIN c.assets = K
      /\ \A a \in K : c.assets[a] = v.assets[a]
    BY <1>1 DEF Restrict
<1>3. K \subseteq DOMAIN v.assets /\ DOMAIN v.assets \subseteq Asset
    BY DEF IsValue
<1>4. IsValue(c)
    BY <1>2, <1>3 DEF IsValue
<1>5. Policies(c) = Policies(v)
    BY <1>1, <1>2, <1>3 DEF Policies
<1>6. ASSUME NEW k, \A a \in DOMAIN v.assets : Policy[a] = Policy[k] => a = k
      PROVE  Quantity(c, k) = Quantity(v, k)
    <2>1. CASE k = Coin
        BY <1>2, <2>1 DEF Quantity
    <2>2. CASE k # Coin /\ k \in DOMAIN v.assets
        <3>1. Policy[k] \in Policies(v)
            BY <2>2 DEF Policies
        <3>2. PICK b \in K : {e \in K : Policy[e] = Policy[k]} = {b}
            BY <1>1, <3>1
        <3>3. b = k
            BY <1>3, <1>6, <3>2
        <3> QED BY <1>2, <2>2, <3>3 DEF Quantity
    <2>3. CASE k # Coin /\ k \notin DOMAIN v.assets
        BY <1>2, <1>3, <2>3 DEF Quantity
    <2> QED BY <2>1, <2>2, <2>3
<1>7. ASSUME NEW k PROVE Quantity(c, k) <= Quantity(v, k)
    <2>1. \A a \in K : c.assets[a] = v.assets[a] /\ v.assets[a] \in Nat
        BY <1>2, <1>3 DEF IsValue
    <2>2. \A a \in DOMAIN v.assets : v.assets[a] \in Nat
        BY DEF IsValue
    <2>3. v.coins \in Nat
        BY DEF IsValue
    <2> QED BY <1>2, <1>3, <2>1, <2>2, <2>3 DEF Quantity
<1> QED BY <1>2, <1>4, <1>5, <1>6, <1>7

\* The final change, bundle by bundle.
LEMMA ConvertedBundles ==
    ASSUME NEW b, IsBundles(b), NEW c,
           LET values == {CslValues(b[i]) : i \in DOMAIN b}
           IN  c \in {d \in [DOMAIN b -> UNION values] : \A i \in DOMAIN b : d[i] \in CslValues(b[i])}
    PROVE  /\ IsBundles(c) /\ DOMAIN c = DOMAIN b
           /\ \A i \in DOMAIN c : c[i] \in CslValues(b[i])
<1>1. DOMAIN c = DOMAIN b /\ c = [i \in DOMAIN b |-> c[i]] /\ \A i \in DOMAIN b : c[i] \in CslValues(b[i])
    OBVIOUS
<1>2. PICK n \in Nat : DOMAIN b = 1..n /\ \A i \in 1..n : IsValue(b[i])
    BY BundlesAreListed DEF IsBundles
<1>3. c = [i \in 1..n |-> c[i]] /\ \A i \in 1..n : c[i] \in CslValues(b[i])
    BY <1>1, <1>2
<1>4. \A i \in 1..n : IsValue(c[i])
    BY <1>2, <1>3, ConvertedValue
<1>5. IsBundles(c)
    BY <1>2, <1>3, <1>4, BundlesFromValues
<1> QED BY <1>1, <1>5

\* A call has no change at first.
LEMMA ChangeInitInv == SelectInit => ChangeInv
<1>1. SUFFICES ASSUME SelectInit PROVE ChangeInv
    OBVIOUS
<1>2. SelectInv
    BY <1>1, SelectInitCovers
<1>3. IsBundles(change)
    BY <1>1 DEF SelectInit, IsBundles, Range
<1> QED BY <1>1, <1>2, <1>3 DEF SelectInit, ChangeInv, Stages, Settled, Merging

\* One step at a time.
LEMMA ChangeNextInv ==
    ASSUME ChangeInv, SelectNext
    PROVE  ChangeInv'
<1>1. /\ SelectInv /\ stage \in Stages \cup Settled /\ fee \in Nat
      /\ stage \notin {"change", "merge"} \cup Settled => fee = 0
      /\ stage \in {"change", "merge"} => Covers(fee)
      /\ IsBundles(change)
      /\ Merging => WellMade(args, utxoSelected, FeeOfStage, change)
    BY DEF ChangeInv
<1>2. SelectInv'
    BY <1>1, SelectNextCovers
<1>3. SelectionInv /\ args \in Instance /\ utxoSelected \in SUBSET Utxo
    BY <1>1 DEF SelectInv, SelectionInv
<1> USE DEF GoTo, KeepSelection, roundRobinVars, Stages, Settled, Failure
<1>4. CASE Start
    BY <1>1, <1>2, <1>4 DEF Start, ChangeInv, Merging
<1>5. CASE RoundRobinSelection
    BY <1>1, <1>2, <1>5 DEF RoundRobinSelection, ChangeInv, Merging
<1>6. CASE RoundRobinReturns
    BY <1>1, <1>2, <1>6 DEF RoundRobinReturns, ChangeInv, Merging
<1>7. CASE ComputeBundles
    <2>1. tokensRemaining = <<>> /\ (FeeOfStage = 0 \/ Covers(FeeOfStage)) /\ FeeOfStage \in Nat
        BY <1>1, <1>7 DEF ComputeBundles, SelectInv, FeeOfStage
    <2>2. ExcessIsNat(args, utxoSelected, FeeOfStage)
        BY <1>1, <2>1, SelectedIsEnough
    <2>3. WellMade(args, utxoSelected, FeeOfStage, UnmergedBundles(args, utxoSelected, FeeOfStage))
        BY <1>3, <2>1, <2>2, UnmergedBundlesAdd
    <2>4. /\ change' = UnmergedBundles(args, utxoSelected, FeeOfStage)
          /\ FeeOfStage' = FeeOfStage
          /\ UNCHANGED <<args, utxoSelected, fee>>
          /\ stage' \in {"merge", "mergeInclFee"}
          /\ stage' = "merge" <=> stage = "change"
        BY <1>7 DEF ComputeBundles, FeeOfStage
    <2>5. WellMade(args, utxoSelected, FeeOfStage, change)'
        BY <2>3, <2>4 DEF WellMade, AddsUp
    <2>6. IsBundles(change)'
        BY <2>5 DEF WellMade
    <2>7. stage' \in {"change", "merge"} => Covers(fee)'
        BY <1>1, <2>4 DEF Covers
    <2> QED BY <1>1, <1>2, <1>7, <2>4, <2>5, <2>6, <2>7 DEF ComputeBundles, ChangeInv, Merging
<1>8. CASE MergeSmallest
    <2>1. Len(change) > 1 /\ Merging /\ change' = MergeLast(change)
          /\ UNCHANGED <<args, utxoSelected, stage, fee>>
        BY <1>8 DEF MergeSmallest, MergingDone
    <2>2. Len(args.outputs) \in Nat
        BY <1>3, InstanceAssumption, LenProperties DEF InstanceAssumption
    <2>3. WellMade(args, utxoSelected, FeeOfStage, MergeLast(change))
        BY <1>1, <2>1, <2>2, MergedIsWellMade
    <2>4. WellMade(args, utxoSelected, FeeOfStage, change)'
        BY <2>1, <2>3 DEF WellMade, AddsUp, FeeOfStage
    <2>5. IsBundles(change)'
        BY <2>4 DEF WellMade
    <2>6. stage' \in {"change", "merge"} => Covers(fee)'
        BY <1>1, <2>1 DEF Covers
    <2> QED BY <1>1, <1>2, <2>1, <2>4, <2>5, <2>6 DEF ChangeInv
<1>9. CASE TakeExtraForChange
    <2>1. /\ PickExtraRandomUtxo /\ UNCHANGED <<args, change, fee>>
          /\ stage \in {"merge", "mergeInclFee"}
          /\ stage' = IF stage = "merge" THEN "change" ELSE "changeInclFee"
        BY <1>9 DEF TakeExtraForChange, Merging
    <2>2. stage = "merge" => ToPay(args, fee, Coin) <= Selected(args, utxoSelected', Coin)
        BY <1>1, <1>3, <2>1, ExtraKeepsCovers
    <2>3. stage' \in {"change", "merge"} => Covers(fee)'
        BY <2>1, <2>2 DEF Covers
    <2> QED BY <1>1, <1>2, <2>1, <2>3 DEF ChangeInv, Merging
<1>10. CASE FullyDepleted
    BY <1>1, <1>2, <1>10 DEF FullyDepleted, ChangeInv, Merging
<1>11. CASE ChangeInclFee
    <2>1. IsBundles(change)'
        BY <1>1, <1>11, NonEmptyKeeps DEF ChangeInclFee
    <2> QED BY <1>1, <1>2, <1>11, <2>1 DEF ChangeInclFee, ChangeInv, Merging
<1>12. CASE FeeCovered
    <2>1. Covers(fee)'
        BY <1>12 DEF FeeCovered, Covers
    <2>2. fee' \in Nat
        BY <1>1, <1>3, <1>12, CostIsNat DEF FeeCovered
    <2> QED BY <1>1, <1>2, <1>12, <2>1, <2>2 DEF FeeCovered, ChangeInv, Merging
<1>13. CASE FeeNotCovered
    BY <1>1, <1>2, <1>13 DEF FeeNotCovered, ChangeInv, Merging
<1>14. CASE FinalChange
    <2>1. IsBundles(NonEmptyBundles(change))
        BY <1>1, NonEmptyKeeps
    <2>2. IsBundles(change')
        BY <1>14, <2>1, ConvertedBundles DEF FinalChange
    <2> QED BY <1>1, <1>2, <1>14, <2>2 DEF FinalChange, ChangeInv, Merging
<1> QED BY <1>4, <1>5, <1>6, <1>7, <1>8, <1>9, <1>10, <1>11, <1>12, <1>13, <1>14 DEF SelectNext

\* The invariant of the change.
LEMMA ChangeInvHolds == SelectSpec => []ChangeInv
<1>1. ChangeInv /\ UNCHANGED selectVars => ChangeInv'
    <2>1. SUFFICES ASSUME ChangeInv, UNCHANGED selectVars PROVE ChangeInv'
        OBVIOUS
    <2>2. SelectInv'
        BY <2>1, KeepSelectionInv, KeepCovers, BalanceIsConstant
           DEF selectVars, ChangeInv, SelectInv, roundRobinVars
    <2>3. UNCHANGED <<args, utxoSelected, stage, change, fee>>
        BY <2>1 DEF selectVars, roundRobinVars
    <2> QED BY <2>1, <2>2, <2>3 DEF ChangeInv, Covers, Merging, FeeOfStage, WellMade, AddsUp
<1>2. ChangeInv /\ [SelectNext]_selectVars => ChangeInv'
    BY <1>1, ChangeNextInv
<1> QED BY <1>2, ChangeInitInv, PTL DEF SelectSpec

\* Every state of select has the shape the code gives it, whatever the UTxO, the
\* outputs and the draws are.
THEOREM SelectTypeCorrect == SelectSpec => []SelectTypeOK
<1>1. ChangeInv => SelectTypeOK
    <2>1. SUFFICES ASSUME ChangeInv PROVE SelectTypeOK
        OBVIOUS
    <2>2. RoundRobinTypeOK
        BY <2>1, SelectionInvImplies DEF ChangeInv, SelectInv
    <2> QED BY <2>1, <2>2 DEF ChangeInv, SelectTypeOK, Stages, IsBundles
<1> QED BY <1>1, ChangeInvHolds, PTL

-----------------------------------------------------------------------------
(* The result of select *)

\* No other asset of the entries in S has the policy of k.
AloneIn(x, S, k) == \A a \in HeldAssets(x, S) : Policy[a] = Policy[k] => a = k

\* What is returned balances: the bundles add up to the excess, leaving out the
\* empty ones changes no quantity, converting the others adds nothing, and drops
\* nothing of a token alone in its policy.
LEMMA FinalChangeBalances ==
    ASSUME ChangeInv, FinalChange, NEW k \in Token
    PROVE  /\ BundlesTotal(change', k) \in Nat
           /\ ToPay(args, fee, k) + BundlesTotal(change', k) <= Selected(args, utxoSelected, k)
           /\ k = Coin \/ AloneIn(args, utxoSelected, k)
                => ToPay(args, fee, k) + BundlesTotal(change', k) = Selected(args, utxoSelected, k)
<1>1. /\ WellMade(args, utxoSelected, fee, change)
      /\ args \in Instance /\ utxoSelected \in SUBSET Utxo /\ fee \in Nat
    BY DEF FinalChange, ChangeInv, Merging, FeeOfStage, SelectInv, SelectionInv
<1> DEFINE b == NonEmptyBundles(change)
<1>2. /\ IsBundles(b) /\ BundlesTotal(b, k) = BundlesTotal(change, k)
      /\ HoldOnly(b, HeldAssets(args, utxoSelected))
    <2>1. IsBundles(b) /\ BundlesTotal(b, k) = BundlesTotal(change, k)
        BY <1>1, NonEmptyKeeps DEF WellMade
    <2>2. \A i \in DOMAIN b : \E j \in DOMAIN change : b[i] = change[j]
        BY <1>1, NonEmptyKeeps DEF WellMade
    <2> HIDE DEF b
    <2> QED BY <1>1, <2>1, <2>2 DEF WellMade, HoldOnly
<1>3. IsBundles(change') /\ DOMAIN change' = DOMAIN b /\ \A i \in DOMAIN change' : change'[i] \in CslValues(b[i])
    BY <1>2, ConvertedBundles DEF FinalChange
<1> HIDE DEF b
<1>4. \A i \in DOMAIN b : IsValue(b[i]) /\ IsValue(change'[i]) /\ change'[i] \in CslValues(b[i])
    BY <1>2, <1>3 DEF IsBundles
<1>5. IsFiniteSet(DOMAIN b)
    BY <1>2, BundlesAreListed
<1>6. BundlesTotal(change', k) <= BundlesTotal(change, k)
    <2> DEFINE f == [i \in DOMAIN b |-> Quantity(change'[i], k)]
               g == [i \in DOMAIN b |-> Quantity(b[i], k)]
    <2>1. ASSUME NEW i \in DOMAIN b
          PROVE  f[i] \in Int /\ g[i] \in Int /\ f[i] <= g[i]
        <3>1. Quantity(change'[i], k) \in Nat /\ Quantity(b[i], k) \in Nat
            BY <1>4, QuantityIsNat
        <3>2. Quantity(change'[i], k) <= Quantity(b[i], k)
            BY <1>4, ConvertedValue
        <3> QED BY <3>1, <3>2
    <2>2. BundlesTotal(change', k) = SumFunctionOnSet(f, DOMAIN b) /\ BundlesTotal(b, k) = SumFunctionOnSet(g, DOMAIN b)
        BY <1>3 DEF BundlesTotal, Total
    <2> HIDE DEF f, g
    <2>3. SumFunctionOnSet(f, DOMAIN b) <= SumFunctionOnSet(g, DOMAIN b)
        BY <1>5, <2>1, SumAtMost
    <2> QED BY <1>2, <2>2, <2>3
<1>7. ASSUME k = Coin \/ AloneIn(args, utxoSelected, k)
      PROVE  BundlesTotal(change', k) = BundlesTotal(change, k)
    <2>1. ASSUME NEW i \in DOMAIN b
          PROVE  Quantity(change'[i], k) = Quantity(b[i], k)
        <3>1. CASE k = Coin
            BY <1>4, <3>1, ConvertedValue DEF Quantity
        <3>2. CASE AloneIn(args, utxoSelected, k)
            <4>1. \A a \in DOMAIN b[i].assets : Policy[a] = Policy[k] => a = k
                BY <1>2, <3>2 DEF AloneIn, HoldOnly
            <4> QED BY <1>4, <4>1, ConvertedValue
        <3> QED BY <1>7, <3>1, <3>2
    <2>2. Total(change', DOMAIN b, k) = Total(b, DOMAIN b, k)
        BY <1>4, <1>5, <2>1, TotalSame
    <2> QED BY <1>2, <1>3, <2>2 DEF BundlesTotal
<1>8. BundlesTotal(change, k) = Excess(args, utxoSelected, fee, k)
    BY <1>1 DEF WellMade, AddsUp
<1>9. /\ ToPay(args, fee, k) \in Nat /\ Selected(args, utxoSelected, k) \in Nat
      /\ Excess(args, utxoSelected, fee, k) = Selected(args, utxoSelected, k) - ToPay(args, fee, k)
    BY <1>1, QuantitiesOfCall
<1>10. BundlesTotal(change', k) \in Nat
    BY <1>3, <1>4, <1>5, TotalIsNat DEF BundlesTotal
<1> QED BY <1>6, <1>7, <1>8, <1>9, <1>10

\* A call that has settled does nothing more.
LEMMA SettledIsFinal ==
    ASSUME SelectNext
    PROVE  stage \notin Settled
BY DEF SelectNext, Settled, Failure, Start, RoundRobinSelection, RoundRobinReturns, ComputeBundles,
       MergeSmallest, TakeExtraForChange, FullyDepleted, ChangeInclFee, FeeCovered, FeeNotCovered,
       FinalChange, Merging

\* Only the last step of all selects.
LEMMA SelectedByFinalChange ==
    ASSUME SelectNext, stage' = "selected"
    PROVE  FinalChange
BY DEF SelectNext, GoTo, Start, RoundRobinSelection, RoundRobinReturns, ComputeBundles,
       MergeSmallest, TakeExtraForChange, FullyDepleted, ChangeInclFee, FeeCovered, FeeNotCovered,
       FinalChange, Merging

\* The detailed selection implements the promise of an input selector: it is
\* the last step that selects, with the remaining entries and the change as
\* promised, and the steps that give up change nothing else.  Only assets that
\* share their policy with another selected one may be lost, and none is made.
THEOREM SelectImplementsSelector == SelectSpec => ImplementsSelector
<1> DEFINE SameTotal == \A v, S, k : Selector!Total(v, S, k) = Total(v, S, k)
           SameValue == \A v : Selector!IsValue(v) <=> IsValue(v)
<1>0. SameTotal /\ SameValue /\ Selector!Token = Token
    <2>1. SameTotal
        BY DEF Selector!Total, Total, Selector!Quantity, Quantity,
               Selector!SumFunctionOnSet, SumFunctionOnSet,
               Selector!FoldFunctionOnSet, FoldFunctionOnSet,
               Selector!MapThenFoldSet, MapThenFoldSet
    <2>2. SameValue
        BY DEF Selector!IsValue, IsValue
    <2>3. Selector!Token = Token
        BY DEF Selector!Token, Token
    <2> QED BY <2>1, <2>2, <2>3
<1>1. SelectInit => Selector!SelectorInit
    BY DEF SelectInit, Selector!SelectorInit, IsSelected, Settled, Failure
<1>2. ASSUME ChangeInv, [SelectNext]_selectVars
      PROVE  [Selector!Select \/ Selector!Fail]_Selector!selectorVars
    <2> USE DEF IsSelected, Settled, Failure
    <2>1. CASE UNCHANGED selectVars
        BY <2>1 DEF selectVars, roundRobinVars, Selector!selectorVars
    <2>2. CASE SelectNext /\ stage' \notin Settled
        <3>1. stage \notin Settled
            BY <2>2, SettledIsFinal
        <3>2. args' = args
            BY <2>2 DEF SelectNext, GoTo, Start, RoundRobinSelection, RoundRobinReturns, ComputeBundles,
               MergeSmallest, TakeExtraForChange, FullyDepleted, ChangeInclFee, FeeCovered,
               FeeNotCovered, FinalChange, RoundRobinStep, SelectInput, NoImprovement, NoneLeft,
               NextRound, DropToken
        <3> QED BY <2>2, <3>1, <3>2 DEF Selector!selectorVars
    <2>3. CASE SelectNext /\ stage' \in Failure
        <3>1. stage \notin Settled
            BY <2>3, SettledIsFinal
        <3>2. args' = args
            BY <2>3 DEF SelectNext, GoTo, Start, RoundRobinSelection, RoundRobinReturns, ComputeBundles,
               MergeSmallest, TakeExtraForChange, FullyDepleted, ChangeInclFee, FeeCovered,
               FeeNotCovered, FinalChange, RoundRobinStep, SelectInput, NoImprovement, NoneLeft,
               NextRound, DropToken
        <3>3. Selector!Fail
            BY <2>3, <3>1, <3>2 DEF Selector!Fail
        <3> QED BY <3>3
    <2>4. CASE SelectNext /\ stage' = "selected"
        <3>1. FinalChange /\ stage \notin Settled
            BY <2>4, SelectedByFinalChange, SettledIsFinal
        <3>2. UNCHANGED <<args, utxoSelected, utxoRemaining, fee>>
            BY <3>1 DEF FinalChange, GoTo, KeepSelection
        <3>3. utxoSelected \subseteq Utxo /\ utxoRemaining = Utxo \ utxoSelected
              /\ args \in Instance /\ fee \in Nat
            BY <1>2 DEF ChangeInv, SelectInv, SelectionInv
        <3>4. \A i \in DOMAIN change' : IsValue(change'[i])
            <4>1. ChangeInv'
                BY <1>2, <2>4, ChangeNextInv
            <4> QED BY <4>1 DEF ChangeInv, IsBundles
        <3>5. ASSUME NEW k \in Token
              PROVE  Selector!Balanced(args, utxoSelected, change', fee, k)
            <4> DEFINE taken == Selector!Taken(args, change', fee, k)
            <4>1. /\ BundlesTotal(change', k) \in Nat
                  /\ ToPay(args, fee, k) + BundlesTotal(change', k) <= Selected(args, utxoSelected, k)
                  /\ k = Coin \/ AloneIn(args, utxoSelected, k)
                       => ToPay(args, fee, k) + BundlesTotal(change', k) = Selected(args, utxoSelected, k)
                BY <1>2, <3>1, FinalChangeBalances
            <4>2. Requested(args, k) \in Nat /\ args.deposit \in Nat
                BY <3>3, QuantitiesOfCall, ArgumentsAreTyped
            <4>3. taken = ToPay(args, fee, k) + BundlesTotal(change', k)
                BY <1>0, <3>3, <4>1, <4>2 DEF Selector!Taken, ToPay, Requested, BundlesTotal
            <4>4. Selector!Given(args, utxoSelected, k) = Selected(args, utxoSelected, k)
                BY <1>0 DEF Selector!Given, Selected
            <4>5. k = Coin \/ AloneIn(args, utxoSelected, k) \/ Selector!SharesPolicy(args, utxoSelected, k)
                BY DEF AloneIn, HeldAssets, Selector!SharesPolicy
            <4> HIDE DEF taken
            <4>6. taken <= Selected(args, utxoSelected, k)
                BY <4>1, <4>3
            <4>7. taken = Selected(args, utxoSelected, k) \/ Selector!SharesPolicy(args, utxoSelected, k)
                BY <4>1, <4>3, <4>5
            <4> QED BY <4>4, <4>6, <4>7 DEF taken, Selector!Balanced
        <3>6. Selector!Select
            BY <1>0, <2>4, <3>1, <3>2, <3>3, <3>4, <3>5 DEF Selector!Select
        <3> QED BY <3>6
    <2> QED BY <1>2, <2>1, <2>2, <2>3, <2>4
<1> QED BY <1>1, <1>2, ChangeInvHolds, PTL DEF SelectSpec, ImplementsSelector, Selector!SelectorSpec

\* The coins an output needs for a value are the same after the conversion.
LEMMA MinCoinIsConverted ==
    ASSUME NEW v, IsValue(v), NEW c \in CslValues(v)
    PROVE  MeetsMinCoin(c) <=> MeetsMinCoin(v)
BY ConvertedValue DEF MeetsMinCoin, MinCoin

\* Merging ends as soon as the last bundle has the coins it needs.  When every
\* output needs the same coins, or when no bundle is between the first and the
\* last, all of them have.
AllMeetMinCoin(b) == \A i \in DOMAIN b : MeetsMinCoin(b[i])

\* Where the last bundle meets its quantity, all do: with one constant because
\* they are sorted, with two because the first is checked.
LEMMA MergedBundlesMeetMinCoin ==
    ASSUME NEW x \in Instance, NEW S, NEW f, NEW b, WellMade(x, S, f, b),
           MergingDone(b), Sufficient(b),
           MinCoinPerPolicy = 0 \/ Len(x.outputs) <= 2
    PROVE  AllMeetMinCoin(b)
<1>1. PICK n \in Nat : n = Len(b) /\ DOMAIN b = 1..n /\ \A i \in 1..n : IsValue(b[i])
    BY BundlesAreListed DEF WellMade, IsBundles
<1>2. n <= 1 \/ n <= Len(x.outputs)
    BY <1>1 DEF WellMade
<1>3. Len(x.outputs) \in Nat
    BY InstanceAssumption, LenProperties DEF InstanceAssumption
<1>4. n > 0 => MeetsMinCoin(b[1])
    BY <1>1 DEF Sufficient
<1>5. n > 1 => MeetsMinCoin(b[n])
    BY <1>1 DEF MergingDone, Last
<1>6. CASE MinCoinPerPolicy = 0
    <2>1. SUFFICES ASSUME NEW i \in 1..n PROVE MeetsMinCoin(b[i])
        BY <1>1 DEF AllMeetMinCoin
    <2>2. \A j \in 1..n : MinCoin(b[j]) = MinCoinBase /\ MinCoinBase \in Nat /\ b[j].coins \in Nat
        <3>1. \A j \in 1..n : Cardinality(Policies(b[j])) \in Nat
            BY <1>1, PoliciesAreFinite
        <3> QED BY <1>1, <1>6, <3>1, MinCoinAssumption DEF MinCoin, MinCoinAssumption, IsValue
    <2>3. i = n \/ b[i].coins >= b[n].coins
        BY <1>1 DEF WellMade, IsDescending
    <2>4. MeetsMinCoin(b[n])
        BY <1>1, <1>4, <1>5
    <2>5. n \in 1..n
        BY <1>1
    <2> QED BY <2>2, <2>3, <2>4, <2>5 DEF MeetsMinCoin
<1>7. CASE Len(x.outputs) <= 2
    <2>1. n <= 2
        BY <1>2, <1>3, <1>7
    <2>2. \A i \in 1..n : i = 1 \/ i = n
        BY <2>1
    <2> QED BY <1>1, <1>4, <1>5, <2>2 DEF AllMeetMinCoin
<1> QED BY <1>6, <1>7

\* Every change bundle of a result holds the coins an output with its assets
\* needs (test/util/properties.ts:13-14), for the constraints of that test, where
\* all outputs need the same, and for at most two outputs whatever they need.
THEOREM ChangeIsWorthAnOutput ==
    ASSUME MinCoinPerPolicy = 0 \/ \A x \in Instance : Len(x.outputs) <= 2
    PROVE  SelectSpec => []ChangeMeetsMinCoin
<1>1. SelectInit => ChangeMeetsMinCoin
    BY DEF SelectInit, ChangeMeetsMinCoin, IsSelected
<1>2. ChangeInv /\ ChangeMeetsMinCoin /\ [SelectNext]_selectVars => ChangeMeetsMinCoin'
    <2>1. ASSUME ChangeInv, SelectNext, IsSelected'
          PROVE  ChangeMeetsMinCoin'
        <3>1. FinalChange
            BY <2>1, SelectedByFinalChange DEF IsSelected
        <3>2. WellMade(args, utxoSelected, fee, change) /\ args \in Instance
            BY <2>1, <3>1 DEF FinalChange, ChangeInv, Merging, FeeOfStage, SelectInv, SelectionInv
        <3> DEFINE b == NonEmptyBundles(change)
        <3>3. AllMeetMinCoin(change)
            BY <3>1, <3>2, MergedBundlesMeetMinCoin DEF FinalChange
        <3>4. IsBundles(b) /\ \A i \in DOMAIN b : \E j \in DOMAIN change : b[i] = change[j]
            BY <3>2, NonEmptyKeeps DEF WellMade
        <3>5. IsBundles(change') /\ DOMAIN change' = DOMAIN b
              /\ \A i \in DOMAIN change' : change'[i] \in CslValues(b[i])
            BY <3>1, <3>4, ConvertedBundles DEF FinalChange
        <3> HIDE DEF b
        <3>6. ASSUME NEW i \in DOMAIN change'
              PROVE  MeetsMinCoin(change'[i])
            <4>1. MeetsMinCoin(b[i]) /\ IsValue(b[i])
                BY <3>3, <3>4, <3>5 DEF AllMeetMinCoin, IsBundles
            <4> QED BY <3>5, <4>1, MinCoinIsConverted
        <3> QED BY <3>6 DEF ChangeMeetsMinCoin
    <2>2. CASE UNCHANGED selectVars
        BY <2>2 DEF selectVars, ChangeMeetsMinCoin, IsSelected
    <2> QED BY <2>1, <2>2 DEF ChangeMeetsMinCoin
<1> QED BY <1>1, <1>2, ChangeInvHolds, PTL DEF SelectSpec

-----------------------------------------------------------------------------
(* Why select gives up *)

AllPolicies(x) == UNION {Policies(x.utxo[u]) : u \in Utxo}

\* A bundle has at most the policies of the whole UTxO.
LEMMA HeldPolicies ==
    ASSUME NEW x \in Instance, NEW S \in SUBSET Utxo, NEW b, IsBundles(b),
           HoldOnly(b, HeldAssets(x, S)), NEW i \in DOMAIN b
    PROVE  /\ Cardinality(Policies(b[i])) \in Nat /\ Cardinality(AllPolicies(x)) \in Nat
           /\ Cardinality(Policies(b[i])) <= Cardinality(AllPolicies(x))
<1> DEFINE P == {Policy[a] : a \in Asset}
           p == [a \in Asset |-> Policy[a]]
<1>1. IsFiniteSet(P)
    <2>1. p \in Surjection(Asset, P)
        BY DEF Surjection
    <2> HIDE DEF P, p
    <2> QED BY <2>1, ValueAssumption, FS_Surjection DEF ValueAssumption
<1>2. AllPolicies(x) \subseteq P
    <2>1. ASSUME NEW u \in Utxo PROVE Policies(x.utxo[u]) \subseteq P
        BY ArgumentsAreTyped DEF IsValue, Policies
    <2> QED BY <2>1 DEF AllPolicies
<1>3. Policies(b[i]) \subseteq AllPolicies(x)
    <2>1. ASSUME NEW a \in DOMAIN b[i].assets
          PROVE  Policy[a] \in AllPolicies(x)
        <3>1. PICK u \in S : a \in DOMAIN x.utxo[u].assets
            BY DEF HoldOnly, HeldAssets
        <3> QED BY <3>1 DEF AllPolicies, Policies
    <2> QED BY <2>1 DEF Policies
<1> HIDE DEF P
<1>4. IsFiniteSet(AllPolicies(x))
    BY <1>1, <1>2, FS_Subset
<1> QED BY <1>3, <1>4, FS_Subset, FS_CardinalityType

\* A bundle that is too large takes too many of the policies of the UTxO.
LEMMA TooLargeIsJustified ==
    ASSUME NEW x \in Instance, NEW S \in SUBSET Utxo, NEW b, IsBundles(b),
           HoldOnly(b, HeldAssets(x, S)), BundleTooLarge(b)
    PROVE  Cardinality(AllPolicies(x)) > MaxBundleAssets
<1>1. PICK i \in DOMAIN b : Cardinality(Policies(b[i])) > MaxBundleAssets
    BY DEF BundleTooLarge
<1>2. /\ Cardinality(Policies(b[i])) \in Nat /\ Cardinality(AllPolicies(x)) \in Nat
      /\ Cardinality(Policies(b[i])) <= Cardinality(AllPolicies(x))
    BY HeldPolicies
<1> QED BY <1>1, <1>2, LimitAssumption DEF LimitAssumption

\* Multiplication by a natural number is monotone.
LEMMA TimesMonotone ==
    ASSUME NEW p \in Nat, NEW c \in Nat, NEW d \in Nat, c <= d
    PROVE  p * c <= p * d
<1>1. PICK e : e = d - c
    OBVIOUS
<1>2. e \in Nat /\ d = c + e
    BY <1>1
<1>3. p * (c + e) = p * c + p * e
    BY ONLY <1>2, p \in Nat, c \in Nat
<1>4. p * c \in Nat /\ p * e \in Nat
    BY ONLY <1>2, p \in Nat, c \in Nat
<1> QED BY <1>2, <1>3, <1>4

\* When merging ends with a first bundle that is not sufficient it is the only
\* one, if all outputs need the same coins or there is one output, and it holds
\* all that is left.
LEMMA DepletedIsJustified ==
    ASSUME NEW x \in Instance, NEW S \in SUBSET Utxo, NEW f \in Nat, NEW b, WellMade(x, S, f, b),
           MergingDone(b), ~ Sufficient(b),
           MinCoinPerPolicy = 0 \/ Len(x.outputs) <= 1
    PROVE  Excess(x, S, f, Coin) < MinCoinBase + MinCoinPerPolicy * Cardinality(AllPolicies(x))
<1>1. PICK n \in Nat : n = Len(b) /\ DOMAIN b = 1..n /\ \A i \in 1..n : IsValue(b[i])
    BY BundlesAreListed DEF WellMade, IsBundles
<1>2. b # <<>> /\ ~ MeetsMinCoin(b[1])
    BY DEF Sufficient
<1>3. n # 0
    BY <1>1, <1>2, BundlesAreListed DEF WellMade, IsBundles
<1>4. n > 1 => MeetsMinCoin(b[n])
    BY <1>1 DEF MergingDone, Last
<1>5. n = 1
    <2>1. CASE MinCoinPerPolicy = 0
        <3>1. SUFFICES ASSUME n > 1 PROVE FALSE
            BY <1>3
        <3>2. \A j \in 1..n : MinCoin(b[j]) = MinCoinBase /\ MinCoinBase \in Nat /\ b[j].coins \in Nat
            <4>1. \A j \in 1..n : Cardinality(Policies(b[j])) \in Nat
                BY <1>1, PoliciesAreFinite
            <4> QED BY <1>1, <2>1, <4>1, MinCoinAssumption DEF MinCoin, MinCoinAssumption, IsValue
        <3>3. b[1].coins >= b[n].coins
            BY <1>1, <3>1 DEF WellMade, IsDescending
        <3>4. 1 \in 1..n /\ n \in 1..n
            BY <3>1
        <3> QED BY <1>2, <1>4, <3>1, <3>2, <3>3, <3>4 DEF MeetsMinCoin
    <2>2. CASE Len(x.outputs) <= 1
        <3>1. Len(x.outputs) \in Nat
            BY InstanceAssumption, LenProperties DEF InstanceAssumption
        <3> QED BY <1>1, <1>3, <2>2, <3>1 DEF WellMade
    <2> QED BY <2>1, <2>2
<1>6. b[1].coins = Excess(x, S, f, Coin)
    <2>1. BundlesTotal(b, Coin) = Excess(x, S, f, Coin)
        BY DEF WellMade, AddsUp, Token
    <2>2. PICK D, j : j = 1 /\ D = {} /\ DOMAIN b = D \cup {j} /\ IsFiniteSet(D) /\ j \notin D
        BY <1>1, <1>5, FS_EmptySet
    <2>3. IsFiniteSet(D) /\ j \notin D /\ \A i \in D \cup {j} : IsValue(b[i])
        BY <1>1, <2>2
    <2>4. Total(b, D \cup {j}, Coin) = Quantity(b[j], Coin) + Total(b, D, Coin)
        BY <2>3, TotalAdd
    <2>5. Total(b, D, Coin) = 0
        BY <2>2, TotalOfNone
    <2>6. Quantity(b[1], Coin) = b[1].coins /\ b[1].coins \in Nat
        BY <2>2, <2>3 DEF Quantity, IsValue
    <2> QED BY <2>1, <2>2, <2>4, <2>5, <2>6 DEF BundlesTotal
<1>7. PICK c, d : /\ c = Cardinality(Policies(b[1])) /\ d = Cardinality(AllPolicies(x))
                  /\ c \in Nat /\ d \in Nat /\ c <= d
    BY <1>1, <1>5, HeldPolicies DEF WellMade
<1>8. PICK m, k, l : /\ m = MinCoinPerPolicy * c /\ k = MinCoinPerPolicy * d /\ l = MinCoinBase
                     /\ m \in Nat /\ k \in Nat /\ l \in Nat
    BY <1>7, MinCoinAssumption DEF MinCoinAssumption
<1>9. m <= k
    BY <1>7, <1>8, MinCoinAssumption, TimesMonotone DEF MinCoinAssumption
<1>10. b[1].coins < l + m /\ b[1].coins \in Nat
    BY <1>1, <1>2, <1>5, <1>7, <1>8 DEF MeetsMinCoin, MinCoin, IsValue
<1> QED BY <1>6, <1>7, <1>8, <1>9, <1>10

\* Every failure and what it has found out.
Justified ==
    /\ stage = "UtxoBalanceInsufficient" =>
          \/ ~ BalanceSufficient
          \/ AvailableCoin < ToPay(args, MinimumCost(Utxo, change), Coin)
    /\ stage = "UtxoFullyDepleted" =>
          \/ Cardinality(AllPolicies(args)) > MaxBundleAssets
          \/ AvailableCoin - ToPay(args, fee, Coin)
                < MinCoinBase + MinCoinPerPolicy * Cardinality(AllPolicies(args))

\* select gives up only for lack of funds (test/util/properties.ts:126-148), for
\* the constraints of that test, where all outputs need the same coins, and for
\* at most one output whatever it needs.
THEOREM GivesUpForLackOfFunds ==
    ASSUME MinCoinPerPolicy = 0 \/ \A x \in Instance : Len(x.outputs) <= 1
    PROVE  SelectSpec => []FailureIsJustified
<1>1. SelectInit => Justified
    BY DEF SelectInit, Justified
<1>2. ASSUME ChangeInv, SelectNext, stage' = "UtxoBalanceInsufficient"
      PROVE  Justified'
    <2>1. args \in Instance /\ utxoSelected \in SUBSET Utxo /\ utxoRemaining = Utxo \ utxoSelected
          /\ SelectionInv /\ IsBundles(change)
        BY <1>2 DEF ChangeInv, SelectInv, SelectionInv
    <2>2. CASE Start
        <3>1. ~ BalanceSufficient /\ args' = args
            BY <1>2, <2>2 DEF Start, GoTo
        <3>2. ~ BalanceSufficient'
            BY <3>1, BalanceIsConstant
        <3> QED BY <1>2, <3>2 DEF Justified
    <2>3. CASE FeeNotCovered
        <3>1. /\ utxoRemaining = {} /\ ~ Covers(MinimumCost(utxoSelected, change))
              /\ UNCHANGED <<args, change>>
            BY <1>2, <2>3 DEF FeeNotCovered, GoTo
        <3>2. utxoSelected = Utxo
            BY <2>1, <3>1
        <3>3. PICK f \in Nat : f = MinimumCost(Utxo, change)
            BY <2>1, CostIsNat
        <3>4. AvailableCoin < ToPay(args, f, Coin)
            <4>1. ToPay(args, f, Coin) \in Nat /\ Selected(args, Utxo, Coin) \in Nat
                BY <2>1, QuantitiesOfCall
            <4> QED BY <3>1, <3>2, <3>3, <4>1 DEF Covers, AvailableCoin
        <3>5. MinimumCost(Utxo, change)' = f /\ AvailableCoin' = AvailableCoin
            BY <3>1, <3>3 DEF MinimumCost, TxSize, AvailableCoin
        <3> QED BY <1>2, <3>1, <3>4, <3>5 DEF Justified
    <2> QED BY <1>2, <2>2, <2>3
            DEF SelectNext, GoTo, RoundRobinSelection, RoundRobinReturns, ComputeBundles, MergeSmallest,
                TakeExtraForChange, FullyDepleted, ChangeInclFee, FeeCovered, FinalChange, Merging
<1>3. ASSUME ChangeInv, SelectNext, stage' = "UtxoFullyDepleted"
      PROVE  Justified'
    <2>1. args \in Instance /\ utxoSelected \in SUBSET Utxo /\ utxoRemaining = Utxo \ utxoSelected
          /\ fee \in Nat
        BY <1>3 DEF ChangeInv, SelectInv, SelectionInv
    <2>2. FullyDepleted \/ ChangeInclFee \/ FinalChange
        BY <1>3 DEF SelectNext, GoTo, Start, RoundRobinSelection, RoundRobinReturns, ComputeBundles,
           MergeSmallest, TakeExtraForChange, FeeCovered, FeeNotCovered, Merging
    <2>3. UNCHANGED <<args, fee>> /\ Merging /\ MergingDone(change)
        BY <2>2 DEF FullyDepleted, ChangeInclFee, FinalChange, GoTo, Merging
    <2>4. WellMade(args, utxoSelected, FeeOfStage, change) /\ FeeOfStage = fee
        BY <1>3, <2>3 DEF ChangeInv, Merging, FeeOfStage, Settled, Failure
    <2>5. AllPolicies(args)' = AllPolicies(args) /\ AvailableCoin' = AvailableCoin
        BY <2>3 DEF AvailableCoin
    <2>6. CASE FullyDepleted
        <3>1. ~ Sufficient(change) /\ utxoSelected = Utxo
            BY <2>1, <2>6 DEF FullyDepleted
        <3>2. Excess(args, Utxo, fee, Coin)
                < MinCoinBase + MinCoinPerPolicy * Cardinality(AllPolicies(args))
            BY <2>1, <2>3, <2>4, <3>1, DepletedIsJustified
        <3>3. Excess(args, Utxo, fee, Coin) = AvailableCoin - ToPay(args, fee, Coin)
            BY DEF Excess, AvailableCoin
        <3> QED BY <1>3, <2>3, <2>5, <3>2, <3>3 DEF Justified
    <2>7. CASE ChangeInclFee
        <3>1. BundleTooLarge(change)
            BY <1>3, <2>7 DEF ChangeInclFee, GoTo
        <3>2. Cardinality(AllPolicies(args)) > MaxBundleAssets
            BY <2>1, <2>4, <3>1, TooLargeIsJustified DEF WellMade
        <3> QED BY <1>3, <2>5, <3>2 DEF Justified
    <2>8. CASE FinalChange
        <3> DEFINE b == NonEmptyBundles(change)
        <3>1. BundleTooLarge(b)
            BY <1>3, <2>8 DEF FinalChange, GoTo
        <3>2. IsBundles(b) /\ \A i \in DOMAIN b : \E j \in DOMAIN change : b[i] = change[j]
            BY <2>4, NonEmptyKeeps DEF WellMade
        <3> HIDE DEF b
        <3>3. HoldOnly(b, HeldAssets(args, utxoSelected))
            BY <2>4, <3>2 DEF WellMade, HoldOnly
        <3>4. Cardinality(AllPolicies(args)) > MaxBundleAssets
            BY <2>1, <3>1, <3>2, <3>3, TooLargeIsJustified
        <3> QED BY <1>3, <2>5, <3>4 DEF Justified
    <2> QED BY <2>2, <2>6, <2>7, <2>8
<1>4. ChangeInv /\ Justified /\ [SelectNext]_selectVars => Justified'
    <2>1. CASE UNCHANGED selectVars
        <3>1. UNCHANGED <<args, stage, change, fee>>
            BY <2>1 DEF selectVars
        <3> QED BY <3>1, BalanceIsConstant DEF Justified, MinimumCost, TxSize, AvailableCoin
    <2>2. stage' \notin {"UtxoBalanceInsufficient", "UtxoFullyDepleted"} => Justified'
        BY DEF Justified
    <2> QED BY <1>2, <1>3, <2>1, <2>2
<1>5. Justified => FailureIsJustified
    BY DEF Justified, FailureIsJustified, AllPolicies
<1> QED BY <1>1, <1>4, <1>5, ChangeInvHolds, PTL DEF SelectSpec

==============================================================================
