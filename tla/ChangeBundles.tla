---------------------------- MODULE ChangeBundles ----------------------------
(***************************************************************************)
(* The change of a selection (cip2/src/RoundRobinRandomImprove/change.ts)  *)
(* as a function of the call's arguments x, the selected entries S and the *)
(* fee: one bundle per output, the rounding remainders, the tokens no      *)
(* output asked for, and the merging of bundles that are too small.        *)
(***************************************************************************)
EXTENDS RoundRobin

CONSTANTS
    MinCoinBase,      \* smallest coin quantity of an output without assets
    MinCoinPerPolicy  \* and what each policy in it adds

ASSUME MinCoinAssumption == MinCoinBase \in Nat /\ MinCoinPerPolicy \in Nat

NoAssets == [a \in {} |-> 0]

\* The members of S one after another, each related to those that follow it.
InOrder(S, related) ==
    CHOOSE s \in [1..Cardinality(S) -> S] :
        IsInjective(s) /\ \A i, j \in DOMAIN s : i < j => <<s[i], s[j]>> \in related

Selected(x, S, k) == Total(x.utxo, S, k) + IF k = Coin THEN x.input ELSE 0

\* What has to be paid of token k: for the coin also the fee and the deposit.
ToPay(x, fee, k) ==
    Requested(x, k) + IF k = Coin THEN fee + x.deposit ELSE 0

Excess(x, S, fee, k) == Selected(x, S, k) - ToPay(x, fee, k)

-----------------------------------------------------------------------------
(* computeRequestedAssetChangeBundles *)

\* Coins are divided in proportion to all that is paid, assets in proportion
\* to what is selected.
Share(x, S, fee, i, k) ==
    LET divisor == IF k = Coin THEN ToPay(x, fee, k) ELSE Selected(x, S, k)
    IN  IF divisor = 0 THEN 0
        ELSE (Excess(x, S, fee, k) * Quantity(x.outputs[i], k)) \div divisor

\* What the divisions leave over.
Lost(x, S, fee, k) ==
    Excess(x, S, fee, k)
        - SumFunctionOnSet([i \in DOMAIN x.outputs |-> Share(x, S, fee, i, k)],
                           DOMAIN x.outputs)

\* The bundle the remainder is added to: the first, or the first with the asset.
FirstWith(x, k) ==
    Min({i \in DOMAIN x.outputs : k = Coin \/ k \in DOMAIN x.outputs[i].assets})

BundleQuantity(x, S, fee, i, k) ==
    Share(x, S, fee, i, k) + IF i = FirstWith(x, k) THEN Lost(x, S, fee, k) ELSE 0

RequestedBundles(x, S, fee) ==
    IF x.outputs # <<>>
    THEN [i \in DOMAIN x.outputs |->
            [coins |-> BundleQuantity(x, S, fee, i, Coin),
             assets |-> [a \in DOMAIN x.outputs[i].assets |->
                            BundleQuantity(x, S, fee, i, a)]]]
    ELSE IF Lost(x, S, fee, Coin) > 0
    THEN <<[coins |-> Lost(x, S, fee, Coin), assets |-> NoAssets]>>
    ELSE <<>>

-----------------------------------------------------------------------------
(* redistributeLeftoverAssets *)

LeftoverAssets(x, S) ==
    (UNION {DOMAIN x.utxo[u].assets : u \in S}) \ OutputAssets(x)

\* The quantities of asset a, largest first.
LeftoverQuantities(x, S, a) ==
    LET holders == {u \in S : a \in DOMAIN x.utxo[u].assets}
        q(u) == Quantity(x.utxo[u], a)
        order == InOrder(holders, {e \in holders \X holders : q(e[1]) >= q(e[2])})
    IN  [n \in DOMAIN order |-> q(order[n])]

\* Mutant of LeftoverShare: what does not get a bundle of its own is dropped.
LeftoverShareOnly(q, i, n) == q[i]

\* What bundle i of n gets: one quantity each, the last one all that are left.
LeftoverShare(q, i, n) ==
    IF i < n THEN q[i] ELSE SumFunctionOnSet(q, i..Len(q))

WithLeftovers(x, S, bundles) ==
    LET leftovers == LeftoverAssets(x, S)
        start == IF bundles = <<>> /\ leftovers # {}
                 THEN <<[coins |-> 0, assets |-> NoAssets]>> ELSE bundles
        Gets(i) == {a \in leftovers : i <= Len(LeftoverQuantities(x, S, a))}
    IN  [i \in DOMAIN start |->
            [coins |-> start[i].coins,
             assets |-> [a \in Gets(i) \cup DOMAIN start[i].assets |->
                            IF a \in Gets(i)
                            THEN LeftoverShare(LeftoverQuantities(x, S, a), i, Len(start))
                            ELSE start[i].assets[a]]]]

-----------------------------------------------------------------------------
(* coalesceChangeBundlesForMinCoinRequirement *)

\* computeMinimumCoinQuantity of the converted bundle.
MinCoin(v) == MinCoinBase + MinCoinPerPolicy * Cardinality(Policies(v))
MeetsMinCoin(v) == v.coins >= MinCoin(v)

\* orderBy coins, largest first; equal ones keep their order.
LargestFirst(bundles) ==
    LET before == {e \in (DOMAIN bundles) \X (DOMAIN bundles) :
                      \/ bundles[e[1]].coins > bundles[e[2]].coins
                      \/ bundles[e[1]].coins = bundles[e[2]].coins /\ e[1] < e[2]}
        order == InOrder(DOMAIN bundles, before)
    IN  [n \in DOMAIN order |-> bundles[order[n]]]

\* The last two bundles become one.
MergeLast(bundles) ==
    LET n == Len(bundles)
    IN  LargestFirst([i \in 1..(n - 1) |->
            IF i = n - 1 THEN Coalesce(bundles[n - 1], bundles[n]) ELSE bundles[i]])

\* The bundles before they are merged.
UnmergedBundles(x, S, fee) ==
    LargestFirst(WithLeftovers(x, S, RequestedBundles(x, S, fee)))

\* The while loop ends: one bundle is left or the last has the coins it needs.
MergingDone(bundles) == Len(bundles) > 1 => MeetsMinCoin(Last(bundles))

\* What the function looks at then: the first bundle only.
Sufficient(bundles) == bundles # <<>> => MeetsMinCoin(Head(bundles))

IsEmptyBundle(v) == v.coins = 0 /\ DOMAIN v.assets = {}
NonEmptyBundles(bundles) ==
    LET kept == {i \in DOMAIN bundles : ~ IsEmptyBundle(bundles[i])}
        order == InOrder(kept, {e \in kept \X kept : e[1] < e[2]})
    IN  [n \in DOMAIN order |-> bundles[order[n]]]
=============================================================================
