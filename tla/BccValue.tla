------------------------------ MODULE BccValue ------------------------------
(***************************************************************************)
(* Bcc.Value (packages/core): an amount of coins and a map from asset to   *)
(* quantity whose keys may be a part of the assets, with the helpers that  *)
(* packages/core and cip2/src/RoundRobinRandomImprove/util.ts define on    *)
(* it, and its conversion to the serialization library's Value.            *)
(***************************************************************************)
EXTENDS Integers, FiniteSets, Functions

CONSTANTS
    Asset,   \* asset identifiers
    Coin,    \* the entropic, counted like one more token
    Policy   \* Policy[a]: the policy (script hash) of asset a

ASSUME ValueAssumption ==
    IsFiniteSet(Asset) /\ Coin \notin Asset /\ Asset \subseteq DOMAIN Policy

Token == Asset \cup {Coin}

IsValue(v) ==
    /\ v.coins \in Nat
    /\ DOMAIN v.assets \subseteq Asset
    /\ \A a \in DOMAIN v.assets : v.assets[a] \in Nat

\* cslToCore.value leaves out the assets with quantity zero.
IsParsedValue(v) ==
    IsValue(v) /\ \A a \in DOMAIN v.assets : v.assets[a] > 0

\* What the quantity selectors read from one value: `assets?.[id] || 0n`.
Quantity(v, k) ==
    IF k = Coin THEN v.coins
    ELSE IF k \in DOMAIN v.assets THEN v.assets[k] ELSE 0

\* assetQuantitySelector, getCoinQuantity: the sum of token k over the values
\* values[x] of the members x of S.
Total(values, S, k) ==
    SumFunctionOnSet([x \in S |-> Quantity(values[x], k)], S)

\* coalesceValueQuantities([v, w]), with the keys of both maps.
Coalesce(v, w) ==
    [coins |-> v.coins + w.coins,
     assets |-> [a \in DOMAIN v.assets \cup DOMAIN w.assets |->
                    Quantity(v, a) + Quantity(w, a)]]

\* coreToCsl.value calls multiasset.insert(policy, {name: amount}) once per
\* asset: the insertion replaces what was there under the same policy, so one
\* asset per policy is left (the last of the map's keys, whose order is the
\* order in which the map was filled).
Policies(v) == {Policy[a] : a \in DOMAIN v.assets}

CslValues(v) ==
    {[coins |-> v.coins, assets |-> Restrict(v.assets, K)] :
        K \in {K \in SUBSET DOMAIN v.assets :
                  \A p \in Policies(v) : \E a \in K :
                      {b \in K : Policy[b] = p} = {a}}}
=============================================================================
