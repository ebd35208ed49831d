--------------------------- MODULE InputSelection ---------------------------
(***************************************************************************)
(* select of roundRobinRandomImprove (cip2/src/RoundRobinRandomImprove):   *)
(* check the balance, select in round-robin fashion, compute the change,   *)
(* await the fee of that selection, compute the change again without the   *)
(* fee and check the size.  Wherever the entries selected so far are not   *)
(* enough a random extra entry is taken.  The constraints are those of     *)
(* cip2/src/selectionConstraints.ts over an abstract transaction size.     *)
(***************************************************************************)
EXTENDS ChangeBundles

CONSTANTS
    FeeConstant, FeeCoefficient, \* the linear fee of the ledger
    MaxBundleAssets,             \* tokens that fit into one value
    MaxTxSize,                   \* size the ledger accepts
    DefaultLimit,                \* is computeSelectionLimit the constraint?
    FixedLimit                   \* else the limit the caller has set

ASSUME FeeAssumption == FeeConstant \in Nat /\ FeeCoefficient \in Nat
ASSUME LimitAssumption == MaxBundleAssets \in Nat /\ MaxTxSize \in Nat /\ FixedLimit \in Nat

VARIABLES
    stage,   \* where the call is; at the end "selected" or the failure
    change,  \* the change bundles computed last
    fee      \* the fee of the selection

selectVars == <<args, roundRobinVars, stage, change, fee>>

Failure == {"UtxoBalanceInsufficient", "UtxoFullyDepleted",
            "MaximumInputCountExceeded"}
Settled == {"selected"} \cup Failure

\* One unit per input, output, change value and policy.
SizeOf(v) == 1 + Cardinality(Policies(v))
SizesOf(values) ==
    SumFunctionOnSet([i \in DOMAIN values |-> SizeOf(values[i])], DOMAIN values)
TxSize(S, values) ==
    Cardinality(S) + SizesOf(args.outputs) + SizesOf(values)

\* computeMinimumCost
MinimumCost(S, values) == FeeConstant + FeeCoefficient * TxSize(S, values)

\* computeSelectionLimit, or the limit the caller has chosen.
SelectionLimit(S, values) ==
    IF ~ DefaultLimit THEN FixedLimit
    ELSE IF TxSize(S, values) <= MaxTxSize THEN Cardinality(S)
    ELSE Cardinality(S) + 1

\* changeBundlesToValues throws.
BundleTooLarge(bundles) ==
    \E i \in DOMAIN bundles : Cardinality(Policies(bundles[i])) > MaxBundleAssets

-----------------------------------------------------------------------------
SelectInit ==
    /\ RoundRobinInit
    /\ stage = "start"
    /\ change = <<>>
    /\ fee = 0

GoTo(s) == stage' = s /\ UNCHANGED <<args, tokensRemaining, tokenIdx>>
KeepSelection == UNCHANGED <<utxoSelected, utxoRemaining>>

Start ==
    /\ stage = "start"
    /\ GoTo(IF BalanceSufficient THEN "roundRobin" ELSE "UtxoBalanceInsufficient")
    /\ KeepSelection
    /\ UNCHANGED <<change, fee>>

RoundRobinSelection ==
    /\ stage = "roundRobin"
    /\ RoundRobinStep
    /\ UNCHANGED <<stage, change, fee>>

RoundRobinReturns ==
    /\ stage = "roundRobin"
    /\ RoundRobinDone
    /\ GoTo("changeInclFee")
    /\ KeepSelection
    /\ UNCHANGED <<change, fee>>

\* pickExtraRandomUtxo: an entry with coins only if there is one.
CoinOnly == {u \in utxoRemaining : DOMAIN args.utxo[u].assets = {}}
PickExtraRandomUtxo ==
    \E u \in IF CoinOnly # {} THEN CoinOnly ELSE utxoRemaining :
        /\ utxoSelected' = utxoSelected \cup {u}
        /\ utxoRemaining' = utxoRemaining \ {u}

\* computeChangeBundles, first without and in the end with the fee: the
\* bundles before the loop that merges them.
ComputeBundles ==
    /\ stage \in {"changeInclFee", "change"}
    /\ change' = UnmergedBundles(args, utxoSelected, IF stage = "change" THEN fee ELSE 0)
    /\ GoTo(IF stage = "change" THEN "merge" ELSE "mergeInclFee")
    /\ KeepSelection
    /\ UNCHANGED fee

Merging == stage \in {"mergeInclFee", "merge"}

MergeSmallest ==
    /\ Merging
    /\ ~ MergingDone(change)
    /\ change' = MergeLast(change)
    /\ UNCHANGED <<args, roundRobinVars, stage, fee>>

\* The bundles do not reach the smallest quantity: computeChangeBundles calls
\* itself with an extra entry, or throws if there is none.
TakeExtraForChange ==
    /\ Merging /\ MergingDone(change) /\ ~ Sufficient(change)
    /\ utxoRemaining # {}
    /\ PickExtraRandomUtxo
    /\ GoTo(IF stage = "merge" THEN "change" ELSE "changeInclFee")
    /\ UNCHANGED <<change, fee>>

FullyDepleted ==
    /\ Merging /\ MergingDone(change) /\ ~ Sufficient(change)
    /\ utxoRemaining = {}
    /\ GoTo("UtxoFullyDepleted")
    /\ KeepSelection
    /\ UNCHANGED <<change, fee>>

\* changeInclFee is computed, and the fee of the selection with it awaited.
ChangeInclFee ==
    /\ stage = "mergeInclFee" /\ MergingDone(change) /\ Sufficient(change)
    /\ change' = NonEmptyBundles(change)
    /\ GoTo(IF BundleTooLarge(change) THEN "UtxoFullyDepleted" ELSE "fee")
    /\ KeepSelection
    /\ UNCHANGED fee

\* The selected entries cover outputs, fee and deposit.
Covers(f) == ToPay(args, f, Coin) <= Selected(args, utxoSelected, Coin)

FeeCovered ==
    LET f == MinimumCost(utxoSelected, change)
    IN  /\ stage = "fee"
        /\ Covers(f)
        /\ fee' = f
        /\ GoTo("change")
        /\ KeepSelection
        /\ UNCHANGED change

\* Mutant of FeeNotCovered: no extra entry is tried.
FeeNotCoveredFails ==
    /\ stage = "fee"
    /\ ~ Covers(MinimumCost(utxoSelected, change))
    /\ GoTo("UtxoBalanceInsufficient")
    /\ UNCHANGED <<utxoSelected, utxoRemaining, change, fee>>

\* Everything starts again with an extra entry, or there is none.
FeeNotCovered ==
    /\ stage = "fee"
    /\ ~ Covers(MinimumCost(utxoSelected, change))
    /\ \/ utxoRemaining = {} /\ KeepSelection /\ GoTo("UtxoBalanceInsufficient")
       \/ utxoRemaining # {} /\ PickExtraRandomUtxo /\ GoTo("changeInclFee")
    /\ UNCHANGED <<change, fee>>

\* The final change is converted to values, and select checks the limit.
FinalChange ==
    LET bundles == NonEmptyBundles(change)
        values == {CslValues(bundles[i]) : i \in DOMAIN bundles}
    IN  /\ stage = "merge" /\ MergingDone(change) /\ Sufficient(change)
        /\ change' \in {c \in [DOMAIN bundles -> UNION values] :
                            \A i \in DOMAIN bundles : c[i] \in CslValues(bundles[i])}
        /\ GoTo(IF BundleTooLarge(bundles) THEN "UtxoFullyDepleted"
                ELSE IF Cardinality(utxoSelected) > SelectionLimit(utxoSelected, bundles)
                THEN "MaximumInputCountExceeded" ELSE "selected")
        /\ KeepSelection
        /\ UNCHANGED fee

SelectNext ==
    \/ Start \/ RoundRobinSelection \/ RoundRobinReturns
    \/ ComputeBundles \/ MergeSmallest \/ TakeExtraForChange \/ FullyDepleted
    \/ ChangeInclFee \/ FeeCovered \/ FeeNotCovered \/ FinalChange

SelectSpec == SelectInit /\ [][SelectNext]_selectVars
FairSelectSpec == SelectSpec /\ WF_selectVars(SelectNext)

-----------------------------------------------------------------------------
(* Properties *)

SelectTypeOK ==
    /\ RoundRobinTypeOK
    /\ stage \in {"start", "roundRobin", "changeInclFee", "mergeInclFee", "fee",
                  "change", "merge"} \cup Settled
    /\ \A i \in DOMAIN change : IsValue(change[i])
    /\ fee \in Nat

IsSelected == stage = "selected"

\* The promise of InputSelector: the result of select, whatever is drawn,
\* splits the UTxO and balances for every token.
Selector == INSTANCE InputSelector WITH
    outcome <- IF stage \in Settled THEN stage ELSE "pending",
    inputs <- IF IsSelected THEN utxoSelected ELSE {},
    remaining <- IF IsSelected THEN utxoRemaining ELSE {},
    change <- IF IsSelected THEN change ELSE <<>>,
    fee <- IF IsSelected THEN fee ELSE 0

ImplementsSelector == Selector!SelectorSpec

\* test/util/properties.ts:126-148: select gives up only for lack of funds.
\* Either all entries together do not pay the outputs, the deposit and the
\* cost of a transaction that spends them all, or what is left after that
\* is less than an output may hold, or a bundle is too large.
AvailableCoin == Selected(args, Utxo, Coin)

FailureIsJustified ==
    /\ stage = "UtxoBalanceInsufficient" =>
          \/ ~ BalanceSufficient
          \/ AvailableCoin < ToPay(args, MinimumCost(Utxo, change), Coin)
    /\ stage = "UtxoFullyDepleted" =>
          \/ Cardinality(UNION {Policies(args.utxo[u]) : u \in Utxo}) > MaxBundleAssets
          \/ AvailableCoin - ToPay(args, fee, Coin)
                < MinCoinBase + MinCoinPerPolicy * Cardinality(UNION {Policies(args.utxo[u]) : u \in Utxo})

\* test/util/properties.ts:13-14: every change bundle of a result holds at
\* least the coins an output with its assets needs.
ChangeMeetsMinCoin ==
    IsSelected => \A i \in DOMAIN change : MeetsMinCoin(change[i])

\* test/util/properties.ts:81-87: for every token the inputs pay exactly the
\* outputs, the deposit, the fee and the change.
CorrectnessOfChange ==
    IsSelected =>
        \A k \in Token :
            Selected(args, utxoSelected, k)
                = ToPay(args, fee, k) + Total(change, DOMAIN change, k)

\* change.ts:107 divides by the selected quantity of every asset of the outputs:
\* none is zero, because the balance check and the round-robin selection cover
\* every asset and an output holds no asset with quantity zero.  select rejects
\* with an InputSelectionError only (types.ts:92), never with a RangeError.
NoDivisionByZero ==
    stage \in {"changeInclFee", "change"} =>
        \A a \in OutputAssets(args) : Selected(args, utxoSelected, a) > 0

\* Every call of select settles.
EverySelectSettles == <>(stage \in Settled)

\* change.ts:307-309: the fee computed for the change that includes the fee
\* covers the fee of the final selection.
FeeCoversSelection ==
    IsSelected => fee >= MinimumCost(utxoSelected, change)

\* selectionConstraints.ts:65-68: a selection whose transaction is larger than
\* the ledger accepts is refused.
SelectedFitsTransaction ==
    IsSelected => TxSize(utxoSelected, change) <= MaxTxSize
=============================================================================
