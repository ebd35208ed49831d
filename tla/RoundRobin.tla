----------------------------- MODULE RoundRobin -----------------------------
(***************************************************************************)
(* roundRobinSelection (cip2/src/RoundRobinRandomImprove/roundRobin.ts):   *)
(* the tokens still to cover are visited in turn; a token takes a random   *)
(* input that improves its selected quantity, and leaves the list when the *)
(* input drawn does not, or when no input with it is left.                 *)
(*                                                                         *)
(* The arguments of the call are a member of Instance, chosen initially    *)
(* and never changed.  The list is an array that loses entries while an    *)
(* iterator over it is running; tokenIdx is the iterator's position.       *)
(***************************************************************************)
EXTENDS BccValue, Sequences, SequencesExt

CONSTANTS
    Utxo,      \* entries of the available UTxO set
    Instance   \* arguments: [utxo, outputs, input, deposit, tokens]

VARIABLES
    args,            \* the arguments of the call
    utxoSelected,
    utxoRemaining,
    tokensRemaining, \* tokens still to cover, in order
    tokenIdx         \* position of the iterator over tokensRemaining

roundRobinVars == <<utxoSelected, utxoRemaining, tokensRemaining, tokenIdx>>

\* The output totals of listTokensWithin and of assertIsBalanceSufficient.
Requested(x, k) == Total(x.outputs, DOMAIN x.outputs, k)

\* uniqueOutputAssetIDs
OutputAssets(x) == UNION {DOMAIN x.outputs[i].assets : i \in DOMAIN x.outputs}

\* The tokens of listTokensWithin: the outputs' assets, then the coin.
IsTokenList(s, x) ==
    /\ s \in Seq(Token) /\ Len(s) > 0 /\ Last(s) = Coin
    /\ ToSet(s) = OutputAssets(x) \cup {Coin}
    /\ IsInjective(s)

InstanceAssumption ==
    /\ IsFiniteSet(Utxo)
    /\ \A x \in Instance :
          /\ x.input \in Nat /\ x.deposit \in Nat
          /\ x.outputs \in Seq(Range(x.outputs))
          /\ \A u \in Utxo : IsParsedValue(x.utxo[u])
          /\ \A i \in DOMAIN x.outputs : IsParsedValue(x.outputs[i])
          /\ IsTokenList(x.tokens, x)
ASSUME InstanceAssumption

\* The implicit quantities count for the coin only.
ImplicitInput(k) == IF k = Coin THEN args.input ELSE 0
ImplicitDeposit(k) == IF k = Coin THEN args.deposit ELSE 0

MinimumTarget(k) == Requested(args, k) + ImplicitDeposit(k)
SelectedQuantity(S, k) == Total(args.utxo, S, k) + ImplicitInput(k)

\* Mutant of BalanceSufficient: only the coins are looked at.
CoinBalanceSufficient == MinimumTarget(Coin) <= SelectedQuantity(Utxo, Coin)

\* assertIsBalanceSufficient does not throw.
BalanceSufficient ==
    \A k \in OutputAssets(args) \cup {Coin} :
        MinimumTarget(k) <= SelectedQuantity(Utxo, k)

\* filterUtxo of a token; the coin takes any entry.
FilterUtxo(k) ==
    {u \in utxoRemaining : k = Coin \/ Quantity(args.utxo[u], k) > 0}

Distance(a, b) == IF a < b THEN b - a ELSE a - b

\* improvesSelection.  getQuantity adds the implicit input also to the
\* quantity of the single input u.
ImprovesSelection(k, u) ==
    LET old == SelectedQuantity(utxoSelected, k)
        new == old + SelectedQuantity({u}, k)
        ideal == 2 * MinimumTarget(k)
    IN  \/ old < MinimumTarget(k)
        \/ Distance(ideal, new) < Distance(ideal, old)

-----------------------------------------------------------------------------
RoundRobinInit ==
    /\ args \in Instance
    /\ utxoSelected = {}
    /\ utxoRemaining = Utxo
    /\ tokensRemaining = args.tokens
    /\ tokenIdx = 1

CurrentToken == tokensRemaining[tokenIdx]
IteratorHasNext == tokenIdx <= Len(tokensRemaining)

\* The input drawn for the token improves the selection.
SelectInput(u) ==
    /\ IteratorHasNext
    /\ u \in FilterUtxo(CurrentToken)
    /\ ImprovesSelection(CurrentToken, u)
    /\ utxoSelected' = utxoSelected \cup {u}
    /\ utxoRemaining' = utxoRemaining \ {u}
    /\ tokenIdx' = tokenIdx + 1
    /\ UNCHANGED <<args, tokensRemaining>>

\* Mutant of DropToken: the entry after the token is spliced out.
DropNextToken ==
    /\ tokensRemaining' = IF tokenIdx < Len(tokensRemaining)
                          THEN RemoveAt(tokensRemaining, tokenIdx + 1)
                          ELSE RemoveAt(tokensRemaining, tokenIdx)
    /\ tokenIdx' = tokenIdx + 1
    /\ UNCHANGED <<args, utxoSelected, utxoRemaining>>

\* The entry is spliced out of the array and the iterator moves on, past the
\* token that has just taken the removed one's place.
DropToken ==
    /\ tokensRemaining' = RemoveAt(tokensRemaining, tokenIdx)
    /\ tokenIdx' = tokenIdx + 1
    /\ UNCHANGED <<args, utxoSelected, utxoRemaining>>

\* The input drawn does not improve the selection.
NoImprovement(u) ==
    /\ IteratorHasNext
    /\ u \in FilterUtxo(CurrentToken)
    /\ ~ ImprovesSelection(CurrentToken, u)
    /\ DropToken

\* Mutant of NoneLeft: a token without inputs stays in the list.
NoneLeftKeepsToken ==
    /\ IteratorHasNext
    /\ FilterUtxo(CurrentToken) = {}
    /\ tokenIdx' = tokenIdx + 1
    /\ UNCHANGED <<args, utxoSelected, utxoRemaining, tokensRemaining>>

\* No input with the token is left.
NoneLeft ==
    /\ IteratorHasNext
    /\ FilterUtxo(CurrentToken) = {}
    /\ DropToken

\* The for loop ends and the while loop starts it again.
NextRound ==
    /\ ~ IteratorHasNext
    /\ tokensRemaining # <<>>
    /\ tokenIdx' = 1
    /\ UNCHANGED <<args, utxoSelected, utxoRemaining, tokensRemaining>>

RoundRobinStep ==
    \/ \E u \in Utxo : SelectInput(u) \/ NoImprovement(u)
    \/ NoneLeft
    \/ NextRound

RoundRobinDone == tokensRemaining = <<>>

\* The selection by itself, under the precondition its comment states.
Init == RoundRobinInit /\ BalanceSufficient
Next == RoundRobinStep
vars == <<args, roundRobinVars>>

Spec == Init /\ [][Next]_vars
FairSpec == Spec /\ WF_vars(Next)

-----------------------------------------------------------------------------
(* Properties *)

\* The state has the shape the code gives it: entries of the UTxO, tokens of
\* the call, and a position that is never more than one past the list's start
\* length.
RoundRobinTypeOK ==
    /\ utxoSelected \subseteq Utxo
    /\ utxoRemaining \subseteq Utxo
    /\ tokensRemaining \in Seq(Token)
    /\ ToSet(tokensRemaining) \subseteq ToSet(args.tokens)
    /\ tokenIdx \in 1..(Len(args.tokens) + 1)

\* No entry of the UTxO is lost or used twice by the two lists, whatever is
\* selected, in the rounds and later (test/util/properties.ts:89-95).
ConservationOfUtxo ==
    /\ utxoSelected \cup utxoRemaining = Utxo
    /\ utxoSelected \cap utxoRemaining = {}

\* roundRobin.ts:90-95 and 98-103: whenever a token is no longer considered,
\* the inputs selected so far and the implicit input cover its minimum target,
\* and they go on doing so; once no token is left everything is covered.
DroppedIsCovered ==
    \A k \in ToSet(args.tokens) \ ToSet(tokensRemaining) :
        SelectedQuantity(utxoSelected, k) >= MinimumTarget(k)

\* The nested loops end, although the iterator skips a token every time an
\* entry is removed before it.
RoundRobinEnds == <>RoundRobinDone
=============================================================================
