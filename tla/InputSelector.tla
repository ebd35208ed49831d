--------------------------- MODULE InputSelector ---------------------------
(***************************************************************************)
(* What select of an InputSelector promises (cip2/src/types.ts, with the   *)
(* properties of cip2/test/util/properties.ts): it settles once; a result  *)
(* splits the UTxO into inputs and remaining entries, and for every token  *)
(* the outputs, the deposit, the fee and the change take no more than the  *)
(* inputs and the implicit input give.  They take exactly that, unless the *)
(* token is one of several assets of one policy in the inputs: the         *)
(* conversion of the change keeps one asset per policy.                    *)
(***************************************************************************)
EXTENDS BccValue

CONSTANTS Utxo, Failure   \* Failure: the reasons of an InputSelectionError

VARIABLES
    args,      \* [utxo, outputs, input, deposit]
    outcome,   \* "pending", "selected" or a failure
    inputs, remaining, change, fee   \* the result; empty before

selectorVars == <<args, outcome, inputs, remaining, change, fee>>

SelectorInit ==
    /\ outcome = "pending"
    /\ inputs = {} /\ remaining = {} /\ change = <<>> /\ fee = 0

Given(x, ins, k) == Total(x.utxo, ins, k) + IF k = Coin THEN x.input ELSE 0

Taken(x, ch, f, k) ==
    Total(x.outputs, DOMAIN x.outputs, k) + Total(ch, DOMAIN ch, k)
        + IF k = Coin THEN f + x.deposit ELSE 0

\* The inputs hold another asset of k's policy.
SharesPolicy(x, ins, k) ==
    \E u \in ins : \E a \in (DOMAIN x.utxo[u].assets) \ {k} :
        k # Coin /\ Policy[a] = Policy[k]

\* Correctness of change: nothing is created, and what is lost shares its policy.
Balanced(x, ins, ch, f, k) ==
    /\ Taken(x, ch, f, k) <= Given(x, ins, k)
    /\ Taken(x, ch, f, k) = Given(x, ins, k) \/ SharesPolicy(x, ins, k)

Select ==
    /\ outcome = "pending" /\ outcome' = "selected"
    /\ args' = args
    /\ inputs' \subseteq Utxo
    /\ remaining' = Utxo \ inputs'
    /\ \A i \in DOMAIN change' : IsValue(change'[i])
    /\ \A k \in Token : Balanced(args, inputs', change', fee', k)

Fail ==
    /\ outcome = "pending" /\ outcome' \in Failure
    /\ UNCHANGED <<args, inputs, remaining, change, fee>>

SelectorSpec == SelectorInit /\ [][Select \/ Fail]_selectorVars
=============================================================================
