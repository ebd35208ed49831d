------------------------- MODULE MC_BalanceTracker -------------------------
(***************************************************************************)
(* Small instances of BalanceTracker: two transactions that both spend i1, *)
(* of which t1 withdraws a reward, and two handlers.                       *)
(***************************************************************************)
EXTENDS BalanceTracker, TLC

CONSTANTS t1, t2, i1, i2, o1, h1, h2

mcTx == {t1, t2}
mcTxIn == {i1, i2, o1}
mcInputs == (t1 :> {i1}) @@ (t2 :> {i1, i2})
mcOutputs == (t1 :> {o1}) @@ (t2 :> {})
mcWithdraws == (t1 :> 1) @@ (t2 :> 0)
mcTtl == [t \in mcTx |-> 2]
mcGenesis == {i1, i2}
mcHandler == {h1, h2}

Symmetry == Permutations(mcHandler)
=============================================================================
