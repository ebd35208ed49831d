----------------------------- MODULE MC_Wallet -----------------------------
(***************************************************************************)
(* Small instances of Wallet: two transactions that share an output, or    *)
(* one alone, and two calls of submitTx.                                   *)
(***************************************************************************)
EXTENDS Wallet, TLC

CONSTANTS t1, t2, i1, i2, c1, c2

mcTx == {t1, t2}
mcTxIn == {i1, i2}
mcInputs == [t \in Tx |-> IF t = t1 THEN {i1} ELSE {i1, i2}]
mcOutputs == [t \in Tx |-> {}]
mcWithdraws == [t \in Tx |-> 0]
mcTtl == [t \in Tx |-> 1]
mcGenesis == {i1, i2}
mcCall == {c1, c2}
mcOneTx == {t1}

Symmetry == Permutations(mcCall)
=============================================================================
