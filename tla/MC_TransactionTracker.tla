----------------------- MODULE MC_TransactionTracker -----------------------
(***************************************************************************)
(* Small instances of TransactionTracker: two transactions that spend      *)
(* different outputs, one of them without a ttl in mcTtl, and three calls. *)
(***************************************************************************)
EXTENDS TransactionTracker, TLC

CONSTANTS t1, t2, i1, i2, c1, c2, c3

mcTx == {t1, t2}
mcTxIn == {i1, i2}
mcInputs == (t1 :> {i1}) @@ (t2 :> {i2})
mcOutputs == [t \in mcTx |-> {}]
mcWithdraws == [t \in mcTx |-> 0]
mcTtl == (t1 :> 1) @@ (t2 :> 2)
mcTtlMissing == (t1 :> 1) @@ (t2 :> 0)
mcGenesis == mcTxIn
mcCall == {c1, c2, c3}
mcTwoCalls == {c1, c2}

Symmetry == Permutations(mcCall)
=============================================================================
