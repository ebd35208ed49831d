------------------------- MODULE MC_PrototypeWallet -------------------------
(***************************************************************************)
(* Batches of two addresses and payments that may skip two unused ones:    *)
(* less than a batch, or all of one.  Up to two transactions of up to two  *)
(* outputs, between and during the scans of both types.  For the gaps that *)
(* add up, three transactions of one output, none of which skips a batch.  *)
(***************************************************************************)
EXTENDS PrototypeWallet, TLC

mcScanGap == 2
mcSpread == 2
mcMaxTx == 2
mcMaxOutputs == 2

mcSmallSpread == 1
mcThreeTx == 3
mcOneOutput == 1
=============================================================================
