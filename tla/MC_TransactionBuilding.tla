----------------------- MODULE MC_TransactionBuilding -----------------------
(***************************************************************************)
(* Requests of up to two certificates and two withdrawals, over two        *)
(* entries of the repository.                                              *)
(***************************************************************************)
EXTENDS TransactionBuilding

CONSTANTS r1, r2

mcRewardAddress == {r1, r2}
=============================================================================
