------------------------- MODULE MC_GoldenGenerator -------------------------
(***************************************************************************)
(* One of two addresses is tracked; t1 pays it twice, and t2 and t3 spend  *)
(* the same output on different forks; blocks of three eras.               *)
(***************************************************************************)
EXTENDS GoldenGenerator, TLC

CONSTANTS a, b, t1, t2, t3

mcAddress == {a, b}
mcTracked == {a}
mcTx == {t1, t2, t3}

\* t2 and t3 both spend the first output of t1
mcInputs == (t1 :> <<>>)
            @@ (t2 :> <<[tx |-> t1, index |-> 1]>>)
            @@ (t3 :> <<[tx |-> t1, index |-> 1]>>)
mcOutputs == (t1 :> <<[address |-> a, coins |-> 2], [address |-> a, coins |-> 1]>>)
             @@ (t2 :> <<[address |-> b, coins |-> 1], [address |-> a, coins |-> 1]>>)
             @@ (t3 :> <<[address |-> b, coins |-> 2]>>)
mcBlock == [body : {<<>>, <<t1>>, <<t1, t2>>, <<t3>>}, era : {"standard"}]
           \cup [body : {<<>>}, era : {"aurum", "boundary"}]
mcAtBlocks == {1, 2}
=============================================================================
