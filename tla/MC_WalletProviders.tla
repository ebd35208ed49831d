------------------------- MODULE MC_WalletProviders -------------------------
(***************************************************************************)
(* Two transactions, the first withdrawing rewards into an output at a and *)
(* the second moving it to b; three stake pools and pages of two.          *)
(***************************************************************************)
EXTENDS WalletProviders, TLC

CONSTANTS a, b, t1, t2, g, o1, o2, p1, p2, p3

mcAddress == {a, b}
mcTx == {t1, t2}
mcTxIn == {g, o1, o2}
mcInputs == (t1 :> {g}) @@ (t2 :> {o1})
mcOutputs == (t1 :> {o1}) @@ (t2 :> {o2})
mcWithdraws == (t1 :> 1) @@ (t2 :> 0)
mcTtl == [t \in mcTx |-> 0]
mcGenesis == {g}
mcAddressOf == (g :> a) @@ (o1 :> a) @@ (o2 :> b)
mcContent == (t1 :> {"withdrawal", "mint", "retire"}) @@ (t2 :> {"retire", "update", "redeemer"})
mcPool == {p1, p2, p3}
=============================================================================
