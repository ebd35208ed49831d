--------------------------- MODULE MC_Cip30Wallet ---------------------------
(***************************************************************************)
(* Two wallet objects that share a storage, two pages of two sites, and    *)
(* three calls, of which two come from one page.                           *)
(***************************************************************************)
EXTENDS Cip30Wallet, TLC

CONSTANTS w1, w2, p1, p2, c1, c2, c3, shop, swap

mcWallet == {w1, w2}
mcPage == {p1, p2}
mcCall == {c1, c2, c3}
mcSite == {shop, swap}
mcHost == (p1 :> shop) @@ (p2 :> swap)
mcCallPage == (c1 :> p1) @@ (c2 :> p1) @@ (c3 :> p2)

=============================================================================
