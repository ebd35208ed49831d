--------------------------- MODULE MC_RoundRobin ---------------------------
(***************************************************************************)
(* Small instances of RoundRobin: every UTxO of three entries and every    *)
(* total request over the quantities below.  Entries differ only by their  *)
(* values, so one order of the three is enough.                            *)
(***************************************************************************)
EXTENDS RoundRobin

CONSTANTS
    gold, silver, coin,
    Coins,          \* coins of an entry
    Amounts,        \* quantity of an asset in an entry; 0: no such asset
    RequestedCoins, \* coins of the output
    Implicit        \* implicit input and deposit

mcAsset == {gold, silver}
mcPolicy == [a \in mcAsset |-> a]
mcUtxo == 1..3

ValueOf(c, q) ==
    [coins |-> c, assets |-> Restrict(q, {a \in Asset : q[a] > 0})]
Values(cs) == {ValueOf(c, q) : c \in cs, q \in [Asset -> Amounts]}

\* A number that orders the values.
Rank(v) == 100 * v.coins + 10 * Quantity(v, gold) + Quantity(v, silver)

Arguments(f, o, i, d) ==
    [utxo |-> f, outputs |-> <<o>>, input |-> i, deposit |-> d,
     tokens |-> SetToSeq(DOMAIN o.assets) \o <<coin>>]

mcInstance ==
    {Arguments(f, o, i, d) :
        f \in {f \in [mcUtxo -> Values(Coins)] :
                  Rank(f[1]) <= Rank(f[2]) /\ Rank(f[2]) <= Rank(f[3])},
        o \in Values(RequestedCoins), i \in Implicit, d \in Implicit}
=============================================================================
