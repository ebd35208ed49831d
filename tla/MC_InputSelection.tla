------------------------- MODULE MC_InputSelection -------------------------
(***************************************************************************)
(* Small instances of InputSelection: UTxO sets of three entries and lists *)
(* of up to three outputs made of the values below.                        *)
(***************************************************************************)
EXTENDS InputSelection

CONSTANTS
    gold, silver, bronze, coin,
    EntryCoins, OutputCoins,      \* coins of an entry, of an output
    EntryGold, OutputGold,        \* gold in an entry, in an output
    Implicit,                     \* implicit input and deposit
    MaxOutputs

mcAsset == {gold, silver, bronze}
\* Bronze is a second asset of silver's policy.
mcPolicy == [a \in mcAsset |-> IF a = bronze THEN silver ELSE a]
mcUtxo == 1..3

\* A value with g gold and s silver, both absent when zero.
ValueOf(c, g, s) ==
    [coins |-> c,
     assets |-> (IF g > 0 THEN gold :> g ELSE NoAssets)
                    @@ (IF s > 0 THEN silver :> s ELSE NoAssets)]

\* One unit of silver comes with the largest quantity of gold, and one of bronze
\* if there are many coins as well: no output asks for either.
EntryValue(c, g) ==
    LET v == ValueOf(c, g, IF g > 1 THEN 1 ELSE 0)
    IN  IF g > 1 /\ c > Min(EntryCoins) THEN [v EXCEPT !.assets = @ @@ (bronze :> 1)] ELSE v

Rank(v) == 10 * v.coins + Quantity(v, gold)

Entries ==
    {f \in [mcUtxo -> {EntryValue(c, g) : c \in EntryCoins, g \in EntryGold}] :
        Rank(f[1]) <= Rank(f[2]) /\ Rank(f[2]) <= Rank(f[3])}

Outputs ==
    UNION {[1..n -> {ValueOf(c, g, 0) : c \in OutputCoins, g \in OutputGold}] :
        n \in 0..MaxOutputs}

Arguments(f, o, i, d) ==
    [utxo |-> f, outputs |-> o, input |-> i, deposit |-> d,
     tokens |-> SetToSeq(UNION {DOMAIN o[n].assets : n \in DOMAIN o}) \o <<coin>>]

\* Requests for all three tokens: the iterator skips one whenever another is
\* dropped before it.
ThreeTokens ==
    LET values == {ValueOf(c, g, s) : c \in EntryCoins, g \in EntryGold, s \in OutputGold}
        rank(v) == Rank(v) + 100 * Quantity(v, silver)
    IN {Arguments(f, <<ValueOf(c, 2, 1)>>, 0, 0) :
          f \in {f \in [mcUtxo -> values] : rank(f[1]) <= rank(f[2]) /\ rank(f[2]) <= rank(f[3])},
          c \in OutputCoins}

\* A call has an implicit input or a deposit, or neither.
mcInstance ==
    {Arguments(f, o, i, 0) : f \in Entries, o \in Outputs, i \in Implicit}
        \cup {Arguments(f, o, 0, d) : f \in Entries, o \in Outputs, d \in Implicit}
        \cup ThreeTokens
=============================================================================
