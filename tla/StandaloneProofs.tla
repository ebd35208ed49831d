-------------------------- MODULE StandaloneProofs --------------------------
(***************************************************************************)
(* Theorems about the parts no other module is composed with: the building *)
(* of transactions (TransactionBuilding), the golden test generator        *)
(* (GoldenGenerator) and the client wallet of the prototype                *)
(* (PrototypeWallet).  Their variables are apart, and so are their proofs. *)
(*                                                                         *)
(* A selection balances with the implicit coin, and the implicit coin is   *)
(* what the library counts, so the whole body preserves value.  The        *)
(* answers in the pipe of a golden tool continue one another from the      *)
(* height of the view, so a record is made at the height of its block; and *)
(* they describe chains in which every block spends only what is there, so *)
(* that the loops over a block, folds over lists, take the balances from   *)
(* the unspent outputs before it to those after it.                        *)
(* A scan of the prototype ends at an address no payment had reached when  *)
(* it was asked for, and so do the addresses a batch beyond the first of   *)
(* these: this is what the outputs a balance counts rest on.               *)
(***************************************************************************)
EXTENDS TransactionBuilding, GoldenGenerator, PrototypeWallet, SumTheorems, SequenceTheorems

-----------------------------------------------------------------------------
(* TransactionBuilding: sums over lists *)

\* A list of n members of S.
IsList(list, n, S) == n \in Nat /\ list \in [1..n -> S]

\* In h the n members of g follow the m members of f.
Follows(h, f, m, g, n) ==
    /\ \A i \in 1..m : h[i] = f[i]
    /\ \A j \in 1..n : h[m + j] = g[j]

SumTo(f, n) == SumFunctionOnSet(f, 1..n)

\* A sum over a list that continues another is the sum of both.
LEMMA SumOfContinued ==
    ASSUME NEW m \in Nat, NEW n \in Nat, NEW f, NEW g, NEW h, Follows(h, f, m, g, n),
           \A i \in 1..m : f[i] \in Nat, \A j \in 1..n : g[j] \in Nat
    PROVE  SumTo(h, m + n) = SumTo(f, m) + SumTo(g, n)
<1> USE DEF Follows, SumTo
<1> DEFINE R == (m + 1)..(m + n)
           r == [j \in 1..n |-> m + j]
<1>1. 1..(m + n) = (1..m) \cup R /\ (1..m) \cap R = {}
    OBVIOUS
<1>2. IsFiniteSet(1..m) /\ IsFiniteSet(1..n) /\ IsFiniteSet(R)
    BY FS_Interval
<1>3. Renames(r, 1..n, R)
    <2>1. \A x, y \in 1..n : r[x] = r[y] => x = y
        OBVIOUS
    <2>2. \A x \in 1..n : r[x] \in R
        OBVIOUS
    <2>3. ASSUME NEW z \in R PROVE \E x \in 1..n : z = r[x]
        <3>1. z - m \in 1..n /\ r[z - m] = z
            OBVIOUS
        <3> QED BY <3>1
    <2> QED BY <2>1, <2>2, <2>3 DEF Renames
<1>4. \A x \in 1..n : g[x] \in Int /\ h[r[x]] = g[x]
    OBVIOUS
<1>5. \A x \in (1..m) \cup R : h[x] \in Int
    <2>1. ASSUME NEW x \in R PROVE h[x] \in Int
        <3>1. PICK j \in 1..n : x = r[j]
            BY <1>3 DEF Renames
        <3> QED BY <1>4, <3>1
    <2> QED BY <2>1
<1>6. PICK M, T, N : M = 1..m /\ T = R /\ N = 1..n
    OBVIOUS
<1> HIDE DEF R, r
<1>7. SumFunctionOnSet(h, M \cup T) = SumFunctionOnSet(h, M) + SumFunctionOnSet(h, T)
    BY <1>1, <1>2, <1>5, <1>6, SumUnion
<1>8. SumFunctionOnSet(h, T) = SumFunctionOnSet(g, N)
    <2>1. IsFiniteSet(N) /\ Renames(r, N, T) /\ \A x \in N : g[x] \in Int /\ h[r[x]] = g[x]
        BY <1>2, <1>3, <1>4, <1>6
    <2> QED BY <2>1, SumRenamed
<1>9. SumFunctionOnSet(h, M) = SumFunctionOnSet(f, M)
    <2>1. IsFiniteSet(M) /\ \A x \in M : h[x] \in Int /\ h[x] = f[x]
        BY <1>2, <1>6
    <2> QED BY <2>1, SumSame
<1> QED BY <1>1, <1>6, <1>7, <1>8, <1>9

OfKind(D, c, kind) == {i \in D : c[i] = kind}

\* The sum over the entries of two kinds, each of which counts as much.
LEMMA SumOfTwoKinds ==
    ASSUME NEW D, IsFiniteSet(D), NEW c, NEW p, NEW q, p # q, NEW a \in Nat, NEW b \in Nat, NEW f,
           \A i \in D : f[i] = IF c[i] = p THEN a ELSE IF c[i] = q THEN b ELSE 0
    PROVE  SumFunctionOnSet(f, D) = a * Cardinality(OfKind(D, c, p)) + b * Cardinality(OfKind(D, c, q))
<1> DEFINE P == OfKind(D, c, p)
           Q == OfKind(D, c, q)
<1> USE DEF OfKind
<1>1. P \in SUBSET D /\ Q \in SUBSET D /\ P \cup Q \in SUBSET D /\ P \cap Q = {}
    OBVIOUS
<1>2. (\A i \in D : f[i] \in Int) /\ (\A i \in P : f[i] = a) /\ (\A i \in Q : f[i] = b)
      /\ (\A i \in D \ (P \cup Q) : f[i] = 0)
    OBVIOUS
<1> HIDE DEF P, Q, OfKind
<1>3. IsFiniteSet(P) /\ IsFiniteSet(Q)
    BY <1>1, FS_Subset
<1>4. SumFunctionOnSet(f, D) = SumFunctionOnSet(f, P \cup Q)
    <2>1. PICK T : T = P \cup Q
        OBVIOUS
    <2> QED BY <1>1, <1>2, <2>1, SumWithoutZeros
<1>5. SumFunctionOnSet(f, P \cup Q) = SumFunctionOnSet(f, P) + SumFunctionOnSet(f, Q)
    BY <1>1, <1>2, <1>3, SumUnion
<1>6. SumFunctionOnSet(f, P) = a * Cardinality(P) /\ SumFunctionOnSet(f, Q) = b * Cardinality(Q)
    BY <1>2, <1>3, SumConstant
<1> QED BY <1>4, <1>5, <1>6 DEF P, Q

-----------------------------------------------------------------------------
(* TransactionBuilding: the implicit coin *)

Withdrawal == [address : RewardAddress, quantity : Quantity]

\* A request has lists of certificates and withdrawals and one output.
LEMMA RequestsAreTyped ==
    ASSUME NEW r \in Request
    PROVE  /\ \E n : IsList(ListOf(r.certificates), n, CertificateKind)
           /\ \E n : IsList(ListOf(r.withdrawals), n, Withdrawal)
           /\ \E q \in Quantity : r.outputs = <<[address |-> <<>>, coins |-> q]>>
<1>1. \A S : <<>> \in [1..0 -> S]
    OBVIOUS
<1>2. ASSUME NEW S, NEW field \in {Undefined} \cup BoundedSeq(S, MaxParts)
      PROVE  \E n : IsList(ListOf(field), n, S)
    <2>1. CASE field = Undefined
        BY <1>1, <2>1 DEF IsList, ListOf
    <2>2. CASE field # Undefined
        <3>1. PICK n \in 0..MaxParts : field \in [1..n -> S]
            BY <2>2 DEF BoundedSeq, SeqOf
        <3> QED BY <2>2, <3>1 DEF IsList, ListOf
    <2> QED BY <2>1, <2>2
<1>3. /\ r.certificates \in {Undefined} \cup BoundedSeq(CertificateKind, MaxParts)
      /\ r.withdrawals \in {Undefined} \cup BoundedSeq(Withdrawal, MaxParts)
      /\ r.outputs \in {<<[address |-> <<>>, coins |-> q]>> : q \in Quantity}
    BY DEF Request, Withdrawal
<1> QED BY <1>2, <1>3

\* A list has its length and its members.
LEMMA ListsAreFinite ==
    ASSUME NEW list, NEW n, NEW S, IsList(list, n, S)
    PROVE  /\ DOMAIN list = 1..n /\ IsFiniteSet(DOMAIN list) /\ Len(list) = n
           /\ \A i \in DOMAIN list : list[i] \in S
<1>1. n \in Nat /\ DOMAIN list = 1..n /\ list \in Seq(S) /\ \A i \in 1..n : list[i] \in S
    BY DEF IsList
<1>2. IsFiniteSet(1..n)
    BY <1>1, FS_Interval
<1>3. Len(list) = n
    BY <1>1
<1> QED BY <1>1, <1>2, <1>3

\* The deposits and the reclaims of a list of certificates are those of the
\* serialization library.
LEMMA DepositsAreCounted ==
    ASSUME NEW c, NEW n, IsList(c, n, CertificateKind)
    PROVE  /\ SumOf([i \in DOMAIN c |-> DepositOf(c[i])])
                = StakeKeyDeposit * Cardinality(OfKind(DOMAIN c, c, "stakeRegistration"))
                    + PoolDeposit * Cardinality(OfKind(DOMAIN c, c, "poolRegistration"))
           /\ SumOf([i \in DOMAIN c |-> ReclaimOf(c[i])])
                = StakeKeyDeposit * Cardinality(OfKind(DOMAIN c, c, "stakeDeregistration"))
                    + PoolDeposit * Cardinality(OfKind(DOMAIN c, c, "poolRetirement"))
<1> DEFINE f == [i \in DOMAIN c |-> DepositOf(c[i])]
           g == [i \in DOMAIN c |-> ReclaimOf(c[i])]
           D == DOMAIN c
<1>1. IsFiniteSet(D) /\ DOMAIN f = D /\ DOMAIN g = D
    BY ListsAreFinite
<1>2. StakeKeyDeposit \in Nat /\ PoolDeposit \in Nat
    BY BuildingAssumption DEF BuildingAssumption
<1>3. \A i \in D : f[i] = IF c[i] = "stakeRegistration" THEN StakeKeyDeposit
                          ELSE IF c[i] = "poolRegistration" THEN PoolDeposit ELSE 0
    BY DEF DepositOf
<1>4. \A i \in D : g[i] = IF c[i] = "stakeDeregistration" THEN StakeKeyDeposit
                          ELSE IF c[i] = "poolRetirement" THEN PoolDeposit ELSE 0
    BY DEF ReclaimOf
<1>5. "stakeRegistration" # "poolRegistration" /\ "stakeDeregistration" # "poolRetirement"
    OBVIOUS
<1> HIDE DEF f, g, D
<1>6. SumFunctionOnSet(f, D) = StakeKeyDeposit * Cardinality(OfKind(D, c, "stakeRegistration"))
                                  + PoolDeposit * Cardinality(OfKind(D, c, "poolRegistration"))
    BY <1>1, <1>2, <1>3, <1>5, SumOfTwoKinds
<1>7. SumFunctionOnSet(g, D) = StakeKeyDeposit * Cardinality(OfKind(D, c, "stakeDeregistration"))
                                  + PoolDeposit * Cardinality(OfKind(D, c, "poolRetirement"))
    BY <1>1, <1>2, <1>4, <1>5, SumOfTwoKinds
<1>8. SumOf(f) = SumFunctionOnSet(f, D) /\ SumOf(g) = SumFunctionOnSet(g, D)
    BY <1>1 DEF SumOf
<1> QED BY <1>6, <1>7, <1>8 DEF f, g, D

\* Withdrawals from different addresses all get into the map of the library.
LEMMA WithdrawalsAreCounted ==
    ASSUME NEW w, NEW n, IsList(w, n, Withdrawal), OnePerAddress(w)
    PROVE  SumOf([i \in DOMAIN w |-> w[i].quantity])
             = SumFunctionOnSet([e \in WithdrawalMap(w) |-> e.quantity], WithdrawalMap(w))
<1> DEFINE f == [i \in DOMAIN w |-> w[i].quantity]
           W == WithdrawalMap(w)
           g == [e \in W |-> e.quantity]
           D == DOMAIN w
<1>1. IsFiniteSet(D) /\ DOMAIN f = D /\ \A i \in D : w[i] \in Withdrawal
    BY ListsAreFinite
<1>2. \A i \in D : \A j \in D : w[j].address = w[i].address => j <= i
    <2>1. \A i, j \in D : w[j].address = w[i].address => i = j
        BY DEF OnePerAddress
    <2>2. D \subseteq Nat
        BY ListsAreFinite DEF IsList
    <2> QED BY <2>1, <2>2
<1>3. W = {w[i] : i \in D}
    BY <1>2 DEF WithdrawalMap
<1>4. Renames(w, D, W)
    BY <1>3 DEF Renames, OnePerAddress
<1>5. \A i \in D : f[i] \in Int /\ g[w[i]] = f[i]
    <2>1. \A i \in D : w[i].quantity \in Nat
        BY <1>1, BuildingAssumption DEF Withdrawal, BuildingAssumption
    <2> QED BY <1>3, <2>1
<1> HIDE DEF f, g, D, W
<1>6. SumFunctionOnSet(g, W) = SumFunctionOnSet(f, D)
    BY <1>1, <1>4, <1>5, SumRenamed
<1>7. SumOf(f) = SumFunctionOnSet(f, D)
    BY <1>1 DEF SumOf
<1> QED BY <1>6, <1>7 DEF f, g, D, W

-----------------------------------------------------------------------------
(* TransactionBuilding: the selection and the body *)

\* The values of the change outputs.
ChangeValues(change) == [i \in DOMAIN change |-> [coins |-> change[i]]]

\* What a list of values pays is a number of coins.
LEMMA PaidIsNat ==
    ASSUME NEW list, NEW n, NEW S, IsList(list, n, S), \A v \in S : v.coins \in Nat
    PROVE  Paid(list) \in Nat
<1> DEFINE f == [i \in DOMAIN list |-> list[i].coins]
           D == DOMAIN list
<1>1. IsFiniteSet(D) /\ DOMAIN f = D /\ \A i \in D : f[i] \in Nat
    BY ListsAreFinite
<1> HIDE DEF f, D
<1>2. SumFunctionOnSet(f, D) \in Nat
    BY <1>1, SumNat
<1> QED BY <1>1, <1>2 DEF Paid, SumOf, f

\* Concatenation continues the first list with the second.
LEMMA ListsFollow ==
    ASSUME NEW p, NEW m, NEW S, IsList(p, m, S), NEW q, NEW n, NEW T, IsList(q, n, T)
    PROVE  Follows(p \o q, p, m, q, n) /\ Len(p \o q) = m + n /\ DOMAIN (p \o q) = 1..Len(p \o q)
<1> DEFINE U == S \cup T
<1>1. m \in Nat /\ n \in Nat /\ Len(p) = m /\ Len(q) = n
    BY ListsAreFinite DEF IsList
<1>2. p \in Seq(U) /\ q \in Seq(U)
    BY DEF IsList
<1> HIDE DEF U
<1>3. /\ p \o q \in Seq(U)
      /\ Len(p \o q) = Len(p) + Len(q)
      /\ \A i \in 1..(Len(p) + Len(q)) : (p \o q)[i] = IF i <= Len(p) THEN p[i] ELSE q[i - Len(p)]
    BY <1>2, ConcatProperties
<1>4. DOMAIN (p \o q) = 1..Len(p \o q)
    BY <1>3, LenProperties
<1>5. ASSUME NEW j \in 1..n PROVE (p \o q)[m + j] = q[j]
    <2>1. m + j \in 1..(m + n) /\ ~ (m + j <= m) /\ (m + j) - m = j
        BY <1>1
    <2> QED BY <1>1, <1>3, <2>1
<1>6. ASSUME NEW i \in 1..m PROVE (p \o q)[i] = p[i]
    <2>1. i \in 1..(m + n) /\ i <= m
        BY <1>1
    <2> QED BY <1>1, <1>3, <2>1
<1> QED BY <1>1, <1>3, <1>4, <1>5, <1>6 DEF Follows

\* The body pays the outputs and the change.
LEMMA BodyPays ==
    ASSUME NEW sel, NEW m, NEW n, NEW S, \A v \in S : v.coins \in Nat,
           IsList(sel.outputs, m, S), IsList(sel.change, n, Nat),
           NEW interval, NEW certificates, NEW withdrawals
    PROVE  Paid(CreateTransactionInternals(sel, interval, certificates, withdrawals).outputs)
             = Paid(sel.outputs) + Paid(ChangeValues(sel.change))
<1> DEFINE p == sel.outputs
           q == [i \in DOMAIN sel.change |-> [address |-> WalletAddress, coins |-> sel.change[i]]]
           c == ChangeValues(sel.change)
           f == [i \in DOMAIN p |-> p[i].coins]
           g == [i \in DOMAIN c |-> c[i].coins]
           h == [i \in DOMAIN (p \o q) |-> (p \o q)[i].coins]
<1>1. m \in Nat /\ DOMAIN p = 1..m /\ Len(p) = m /\ \A i \in 1..m : p[i].coins \in Nat
    BY ListsAreFinite DEF IsList
<1>2. n \in Nat /\ DOMAIN sel.change = 1..n /\ \A i \in 1..n : sel.change[i] \in Nat
    BY ListsAreFinite DEF IsList
<1>3. PICK T : IsList(q, n, T) /\ DOMAIN c = 1..n
    <2>1. IsList(q, n, {q[i] : i \in 1..n}) /\ DOMAIN c = 1..n
        BY <1>2 DEF ChangeValues, IsList
    <2> QED BY <2>1
<1>4. DOMAIN (p \o q) = 1..(m + n) /\ Follows(p \o q, p, m, q, n)
    <2> HIDE DEF q, p
    <2>1. IsList(p, m, S) /\ IsList(q, n, T)
        BY <1>3 DEF p
    <2>2. Follows(p \o q, p, m, q, n) /\ Len(p \o q) = m + n /\ DOMAIN (p \o q) = 1..Len(p \o q)
        BY <2>1, ListsFollow
    <2> QED BY <2>2
<1>5. \A i \in 1..m : f[i] \in Nat
    BY <1>1
<1>6. \A j \in 1..n : g[j] \in Nat
    BY <1>2, <1>3 DEF ChangeValues
<1>7. Follows(h, f, m, g, n)
    <2>1. ASSUME NEW j \in 1..n
          PROVE  h[m + j] = g[j]
        <3>1. g[j] = sel.change[j] /\ q[j].coins = sel.change[j]
            BY <1>2, <1>3 DEF ChangeValues
        <3>2. m + j \in 1..(m + n)
            BY <1>1, <1>2
        <3>3. h[m + j] = (p \o q)[m + j].coins
            <4> HIDE DEF q
            <4> QED BY <1>4, <3>2
        <3> HIDE DEF h, g, q
        <3> QED BY <1>4, <3>1, <3>3 DEF Follows
    <2>2. ASSUME NEW i \in 1..m
          PROVE  h[i] = f[i]
        <3>1. i \in 1..(m + n)
            BY <1>1, <1>2
        <3> HIDE DEF q
        <3> QED BY <1>1, <1>4, <3>1 DEF Follows
    <2> HIDE DEF h, g, f
    <2> QED BY <2>1, <2>2 DEF Follows
<1>8. DOMAIN f = 1..m /\ DOMAIN g = 1..n /\ DOMAIN h = 1..(m + n)
    BY <1>1, <1>3, <1>4
<1>9. Paid(p \o q) = SumOf(h) /\ Paid(p) = SumOf(f) /\ Paid(c) = SumOf(g)
    BY DEF Paid
<1> HIDE DEF f, g, h, p, q, c
<1>10. SumTo(h, m + n) = SumTo(f, m) + SumTo(g, n)
    BY <1>1, <1>2, <1>5, <1>6, <1>7, SumOfContinued
<1>11. Paid(p \o q) = Paid(p) + Paid(c)
    BY <1>8, <1>9, <1>10 DEF SumOf, SumTo
<1> QED BY <1>11 DEF CreateTransactionInternals, p, q, c

\* The implicit coin of a request.
LEMMA ImplicitIsNat ==
    ASSUME NEW r \in Request
    PROVE  ComputeImplicitCoin(r) \in [deposit : Nat, input : Nat]
<1>1. PICK n : IsList(ListOf(r.certificates), n, CertificateKind)
    BY RequestsAreTyped
<1>2. PICK m : IsList(ListOf(r.withdrawals), m, Withdrawal)
    BY RequestsAreTyped
<1> DEFINE c == ListOf(r.certificates)
           w == ListOf(r.withdrawals)
           f == [i \in DOMAIN c |-> DepositOf(c[i])]
           g == [i \in DOMAIN c |-> ReclaimOf(c[i])]
           h == [i \in DOMAIN w |-> r.withdrawals[i].quantity]
<1>3. IsFiniteSet(DOMAIN c) /\ IsFiniteSet(DOMAIN w) /\ \A i \in DOMAIN w : w[i].quantity \in Nat
    <2>1. IsFiniteSet(DOMAIN c)
        BY <1>1, ListsAreFinite
    <2>2. IsFiniteSet(DOMAIN w) /\ \A i \in DOMAIN w : w[i] \in Withdrawal
        BY <1>2, ListsAreFinite
    <2> QED BY <2>1, <2>2, BuildingAssumption DEF Withdrawal, BuildingAssumption
<1>4. \A i \in DOMAIN c : f[i] \in Nat /\ g[i] \in Nat
    BY BuildingAssumption DEF DepositOf, ReclaimOf, BuildingAssumption
<1>5. \A i \in DOMAIN w : h[i] \in Nat
    BY <1>3 DEF ListOf
<1>6. DOMAIN f = DOMAIN c /\ DOMAIN g = DOMAIN c /\ DOMAIN h = DOMAIN w
    OBVIOUS
<1>7. ComputeImplicitCoin(r) = [deposit |-> SumOf(f), input |-> SumOf(h) + SumOf(g)]
    BY DEF ComputeImplicitCoin, WithdrawalsTotal
<1> HIDE DEF f, g, h, c, w
<1>8. SumOf(f) \in Nat /\ SumOf(g) \in Nat /\ SumOf(h) \in Nat
    BY <1>3, <1>4, <1>5, <1>6, SumNat DEF SumOf
<1> QED BY <1>7, <1>8

-----------------------------------------------------------------------------
(* TransactionBuilding: the invariant and the theorems *)

\* What the input selector has promised: the entries and the implicit input pay
\* the outputs, the deposit, the change and the fee.
Balanced(sel, imp) ==
    Coins(sel.inputs) + imp.input
        = Paid(sel.outputs) + imp.deposit + Paid(ChangeValues(sel.change)) + sel.fee

SelectionIsMade ==
    /\ selection.inputs \subseteq RepositoryEntries
    /\ selection.outputs = request.outputs
    /\ \E n : IsList(selection.change, n, Nat)
    /\ selection.fee \in Nat \ {0}
    /\ Balanced(selection, implicit)

BuildingInv ==
    /\ request \in Request
    /\ orders \in {Undefined} \cup BoundedSeq(Order, MaxParts)
    /\ stage \in {"ordering", "called", "tipRead", "selected", "built", "signed", "failed"}
    /\ stage \in {"tipRead", "selected", "built", "signed"} => implicit = ComputeImplicitCoin(request)
    /\ stage \in {"selected", "built", "signed"} => SelectionIsMade
    /\ stage \in {"built", "signed"} => body = BuildTx(selection)

\* The repository has finitely many entries.
LEMMA EntriesAreFinite == IsFiniteSet(RepositoryEntries)
<1> DEFINE E == (1..2) \X Entry
           r == [p \in E |-> [id |-> p[1], coins |-> p[2], address |-> RepositoryAddress]]
<1>1. IsFiniteSet(E)
    <2>1. PICK M, N : M = 1..2 /\ N = Entry
        OBVIOUS
    <2>2. IsFiniteSet(M) /\ IsFiniteSet(N)
        <3>1. IsFiniteSet(1..2)
            <4>1. 1 \in Int /\ 2 \in Int
                OBVIOUS
            <4>2. \A a, b \in Int : IsFiniteSet(a..b)
                BY FS_Interval
            <4>3. PICK a \in Int, b \in Int : a = 1 /\ b = 2
                BY <4>1
            <4> QED BY <4>2, <4>3
        <3>2. IsFiniteSet(Entry)
            BY BuildingAssumption DEF BuildingAssumption
        <3> QED BY <2>1, <3>1, <3>2
    <2>3. IsFiniteSet(M \X N)
        BY <2>2, FS_Product
    <2> QED BY <2>1, <2>3
<1>2. r \in Surjection(E, RepositoryEntries)
    <2>1. \A p \in E : r[p] \in RepositoryEntries
        BY DEF RepositoryEntries
    <2>2. ASSUME NEW e \in RepositoryEntries PROVE \E p \in E : r[p] = e
        <3>1. PICK n \in 1..2, c \in Entry : e = [id |-> n, coins |-> c, address |-> RepositoryAddress]
            BY DEF RepositoryEntries
        <3>2. <<n, c>> \in E /\ r[<<n, c>>] = e
            BY <3>1
        <3> QED BY <3>2
    <2>3. r \in [E -> RepositoryEntries]
        <3>1. DOMAIN r = E /\ r = [p \in E |-> r[p]]
            OBVIOUS
        <3> HIDE DEF r, E
        <3> QED BY <2>1, <3>1
    <2> HIDE DEF r, E
    <2> QED BY <2>2, <2>3 DEF Surjection
<1> HIDE DEF E, r
<1> QED BY <1>1, <1>2, FS_Surjection

\* Entries of the repository hold a number of coins.
LEMMA CoinsAreNat ==
    ASSUME NEW entries \in SUBSET RepositoryEntries
    PROVE  Coins(entries) \in Nat
<1> DEFINE f == [e \in entries |-> e.coins]
<1>1. IsFiniteSet(RepositoryEntries)
    BY EntriesAreFinite
<1>2. IsFiniteSet(entries)
    BY <1>1, FS_Subset
<1>3. \A e \in entries : f[e] \in Nat
    BY BuildingAssumption DEF RepositoryEntries, BuildingAssumption
<1> HIDE DEF f
<1> QED BY <1>2, <1>3, SumNat DEF Coins, f

\* The outputs of a request are a list of values with coins.
LEMMA OutputsAreAList ==
    ASSUME NEW r \in Request
    PROVE  \E S : IsList(r.outputs, 1, S) /\ \A v \in S : v.coins \in Nat
<1>1. PICK q \in Quantity : r.outputs = <<[address |-> <<>>, coins |-> q]>>
    BY RequestsAreTyped
<1>2. IsList(r.outputs, 1, {r.outputs[1]}) /\ r.outputs[1].coins \in Nat
    BY <1>1, BuildingAssumption DEF IsList, BuildingAssumption
<1>3. \A v \in {r.outputs[1]} : v.coins \in Nat
    BY <1>2
<1> QED BY <1>2, <1>3

\* Change quantities become a list of values with coins.
LEMMA ChangeIsAList ==
    ASSUME NEW change, NEW n, IsList(change, n, Nat)
    PROVE  IsList(ChangeValues(change), n, [coins : Nat])
<1>1. DOMAIN change = 1..n /\ n \in Nat /\ \A i \in 1..n : change[i] \in Nat
    BY DEF IsList
<1>2. ChangeValues(change) = [i \in 1..n |-> [coins |-> change[i]]]
    BY <1>1 DEF ChangeValues
<1>3. ChangeValues(change) \in [1..n -> [coins : Nat]]
    BY <1>1, <1>2
<1> QED BY <1>1, <1>3 DEF IsList

\* The outputs of a request cost a number of coins.
LEMMA RequestIsPaid ==
    ASSUME NEW r \in Request
    PROVE  Paid(r.outputs) \in Nat
<1>1. PICK S : IsList(r.outputs, 1, S) /\ \A v \in S : v.coins \in Nat
    BY OutputsAreAList
<1> QED BY <1>1, PaidIsNat

\* Change is worth a number of coins.
LEMMA ChangeIsPaid ==
    ASSUME NEW change, NEW n, IsList(change, n, Nat)
    PROVE  Paid(ChangeValues(change)) \in Nat
<1>1. PICK S : S = [coins : Nat]
    OBVIOUS
<1>2. IsList(ChangeValues(change), n, S) /\ \A v \in S : v.coins \in Nat
    BY <1>1, ChangeIsAList
<1> QED BY <1>2, PaidIsNat

\* More entries hold no fewer coins.
LEMMA CoinsGrow ==
    ASSUME NEW fewer \in SUBSET RepositoryEntries, NEW more \in SUBSET RepositoryEntries, fewer \subseteq more
    PROVE  Coins(fewer) <= Coins(more)
<1> DEFINE f == [e \in more |-> e.coins]
           g == [e \in fewer |-> e.coins]
           others == more \ fewer
<1>1. IsFiniteSet(fewer) /\ IsFiniteSet(others)
    BY EntriesAreFinite, FS_Subset
<1>2. \A e \in more : f[e] \in Nat
    BY BuildingAssumption DEF RepositoryEntries, BuildingAssumption
<1>3. (\A e \in fewer : f[e] = g[e]) /\ others \subseteq more
    OBVIOUS
<1>4. more = fewer \cup others /\ fewer \cap others = {}
    OBVIOUS
<1> HIDE DEF f, g, others
<1>5. SumFunctionOnSet(f, fewer \cup others) = SumFunctionOnSet(f, fewer) + SumFunctionOnSet(f, others)
    BY <1>1, <1>2, <1>4, SumUnion
<1>6. SumFunctionOnSet(f, fewer) = SumFunctionOnSet(g, fewer)
    BY <1>1, <1>2, <1>3, SumSame
<1>7. SumFunctionOnSet(f, fewer) \in Nat /\ SumFunctionOnSet(f, others) \in Nat
    BY <1>1, <1>2, <1>3, <1>4, SumNat
<1>8. Coins(more) = SumFunctionOnSet(f, more) /\ Coins(fewer) = SumFunctionOnSet(g, fewer)
    BY DEF Coins, f, g
<1> QED BY <1>4, <1>5, <1>6, <1>7, <1>8

\* The change is a list of quantities, and worth what is left over.
LEMMA ChangeIsTheRest ==
    ASSUME NEW rest \in Nat
    PROVE  /\ \E n : IsList(ChangeOf(rest), n, Nat)
           /\ Paid(ChangeValues(ChangeOf(rest))) = rest
<1>1. CASE rest = 0
    <2>1. ChangeOf(rest) = <<>> /\ IsList(<<>>, 0, Nat)
        BY <1>1 DEF ChangeOf, IsList
    <2>2. [i \in DOMAIN ChangeValues(<<>>) |-> ChangeValues(<<>>)[i].coins] = <<>>
        BY DEF ChangeValues
    <2>3. SumOf(<<>>) = 0
        <3>1. PICK f : f = <<>> /\ DOMAIN f = {}
            OBVIOUS
        <3> QED BY <3>1, SumEmpty DEF SumOf
    <2> QED BY <1>1, <2>1, <2>2, <2>3 DEF Paid
<1>2. CASE rest # 0
    <2>1. ChangeOf(rest) = <<rest>> /\ IsList(<<rest>>, 1, Nat)
        BY <1>2 DEF ChangeOf, IsList
    <2> DEFINE f == [i \in DOMAIN ChangeValues(<<rest>>) |-> ChangeValues(<<rest>>)[i].coins]
    <2>2. DOMAIN f = {1} /\ f[1] = rest
        BY DEF ChangeValues
    <2> HIDE DEF f
    <2>3. PICK D : D = {1} /\ IsFiniteSet(D) /\ Cardinality(D) = 1
        BY FS_Singleton
    <2>4. SumFunctionOnSet(f, D) = rest * Cardinality(D)
        BY <2>2, <2>3, SumConstant
    <2>5. SumOf(f) = rest
        BY <2>2, <2>3, <2>4 DEF SumOf
    <2> QED BY <2>1, <2>5 DEF Paid, f
<1> QED BY <1>1, <1>2

\* The fee pays at least for the one output of the request.
LEMMA FeeIsPositive ==
    ASSUME request \in Request, NEW entries \in SUBSET RepositoryEntries
    PROVE  FeeOf(entries) \in Nat \ {0}
<1> DEFINE ch == ChangeOf(Rest(entries, 0))
           added == [i \in DOMAIN ch |-> [address |-> WalletAddress, coins |-> ch[i]]]
           b == BuildTx([inputs |-> entries, outputs |-> request.outputs, change |-> ch, fee |-> 0])
<1>1. PICK n \in {0, 1} : DOMAIN ch = 1..n
    <2>1. \A x : DOMAIN <<x>> = 1..1
        OBVIOUS
    <2>2. DOMAIN <<>> = 1..0
        OBVIOUS
    <2> QED BY <2>1, <2>2 DEF ChangeOf
<1>2. PICK S : IsList(request.outputs, 1, S)
    BY OutputsAreAList
<1>3. PICK T : IsList(added, n, T)
    <2>1. IsList(added, n, {added[i] : i \in 1..n})
        BY <1>1 DEF IsList
    <2> QED BY <2>1
<1>4. /\ b.inputs = entries /\ b.outputs = request.outputs \o added
      /\ b.certificates = <<>> /\ b.withdrawals = {}
    BY DEF BuildTx, CreateTransactionInternals, ListOf, WithdrawalMap
<1>5. FeeOf(entries) = SizeOf(b)
    BY DEF FeeOf
<1> HIDE DEF ch, added, b
<1>6. Len(request.outputs \o added) = 1 + n
    BY <1>2, <1>3, ListsFollow
<1>7. Cardinality(entries) \in Nat
    BY EntriesAreFinite, FS_Subset, FS_CardinalityType
<1>8. Cardinality(b.withdrawals) = 0 /\ Len(b.certificates) = 0
    BY <1>4, FS_EmptySet
<1> QED BY <1>4, <1>5, <1>6, <1>7, <1>8 DEF SizeOf

\* The selection that selectInputs resolves with is as the invariant says.
LEMMA SelectInputsMakes ==
    ASSUME BuildingInv, NEW costed \in SUBSET RepositoryEntries, NEW extra \in SUBSET RepositoryEntries,
           SelectInputs(costed, extra)
    PROVE  SelectionIsMade'
<1> DEFINE entries == costed \cup extra
           paid == FeeOf(costed)
           rest == Rest(entries, paid)
<1>1. /\ Rest(costed, 0) >= paid /\ UNCHANGED <<request, validity, implicit>>
      /\ selection' = [inputs |-> entries, outputs |-> request.outputs, change |-> ChangeOf(rest), fee |-> paid]
    BY DEF SelectInputs
<1>2. entries \in SUBSET RepositoryEntries /\ costed \subseteq entries
    OBVIOUS
<1>3. PICK d \in Nat, i \in Nat : implicit.deposit = d /\ implicit.input = i
    <2>1. implicit \in [deposit : Nat, input : Nat]
        BY ImplicitIsNat DEF BuildingInv, SelectInputs
    <2> QED BY <2>1
<1>4. paid \in Nat \ {0}
    BY FeeIsPositive DEF BuildingInv
<1> HIDE DEF entries, paid
<1>5. PICK p \in Nat, c \in Nat, e \in Nat :
          Paid(request.outputs) = p /\ Coins(costed) = c /\ Coins(entries) = e /\ c <= e
    BY <1>2, RequestIsPaid, CoinsAreNat, CoinsGrow DEF BuildingInv
<1>6. Rest(costed, 0) = c + i - (p + d + 0) /\ rest = e + i - (p + d + paid)
    BY <1>3, <1>5 DEF Rest
<1>7. rest \in Nat /\ e + i = p + d + rest + paid
    BY <1>1, <1>4, <1>5, <1>6
<1> HIDE DEF rest
<1>8. (\E n : IsList(ChangeOf(rest), n, Nat)) /\ Paid(ChangeValues(ChangeOf(rest))) = rest
    BY <1>7, ChangeIsTheRest
<1>9. /\ selection'.inputs = entries /\ selection'.outputs = request.outputs
      /\ selection'.change = ChangeOf(rest) /\ selection'.fee = paid
    BY <1>1
<1>10. Balanced(selection, implicit)'
    BY <1>1, <1>3, <1>5, <1>7, <1>8, <1>9 DEF Balanced
<1> QED BY <1>1, <1>2, <1>4, <1>8, <1>9, <1>10 DEF SelectionIsMade

\* What the factory makes of a list of orders are certificates of a request.
LEMMA OrdersAreMade ==
    ASSUME request \in Request, orders \in {Undefined} \cup BoundedSeq(Order, MaxParts)
    PROVE  (IF orders = Undefined THEN request
            ELSE [request EXCEPT !.certificates = [i \in DOMAIN orders |-> orders[i].kind]]) \in Request
<1>1. SUFFICES ASSUME orders # Undefined
               PROVE  [request EXCEPT !.certificates = [i \in DOMAIN orders |-> orders[i].kind]] \in Request
    OBVIOUS
<1>2. PICK n \in 0..MaxParts : orders \in [1..n -> Order]
    BY <1>1 DEF BoundedSeq, SeqOf
<1>3. \A o \in Order : o.kind \in CertificateKind
    BY DEF Order, CertificateKind
<1>4. [i \in DOMAIN orders |-> orders[i].kind] \in [1..n -> CertificateKind]
    BY <1>2, <1>3
<1>5. [i \in DOMAIN orders |-> orders[i].kind] \in BoundedSeq(CertificateKind, MaxParts)
    BY <1>2, <1>4 DEF BoundedSeq, SeqOf
<1> QED BY <1>5 DEF Request

\* Every step of a request preserves the invariant.
LEMMA BuildingNextInv ==
    ASSUME BuildingInv, Next
    PROVE  BuildingInv'
<1>1. ASSUME NEW slot \in 0..MaxSlot, TipRead(slot)
      PROVE  BuildingInv'
    BY <1>1 DEF TipRead, BuildingInv
<1>2. ASSUME NEW costed \in SUBSET RepositoryEntries, NEW extra \in SUBSET RepositoryEntries,
             SelectInputs(costed, extra)
      PROVE  BuildingInv'
    <2>1. SelectionIsMade'
        BY <1>2, SelectInputsMakes
    <2>2. stage = "tipRead" /\ stage' = "selected" /\ UNCHANGED <<orders, request, implicit>>
        BY <1>2 DEF SelectInputs
    <2> QED BY <2>1, <2>2 DEF BuildingInv
<1>3. ASSUME UNCHANGED <<request, validity, implicit, selection>>, SelectionIsMade
      PROVE  SelectionIsMade'
    BY <1>3 DEF SelectionIsMade, Balanced, BuildTx
<1>4. CASE Build
    BY <1>3, <1>4 DEF Build, BuildingInv, BuildTx
<1>5. CASE SignTx
    BY <1>3, <1>5 DEF SignTx, BuildingInv, BuildTx
<1>6. CASE Rejected
    BY <1>6 DEF Rejected, BuildingInv
<1>7. CASE FactoryThrows
    BY <1>7 DEF FactoryThrows, BuildingInv
<1>8. CASE CreateCertificates
    <2>1. request' \in Request
        BY <1>8, OrdersAreMade DEF BuildingInv, CreateCertificates
    <2> QED BY <1>8, <2>1 DEF CreateCertificates, BuildingInv
<1> QED BY <1>1, <1>2, <1>4, <1>5, <1>6, <1>7, <1>8 DEF Next

\* The invariant of transaction building.
LEMMA BuildingInvHolds == Spec => []BuildingInv
<1>1. Init => BuildingInv
    BY DEF Init, BuildingInv
<1>2. BuildingInv /\ [Next]_vars => BuildingInv'
    <2>1. BuildingInv /\ UNCHANGED vars => BuildingInv'
        BY DEF BuildingInv, vars, SelectionIsMade, Balanced, BuildTx
    <2> QED BY <2>1, BuildingNextInv
<1> QED BY <1>1, <1>2, PTL DEF Spec

\* The certificates and the withdrawals of a request, as the library finds them
\* in a body that holds them.
LEMMA ImplicitAsCounted ==
    ASSUME NEW r \in Request, OnePerAddress(ListOf(r.withdrawals)), NEW sel, NEW interval
    PROVE  LET whole == CreateTransactionInternals(sel, interval, r.certificates, r.withdrawals)
           IN ComputeImplicitCoin(r)
                = [deposit |-> LibraryDeposit(whole), input |-> LibraryImplicitInput(whole)]
<1> DEFINE whole == CreateTransactionInternals(sel, interval, r.certificates, r.withdrawals)
           c == ListOf(r.certificates)
           w == ListOf(r.withdrawals)
           W == WithdrawalMap(w)
           taken == SumFunctionOnSet([e \in W |-> e.quantity], W)
<1>1. PICK n : IsList(c, n, CertificateKind)
    BY RequestsAreTyped
<1>2. PICK m : IsList(w, m, Withdrawal)
    BY RequestsAreTyped
<1>3. whole.certificates = c /\ whole.withdrawals = W
    BY DEF CreateTransactionInternals
<1>4. \A kind : Count(whole, kind) = Cardinality(OfKind(DOMAIN c, c, kind))
    BY <1>3 DEF Count, OfKind
<1>5. LibraryDeposit(whole) = SumOf([i \in DOMAIN c |-> DepositOf(c[i])])
    <2> HIDE DEF c, whole
    <2> QED BY <1>1, <1>4, DepositsAreCounted DEF LibraryDeposit
<1>6. WithdrawalsTotal(r.withdrawals) = SumOf([i \in DOMAIN w |-> w[i].quantity])
    <2>1. CASE r.withdrawals = Undefined
        <3>1. w = <<>> /\ DOMAIN w = {}
            BY <2>1 DEF ListOf
        <3>2. [i \in DOMAIN w |-> r.withdrawals[i].quantity] = [i \in DOMAIN w |-> w[i].quantity]
            BY <3>1
        <3> QED BY <3>2 DEF WithdrawalsTotal
    <2>2. CASE r.withdrawals # Undefined
        BY <2>2 DEF ListOf, WithdrawalsTotal
    <2> QED BY <2>1, <2>2
<1>7. WithdrawalsTotal(r.withdrawals) = taken
    <2>1. IsList(w, m, Withdrawal) /\ OnePerAddress(w)
        BY <1>2
    <2> HIDE DEF w
    <2>2. SumOf([i \in DOMAIN w |-> w[i].quantity]) = SumFunctionOnSet([e \in W |-> e.quantity], W)
        BY <2>1, WithdrawalsAreCounted
    <2> QED BY <1>6, <2>2
<1> DEFINE registered == StakeKeyDeposit * Cardinality(OfKind(DOMAIN c, c, "stakeDeregistration"))
           retired == PoolDeposit * Cardinality(OfKind(DOMAIN c, c, "poolRetirement"))
<1>8. SumOf([i \in DOMAIN c |-> ReclaimOf(c[i])]) = registered + retired
    <2> HIDE DEF c
    <2> QED BY <1>1, DepositsAreCounted
<1>9. LibraryImplicitInput(whole) = taken + registered + retired
    <2> HIDE DEF c, W, whole
    <2> QED BY <1>3, <1>4 DEF LibraryImplicitInput
<1>10. taken \in Nat
    <2>1. W \subseteq Withdrawal /\ IsFiniteSet(W)
        <3>1. IsFiniteSet(DOMAIN w) /\ \A i \in DOMAIN w : w[i] \in Withdrawal
            BY <1>2, ListsAreFinite
        <3>2. IsFiniteSet({w[i] : i \in DOMAIN w}) /\ W \subseteq {w[i] : i \in DOMAIN w}
            <4> HIDE DEF w
            <4>1. PICK D, T : D = DOMAIN w /\ T = {w[i] : i \in D}
                OBVIOUS
            <4>2. w \in [D -> T]
                <5>1. w = [i \in D |-> w[i]]
                    BY <1>2, <4>1 DEF IsList
                <5> QED BY <4>1, <5>1
            <4>3. w \in Surjection(D, T)
                BY <4>1, <4>2 DEF Surjection
            <4>4. IsFiniteSet(T)
                BY <3>1, <4>1, <4>3, FS_Surjection
            <4> QED BY <4>1, <4>4 DEF WithdrawalMap
        <3> HIDE DEF w, W
        <3>3. IsFiniteSet(W)
            BY <3>2, FS_Subset
        <3> QED BY <3>1, <3>2, <3>3
    <2> DEFINE g == [e \in W |-> e.quantity]
    <2>2. \A e \in W : g[e] \in Nat
        BY <2>1, BuildingAssumption DEF Withdrawal, BuildingAssumption
    <2> HIDE DEF W, g
    <2>3. SumFunctionOnSet(g, W) \in Nat
        BY <2>1, <2>2, SumNat
    <2> QED BY <2>3 DEF g
<1>11. registered \in Nat /\ retired \in Nat
    <2>1. IsFiniteSet(DOMAIN c)
        BY <1>1, ListsAreFinite
    <2> HIDE DEF c
    <2>2. \A kind : Cardinality(OfKind(DOMAIN c, c, kind)) \in Nat
        <3>1. TAKE kind
        <3>2. PICK K : K = OfKind(DOMAIN c, c, kind)
            OBVIOUS
        <3>3. IsFiniteSet(K)
            <4>1. K \in SUBSET (DOMAIN c)
                BY <3>2 DEF OfKind
            <4> QED BY <2>1, <4>1, FS_Subset
        <3> QED BY <3>2, <3>3, FS_CardinalityType
    <2>3. PICK x \in Nat : x = Cardinality(OfKind(DOMAIN c, c, "stakeDeregistration"))
        BY <2>2
    <2>4. PICK y \in Nat : y = Cardinality(OfKind(DOMAIN c, c, "poolRetirement"))
        BY <2>2
    <2> QED BY <2>3, <2>4, BuildingAssumption DEF BuildingAssumption
<1> HIDE DEF taken, registered, retired, whole
<1>12. taken + (registered + retired) = taken + registered + retired
    BY ONLY <1>10, <1>11
<1>13. ComputeImplicitCoin(r) = [deposit |-> SumOf([i \in DOMAIN c |-> DepositOf(c[i])]),
                                 input |-> taken + (registered + retired)]
    BY <1>7, <1>8 DEF ComputeImplicitCoin
<1> HIDE DEF c, w, W
<1>14. ComputeImplicitCoin(r) = [deposit |-> LibraryDeposit(whole), input |-> LibraryImplicitInput(whole)]
    BY <1>5, <1>9, <1>12, <1>13
<1> QED BY <1>14 DEF whole

\* A selection that balances with the implicit coin of its request makes a body
\* with the certificates and the withdrawals that preserves value.
LEMMA WholeIsPreserved ==
    ASSUME BuildingInv, SelectionIsMade, OnePerAddress(ListOf(request.withdrawals)),
           implicit = ComputeImplicitCoin(request)
    PROVE  LET whole == CreateTransactionInternals(selection, validity, request.certificates,
                                                   request.withdrawals)
           IN /\ implicit = [deposit |-> LibraryDeposit(whole), input |-> LibraryImplicitInput(whole)]
              /\ ValuePreserved(whole)
<1> DEFINE whole == CreateTransactionInternals(selection, validity, request.certificates,
                                               request.withdrawals)
<1>1. implicit = [deposit |-> LibraryDeposit(whole), input |-> LibraryImplicitInput(whole)]
    BY ImplicitAsCounted DEF BuildingInv
<1>2. whole.inputs = selection.inputs /\ whole.fee = selection.fee
    BY DEF CreateTransactionInternals
<1>3. Paid(whole.outputs) = Paid(selection.outputs) + Paid(ChangeValues(selection.change))
    <2>1. PICK S : IsList(selection.outputs, 1, S) /\ \A v \in S : v.coins \in Nat
        BY OutputsAreAList DEF BuildingInv, SelectionIsMade
    <2>2. PICK n : IsList(selection.change, n, Nat)
        BY DEF SelectionIsMade
    <2> QED BY <2>1, <2>2, BodyPays
<1>4. /\ Coins(selection.inputs) \in Nat /\ implicit \in [deposit : Nat, input : Nat]
      /\ Paid(selection.outputs) \in Nat /\ Paid(ChangeValues(selection.change)) \in Nat
      /\ selection.fee \in Nat
    BY RequestIsPaid, ChangeIsPaid, ImplicitIsNat, CoinsAreNat DEF BuildingInv, SelectionIsMade
<1> HIDE DEF whole
<1>5. PICK d \in Nat, i \in Nat : implicit.deposit = d /\ implicit.input = i
    BY <1>4
<1>6. PICK p \in Nat, c \in Nat, f \in Nat :
          Paid(selection.outputs) = p /\ Paid(ChangeValues(selection.change)) = c /\ selection.fee = f
    BY <1>4
<1>7. Coins(selection.inputs) + i = p + d + c + f
    BY <1>5, <1>6 DEF SelectionIsMade, Balanced
<1>8. LibraryImplicitInput(whole) = i /\ LibraryDeposit(whole) = d
    BY <1>1, <1>5
<1>9. p + d + c + f = (p + c) + f + d
    BY ONLY d \in Nat, p \in Nat, c \in Nat, f \in Nat
<1>10. ValuePreserved(whole)
    BY <1>2, <1>3, <1>6, <1>7, <1>8, <1>9 DEF ValuePreserved
<1> QED BY <1>1, <1>10 DEF whole

\* The implicit coin of a request is what the serialization library finds in a
\* body with its certificates and withdrawals, and with it the selection
\* preserves value, unless an address is withdrawn from twice
\* (computeImplicitCoin).
THEOREM ImplicitCoinIsRight == Spec => []ImplicitCoinAsLibrary
<1>1. BuildingInv => ImplicitCoinAsLibrary
    <2>1. SUFFICES ASSUME BuildingInv, stage = "selected", OnePerAddress(ListOf(request.withdrawals))
                   PROVE  ImplicitCoinAsLibrary
        BY DEF ImplicitCoinAsLibrary
    <2>2. SelectionIsMade /\ implicit = ComputeImplicitCoin(request)
        BY <2>1 DEF BuildingInv
    <2> QED BY <2>1, <2>2, WholeIsPreserved DEF ImplicitCoinAsLibrary
<1> QED BY <1>1, BuildingInvHolds, PTL

\* The body initializeTx returns has neither certificates nor withdrawals, and it
\* preserves value exactly if the implicit coin of its request cancels out.
THEOREM PlainBodyIsBalanced == Spec => []PlainBodyPreservesValue
<1>1. BuildingInv => PlainBodyPreservesValue
    <2> SUFFICES ASSUME BuildingInv, stage = "built" PROVE PlainBodyPreservesValue
        BY DEF PlainBodyPreservesValue
    <2>1. SelectionIsMade /\ implicit = ComputeImplicitCoin(request) /\ body = BuildTx(selection)
        BY DEF BuildingInv
    <2>2. /\ body.inputs = selection.inputs /\ body.fee = selection.fee
          /\ body.certificates = <<>> /\ body.withdrawals = {}
        BY <2>1 DEF BuildTx, CreateTransactionInternals, ListOf, WithdrawalMap
    <2>3. Paid(body.outputs) = Paid(selection.outputs) + Paid(ChangeValues(selection.change))
        <3>1. PICK S : IsList(selection.outputs, 1, S) /\ \A v \in S : v.coins \in Nat
            BY <2>1, OutputsAreAList DEF BuildingInv, SelectionIsMade
        <3>2. PICK n : IsList(selection.change, n, Nat)
            BY <2>1 DEF SelectionIsMade
        <3> QED BY <2>1, <3>1, <3>2, BodyPays DEF BuildTx
    <2>4. LibraryDeposit(body) = 0 /\ LibraryImplicitInput(body) = 0
        <3>1. \A kind : Count(body, kind) = 0
            <4>1. TAKE kind
            <4>2. {i \in DOMAIN body.certificates : body.certificates[i] = kind} = {}
                BY <2>2
            <4>3. PICK E : E = {} /\ Cardinality(E) = 0
                BY FS_EmptySet
            <4>4. {i \in DOMAIN body.certificates : body.certificates[i] = kind} = E
                BY <4>2, <4>3
            <4> QED BY <4>3, <4>4 DEF Count
        <3>2. SumFunctionOnSet([w \in body.withdrawals |-> w.quantity], body.withdrawals) = 0
            <4>1. PICK g : g = [w \in body.withdrawals |-> w.quantity]
                OBVIOUS
            <4>2. SumFunctionOnSet(g, {}) = 0
                BY SumEmpty
            <4> QED BY <2>2, <4>1, <4>2
        <3>3. StakeKeyDeposit * 0 = 0 /\ PoolDeposit * 0 = 0
            BY BuildingAssumption DEF BuildingAssumption
        <3> QED BY <3>1, <3>2, <3>3 DEF LibraryDeposit, LibraryImplicitInput
    <2>5. /\ Coins(selection.inputs) \in Nat /\ implicit \in [deposit : Nat, input : Nat]
          /\ Paid(selection.outputs) \in Nat /\ Paid(ChangeValues(selection.change)) \in Nat
          /\ selection.fee \in Nat
        BY <2>1, RequestIsPaid, ChangeIsPaid, ImplicitIsNat, CoinsAreNat DEF BuildingInv, SelectionIsMade
    <2>6. PICK d \in Nat, i \in Nat, x \in Nat : implicit.deposit = d /\ implicit.input = i
                                                /\ Coins(selection.inputs) = x
        BY <2>5
    <2>7. PICK p \in Nat, c \in Nat, f \in Nat :
              Paid(selection.outputs) = p /\ Paid(ChangeValues(selection.change)) = c /\ selection.fee = f
        BY <2>5
    <2>8. x + i = p + d + c + f
        BY <2>1, <2>6, <2>7 DEF SelectionIsMade, Balanced
    <2>9. ValuePreserved(body) <=> x + 0 = (p + c) + f + 0
        BY <2>2, <2>3, <2>4, <2>6, <2>7 DEF ValuePreserved
    <2>10. x + 0 = (p + c) + f + 0 <=> i = d
        BY <2>8
    <2> QED BY <2>6, <2>9, <2>10 DEF PlainBodyPreservesValue
<1> QED BY <1>1, BuildingInvHolds, PTL

\* The validity interval is that of a tip, and one key signs.
ValidityInv ==
    /\ stage \in {"tipRead", "selected", "built", "signed"} =>
           \E slot \in 0..MaxSlot : validity = EnsureValidityInterval(slot, request.interval)
    /\ witnesses = IF stage = "signed" THEN {PrivateParentKey} ELSE {}
    /\ implicit \in [deposit : Nat, input : Nat]

LEMMA ValidityInvHolds == Spec => []ValidityInv
<1>1. Init => ValidityInv
    BY DEF Init, ValidityInv
<1>2. BuildingInv /\ ValidityInv /\ [Next]_vars => ValidityInv'
    <2>1. ASSUME BuildingInv, ValidityInv, NEW slot \in 0..MaxSlot, TipRead(slot) PROVE ValidityInv'
        <3>1. ComputeImplicitCoin(request) \in [deposit : Nat, input : Nat]
            BY <2>1, ImplicitIsNat DEF BuildingInv
        <3> QED BY <2>1, <3>1 DEF TipRead, ValidityInv
    <2>2. ASSUME ValidityInv, NEW costed \in SUBSET RepositoryEntries, NEW extra \in SUBSET RepositoryEntries,
                 SelectInputs(costed, extra)
          PROVE  ValidityInv'
        <3>1. stage = "tipRead" /\ stage' = "selected" /\ UNCHANGED <<request, validity, implicit, witnesses>>
            BY <2>2 DEF SelectInputs
        <3> QED BY <2>2, <3>1 DEF ValidityInv
    <2>3. ValidityInv /\ (Build \/ SignTx \/ Rejected \/ FactoryThrows \/ CreateCertificates) => ValidityInv'
        BY DEF Build, SignTx, Rejected, FactoryThrows, CreateCertificates, ValidityInv
    <2>4. ValidityInv /\ UNCHANGED vars => ValidityInv'
        BY DEF vars, ValidityInv
    <2> QED BY <2>1, <2>2, <2>3, <2>4 DEF Next
<1> QED BY <1>1, <1>2, BuildingInvHolds, PTL DEF Spec

\* A built transaction has a last slot, unless the request says zero or
\* undefined: the default is replaced also then (ensureValidityInterval).
THEOREM BodiesExpire == Spec => []TransactionsExpire
<1>1. BuildingInv /\ ValidityInv => TransactionsExpire
    <2>1. SUFFICES ASSUME BuildingInv, ValidityInv, stage = "built", body.ttl = Undefined
                   PROVE  "invalidHereafter" \in DOMAIN request.interval
                          /\ request.interval.invalidHereafter \in {0, Undefined}
        BY DEF TransactionsExpire
    <2>2. PICK slot \in 0..MaxSlot : validity = EnsureValidityInterval(slot, request.interval)
        BY <2>1 DEF ValidityInv
    <2>3. body.ttl = Bound(validity.invalidHereafter)
        BY <2>1 DEF BuildingInv, BuildTx, CreateTransactionInternals
    <2>4. validity.invalidHereafter \in {0, Undefined}
        BY <2>1, <2>3 DEF Bound
    <2>5. slot + 3600 \notin {0, Undefined}
        BY BuildingAssumption DEF BuildingAssumption
    <2> QED BY <2>2, <2>4, <2>5 DEF EnsureValidityInterval
<1> QED BY <1>1, BuildingInvHolds, ValidityInvHolds, PTL

\* The parts of a transaction under construction have their types; in particular
\* no fee is zero and no bound of a built transaction is.
THEOREM BuildingTypeCorrect == Spec => []BuildingTypeOK
<1>1. BuildingInv /\ ValidityInv => BuildingTypeOK
    <2> SUFFICES ASSUME BuildingInv, ValidityInv PROVE BuildingTypeOK
        OBVIOUS
    <2>1. ASSUME stage \in {"selected", "built", "signed"}
          PROVE  selection.fee \in Nat \ {0}
        BY <2>1 DEF BuildingInv, SelectionIsMade
    <2>2. ASSUME stage \in {"built", "signed"}
          PROVE  {body.ttl, body.start} \subseteq (Nat \ {0}) \cup {Undefined}
        <3>1. PICK slot \in 0..MaxSlot : validity = EnsureValidityInterval(slot, request.interval)
            BY <2>2 DEF ValidityInv
        <3>2. body.ttl = Bound(validity.invalidHereafter) /\ body.start = Bound(validity.invalidBefore)
            BY <2>2 DEF BuildingInv, BuildTx, CreateTransactionInternals
        <3>3. request.interval \in Interval /\ slot + 3600 \in Nat
            BY BuildingAssumption DEF BuildingInv, Request, BuildingAssumption
        <3>4. validity.invalidHereafter \in Nat \cup {Undefined}
            <4>1. "invalidHereafter" \in DOMAIN request.interval =>
                      request.interval.invalidHereafter \in Nat \cup {Undefined}
                BY <3>3 DEF Interval
            <4> QED BY <3>1, <3>3, <4>1 DEF EnsureValidityInterval
        <3>5. validity.invalidBefore \in Nat \cup {Undefined}
            <4>1. "invalidBefore" \in DOMAIN request.interval =>
                      request.interval.invalidBefore \in Nat \cup {Undefined}
                BY <3>3 DEF Interval
            <4> QED BY <3>1, <4>1 DEF EnsureValidityInterval
        <3> QED BY <3>2, <3>4, <3>5 DEF Bound
    <2>3. implicit \in [deposit : Nat, input : Nat] /\ witnesses \subseteq {PrivateParentKey}
        BY DEF ValidityInv
    <2>4. stage \in {"ordering", "called", "tipRead", "selected", "built", "signed", "failed"}
        BY DEF BuildingInv
    <2> QED BY <2>1, <2>2, <2>3, <2>4 DEF BuildingTypeOK
<1> QED BY <1>1, BuildingInvHolds, ValidityInvHolds, PTL

-----------------------------------------------------------------------------
(* GoldenGenerator: the heights of the answers *)

Answer == [type : {"backward"}, height : Nat]
            \cup [type : {"forward"}, height : Nat, block : Block]

\* The height the tool is at once it has handled k of the answers in the pipe.
HeightAfter(seen, answers, k) == IF k = 0 THEN Len(seen) ELSE answers[k].height

\* An answer continues at the next height, or rolls back.
Continues(answer, height) ==
    IF answer.type = "forward" THEN answer.height = height + 1 ELSE answer.height <= height

Following == status \in {"starting", "syncing"}

GoldenTyped ==
    /\ chain \in Seq(Block)
    /\ pointer \in 0..Len(chain)
    /\ undo \in BOOLEAN
    /\ pipe \in Seq(Answer)
    /\ view \in Seq(Block)

HeightsFollow ==
    /\ status = "starting" => requests = 0 /\ pipe = <<>>
    /\ Following =>
          /\ \A k \in 1..Len(pipe) : Continues(pipe[k], HeightAfter(view, pipe, k - 1))
          /\ pointer <= HeightAfter(view, pipe, Len(pipe))
          /\ ~ undo => pointer = HeightAfter(view, pipe, Len(pipe))

GoldenInv == GoldenTyped /\ HeightsFollow /\ BlocksAreOfOneChain

\* The tool is at a height, however many answers it has handled.
LEMMA HeightsAreNat ==
    ASSUME NEW seen \in Seq(Block), NEW answers \in Seq(Answer), NEW k \in 0..Len(answers)
    PROVE  HeightAfter(seen, answers, k) \in Nat
<1>1. CASE k = 0
    BY <1>1 DEF HeightAfter
<1>2. CASE k # 0
    <2>1. answers[k] \in Answer
        BY <1>2
    <2> QED BY <1>2, <2>1 DEF HeightAfter, Answer
<1> QED BY <1>1, <1>2

\* An answer that continues where the pipe ends can be appended to it.
LEMMA AppendedContinues ==
    ASSUME NEW seen \in Seq(Block), NEW answers \in Seq(Answer), NEW answer \in Answer,
           \A k \in 1..Len(answers) : Continues(answers[k], HeightAfter(seen, answers, k - 1)),
           Continues(answer, HeightAfter(seen, answers, Len(answers)))
    PROVE  LET more == Append(answers, answer)
           IN /\ more \in Seq(Answer)
              /\ \A k \in 1..Len(more) : Continues(more[k], HeightAfter(seen, more, k - 1))
              /\ HeightAfter(seen, more, Len(more)) = answer.height
<1> DEFINE more == Append(answers, answer)
           n == Len(answers)
<1>1. /\ more \in Seq(Answer) /\ n \in Nat /\ Len(more) = n + 1 /\ more[n + 1] = answer
      /\ \A k \in 1..n : more[k] = answers[k]
    OBVIOUS
<1> HIDE DEF more, n
<1>2. \A k \in 0..n : HeightAfter(seen, more, k) = HeightAfter(seen, answers, k)
    BY <1>1 DEF HeightAfter
<1>3. ASSUME NEW k \in 1..(n + 1)
      PROVE  Continues(more[k], HeightAfter(seen, more, k - 1))
    <2>1. CASE k \in 1..n
        <3>1. k - 1 \in 0..n
            BY <1>1
        <3> QED BY <1>1, <1>2, <2>1, <3>1 DEF n
    <2>2. CASE k = n + 1
        <3>1. k - 1 = n /\ n \in 0..n
            BY <1>1, <2>2
        <3> QED BY <1>1, <1>2, <2>2, <3>1 DEF n
    <2> QED BY <1>1, <2>1, <2>2
<1>4. HeightAfter(seen, more, n + 1) = answer.height
    BY <1>1 DEF HeightAfter
<1> QED BY <1>1, <1>3, <1>4 DEF more

\* When the first answer is handled, the tool is at its height.
LEMMA HandledContinues ==
    ASSUME NEW seen \in Seq(Block), NEW answers \in Seq(Answer), answers # <<>>,
           \A k \in 1..Len(answers) : Continues(answers[k], HeightAfter(seen, answers, k - 1)),
           NEW now \in Seq(Block), Len(now) = Head(answers).height
    PROVE  LET rest == Tail(answers)
           IN /\ rest \in Seq(Answer)
              /\ \A k \in 1..Len(rest) : Continues(rest[k], HeightAfter(now, rest, k - 1))
              /\ HeightAfter(now, rest, Len(rest)) = HeightAfter(seen, answers, Len(answers))
<1> DEFINE rest == Tail(answers)
           n == Len(answers)
<1>1. /\ rest \in Seq(Answer) /\ n \in Nat \ {0} /\ Len(rest) = n - 1 /\ Head(answers) = answers[1]
      /\ \A k \in 1..(n - 1) : rest[k] = answers[k + 1]
    OBVIOUS
<1> HIDE DEF rest
<1>2. \A k \in 0..(n - 1) : HeightAfter(now, rest, k) = HeightAfter(seen, answers, k + 1)
    BY <1>1 DEF HeightAfter
<1>3. ASSUME NEW k \in 1..(n - 1)
      PROVE  Continues(rest[k], HeightAfter(now, rest, k - 1))
    <2>1. k - 1 \in 0..(n - 1) /\ (k - 1) + 1 = k /\ k + 1 \in 1..n /\ (k + 1) - 1 = k
        BY <1>1
    <2>2. Continues(answers[k + 1], HeightAfter(seen, answers, k))
        BY <2>1
    <2> QED BY <1>1, <1>2, <2>1, <2>2
<1>4. HeightAfter(now, rest, n - 1) = HeightAfter(seen, answers, n)
    <2>1. n - 1 \in 0..(n - 1) /\ (n - 1) + 1 = n
        BY <1>1
    <2> QED BY <1>2, <2>1
<1> QED BY <1>1, <1>3, <1>4 DEF rest

\* The pipe and the pointer as long as the tool follows the chain.
LEMMA ChainMoves ==
    ASSUME GoldenInv, NEW block \in Block, Extend(block)
    PROVE  GoldenInv'
<1>1. /\ chain' = Append(chain, block)
      /\ UNCHANGED <<pointer, undo, pipe, requests, tool, status, response, view>>
    BY DEF Extend, toolVars, recordVars
<1>2. chain' \in Seq(Block) /\ pointer' \in 0..Len(chain')
    BY <1>1 DEF GoldenInv, GoldenTyped
<1>3. GoldenTyped' /\ HeightsFollow'
    BY <1>1, <1>2 DEF GoldenInv, GoldenTyped, HeightsFollow, Following, HeightAfter
<1> QED BY <1>1, <1>3 DEF GoldenInv, BlocksAreOfOneChain

\* A fork takes the pointer back below the fork at most.
LEMMA ChainForks ==
    ASSUME GoldenInv, NEW n \in 0..Len(chain) - 1, Fork(n)
    PROVE  GoldenInv'
<1>1. /\ chain' = SubSeq(chain, 1, n) /\ pointer' = IF n < pointer THEN n ELSE pointer
      /\ undo' = (undo \/ n < pointer)
      /\ UNCHANGED <<pipe, requests, tool, status, response, view>>
    BY DEF Fork, toolVars, recordVars
<1>2. chain \in Seq(Block) /\ pointer \in 0..Len(chain) /\ undo \in BOOLEAN
    BY DEF GoldenInv, GoldenTyped
<1>3. chain' \in Seq(Block) /\ Len(chain') = n
    BY <1>1, <1>2
<1>4. pointer' \in 0..Len(chain') /\ pointer' <= pointer /\ undo' \in BOOLEAN
      /\ (~ undo' => pointer' = pointer /\ ~ undo)
    <2>1. PICK l \in Nat : l = Len(chain)
        BY <1>2
    <2>2. pointer \in 0..l /\ n \in 0..l - 1 /\ Len(chain') = n
        BY <1>2, <1>3, <2>1
    <2>3. pointer' \in 0..n /\ pointer' <= pointer
        BY <1>1, <2>2
    <2>4. undo' \in BOOLEAN /\ (~ undo' => pointer' = pointer /\ ~ undo)
        BY <1>1, <1>2
    <2> QED BY <2>2, <2>3, <2>4
<1>5. GoldenTyped'
    BY <1>1, <1>3, <1>4 DEF GoldenInv, GoldenTyped
<1>6. HeightsFollow'
    <2>1. HeightAfter(view, pipe, Len(pipe)) \in Nat
        <3>1. Len(pipe) \in 0..Len(pipe) /\ view \in Seq(Block) /\ pipe \in Seq(Answer)
            BY DEF GoldenInv, GoldenTyped
        <3> QED BY <3>1, HeightsAreNat
    <2>2. Following => pointer' <= HeightAfter(view, pipe, Len(pipe))
        BY <1>2, <1>4, <2>1 DEF GoldenInv, HeightsFollow
    <2> QED BY <1>1, <1>4, <2>2 DEF GoldenInv, HeightsFollow, Following, HeightAfter
<1> QED BY <1>1, <1>5, <1>6 DEF GoldenInv, BlocksAreOfOneChain

\* An answer continues where the last one in the pipe ends.
LEMMA NodeServes ==
    ASSUME GoldenInv, Serve
    PROVE  GoldenInv'
<1> DEFINE answer == IF undo THEN [type |-> "backward", height |-> pointer]
                     ELSE [type |-> "forward", height |-> pointer + 1, block |-> chain[pointer + 1]]
<1>1. /\ requests > 0 /\ (undo \/ pointer < Len(chain)) /\ undo' = FALSE
      /\ pipe' = Append(pipe, answer)
      /\ pointer' = IF undo THEN pointer ELSE pointer + 1
      /\ UNCHANGED <<chain, tool, status, response, view>>
    BY DEF Serve, toolVars, recordVars
<1>2. /\ chain \in Seq(Block) /\ pointer \in 0..Len(chain) /\ undo \in BOOLEAN
      /\ pipe \in Seq(Answer) /\ view \in Seq(Block)
    BY DEF GoldenInv, GoldenTyped
<1>3. pointer' \in 0..Len(chain') /\ answer.height = pointer'
    BY <1>1, <1>2
<1>4. answer \in Answer
    <2>1. CASE undo
        BY <1>2, <2>1 DEF Answer
    <2>2. CASE ~ undo
        <3>1. pointer + 1 \in 1..Len(chain)
            BY <1>1, <1>2, <2>2
        <3>2. chain[pointer + 1] \in Block
            BY <1>2, <3>1
        <3> QED BY <1>2, <2>2, <3>1, <3>2 DEF Answer
    <2> QED BY <2>1, <2>2
<1>5. GoldenTyped'
    <2> HIDE DEF answer
    <2>1. pipe' \in Seq(Answer)
        BY <1>1, <1>2, <1>4
    <2> QED BY <1>1, <1>2, <1>3, <2>1 DEF GoldenTyped
<1>6. status # "starting"
    BY <1>1 DEF GoldenInv, HeightsFollow
<1>7. ASSUME Following PROVE HeightsFollow'
    <2>1. /\ \A k \in 1..Len(pipe) : Continues(pipe[k], HeightAfter(view, pipe, k - 1))
          /\ pointer <= HeightAfter(view, pipe, Len(pipe))
          /\ ~ undo => pointer = HeightAfter(view, pipe, Len(pipe))
        BY <1>7 DEF GoldenInv, HeightsFollow
    <2>2. Continues(answer, HeightAfter(view, pipe, Len(pipe)))
        BY <2>1 DEF Continues
    <2> HIDE DEF answer
    <2>3. PICK more : more = Append(pipe, answer)
        OBVIOUS
    <2>4. /\ \A k \in 1..Len(more) : Continues(more[k], HeightAfter(view, more, k - 1))
          /\ HeightAfter(view, more, Len(more)) = answer.height
        BY <1>2, <1>4, <2>1, <2>2, <2>3, AppendedContinues
    <2>5. pipe' = more /\ view' = view /\ status' = status
        BY <1>1, <2>3
    <2>6. pointer' <= answer.height /\ pointer' = answer.height
        BY <1>1, <1>2, <1>3
    <2> QED BY <1>6, <2>4, <2>5, <2>6 DEF HeightsFollow, HeightAfter
<1>8. ASSUME ~ Following PROVE HeightsFollow'
    BY <1>1, <1>8 DEF HeightsFollow, Following
<1> QED BY <1>1, <1>5, <1>7, <1>8 DEF GoldenInv, BlocksAreOfOneChain

\* The first requests are sent before there is any answer.
LEMMA ToolStarts ==
    ASSUME GoldenInv, Start
    PROVE  GoldenInv'
<1>1. /\ status = "starting" /\ status' \in {"syncing", "thrown", "rejected"}
      /\ UNCHANGED <<chain, pointer, undo, pipe, tool, response, view>>
    BY DEF Start, nodeVars, recordVars
<1>2. GoldenTyped' /\ HeightsFollow'
    BY <1>1 DEF GoldenInv, GoldenTyped, HeightsFollow, Following, HeightAfter
<1> QED BY <1>1, <1>2 DEF GoldenInv, BlocksAreOfOneChain

\* The heights after an answer that takes the tool to its height.
LEMMA AnswerHandled ==
    ASSUME GoldenInv, Following, pipe # <<>>, pipe' = Tail(pipe), view' \in Seq(Block),
           Len(view') = Head(pipe).height, status' # "starting",
           UNCHANGED <<pointer, undo>>
    PROVE  HeightsFollow'
<1>1. view \in Seq(Block) /\ pipe \in Seq(Answer)
    BY DEF GoldenInv, GoldenTyped
<1>2. /\ \A k \in 1..Len(pipe) : Continues(pipe[k], HeightAfter(view, pipe, k - 1))
      /\ pointer <= HeightAfter(view, pipe, Len(pipe))
      /\ ~ undo => pointer = HeightAfter(view, pipe, Len(pipe))
    BY DEF GoldenInv, HeightsFollow
<1>3. (\E rest : rest = Tail(pipe)) /\ (\E now \in Seq(Block) : now = view')
    OBVIOUS
<1> PICK rest : rest = Tail(pipe)
    BY <1>3
<1> PICK now \in Seq(Block) : now = view'
    BY <1>3
<1>4. /\ \A k \in 1..Len(rest) : Continues(rest[k], HeightAfter(now, rest, k - 1))
      /\ HeightAfter(now, rest, Len(rest)) = HeightAfter(view, pipe, Len(pipe))
    BY <1>1, <1>2, HandledContinues
<1>5. pipe' = rest /\ view' = now
    OBVIOUS
<1> QED BY <1>2, <1>4, <1>5 DEF HeightsFollow, HeightAfter

\* A rollback shortens the view to the height it names.
LEMMA ToolRollsBack ==
    ASSUME GoldenInv, RollBackward
    PROVE  GoldenInv'
<1>1. /\ status \in {"syncing", "draining"} /\ pipe # <<>> /\ Head(pipe).type = "backward"
      /\ pipe' = Tail(pipe) /\ ViewRollsBack(Head(pipe).height)
      /\ UNCHANGED <<chain, pointer, undo, tool, status, response>>
    BY DEF RollBackward, nodeVars, recordVars
<1>2. /\ view \in Seq(Block) /\ pipe \in Seq(Answer)
      /\ chain \in Seq(Block) /\ pointer \in 0..Len(chain) /\ undo \in BOOLEAN
    BY DEF GoldenInv, GoldenTyped
<1>3. pipe' \in Seq(Answer)
    BY <1>1, <1>2
<1>4. CASE status = "draining"
    <2>1. view' = view
        BY <1>1, <1>4 DEF ViewRollsBack
    <2> QED BY <1>1, <1>2, <1>3, <1>4, <2>1
            DEF GoldenInv, GoldenTyped, HeightsFollow, Following, BlocksAreOfOneChain
<1>5. CASE status = "syncing"
    <2> DEFINE h == Head(pipe).height
    <2>1. view' = SubSeq(view, 1, h)
        BY <1>1, <1>5 DEF ViewRollsBack
    <2>2. h \in Nat /\ h <= Len(view)
        <3>1. 1 \in 1..Len(pipe) /\ Head(pipe) = pipe[1] /\ pipe[1] \in Answer
            BY <1>1, <1>2
        <3>2. Continues(pipe[1], HeightAfter(view, pipe, 1 - 1))
            BY <1>5, <3>1 DEF GoldenInv, HeightsFollow, Following
        <3> QED BY <1>1, <3>1, <3>2 DEF Continues, HeightAfter, Answer
    <2>3. view' \in Seq(Block) /\ Len(view') = h /\ \A i \in 1..h : i \in 1..Len(view) /\ view'[i] = view[i]
        BY <1>2, <2>1, <2>2
    <2>4. HeightsFollow'
        BY <1>1, <1>5, <2>3, AnswerHandled DEF Following
    <2>5. BlocksAreOfOneChain'
        <3>1. DOMAIN view' = 1..h /\ DOMAIN view = 1..Len(view)
            BY <1>2, <2>3
        <3> HIDE DEF h
        <3> QED BY <1>1, <2>3, <3>1 DEF GoldenInv, BlocksAreOfOneChain
    <2>6. GoldenTyped'
        BY <1>1, <1>2, <1>3, <2>3 DEF GoldenTyped
    <2> QED BY <2>4, <2>5, <2>6 DEF GoldenInv
<1> QED BY <1>1, <1>4, <1>5

\* A block is recorded at the height the view then has.
LEMMA ToolRollsForward ==
    ASSUME GoldenInv, RollForward
    PROVE  GoldenInv'
<1> DEFINE m == Head(pipe)
           h == m.height
<1>1. /\ status = "syncing" /\ pipe # <<>> /\ m.type = "forward"
      /\ pipe' = Tail(pipe) /\ view' = Append(view, m.block)
      /\ status' \in {"thrown", "syncing", "draining"}
      /\ UNCHANGED <<chain, pointer, undo, tool>>
    BY DEF RollForward, nodeVars
<1>2. \/ status' = "thrown" /\ response' = response
      \/ \E s : response' = Record(h, Recorded(m.block, s))
    BY DEF RollForward, recordVars
<1>3. /\ view \in Seq(Block) /\ pipe \in Seq(Answer)
      /\ chain \in Seq(Block) /\ pointer \in 0..Len(chain) /\ undo \in BOOLEAN
    BY DEF GoldenInv, GoldenTyped
<1>4. 1 \in 1..Len(pipe) /\ m = pipe[1] /\ m \in Answer
    BY <1>1, <1>3
<1>5. m.block \in Block /\ h = Len(view) + 1
    <2>1. Continues(pipe[1], HeightAfter(view, pipe, 1 - 1))
        BY <1>1, <1>4 DEF GoldenInv, HeightsFollow, Following
    <2> QED BY <1>1, <1>4, <2>1 DEF Continues, HeightAfter, Answer
<1>6. /\ view' \in Seq(Block) /\ Len(view') = h /\ view'[h] = m.block
      /\ \A i \in 1..h : i # h => i \in 1..Len(view) /\ view'[i] = view[i]
    BY <1>1, <1>3, <1>5
<1>7. pipe' \in Seq(Answer)
    BY <1>1, <1>3
<1>9. GoldenTyped'
    BY <1>1, <1>3, <1>6, <1>7 DEF GoldenTyped
<1>10. HeightsFollow'
    BY <1>1, <1>6, AnswerHandled DEF Following
<1>11. BlocksAreOfOneChain'
    <2>1. SUFFICES ASSUME tool = "blocks", status' # "thrown", NEW i \in AtBlocks \cap DOMAIN view'
                   PROVE  i \in DOMAIN response' /\ response'[i] = view'[i]
        BY <1>1 DEF BlocksAreOfOneChain
    <2>2. i \in 1..h /\ DOMAIN view = 1..Len(view)
        BY <1>3, <1>6
    <2>3. response' = IF h \in AtBlocks
                      THEN [x \in DOMAIN response \cup {h} |-> IF x = h THEN m.block ELSE response[x]]
                      ELSE response
        BY <1>2, <2>1 DEF Record, Recorded
    <2>4. i # h => i \in DOMAIN response /\ response[i] = view[i]
        BY <1>1, <1>6, <2>1, <2>2 DEF GoldenInv, BlocksAreOfOneChain
    <2> HIDE DEF h, m
    <2> QED BY <1>3, <1>6, <2>1, <2>2, <2>3, <2>4
<1> QED BY <1>9, <1>10, <1>11 DEF GoldenInv

\* After completion, or when the connection fails, the records stay.
LEMMA ToolEnds ==
    ASSUME GoldenInv, DropForward \/ ShutDown \/ ConnectionFails
    PROVE  GoldenInv'
<1>1. /\ UNCHANGED <<chain, pointer, undo, tool, response, view>>
      /\ status' \in {"draining", "resolved", "rejected"}
      /\ status # "thrown"
      /\ pipe' = pipe \/ (pipe # <<>> /\ pipe' = Tail(pipe))
    BY DEF DropForward, ShutDown, ConnectionFails, Connected,
           nodeVars, recordVars, toolVars
<1>2. pipe' \in Seq(Answer)
    <2>1. pipe \in Seq(Answer)
        BY DEF GoldenInv, GoldenTyped
    <2>2. pipe # <<>> => Tail(pipe) \in Seq(Answer)
        BY <2>1
    <2> QED BY <1>1, <2>1, <2>2
<1> QED BY <1>1, <1>2 DEF GoldenInv, GoldenTyped, HeightsFollow, Following, BlocksAreOfOneChain

\* The invariant of the golden test generator.
LEMMA GoldenInvHolds == GeneratorSpec => []GoldenInv
<1>1. GeneratorInit => GoldenInv
    BY DEF GeneratorInit, GoldenInv, GoldenTyped, HeightsFollow, BlocksAreOfOneChain, HeightAfter
<1>2. GoldenInv /\ [GeneratorNext]_generatorVars => GoldenInv'
    <2>1. GoldenInv /\ UNCHANGED generatorVars => GoldenInv'
        BY DEF GoldenInv, GoldenTyped, HeightsFollow, Following, HeightAfter, BlocksAreOfOneChain,
               generatorVars, nodeVars, toolVars, recordVars
    <2>2. GoldenInv /\ GeneratorNext => GoldenInv'
        BY ChainMoves, ChainForks, NodeServes, ToolStarts, ToolRollsBack, ToolRollsForward, ToolEnds
           DEF GeneratorNext, NodeStep, ToolStep
    <2> QED BY <2>1, <2>2
<1> QED BY <1>1, <1>2, PTL DEF GeneratorSpec

\* What getBlocks has recorded are blocks of the chain the answers describe, at
\* the heights they have there, whatever was rolled back before.
THEOREM RecordedBlocksAreOfOneChain == GeneratorSpec => []BlocksAreOfOneChain
BY GoldenInvHolds, PTL DEF GoldenInv

\* Answers that are handled after the last requested height change no balance
\* and no record, although the node has more of them on the way.
THEOREM CompletionIsFinal ==
    GeneratorSpec => NothingAfterCompletion
<1> DEFINE Final == status \in {"draining", "resolved"} => UNCHANGED recordVars
<1>1. GeneratorNext => Final
    <2>1. \A block \in Block : Extend(block) => Final
        BY DEF Extend, toolVars
    <2>2. \A n \in 0..Len(chain) - 1 : Fork(n) => Final
        BY DEF Fork, toolVars
    <2>3. Serve => Final
        BY DEF Serve, toolVars
    <2>4. Start \/ RollBackward \/ RollForward => Final
        BY DEF Start, RollBackward, RollForward
    <2>5. DropForward \/ ShutDown \/ ConnectionFails => Final
        BY DEF DropForward, ShutDown, ConnectionFails, toolVars
    <2> QED BY <2>1, <2>2, <2>3, <2>4, <2>5 DEF GeneratorNext, NodeStep, ToolStep
<1>2. [GeneratorNext]_generatorVars => [Final]_generatorVars
    BY <1>1
<1> QED BY <1>2, PTL DEF GeneratorSpec, NothingAfterCompletion

-----------------------------------------------------------------------------
(* GoldenGenerator: the loops over outputs, inputs and transactions *)

\* The states of the loops, in which a balance may have gone negative.
Tally == [bal : [Tracked -> Nat \cup {Negative}], txs : Seq(Tx)]

OutputOf == [address : Address, coins : Nat]
Ref == [tx : Tx, index : Nat]

OutputsAdded(s, t) == FoldLeft(LAMBDA r, o : AddOutput(r, t, o), s, Outputs[t])

\* The lists of a transaction.
LEMMA TransactionLists ==
    ASSUME NEW t \in Tx
    PROVE  /\ Outputs[t] \in Seq(OutputOf) /\ Inputs[t] \in Seq(Ref)
           /\ Len(Outputs[t]) \in Nat /\ DOMAIN Outputs[t] = 1..Len(Outputs[t])
           /\ Len(Inputs[t]) \in Nat /\ DOMAIN Inputs[t] = 1..Len(Inputs[t])
           /\ \A i \in DOMAIN Outputs[t] : Outputs[t][i] \in OutputOf
           /\ \A i \in DOMAIN Inputs[t] : Inputs[t][i] \in Ref
<1>1. Outputs[t] \in Seq(OutputOf) /\ Inputs[t] \in Seq(Ref)
    BY GeneratorAssumption DEF OutputOf, Ref
<1> QED BY <1>1

\* applyValue gives a balance or throws.
LEMMA ApplyValueType ==
    ASSUME NEW balance \in Int, NEW coins \in Nat, NEW spending \in BOOLEAN
    PROVE  ApplyValue(balance, coins, spending) \in Nat \cup {Negative}
BY DEF ApplyValue, Negative

\* The loops keep to their states.
LEMMA AddOutputType ==
    ASSUME NEW s \in Tally, NEW t \in Tx, NEW output \in OutputOf
    PROVE  AddOutput(s, t, output) \in Tally
<1>1. CASE Thrown(s) \/ output.address \notin Tracked
    BY <1>1 DEF AddOutput
<1>2. CASE ~ (Thrown(s) \/ output.address \notin Tracked)
    <2> DEFINE v == ApplyValue(s.bal[output.address], output.coins, FALSE)
    <2>1. s.bal \in [Tracked -> Nat \cup {Negative}] /\ s.txs \in Seq(Tx) /\ output.coins \in Nat
        BY DEF Tally, OutputOf
    <2>2. v \in Nat \cup {Negative}
        <3>1. s.bal[output.address] \in Int
            BY <1>2, <2>1 DEF Negative
        <3> QED BY <2>1, <3>1, ApplyValueType
    <2>3. AddOutput(s, t, output) = [bal |-> [s.bal EXCEPT ![output.address] = v], txs |-> Append(s.txs, t)]
        BY <1>2 DEF AddOutput
    <2> HIDE DEF v
    <2>4. [s.bal EXCEPT ![output.address] = v] \in [Tracked -> Nat \cup {Negative}]
        BY <2>1, <2>2
    <2>5. Append(s.txs, t) \in Seq(Tx)
        BY <2>1
    <2> QED BY <2>3, <2>4, <2>5 DEF Tally
<1> QED BY <1>1, <1>2

\* The loops keep to their states.
LEMMA SpendInputType ==
    ASSUME NEW s \in Tally, NEW input \in Ref
    PROVE  SpendInput(s, input) \in Tally
<1> DEFINE o == Outputs[input.tx][input.index]
           skips == \/ Thrown(s) \/ input.tx \notin ToSet(s.txs)
                    \/ input.index \notin DOMAIN Outputs[input.tx]
                    \/ o.address \notin Tracked
<1>1. CASE skips
    BY <1>1 DEF SpendInput
<1>2. CASE ~ skips
    <2> DEFINE v == ApplyValue(s.bal[o.address], o.coins, TRUE)
    <2>1. s.bal \in [Tracked -> Nat \cup {Negative}] /\ s.txs \in Seq(Tx) /\ input.tx \in Tx
        BY DEF Tally, Ref
    <2>2. o \in OutputOf
        BY <1>2, <2>1, TransactionLists
    <2>3. v \in Nat \cup {Negative}
        <3>1. s.bal[o.address] \in Int /\ o.coins \in Nat
            BY <1>2, <2>1, <2>2 DEF Negative, OutputOf
        <3> QED BY <3>1, ApplyValueType
    <2>4. SpendInput(s, input) = [s EXCEPT !.bal[o.address] = v]
        BY <1>2 DEF SpendInput
    <2> HIDE DEF v, o
    <2>5. [s.bal EXCEPT ![o.address] = v] \in [Tracked -> Nat \cup {Negative}]
        BY <2>1, <2>3
    <2>6. SpendInput(s, input) = [s EXCEPT !.bal = [s.bal EXCEPT ![o.address] = v]]
        BY <2>4 DEF Tally
    <2> QED BY <2>1, <2>5, <2>6 DEF Tally
<1> QED BY <1>1, <1>2

\* The loop over the outputs of a transaction.
LEMMA OutputsFolded ==
    ASSUME NEW s \in Tally, NEW t \in Tx
    PROVE  LET n == Len(Outputs[t])
           IN \E p : /\ p \in [0..n -> Tally] /\ p[0] = s /\ p[n] = OutputsAdded(s, t)
                     /\ \A k \in 1..n : p[k] = AddOutput(p[k - 1], t, Outputs[t][k])
<1> DEFINE n == Len(Outputs[t])
           step == [x \in Tally \X (1..n) |-> AddOutput(x[1], t, Outputs[t][x[2]])]
           IsSolution(g) == g = [T \in SUBSET (1..n) |->
                                   IF T = {} THEN s
                                   ELSE AddOutput(g[T \ {Max(T)}], t, Outputs[t][Max(T)])]
           chosen == CHOOSE g : IsSolution(g)
<1>1. n \in Nat /\ DOMAIN Outputs[t] = 1..n /\ \A i \in 1..n : Outputs[t][i] \in OutputOf
    BY TransactionLists
<1>2. step \in [Tally \X (1..n) -> Tally]
    BY <1>1, AddOutputType
<1>3. \A x \in Tally, k \in 1..n : step[<<x, k>>] = AddOutput(x, t, Outputs[t][k])
    OBVIOUS
<1>4. OutputsAdded(s, t) = chosen[1..n]
    BY <1>1 DEF OutputsAdded, FoldLeft, MapThenFoldSet
<1>5. ASSUME NEW T \in SUBSET (1..n), T # {}
      PROVE  Max(T) \in 1..n /\ T \ {Max(T)} \in SUBSET (1..n)
    <2>1. T \in SUBSET (0..n)
        OBVIOUS
    <2>2. Max(T) \in T
        BY <1>1, <1>5, <2>1, MaxIs
    <2> QED BY <2>2
<1>6. \E g : IsSolution(g)
    <2> HIDE DEF n, step
    <2>1. PICK h : h \in [SUBSET (1..n) -> Tally] /\ FoldsBy(h, s, step, SUBSET (1..n))
        BY <1>1, <1>2, FoldsExist
    <2>2. ASSUME NEW T \in SUBSET (1..n), T # {}
          PROVE  h[T] = AddOutput(h[T \ {Max(T)}], t, Outputs[t][Max(T)])
        <3>1. h[T \ {Max(T)}] \in Tally /\ Max(T) \in 1..n
            BY <1>5, <2>1, <2>2
        <3> QED BY <1>3, <2>1, <2>2, <3>1 DEF FoldsBy
    <2>3. h[{}] = s
        BY <2>1 DEF FoldsBy
    <2>4. h = [T \in SUBSET (1..n) |-> IF T = {} THEN s
                                       ELSE AddOutput(h[T \ {Max(T)}], t, Outputs[t][Max(T)])]
        BY <2>1, <2>2, <2>3
    <2> QED BY <2>4
<1>7. IsSolution(chosen)
    <2> HIDE DEF IsSolution
    <2> QED BY <1>6
<1> HIDE DEF n, step, chosen
<1>8. chosen[{}] = s
    BY <1>7
<1>9. \A T \in SUBSET (1..n) : T # {} /\ chosen[T \ {Max(T)}] \in Tally =>
          chosen[T] = step[<<chosen[T \ {Max(T)}], Max(T)>>]
    <2>1. SUFFICES ASSUME NEW T \in SUBSET (1..n), T # {}, chosen[T \ {Max(T)}] \in Tally
                   PROVE  chosen[T] = step[<<chosen[T \ {Max(T)}], Max(T)>>]
        OBVIOUS
    <2>2. chosen[T] = AddOutput(chosen[T \ {Max(T)}], t, Outputs[t][Max(T)])
        BY <1>7, <2>1
    <2> QED BY <1>3, <1>5, <2>1, <2>2
<1>10. PICK p : StepsThrough(p, Tally, n, s, step) /\ p[n] = chosen[1..n]
    <2>1. Recurses(chosen, Tally, n, s, step)
        BY <1>8, <1>9 DEF Recurses
    <2>2. IsStep(step, Tally, n)
        BY <1>2 DEF IsStep
    <2> QED BY <1>1, <2>1, <2>2, FoldGoesThrough
<1>11. p \in [0..n -> Tally] /\ p[0] = s /\ p[n] = OutputsAdded(s, t)
    BY <1>4, <1>10 DEF StepsThrough
<1>12. ASSUME NEW k \in 1..n PROVE p[k] = AddOutput(p[k - 1], t, Outputs[t][k])
    <2>1. k - 1 \in 0..n
        BY <1>1
    <2> QED BY <1>3, <1>10, <2>1 DEF StepsThrough
<1> QED BY <1>11, <1>12 DEF n

\* The loop over the inputs of a transaction.
LEMMA InputsFolded ==
    ASSUME NEW s \in Tally, NEW t \in Tx
    PROVE  LET n == Len(Inputs[t])
           IN \E p : /\ p \in [0..n -> Tally] /\ p[0] = s /\ p[n] = FoldLeft(SpendInput, s, Inputs[t])
                     /\ \A k \in 1..n : p[k] = SpendInput(p[k - 1], Inputs[t][k])
<1> DEFINE n == Len(Inputs[t])
           step == [x \in Tally \X (1..n) |-> SpendInput(x[1], Inputs[t][x[2]])]
           IsSolution(g) == g = [T \in SUBSET (1..n) |->
                                   IF T = {} THEN s
                                   ELSE SpendInput(g[T \ {Max(T)}], Inputs[t][Max(T)])]
           chosen == CHOOSE g : IsSolution(g)
<1>1. n \in Nat /\ DOMAIN Inputs[t] = 1..n /\ \A i \in 1..n : Inputs[t][i] \in Ref
    BY TransactionLists
<1>2. step \in [Tally \X (1..n) -> Tally]
    BY <1>1, SpendInputType
<1>3. \A x \in Tally, k \in 1..n : step[<<x, k>>] = SpendInput(x, Inputs[t][k])
    OBVIOUS
<1>4. FoldLeft(SpendInput, s, Inputs[t]) = chosen[1..n]
    BY <1>1 DEF FoldLeft, MapThenFoldSet
<1>5. ASSUME NEW T \in SUBSET (1..n), T # {}
      PROVE  Max(T) \in 1..n /\ T \ {Max(T)} \in SUBSET (1..n)
    <2>1. T \in SUBSET (0..n)
        OBVIOUS
    <2>2. Max(T) \in T
        BY <1>1, <1>5, <2>1, MaxIs
    <2> QED BY <2>2
<1>6. \E g : IsSolution(g)
    <2> HIDE DEF n, step
    <2>1. PICK h : h \in [SUBSET (1..n) -> Tally] /\ FoldsBy(h, s, step, SUBSET (1..n))
        BY <1>1, <1>2, FoldsExist
    <2>2. ASSUME NEW T \in SUBSET (1..n), T # {}
          PROVE  h[T] = SpendInput(h[T \ {Max(T)}], Inputs[t][Max(T)])
        <3>1. h[T \ {Max(T)}] \in Tally /\ Max(T) \in 1..n
            BY <1>5, <2>1, <2>2
        <3> QED BY <1>3, <2>1, <2>2, <3>1 DEF FoldsBy
    <2>3. h[{}] = s
        BY <2>1 DEF FoldsBy
    <2>4. h = [T \in SUBSET (1..n) |-> IF T = {} THEN s
                                       ELSE SpendInput(h[T \ {Max(T)}], Inputs[t][Max(T)])]
        BY <2>1, <2>2, <2>3
    <2> QED BY <2>4
<1>7. IsSolution(chosen)
    <2> HIDE DEF IsSolution
    <2> QED BY <1>6
<1> HIDE DEF n, step, chosen
<1>8. chosen[{}] = s
    BY <1>7
<1>9. \A T \in SUBSET (1..n) : T # {} /\ chosen[T \ {Max(T)}] \in Tally =>
          chosen[T] = step[<<chosen[T \ {Max(T)}], Max(T)>>]
    <2>1. SUFFICES ASSUME NEW T \in SUBSET (1..n), T # {}, chosen[T \ {Max(T)}] \in Tally
                   PROVE  chosen[T] = step[<<chosen[T \ {Max(T)}], Max(T)>>]
        OBVIOUS
    <2>2. chosen[T] = SpendInput(chosen[T \ {Max(T)}], Inputs[t][Max(T)])
        BY <1>7, <2>1
    <2> QED BY <1>3, <1>5, <2>1, <2>2
<1>10. PICK p : StepsThrough(p, Tally, n, s, step) /\ p[n] = chosen[1..n]
    <2>1. Recurses(chosen, Tally, n, s, step)
        BY <1>8, <1>9 DEF Recurses
    <2>2. IsStep(step, Tally, n)
        BY <1>2 DEF IsStep
    <2> QED BY <1>1, <2>1, <2>2, FoldGoesThrough
<1>11. p \in [0..n -> Tally] /\ p[0] = s /\ p[n] = FoldLeft(SpendInput, s, Inputs[t])
    BY <1>4, <1>10 DEF StepsThrough
<1>12. ASSUME NEW k \in 1..n PROVE p[k] = SpendInput(p[k - 1], Inputs[t][k])
    <2>1. k - 1 \in 0..n
        BY <1>1
    <2> QED BY <1>3, <1>10, <2>1 DEF StepsThrough
<1> QED BY <1>11, <1>12 DEF n

\* The loops of one transaction keep to their states.
LEMMA ApplyTxType ==
    ASSUME NEW s \in Tally, NEW t \in Tx
    PROVE  /\ OutputsAdded(s, t) \in Tally /\ ApplyTx(s, t) \in Tally
           /\ ApplyTx(s, t) = FoldLeft(SpendInput, OutputsAdded(s, t), Inputs[t])
<1>1. ApplyTx(s, t) = FoldLeft(SpendInput, OutputsAdded(s, t), Inputs[t])
    BY DEF ApplyTx, OutputsAdded
<1>2. Len(Outputs[t]) \in Nat /\ Len(Inputs[t]) \in Nat
    BY TransactionLists
<1>3. OutputsAdded(s, t) \in Tally
    BY <1>2, OutputsFolded
<1>4. ASSUME NEW made \in Tally
      PROVE  FoldLeft(SpendInput, made, Inputs[t]) \in Tally
    <2> DEFINE n == Len(Inputs[t])
    <2>1. PICK p : /\ p \in [0..n -> Tally] /\ p[0] = made /\ p[n] = FoldLeft(SpendInput, made, Inputs[t])
                   /\ \A k \in 1..n : p[k] = SpendInput(p[k - 1], Inputs[t][k])
        BY InputsFolded, Zenon
    <2> QED BY <1>2, <2>1
<1> QED BY <1>1, <1>3, <1>4

\* The loop over the transactions of a block.
LEMMA BodyFolded ==
    ASSUME NEW s \in Tally, NEW txList \in Seq(Tx)
    PROVE  LET n == Len(txList)
           IN \E p : /\ p \in [0..n -> Tally] /\ p[0] = s /\ p[n] = ApplyBody(s, txList)
                     /\ \A k \in 1..n : p[k] = ApplyTx(p[k - 1], txList[k])
<1> DEFINE n == Len(txList)
           step == [x \in Tally \X (1..n) |-> ApplyTx(x[1], txList[x[2]])]
           IsSolution(g) == g = [T \in SUBSET (1..n) |->
                                   IF T = {} THEN s
                                   ELSE ApplyTx(g[T \ {Max(T)}], txList[Max(T)])]
           chosen == CHOOSE g : IsSolution(g)
<1>1. n \in Nat /\ DOMAIN txList = 1..n /\ \A i \in 1..n : txList[i] \in Tx
    OBVIOUS
<1>2. step \in [Tally \X (1..n) -> Tally]
    BY <1>1, ApplyTxType
<1>3. \A x \in Tally, k \in 1..n : step[<<x, k>>] = ApplyTx(x, txList[k])
    OBVIOUS
<1>4. ApplyBody(s, txList) = chosen[1..n]
    BY <1>1 DEF ApplyBody, FoldLeft, MapThenFoldSet
<1>5. ASSUME NEW T \in SUBSET (1..n), T # {}
      PROVE  Max(T) \in 1..n /\ T \ {Max(T)} \in SUBSET (1..n)
    <2>1. T \in SUBSET (0..n)
        OBVIOUS
    <2>2. Max(T) \in T
        BY <1>1, <1>5, <2>1, MaxIs
    <2> QED BY <2>2
<1>6. \E g : IsSolution(g)
    <2> HIDE DEF n, step
    <2>1. PICK h : h \in [SUBSET (1..n) -> Tally] /\ FoldsBy(h, s, step, SUBSET (1..n))
        BY <1>1, <1>2, FoldsExist
    <2>2. ASSUME NEW T \in SUBSET (1..n), T # {}
          PROVE  h[T] = ApplyTx(h[T \ {Max(T)}], txList[Max(T)])
        <3>1. h[T \ {Max(T)}] \in Tally /\ Max(T) \in 1..n
            BY <1>5, <2>1, <2>2
        <3> QED BY <1>3, <2>1, <2>2, <3>1 DEF FoldsBy
    <2>3. h[{}] = s
        BY <2>1 DEF FoldsBy
    <2>4. h = [T \in SUBSET (1..n) |-> IF T = {} THEN s
                                       ELSE ApplyTx(h[T \ {Max(T)}], txList[Max(T)])]
        BY <2>1, <2>2, <2>3
    <2> QED BY <2>4
<1>7. IsSolution(chosen)
    <2> HIDE DEF IsSolution
    <2> QED BY <1>6
<1> HIDE DEF n, step, chosen
<1>8. chosen[{}] = s
    BY <1>7
<1>9. \A T \in SUBSET (1..n) : T # {} /\ chosen[T \ {Max(T)}] \in Tally =>
          chosen[T] = step[<<chosen[T \ {Max(T)}], Max(T)>>]
    <2>1. SUFFICES ASSUME NEW T \in SUBSET (1..n), T # {}, chosen[T \ {Max(T)}] \in Tally
                   PROVE  chosen[T] = step[<<chosen[T \ {Max(T)}], Max(T)>>]
        OBVIOUS
    <2>2. chosen[T] = ApplyTx(chosen[T \ {Max(T)}], txList[Max(T)])
        BY <1>7, <2>1
    <2> QED BY <1>3, <1>5, <2>1, <2>2
<1>10. PICK p : StepsThrough(p, Tally, n, s, step) /\ p[n] = chosen[1..n]
    <2>1. Recurses(chosen, Tally, n, s, step)
        BY <1>8, <1>9 DEF Recurses
    <2>2. IsStep(step, Tally, n)
        BY <1>2 DEF IsStep
    <2> QED BY <1>1, <2>1, <2>2, FoldGoesThrough
<1>11. p \in [0..n -> Tally] /\ p[0] = s /\ p[n] = ApplyBody(s, txList)
    BY <1>4, <1>10 DEF StepsThrough
<1>12. ASSUME NEW k \in 1..n PROVE p[k] = ApplyTx(p[k - 1], txList[k])
    <2>1. k - 1 \in 0..n
        BY <1>1
    <2> QED BY <1>3, <1>10, <2>1 DEF StepsThrough
<1> QED BY <1>11, <1>12 DEF n

-----------------------------------------------------------------------------
(* GoldenGenerator: the balances are those of a set of outputs *)

AllRefs == {o \in Ref : o.index \in DOMAIN Outputs[o.tx]}
CoinOf == [o \in AllRefs |-> Outputs[o.tx][o.index].coins]
PaidTo(outs, a) == {o \in outs : Outputs[o.tx][o.index].address = a}
Holds(outs, a) == SumFunctionOnSet(CoinOf, PaidTo(outs, a))

\* The balances are what the outputs add up to, and the transactions that made
\* outputs of tracked addresses are listed.
Represents(s, outs) ==
    /\ s \in Tally
    /\ outs \subseteq AllRefs /\ IsFiniteSet(outs)
    /\ \A a \in Tracked : s.bal[a] = Holds(outs, a)
    /\ \A o \in outs : Outputs[o.tx][o.index].address \in Tracked => o.tx \in ToSet(s.txs)

\* An output has an address and coins.
LEMMA RefIsOutput ==
    ASSUME NEW o \in AllRefs
    PROVE  /\ o.tx \in Tx /\ o.index \in Nat /\ o.index \in DOMAIN Outputs[o.tx]
           /\ Outputs[o.tx][o.index] \in OutputOf
           /\ CoinOf[o] = Outputs[o.tx][o.index].coins /\ CoinOf[o] \in Nat
<1>1. o.tx \in Tx /\ o.index \in Nat /\ o.index \in DOMAIN Outputs[o.tx]
    BY DEF AllRefs, Ref
<1>2. Outputs[o.tx][o.index] \in OutputOf
    BY <1>1, TransactionLists
<1>3. CoinOf[o] = Outputs[o.tx][o.index].coins
    BY DEF CoinOf
<1> QED BY <1>1, <1>2, <1>3 DEF OutputOf

\* What outputs hold is a natural number.
LEMMA HoldsNat ==
    ASSUME NEW outs, outs \subseteq AllRefs, IsFiniteSet(outs), NEW a
    PROVE  Holds(outs, a) \in Nat /\ IsFiniteSet(PaidTo(outs, a))
<1>1. PaidTo(outs, a) \in SUBSET outs
    BY DEF PaidTo
<1>2. IsFiniteSet(PaidTo(outs, a))
    BY <1>1, FS_Subset
<1>3. \A o \in PaidTo(outs, a) : CoinOf[o] \in Nat
    BY <1>1, RefIsOutput
<1> QED BY <1>2, <1>3, SumNat DEF Holds

\* What one more output adds.
LEMMA HoldsMore ==
    ASSUME NEW outs, outs \subseteq AllRefs, IsFiniteSet(outs), NEW o \in AllRefs, o \notin outs, NEW a
    PROVE  Holds(outs \cup {o}, a) =
               IF Outputs[o.tx][o.index].address = a THEN CoinOf[o] + Holds(outs, a) ELSE Holds(outs, a)
<1>1. CASE Outputs[o.tx][o.index].address = a
    <2>1. PaidTo(outs \cup {o}, a) = PaidTo(outs, a) \cup {o} /\ o \notin PaidTo(outs, a)
        BY <1>1 DEF PaidTo
    <2>2. IsFiniteSet(PaidTo(outs, a))
        BY HoldsNat
    <2>3. \A x \in PaidTo(outs, a) \cup {o} : CoinOf[x] \in Int
        BY RefIsOutput DEF PaidTo
    <2>4. SumFunctionOnSet(CoinOf, PaidTo(outs, a) \cup {o}) = CoinOf[o] + SumFunctionOnSet(CoinOf, PaidTo(outs, a))
        BY <2>1, <2>2, <2>3, SumAdd
    <2> QED BY <1>1, <2>1, <2>4 DEF Holds
<1>2. CASE Outputs[o.tx][o.index].address # a
    <2>1. PaidTo(outs \cup {o}, a) = PaidTo(outs, a)
        BY <1>2 DEF PaidTo
    <2> QED BY <1>2, <2>1 DEF Holds
<1> QED BY <1>1, <1>2

\* Balances that outputs add up to are not negative.
LEMMA NothingThrown ==
    ASSUME NEW s, NEW outs, Represents(s, outs)
    PROVE  ~ Thrown(s) /\ \A a \in Tracked : s.bal[a] \in Nat
<1>1. \A a \in Tracked : s.bal[a] \in Nat
    BY HoldsNat DEF Represents
<1> QED BY <1>1 DEF Thrown, Negative

\* ToSet is the set of the members, and an appended one is a member.
LEMMA AppendedMember ==
    ASSUME NEW S, NEW list \in Seq(S), NEW x \in S
    PROVE  x \in ToSet(Append(list, x)) /\ ToSet(list) \subseteq ToSet(Append(list, x))
<1> DEFINE more == Append(list, x)
<1>1. /\ Len(list) \in Nat /\ DOMAIN list = 1..Len(list) /\ DOMAIN more = 1..(Len(list) + 1)
      /\ more[Len(list) + 1] = x /\ \A i \in 1..Len(list) : more[i] = list[i]
    OBVIOUS
<1> HIDE DEF more
<1>2. Len(list) + 1 \in DOMAIN more /\ \A i \in DOMAIN list : i \in DOMAIN more
    BY <1>1
<1>3. x \in ToSet(more) /\ ToSet(list) \subseteq ToSet(more)
    BY <1>1, <1>2 DEF ToSet
<1> QED BY <1>3 DEF more

\* The loop over the outputs counts one that was not there.
LEMMA OutputIsCounted ==
    ASSUME NEW s, NEW outs, Represents(s, outs), NEW o \in AllRefs, o \notin outs
    PROVE  Represents(AddOutput(s, o.tx, Outputs[o.tx][o.index]), outs \cup {o})
<1> DEFINE out == Outputs[o.tx][o.index]
           r == AddOutput(s, o.tx, out)
<1>1. /\ s \in Tally /\ outs \subseteq AllRefs /\ IsFiniteSet(outs) /\ IsFiniteSet(outs \cup {o})
      /\ \A a \in Tracked : s.bal[a] = Holds(outs, a)
      /\ \A x \in outs : Outputs[x.tx][x.index].address \in Tracked => x.tx \in ToSet(s.txs)
    BY FS_AddElement DEF Represents
<1>2. o.tx \in Tx /\ out \in OutputOf /\ CoinOf[o] = out.coins /\ out.coins \in Nat
    BY RefIsOutput
<1>3. r \in Tally
    BY <1>1, <1>2, AddOutputType
<1>4. ~ Thrown(s) /\ \A a \in Tracked : s.bal[a] \in Nat
    BY NothingThrown
<1>5. ASSUME NEW a
      PROVE  Holds(outs \cup {o}, a) = IF out.address = a THEN out.coins + Holds(outs, a) ELSE Holds(outs, a)
    <2>1. outs \subseteq AllRefs /\ IsFiniteSet(outs)
        BY <1>1
    <2>2. Holds(outs \cup {o}, a) =
              IF Outputs[o.tx][o.index].address = a THEN CoinOf[o] + Holds(outs, a) ELSE Holds(outs, a)
        BY <2>1, HoldsMore, Zenon
    <2>3. Holds(outs \cup {o}, a) = IF out.address = a THEN CoinOf[o] + Holds(outs, a) ELSE Holds(outs, a)
        BY <2>2
    <2> HIDE DEF out
    <2> QED BY <1>2, <2>3
<1>6. CASE out.address \notin Tracked
    <2>1. r = s
        BY <1>6 DEF AddOutput
    <2>2. \A a \in Tracked : r.bal[a] = Holds(outs \cup {o}, a)
        BY <1>1, <1>5, <1>6, <2>1
    <2>3. \A x \in outs \cup {o} : Outputs[x.tx][x.index].address \in Tracked => x.tx \in ToSet(r.txs)
        BY <1>1, <1>6, <2>1
    <2> QED BY <1>1, <1>3, <2>2, <2>3 DEF Represents
<1>7. CASE out.address \in Tracked
    <2>1. r = [bal |-> [s.bal EXCEPT ![out.address] = ApplyValue(s.bal[out.address], out.coins, FALSE)],
               txs |-> Append(s.txs, o.tx)]
        BY <1>4, <1>7 DEF AddOutput
    <2>2. ApplyValue(s.bal[out.address], out.coins, FALSE) = s.bal[out.address] + out.coins
        BY <1>2, <1>4, <1>7 DEF ApplyValue
    <2>3. s.bal \in [Tracked -> Nat \cup {Negative}] /\ s.txs \in Seq(Tx)
        BY <1>1 DEF Tally
    <2>4. ASSUME NEW a \in Tracked PROVE r.bal[a] = Holds(outs \cup {o}, a)
        <3>1. r.bal[a] = IF a = out.address THEN s.bal[a] + out.coins ELSE s.bal[a]
            <4> DEFINE v == ApplyValue(s.bal[out.address], out.coins, FALSE)
            <4> HIDE DEF r, out
            <4>1. r.bal = [s.bal EXCEPT ![out.address] = v]
                BY <2>1
            <4>2. v = s.bal[out.address] + out.coins
                BY <2>2
            <4> HIDE DEF v
            <4> QED BY <2>3, <4>1, <4>2
        <3>2. s.bal[a] = Holds(outs, a) /\ s.bal[a] \in Nat
            BY <1>1, <1>4
        <3> HIDE DEF r, out
        <3> QED BY <1>2, <1>5, <3>1, <3>2
    <2>5. o.tx \in ToSet(r.txs) /\ ToSet(s.txs) \subseteq ToSet(r.txs)
        BY <1>2, <2>1, <2>3, AppendedMember
    <2>6. \A x \in outs \cup {o} : Outputs[x.tx][x.index].address \in Tracked => x.tx \in ToSet(r.txs)
        BY <1>1, <2>5
    <2>7. outs \cup {o} \subseteq AllRefs
        BY <1>1
    <2> QED BY <1>1, <1>3, <2>4, <2>6, <2>7 DEF Represents
<1> QED BY <1>6, <1>7

\* The loop over the inputs takes off one that is there.
LEMMA InputIsSpent ==
    ASSUME NEW s, NEW outs, Represents(s, outs), NEW o \in outs
    PROVE  Represents(SpendInput(s, o), outs \ {o})
<1> DEFINE out == Outputs[o.tx][o.index]
           rest == outs \ {o}
           r == SpendInput(s, o)
<1>1. /\ s \in Tally /\ outs \subseteq AllRefs /\ IsFiniteSet(outs)
      /\ \A a \in Tracked : s.bal[a] = Holds(outs, a)
      /\ \A x \in outs : Outputs[x.tx][x.index].address \in Tracked => x.tx \in ToSet(s.txs)
    BY DEF Represents
<1>2. o \in AllRefs /\ o.tx \in Tx /\ o.index \in DOMAIN Outputs[o.tx]
      /\ out \in OutputOf /\ CoinOf[o] = out.coins /\ out.coins \in Nat
    BY <1>1, RefIsOutput
<1>3. rest \subseteq AllRefs /\ IsFiniteSet(rest) /\ o \notin rest /\ rest \cup {o} = outs
    BY <1>1, FS_Subset
<1>4. r \in Tally
    BY <1>1, <1>2, SpendInputType DEF AllRefs
<1>5. ~ Thrown(s) /\ \A a \in Tracked : s.bal[a] \in Nat
    BY NothingThrown
<1>6. ASSUME NEW a
      PROVE  /\ Holds(outs, a) = IF out.address = a THEN out.coins + Holds(rest, a) ELSE Holds(rest, a)
             /\ Holds(rest, a) \in Nat
    <2> HIDE DEF rest
    <2>1. Holds(rest \cup {o}, a) = IF out.address = a THEN CoinOf[o] + Holds(rest, a) ELSE Holds(rest, a)
        BY <1>2, <1>3, HoldsMore
    <2>2. Holds(rest, a) \in Nat
        BY <1>3, HoldsNat
    <2> QED BY <1>2, <1>3, <2>1, <2>2
<1>7. CASE out.address \notin Tracked
    <2>1. r = s
        BY <1>7 DEF SpendInput
    <2>2. \A a \in Tracked : r.bal[a] = Holds(rest, a)
        BY <1>1, <1>6, <1>7, <2>1
    <2>3. \A x \in rest : Outputs[x.tx][x.index].address \in Tracked => x.tx \in ToSet(r.txs)
        BY <1>1, <2>1
    <2> QED BY <1>3, <1>4, <2>2, <2>3 DEF Represents
<1>8. CASE out.address \in Tracked
    <2>1. o.tx \in ToSet(s.txs)
        BY <1>1, <1>8
    <2>2. r = [s EXCEPT !.bal[out.address] = ApplyValue(s.bal[out.address], out.coins, TRUE)]
        BY <1>2, <1>5, <1>8, <2>1 DEF SpendInput
    <2>3. s.bal[out.address] = out.coins + Holds(rest, out.address) /\ Holds(rest, out.address) \in Nat
        BY <1>1, <1>6, <1>8
    <2>4. ApplyValue(s.bal[out.address], out.coins, TRUE) = Holds(rest, out.address)
        <3> HIDE DEF out, rest
        <3> QED BY <1>2, <2>3 DEF ApplyValue
    <2>5. s.bal \in [Tracked -> Nat \cup {Negative}] /\ s.txs \in Seq(Tx)
        BY <1>1 DEF Tally
    <2>6. r.txs = s.txs /\ r.bal = [s.bal EXCEPT ![out.address] = Holds(rest, out.address)]
        <3> HIDE DEF out, rest
        <3> QED BY <1>1, <2>2, <2>4 DEF Tally
    <2>7. ASSUME NEW a \in Tracked PROVE r.bal[a] = Holds(rest, a)
        <3>1. a # out.address => s.bal[a] = Holds(rest, a)
            BY <1>1, <1>6
        <3> HIDE DEF out, rest, r
        <3> QED BY <1>8, <2>5, <2>6, <3>1
    <2>8. \A x \in rest : Outputs[x.tx][x.index].address \in Tracked => x.tx \in ToSet(r.txs)
        BY <1>1, <2>6
    <2> QED BY <1>3, <1>4, <2>7, <2>8 DEF Represents
<1> QED BY <1>7, <1>8

OutsOf(t) == {[tx |-> t, index |-> i] : i \in DOMAIN Outputs[t]}
MadeIn(txs) == UNION {OutsOf(t) : t \in txs}
SpentBy(txs) == UNION {ToSet(Inputs[t]) : t \in txs}

\* The loops over a transaction spend its inputs and add its outputs.
LEMMA TxIsCounted ==
    ASSUME NEW s, NEW outs, Represents(s, outs), NEW t \in Tx,
           OutsOf(t) \cap outs = {}, ToSet(Inputs[t]) \subseteq outs
    PROVE  Represents(ApplyTx(s, t), (outs \cup OutsOf(t)) \ ToSet(Inputs[t]))
<1> DEFINE n == Len(Outputs[t])
           m == Len(Inputs[t])
           OutsTo(k) == {[tx |-> t, index |-> i] : i \in 1..k}
           Spent(k) == {Inputs[t][i] : i \in 1..k}
           all == outs \cup OutsOf(t)
           made == OutputsAdded(s, t)
<1>1. /\ n \in Nat /\ DOMAIN Outputs[t] = 1..n
      /\ m \in Nat /\ DOMAIN Inputs[t] = 1..m
    BY TransactionLists
<1>2. s \in Tally
    BY DEF Represents
<1>3. Represents(made, all)
    <2>1. PICK p : /\ p \in [0..n -> Tally] /\ p[0] = s /\ p[n] = made
                   /\ \A k \in 1..n : p[k] = AddOutput(p[k - 1], t, Outputs[t][k])
        BY <1>2, OutputsFolded
    <2> DEFINE Good == {k \in 0..n : Represents(p[k], outs \cup OutsTo(k))}
    <2>2. 0 \in Good
        <3>1. outs \cup OutsTo(0) = outs
            OBVIOUS
        <3> HIDE DEF Made
        <3>2. Represents(p[0], outs \cup OutsTo(0))
            BY <2>1, <3>1
        <3>3. 0 \in 0..n
            BY <1>1
        <3> QED BY <3>2, <3>3
    <2>3. ASSUME NEW k \in 1..n, k - 1 \in Good
          PROVE  k \in Good
        <3> DEFINE o == [tx |-> t, index |-> k]
        <3>1. o \in OutsOf(t) /\ o \in AllRefs /\ o.tx = t /\ o.index = k
            BY <1>1 DEF OutsOf, AllRefs, Ref
        <3>2. o \notin outs \cup OutsTo(k - 1)
            <4>1. \A i \in 1..(k - 1) : o # [tx |-> t, index |-> i]
                OBVIOUS
            <4> QED BY <3>1, <4>1
        <3>3. (outs \cup OutsTo(k - 1)) \cup {o} = outs \cup OutsTo(k)
            <4>1. 1..k = (1..(k - 1)) \cup {k}
                OBVIOUS
            <4>2. OutsTo(k) = OutsTo(k - 1) \cup {o}
                BY <4>1
            <4> QED BY <4>2
        <3>4. Represents(p[k - 1], outs \cup OutsTo(k - 1))
            BY <2>3
        <3> HIDE DEF o, Made
        <3>5. Represents(AddOutput(p[k - 1], o.tx, Outputs[o.tx][o.index]), (outs \cup OutsTo(k - 1)) \cup {o})
            BY <3>1, <3>2, <3>4, OutputIsCounted
        <3>6. Represents(p[k], outs \cup OutsTo(k))
            BY <2>1, <3>1, <3>3, <3>5
        <3> QED BY <1>1, <3>6
    <2>4. n \in Good
        <3>1. KeptTo(n, Good)
            <4> HIDE DEF Good
            <4> QED BY <2>2, <2>3 DEF KeptTo
        <3> HIDE DEF Good, n
        <3> QED BY <1>1, <3>1, AfterEveryStep
    <2>5. OutsTo(n) = OutsOf(t)
        BY <1>1 DEF OutsOf
    <2> HIDE DEF Made
    <2> QED BY <2>1, <2>4, <2>5
<1>4. Represents(ApplyTx(s, t), all \ ToSet(Inputs[t]))
    <2>1. made \in Tally /\ ApplyTx(s, t) = FoldLeft(SpendInput, made, Inputs[t])
        BY <1>2, ApplyTxType
    <2> HIDE DEF made, all
    <2>7. PICK p : /\ p \in [0..m -> Tally] /\ p[0] = made /\ p[m] = FoldLeft(SpendInput, made, Inputs[t])
                   /\ \A k \in 1..m : p[k] = SpendInput(p[k - 1], Inputs[t][k])
        BY <2>1, InputsFolded
    <2>2. /\ p[0] = made /\ p[m] = ApplyTx(s, t)
          /\ \A k \in 1..m : p[k] = SpendInput(p[k - 1], Inputs[t][k])
        BY <2>1, <2>7
    <2> DEFINE Good == {k \in 0..m : Represents(p[k], all \ Spent(k))}
    <2>3. 0 \in Good
        <3>1. all \ Spent(0) = all
            OBVIOUS
        <3> HIDE DEF Spent
        <3>2. Represents(p[0], all \ Spent(0))
            BY <1>3, <2>2, <3>1 DEF made, all
        <3>3. 0 \in 0..m
            BY <1>1
        <3> QED BY <3>2, <3>3
    <2>4. ASSUME NEW k \in 1..m, k - 1 \in Good
          PROVE  k \in Good
        <3> DEFINE o == Inputs[t][k]
        <3>1. o \in all
            BY <1>1 DEF ToSet, all
        <3>2. o \notin Spent(k - 1)
            <4>1. \A i \in 1..(k - 1) : i \in DOMAIN Inputs[t] /\ i # k
                BY <1>1
            <4>2. k \in DOMAIN Inputs[t] /\ IsInjective(Inputs[t])
                BY <1>1, GeneratorAssumption
            <4> QED BY <4>1, <4>2 DEF IsInjective
        <3>3. (all \ Spent(k - 1)) \ {o} = all \ Spent(k)
            <4>1. 1..k = (1..(k - 1)) \cup {k}
                OBVIOUS
            <4>2. Spent(k) = Spent(k - 1) \cup {o}
                BY <4>1
            <4> QED BY <4>2
        <3>4. Represents(p[k - 1], all \ Spent(k - 1))
            BY <2>4
        <3> HIDE DEF o, Spent
        <3>5. Represents(SpendInput(p[k - 1], o), (all \ Spent(k - 1)) \ {o})
            BY <3>1, <3>2, <3>4, InputIsSpent
        <3>6. Represents(p[k], all \ Spent(k))
            BY <2>2, <3>3, <3>5 DEF o
        <3> QED BY <1>1, <3>6
    <2>5. m \in Good
        <3>1. KeptTo(m, Good)
            <4> HIDE DEF Good
            <4> QED BY <2>3, <2>4 DEF KeptTo
        <3> HIDE DEF Good, m
        <3> QED BY <1>1, <3>1, AfterEveryStep
    <2>6. Spent(m) = ToSet(Inputs[t])
        BY <1>1 DEF ToSet
    <2> HIDE DEF Spent
    <2> QED BY <2>2, <2>5, <2>6
<1> QED BY <1>4

\* A valid transaction leaves the balances of the outputs that are then unspent.
LEMMA ValidTxIsCounted ==
    ASSUME NEW s, NEW txs \in SUBSET Tx, NEW t \in Tx, t \notin txs,
           SpentBy(txs) \subseteq MadeIn(txs),
           ToSet(Inputs[t]) \subseteq MadeIn(txs) \ SpentBy(txs),
           Represents(s, MadeIn(txs) \ SpentBy(txs))
    PROVE  LET more == txs \cup {t}
           IN /\ SpentBy(more) \subseteq MadeIn(more)
              /\ Represents(ApplyTx(s, t), MadeIn(more) \ SpentBy(more))
<1> DEFINE more == txs \cup {t}
           outs == MadeIn(txs) \ SpentBy(txs)
<1>1. MadeIn(more) = MadeIn(txs) \cup OutsOf(t) /\ SpentBy(more) = SpentBy(txs) \cup ToSet(Inputs[t])
    BY DEF MadeIn, SpentBy
<1>2. MadeIn(txs) \cap OutsOf(t) = {}
    <2>1. \A u \in txs : \A o \in OutsOf(u) : o.tx = u
        BY DEF OutsOf
    <2>2. \A o \in OutsOf(t) : o.tx = t
        BY DEF OutsOf
    <2> QED BY <2>1, <2>2 DEF MadeIn
<1>3. MadeIn(more) \ SpentBy(more) = (outs \cup OutsOf(t)) \ ToSet(Inputs[t])
    BY <1>1, <1>2
<1>4. OutsOf(t) \cap outs = {}
    BY <1>2
<1> HIDE DEF more, outs
<1>5. Represents(ApplyTx(s, t), (outs \cup OutsOf(t)) \ ToSet(Inputs[t]))
    BY <1>4, TxIsCounted DEF outs
<1> QED BY <1>1, <1>3, <1>5 DEF more, outs

\* The transactions of a chain with one more block.
LEMMA TxsOfAppended ==
    ASSUME NEW blocks \in Seq(Block), NEW b
    PROVE  TxsOf(Append(blocks, b)) = TxsOf(blocks) \cup ToSet(b.body)
<1> DEFINE S == Block \cup {b}
           more == Append(blocks, b)
<1>1. blocks \in Seq(S) /\ b \in S
    OBVIOUS
<1>2. /\ Len(blocks) \in Nat /\ DOMAIN blocks = 1..Len(blocks) /\ DOMAIN more = 1..(Len(blocks) + 1)
      /\ more[Len(blocks) + 1] = b /\ \A i \in 1..Len(blocks) : more[i] = blocks[i]
    <2> HIDE DEF S
    <2> QED BY <1>1
<1> HIDE DEF more
<1>3. ASSUME NEW t \in TxsOf(more) PROVE t \in TxsOf(blocks) \cup ToSet(b.body)
    <2>1. PICK h \in DOMAIN more : t \in ToSet(more[h].body)
        BY DEF TxsOf
    <2>2. h \in DOMAIN blocks \/ h = Len(blocks) + 1
        BY <1>2
    <2> QED BY <1>2, <2>1, <2>2 DEF TxsOf
<1>4. ASSUME NEW t \in TxsOf(blocks) \cup ToSet(b.body) PROVE t \in TxsOf(more)
    <2>1. CASE t \in TxsOf(blocks)
        <3>1. PICK h \in DOMAIN blocks : t \in ToSet(blocks[h].body)
            BY <2>1 DEF TxsOf
        <3>2. h \in DOMAIN more /\ more[h] = blocks[h]
            BY <1>2
        <3> QED BY <3>1, <3>2 DEF TxsOf
    <2>2. CASE t \in ToSet(b.body)
        <3>1. Len(blocks) + 1 \in DOMAIN more /\ more[Len(blocks) + 1] = b
            BY <1>2
        <3> QED BY <2>2, <3>1 DEF TxsOf
    <2> QED BY <2>1, <2>2
<1> QED BY <1>3, <1>4 DEF more

\* The transactions of blocks are those of the set, and the outputs they make
\* and spend are found by transaction.
LEMMA OutputsByTx ==
    ASSUME NEW blocks
    PROVE  OutputsIn(blocks) = MadeIn(TxsOf(blocks)) /\ SpentIn(blocks) = SpentBy(TxsOf(blocks))
BY DEF OutputsIn, SpentIn, MadeIn, OutsOf, SpentBy

\* The transactions of a chain are transactions.
LEMMA TxsOfChain ==
    ASSUME NEW blocks \in Seq(Block)
    PROVE  TxsOf(blocks) \in SUBSET Tx
<1>1. ASSUME NEW h \in DOMAIN blocks PROVE ToSet(blocks[h].body) \subseteq Tx
    <2>1. blocks[h] \in Block
        OBVIOUS
    <2>2. blocks[h].body \in Seq(Tx)
        BY <2>1, GeneratorAssumption
    <2> QED BY <2>2 DEF ToSet
<1> QED BY <1>1 DEF TxsOf

\* The balances are those of the outputs the chain has made and not spent, and
\* it has spent what it has made only.
AddsUp(s, txs) ==
    /\ SpentBy(txs) \subseteq MadeIn(txs)
    /\ Represents(s, MadeIn(txs) \ SpentBy(txs))

\* The loop over the transactions of a valid block takes the balances from those
\* of the chain to those of the chain with that block.
LEMMA BodyIsCounted ==
    ASSUME NEW s, NEW blocks \in Seq(Block), NEW txList \in Seq(Tx), ValidBody(blocks, txList),
           AddsUp(s, TxsOf(blocks))
    PROVE  AddsUp(ApplyBody(s, txList), TxsOf(blocks) \cup ToSet(txList))
<1> DEFINE n == Len(txList)
           txs == TxsOf(blocks)
           First(k) == txs \cup {txList[i] : i \in 1..k}
<1>1. n \in Nat /\ DOMAIN txList = 1..n /\ \A k \in 1..n : txList[k] \in Tx
    OBVIOUS
<1>2. txs \in SUBSET Tx /\ s \in Tally
    BY TxsOfChain DEF AddsUp, Represents
<1>3. PICK p : /\ p \in [0..n -> Tally] /\ p[0] = s /\ p[n] = ApplyBody(s, txList)
               /\ \A k \in 1..n : p[k] = ApplyTx(p[k - 1], txList[k])
    BY <1>2, BodyFolded
<1> DEFINE Good == {k \in 0..n : AddsUp(p[k], First(k))}
<1>4. 0 \in Good
    <2>1. First(0) = txs
        OBVIOUS
    <2> HIDE DEF First
    <2>2. AddsUp(p[0], First(0))
        BY <1>3, <2>1
    <2>3. 0 \in 0..n
        BY <1>1
    <2> QED BY <2>2, <2>3
<1>5. ASSUME NEW k \in 1..n, k - 1 \in Good
      PROVE  k \in Good
    <2> DEFINE before == [body |-> SubSeq(txList, 1, k - 1)]
               now == Append(blocks, before)
               t == txList[k]
    <2>1. ValidTx(now, t)
        BY <1>1 DEF ValidBody
    <2>2. TxsOf(now) = First(k - 1)
        <3>1. TxsOf(now) = txs \cup ToSet(before.body)
            BY TxsOfAppended
        <3>2. k - 1 \in 0..n /\ 1 \in Nat
            BY <1>1
        <3>3. /\ Len(SubSeq(txList, 1, k - 1)) = k - 1 /\ SubSeq(txList, 1, k - 1) \in Seq(Tx)
              /\ \A i \in 1..(k - 1) : SubSeq(txList, 1, k - 1)[i] = txList[i]
            BY <1>1, <3>2
        <3>4. ToSet(SubSeq(txList, 1, k - 1)) = {txList[i] : i \in 1..(k - 1)}
            <4>1. DOMAIN SubSeq(txList, 1, k - 1) = 1..(k - 1)
                BY <3>2, <3>3
            <4> QED BY <3>3, <4>1 DEF ToSet
        <3> QED BY <3>1, <3>4
    <2>3. t \notin First(k - 1) /\ ToSet(Inputs[t]) \subseteq MadeIn(First(k - 1)) \ SpentBy(First(k - 1))
        <3> HIDE DEF now, First, t
        <3> QED BY <2>1, <2>2, OutputsByTx DEF ValidTx
    <2>4. First(k - 1) \in SUBSET Tx /\ t \in Tx
        BY <1>1, <1>2
    <2>5. First(k) = First(k - 1) \cup {t}
        <3>1. 1..k = (1..(k - 1)) \cup {k}
            OBVIOUS
        <3> QED BY <3>1
    <2>6. AddsUp(p[k - 1], First(k - 1))
        BY <1>5
    <2>7. p[k] = ApplyTx(p[k - 1], t)
        BY <1>3
    <2> HIDE DEF First, t
    <2>8. AddsUp(p[k], First(k))
        <3>1. AddsUp(ApplyTx(p[k - 1], t), First(k - 1) \cup {t})
            BY <2>3, <2>4, <2>6, ValidTxIsCounted DEF AddsUp
        <3> QED BY <2>5, <2>7, <3>1
    <2> QED BY <1>1, <2>8
<1>6. n \in Good
    <2>1. KeptTo(n, Good)
        <3> HIDE DEF Good
        <3> QED BY <1>4, <1>5 DEF KeptTo
    <2> HIDE DEF Good, n
    <2> QED BY <1>1, <2>1, AfterEveryStep
<1>7. First(n) = txs \cup ToSet(txList)
    BY <1>1 DEF ToSet
<1> HIDE DEF First
<1> QED BY <1>3, <1>6, <1>7

\* Balances that add up are those of the chain.
LEMMA BalancesOfChain ==
    ASSUME NEW s, NEW blocks \in Seq(Block), AddsUp(s, TxsOf(blocks))
    PROVE  IsBalanceAt(blocks, s.bal)
<1> DEFINE outs == OutputsIn(blocks)
           unspent == outs \ SpentIn(blocks)
           coins == [o \in outs |-> Outputs[o.tx][o.index].coins]
<1>1. unspent \subseteq AllRefs /\ IsFiniteSet(unspent) /\ \A a \in Tracked : s.bal[a] = Holds(unspent, a)
    BY OutputsByTx DEF AddsUp, Represents
<1>2. ASSUME NEW a \in Tracked
      PROVE  s.bal[a] = BalanceOn(blocks, a)
    <2>1. BalanceOn(blocks, a) = SumFunctionOnSet(coins, PaidTo(unspent, a))
        BY DEF BalanceOn, PaidTo
    <2>2. IsFiniteSet(PaidTo(unspent, a))
        <3> HIDE DEF unspent
        <3> QED BY <1>1, HoldsNat
    <2>3. \A o \in PaidTo(unspent, a) : CoinOf[o] \in Int /\ CoinOf[o] = coins[o]
        <3>1. ASSUME NEW o \in PaidTo(unspent, a) PROVE o \in AllRefs /\ o \in outs
            BY <1>1 DEF PaidTo
        <3>2. ASSUME NEW o \in PaidTo(unspent, a)
              PROVE  CoinOf[o] = Outputs[o.tx][o.index].coins /\ CoinOf[o] \in Nat
            BY <3>1, RefIsOutput
        <3>3. ASSUME NEW o \in PaidTo(unspent, a) PROVE coins[o] = Outputs[o.tx][o.index].coins
            <4> HIDE DEF outs, unspent
            <4> QED BY <3>1
        <3> HIDE DEF unspent, coins
        <3> QED BY <3>2, <3>3
    <2>4. SumFunctionOnSet(CoinOf, PaidTo(unspent, a)) = SumFunctionOnSet(coins, PaidTo(unspent, a))
        <3> HIDE DEF unspent, coins
        <3> QED BY <2>2, <2>3, SumSame
    <2> QED BY <1>1, <2>1, <2>4 DEF Holds
<1> QED BY <1>2 DEF IsBalanceAt

-----------------------------------------------------------------------------
(* GoldenGenerator: the chains that the answers describe are valid *)

ChainIsValid(blocks) == \A h \in 1..Len(blocks) : ValidBody(SubSeq(blocks, 1, h - 1), blocks[h].body)

\* The chain that is described once an answer has been handled.
Described(seen, answer) ==
    IF answer.type = "forward" THEN Append(seen, answer.block) ELSE SubSeq(seen, 1, answer.height)

\* A block that is answered is valid where it is to go.
Fits(seen, answer) == answer.type = "forward" => ValidBody(seen, answer.block.body)

\* w lists the chains described after each of the answers, the first of them
\* before any.
Views(w, seen, answers) ==
    /\ w \in [0..Len(answers) -> Seq(Block)]
    /\ w[0] = seen
    /\ \A k \in 1..Len(answers) :
           w[k] = Described(w[k - 1], answers[k]) /\ Fits(w[k - 1], answers[k])

\* The answers describe what has been sent of the chain, up to the pointer.
Describe(seen, answers, sent, last, undone) ==
    \E w : /\ Views(w, seen, answers)
           /\ last <= Len(w[Len(answers)])
           /\ ~ undone => last = Len(w[Len(answers)])
           /\ \A j \in 1..last : w[Len(answers)][j] = sent[j]

ViewsFollow ==
    /\ ChainIsValid(chain)
    /\ Following => Describe(view, pipe, chain, pointer, undo)

\* The chain that is described stays a sequence of blocks.
LEMMA DescribedIsChain ==
    ASSUME NEW seen \in Seq(Block), NEW answer \in Answer, Continues(answer, Len(seen))
    PROVE  Described(seen, answer) \in Seq(Block) /\ Len(Described(seen, answer)) = answer.height
<1>1. CASE answer.type = "forward"
    <2>1. answer.block \in Block /\ answer.height = Len(seen) + 1
        BY <1>1 DEF Answer, Continues
    <2> QED BY <1>1, <2>1 DEF Described
<1>2. CASE answer.type # "forward"
    <2>1. answer.height \in Nat /\ answer.height <= Len(seen)
        BY <1>2 DEF Answer, Continues
    <2>2. SubSeq(seen, 1, answer.height) \in Seq(Block) /\ Len(SubSeq(seen, 1, answer.height)) = answer.height
        BY <2>1
    <2> QED BY <1>2, <2>2 DEF Described
<1> QED BY <1>1, <1>2

\* The first answer in the pipe.
LEMMA FirstAnswer ==
    ASSUME GoldenInv, Following, pipe # <<>>
    PROVE  /\ view \in Seq(Block) /\ pipe \in Seq(Answer) /\ 1 \in 1..Len(pipe)
           /\ Head(pipe) = pipe[1] /\ Head(pipe) \in Answer
           /\ Continues(Head(pipe), Len(view))
           /\ Head(pipe).height \in Nat
           /\ Head(pipe).type = "forward" =>
                  Head(pipe).block \in Block /\ Head(pipe).height = Len(view) + 1
<1>1. view \in Seq(Block) /\ pipe \in Seq(Answer)
    BY DEF GoldenInv, GoldenTyped
<1>2. 1 \in 1..Len(pipe) /\ Head(pipe) = pipe[1] /\ pipe[1] \in Answer
    BY <1>1
<1>3. Continues(pipe[1], HeightAfter(view, pipe, 1 - 1))
    BY <1>2 DEF GoldenInv, HeightsFollow
<1>4. Continues(pipe[1], Len(view))
    BY <1>3 DEF HeightAfter
<1> QED BY <1>1, <1>2, <1>4 DEF Continues, Answer

\* An answer that fits what the pipe describes can be appended to the pipe.
LEMMA AppendedFits ==
    ASSUME NEW seen, NEW answers \in Seq(Answer), NEW answer \in Answer,
           NEW w, Views(w, seen, answers),
           Described(w[Len(answers)], answer) \in Seq(Block), Fits(w[Len(answers)], answer)
    PROVE  LET more == Append(answers, answer)
           IN \E x : Views(x, seen, more) /\ x[Len(more)] = Described(w[Len(answers)], answer)
<1> DEFINE more == Append(answers, answer)
           n == Len(answers)
           last == Described(w[n], answer)
           x == [k \in 0..(n + 1) |-> IF k = n + 1 THEN last ELSE w[k]]
<1>1. /\ n \in Nat /\ Len(more) = n + 1 /\ more[n + 1] = answer
      /\ \A k \in 1..n : more[k] = answers[k]
    OBVIOUS
<1> HIDE DEF more
<1>2. /\ w \in [0..n -> Seq(Block)] /\ w[0] = seen
      /\ \A k \in 1..n : w[k] = Described(w[k - 1], answers[k]) /\ Fits(w[k - 1], answers[k])
    BY DEF Views
<1> HIDE DEF n
<1>3. last \in Seq(Block)
    BY DEF n
<1>4. /\ \A k \in 0..n : x[k] = w[k]
      /\ x[n + 1] = last
      /\ x \in [0..(n + 1) -> Seq(Block)]
    <2> HIDE DEF last
    <2>1. \A k \in 0..n : k \in 0..(n + 1) /\ k # n + 1
        BY <1>1
    <2>2. n + 1 \in 0..(n + 1) /\ \A k \in 0..(n + 1) : k = n + 1 \/ k \in 0..n
        BY <1>1
    <2> QED BY <1>2, <1>3, <2>1, <2>2
<1> HIDE DEF x
<1>5. ASSUME NEW k \in 1..(n + 1)
      PROVE  x[k] = Described(x[k - 1], more[k]) /\ Fits(x[k - 1], more[k])
    <2>1. CASE k = n + 1
        <3>1. k - 1 = n /\ n \in 0..n
            BY <1>1, <2>1
        <3>2. Fits(w[n], answer)
            BY DEF n
        <3> QED BY <1>1, <1>4, <2>1, <3>1, <3>2
    <2>2. CASE k # n + 1
        <3>1. k \in 1..n /\ k \in 0..n /\ k - 1 \in 0..n
            BY <1>1, <2>2
        <3> QED BY <1>1, <1>2, <1>4, <3>1
    <2> QED BY <2>1, <2>2
<1>6. x[0] = seen
    BY <1>1, <1>2, <1>4
<1>7. Views(x, seen, more) /\ x[Len(more)] = last
    BY <1>1, <1>4, <1>5, <1>6 DEF Views
<1> QED BY <1>7 DEF more, n

\* When the first answer is handled, the rest continues what it describes.
LEMMA HandledFits ==
    ASSUME NEW seen, NEW answers \in Seq(Answer), answers # <<>>, NEW w, Views(w, seen, answers)
    PROVE  LET rest == Tail(answers)
           IN /\ Fits(seen, Head(answers))
              /\ \E x : /\ Views(x, Described(seen, Head(answers)), rest)
                        /\ x[Len(rest)] = w[Len(answers)]
<1> DEFINE rest == Tail(answers)
           n == Len(answers)
           x == [k \in 0..(n - 1) |-> w[k + 1]]
<1>1. /\ n \in Nat \ {0} /\ Len(rest) = n - 1 /\ Head(answers) = answers[1]
      /\ \A k \in 1..(n - 1) : rest[k] = answers[k + 1]
    OBVIOUS
<1> HIDE DEF rest
<1>2. /\ w \in [0..n -> Seq(Block)] /\ w[0] = seen
      /\ \A k \in 1..n : w[k] = Described(w[k - 1], answers[k]) /\ Fits(w[k - 1], answers[k])
    BY DEF Views
<1> HIDE DEF n
<1>3. w[1] = Described(seen, Head(answers)) /\ Fits(seen, Head(answers))
    <2>1. 1 \in 1..n /\ 1 - 1 = 0
        BY <1>1
    <2> QED BY <1>1, <1>2, <2>1
<1>4. x \in [0..(n - 1) -> Seq(Block)] /\ (\A k \in 0..(n - 1) : x[k] = w[k + 1])
      /\ x[0] = w[1] /\ x[n - 1] = w[n]
    <2>1. \A k \in 0..(n - 1) : k + 1 \in 0..n
        BY <1>1
    <2>2. 0 \in 0..(n - 1) /\ n - 1 \in 0..(n - 1) /\ (n - 1) + 1 = n /\ 0 + 1 = 1
        BY <1>1
    <2> QED BY <1>2, <2>1, <2>2
<1> HIDE DEF x
<1>5. ASSUME NEW k \in 1..(n - 1)
      PROVE  x[k] = Described(x[k - 1], rest[k]) /\ Fits(x[k - 1], rest[k])
    <2>1. k + 1 \in 1..n /\ (k + 1) - 1 = k /\ k \in 0..(n - 1) /\ k - 1 \in 0..(n - 1) /\ (k - 1) + 1 = k
        BY <1>1
    <2>2. w[k + 1] = Described(w[k], answers[k + 1]) /\ Fits(w[k], answers[k + 1])
        BY <1>2, <2>1
    <2> QED BY <1>1, <1>4, <2>1, <2>2
<1>6. Views(x, Described(seen, Head(answers)), rest) /\ x[Len(rest)] = w[n]
    BY <1>1, <1>3, <1>4, <1>5 DEF Views
<1> QED BY <1>3, <1>6 DEF rest, n

\* The beginning of a longer list, and of a beginning of it.
LEMMA PrefixOfAppended ==
    ASSUME NEW S, NEW list \in Seq(S), NEW x \in S, NEW k \in 0..Len(list)
    PROVE  /\ SubSeq(Append(list, x), 1, k) = SubSeq(list, 1, k)
           /\ SubSeq(list, 1, k) \in Seq(S) /\ Len(SubSeq(list, 1, k)) = k
           /\ \A i \in 1..k : SubSeq(list, 1, k)[i] = list[i]
           /\ SubSeq(list, 1, Len(list)) = list
<1>1. /\ Append(list, x) \in Seq(S) /\ Len(Append(list, x)) = Len(list) + 1 /\ Len(list) \in Nat
      /\ \A i \in 1..Len(list) : Append(list, x)[i] = list[i]
    OBVIOUS
<1> DEFINE n == Len(list)
           more == Append(list, x)
<1> HIDE DEF more
<1>2. /\ SubSeq(list, 1, k) \in Seq(S) /\ Len(SubSeq(list, 1, k)) = k
      /\ \A i \in 1..k : SubSeq(list, 1, k)[i] = list[i]
    OBVIOUS
<1>3. /\ SubSeq(more, 1, k) \in Seq(S) /\ Len(SubSeq(more, 1, k)) = k
      /\ \A i \in 1..k : SubSeq(more, 1, k)[i] = more[i]
    BY <1>1 DEF more
<1>4. SubSeq(more, 1, k) = SubSeq(list, 1, k)
    <2>1. \A i \in 1..k : SubSeq(more, 1, k)[i] = SubSeq(list, 1, k)[i]
        BY <1>1, <1>2, <1>3 DEF more
    <2> QED BY <1>2, <1>3, <2>1, SeqEqual
<1>5. SubSeq(list, 1, n) = list
    OBVIOUS
<1> QED BY <1>2, <1>4, <1>5 DEF more

LEMMA PrefixOfPrefix ==
    ASSUME NEW S, NEW list \in Seq(S), NEW n \in 0..Len(list), NEW k \in 0..n
    PROVE  SubSeq(SubSeq(list, 1, n), 1, k) = SubSeq(list, 1, k)
<1> DEFINE first == SubSeq(list, 1, n)
<1>1. k \in 0..Len(list) /\ Len(list) \in Nat
    OBVIOUS
<1>2. first \in Seq(S) /\ Len(first) = n /\ \A i \in 1..n : first[i] = list[i]
    OBVIOUS
<1>3. SubSeq(list, 1, k) \in Seq(S) /\ Len(SubSeq(list, 1, k)) = k /\ \A i \in 1..k : SubSeq(list, 1, k)[i] = list[i]
    BY <1>1
<1> HIDE DEF first
<1>4. SubSeq(first, 1, k) \in Seq(S) /\ Len(SubSeq(first, 1, k)) = k /\ \A i \in 1..k : SubSeq(first, 1, k)[i] = first[i]
    BY <1>2
<1>5. \A i \in 1..k : SubSeq(first, 1, k)[i] = SubSeq(list, 1, k)[i]
    BY <1>2, <1>3, <1>4
<1>6. SubSeq(first, 1, k) = SubSeq(list, 1, k)
    BY <1>3, <1>4, <1>5, SeqEqual
<1> QED BY <1>6 DEF first

\* A chain grows by valid blocks only.
LEMMA GrownChainIsValid ==
    ASSUME GoldenInv, ViewsFollow, NEW block \in Block, Extend(block)
    PROVE  ViewsFollow'
<1> DEFINE l == Len(chain)
<1>1. /\ chain' = Append(chain, block) /\ ValidBody(chain, block.body)
      /\ UNCHANGED <<pointer, undo, pipe, status, view>>
    BY DEF Extend, toolVars, recordVars
<1>2. chain \in Seq(Block) /\ pointer \in 0..l /\ l \in Nat
    BY DEF GoldenInv, GoldenTyped
<1>3. Len(chain') = l + 1 /\ chain'[l + 1] = block /\ \A i \in 1..l : chain'[i] = chain[i]
    BY <1>1, <1>2
<1>4. ASSUME NEW k \in 0..l
      PROVE  SubSeq(chain', 1, k) = SubSeq(chain, 1, k) /\ SubSeq(chain, 1, l) = chain
    BY <1>1, <1>2, PrefixOfAppended
<1>5. ChainIsValid(chain')
    <2>1. SUFFICES ASSUME NEW h \in 1..(l + 1) PROVE ValidBody(SubSeq(chain', 1, h - 1), chain'[h].body)
        BY <1>3 DEF ChainIsValid
    <2>2. h - 1 \in 0..l
        BY <1>2
    <2>3. CASE h = l + 1
        <3>1. h - 1 = l
            BY <1>2, <2>3
        <3>2. SubSeq(chain', 1, h - 1) = chain
            BY <1>4, <2>2, <3>1
        <3> QED BY <1>1, <1>3, <2>3, <3>2
    <2>4. CASE h # l + 1
        <3>1. h \in 1..l
            BY <1>2, <2>4
        <3> QED BY <1>3, <1>4, <2>2, <3>1 DEF ViewsFollow, ChainIsValid
    <2> QED BY <2>3, <2>4
<1>6. ASSUME Following'
      PROVE  Describe(view', pipe', chain', pointer', undo')
    <2>1. Describe(view, pipe, chain, pointer, undo)
        BY <1>1, <1>6 DEF ViewsFollow, Following
    <2>2. \A j \in 1..pointer : chain'[j] = chain[j]
        BY <1>2, <1>3
    <2> QED BY <1>1, <2>1, <2>2 DEF Describe
<1> QED BY <1>5, <1>6 DEF ViewsFollow

\* A fork leaves a valid chain.
LEMMA ForkedChainIsValid ==
    ASSUME GoldenInv, ViewsFollow, NEW n \in 0..Len(chain) - 1, Fork(n)
    PROVE  ViewsFollow'
<1> DEFINE l == Len(chain)
<1>1. /\ chain' = SubSeq(chain, 1, n) /\ pointer' = IF n < pointer THEN n ELSE pointer
      /\ undo' = (undo \/ n < pointer)
      /\ UNCHANGED <<pipe, status, view>>
    BY DEF Fork, toolVars, recordVars
<1>2. chain \in Seq(Block) /\ pointer \in 0..l /\ l \in Nat /\ undo \in BOOLEAN /\ n \in 0..l
    BY DEF GoldenInv, GoldenTyped
<1>3. chain' \in Seq(Block) /\ Len(chain') = n /\ \A i \in 1..n : chain'[i] = chain[i]
    BY <1>1, <1>2
<1>4. ChainIsValid(chain')
    <2>1. SUFFICES ASSUME NEW h \in 1..n PROVE ValidBody(SubSeq(chain', 1, h - 1), chain'[h].body)
        BY <1>3 DEF ChainIsValid
    <2>2. h - 1 \in 0..n /\ h \in 1..l
        BY <1>2
    <2>3. SubSeq(chain', 1, h - 1) = SubSeq(chain, 1, h - 1)
        BY <1>1, <1>2, <2>2, PrefixOfPrefix
    <2> QED BY <1>3, <2>2, <2>3 DEF ViewsFollow, ChainIsValid
<1>5. ASSUME Following'
      PROVE  Describe(view', pipe', chain', pointer', undo')
    <2> DEFINE last == Len(pipe)
    <2>6. Describe(view, pipe, chain, pointer, undo)
        BY <1>1, <1>5 DEF ViewsFollow, Following
    <2>1. PICK w : /\ Views(w, view, pipe) /\ pointer <= Len(w[last]) /\ (~ undo => pointer = Len(w[last]))
                   /\ \A j \in 1..pointer : w[last][j] = chain[j]
        BY <2>6 DEF Describe
    <2>2. pointer' \in Nat /\ pointer' <= pointer /\ pointer' <= n /\ (~ undo' => ~ undo /\ pointer' = pointer)
        <3>1. pointer \in Nat /\ n \in Nat
            <4> HIDE DEF l
            <4> QED BY <1>2
        <3>2. pointer' = IF n < pointer THEN n ELSE pointer
            BY <1>1
        <3>3. pointer' \in Nat /\ pointer' <= pointer /\ pointer' <= n
            BY <3>1, <3>2
        <3>4. ~ undo' => ~ undo /\ pointer' = pointer
            BY <1>1, <1>2
        <3> QED BY <3>3, <3>4
    <2>3. w[last] \in Seq(Block) /\ Len(w[last]) \in Nat
        <3>1. Len(pipe) \in 0..Len(pipe)
            BY DEF GoldenInv, GoldenTyped
        <3>2. w[last] \in Seq(Block)
            BY <2>1, <3>1 DEF Views
        <3> HIDE DEF last
        <3> QED BY <3>2
    <2> HIDE DEF last
    <2>4. pointer' <= Len(w[last]) /\ (~ undo' => pointer' = Len(w[last]))
        BY <1>2, <2>1, <2>2, <2>3
    <2>5. \A j \in 1..pointer' : w[last][j] = chain'[j]
        BY <1>2, <1>3, <2>1, <2>2
    <2> QED BY <1>1, <2>1, <2>4, <2>5 DEF Describe, last
<1> QED BY <1>4, <1>5 DEF ViewsFollow

\* The node answers with the next block of its chain, or rolls back.
Served == IF undo THEN [type |-> "backward", height |-> pointer]
          ELSE [type |-> "forward", height |-> pointer + 1, block |-> chain[pointer + 1]]

\* What is described once an answer is in the pipe is what has been sent.
LEMMA ServedFits ==
    ASSUME GoldenInv, ViewsFollow, undo \/ pointer < Len(chain),
           NEW seen \in Seq(Block), pointer <= Len(seen), ~ undo => pointer = Len(seen),
           \A j \in 1..pointer : seen[j] = chain[j]
    PROVE  LET sent == IF undo THEN pointer ELSE pointer + 1
           IN /\ Served \in Answer
              /\ Described(seen, Served) \in Seq(Block) /\ Fits(seen, Served)
              /\ Len(Described(seen, Served)) = sent
              /\ \A j \in 1..sent : Described(seen, Served)[j] = chain[j]
<1>1. chain \in Seq(Block) /\ pointer \in Nat /\ pointer <= Len(chain) /\ Len(chain) \in Nat
    <2>1. chain \in Seq(Block) /\ pointer \in 0..Len(chain)
        BY DEF GoldenInv, GoldenTyped
    <2> QED BY <2>1
<1>2. CASE undo
    <2> DEFINE now == SubSeq(seen, 1, pointer)
    <2>1. Served \in Answer /\ Described(seen, Served) = now /\ Fits(seen, Served)
        BY <1>1, <1>2 DEF Served, Answer, Described, Fits
    <2>2. now \in Seq(Block) /\ Len(now) = pointer /\ \A j \in 1..pointer : now[j] = seen[j]
        BY <1>1
    <2> HIDE DEF now
    <2> QED BY <1>2, <2>1, <2>2
<1>3. CASE ~ undo
    <2> DEFINE b == chain[pointer + 1]
               now == Append(seen, b)
    <2>1. pointer + 1 \in 1..Len(chain) /\ b \in Block /\ pointer = Len(seen)
        BY <1>1, <1>3
    <2>2. Served \in Answer /\ Described(seen, Served) = now
        BY <1>1, <1>3, <2>1 DEF Served, Answer, Described
    <2>3. SubSeq(chain, 1, pointer) = seen
        <3>1. /\ SubSeq(chain, 1, pointer) \in Seq(Block) /\ Len(SubSeq(chain, 1, pointer)) = pointer
              /\ \A j \in 1..pointer : SubSeq(chain, 1, pointer)[j] = chain[j]
            BY <1>1
        <3> QED BY <2>1, <3>1, SeqEqual
    <2>4. Fits(seen, Served)
        <3>1. ValidBody(SubSeq(chain, 1, (pointer + 1) - 1), b.body)
            BY <2>1 DEF ViewsFollow, ChainIsValid
        <3>2. (pointer + 1) - 1 = pointer
            BY <1>1
        <3> HIDE DEF b
        <3>3. ValidBody(seen, b.body)
            BY <2>3, <3>1, <3>2
        <3> QED BY <1>3, <3>3 DEF Served, Fits, b
    <2>5. now \in Seq(Block) /\ Len(now) = pointer + 1 /\ now[pointer + 1] = b
          /\ \A j \in 1..pointer : now[j] = seen[j]
        <3> HIDE DEF b
        <3> QED BY <1>1, <2>1
    <2>6. \A j \in 1..(pointer + 1) : now[j] = chain[j]
        <3>1. \A j \in 1..(pointer + 1) : j = pointer + 1 \/ j \in 1..pointer
            BY <1>1
        <3> HIDE DEF now
        <3> QED BY <2>5, <3>1
    <2> HIDE DEF now
    <2> QED BY <1>3, <2>2, <2>4, <2>5, <2>6
<1> QED BY <1>2, <1>3

\* What the pipe describes after the last answer.
LEMMA LastDescribed ==
    ASSUME GoldenInv, ViewsFollow, Following
    PROVE  \E w : /\ Views(w, view, pipe)
                  /\ pipe \in Seq(Answer) /\ w[Len(pipe)] \in Seq(Block)
                  /\ pointer <= Len(w[Len(pipe)]) /\ (~ undo => pointer = Len(w[Len(pipe)]))
                  /\ \A j \in 1..pointer : w[Len(pipe)][j] = chain[j]
<1>1. Describe(view, pipe, chain, pointer, undo)
    BY DEF ViewsFollow
<1>2. PICK w : /\ Views(w, view, pipe)
               /\ pointer <= Len(w[Len(pipe)]) /\ (~ undo => pointer = Len(w[Len(pipe)]))
               /\ \A j \in 1..pointer : w[Len(pipe)][j] = chain[j]
    BY <1>1 DEF Describe
<1>3. pipe \in Seq(Answer) /\ Len(pipe) \in 0..Len(pipe)
    BY DEF GoldenInv, GoldenTyped
<1>4. w[Len(pipe)] \in Seq(Block)
    BY <1>2, <1>3 DEF Views
<1> QED BY <1>2, <1>3, <1>4

\* The node's answers describe its chain.
LEMMA ServedIsValid ==
    ASSUME GoldenInv, ViewsFollow, Serve
    PROVE  ViewsFollow'
<1>1. /\ undo \/ pointer < Len(chain)
      /\ undo' = FALSE /\ pipe' = Append(pipe, Served)
      /\ pointer' = IF undo THEN pointer ELSE pointer + 1
      /\ UNCHANGED <<chain, status, view>>
    BY DEF Serve, Served, toolVars, recordVars
<1>2. ChainIsValid(chain')
    BY <1>1 DEF ViewsFollow
<1>3. ASSUME Following'
      PROVE  Describe(view', pipe', chain', pointer', undo')
    <2> DEFINE last == Len(pipe)
    <2>1. Following
        BY <1>1, <1>3 DEF Following
    <2>2. PICK w : /\ Views(w, view, pipe) /\ pipe \in Seq(Answer) /\ w[last] \in Seq(Block)
                   /\ pointer <= Len(w[last]) /\ (~ undo => pointer = Len(w[last]))
                   /\ \A j \in 1..pointer : w[last][j] = chain[j]
        BY <2>1, LastDescribed
    <2>3. PICK seen \in Seq(Block) : seen = w[last]
        BY <2>2
    <2>4. PICK now : now = Described(seen, Served)
        OBVIOUS
    <2>5. /\ Served \in Answer /\ now \in Seq(Block) /\ Fits(seen, Served)
          /\ Len(now) = pointer' /\ \A j \in 1..pointer' : now[j] = chain[j]
        BY <1>1, <2>2, <2>3, <2>4, ServedFits
    <2>6. PICK x : Views(x, view, Append(pipe, Served)) /\ x[Len(Append(pipe, Served))] = now
        BY <2>2, <2>3, <2>4, <2>5, AppendedFits
    <2>7. Views(x, view', pipe') /\ x[Len(pipe')] = now
        BY <1>1, <2>6
    <2>8. pointer' \in Nat
        BY <1>1 DEF GoldenInv, GoldenTyped
    <2>9. pointer' <= Len(now) /\ \A j \in 1..pointer' : now[j] = chain'[j]
        BY <1>1, <2>5, <2>8
    <2> QED BY <1>1, <2>5, <2>7, <2>9 DEF Describe
<1> QED BY <1>2, <1>3 DEF ViewsFollow

\* When the first answer is handled, the view is what it describes.
LEMMA HandledIsValid ==
    ASSUME GoldenInv, ViewsFollow, Following, pipe # <<>>, pipe' = Tail(pipe),
           view' = Described(view, Head(pipe)), UNCHANGED <<chain, pointer, undo>>
    PROVE  ViewsFollow' /\ Fits(view, Head(pipe))
<1>1. PICK w : /\ Views(w, view, pipe) /\ pipe \in Seq(Answer) /\ w[Len(pipe)] \in Seq(Block)
               /\ pointer <= Len(w[Len(pipe)]) /\ (~ undo => pointer = Len(w[Len(pipe)]))
               /\ \A j \in 1..pointer : w[Len(pipe)][j] = chain[j]
    BY LastDescribed
<1>2. PICK x : Views(x, Described(view, Head(pipe)), Tail(pipe)) /\ x[Len(Tail(pipe))] = w[Len(pipe)]
    BY <1>1, HandledFits
<1>3. Fits(view, Head(pipe))
    BY <1>1, HandledFits
<1>4. Views(x, view', pipe') /\ x[Len(pipe')] = w[Len(pipe)]
    BY <1>2
<1>5. Describe(view', pipe', chain', pointer', undo')
    BY <1>1, <1>4 DEF Describe
<1> QED BY <1>3, <1>5 DEF ViewsFollow

\* A rollback takes the view back to its height.
LEMMA RolledBackIsValid ==
    ASSUME GoldenInv, ViewsFollow, RollBackward
    PROVE  ViewsFollow'
<1>1. /\ status \in {"syncing", "draining"} /\ pipe # <<>> /\ Head(pipe).type = "backward"
      /\ pipe' = Tail(pipe) /\ ViewRollsBack(Head(pipe).height)
      /\ UNCHANGED <<chain, pointer, undo, status>>
    BY DEF RollBackward, nodeVars, recordVars
<1>2. CASE status = "draining"
    BY <1>1, <1>2 DEF ViewsFollow, Following
<1>3. CASE status = "syncing"
    <2>1. view' = Described(view, Head(pipe))
        BY <1>1, <1>3 DEF ViewRollsBack, Described
    <2> QED BY <1>1, <1>3, <2>1, HandledIsValid DEF Following
<1> QED BY <1>1, <1>2, <1>3

\* A block is added to the view, to which it fits.
LEMMA RolledForwardIsValid ==
    ASSUME GoldenInv, ViewsFollow, RollForward
    PROVE  ViewsFollow' /\ ValidBody(view, Head(pipe).block.body)
<1>1. /\ status = "syncing" /\ pipe # <<>> /\ Head(pipe).type = "forward"
      /\ pipe' = Tail(pipe) /\ view' = Append(view, Head(pipe).block)
      /\ UNCHANGED <<chain, pointer, undo>>
    BY DEF RollForward, nodeVars
<1>2. view' = Described(view, Head(pipe))
    BY <1>1 DEF Described
<1>3. ViewsFollow' /\ Fits(view, Head(pipe))
    BY <1>1, <1>2, HandledIsValid DEF Following
<1> QED BY <1>1, <1>3 DEF Fits

\* The other steps of the tool leave what is described, or end it.
LEMMA OtherStepsAreValid ==
    ASSUME ViewsFollow, Start \/ DropForward \/ ShutDown \/ ConnectionFails \/ UNCHANGED generatorVars
    PROVE  ViewsFollow'
<1>1. UNCHANGED <<chain, pointer, undo, view>>
    BY DEF Start, DropForward, ShutDown, ConnectionFails, generatorVars, nodeVars, recordVars, toolVars
<1>2. \/ status' \notin {"starting", "syncing"}
      \/ Following /\ pipe' = pipe
    BY DEF Start, DropForward, ShutDown, ConnectionFails, generatorVars, nodeVars, recordVars, toolVars,
           Following
<1> QED BY <1>1, <1>2 DEF ViewsFollow, Following

\* Nothing has been described yet.
LEMMA NothingDescribed ==
    ASSUME GeneratorInit
    PROVE  ViewsFollow
<1>1. chain = <<>> /\ pointer = 0 /\ undo = TRUE /\ pipe = <<>> /\ view = <<>>
    BY DEF GeneratorInit
<1>2. ChainIsValid(chain)
    BY <1>1 DEF ChainIsValid
<1> DEFINE w == [k \in 0..0 |-> <<>>]
<1>3. Views(w, view, pipe)
    BY <1>1 DEF Views
<1>4. Len(w[Len(pipe)]) = 0
    BY <1>1
<1>5. pointer <= Len(w[Len(pipe)]) /\ (~ undo => pointer = Len(w[Len(pipe)]))
      /\ \A j \in 1..pointer : w[Len(pipe)][j] = chain[j]
    <2> HIDE DEF w
    <2> QED BY <1>1, <1>4
<1> HIDE DEF w
<1>6. Describe(view, pipe, chain, pointer, undo)
    BY <1>3, <1>5 DEF Describe
<1> QED BY <1>2, <1>6 DEF ViewsFollow

\* The answers on their way describe a valid chain at all times.
LEMMA ViewsFollowStep ==
    ASSUME GoldenInv, ViewsFollow, [GeneratorNext]_generatorVars
    PROVE  ViewsFollow'
BY GrownChainIsValid, ForkedChainIsValid, ServedIsValid, RolledBackIsValid, RolledForwardIsValid,
   OtherStepsAreValid DEF GeneratorNext, NodeStep, ToolStep

-----------------------------------------------------------------------------
(* GoldenGenerator: balances, snapshots and records *)

Counted == [bal |-> balances, txs |-> trackedTxs]

RecordsTyped ==
    /\ Len(chain) <= MaxHeight
    /\ requests \in Nat /\ requests + Len(pipe) <= InFlight
    /\ tool \in {"balances", "blocks"}
    /\ status \in {"starting", "syncing", "draining", "resolved", "rejected", "thrown"}
    /\ rolledBack \in BOOLEAN
    /\ balances \in [Tracked -> Nat]
    /\ trackedTxs \in Seq(Tx)
    /\ DOMAIN response \subseteq AtBlocks

\* Without a rollback the balances are those of the view, and what is recorded
\* those of its beginnings.
BalancesFollow ==
    tool = "balances" /\ ~ rolledBack /\ status # "thrown" =>
        /\ AddsUp(Counted, TxsOf(view))
        /\ \A h \in DOMAIN response : h <= Len(view) /\ IsBalanceAt(Prefix(view, h), response[h])

EveryHeightRecorded == status # "thrown" => \A h \in AtBlocks : h <= Len(view) => h \in DOMAIN response
CompletedAtLast == status \in {"draining", "resolved"} => LastHeight <= Len(view)
StartsEmpty == status = "starting" => view = <<>>

RecordInv == /\ RecordsTyped /\ BalancesFollow /\ EveryHeightRecorded /\ CompletedAtLast
             /\ StartsEmpty /\ ThrowsAreExplained

\* The outputs of no transaction add up to no balance.
LEMMA NothingCounted ==
    ASSUME GeneratorInit
    PROVE  RecordInv
<1>1. /\ chain = <<>> /\ requests = 0 /\ pipe = <<>> /\ tool \in {"balances", "blocks"}
      /\ status = "starting" /\ balances = [a \in Tracked |-> 0] /\ trackedTxs = <<>>
      /\ response = <<>> /\ view = <<>> /\ rolledBack = FALSE
    BY DEF GeneratorInit
<1>2. DOMAIN response = {}
    BY <1>1
<1>3. RecordsTyped
    <2>1. MaxHeight \in Nat /\ InFlight \in Nat \ {0} /\ Len(<<>>) = 0
        BY GeneratorAssumption
    <2>2. balances \in [Tracked -> Nat] /\ trackedTxs \in Seq(Tx)
        BY <1>1
    <2>3. Len(chain) <= MaxHeight /\ requests \in Nat /\ requests + Len(pipe) <= InFlight
        <3>1. Len(chain) = 0 /\ Len(pipe) = 0 /\ requests = 0
            BY <1>1, <2>1
        <3> QED BY <2>1, <3>1
    <2> QED BY <1>1, <1>2, <2>2, <2>3 DEF RecordsTyped
<1>4. AddsUp(Counted, TxsOf(view))
    <2>1. TxsOf(view) = {}
        BY <1>1 DEF TxsOf
    <2>2. MadeIn({}) = {} /\ SpentBy({}) = {}
        BY DEF MadeIn, SpentBy
    <2>3. Counted \in Tally
        BY <1>1 DEF Counted, Tally
    <2>4. \A a \in Tracked : Counted.bal[a] = 0 /\ Holds({}, a) = 0
        <3>1. \A a : PaidTo({}, a) = {}
            BY DEF PaidTo
        <3>2. \A a : Holds({}, a) = 0
            BY <3>1, SumEmpty DEF Holds
        <3> QED BY <1>1, <3>2 DEF Counted
    <2>5. IsFiniteSet({})
        BY FS_EmptySet
    <2>6. Represents(Counted, {})
        BY <2>3, <2>4, <2>5 DEF Represents
    <2> QED BY <2>1, <2>2, <2>6 DEF AddsUp
<1>5. \A h \in AtBlocks : ~ h <= Len(view)
    BY <1>1, GeneratorAssumption
<1> QED BY <1>1, <1>2, <1>3, <1>4, <1>5
        DEF RecordInv, BalancesFollow, EveryHeightRecorded, CompletedAtLast, StartsEmpty, ThrowsAreExplained

\* Steps that touch no balance, no record and no view.
LEMMA RecordsKept ==
    ASSUME RecordInv, RecordsTyped', UNCHANGED <<tool, balances, trackedTxs, response, view, rolledBack>>,
           \/ status' = status
           \/ status = "starting" /\ status' \in {"syncing", "thrown"}
           \/ status = "draining" /\ status' = "resolved"
           \/ status # "thrown" /\ status' = "rejected"
    PROVE  RecordInv'
<1>1. BalancesFollow'
    <2>1. status' # "thrown" => status # "thrown"
        OBVIOUS
    <2> QED BY <2>1 DEF RecordInv, BalancesFollow, Counted
<1>2. EveryHeightRecorded' /\ CompletedAtLast' /\ StartsEmpty' /\ ThrowsAreExplained'
    BY DEF RecordInv, EveryHeightRecorded, CompletedAtLast, StartsEmpty, ThrowsAreExplained
<1> QED BY <1>1, <1>2 DEF RecordInv

\* The node touches neither.
LEMMA NodeKeepsRecords ==
    ASSUME GoldenInv, RecordInv,
           \/ \E block \in Block : Extend(block)
           \/ \E n \in 0..Len(chain) - 1 : Fork(n)
           \/ Serve
    PROVE  RecordInv'
<1>1. UNCHANGED <<tool, status, balances, trackedTxs, response, view, rolledBack>>
    BY DEF Extend, Fork, Serve, toolVars, recordVars
<1>2. chain \in Seq(Block) /\ pipe \in Seq(Answer) /\ MaxHeight \in Nat /\ InFlight \in Nat
    BY GeneratorAssumption DEF GoldenInv, GoldenTyped
<1>3. Len(chain) <= MaxHeight /\ requests \in Nat /\ requests + Len(pipe) <= InFlight
    BY DEF RecordInv, RecordsTyped
<1>4. Len(chain') <= MaxHeight /\ requests' \in Nat /\ requests' + Len(pipe') <= InFlight
    <2>1. ASSUME NEW block \in Block, Extend(block)
          PROVE  Len(chain') <= MaxHeight /\ requests' \in Nat /\ requests' + Len(pipe') <= InFlight
        <3>1. chain' = Append(chain, block) /\ Len(chain) < MaxHeight /\ UNCHANGED <<requests, pipe>>
            BY <2>1 DEF Extend
        <3>2. Len(chain') = Len(chain) + 1 /\ Len(chain) \in Nat
            BY <1>2, <3>1
        <3> QED BY <1>2, <1>3, <3>1, <3>2
    <2>2. ASSUME NEW n \in 0..Len(chain) - 1, Fork(n)
          PROVE  Len(chain') <= MaxHeight /\ requests' \in Nat /\ requests' + Len(pipe') <= InFlight
        <3>1. chain' = SubSeq(chain, 1, n) /\ UNCHANGED <<requests, pipe>>
            BY <2>2 DEF Fork
        <3>2. PICK l \in Nat : l = Len(chain)
            BY <1>2
        <3>3. Len(chain') = n /\ n \in 0..l - 1
            BY <1>2, <3>1, <3>2
        <3> QED BY <1>2, <1>3, <3>1, <3>2, <3>3
    <2>3. ASSUME Serve
          PROVE  Len(chain') <= MaxHeight /\ requests' \in Nat /\ requests' + Len(pipe') <= InFlight
        <3>1. requests > 0 /\ requests' = requests - 1 /\ chain' = chain
              /\ \E answer : pipe' = Append(pipe, answer)
            BY <2>3 DEF Serve
        <3>2. Len(pipe') = Len(pipe) + 1 /\ Len(pipe) \in Nat
            <4>1. PICK answer : pipe' = Append(pipe, answer)
                BY <3>1
            <4>2. pipe \in Seq(Answer \cup {answer})
                BY <1>2
            <4> QED BY <4>1, <4>2
        <3> QED BY <1>2, <1>3, <3>1, <3>2
    <2> QED BY <2>1, <2>2, <2>3
<1>5. RecordsTyped'
    BY <1>1, <1>4 DEF RecordInv, RecordsTyped
<1> QED BY <1>1, <1>5, RecordsKept

\* Neither does a tool that starts, or has completed.
LEMMA ToolKeepsRecords ==
    ASSUME GoldenInv, RecordInv, Start \/ DropForward \/ ShutDown \/ ConnectionFails \/ UNCHANGED generatorVars
    PROVE  RecordInv'
<1>1. UNCHANGED <<chain, tool, balances, trackedTxs, response, view, rolledBack>>
    BY DEF Start, DropForward, ShutDown, ConnectionFails, generatorVars, nodeVars, recordVars, toolVars
<1>2. pipe \in Seq(Answer) /\ InFlight \in Nat
    BY GeneratorAssumption DEF GoldenInv, GoldenTyped
<1>3. requests \in Nat /\ requests + Len(pipe) <= InFlight
    BY DEF RecordInv, RecordsTyped
<1>4. requests' \in Nat /\ requests' + Len(pipe') <= InFlight
    <2>1. CASE Start
        <3>1. status = "starting" /\ pipe' = pipe /\ requests' \in {InFlight, requests}
            BY <2>1 DEF Start
        <3>2. pipe = <<>>
            BY <3>1 DEF GoldenInv, HeightsFollow
        <3>3. Len(pipe') = 0
            BY <3>1, <3>2
        <3>4. requests' = InFlight \/ (requests' = requests /\ Len(pipe) = 0)
            BY <3>1, <3>2
        <3> QED BY <1>2, <1>3, <3>3, <3>4
    <2>2. CASE DropForward
        <3>1. pipe # <<>> /\ pipe' = Tail(pipe) /\ requests' = requests
            BY <2>2 DEF DropForward, toolVars
        <3>2. Len(pipe') = Len(pipe) - 1 /\ Len(pipe) \in Nat
            BY <1>2, <3>1
        <3> QED BY <1>2, <1>3, <3>1, <3>2
    <2>3. CASE ShutDown \/ ConnectionFails \/ UNCHANGED generatorVars
        <3>1. UNCHANGED <<requests, pipe>>
            BY <2>3 DEF ShutDown, ConnectionFails, generatorVars
        <3> QED BY <1>3, <3>1
    <2> QED BY <2>1, <2>2, <2>3
<1>5. \/ status' = status
      \/ status = "starting" /\ status' \in {"syncing", "thrown"}
      \/ status = "draining" /\ status' = "resolved"
      \/ status # "thrown" /\ status' = "rejected"
    BY DEF Start, DropForward, ShutDown, ConnectionFails, Connected, generatorVars, toolVars
<1>6. RecordsTyped'
    BY <1>1, <1>4, <1>5 DEF RecordInv, RecordsTyped
<1> QED BY <1>1, <1>5, <1>6, RecordsKept

\* A rollback that undoes no block leaves the view.
LEMMA RollbackKeepsRecords ==
    ASSUME GoldenInv, RecordInv, RollBackward
    PROVE  RecordInv'
<1>1. /\ status \in {"syncing", "draining"} /\ pipe # <<>>
      /\ pipe' = Tail(pipe) /\ requests' = requests + 1 /\ ViewRollsBack(Head(pipe).height)
      /\ UNCHANGED <<chain, tool, status, balances, trackedTxs, response>>
    BY DEF RollBackward, nodeVars, recordVars
<1>2. pipe \in Seq(Answer) /\ view \in Seq(Block) /\ InFlight \in Nat
    BY GeneratorAssumption DEF GoldenInv, GoldenTyped
<1>3. requests \in Nat /\ requests + Len(pipe) <= InFlight /\ rolledBack \in BOOLEAN
    BY DEF RecordInv, RecordsTyped
<1>4. requests' \in Nat /\ requests' + Len(pipe') <= InFlight
    <2>1. Len(pipe') = Len(pipe) - 1 /\ Len(pipe) \in Nat
        BY <1>1, <1>2
    <2> QED BY <1>1, <1>2, <1>3, <2>1
<1>5. CASE status = "draining"
    <2>1. UNCHANGED <<view, rolledBack>>
        BY <1>1, <1>5 DEF ViewRollsBack
    <2>2. RecordsTyped'
        BY <1>1, <1>4, <2>1 DEF RecordInv, RecordsTyped
    <2> QED BY <1>1, <2>1, <2>2, RecordsKept
<1>6. CASE status = "syncing"
    <2> DEFINE h == Head(pipe).height
    <2>1. rolledBack' = (rolledBack \/ h < Len(view)) /\ view' = SubSeq(view, 1, h)
        BY <1>1, <1>6 DEF ViewRollsBack
    <2>2. h \in Nat /\ h <= Len(view) /\ Len(view) \in Nat
        <3>1. 1 \in 1..Len(pipe) /\ Head(pipe) = pipe[1]
            BY <1>1, <1>2
        <3>2. Continues(Head(pipe), Len(view)) /\ h \in Nat
            BY <1>1, <1>6, FirstAnswer DEF Following
        <3>3. Head(pipe).type # "forward"
            BY DEF RollBackward
        <3>4. h <= Len(view)
            BY <3>2, <3>3 DEF Continues
        <3> QED BY <1>2, <3>2, <3>4
    <2>3. view' \in Seq(Block) /\ Len(view') = h
        BY <1>2, <2>1, <2>2
    <2>4. rolledBack' \in BOOLEAN
        BY <2>1
    <2>5. RecordsTyped'
        BY <1>1, <1>4, <2>4 DEF RecordInv, RecordsTyped
    <2>6. ASSUME ~ rolledBack' PROVE ~ rolledBack /\ view' = view
        <3>1. ~ rolledBack /\ ~ h < Len(view)
            BY <2>1, <2>6
        <3>2. h = Len(view)
            <4> HIDE DEF h
            <4> QED BY <2>2, <3>1
        <3>3. SubSeq(view, 1, Len(view)) = view
            BY <1>2
        <3> QED BY <2>1, <3>1, <3>2, <3>3
    <2>7. BalancesFollow'
        BY <1>1, <2>6 DEF RecordInv, BalancesFollow, Counted
    <2>8. EveryHeightRecorded'
        <3>1. \A x \in AtBlocks : x \in Int
            BY GeneratorAssumption
        <3>2. \A x \in AtBlocks : x <= Len(view') => x <= Len(view)
            <4> HIDE DEF h
            <4> QED BY <2>2, <2>3, <3>1
        <3> QED BY <1>1, <3>2 DEF RecordInv, EveryHeightRecorded
    <2> QED BY <1>1, <1>6, <2>5, <2>7, <2>8 DEF RecordInv, CompletedAtLast, StartsEmpty, ThrowsAreExplained
<1> QED BY <1>1, <1>5, <1>6

\* The loops over a block give balances and transactions.
LEMMA AppliedBody ==
    ASSUME RecordInv, NEW block \in Block
    PROVE  Counted \in Tally /\ ApplyBody(Counted, block.body) \in Tally /\ block.body \in Seq(Tx)
<1>1. Counted \in Tally
    BY DEF RecordInv, RecordsTyped, Counted, Tally
<1>2. block.body \in Seq(Tx)
    BY GeneratorAssumption
<1> DEFINE n == Len(block.body)
<1>3. PICK p : p \in [0..n -> Tally] /\ p[n] = ApplyBody(Counted, block.body)
    BY <1>1, <1>2, BodyFolded
<1>4. n \in 0..n
    BY <1>2
<1> QED BY <1>1, <1>2, <1>3, <1>4

\* What is recorded at the other heights stays.
LEMMA EntryKept ==
    ASSUME NEW height, NEW entry, NEW h \in DOMAIN response, h # height
    PROVE  Record(height, entry)[h] = response[h]
BY DEF Record

\* What is recorded at a height.
LEMMA EntryRecorded ==
    ASSUME RecordInv, NEW height, NEW entry
    PROVE  /\ DOMAIN Record(height, entry) = DOMAIN response \cup (AtBlocks \cap {height})
           /\ height \in AtBlocks => Record(height, entry)[height] = entry
<1>1. CASE height \in AtBlocks
    BY <1>1 DEF Record
<1>2. CASE height \notin AtBlocks
    BY <1>2 DEF Record
<1> QED BY <1>1, <1>2

\* A valid block is counted, whatever the order of its loops, and no balance
\* falls below zero.
LEMMA BlockIsCounted ==
    ASSUME GoldenInv, ViewsFollow, RecordInv, RollForward, tool = "balances", ~ rolledBack
    PROVE  LET after == ApplyBody(Counted, Head(pipe).block.body)
           IN AddsUp(after, TxsOf(view')) /\ IsBalanceAt(view', after.bal) /\ ~ Thrown(after)
<1> DEFINE block == Head(pipe).block
           after == ApplyBody(Counted, block.body)
<1>1. status = "syncing" /\ pipe # <<>> /\ Head(pipe).type = "forward" /\ view' = Append(view, block)
    BY DEF RollForward
<1>2. view \in Seq(Block) /\ block \in Block
    BY <1>1, FirstAnswer DEF Following
<1>3. ValidBody(view, block.body)
    BY RolledForwardIsValid
<1>4. AddsUp(Counted, TxsOf(view))
    BY <1>1 DEF RecordInv, BalancesFollow
<1>5. block.body \in Seq(Tx)
    BY <1>2, AppliedBody
<1>6. TxsOf(view') = TxsOf(view) \cup ToSet(block.body)
    <2> HIDE DEF block
    <2> QED BY <1>1, <1>2, TxsOfAppended
<1>7. AddsUp(after, TxsOf(view) \cup ToSet(block.body))
    BY <1>2, <1>3, <1>4, <1>5, BodyIsCounted
<1>8. view' \in Seq(Block)
    <2> HIDE DEF block
    <2> QED BY <1>1, <1>2
<1> HIDE DEF after
<1>9. AddsUp(after, TxsOf(view'))
    BY <1>6, <1>7
<1>10. PICK seen \in Seq(Block) : seen = view'
    BY <1>8
<1>11. IsBalanceAt(seen, after.bal)
    BY <1>9, <1>10, BalancesOfChain
<1>12. ~ Thrown(after)
    BY <1>9, NothingThrown DEF AddsUp
<1> QED BY <1>9, <1>10, <1>11, <1>12 DEF after, IsBalanceAt

\* A block is counted and recorded, or the process ends.
LEMMA ForwardKeepsRecords ==
    ASSUME GoldenInv, ViewsFollow, RecordInv, RollForward
    PROVE  RecordInv'
<1> DEFINE m == Head(pipe)
           block == m.block
           after == IF tool = "balances" /\ block.era = "standard"
                    THEN ApplyBody(Counted, block.body) ELSE Counted
<1>1. /\ status = "syncing" /\ pipe # <<>> /\ m.type = "forward"
      /\ pipe' = Tail(pipe) /\ view' = Append(view, block)
      /\ IF Throws(block, after)
         THEN status' = "thrown" /\ UNCHANGED <<balances, trackedTxs, response, requests>>
         ELSE /\ balances' = after.bal /\ trackedTxs' = after.txs
              /\ response' = Record(m.height, Recorded(block, after))
              /\ IF m.height = LastHeight
                 THEN status' = "draining" /\ UNCHANGED requests
                 ELSE requests' = requests + 1 /\ UNCHANGED status
      /\ UNCHANGED <<chain, tool, rolledBack>>
    BY DEF RollForward, Counted, nodeVars, recordVars
<1>2. /\ view \in Seq(Block) /\ pipe \in Seq(Answer) /\ block \in Block /\ m.height = Len(view) + 1
    BY <1>1, FirstAnswer DEF Following
<1>3. block.era \in {"standard", "aurum", "boundary"}
    BY <1>2, GeneratorAssumption
<1>4. tool \in {"balances", "blocks"} /\ requests \in Nat /\ requests + Len(pipe) <= InFlight /\ InFlight \in Nat
    BY GeneratorAssumption DEF RecordInv, RecordsTyped
<1>5. after \in Tally /\ Counted \in Tally
    BY <1>2, AppliedBody
<1>6. Len(view) \in Nat /\ Len(view') = Len(view) + 1 /\ view'[Len(view) + 1] = block
      /\ SubSeq(view', 1, Len(view) + 1) = view'
      /\ \A h \in 0..Len(view) : SubSeq(view', 1, h) = SubSeq(view, 1, h)
    <2> HIDE DEF block
    <2>1. Len(view) \in Nat /\ Len(view') = Len(view) + 1 /\ view'[Len(view) + 1] = block /\ view' \in Seq(Block)
        BY <1>1, <1>2
    <2>2. SubSeq(view', 1, Len(view')) = view'
        BY <2>1
    <2>3. \A h \in 0..Len(view) : SubSeq(view', 1, h) = SubSeq(view, 1, h)
        BY <1>1, <1>2, PrefixOfAppended
    <2> QED BY <2>1, <2>2, <2>3
<1>7. tool = "balances" /\ ~ rolledBack /\ block.era = "standard" =>
          AddsUp(after, TxsOf(view')) /\ IsBalanceAt(view', after.bal) /\ ~ Thrown(after)
    BY BlockIsCounted
<1>8. Len(pipe') = Len(pipe) - 1 /\ Len(pipe) \in Nat
    BY <1>1, <1>2
<1> HIDE DEF m, block, after
<1>9. CASE Throws(block, after)
    <2>1. status' = "thrown" /\ UNCHANGED <<balances, trackedTxs, response, requests>>
        BY <1>1, <1>9
    <2>2. RecordsTyped'
        <3>1. requests' \in Nat /\ requests' + Len(pipe') <= InFlight
            BY <1>4, <1>8, <2>1
        <3> QED BY <1>1, <2>1, <3>1 DEF RecordInv, RecordsTyped
    <2>3. ThrowsAreExplained'
        <3>1. block.era = "standard" => rolledBack
            BY <1>3, <1>7, <1>9 DEF Throws
        <3>2. Last(view') = block
            BY <1>6 DEF Last
        <3> QED BY <1>1, <3>1, <3>2 DEF ThrowsAreExplained
    <2> QED BY <2>1, <2>2, <2>3
            DEF RecordInv, BalancesFollow, EveryHeightRecorded, CompletedAtLast, StartsEmpty
<1>10. CASE ~ Throws(block, after)
    <2> DEFINE entry == Recorded(block, after)
    <2>1. /\ balances' = after.bal /\ trackedTxs' = after.txs
          /\ response' = Record(m.height, entry)
          /\ \/ m.height = LastHeight /\ status' = "draining" /\ requests' = requests
             \/ status' = "syncing" /\ requests' = requests + 1
        BY <1>1, <1>10
    <2>2. /\ DOMAIN response' = DOMAIN response \cup (AtBlocks \cap {m.height})
          /\ m.height \in AtBlocks => response'[m.height] = entry
          /\ \A h \in DOMAIN response : h # m.height => response'[h] = response[h]
        <3> HIDE DEF entry
        <3>1. DOMAIN response' = DOMAIN response \cup (AtBlocks \cap {m.height})
            BY <2>1, EntryRecorded
        <3>2. m.height \in AtBlocks => response'[m.height] = entry
            BY <2>1, EntryRecorded
        <3>3. \A h \in DOMAIN response : h # m.height => response'[h] = response[h]
            BY <2>1, EntryKept
        <3> QED BY <3>1, <3>2, <3>3
    <2>3. tool = "balances" => block.era = "standard" /\ ~ Thrown(after)
        BY <1>3, <1>10 DEF Throws
    <2>4. balances' \in [Tracked -> Nat] /\ trackedTxs' \in Seq(Tx)
        <3>1. after.bal \in [Tracked -> Nat \cup {Negative}] /\ after.txs \in Seq(Tx)
            BY <1>5 DEF Tally
        <3>2. CASE tool = "balances"
            <4>1. \A a \in Tracked : after.bal[a] # Negative
                BY <2>3, <3>2 DEF Thrown
            <4> QED BY <2>1, <3>1, <4>1
        <3>3. CASE tool # "balances"
            <4>1. after = Counted
                BY <3>3 DEF after
            <4> QED BY <2>1, <4>1 DEF Counted, RecordInv, RecordsTyped
        <3> QED BY <3>2, <3>3
    <2>5. RecordsTyped'
        <3>1. requests' \in Nat /\ requests' + Len(pipe') <= InFlight
            BY <1>4, <1>8, <2>1
        <3>2. DOMAIN response' \subseteq AtBlocks
            BY <2>2 DEF RecordInv, RecordsTyped
        <3> QED BY <1>1, <2>1, <2>4, <3>1, <3>2 DEF RecordInv, RecordsTyped
    <2>6. BalancesFollow'
        <3>1. SUFFICES ASSUME tool = "balances", ~ rolledBack
                       PROVE  /\ AddsUp(Counted', TxsOf(view'))
                              /\ \A h \in DOMAIN response' :
                                     h <= Len(view') /\ IsBalanceAt(SubSeq(view', 1, h), response'[h])
            BY <1>1 DEF BalancesFollow, Prefix
        <3>2. AddsUp(after, TxsOf(view')) /\ IsBalanceAt(view', after.bal)
            BY <1>7, <2>3, <3>1
        <3>3. Counted' = after
            BY <1>5, <2>1 DEF Counted, Tally
        <3>4. ASSUME NEW h \in DOMAIN response'
              PROVE  h <= Len(view') /\ IsBalanceAt(SubSeq(view', 1, h), response'[h])
            <4>1. CASE h = m.height
                <5>1. response'[h] = after.bal
                    <6>1. h \in AtBlocks
                        BY <2>5 DEF RecordsTyped
                    <6> QED BY <2>2, <3>1, <4>1, <6>1 DEF Recorded
                <5>2. SubSeq(view', 1, h) = view' /\ h <= Len(view')
                    BY <1>2, <1>6, <4>1
                <5> QED BY <3>2, <5>1, <5>2
            <4>2. CASE h # m.height
                <5>1. h \in DOMAIN response /\ response'[h] = response[h]
                    BY <2>2, <4>2
                <5>2. h <= Len(view) /\ IsBalanceAt(SubSeq(view, 1, h), response[h])
                    BY <1>1, <3>1, <5>1 DEF RecordInv, BalancesFollow, Prefix
                <5>3. h \in Nat
                    <6>1. h \in AtBlocks
                        BY <5>1 DEF RecordInv, RecordsTyped
                    <6> QED BY <6>1, GeneratorAssumption
                <5>4. h \in 0..Len(view) /\ h <= Len(view')
                    BY <1>6, <5>2, <5>3
                <5> QED BY <1>6, <5>1, <5>2, <5>4
            <4> QED BY <4>1, <4>2
        <3> QED BY <3>2, <3>3, <3>4
    <2>7. EveryHeightRecorded'
        <3>1. SUFFICES ASSUME NEW h \in AtBlocks, h <= Len(view') PROVE h \in DOMAIN response'
            BY DEF EveryHeightRecorded
        <3>2. h \in Int /\ (h <= Len(view) \/ h = Len(view) + 1)
            <4>1. h \in Int
                BY GeneratorAssumption
            <4> QED BY <1>6, <3>1, <4>1
        <3> QED BY <1>1, <1>2, <2>2, <3>1, <3>2 DEF RecordInv, EveryHeightRecorded
    <2>8. CompletedAtLast' /\ StartsEmpty' /\ ThrowsAreExplained'
        <3>1. status' = "draining" => LastHeight = Len(view')
            BY <1>2, <1>6, <2>1
        <3>2. status' \in {"draining", "syncing"}
            BY <2>1
        <3>3. Len(view') <= Len(view')
            BY <1>6
        <3> QED BY <3>1, <3>2, <3>3 DEF CompletedAtLast, StartsEmpty, ThrowsAreExplained, LastHeight
    <2> QED BY <2>5, <2>6, <2>7, <2>8 DEF RecordInv
<1> QED BY <1>9, <1>10

\* The invariant of the balances and the records.
LEMMA RecordInvHolds == GeneratorSpec => [](GoldenInv /\ ViewsFollow /\ RecordInv)
<1>1. GeneratorInit => ViewsFollow /\ RecordInv
    BY NothingDescribed, NothingCounted
<1>2. GoldenInv /\ ViewsFollow /\ RecordInv /\ [GeneratorNext]_generatorVars => ViewsFollow' /\ RecordInv'
    <2>1. GoldenInv /\ ViewsFollow /\ [GeneratorNext]_generatorVars => ViewsFollow'
        BY ViewsFollowStep
    <2>2. GoldenInv /\ ViewsFollow /\ RecordInv /\ [GeneratorNext]_generatorVars => RecordInv'
        BY NodeKeepsRecords, ToolKeepsRecords, RollbackKeepsRecords, ForwardKeepsRecords
           DEF GeneratorNext, NodeStep, ToolStep
    <2> QED BY <2>1, <2>2
<1> QED BY <1>1, <1>2, GoldenInvHolds, PTL DEF GeneratorSpec

\* As long as no block was rolled back, the running balances and every snapshot
\* are what the outputs that the chain has made and not spent pay to the tracked
\* addresses (getOnChainAddressBalances.ts:102-120), for any chain that spends
\* only what it has made and any pipelining.
THEOREM SnapshotsAreBalances == GeneratorSpec => []SnapshotsAddUp
<1>1. GoldenInv /\ RecordInv => SnapshotsAddUp
    <2>1. SUFFICES ASSUME GoldenInv, RecordInv, tool = "balances", ~ rolledBack, status # "thrown"
                   PROVE  /\ IsBalanceAt(view, balances)
                          /\ \A h \in DOMAIN response : IsBalanceAt(Prefix(view, h), response[h])
        BY DEF SnapshotsAddUp
    <2>2. /\ AddsUp(Counted, TxsOf(view))
          /\ \A h \in DOMAIN response : h <= Len(view) /\ IsBalanceAt(Prefix(view, h), response[h])
        BY <2>1 DEF RecordInv, BalancesFollow
    <2>3. view \in Seq(Block)
        BY <2>1 DEF GoldenInv, GoldenTyped
    <2>4. IsBalanceAt(view, Counted.bal) /\ Counted.bal = balances
        BY <2>2, <2>3, BalancesOfChain DEF Counted
    <2> QED BY <2>2, <2>4
<1> QED BY <1>1, RecordInvHolds, PTL

\* The variables of the golden test generator keep their types; in particular
\* the requests and answers under way are at most those that are pipelined, and
\* no balance is negative.
THEOREM GeneratorIsTyped == GeneratorSpec => []GeneratorTypeOK
<1>1. GoldenInv /\ RecordInv => GeneratorTypeOK
    <2>1. SUFFICES ASSUME GoldenInv, RecordInv
                   PROVE  pointer \in 0..Len(chain) /\ \A i \in DOMAIN pipe : pipe[i].type \in {"forward", "backward"}
        BY DEF GeneratorTypeOK, RecordInv, RecordsTyped
    <2>2. pointer \in 0..Len(chain) /\ pipe \in Seq(Answer)
        BY <2>1 DEF GoldenInv, GoldenTyped
    <2>3. \A i \in DOMAIN pipe : pipe[i] \in Answer
        BY <2>2
    <2> QED BY <2>2, <2>3 DEF Answer
<1> QED BY <1>1, RecordInvHolds, PTL

\* A promise that resolves has an entry for every requested height, in spite of
\* rollbacks and of blocks that are dropped while the tool shuts down.
THEOREM EveryHeightIsAnswered == GeneratorSpec => []ResolvedIsComplete
<1>1. GoldenInv /\ RecordInv => ResolvedIsComplete
    <2>1. SUFFICES ASSUME GoldenInv, RecordInv, status \in {"draining", "resolved"}, NEW h \in AtBlocks
                   PROVE  h \in DOMAIN response
        BY DEF ResolvedIsComplete
    <2>2. LastHeight <= Len(view) /\ \A x \in AtBlocks : x <= Len(view) => x \in DOMAIN response
        BY <2>1 DEF RecordInv, CompletedAtLast, EveryHeightRecorded
    <2>3. MaxHeight \in Nat /\ AtBlocks \in SUBSET (0..MaxHeight) /\ AtBlocks # {} /\ h \in Nat
        BY GeneratorAssumption
    <2>4. LastHeight \in AtBlocks /\ h <= LastHeight
        BY <2>3, MaxIs DEF LastHeight
    <2>5. LastHeight \in Nat
        BY <2>3, <2>4
    <2>6. Len(view) \in Nat
        BY <2>1 DEF GoldenInv, GoldenTyped
    <2> QED BY <2>2, <2>3, <2>4, <2>5, <2>6
<1> QED BY <1>1, RecordInvHolds, PTL

\* The check of applyValue against a negative balance never fires before a
\* rollback: what throws then is the start or a block of an unsupported era.
THEOREM BalancesNeverGoNegative == GeneratorSpec => []ThrowsAreExplained
BY RecordInvHolds, PTL DEF RecordInv

-----------------------------------------------------------------------------
(* PrototypeWallet: the chain and the addresses it has reached *)

Pointer == [id : Nat, index : Nat]
AccountAddress == [type : {"external", "internal"}, index : Nat]
Transfer == [inputs : SUBSET Pointer, outputs : Seq(AccountAddress)]

\* One of the first n transactions pays to the address.
Reached(txs, n, type, i) ==
    \E k \in 1..n : \E j \in DOMAIN txs[k].outputs : txs[k].outputs[j] = [type |-> type, index |-> i]

\* SetToSeq lists exactly the members of a finite set.
LEMMA SequenceOfASet ==
    ASSUME NEW S, IsFiniteSet(S)
    PROVE  LET s == SetToSeq(S)
           IN /\ s \in Seq(S)
              /\ \A j \in DOMAIN s : s[j] \in S
              /\ \A x \in S : \E j \in DOMAIN s : s[j] = x
<1> DEFINE n == Cardinality(S)
           I == 1..n
<1>1. n \in Nat /\ IsFiniteSet(I) /\ Cardinality(I) = n
    <2>1. n \in Nat
        BY FS_CardinalityType
    <2>2. PICK m \in Nat : m = n
        BY <2>1
    <2>3. IsFiniteSet(1..m) /\ Cardinality(1..m) = m
        BY FS_Interval
    <2> QED BY <2>2, <2>3
<1>2. ExistsBijection(I, S)
    <2>1. PICK J : J = I
        OBVIOUS
    <2>2. IsFiniteSet(J) /\ Cardinality(J) = Cardinality(S)
        BY <1>1, <2>1
    <2>3. ExistsBijection(J, S)
        BY <2>2, FS_SameCardinalityBij
    <2> QED BY <2>1, <2>3
<1>3. \E f \in [I -> S] : \A a, b \in DOMAIN f : f[a] = f[b] => a = b
    BY <1>2 DEF ExistsBijection, Bijection, Injection, IsInjective
<1> DEFINE s == SetToSeq(S)
<1>4. s = CHOOSE f \in [I -> S] : \A a, b \in DOMAIN f : f[a] = f[b] => a = b
    BY DEF SetToSeq, IsInjective
<1>5. s \in [I -> S] /\ \A a, b \in DOMAIN s : s[a] = s[b] => a = b
    <2> HIDE DEF s, I
    <2> QED BY <1>3, <1>4
<1> HIDE DEF s
<1>6. s \in Injection(I, S)
    BY <1>5 DEF Injection, IsInjective
<1>7. s \in Surjection(I, S)
    <2>1. PICK J : J = I
        OBVIOUS
    <2>2. s \in Injection(J, S) /\ Cardinality(J) = Cardinality(S)
        BY <1>1, <1>6, <2>1
    <2>3. s \in Surjection(J, S)
        BY <2>2, FS_Injection
    <2> QED BY <2>1, <2>3
<1>8. s \in Seq(S)
    BY <1>1, <1>5
<1> QED BY <1>5, <1>7, <1>8 DEF Surjection, s

\* An output is made by an index of some transaction.
LEMMA MadeOutputs ==
    ASSUME NEW n
    PROVE  \A p : p \in Made(n)
                    <=> \E k \in 1..n : \E j \in DOMAIN ledger[k].outputs : p = [id |-> k, index |-> j]
BY DEF Made

\* An index is used when some transaction pays to it.
LEMMA UsedMeansReached ==
    ASSUME ledger \in Seq(Transfer), NEW n \in 0..Len(ledger), NEW type
    PROVE  /\ UsedIndices(n, type) \subseteq Nat
           /\ \A i : i \in UsedIndices(n, type) <=> Reached(ledger, n, type, i)
<1>1. \A k \in 1..n : /\ k \in 1..Len(ledger) /\ ledger[k].outputs \in Seq(AccountAddress)
    <2>1. \A k \in 1..n : k \in 1..Len(ledger)
        <3>1. Len(ledger) \in Nat
            OBVIOUS
        <3> QED BY <3>1
    <2>2. \A k \in 1..Len(ledger) : ledger[k] \in Transfer
        OBVIOUS
    <2>3. \A tx \in Transfer : tx.outputs \in Seq(AccountAddress)
        BY DEF Transfer
    <2> QED BY <2>1, <2>2, <2>3
<1>2. \A k \in 1..n : \A j \in DOMAIN ledger[k].outputs : ledger[k].outputs[j] \in AccountAddress
    BY <1>1
<1>3. \A k, j : AddressOf([id |-> k, index |-> j]) = ledger[k].outputs[j]
    BY DEF AddressOf
<1>4. ASSUME NEW i \in UsedIndices(n, type)
      PROVE  i \in Nat /\ Reached(ledger, n, type, i)
    <2>1. PICK p \in Made(n) :
              AddressOf(p).type = type /\ AddressOf(p).index = i
        BY <1>4 DEF UsedIndices
    <2>2. PICK k \in 1..n : \E j \in DOMAIN ledger[k].outputs : p = [id |-> k, index |-> j]
        BY MadeOutputs
    <2>3. PICK j \in DOMAIN ledger[k].outputs : p = [id |-> k, index |-> j]
        BY <2>2
    <2>4. ledger[k].outputs[j] \in AccountAddress /\ AddressOf(p) = ledger[k].outputs[j]
        BY <1>2, <1>3, <2>3
    <2>5. ledger[k].outputs[j] = [type |-> type, index |-> i] /\ i \in Nat
        BY <2>1, <2>4 DEF AccountAddress
    <2> QED BY <2>5 DEF Reached
<1>5. ASSUME NEW i, Reached(ledger, n, type, i)
      PROVE  i \in UsedIndices(n, type)
    <2>1. PICK k \in 1..n : \E j \in DOMAIN ledger[k].outputs :
                                 ledger[k].outputs[j] = [type |-> type, index |-> i]
        BY <1>5 DEF Reached
    <2>2. PICK j \in DOMAIN ledger[k].outputs : ledger[k].outputs[j] = [type |-> type, index |-> i]
        BY <2>1
    <2>3. [id |-> k, index |-> j] \in Made(n)
        BY MadeOutputs
    <2>4. LET a == AddressOf([id |-> k, index |-> j]) IN a.type = type /\ a.index = i
        BY <1>3, <2>2
    <2> QED BY <2>3, <2>4 DEF UsedIndices
<1> QED BY <1>4, <1>5

\* The chain only grows, and what it reached stays reached.
LEMMA ReachedByMore ==
    ASSUME NEW txs \in Seq(Transfer), NEW tx \in Transfer
    PROVE  LET more == Append(txs, tx)
           IN /\ more \in Seq(Transfer) /\ Len(more) = Len(txs) + 1
              /\ \A n \in 0..Len(txs) : \A type, i :
                    Reached(more, n, type, i) <=> Reached(txs, n, type, i)
              /\ \A type, i : Reached(more, Len(more), type, i)
                    <=> Reached(txs, Len(txs), type, i)
                        \/ \E j \in DOMAIN tx.outputs : tx.outputs[j] = [type |-> type, index |-> i]
<1> DEFINE more == Append(txs, tx)
           l == Len(txs)
<1>1. /\ more \in Seq(Transfer) /\ l \in Nat /\ Len(more) = l + 1 /\ more[l + 1] = tx
      /\ \A k \in 1..l : more[k] = txs[k]
    OBVIOUS
<1> HIDE DEF more, l
<1>2. ASSUME NEW n \in 0..l, NEW type, NEW i
      PROVE  Reached(more, n, type, i) <=> Reached(txs, n, type, i)
    <2>1. \A k \in 1..n : k \in 1..l
        BY <1>1
    <2> QED BY <1>1, <2>1 DEF Reached
<1>3. ASSUME NEW type, NEW i
      PROVE  Reached(more, l + 1, type, i)
                <=> Reached(txs, l, type, i)
                    \/ \E j \in DOMAIN tx.outputs : tx.outputs[j] = [type |-> type, index |-> i]
    <2>1. \A k : k \in 1..(l + 1) <=> k \in 1..l \/ k = l + 1
        BY <1>1
    <2> QED BY <1>1, <2>1 DEF Reached
<1> QED BY <1>1, <1>2, <1>3 DEF more, l

\* The indices of a type that the first n transactions reached.
Used(txs, n, type) == {i \in Nat : Reached(txs, n, type, i)}

\* Used indices, as a function of the chain.
LEMMA UsedAre ==
    ASSUME ledger \in Seq(Transfer), NEW n \in 0..Len(ledger), NEW type
    PROVE  UsedIndices(n, type) = Used(ledger, n, type)
BY UsedMeansReached DEF Used

PaysTo(txs, p) == txs[p.id].outputs[p.index]
MadeBy(txs, n) == UNION {{[id |-> k, index |-> j] : j \in DOMAIN txs[k].outputs} : k \in 1..n}
UnspentBy(txs, n) == MadeBy(txs, n) \ (UNION {txs[k].inputs : k \in 1..n})

\* The chain's operators, as functions of the chain.
LEMMA LedgerTerms ==
    ASSUME NEW n, NEW p
    PROVE  /\ Made(n) = MadeBy(ledger, n) /\ Unspent(n) = UnspentBy(ledger, n)
           /\ AddressOf(p) = PaysTo(ledger, p)
BY DEF Made, Unspent, AddressOf, MadeBy, UnspentBy, PaysTo

\* An output that is made has a transaction, an index and an address.
LEMMA MadeByIs ==
    ASSUME NEW txs \in Seq(Transfer), NEW n \in 0..Len(txs), NEW p \in MadeBy(txs, n)
    PROVE  /\ p \in Pointer /\ p.id \in 1..n /\ p.index \in DOMAIN txs[p.id].outputs
           /\ PaysTo(txs, p) \in AccountAddress
           /\ Reached(txs, p.id, PaysTo(txs, p).type, PaysTo(txs, p).index)
<1>1. PICK k \in 1..n : \E j \in DOMAIN txs[k].outputs : p = [id |-> k, index |-> j]
    BY DEF MadeBy
<1>2. PICK j \in DOMAIN txs[k].outputs : p = [id |-> k, index |-> j]
    BY <1>1
<1>3. k \in 1..Len(txs)
    <2>1. Len(txs) \in Nat
        OBVIOUS
    <2> QED BY <2>1
<1>4. txs[k] \in Transfer
    BY <1>3
<1>5. txs[k].outputs \in Seq(AccountAddress)
    BY <1>4 DEF Transfer
<1>6. p \in Pointer /\ txs[k].outputs[j] \in AccountAddress
    BY <1>2, <1>5 DEF Pointer
<1>7. p.id = k /\ p.index = j /\ PaysTo(txs, p) = txs[k].outputs[j] /\ k \in 1..k
    BY <1>2 DEF PaysTo
<1>8. PaysTo(txs, p) = [type |-> PaysTo(txs, p).type, index |-> PaysTo(txs, p).index]
    BY <1>6, <1>7 DEF AccountAddress
<1>9. Reached(txs, k, PaysTo(txs, p).type, PaysTo(txs, p).index)
    BY <1>2, <1>7, <1>8 DEF Reached
<1> QED BY <1>2, <1>6, <1>7, <1>9

\* What is reached stays reached.
LEMMA ReachedLater ==
    ASSUME NEW txs, NEW n \in Nat, NEW m \in Nat, n <= m, NEW type, NEW i, Reached(txs, n, type, i)
    PROVE  Reached(txs, m, type, i)
<1>1. \A k \in 1..n : k \in 1..m
    OBVIOUS
<1> QED BY <1>1 DEF Reached

\* A transaction that is added changes nothing of the past.
LEMMA UnspentByMore ==
    ASSUME NEW txs \in Seq(Transfer), NEW tx \in Transfer, NEW n \in 0..Len(txs)
    PROVE  LET more == Append(txs, tx)
           IN /\ MadeBy(more, n) = MadeBy(txs, n) /\ UnspentBy(more, n) = UnspentBy(txs, n)
              /\ \A p \in MadeBy(txs, n) : p \in MadeBy(more, n + 1) /\ PaysTo(more, p) = PaysTo(txs, p)
<1> DEFINE more == Append(txs, tx)
<1>1. \A k \in 1..n : more[k] = txs[k]
    <2>1. \A k \in 1..Len(txs) : more[k] = txs[k]
        OBVIOUS
    <2>2. Len(txs) \in Nat
        OBVIOUS
    <2> HIDE DEF more
    <2> QED BY <2>1, <2>2
<1> HIDE DEF more
<1>2. MadeBy(more, n) = MadeBy(txs, n)
    BY <1>1 DEF MadeBy
<1>3. UnspentBy(more, n) = UnspentBy(txs, n)
    BY <1>1, <1>2 DEF UnspentBy
<1>4. ASSUME NEW p \in MadeBy(txs, n)
      PROVE  p \in MadeBy(more, n + 1) /\ PaysTo(more, p) = PaysTo(txs, p)
    <2>1. p.id \in 1..n
        BY MadeByIs
    <2>2. PaysTo(more, p) = PaysTo(txs, p)
        BY <1>1, <2>1 DEF PaysTo
    <2>3. \A k \in 1..n : k \in 1..(n + 1)
        OBVIOUS
    <2> QED BY <1>2, <2>2, <2>3 DEF MadeBy
<1> QED BY <1>2, <1>3, <1>4 DEF more

\* An output that is spent was made.
SpentAreMade(txs) == \A k \in 1..Len(txs) : txs[k].inputs \subseteq MadeBy(txs, Len(txs))

\* A payment skips at most Spread addresses, so every transaction moves the
\* addresses in use by at most one more than that.
Types == {"external", "internal"}

LedgerInv ==
    /\ ledger \in Seq(Transfer)
    /\ SpentAreMade(ledger)
    /\ \A type \in Types : \A i \in Nat :
          Reached(ledger, Len(ledger), type, i) => i < Len(ledger) * (Spread + 1)

\* The next index is within the bound of the addresses in use.
LEMMA NextIndexIs ==
    ASSUME LedgerInv, NEW type \in Types
    PROVE  NextIndex(type) \in Nat /\ NextIndex(type) <= Len(ledger) * (Spread + 1)
<1>1. ledger \in Seq(Transfer) /\ Len(ledger) \in Nat /\ Spread \in Nat
    BY PrototypeAssumption DEF LedgerInv
<1>2. PICK n \in Nat : n = Len(ledger) * (Spread + 1)
    <2>1. \A a, b \in Nat : a * b \in Nat
        OBVIOUS
    <2> QED BY <1>1, <2>1
<1> DEFINE used == UsedIndices(Len(ledger), type)
<1>3. \A i \in used : i \in Nat /\ i < n
    <2>1. Len(ledger) \in 0..Len(ledger)
        BY <1>1
    <2>2. \A i \in used : i \in Nat /\ Reached(ledger, Len(ledger), type, i)
        BY <1>1, <2>1, UsedMeansReached
    <2> QED BY <1>2, <2>2 DEF LedgerInv
<1>4. PICK next : next = NextIndex(type)
    OBVIOUS
<1>5. next = IF used = {} THEN 0 ELSE Max(used) + 1
    BY <1>4 DEF NextIndex
<1> HIDE DEF used
<1>6. CASE used = {}
    BY <1>2, <1>4, <1>5, <1>6
<1>7. CASE used # {}
    <2>1. used \in SUBSET (0..n)
        BY <1>3
    <2>2. Max(used) \in used
        BY <1>7, <2>1, MaxIs
    <2>3. Max(used) \in Nat /\ Max(used) < n
        BY <1>3, <2>2
    <2> QED BY <1>2, <1>4, <1>5, <1>7, <2>3
<1> QED BY <1>6, <1>7

\* A payment goes at most Spread addresses past the last used one.
LEMMA PayableAddresses ==
    ASSUME LedgerInv
    PROVE  /\ IsFiniteSet(Payable) /\ Payable \subseteq AccountAddress
           /\ \A a \in Payable : a.index <= Len(ledger) * (Spread + 1) + Spread
<1> DEFINE last(type) == NextIndex(type) + Spread
           P(type) == [type : {type}, index : 0..last(type)]
<1>1. \A type \in Types : last(type) \in Nat
    BY NextIndexIs, PrototypeAssumption
<1>2. Payable = P("external") \cup P("internal")
    BY DEF Payable, AddressType
<1>3. ASSUME NEW type \in Types
      PROVE  /\ IsFiniteSet(P(type)) /\ P(type) \subseteq AccountAddress
             /\ \A a \in P(type) : a.type = type /\ a.index <= last(type)
    <2>1. PICK m \in Nat : m = last(type)
        BY <1>1
    <2> DEFINE I == 0..m
               f == [i \in I |-> [type |-> type, index |-> i]]
    <2>2. P(type) = {[type |-> type, index |-> i] : i \in I}
        <3>1. P(type) = [type : {type}, index : I]
            BY <2>1
        <3> HIDE DEF I
        <3>2. \A a \in [type : {type}, index : I] : a.index \in I /\ a = [type |-> type, index |-> a.index]
            OBVIOUS
        <3>3. \A i \in I : [type |-> type, index |-> i] \in [type : {type}, index : I]
            OBVIOUS
        <3>4. [type : {type}, index : I] = {[type |-> type, index |-> i] : i \in I}
            BY <3>2, <3>3
        <3> QED BY <3>1, <3>4
    <2>3. f \in Surjection(I, P(type))
        <3>1. f \in [I -> P(type)]
            BY <2>2
        <3>2. \A a \in P(type) : \E i \in I : f[i] = a
            BY <2>2
        <3> QED BY <3>1, <3>2 DEF Surjection
    <2>4. IsFiniteSet(I)
        BY FS_Interval
    <2>5. PICK Q : Q = P(type)
        OBVIOUS
    <2>6. IsFiniteSet(Q)
        <3> HIDE DEF f, I
        <3>1. f \in Surjection(I, Q)
            BY <2>3, <2>5
        <3> QED BY <2>4, <3>1, FS_Surjection
    <2>7. P(type) \subseteq AccountAddress /\ \A a \in P(type) : a.type = type /\ a.index <= last(type)
        BY <2>1, <2>2 DEF AccountAddress, Types
    <2> QED BY <2>5, <2>6, <2>7
<1>4. PICK E, I : E = P("external") /\ I = P("internal")
    OBVIOUS
<1>5. IsFiniteSet(E) /\ IsFiniteSet(I)
    BY <1>3, <1>4 DEF Types
<1>6. IsFiniteSet(E \cup I)
    BY <1>5, FS_Union
<1>7. ASSUME NEW a \in Payable
      PROVE  a \in AccountAddress /\ a.index <= Len(ledger) * (Spread + 1) + Spread
    <2>1. a \in P("external") \/ a \in P("internal")
        BY <1>2
    <2>2. PICK type \in Types : a \in P(type)
        BY <2>1 DEF Types
    <2>3. a \in AccountAddress /\ a.index <= NextIndex(type) + Spread
        <3> HIDE DEF P
        <3> QED BY <1>3, <2>2
    <2>4. PICK n \in Nat, next \in Nat :
              n = Len(ledger) * (Spread + 1) /\ next = NextIndex(type) /\ next <= n
        <3>1. \A x, y \in Nat : x * y \in Nat
            OBVIOUS
        <3>2. Len(ledger) \in Nat /\ Spread \in Nat
            BY PrototypeAssumption DEF LedgerInv
        <3> QED BY <3>1, <3>2, NextIndexIs
    <2>5. a.index \in Nat /\ Spread \in Nat
        BY <2>3, PrototypeAssumption DEF AccountAddress
    <2>6. a.index <= n + Spread
        BY <2>3, <2>4, <2>5
    <2> QED BY <2>3, <2>4, <2>6
<1> QED BY <1>2, <1>4, <1>6, <1>7

\* A transaction that pays to a set of addresses reaches these.
LEMMA PaidAreReached ==
    ASSUME LedgerInv, NEW paid \in SUBSET AccountAddress, IsFiniteSet(paid),
           NEW tx \in Transfer, tx.outputs = SetToSeq(paid), NEW type \in Types
    PROVE  LET more == Append(ledger, tx)
           IN \A i \in Nat : Reached(more, Len(more), type, i)
                 <=> Reached(ledger, Len(ledger), type, i) \/ [type |-> type, index |-> i] \in paid
<1> DEFINE more == Append(ledger, tx)
<1>1. \A i : (\E j \in DOMAIN tx.outputs : tx.outputs[j] = [type |-> type, index |-> i])
               <=> [type |-> type, index |-> i] \in paid
    BY SequenceOfASet
<1>2. ledger \in Seq(Transfer)
    BY DEF LedgerInv
<1>3. \A i : Reached(more, Len(more), type, i)
               <=> Reached(ledger, Len(ledger), type, i)
                   \/ \E j \in DOMAIN tx.outputs : tx.outputs[j] = [type |-> type, index |-> i]
    BY <1>2, ReachedByMore
<1> HIDE DEF more
<1> QED BY <1>1, <1>3 DEF more

\* The chain keeps its invariant when a transaction is added.
LEMMA LedgerGrows ==
    ASSUME LedgerInv, AddTransaction
    PROVE  LedgerInv' /\ \E tx \in Transfer : ledger' = Append(ledger, tx)
<1> DEFINE l == Len(ledger)
<1>1. ledger \in Seq(Transfer) /\ l \in Nat /\ Spread \in Nat
    BY PrototypeAssumption DEF LedgerInv
<1>2. PICK spent \in {{}} \cup {{p} : p \in Unspent(l)}, paid \in SUBSET Payable :
          ledger' = Append(ledger, [inputs |-> spent, outputs |-> SetToSeq(paid)])
    BY DEF AddTransaction
<1>3. /\ paid \in SUBSET AccountAddress /\ IsFiniteSet(paid)
      /\ \A a \in paid : a.index <= l * (Spread + 1) + Spread
    <2>1. IsFiniteSet(Payable) /\ Payable \subseteq AccountAddress
          /\ \A a \in Payable : a.index <= l * (Spread + 1) + Spread
        BY PayableAddresses
    <2>2. IsFiniteSet(paid)
        BY <2>1, FS_Subset
    <2> QED BY <1>2, <2>1, <2>2
<1> DEFINE tx == [inputs |-> spent, outputs |-> SetToSeq(paid)]
<1>4. tx \in Transfer
    <2>1. Made(l) \subseteq Pointer
        <3>1. SUFFICES ASSUME NEW p \in Made(l) PROVE p \in Pointer
            OBVIOUS
        <3>2. PICK k \in 1..l : \E j \in DOMAIN ledger[k].outputs : p = [id |-> k, index |-> j]
            BY MadeOutputs
        <3>3. PICK j \in DOMAIN ledger[k].outputs : p = [id |-> k, index |-> j]
            BY <3>2
        <3>4. ledger[k] \in Transfer
            BY <1>1
        <3>5. ledger[k].outputs \in Seq(AccountAddress)
            BY <3>4 DEF Transfer
        <3> QED BY <3>3, <3>5 DEF Pointer
    <2>2. spent \in SUBSET Pointer
        BY <2>1 DEF Unspent
    <2>3. SetToSeq(paid) \in Seq(AccountAddress)
        <3>1. PICK s : s = SetToSeq(paid)
            OBVIOUS
        <3>2. s \in Seq(paid)
            BY <1>3, <3>1, SequenceOfASet
        <3>3. s \in Seq(AccountAddress)
            BY <1>3, <3>2
        <3> QED BY <3>1, <3>3
    <2> QED BY <2>2, <2>3 DEF Transfer
<1>5. ledger' = Append(ledger, tx) /\ tx.outputs = SetToSeq(paid)
    BY <1>2
<1> HIDE DEF tx
<1>6. ledger' \in Seq(Transfer) /\ Len(ledger') = l + 1
    BY <1>1, <1>4, <1>5
<1>7. ASSUME NEW type \in Types, NEW i \in Nat
      PROVE  Reached(ledger', l + 1, type, i)
                <=> Reached(ledger, l, type, i) \/ [type |-> type, index |-> i] \in paid
    <2> DEFINE more == Append(ledger, tx)
    <2>1. more = ledger' /\ Len(more) = l + 1
        BY <1>5, <1>6
    <2>2. \A k \in Nat : Reached(more, Len(more), type, k)
                           <=> Reached(ledger, l, type, k) \/ [type |-> type, index |-> k] \in paid
        BY <1>3, <1>4, <1>5, PaidAreReached
    <2> HIDE DEF more, l
    <2> QED BY <2>1, <2>2
<1>8. ASSUME NEW type \in Types, NEW i \in Nat, Reached(ledger', l + 1, type, i)
      PROVE  i < (l + 1) * (Spread + 1)
    <2>1. PICK n \in Nat : n = l * (Spread + 1) /\ (l + 1) * (Spread + 1) = n + Spread + 1
        <3>1. \A a, b \in Nat : a * b \in Nat /\ (a + 1) * b = a * b + b
            OBVIOUS
        <3> QED BY <1>1, <3>1
    <2>2. CASE Reached(ledger, l, type, i)
        <3>1. i < n
            BY <2>1, <2>2 DEF LedgerInv
        <3> QED BY <1>1, <2>1, <3>1
    <2>3. CASE [type |-> type, index |-> i] \in paid
        <3>1. i <= n + Spread
            BY <1>3, <2>1, <2>3
        <3> QED BY <1>1, <2>1, <3>1
    <2> QED BY <1>7, <1>8, <2>2, <2>3
<1>9. SpentAreMade(ledger')
    <2>1. /\ ledger'[l + 1] = tx /\ \A k \in 1..l : ledger'[k] = ledger[k]
        BY <1>1, <1>4, <1>5
    <2>2. \A p \in MadeBy(ledger, l) : p \in MadeBy(ledger', l + 1)
        <3>1. l \in 0..l
            BY <1>1
        <3> QED BY <1>1, <1>4, <1>5, <3>1, UnspentByMore
    <2>3. tx.inputs \subseteq MadeBy(ledger, l)
        <3>1. spent \subseteq MadeBy(ledger, l)
            BY LedgerTerms DEF UnspentBy
        <3> QED BY <3>1 DEF tx
    <2>4. \A k \in 1..(l + 1) : k \in 1..l \/ k = l + 1
        BY <1>1
    <2>5. ASSUME NEW k \in 1..(l + 1) PROVE ledger'[k].inputs \subseteq MadeBy(ledger', l + 1)
        BY <2>1, <2>2, <2>3, <2>4 DEF LedgerInv, SpentAreMade
    <2> HIDE DEF l
    <2> QED BY <1>6, <2>5 DEF SpentAreMade
<1>10. LedgerInv'
    <2> HIDE DEF l
    <2> QED BY <1>6, <1>8, <1>9 DEF LedgerInv
<1> QED BY <1>4, <1>5, <1>10

-----------------------------------------------------------------------------
(* PrototypeWallet: the scan *)

\* The addresses of a batch that got an output are those the chain has reached,
\* and a batch without a transaction has none.
LEMMA BatchIs ==
    ASSUME LedgerInv, NEW type \in Types, NEW lower \in Nat, NEW upper \in Nat
    PROVE  LET batch == Within(type, lower, upper)
               used == {a.index : a \in WithOutputs(batch)}
           IN /\ \A i : i \in used <=> i \in lower..upper /\ Reached(ledger, Len(ledger), type, i)
              /\ TransactionsOf(batch) = {} => used = {}
              /\ WithOutputs(batch) = {} <=> used = {}
<1> DEFINE batch == Within(type, lower, upper)
           used == {a.index : a \in WithOutputs(batch)}
           l == Len(ledger)
<1>1. \A a \in batch : a = [type |-> type, index |-> a.index] /\ a.index \in lower..upper
    BY DEF Within
<1>2. \A i \in lower..upper : [type |-> type, index |-> i] \in batch
    BY DEF Within
<1>3. DOMAIN ledger = 1..l
    BY DEF LedgerInv
<1> HIDE DEF batch
<1>4. ASSUME NEW a \in batch
      PROVE  a \in WithOutputs(batch) <=> Reached(ledger, l, type, a.index)
    <2>1. ASSUME a \in WithOutputs(batch) PROVE Reached(ledger, l, type, a.index)
        <3>1. PICK n \in TransactionsOf(batch) :
                  \E i \in DOMAIN ledger[n].outputs : ledger[n].outputs[i] = a
            BY <2>1 DEF WithOutputs
        <3>2. n \in 1..l
            BY <1>3 DEF TransactionsOf
        <3> QED BY <1>1, <3>1, <3>2 DEF Reached
    <2>2. ASSUME Reached(ledger, l, type, a.index) PROVE a \in WithOutputs(batch)
        <3>1. PICK n \in 1..l : \E j \in DOMAIN ledger[n].outputs : ledger[n].outputs[j] = a
            BY <1>1, <2>2 DEF Reached
        <3>2. n \in TransactionsOf(batch)
            BY <1>3, <3>1 DEF TransactionsOf
        <3> QED BY <3>1, <3>2 DEF WithOutputs
    <2> QED BY <2>1, <2>2
<1>5. \A i : i \in used <=> i \in lower..upper /\ Reached(ledger, l, type, i)
    <2>1. ASSUME NEW i \in used PROVE i \in lower..upper /\ Reached(ledger, l, type, i)
        <3>1. PICK a \in WithOutputs(batch) : a.index = i
            OBVIOUS
        <3>2. a \in batch
            BY DEF WithOutputs
        <3> QED BY <1>1, <1>4, <3>1, <3>2
    <2>2. ASSUME NEW i \in lower..upper, Reached(ledger, l, type, i) PROVE i \in used
        <3>1. [type |-> type, index |-> i] \in WithOutputs(batch)
            BY <1>2, <1>4, <2>2
        <3>2. [type |-> type, index |-> i].index = i
            OBVIOUS
        <3> QED BY <3>1, <3>2
    <2> HIDE DEF used
    <2> QED BY <2>1, <2>2
<1>6. TransactionsOf(batch) = {} => used = {}
    BY DEF WithOutputs
<1>7. WithOutputs(batch) = {} <=> used = {}
    OBVIOUS
<1> QED BY <1>5, <1>6, <1>7 DEF batch

\* A batch of addresses that a transaction concerns has one that got an output.
LEMMA BatchHasOutput ==
    ASSUME LedgerInv, NEW type \in Types, NEW lower \in Nat
    PROVE  ScanBatch(type, lower).found # "none"
<1> DEFINE upper == lower + ScanGap - 1
           batch == Within(type, lower, upper)
           out == WithOutputs(batch)
           used == {a.index : a \in out}
           l == Len(ledger)
<1>1. upper \in Nat /\ ledger \in Seq(Transfer) /\ l \in Nat /\ l \in 0..l
    BY PrototypeAssumption DEF LedgerInv
<1>2. \A i : i \in used <=> i \in lower..upper /\ Reached(ledger, l, type, i)
    BY <1>1, BatchIs
<1>3. \A a \in batch : a = [type |-> type, index |-> a.index] /\ a.type = type /\ a.index \in lower..upper
    BY DEF Within
<1> HIDE DEF upper, batch, out
<1>4. ASSUME NEW n \in TransactionsOf(batch) PROVE out # {}
    <2>1. n \in 1..l
        BY <1>1 DEF TransactionsOf
    <2>2. CASE \E i \in DOMAIN ledger[n].outputs : ledger[n].outputs[i] \in batch
        BY <1>4, <2>2 DEF WithOutputs, out
    <2>3. CASE \E p \in ledger[n].inputs : AddressOf(p) \in batch
        <3>1. PICK p \in ledger[n].inputs : PaysTo(ledger, p) \in batch
            BY <2>3, LedgerTerms
        <3>2. p \in MadeBy(ledger, l)
            BY <2>1 DEF LedgerInv, SpentAreMade
        <3>3. /\ p.id \in 1..l
              /\ Reached(ledger, p.id, PaysTo(ledger, p).type, PaysTo(ledger, p).index)
            BY <1>1, <3>2, MadeByIs
        <3>4. PICK a : a = PaysTo(ledger, p)
            OBVIOUS
        <3>5. a \in batch /\ a.type = type /\ a.index \in lower..upper
            BY <1>3, <3>1, <3>4
        <3>6. p.id \in Nat /\ p.id <= l /\ Reached(ledger, p.id, type, a.index)
            BY <1>1, <3>3, <3>4, <3>5
        <3>7. Reached(ledger, l, type, a.index)
            BY <1>1, <3>6, ReachedLater
        <3>8. a.index \in used
            BY <1>2, <3>5, <3>7
        <3> QED BY <3>8
    <2> QED BY <1>4, <2>2, <2>3 DEF TransactionsOf
<1>5. TransactionsOf(batch) = {} \/ out # {}
    BY <1>4
<1>6. TransactionsOf(batch) = {} => out = {}
    BY DEF out, WithOutputs
<1>7. ScanBatch(type, lower)
        = CASE TransactionsOf(batch) = {} -> [found |-> "address", index |-> lower]
            [] TransactionsOf(batch) # {} /\ out = {} -> [found |-> "none", index |-> 0]
            [] out # {} /\ LastUsed(out) = upper -> [found |-> "consumed", index |-> lower + ScanGap]
            [] OTHER -> [found |-> "address", index |-> LastUsed(out) + 1]
    BY DEF ScanBatch, batch, out, upper
<1>8. CASE TransactionsOf(batch) = {}
    <2>1. ScanBatch(type, lower) = [found |-> "address", index |-> lower]
        BY <1>6, <1>7, <1>8
    <2> QED BY <2>1
<1>9. CASE TransactionsOf(batch) # {} /\ LastUsed(out) = upper
    <2>1. ScanBatch(type, lower) = [found |-> "consumed", index |-> lower + ScanGap]
        BY <1>5, <1>7, <1>9
    <2> QED BY <2>1
<1>10. CASE TransactionsOf(batch) # {} /\ LastUsed(out) # upper
    <2>1. ScanBatch(type, lower) = [found |-> "address", index |-> LastUsed(out) + 1]
        BY <1>5, <1>7, <1>10
    <2> QED BY <2>1
<1> QED BY <1>8, <1>9, <1>10

\* A scan ends at an address the chain has not reached, and goes on, or ends,
\* behind one it has.
LEMMA ScanFinds ==
    ASSUME LedgerInv, NEW type \in Types, NEW lower \in Nat
    PROVE  LET scan == ScanBatch(type, lower)
           IN /\ scan.index \in Nat /\ scan.found \in {"address", "none", "consumed"}
              /\ scan.found = "consumed" \/ (scan.found = "address" /\ scan.index # lower)
                    => scan.index > 0 /\ Reached(ledger, Len(ledger), type, scan.index - 1)
              /\ scan.found = "address" => ~ Reached(ledger, Len(ledger), type, scan.index)
<1> DEFINE upper == lower + ScanGap - 1
           batch == Within(type, lower, upper)
           out == WithOutputs(batch)
           used == {a.index : a \in out}
           l == Len(ledger)
           scan == ScanBatch(type, lower)
           last == Max(used)
<1>1. upper \in Nat /\ lower <= upper /\ lower + ScanGap = upper + 1
    BY PrototypeAssumption
<1>2. /\ \A i : i \in used <=> i \in lower..upper /\ Reached(ledger, l, type, i)
      /\ TransactionsOf(batch) = {} => used = {}
      /\ out = {} <=> used = {}
    BY <1>1, BatchIs
<1>3. scan = CASE TransactionsOf(batch) = {} -> [found |-> "address", index |-> lower]
               [] TransactionsOf(batch) # {} /\ out = {} -> [found |-> "none", index |-> 0]
               [] out # {} /\ last = upper -> [found |-> "consumed", index |-> lower + ScanGap]
               [] OTHER -> [found |-> "address", index |-> last + 1]
    <2>1. PICK U : U = used
        OBVIOUS
    <2>2. LastUsed(out) = last
        BY <2>1 DEF LastUsed
    <2> HIDE DEF used, last
    <2> QED BY <2>2 DEF ScanBatch
<1>4. ASSUME used # {}
      PROVE  last \in used /\ last \in lower..upper /\ Reached(ledger, l, type, last) /\ \A y \in used : y <= last
    <2> HIDE DEF upper, used
    <2>1. used \in SUBSET (0..upper)
        BY <1>1, <1>2
    <2>2. last \in used /\ \A y \in used : y <= last
        BY <1>1, <1>4, <2>1, MaxIs
    <2> QED BY <1>2, <2>2
<1> HIDE DEF upper, batch, out, used, scan, last
<1>5. CASE TransactionsOf(batch) = {}
    <2>1. scan = [found |-> "address", index |-> lower]
        BY <1>2, <1>3, <1>5
    <2>2. lower \in lower..upper
        BY <1>1
    <2> QED BY <1>2, <1>5, <2>1, <2>2 DEF scan
<1>6. CASE TransactionsOf(batch) # {} /\ out = {}
    <2>1. scan = [found |-> "none", index |-> 0]
        BY <1>3, <1>6
    <2> QED BY <2>1 DEF scan
<1>7. CASE TransactionsOf(batch) # {} /\ out # {} /\ last = upper
    <2>1. scan = [found |-> "consumed", index |-> upper + 1]
        BY <1>1, <1>3, <1>7
    <2>2. Reached(ledger, l, type, upper) /\ (upper + 1) - 1 = upper /\ upper + 1 > 0
        BY <1>1, <1>2, <1>4, <1>7
    <2> QED BY <1>1, <2>1, <2>2 DEF scan
<1>8. CASE TransactionsOf(batch) # {} /\ out # {} /\ last # upper
    <2>1. scan = [found |-> "address", index |-> last + 1]
        BY <1>3, <1>8
    <2>2. last \in lower..upper /\ Reached(ledger, l, type, last) /\ \A y \in used : y <= last
        BY <1>2, <1>4, <1>8
    <2>3. last \in Nat /\ last + 1 \in lower..upper /\ (last + 1) - 1 = last /\ ~ (last + 1 <= last)
        BY <1>1, <1>8, <2>2
    <2>4. ~ Reached(ledger, l, type, last + 1)
        BY <1>2, <2>2, <2>3
    <2> QED BY <2>1, <2>2, <2>3, <2>4 DEF scan
<1> QED BY <1>5, <1>6, <1>7, <1>8

-----------------------------------------------------------------------------
(* PrototypeWallet: the calls.  What holds of a call is stated of any chain   *)
(* and any call, so that it can be followed from one chain to the next.       *)

Fns == {"getNextReceivingAddress", "getNextChangeAddress", "balance", "transactions",
        "selectInputsForTransaction"}

Pointers == SUBSET Pointer
SelectedOutputs == SUBSET [pointer : Pointer, addressing : AccountAddress]
Keys == SUBSET AccountAddress
Called == Fns \cup {"none"}
Outcomes == {"idle", "pending", "resolved", "failed", "NotEnoughInput", "TypeError", "signed",
             "InsufficientData"}

Calls == [fn : Called, outcome : Outcomes, step : Nat, lower : Nat, external : Nat, internal : Nat,
          change : Nat, since : Nat, queried : Nat, answer : Pointers, inputs : SelectedOutputs,
          witnesses : Keys, payment : Nat]

StepOf(c) == Plan[c.fn][c.step]
ScannedBy(c) == IF StepOf(c) = "external" THEN "external" ELSE "internal"

CallTyped(txs, c) ==
    /\ c \in Calls /\ c.outcome # "TypeError"
    /\ c.since <= Len(txs) /\ c.queried <= Len(txs)
    /\ c.outcome = "pending" => c.fn \in Fns /\ c.step \in 1..Len(Plan[c.fn])

\* A scan goes on behind an address that is reached.
ScanFollows(txs, c) ==
    c.outcome = "pending" /\ StepOf(c) \in {"external", "internal", "change"}
        => c.lower = 0 \/ Reached(txs, Len(txs), ScannedBy(c), c.lower - 1)

\* An address that was not reached when the call began, right behind one that is now.
NewAddress(txs, since, type, i) ==
    /\ ~ Reached(txs, since, type, i)
    /\ i > 0 => Reached(txs, Len(txs), type, i - 1)

AddressIsNew(txs, c) ==
    c.outcome = "resolved" =>
        /\ c.fn = "getNextReceivingAddress" => NewAddress(txs, c.since, "external", c.external)
        /\ c.fn = "getNextChangeAddress" => NewAddress(txs, c.since, "internal", c.internal)

\* The scans of a balance found addresses that were not reached when it began.
BalanceFollows(txs, c) ==
    c.fn = "balance" /\ c.outcome = "pending" =>
        /\ c.step > 1 => ~ Reached(txs, c.since, "external", c.external)
        /\ c.step > 2 => ~ Reached(txs, c.since, "internal", c.internal)

\* The address is less than a batch past the first one that was not reached.
Near(txs, n, address) ==
    \A j \in 0..(address.index - ScanGap) : Reached(txs, n, address.type, j)

FundsFollow(txs, c) ==
    c.fn = "balance" /\ c.outcome = "resolved" =>
        /\ {p \in UnspentBy(txs, c.queried) : p.id <= c.since /\ Near(txs, c.since, PaysTo(txs, p))}
              \subseteq c.answer
        /\ c.answer \subseteq UnspentBy(txs, c.queried)

\* The inputs are outputs the provider answered, each with the address of one of
\* its transaction.
InputsFollow(txs, c) ==
    c.fn = "selectInputsForTransaction" =>
        /\ c.outcome = "pending" /\ c.step = 4 => c.answer \subseteq MadeBy(txs, Len(txs))
        /\ c.outcome \in {"resolved", "signed"} =>
              /\ c.answer \subseteq MadeBy(txs, Len(txs))
              /\ \A i \in c.inputs : /\ i.pointer \in c.answer
                                     /\ \E r \in c.answer : r.id = i.pointer.id
                                                            /\ i.addressing = PaysTo(txs, r)

SignedFollows(c) ==
    c.outcome = "signed" => /\ c.fn = "selectInputsForTransaction"
                            /\ c.witnesses = {i.addressing : i \in c.inputs}

CallFollows(txs, c) ==
    /\ CallTyped(txs, c) /\ ScanFollows(txs, c) /\ AddressIsNew(txs, c) /\ BalanceFollows(txs, c)
    /\ FundsFollow(txs, c) /\ InputsFollow(txs, c) /\ SignedFollows(c)

\* Nothing a call knows is undone by a transaction that is added to the chain.
LEMMA CallSurvives ==
    ASSUME NEW txs \in Seq(Transfer), NEW tx \in Transfer, NEW c, CallFollows(txs, c)
    PROVE  CallFollows(Append(txs, tx), c)
<1> DEFINE more == Append(txs, tx)
           l == Len(txs)
<1>1. l \in Nat /\ Len(more) = l + 1 /\ c \in Calls /\ c.since \in 0..l /\ c.queried \in 0..l
    BY DEF CallFollows, CallTyped, Calls
<1>2. /\ \A n \in 0..l : \A type, i : Reached(more, n, type, i) <=> Reached(txs, n, type, i)
      /\ \A type, i : Reached(txs, l, type, i) => Reached(more, l + 1, type, i)
    <2>1. /\ \A n \in 0..Len(txs) : \A type, i : Reached(more, n, type, i) <=> Reached(txs, n, type, i)
          /\ \A type, i : Reached(more, Len(more), type, i)
                <=> Reached(txs, Len(txs), type, i)
                    \/ \E j \in DOMAIN tx.outputs : tx.outputs[j] = [type |-> type, index |-> i]
        BY ReachedByMore
    <2> HIDE DEF more
    <2> QED BY <1>1, <2>1
<1>3. /\ UnspentBy(more, c.queried) = UnspentBy(txs, c.queried)
      /\ \A p \in UnspentBy(txs, c.queried) : PaysTo(more, p) = PaysTo(txs, p)
      /\ \A p \in MadeBy(txs, l) : p \in MadeBy(more, l + 1) /\ PaysTo(more, p) = PaysTo(txs, p)
    <2>1. l \in 0..l
        BY <1>1
    <2> QED BY <1>1, <2>1, UnspentByMore DEF UnspentBy
<1> HIDE DEF more, l
<1>4. CallTyped(more, c)
    BY <1>1 DEF CallFollows, CallTyped, l
<1>5. ScanFollows(more, c)
    BY <1>1, <1>2 DEF CallFollows, ScanFollows, l
<1>6. AddressIsNew(more, c)
    BY <1>1, <1>2 DEF CallFollows, AddressIsNew, NewAddress, l
<1>7. BalanceFollows(more, c)
    BY <1>1, <1>2 DEF CallFollows, BalanceFollows
<1>8. FundsFollow(more, c)
    <2>1. \A a : Near(more, c.since, a) <=> Near(txs, c.since, a)
        BY <1>1, <1>2 DEF Near
    <2> QED BY <1>3, <2>1 DEF CallFollows, FundsFollow
<1>9. InputsFollow(more, c)
    <2>1. SUFFICES ASSUME c.fn = "selectInputsForTransaction" PROVE InputsFollow(more, c)
        BY DEF InputsFollow
    <2>2. ASSUME c.answer \subseteq MadeBy(txs, l)
          PROVE  /\ c.answer \subseteq MadeBy(more, l + 1)
                 /\ \A r \in c.answer : PaysTo(more, r) = PaysTo(txs, r)
        BY <1>3, <2>2
    <2> QED BY <1>1, <2>1, <2>2 DEF CallFollows, InputsFollow, l
<1> QED BY <1>4, <1>5, <1>6, <1>7, <1>8, <1>9 DEF CallFollows, more

\* The awaits of the calls (ClientWallet.ts).
LEMMA PlanIs ==
    /\ DOMAIN Plan = Fns
    /\ Plan["getNextReceivingAddress"] = <<"external">>
    /\ Plan["getNextChangeAddress"] = <<"internal">>
    /\ Plan["balance"] = <<"external", "internal", "utxos">>
    /\ Plan["transactions"] = <<"external", "internal", "history">>
    /\ Plan["selectInputsForTransaction"] = <<"external", "internal", "utxos", "change">>
BY DEF Plan, Fns

\* Which awaits of a function a pending call can be at.
LEMMA StepsAre ==
    ASSUME NEW txs, NEW c, CallTyped(txs, c), c.outcome = "pending"
    PROVE  /\ c.fn = "getNextReceivingAddress" => c.step = 1 /\ StepOf(c) = "external"
           /\ c.fn = "getNextChangeAddress" => c.step = 1 /\ StepOf(c) = "internal"
           /\ c.fn \in {"balance", "transactions", "selectInputsForTransaction"} =>
                 /\ c.step \in {1, 2, 3, 4}
                 /\ StepOf(c) = "external" <=> c.step = 1
                 /\ StepOf(c) = "internal" <=> c.step = 2
                 /\ StepOf(c) \in {"utxos", "history"} <=> c.step = 3
                 /\ StepOf(c) = "change" <=> c.step = 4
           /\ StepOf(c) = "change" => c.fn = "selectInputsForTransaction" /\ c.step = 4
           /\ c.fn = "balance" /\ c.step = 3 => StepOf(c) = "utxos"
           /\ c.fn = "selectInputsForTransaction" /\ c.step = 3 => StepOf(c) = "utxos"
           /\ c.step = Len(Plan[c.fn]) <=>
                 \/ c.fn \in {"getNextReceivingAddress", "getNextChangeAddress"}
                 \/ c.fn \in {"balance", "transactions"} /\ c.step = 3
                 \/ c.fn = "selectInputsForTransaction" /\ c.step = 4
<1> DEFINE P == Plan[c.fn]
<1>1. c.fn \in Fns /\ c.step \in 1..Len(P)
    BY DEF CallTyped
<1>2. CASE c.fn = "getNextReceivingAddress"
    <2>1. P = <<"external">> BY <1>2, PlanIs
    <2>2. Len(P) = 1 /\ P[1] = "external" BY <2>1
    <2> HIDE DEF P
    <2>3. c.step = 1 BY <1>1, <2>2
    <2> QED BY <1>2, <2>2, <2>3 DEF StepOf, P
<1>3. CASE c.fn = "getNextChangeAddress"
    <2>1. P = <<"internal">> BY <1>3, PlanIs
    <2>2. Len(P) = 1 /\ P[1] = "internal" BY <2>1
    <2> HIDE DEF P
    <2>3. c.step = 1 BY <1>1, <2>2
    <2> QED BY <1>3, <2>2, <2>3 DEF StepOf, P
<1>4. CASE c.fn = "balance"
    <2>1. P = <<"external", "internal", "utxos">> BY <1>4, PlanIs
    <2>2. Len(P) = 3 /\ P[1] = "external" /\ P[2] = "internal" /\ P[3] = "utxos" BY <2>1
    <2> HIDE DEF P
    <2>3. c.step \in {1, 2, 3} BY <1>1, <2>2
    <2> QED BY <1>4, <2>2, <2>3 DEF StepOf, P
<1>5. CASE c.fn = "transactions"
    <2>1. P = <<"external", "internal", "history">> BY <1>5, PlanIs
    <2>2. Len(P) = 3 /\ P[1] = "external" /\ P[2] = "internal" /\ P[3] = "history" BY <2>1
    <2> HIDE DEF P
    <2>3. c.step \in {1, 2, 3} BY <1>1, <2>2
    <2> QED BY <1>5, <2>2, <2>3 DEF StepOf, P
<1>6. CASE c.fn = "selectInputsForTransaction"
    <2>1. P = <<"external", "internal", "utxos", "change">> BY <1>6, PlanIs
    <2>2. /\ Len(P) = 4 /\ P[1] = "external" /\ P[2] = "internal" /\ P[3] = "utxos"
          /\ P[4] = "change" BY <2>1
    <2> HIDE DEF P
    <2>3. c.step \in {1, 2, 3, 4} BY <1>1, <2>2
    <2> QED BY <1>6, <2>2, <2>3 DEF StepOf, P
<1> QED BY <1>1, <1>2, <1>3, <1>4, <1>5, <1>6 DEF Fns

\* A call goes on with its next await or resolves, and keeps what it knows.
LEMMA ContinueIs ==
    ASSUME call \in Calls, NEW r \in Calls
    PROVE  LET c == Continue(r)
           IN /\ c \in Calls
              /\ c.fn = r.fn /\ c.external = r.external /\ c.internal = r.internal
              /\ c.since = r.since /\ c.queried = r.queried /\ c.answer = r.answer /\ c.inputs = r.inputs
              /\ IF call.step = Len(Plan[call.fn]) THEN c.outcome = "resolved"
                 ELSE c.outcome = r.outcome /\ c.step = call.step + 1 /\ c.lower = 0
<1> DEFINE c == Continue(r)
<1>1. CASE call.step = Len(Plan[call.fn])
    <2>1. c = [r EXCEPT !.outcome = "resolved"]
        BY <1>1 DEF Continue
    <2> HIDE DEF c
    <2>2. c \in Calls
        <3>1. "resolved" \in Outcomes
            BY DEF Outcomes
        <3> QED BY <2>1, <3>1 DEF Calls
    <2>3. /\ c.fn = r.fn /\ c.external = r.external /\ c.internal = r.internal /\ c.since = r.since
          /\ c.queried = r.queried /\ c.answer = r.answer /\ c.inputs = r.inputs
          /\ c.outcome = "resolved"
        BY <2>1 DEF Calls
    <2> QED BY <1>1, <2>2, <2>3 DEF c
<1>2. CASE call.step # Len(Plan[call.fn])
    <2>1. c = [r EXCEPT !.step = call.step + 1, !.lower = 0]
        BY <1>2 DEF Continue
    <2>2. call.step + 1 \in Nat
        BY DEF Calls
    <2> HIDE DEF c
    <2>3. c \in Calls
        BY <2>1, <2>2 DEF Calls
    <2>4. /\ c.fn = r.fn /\ c.external = r.external /\ c.internal = r.internal /\ c.since = r.since
          /\ c.queried = r.queried /\ c.answer = r.answer /\ c.inputs = r.inputs
          /\ c.outcome = r.outcome /\ c.step = call.step + 1 /\ c.lower = 0
        BY <2>1 DEF Calls
    <2> QED BY <1>2, <2>3, <2>4 DEF c
<1> QED BY <1>1, <1>2

\* A call that has gone on is at an await of its own, or has resolved.
LEMMA ContinuedIsTyped ==
    ASSUME ledger \in Seq(Transfer), CallTyped(ledger, call), call.outcome = "pending", NEW r \in Calls,
           r.fn = call.fn, r.outcome = "pending", r.since = call.since, r.queried <= Len(ledger)
    PROVE  CallTyped(ledger, Continue(r)) /\ ScanFollows(ledger, Continue(r))
<1> DEFINE c == Continue(r)
           n == Len(Plan[call.fn])
<1>1. /\ c \in Calls /\ c.fn = call.fn /\ c.since = call.since /\ c.queried = r.queried
      /\ IF call.step = n THEN c.outcome = "resolved"
         ELSE c.outcome = "pending" /\ c.step = call.step + 1 /\ c.lower = 0
    BY ContinueIs DEF CallTyped
<1>2. call.fn \in Fns /\ call.step \in 1..n /\ call.since <= Len(ledger)
    BY DEF CallTyped
<1>3. n \in Nat
    <2>1. \A f \in Fns : Len(Plan[f]) \in {1, 3, 4}
        <3>1. Len(<<"external">>) = 1 /\ Len(<<"internal">>) = 1
              /\ Len(<<"external", "internal", "utxos">>) = 3
              /\ Len(<<"external", "internal", "history">>) = 3
              /\ Len(<<"external", "internal", "utxos", "change">>) = 4
            OBVIOUS
        <3> QED BY <3>1, PlanIs DEF Fns
    <2> QED BY <1>2, <2>1
<1> HIDE DEF c, n
<1>4. CallTyped(ledger, c)
    BY <1>1, <1>2, <1>3 DEF CallTyped, n
<1>5. ScanFollows(ledger, c)
    BY <1>1 DEF ScanFollows
<1> QED BY <1>4, <1>5 DEF c

\* A call that begins knows nothing yet.
LEMMA CallBegins ==
    ASSUME LedgerInv, NEW f \in Fns, NEW payment \in {0, 1}, Begin(f, payment)
    PROVE  CallFollows(ledger, call')
<1> DEFINE c == [fn |-> f, outcome |-> "pending", step |-> 1, lower |-> 0, external |-> 0, internal |-> 0,
                 change |-> 0, since |-> Len(ledger), queried |-> 0, answer |-> {}, inputs |-> {},
                 witnesses |-> {}, payment |-> payment]
<1>1. call' = c
    BY DEF Begin, Idle
<1>2. Len(ledger) \in Nat
    BY DEF LedgerInv
<1>3. c \in Calls
    <2>1. {} \in Pointers /\ {} \in SelectedOutputs /\ {} \in Keys /\ f \in Called
          /\ "pending" \in Outcomes
        BY DEF Pointers, SelectedOutputs, Keys, Called, Outcomes
    <2> QED BY <1>2, <2>1 DEF Calls
<1>4. 1 \in 1..Len(Plan[f])
    <2>1. /\ 1 \in 1..Len(<<"external">>) /\ 1 \in 1..Len(<<"internal">>)
          /\ 1 \in 1..Len(<<"external", "internal", "utxos">>)
          /\ 1 \in 1..Len(<<"external", "internal", "history">>)
          /\ 1 \in 1..Len(<<"external", "internal", "utxos", "change">>)
        OBVIOUS
    <2> QED BY <2>1, PlanIs DEF Fns
<1> QED BY <1>1, <1>2, <1>3, <1>4
        DEF CallFollows, CallTyped, ScanFollows, AddressIsNew, BalanceFollows, FundsFollow, InputsFollow,
            SignedFollows

\* The step of the call, as a function of the call.
LEMMA ScanTerms ==
    ASSUME CallTyped(ledger, call)
    PROVE  /\ Step = StepOf(call) /\ TypeScanned = ScannedBy(call)
           /\ ScannedBy(call) \in Types /\ call.lower \in Nat /\ call \in Calls
BY DEF Step, TypeScanned, StepOf, ScannedBy, Types, CallTyped, Calls

\* A scan that goes on has seen a batch whose last address is used.
LEMMA BatchConsumed ==
    ASSUME LedgerInv, CallFollows(ledger, call), Consumed
    PROVE  CallFollows(ledger, call')
<1> DEFINE scan == ScanBatch(ScannedBy(call), call.lower)
<1>1. /\ CallTyped(ledger, call) /\ call.outcome = "pending"
      /\ StepOf(call) \in {"external", "internal", "change"}
      /\ scan.found = "consumed" /\ call' = [call EXCEPT !.lower = scan.index]
    BY ScanTerms DEF Consumed, Awaits, CallFollows
<1>2. scan.index \in Nat /\ Reached(ledger, Len(ledger), ScannedBy(call), scan.index - 1)
    BY <1>1, ScanTerms, ScanFinds
<1> HIDE DEF scan
<1>3. /\ call' \in Calls /\ call'.lower = scan.index
      /\ call'.fn = call.fn /\ call'.outcome = call.outcome /\ call'.step = call.step
      /\ call'.external = call.external /\ call'.internal = call.internal
      /\ call'.since = call.since /\ call'.queried = call.queried /\ call'.answer = call.answer
      /\ call'.inputs = call.inputs /\ call'.witnesses = call.witnesses
    BY <1>1, <1>2, ScanTerms DEF Calls
<1>4. StepOf(call') = StepOf(call) /\ ScannedBy(call') = ScannedBy(call)
    BY <1>3 DEF StepOf, ScannedBy
<1> QED BY <1>1, <1>2, <1>3, <1>4
        DEF CallFollows, CallTyped, ScanFollows, AddressIsNew, BalanceFollows, FundsFollow, InputsFollow,
            SignedFollows

\* The address a scan ends at was not reached when the call began.
LEMMA ScanIsNew ==
    ASSUME LedgerInv, CallFollows(ledger, call), call.outcome = "pending",
           StepOf(call) \in {"external", "internal", "change"},
           ScanBatch(ScannedBy(call), call.lower).found = "address"
    PROVE  LET i == ScanBatch(ScannedBy(call), call.lower).index
           IN i \in Nat /\ NewAddress(ledger, call.since, ScannedBy(call), i)
<1> DEFINE scan == ScanBatch(ScannedBy(call), call.lower)
           i == scan.index
           l == Len(ledger)
<1>1. CallTyped(ledger, call) /\ l \in Nat /\ call.since \in Nat /\ call.since <= l
    BY DEF CallFollows, CallTyped, Calls, LedgerInv
<1>2. ScannedBy(call) \in Types /\ call.lower \in Nat
    BY <1>1, ScanTerms
<1>3. /\ i \in Nat
      /\ i # call.lower => Reached(ledger, l, ScannedBy(call), i - 1)
      /\ ~ Reached(ledger, l, ScannedBy(call), i)
    BY <1>2, ScanFinds
<1>4. call.lower = 0 \/ Reached(ledger, l, ScannedBy(call), call.lower - 1)
    BY DEF CallFollows, ScanFollows
<1>5. ~ Reached(ledger, call.since, ScannedBy(call), i)
    BY <1>1, <1>3, ReachedLater
<1> QED BY <1>3, <1>4, <1>5 DEF NewAddress

\* A scan that ends with a new address hands it to the call.
LEMMA AddressFound ==
    ASSUME LedgerInv, CallFollows(ledger, call), call.outcome = "pending",
           StepOf(call) \in {"external", "internal"},
           NEW i \in Nat, NewAddress(ledger, call.since, ScannedBy(call), i),
           call' = Continue([call EXCEPT ![StepOf(call)] = i])
    PROVE  CallFollows(ledger, call')
<1>1. /\ CallTyped(ledger, call) /\ call \in Calls /\ ledger \in Seq(Transfer)
      /\ call.queried <= Len(ledger)
    BY DEF CallFollows, CallTyped, LedgerInv
<1>2. PICK r \in Calls :
          /\ call' = Continue(r)
          /\ r.fn = call.fn /\ r.outcome = call.outcome /\ r.since = call.since /\ r.queried = call.queried
          /\ r.answer = call.answer /\ r.inputs = call.inputs
          /\ r.external = IF StepOf(call) = "external" THEN i ELSE call.external
          /\ r.internal = IF StepOf(call) = "external" THEN call.internal ELSE i
    <2>1. CASE StepOf(call) = "external"
        <3>1. PICK r : r = [call EXCEPT !.external = i]
            OBVIOUS
        <3>2. call' = Continue(r)
            BY <2>1, <3>1
        <3>3. /\ r \in Calls /\ r.fn = call.fn /\ r.outcome = call.outcome /\ r.since = call.since
              /\ r.queried = call.queried /\ r.answer = call.answer /\ r.inputs = call.inputs
              /\ r.external = i /\ r.internal = call.internal
            BY <1>1, <3>1 DEF Calls
        <3> QED BY <2>1, <3>2, <3>3
    <2>2. CASE StepOf(call) = "internal"
        <3>1. PICK r : r = [call EXCEPT !.internal = i]
            OBVIOUS
        <3>2. call' = Continue(r)
            BY <2>2, <3>1
        <3>3. /\ r \in Calls /\ r.fn = call.fn /\ r.outcome = call.outcome /\ r.since = call.since
              /\ r.queried = call.queried /\ r.answer = call.answer /\ r.inputs = call.inputs
              /\ r.external = call.external /\ r.internal = i
            BY <1>1, <3>1 DEF Calls
        <3> QED BY <2>2, <3>2, <3>3
    <2> QED BY <2>1, <2>2
<1>3. /\ call'.fn = r.fn /\ call'.external = r.external /\ call'.internal = r.internal
      /\ call'.since = r.since /\ call'.queried = r.queried /\ call'.answer = r.answer
      /\ IF call.step = Len(Plan[call.fn]) THEN call'.outcome = "resolved"
         ELSE call'.outcome = "pending" /\ call'.step = call.step + 1
    BY <1>1, <1>2, ContinueIs
<1>4. CallTyped(ledger, call') /\ ScanFollows(ledger, call')
    BY <1>1, <1>2, ContinuedIsTyped
<1>5. call.fn \in Fns
    BY <1>1 DEF CallTyped
<1>6. AddressIsNew(ledger, call')
    <2>1. CASE call.fn = "getNextReceivingAddress"
        BY <1>1, <1>2, <1>3, <2>1, StepsAre DEF AddressIsNew, ScannedBy
    <2>2. CASE call.fn = "getNextChangeAddress"
        BY <1>1, <1>2, <1>3, <2>2, StepsAre DEF AddressIsNew, ScannedBy
    <2> QED BY <1>2, <1>3, <2>1, <2>2 DEF AddressIsNew
<1>7. BalanceFollows(ledger, call') /\ FundsFollow(ledger, call')
    <2>1. CASE call.fn = "balance"
        <3>1. call.step \in {1, 2} /\ (StepOf(call) = "external" <=> call.step = 1)
            BY <1>1, <2>1, StepsAre
        <3>2. call.step # Len(Plan[call.fn])
            BY <1>1, <2>1, <3>1, StepsAre
        <3>3. call'.outcome = "pending" /\ call'.step = call.step + 1
            BY <1>3, <3>2
        <3>4. CASE call.step = 1
            BY <1>2, <1>3, <3>1, <3>3, <3>4 DEF BalanceFollows, FundsFollow, ScannedBy, NewAddress
        <3>5. CASE call.step = 2
            <4>1. ~ Reached(ledger, call.since, "external", call.external)
                BY <2>1, <3>5 DEF CallFollows, BalanceFollows
            <4> QED BY <1>2, <1>3, <3>1, <3>3, <3>5, <4>1
                    DEF BalanceFollows, FundsFollow, ScannedBy, NewAddress
        <3> QED BY <3>1, <3>4, <3>5
    <2> QED BY <1>2, <1>3, <2>1 DEF BalanceFollows, FundsFollow
<1>8. InputsFollow(ledger, call')
    <2>1. CASE call.fn = "selectInputsForTransaction"
        <3>1. call.step \in {1, 2}
            BY <1>1, <2>1, StepsAre
        <3>2. call.step # Len(Plan[call.fn])
            BY <1>1, <2>1, <3>1, StepsAre
        <3>3. call'.outcome = "pending" /\ call'.step # 4
            BY <1>3, <3>1, <3>2
        <3> QED BY <3>3 DEF InputsFollow
    <2> QED BY <1>2, <1>3, <2>1 DEF InputsFollow
<1>9. SignedFollows(call')
    BY <1>3 DEF SignedFollows
<1> QED BY <1>4, <1>6, <1>7, <1>8, <1>9 DEF CallFollows

\* A call that fails promises nothing.
LEMMA CallSettles ==
    ASSUME CallFollows(ledger, call), NEW o \in {"failed", "NotEnoughInput", "InsufficientData"},
           call' = [call EXCEPT !.outcome = o]
    PROVE  CallFollows(ledger, call')
<1>1. o \in Outcomes /\ call \in Calls /\ o \notin {"pending", "resolved", "signed"}
    BY DEF Outcomes, CallFollows, CallTyped
<1>2. /\ call' \in Calls /\ call'.outcome = o /\ call'.fn = call.fn /\ call'.since = call.since
      /\ call'.queried = call.queried
    BY <1>1 DEF Calls
<1> QED BY <1>1, <1>2
        DEF CallFollows, CallTyped, ScanFollows, AddressIsNew, BalanceFollows, FundsFollow, InputsFollow,
            SignedFollows

\* Inputs are chosen among the outputs that were answered.
LEMMA InputsSelected ==
    ASSUME LedgerInv, CallFollows(ledger, call), call.outcome = "pending", StepOf(call) = "change",
           NEW i \in Nat, InputSelection(i)
    PROVE  CallFollows(ledger, call')
<1>1. /\ CallTyped(ledger, call) /\ call \in Calls /\ ledger \in Seq(Transfer) /\ call.queried <= Len(ledger)
    BY DEF CallFollows, CallTyped, LedgerInv
<1>2. call.fn = "selectInputsForTransaction" /\ call.step = 4
      /\ call.step = Len(Plan[call.fn])
    BY <1>1, StepsAre
<1>3. CASE call' = [call EXCEPT !.outcome = "NotEnoughInput"]
    BY <1>3, CallSettles
<1>4. ASSUME NEW chosen \in SUBSET call.answer, NEW relevant \in [{p.id : p \in chosen} -> call.answer],
             \A id \in DOMAIN relevant : relevant[id] \in RelevantUtxo(id, call.answer),
             call' = Continue([call EXCEPT !.change = i,
                                            !.inputs = SelectedInputs(chosen, relevant)])
      PROVE  CallFollows(ledger, call')
    <2> DEFINE selected == SelectedInputs(chosen, relevant)
    <2>1. call.answer \subseteq MadeBy(ledger, Len(ledger))
        BY <1>2 DEF CallFollows, InputsFollow
    <2>2. selected = {[pointer |-> p, addressing |-> PaysTo(ledger, relevant[p.id])] : p \in chosen}
        BY LedgerTerms DEF SelectedInputs
    <2>3. \A p \in chosen : /\ p \in call.answer /\ p \in Pointer /\ relevant[p.id] \in call.answer
                            /\ relevant[p.id].id = p.id /\ PaysTo(ledger, relevant[p.id]) \in AccountAddress
        <3>1. \A p \in chosen : /\ p.id \in DOMAIN relevant /\ relevant[p.id] \in call.answer
                                /\ relevant[p.id].id = p.id
            BY <1>4 DEF RelevantUtxo
        <3>2. Len(ledger) \in 0..Len(ledger)
            BY <1>1
        <3>3. \A p \in call.answer : p \in Pointer /\ PaysTo(ledger, p) \in AccountAddress
            BY <1>1, <2>1, <3>2, MadeByIs
        <3> QED BY <3>1, <3>3
    <2>4. selected \in SelectedOutputs
        BY <2>2, <2>3 DEF SelectedOutputs
    <2> HIDE DEF selected
    <2>5. PICK r : r = [call EXCEPT !.change = i, !.inputs = selected]
        OBVIOUS
    <2>6. r \in Calls
        BY <1>1, <2>4, <2>5 DEF Calls
    <2>7. /\ r.fn = call.fn /\ r.outcome = "pending" /\ r.since = call.since /\ r.queried = call.queried
          /\ r.answer = call.answer /\ r.inputs = selected
        BY <1>1, <2>5 DEF Calls
    <2>8. call' = Continue(r)
        BY <1>4, <2>5 DEF selected
    <2>9. /\ call'.fn = call.fn /\ call'.outcome = "resolved" /\ call'.answer = call.answer
          /\ call'.inputs = selected
        BY <1>1, <1>2, <2>6, <2>7, <2>8, ContinueIs
    <2>10. CallTyped(ledger, call') /\ ScanFollows(ledger, call')
        BY <1>1, <2>6, <2>7, <2>8, ContinuedIsTyped
    <2>11. InputsFollow(ledger, call')
        <3>1. \A s \in selected : /\ s.pointer \in call.answer
                                  /\ \E q \in call.answer : q.id = s.pointer.id
                                                            /\ s.addressing = PaysTo(ledger, q)
            <4>1. TAKE s \in selected
            <4>2. PICK p \in chosen : s = [pointer |-> p, addressing |-> PaysTo(ledger, relevant[p.id])]
                BY <2>2
            <4> QED BY <2>3, <4>2
        <3> QED BY <2>1, <2>9, <3>1 DEF InputsFollow
    <2> QED BY <1>2, <2>9, <2>10, <2>11
            DEF CallFollows, AddressIsNew, BalanceFollows, FundsFollow, SignedFollows
<1>5. \/ call' = [call EXCEPT !.outcome = "NotEnoughInput"]
      \/ \E chosen \in SUBSET call.answer : \E relevant \in [{p.id : p \in chosen} -> call.answer] :
            /\ \A id \in DOMAIN relevant : relevant[id] \in RelevantUtxo(id, call.answer)
            /\ call' = Continue([call EXCEPT !.change = i,
                                              !.inputs = SelectedInputs(chosen, relevant)])
    BY DEF InputSelection, Selections
<1> QED BY <1>3, <1>4, <1>5

\* A scan ends with an address no payment had reached.
LEMMA ScanEnds ==
    ASSUME LedgerInv, CallFollows(ledger, call), NextAddress
    PROVE  CallFollows(ledger, call')
<1> DEFINE scan == ScanBatch(ScannedBy(call), call.lower)
<1>1. CallTyped(ledger, call)
    BY DEF CallFollows
<1>2. /\ call.outcome = "pending" /\ StepOf(call) \in {"external", "internal", "change"}
      /\ scan.found # "consumed"
      /\ IF scan.found = "none" THEN call' = [call EXCEPT !.outcome = "TypeError"]
         ELSE IF StepOf(call) = "change" THEN InputSelection(scan.index)
         ELSE call' = Continue([call EXCEPT ![StepOf(call)] = scan.index])
    BY <1>1, ScanTerms DEF NextAddress, Awaits
<1>3. scan.found \in {"address", "none", "consumed"}
    BY <1>1, ScanTerms, ScanFinds
<1>4. scan.found # "none"
    BY <1>1, ScanTerms, BatchHasOutput
<1>5. CASE scan.found = "address"
    <2>1. scan.index \in Nat /\ NewAddress(ledger, call.since, ScannedBy(call), scan.index)
        BY <1>2, <1>5, ScanIsNew
    <2> HIDE DEF scan
    <2>2. PICK i \in Nat : i = scan.index
        BY <2>1
    <2>3. CASE StepOf(call) = "change"
        BY <1>2, <1>5, <2>2, <2>3, InputsSelected
    <2>4. CASE StepOf(call) \in {"external", "internal"}
        <3>1. call' = Continue([call EXCEPT ![StepOf(call)] = i])
            BY <1>2, <1>5, <2>2, <2>4
        <3> QED BY <1>2, <2>1, <2>2, <2>4, <3>1, AddressFound
    <2> QED BY <1>2, <2>3, <2>4
<1> QED BY <1>2, <1>3, <1>4, <1>5

\* An output the account had when a balance began, less than a batch past the
\* first address that was unused then, is at an address that is queried: the scan
\* ended no earlier than at that address.
LEMMA FundsAreQueried ==
    ASSUME LedgerInv, CallFollows(ledger, call), call.outcome = "pending",
           call.fn = "balance", call.step = 3, NEW p \in MadeBy(ledger, Len(ledger)),
           Near(ledger, call.since, PaysTo(ledger, p))
    PROVE  PaysTo(ledger, p) \in AddressSet(call.external, call.internal)
<1> DEFINE a == PaysTo(ledger, p)
           found(type) == IF type = "external" THEN call.external ELSE call.internal
<1>1. /\ ledger \in Seq(Transfer) /\ Len(ledger) \in Nat /\ ScanGap \in Nat
      /\ call.external \in Nat /\ call.internal \in Nat
    BY PrototypeAssumption DEF LedgerInv, CallFollows, CallTyped, Calls
<1>2. Len(ledger) \in 0..Len(ledger)
    BY <1>1
<1>3. a \in AccountAddress
    BY <1>1, <1>2, MadeByIs
<1>4. Near(ledger, call.since, a)
    OBVIOUS
<1> HIDE DEF a
<1>5. /\ a.type \in Types /\ a.index \in Nat /\ a = [type |-> a.type, index |-> a.index]
    BY <1>3 DEF AccountAddress, Types
<1>6. ~ Reached(ledger, call.since, a.type, found(a.type)) /\ found(a.type) \in Nat
    BY <1>1, <1>5 DEF CallFollows, BalanceFollows, Types
<1>7. found(a.type) \notin 0..(a.index - ScanGap)
    BY <1>4, <1>6 DEF Near
<1>8. PICK e \in Nat : e = found(a.type)
    BY <1>6
<1>9. a.index \in 0..(found(a.type) + ScanGap - 1)
    BY <1>1, <1>5, <1>7, <1>8
<1>10. CASE a.type = "external"
    BY <1>5, <1>9, <1>10 DEF AddressSet, Within, a
<1>11. CASE a.type = "internal"
    BY <1>5, <1>9, <1>11 DEF AddressSet, Within, a
<1> QED BY <1>5, <1>10, <1>11 DEF Types

\* Outputs are answered for every address of the set the call derived.
LEMMA ProviderAnswers ==
    ASSUME LedgerInv, CallFollows(ledger, call), Queried
    PROVE  CallFollows(ledger, call')
<1> DEFINE addresses == AddressSet(call.external, call.internal)
           answer == IF StepOf(call) = "utxos" THEN UtxosOf(addresses)
                     ELSE {[id |-> n, index |-> 0] : n \in TransactionsOf(addresses)}
           l == Len(ledger)
           unspent == UnspentBy(ledger, l)
<1>1. /\ CallTyped(ledger, call) /\ call \in Calls /\ ledger \in Seq(Transfer) /\ l \in Nat
      /\ call.since \in Nat /\ l \in 0..l
    BY DEF CallFollows, CallTyped, LedgerInv, Calls
<1>2. /\ call.outcome = "pending" /\ StepOf(call) \in {"utxos", "history"}
      /\ call' = Continue([call EXCEPT !.answer = answer, !.queried = l])
    BY <1>1, ScanTerms DEF Queried, Awaits
<1>3. UtxosOf(addresses) = {p \in unspent : PaysTo(ledger, p) \in addresses}
    BY LedgerTerms DEF UtxosOf
<1>4. answer \in Pointers
    <2>1. \A p \in unspent : p \in Pointer
        BY <1>1, MadeByIs DEF UnspentBy
    <2>2. \A n \in TransactionsOf(addresses) : n \in Nat
        BY <1>1 DEF TransactionsOf
    <2> QED BY <1>3, <2>1, <2>2 DEF Pointers, Pointer
<1> HIDE DEF answer
<1>5. PICK r : r = [call EXCEPT !.answer = answer, !.queried = l]
    OBVIOUS
<1>6. r \in Calls
    BY <1>1, <1>4, <1>5 DEF Calls
<1>7. /\ r.fn = call.fn /\ r.outcome = "pending" /\ r.since = call.since /\ r.queried = l
      /\ r.answer = answer
    BY <1>1, <1>2, <1>5 DEF Calls
<1>8. call' = Continue(r)
    BY <1>2, <1>5
<1>9. /\ call'.fn = call.fn /\ call'.since = call.since /\ call'.queried = l /\ call'.answer = answer
      /\ IF call.step = Len(Plan[call.fn]) THEN call'.outcome = "resolved"
         ELSE call'.outcome = "pending" /\ call'.step = call.step + 1
    BY <1>1, <1>6, <1>7, <1>8, ContinueIs
<1>10. CallTyped(ledger, call') /\ ScanFollows(ledger, call')
    BY <1>1, <1>2, <1>6, <1>7, <1>8, ContinuedIsTyped
<1>11. call.fn \in {"balance", "transactions", "selectInputsForTransaction"} /\ call.step = 3
    BY <1>1, <1>2, StepsAre DEF CallTyped, Fns
<1>12. BalanceFollows(ledger, call') /\ FundsFollow(ledger, call')
    <2>1. CASE call.fn = "balance"
        <3>1. StepOf(call) = "utxos" /\ call'.outcome = "resolved"
            BY <1>1, <1>2, <1>9, <1>11, <2>1, StepsAre
        <3>2. answer = {p \in unspent : PaysTo(ledger, p) \in addresses}
            BY <1>3, <3>1 DEF answer
        <3>3. ASSUME NEW p \in unspent, Near(ledger, call.since, PaysTo(ledger, p)) PROVE p \in answer
            <4>1. p \in MadeBy(ledger, l)
                BY DEF UnspentBy
            <4>2. PaysTo(ledger, p) \in addresses
                BY <1>2, <1>11, <2>1, <3>3, <4>1, FundsAreQueried
            <4> QED BY <3>2, <4>2
        <3> HIDE DEF unspent, l, addresses
        <3>4. call'.queried = l /\ unspent = UnspentBy(ledger, l)
            BY <1>9 DEF unspent
        <3> QED BY <1>9, <3>1, <3>2, <3>3, <3>4 DEF BalanceFollows, FundsFollow
    <2> QED BY <1>9, <2>1 DEF BalanceFollows, FundsFollow
<1>13. InputsFollow(ledger, call')
    <2>1. CASE call.fn = "selectInputsForTransaction"
        <3>1. StepOf(call) = "utxos" /\ call'.outcome = "pending"
            BY <1>1, <1>2, <1>9, <1>11, <2>1, StepsAre
        <3>2. answer \subseteq MadeBy(ledger, l)
            BY <1>3, <3>1 DEF answer, UnspentBy
        <3> QED BY <1>9, <3>1, <3>2 DEF InputsFollow
    <2> QED BY <1>9, <2>1 DEF InputsFollow
<1>14. AddressIsNew(ledger, call') /\ SignedFollows(call')
    BY <1>9, <1>11 DEF AddressIsNew, SignedFollows
<1> QED BY <1>10, <1>12, <1>13, <1>14 DEF CallFollows

\* Both key managers sign for the addresses of the inputs.
LEMMA InputsAreSigned ==
    ASSUME CallFollows(ledger, call), SignInMemory \/ SignWithLedger
    PROVE  CallFollows(ledger, call')
<1>1. /\ call.fn = "selectInputsForTransaction" /\ call.outcome = "resolved" /\ call \in Calls
      /\ AddWitnesses \/ \E o \in {"InsufficientData", "failed"} : call' = [call EXCEPT !.outcome = o]
    BY DEF SignInMemory, SignWithLedger, Signs, CallFollows, CallTyped
<1>2. CASE AddWitnesses
    <2> DEFINE keys == {i.addressing : i \in call.inputs}
    <2>1. call' = [call EXCEPT !.outcome = "signed", !.witnesses = keys]
        BY <1>2 DEF AddWitnesses
    <2>2. keys \in Keys /\ "signed" \in Outcomes
        <3>1. call.inputs \in SelectedOutputs
            BY <1>1 DEF Calls
        <3> QED BY <3>1 DEF SelectedOutputs, Keys, Outcomes
    <2> HIDE DEF keys
    <2>3. /\ call' \in Calls /\ call'.fn = call.fn /\ call'.outcome = "signed" /\ call'.since = call.since
          /\ call'.queried = call.queried /\ call'.answer = call.answer /\ call'.inputs = call.inputs
          /\ call'.witnesses = keys
        BY <1>1, <2>1, <2>2 DEF Calls
    <2> QED BY <1>1, <2>3
            DEF CallFollows, CallTyped, ScanFollows, AddressIsNew, BalanceFollows, FundsFollow, InputsFollow,
                SignedFollows, keys
<1>3. ASSUME NEW o \in {"InsufficientData", "failed"}, call' = [call EXCEPT !.outcome = o]
      PROVE  CallFollows(ledger, call')
    BY <1>3, CallSettles
<1> QED BY <1>1, <1>2, <1>3

PrototypeInv == LedgerInv /\ CallFollows(ledger, call)

\* Every step of the prototype preserves the invariant.
LEMMA PrototypeNextInv ==
    ASSUME PrototypeInv, PrototypeNext
    PROVE  PrototypeInv'
<1>1. LedgerInv /\ CallFollows(ledger, call)
    BY DEF PrototypeInv
<1>2. CASE AddTransaction
    <2>1. LedgerInv' /\ \E tx \in Transfer : ledger' = Append(ledger, tx)
        BY <1>1, <1>2, LedgerGrows
    <2>2. PICK tx \in Transfer : ledger' = Append(ledger, tx)
        BY <2>1
    <2>3. call' = call /\ ledger \in Seq(Transfer)
        BY <1>1, <1>2 DEF AddTransaction, LedgerInv
    <2>4. CallFollows(Append(ledger, tx), call)
        BY <1>1, <2>3, CallSurvives
    <2> QED BY <2>1, <2>2, <2>3, <2>4 DEF PrototypeInv
<1>3. ASSUME ledger' = ledger, CallFollows(ledger, call') PROVE PrototypeInv'
    BY <1>1, <1>3 DEF PrototypeInv, LedgerInv
<1>4. ASSUME NEW f \in Fns, NEW payment \in {0, 1}, Begin(f, payment) PROVE PrototypeInv'
    BY <1>1, <1>3, <1>4, CallBegins DEF Begin
<1>5. CASE Consumed
    BY <1>1, <1>3, <1>5, BatchConsumed DEF Consumed
<1>6. CASE NextAddress
    BY <1>1, <1>3, <1>6, ScanEnds DEF NextAddress
<1>7. CASE Queried
    BY <1>1, <1>3, <1>7, ProviderAnswers DEF Queried
<1>8. CASE RequestFails
    BY <1>1, <1>3, <1>8, CallSettles DEF RequestFails
<1>9. CASE SignInMemory \/ SignWithLedger
    BY <1>1, <1>3, <1>9, InputsAreSigned DEF SignInMemory, SignWithLedger, Signs
<1>10. ClientWalletStep =>
          \/ \E f \in Fns, payment \in {0, 1} : Begin(f, payment)
          \/ Consumed \/ NextAddress \/ Queried \/ RequestFails
          \/ SignInMemory \/ SignWithLedger
    BY PlanIs DEF ClientWalletStep
<1> QED BY <1>2, <1>4, <1>5, <1>6, <1>7, <1>8, <1>9, <1>10 DEF PrototypeNext

\* The invariant of the prototype.
LEMMA PrototypeInvHolds == PrototypeSpec => []PrototypeInv
<1>1. PrototypeInit => PrototypeInv
    <2>1. SUFFICES ASSUME ledger = <<>>, call = Idle PROVE PrototypeInv
        BY DEF PrototypeInit
    <2>2. ledger \in Seq(Transfer) /\ Len(ledger) = 0
        BY <2>1
    <2>3. \A type, i : ~ Reached(ledger, 0, type, i)
        BY DEF Reached
    <2>5. LedgerInv
        <3>1. SpentAreMade(ledger)
            BY <2>2 DEF SpentAreMade
        <3> QED BY <2>2, <2>3, <3>1 DEF LedgerInv
    <2>6. call = [fn |-> "none", outcome |-> "idle", step |-> 0, lower |-> 0, external |-> 0,
                  internal |-> 0, change |-> 0, since |-> 0, queried |-> 0, answer |-> {}, inputs |-> {},
                  witnesses |-> {}, payment |-> 0]
        BY <2>1 DEF Idle
    <2>7. call \in Calls
        <3>1. /\ {} \in Pointers /\ {} \in SelectedOutputs /\ {} \in Keys /\ "none" \in Called
              /\ "idle" \in Outcomes
            BY DEF Pointers, SelectedOutputs, Keys, Called, Outcomes
        <3> QED BY <2>6, <3>1 DEF Calls
    <2>8. CallFollows(ledger, call)
        BY <2>2, <2>6, <2>7
           DEF CallFollows, CallTyped, ScanFollows, AddressIsNew, BalanceFollows, FundsFollow, InputsFollow,
               SignedFollows
    <2> QED BY <2>5, <2>8 DEF PrototypeInv
<1>2. PrototypeInv /\ [PrototypeNext]_prototypeVars => PrototypeInv'
    <2>1. PrototypeInv /\ UNCHANGED prototypeVars => PrototypeInv'
        BY DEF PrototypeInv, LedgerInv, prototypeVars
    <2> QED BY <2>1, PrototypeNextInv
<1> QED BY <1>1, <1>2, PTL DEF PrototypeSpec

\* The address a scan returns was not reached by a payment when it was asked for,
\* and directly follows one that was, whatever is paid between its batches
\* (getNextAddressByType).
THEOREM AddressesAreFresh == PrototypeSpec => []NextAddressIsFresh
<1>1. PrototypeInv => NextAddressIsFresh
    <2> SUFFICES ASSUME PrototypeInv, call.outcome = "resolved",
                        call.fn \in {"getNextReceivingAddress", "getNextChangeAddress"}
                 PROVE  NextAddressIsFresh
        BY DEF NextAddressIsFresh
    <2>1. /\ ledger \in Seq(Transfer) /\ call \in Calls /\ call.since <= Len(ledger)
          /\ AddressIsNew(ledger, call)
        BY DEF PrototypeInv, LedgerInv, CallFollows, CallTyped
    <2>2. Len(ledger) \in 0..Len(ledger) /\ call.since \in 0..Len(ledger)
        BY <2>1 DEF Calls
    <2>3. \A type : /\ UsedIndices(call.since, type) = Used(ledger, call.since, type)
                    /\ UsedIndices(Len(ledger), type) = Used(ledger, Len(ledger), type)
        BY <2>1, <2>2, UsedAre
    <2>4. CASE call.fn = "getNextReceivingAddress"
        <3>1. NewAddress(ledger, call.since, "external", call["external"]) /\ call["external"] \in Nat
            BY <2>1, <2>4 DEF AddressIsNew, Calls
        <3>2. call["external"] \notin UsedIndices(call.since, "external")
            BY <2>3, <3>1 DEF NewAddress, Used
        <3>3. call["external"] > 0 => call["external"] - 1 \in UsedIndices(Len(ledger), "external")
            BY <2>3, <3>1 DEF NewAddress, Used
        <3>4. Plan[call.fn][1] = "external"
            BY <2>4, PlanIs
        <3> QED BY <3>2, <3>3, <3>4 DEF NextAddressIsFresh
    <2>5. CASE call.fn = "getNextChangeAddress"
        <3>1. NewAddress(ledger, call.since, "internal", call["internal"]) /\ call["internal"] \in Nat
            BY <2>1, <2>5 DEF AddressIsNew, Calls
        <3>2. call["internal"] \notin UsedIndices(call.since, "internal")
            BY <2>3, <3>1 DEF NewAddress, Used
        <3>3. call["internal"] > 0 => call["internal"] - 1 \in UsedIndices(Len(ledger), "internal")
            BY <2>3, <3>1 DEF NewAddress, Used
        <3>4. Plan[call.fn][1] = "internal"
            BY <2>5, PlanIs
        <3> QED BY <3>2, <3>3, <3>4 DEF NextAddressIsFresh
    <2> QED BY <2>4, <2>5
<1> QED BY <1>1, PrototypeInvHolds, PTL

\* A balance counts every output of the account within a batch of its first unused
\* address, whatever is paid between its requests and however far apart the
\* payments are (ClientWallet's balance and deriveAddressSet).
THEOREM FundsAreCounted == PrototypeSpec => []FundsAreFound
<1>1. PrototypeInv => FundsAreFound
    <2> SUFFICES ASSUME PrototypeInv, call.fn = "balance", call.outcome = "resolved"
                 PROVE  FundsAreFound
        BY DEF FundsAreFound
    <2>1. ledger \in Seq(Transfer) /\ call.since \in 0..Len(ledger) /\ FundsFollow(ledger, call)
        BY DEF PrototypeInv, LedgerInv, CallFollows, CallTyped, Calls
    <2>2. \A a : WithinReach(a, call.since) <=> Near(ledger, call.since, a)
        BY <2>1, UsedMeansReached DEF WithinReach, Near
    <2>3. \A p : AddressOf(p) = PaysTo(ledger, p)
        BY LedgerTerms
    <2>4. Unspent(call.queried) = UnspentBy(ledger, call.queried)
        BY LedgerTerms
    <2> QED BY <2>1, <2>2, <2>3, <2>4 DEF FundsFollow, FundsAreFound
<1> QED BY <1>1, PrototypeInvHolds, PTL

\* Every input is witnessed by the key of an address that its transaction paid to,
\* however many outputs the transaction has for the account: the address is looked
\* up among what the provider answered, by the transaction only (RustBccPrimitives).
THEOREM WitnessesFit == PrototypeSpec => []WitnessesUnlockInputs
<1>1. PrototypeInv => WitnessesUnlockInputs
    <2> SUFFICES ASSUME PrototypeInv, call.outcome = "signed", NEW i \in call.inputs
                 PROVE  \E p \in call.answer : p.id = i.pointer.id /\ AddressOf(p) \in call.witnesses
        BY DEF WitnessesUnlockInputs
    <2>1. /\ call.witnesses = {s.addressing : s \in call.inputs}
          /\ \E r \in call.answer : r.id = i.pointer.id /\ i.addressing = PaysTo(ledger, r)
        BY DEF PrototypeInv, CallFollows, SignedFollows, InputsFollow
    <2> QED BY <2>1, LedgerTerms
<1> QED BY <1>1, PrototypeInvHolds, PTL

\* No scan ends without an address: a batch that a transaction concerns without
\* paying to it would have none, and its address would be read at index -2
\* (getNextAddressByType).
THEOREM ScansFindAnAddress == PrototypeSpec => []ScanFindsAddress
<1>1. PrototypeInv => ScanFindsAddress
    BY DEF PrototypeInv, CallFollows, CallTyped, ScanFindsAddress
<1> QED BY <1>1, PrototypeInvHolds, PTL

-----------------------------------------------------------------------------
(* PrototypeWallet: the indices of a call stay within what the chain reached *)

\* An index right behind one that was reached, or none.
Behind(txs, i) == i = 0 \/ \E type \in Types : Reached(txs, Len(txs), type, i - 1)

\* The indices of a call are right behind ones the chain has reached, its inputs
\* are outputs of the chain, and it has an await left until it settles.
IndicesInv ==
    /\ Len(ledger) <= MaxTx
    /\ Behind(ledger, call.lower) /\ Behind(ledger, call.external)
    /\ Behind(ledger, call.internal) /\ Behind(ledger, call.change)
    /\ call.fn \in Fns => call.step \in 1..Len(Plan[call.fn])
    /\ \A s \in call.inputs :
          /\ s.pointer \in MadeBy(ledger, Len(ledger))
          /\ \E type \in Types : Reached(ledger, Len(ledger), type, s.addressing.index)

\* How a step of the call, which leaves the chain, changes what the invariant is about.
IndicesMove(c) ==
    /\ Behind(ledger, c.lower) /\ Behind(ledger, c.external)
    /\ Behind(ledger, c.internal) /\ Behind(ledger, c.change)
    /\ c.fn \in Fns => c.step \in 1..Len(Plan[c.fn])
    /\ \/ c.inputs \subseteq call.inputs
       \/ c.fn = "selectInputsForTransaction" /\ c.outcome = "resolved"

\* A function has one, three or four awaits.
LEMMA PlanLengths == \A f \in Fns : Len(Plan[f]) \in {1, 3, 4}
<1>1. /\ Len(<<"external">>) = 1 /\ Len(<<"internal">>) = 1
      /\ Len(<<"external", "internal", "utxos">>) = 3
      /\ Len(<<"external", "internal", "history">>) = 3
      /\ Len(<<"external", "internal", "utxos", "change">>) = 4
    OBVIOUS
<1> QED BY <1>1, PlanIs DEF Fns

\* What a call that goes on keeps, besides what ContinueIs says.
LEMMA ContinueKeeps ==
    ASSUME call \in Calls, NEW r \in Calls
    PROVE  LET c == Continue(r)
           IN /\ c.change = r.change /\ c.lower \in {r.lower, 0}
              /\ c.step = IF call.step = Len(Plan[call.fn]) THEN r.step ELSE call.step + 1
BY DEF Continue, Calls

\* A call that goes on has an await left.
LEMMA ContinueHasAwait ==
    ASSUME IndicesInv, CallTyped(ledger, call), call.outcome = "pending", NEW r \in Calls,
           r.fn = call.fn, r.step = call.step,
           Behind(ledger, r.lower), Behind(ledger, r.external), Behind(ledger, r.internal),
           Behind(ledger, r.change), r.inputs = call.inputs
    PROVE  IndicesMove(Continue(r))
<1> DEFINE c == Continue(r)
           n == Len(Plan[call.fn])
<1>1. /\ call \in Calls /\ call.fn \in Fns /\ call.step \in 1..n
    BY DEF CallTyped
<1>2. /\ c.fn = r.fn /\ c.external = r.external /\ c.internal = r.internal /\ c.inputs = r.inputs
      /\ c.change = r.change /\ c.lower \in {r.lower, 0}
      /\ c.step = IF call.step = n THEN r.step ELSE call.step + 1
    BY <1>1, ContinueIs, ContinueKeeps
<1>3. n \in Nat
    BY <1>1, PlanLengths
<1> HIDE DEF c, n
<1>4. c.step \in 1..n
    BY <1>1, <1>2, <1>3
<1> QED BY <1>2, <1>4 DEF IndicesMove, Behind, c, n

\* Where a scan stands is right behind an address that was reached.
LEMMA ScanIsBehind ==
    ASSUME LedgerInv, IndicesInv, CallTyped(ledger, call)
    PROVE  Behind(ledger, ScanBatch(ScannedBy(call), call.lower).index)
           \/ ScanBatch(ScannedBy(call), call.lower).found = "none"
<1> DEFINE scan == ScanBatch(ScannedBy(call), call.lower)
<1>1. ScannedBy(call) \in Types /\ call.lower \in Nat
    BY ScanTerms
<1>2. scan.found \in {"address", "none", "consumed"}
    BY <1>1, ScanFinds
<1>3. CASE scan.found = "consumed"
    <2>1. Reached(ledger, Len(ledger), ScannedBy(call), scan.index - 1)
        BY <1>1, <1>3, ScanFinds
    <2> QED BY <1>1, <2>1 DEF Behind
<1>4. CASE scan.found = "address"
    <2>1. scan.index # call.lower => Reached(ledger, Len(ledger), ScannedBy(call), scan.index - 1)
        BY <1>1, <1>4, ScanFinds
    <2> QED BY <1>1, <2>1 DEF Behind, IndicesInv
<1> QED BY <1>2, <1>3, <1>4

\* Inputs that are selected are outputs of the chain, at addresses it reached.
LEMMA SelectedAreReached ==
    ASSUME LedgerInv, NEW c, InputsFollow(ledger, c), c.fn = "selectInputsForTransaction",
           c.outcome = "resolved", NEW s \in c.inputs
    PROVE  /\ s.pointer \in MadeBy(ledger, Len(ledger))
           /\ \E type \in Types : Reached(ledger, Len(ledger), type, s.addressing.index)
<1>1. /\ c.answer \subseteq MadeBy(ledger, Len(ledger)) /\ s.pointer \in c.answer
      /\ \E r \in c.answer : s.addressing = PaysTo(ledger, r)
    BY DEF InputsFollow
<1>2. PICK r \in MadeBy(ledger, Len(ledger)) : s.addressing = PaysTo(ledger, r)
    BY <1>1
<1>3. ledger \in Seq(Transfer) /\ Len(ledger) \in Nat /\ Len(ledger) \in 0..Len(ledger)
    BY DEF LedgerInv
<1>4. /\ r.id \in 1..Len(ledger) /\ PaysTo(ledger, r) \in AccountAddress
      /\ Reached(ledger, r.id, PaysTo(ledger, r).type, PaysTo(ledger, r).index)
    BY <1>3, MadeByIs
<1>5. r.id \in Nat /\ r.id <= Len(ledger)
    BY <1>3, <1>4
<1>6. Reached(ledger, Len(ledger), PaysTo(ledger, r).type, PaysTo(ledger, r).index)
    BY <1>3, <1>4, <1>5, ReachedLater
<1>7. PaysTo(ledger, r).type \in Types
    BY <1>4 DEF AccountAddress, Types
<1> QED BY <1>1, <1>2, <1>6, <1>7

\* A step of the client wallet moves the indices of its call as stated.
LEMMA ClientMovesIndices ==
    ASSUME PrototypeInv, IndicesInv, ClientWalletStep
    PROVE  IndicesMove(call')
<1>1. /\ LedgerInv /\ CallFollows(ledger, call) /\ CallTyped(ledger, call) /\ call \in Calls
      /\ IndicesMove(call)
    BY DEF PrototypeInv, CallFollows, CallTyped, IndicesInv, IndicesMove
<1>2. ASSUME NEW f \in Fns, NEW payment \in {0, 1}, Begin(f, payment) PROVE IndicesMove(call')
    <2>1. /\ call'.lower = 0 /\ call'.external = 0 /\ call'.internal = 0 /\ call'.change = 0
          /\ call'.inputs = {} /\ call'.fn = f /\ call'.step = 1
        BY <1>2 DEF Begin, Idle
    <2>2. 1 \in 1..Len(Plan[f])
        BY PlanLengths
    <2> QED BY <2>1, <2>2 DEF IndicesMove, Behind
<1> DEFINE scan == ScanBatch(ScannedBy(call), call.lower)
<1>3. scan.index \in Nat /\ (Behind(ledger, scan.index) \/ scan.found = "none")
    BY <1>1, ScanIsBehind, ScanFinds, ScanTerms
<1> HIDE DEF scan
<1>4. CASE Consumed
    <2>1. scan.found = "consumed" /\ call' = [call EXCEPT !.lower = scan.index]
        BY <1>1, <1>4, ScanTerms DEF Consumed, scan
    <2>2. /\ call'.lower = scan.index /\ call'.external = call.external /\ call'.internal = call.internal
          /\ call'.change = call.change /\ call'.inputs = call.inputs /\ call'.fn = call.fn
          /\ call'.step = call.step
        BY <1>1, <2>1 DEF Calls
    <2>3. Behind(ledger, scan.index)
        BY <1>3, <2>1
    <2> QED BY <1>1, <2>2, <2>3 DEF IndicesMove
<1>5. ASSUME NEW o, NEW w, \/ call' = [call EXCEPT !.outcome = o]
                           \/ call' = [call EXCEPT !.outcome = o, !.witnesses = w]
      PROVE  IndicesMove(call')
    <2>1. /\ call'.lower = call.lower /\ call'.external = call.external /\ call'.internal = call.internal
          /\ call'.change = call.change /\ call'.inputs = call.inputs /\ call'.fn = call.fn
          /\ call'.step = call.step
        BY <1>1, <1>5 DEF Calls
    <2> QED BY <1>1, <2>1 DEF IndicesMove
<1>6. CASE NextAddress
    <2>1. /\ call.outcome = "pending" /\ StepOf(call) \in {"external", "internal", "change"}
          /\ IF scan.found = "none" THEN call' = [call EXCEPT !.outcome = "TypeError"]
             ELSE IF StepOf(call) = "change" THEN InputSelection(scan.index)
             ELSE call' = Continue([call EXCEPT ![StepOf(call)] = scan.index])
        BY <1>1, <1>6, ScanTerms DEF NextAddress, Awaits, scan
    <2>2. CASE scan.found = "none"
        BY <1>5, <2>1, <2>2
    <2>3. CASE scan.found # "none" /\ StepOf(call) \in {"external", "internal"}
        <3>1. PICK r : r = [call EXCEPT ![StepOf(call)] = scan.index]
            OBVIOUS
        <3>2. /\ r \in Calls /\ r.fn = call.fn /\ r.step = call.step /\ r.lower = call.lower
              /\ r.external \in {call.external, scan.index} /\ r.internal \in {call.internal, scan.index}
              /\ r.change = call.change /\ r.inputs = call.inputs
            <4>1. CASE StepOf(call) = "external"
                <5>1. r = [call EXCEPT !.external = scan.index]
                    BY <3>1, <4>1
                <5> QED BY <1>1, <1>3, <5>1 DEF Calls
            <4>2. CASE StepOf(call) = "internal"
                <5>1. r = [call EXCEPT !.internal = scan.index]
                    BY <3>1, <4>2
                <5> QED BY <1>1, <1>3, <5>1 DEF Calls
            <4> QED BY <2>3, <4>1, <4>2
        <3>3. Behind(ledger, scan.index)
            BY <1>3, <2>3
        <3>4. call' = Continue(r)
            BY <2>1, <2>3, <3>1
        <3>5. /\ Behind(ledger, r.lower) /\ Behind(ledger, r.external) /\ Behind(ledger, r.internal)
              /\ Behind(ledger, r.change)
            BY <3>2, <3>3 DEF IndicesInv
        <3> QED BY <1>1, <2>1, <3>2, <3>4, <3>5, ContinueHasAwait
    <2>4. CASE scan.found # "none" /\ StepOf(call) = "change"
        <3>1. InputSelection(scan.index) /\ Behind(ledger, scan.index)
            BY <1>3, <2>1, <2>4
        <3>2. CASE call' = [call EXCEPT !.outcome = "NotEnoughInput"]
            BY <1>5, <3>2
        <3>3. CASE \E selected : call' = Continue([call EXCEPT !.change = scan.index, !.inputs = selected])
            <4>1. PICK selected : call' = Continue([call EXCEPT !.change = scan.index, !.inputs = selected])
                BY <3>3
            <4>2. call.step = Len(Plan[call.fn]) /\ call.fn = "selectInputsForTransaction"
                BY <1>1, <2>1, <2>4, StepsAre
            <4>3. call' = [[call EXCEPT !.change = scan.index, !.inputs = selected] EXCEPT !.outcome = "resolved"]
                BY <4>1, <4>2 DEF Continue
            <4>4. /\ call'.lower = call.lower /\ call'.external = call.external
                  /\ call'.internal = call.internal /\ call'.change = scan.index /\ call'.fn = call.fn
                  /\ call'.step = call.step /\ call'.outcome = "resolved"
                BY <1>1, <4>3 DEF Calls
            <4> QED BY <1>1, <3>1, <4>2, <4>4 DEF IndicesMove
        <3> QED BY <3>1, <3>2, <3>3 DEF InputSelection
    <2> QED BY <2>1, <2>2, <2>3, <2>4
<1>7. CASE Queried
    <2>1. /\ call.outcome = "pending"
          /\ \E answer : call' = Continue([call EXCEPT !.answer = answer, !.queried = Len(ledger)])
        BY <1>7 DEF Queried, Awaits
    <2>2. PICK answer : call' = Continue([call EXCEPT !.answer = answer, !.queried = Len(ledger)])
        BY <2>1
    <2>3. PICK r : r = [call EXCEPT !.answer = answer, !.queried = Len(ledger)]
        OBVIOUS
    <2>4. /\ call'.lower \in {call.lower, 0} /\ call'.external = call.external
          /\ call'.internal = call.internal /\ call'.change = call.change /\ call'.fn = call.fn
          /\ call'.inputs = call.inputs
          /\ call'.step = IF call.step = Len(Plan[call.fn]) THEN call.step ELSE call.step + 1
        BY <1>1, <2>2 DEF Continue, Calls
    <2>5. call.fn \in Fns /\ call.step \in 1..Len(Plan[call.fn])
        BY <1>1, <2>1 DEF CallTyped
    <2>6. call'.step \in 1..Len(Plan[call.fn])
        <3>1. Len(Plan[call.fn]) \in Nat
            BY <2>5, PlanLengths
        <3> QED BY <2>4, <2>5, <3>1
    <2> QED BY <1>1, <2>4, <2>6 DEF IndicesMove, Behind
<1>8. CASE RequestFails \/ SignInMemory \/ SignWithLedger
    BY <1>5, <1>8 DEF RequestFails, SignInMemory, SignWithLedger, AddWitnesses
<1>9. ClientWalletStep =>
          \/ \E f \in Fns, payment \in {0, 1} : Begin(f, payment)
          \/ Consumed \/ NextAddress \/ Queried \/ RequestFails
          \/ SignInMemory \/ SignWithLedger
    BY PlanIs DEF ClientWalletStep
<1> QED BY <1>2, <1>4, <1>6, <1>7, <1>8, <1>9

\* The indices follow the chain in every step.
LEMMA NextIndicesInv ==
    ASSUME PrototypeInv, IndicesInv, PrototypeNext, PrototypeInv'
    PROVE  IndicesInv'
<1>1. CASE AddTransaction
    <2>1. PICK tx \in Transfer : ledger' = Append(ledger, tx)
        BY <1>1, LedgerGrows DEF PrototypeInv
    <2>2. /\ ledger \in Seq(Transfer) /\ Len(ledger) \in Nat /\ Len(ledger) < MaxTx /\ call' = call
        BY <1>1 DEF PrototypeInv, LedgerInv, AddTransaction
    <2>3. /\ Len(ledger') = Len(ledger) + 1
          /\ \A type, i : Reached(ledger, Len(ledger), type, i) => Reached(ledger', Len(ledger'), type, i)
        BY <2>1, <2>2, ReachedByMore
    <2>4. \A p \in MadeBy(ledger, Len(ledger)) : p \in MadeBy(ledger', Len(ledger'))
        <3>1. Len(ledger) \in 0..Len(ledger)
            BY <2>2
        <3> QED BY <2>1, <2>2, <2>3, <3>1, UnspentByMore
    <2>5. Len(ledger') <= MaxTx
        BY <2>2, <2>3, PrototypeAssumption
    <2>6. \A i : Behind(ledger, i) => Behind(ledger', i)
        BY <2>3 DEF Behind
    <2> QED BY <2>2, <2>3, <2>4, <2>5, <2>6 DEF IndicesInv
<1>2. CASE ClientWalletStep
    <2>1. IndicesMove(call')
        BY <1>2, ClientMovesIndices
    <2>2. ledger' = ledger
        BY <1>2 DEF ClientWalletStep, Begin, Consumed, NextAddress, Queried, RequestFails, SignInMemory,
                    SignWithLedger, Signs
    <2>3. LedgerInv /\ InputsFollow(ledger, call')
        BY <2>2 DEF PrototypeInv, CallFollows
    <2>4. \A s \in call'.inputs :
              /\ s.pointer \in MadeBy(ledger, Len(ledger))
              /\ \E type \in Types : Reached(ledger, Len(ledger), type, s.addressing.index)
        <3>1. CASE call'.inputs \subseteq call.inputs
            BY <3>1 DEF IndicesInv
        <3>2. CASE call'.fn = "selectInputsForTransaction" /\ call'.outcome = "resolved"
            BY <2>3, <3>2, SelectedAreReached
        <3> QED BY <2>1, <3>1, <3>2 DEF IndicesMove
    <2> QED BY <2>1, <2>2, <2>4 DEF IndicesInv, IndicesMove
<1> QED BY <1>1, <1>2 DEF PrototypeNext

\* An index the chain has reached is below the bound: every transaction moves the
\* last one by at most Spread + 1.
LEMMA ReachedIsBounded ==
    ASSUME LedgerInv, Len(ledger) <= MaxTx, NEW type \in Types, NEW i \in Nat,
           Reached(ledger, Len(ledger), type, i)
    PROVE  i + 1 <= MaxTx * (Spread + 1) + ScanGap
<1>1. Len(ledger) \in Nat /\ MaxTx \in Nat /\ Spread \in Nat /\ ScanGap \in Nat
    BY PrototypeAssumption DEF LedgerInv
<1>2. PICK n \in Nat, m \in Nat : n = Len(ledger) * (Spread + 1) /\ m = MaxTx * (Spread + 1) /\ n <= m
    <2>1. \A a, b, c \in Nat : a <= b => a * c \in Nat /\ b * c \in Nat /\ a * c <= b * c
        OBVIOUS
    <2>2. Spread + 1 \in Nat
        BY <1>1
    <2> QED BY <1>1, <2>1, <2>2
<1>3. i < n
    BY <1>2 DEF LedgerInv
<1> QED BY <1>1, <1>2, <1>3

\* The call has its type, its scans stay within the addresses in use and one
\* batch, and it has an await left until it settles.
THEOREM PrototypeTypeCorrect == PrototypeSpec => []PrototypeTypeOK
<1>1. PrototypeInv /\ IndicesInv => PrototypeTypeOK
    <2> SUFFICES ASSUME PrototypeInv, IndicesInv PROVE PrototypeTypeOK
        OBVIOUS
    <2> DEFINE bound == MaxTx * (Spread + 1) + ScanGap
    <2>1. LedgerInv /\ call \in Calls /\ Len(ledger) <= MaxTx
        BY DEF PrototypeInv, CallFollows, CallTyped, IndicesInv
    <2>2. bound \in Nat
        <3>1. \A a, b \in Nat : a * b \in Nat
            OBVIOUS
        <3>2. MaxTx \in Nat /\ Spread + 1 \in Nat /\ ScanGap \in Nat
            BY PrototypeAssumption
        <3>3. PICK B \in Nat : B = MaxTx * (Spread + 1)
            BY <3>1, <3>2
        <3> QED BY <3>2, <3>3
    <2>3. ASSUME NEW type \in Types, NEW i \in Nat, Reached(ledger, Len(ledger), type, i)
          PROVE  i + 1 <= bound
        BY <2>1, <2>3, ReachedIsBounded
    <2> HIDE DEF bound
    <2>4. ASSUME NEW i \in Nat, Behind(ledger, i) PROVE i \in 0..bound
        <3>1. CASE i = 0
            BY <2>2, <3>1
        <3>2. CASE i # 0
            <4>1. PICK type \in Types : Reached(ledger, Len(ledger), type, i - 1)
                BY <2>4, <3>2 DEF Behind
            <4>2. i - 1 \in Nat /\ (i - 1) + 1 = i
                BY <3>2
            <4>3. (i - 1) + 1 <= bound
                BY <2>3, <4>1, <4>2
            <4> QED BY <2>2, <4>2, <4>3
        <3> QED BY <3>1, <3>2
    <2>5. {call.lower, call.external, call.internal, call.change} \subseteq 0..bound
        <3>1. call.lower \in Nat /\ call.external \in Nat /\ call.internal \in Nat /\ call.change \in Nat
            BY <2>1 DEF Calls
        <3>2. /\ Behind(ledger, call.lower) /\ Behind(ledger, call.external)
              /\ Behind(ledger, call.internal) /\ Behind(ledger, call.change)
            BY DEF IndicesInv
        <3> QED BY <2>4, <3>1, <3>2
    <2>6. ASSUME NEW s \in call.inputs
          PROVE  s.pointer \in Made(Len(ledger)) /\ s.addressing.index \in 0..bound
        <3>1. s.pointer \in MadeBy(ledger, Len(ledger))
            BY DEF IndicesInv
        <3>2. PICK type \in Types : Reached(ledger, Len(ledger), type, s.addressing.index)
            BY DEF IndicesInv
        <3>3. s.addressing.index \in Nat
            BY <2>1 DEF Calls, SelectedOutputs, AccountAddress
        <3>4. s.addressing.index + 1 <= bound
            BY <2>3, <3>2, <3>3
        <3> QED BY <2>2, <3>1, <3>3, <3>4, LedgerTerms
    <2>7. call.fn \in DOMAIN Plan => call.step \in DOMAIN Plan[call.fn]
        <3>1. \A f \in Fns : DOMAIN Plan[f] = 1..Len(Plan[f])
            BY PlanIs DEF Fns
        <3> QED BY <3>1, PlanIs DEF IndicesInv
    <2>8. call.outcome \in {"idle", "pending", "resolved", "failed", "NotEnoughInput",
                            "TypeError", "signed", "InsufficientData"}
        BY <2>1 DEF Calls, Outcomes
    <2> QED BY <2>5, <2>6, <2>7, <2>8 DEF PrototypeTypeOK, bound
<1>2. PrototypeInit => IndicesInv
    <2>1. SUFFICES ASSUME ledger = <<>>, call = Idle PROVE IndicesInv
        BY DEF PrototypeInit
    <2>2. Len(ledger) = 0 /\ 0 <= MaxTx
        BY <2>1, PrototypeAssumption
    <2>3. /\ call.lower = 0 /\ call.external = 0 /\ call.internal = 0 /\ call.change = 0
          /\ call.inputs = {} /\ call.fn = "none"
        BY <2>1 DEF Idle
    <2> QED BY <2>2, <2>3 DEF IndicesInv, Behind, Fns
<1>3. PrototypeInv /\ IndicesInv /\ [PrototypeNext]_prototypeVars /\ PrototypeInv' => IndicesInv'
    <2>1. IndicesInv /\ UNCHANGED prototypeVars => IndicesInv'
        BY DEF IndicesInv, prototypeVars
    <2> QED BY <2>1, NextIndicesInv
<1> QED BY <1>1, <1>2, <1>3, PrototypeInvHolds, PTL DEF PrototypeSpec

==============================================================================
