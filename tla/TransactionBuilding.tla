------------------------- MODULE TransactionBuilding -------------------------
(***************************************************************************)
(* Building and signing a transaction (packages/wallet): initializeTx and  *)
(* signTx of SingleAddressWallet.ts, createTransactionInternals.ts,        *)
(* computeImplicitCoin.ts, CertificateFactory.ts, withdrawal.ts and        *)
(* KeyManagement/InMemoryKeyManager.ts.                                    *)
(*                                                                         *)
(* The caller orders its certificates of the factory first.  Values are    *)
(* coins.  The selection is what computeChangeAndAdjustForFee (cip2) makes *)
(* of any entries drawn; keys and the addresses they lock are derivation   *)
(* paths; the size of a body is the number of its parts.                   *)
(***************************************************************************)
EXTENDS Naturals, Sequences, SequencesExt, FiniteSets, FiniteSetsExt

CONSTANTS
    StakeKeyDeposit, PoolDeposit,  \* of the protocol parameters
    RewardAddress,                 \* stake addresses of withdrawals
    Quantity,                      \* bound: quantities of withdrawals and outputs
    Entry,                         \* bound: coins of the entries of the repository
    MaxParts,                      \* bound: certificates, and withdrawals, of a request
    MaxSlot,                       \* bound: slot of the tip
    Undefined                      \* the JavaScript value

CertificateKind == {"stakeRegistration", "stakeDeregistration", "poolRegistration",
                    "poolRetirement", "stakeDelegation"}
RelayKind == {"singlehost-addr", "singlehost-addr with ipv6", "singlehost-name",
              "multihost-name", "unknown"}

ASSUME BuildingAssumption ==
    /\ StakeKeyDeposit \in Nat /\ PoolDeposit \in Nat /\ MaxSlot \in Nat
    /\ MaxParts \in Nat
    /\ IsFiniteSet(RewardAddress) /\ IsFiniteSet(Quantity) /\ Quantity \subseteq Nat
    /\ IsFiniteSet(Entry) /\ Entry \subseteq Nat
    /\ Undefined \notin Nat

VARIABLES
    stage,      \* "ordering", "called", "tipRead", "selected", "built", "signed", "failed"
    orders,     \* the calls of the factory the caller has yet to make
    request,    \* the props of initializeTx
    validity,   \* the validity interval of the transaction
    implicit,   \* the implicit coin: deposit and input
    selection,  \* inputs, outputs, change and fee
    body,       \* the transaction body
    witnesses   \* the keys that signed it

vars == <<stage, orders, request, validity, implicit, selection, body, witnesses>>

-----------------------------------------------------------------------------
(* Keys and addresses. *)

\* deriveAddress: a payment key of the account, by its role and its index.
DeriveAddress(addressIndex, index) == <<index, addressIndex>>

\* privateParentKey, with which signTransaction makes the only witness.
PrivateParentKey == <<0, 0>>

\* Where the change goes, and where the repository looks for entries.
WalletAddress == DeriveAddress(0, 0)
RepositoryAddress == DeriveAddress(1, 0)

-----------------------------------------------------------------------------
(* Certificates and their implicit coin. *)

\* A call of the factory: what it is to make, and the relays of a pool.  Bound:
\* a pool has at most one relay.
Order ==
    [kind : CertificateKind \ {"poolRegistration"}, relays : {{}}]
        \cup [kind : {"poolRegistration"}, relays : {{}} \cup {{relay} : relay \in RelayKind}]

\* The factory throws for relays it cannot convert.
CanCreate(order) == order.relays \cap {"singlehost-addr with ipv6", "unknown"} = {}

DepositOf(kind) ==
    CASE kind = "stakeRegistration" -> StakeKeyDeposit
      [] kind = "poolRegistration" -> PoolDeposit
      [] OTHER -> 0

\* Mutant: the deposit of a retired pool is not reclaimed.
StakeReclaimOf(kind) == IF kind = "stakeDeregistration" THEN StakeKeyDeposit ELSE 0

ReclaimOf(kind) ==
    CASE kind = "stakeDeregistration" -> StakeKeyDeposit
      [] kind = "poolRetirement" -> PoolDeposit
      [] OTHER -> 0

ListOf(field) == IF field = Undefined THEN <<>> ELSE field

\* BigIntMath.sum over the mapped list.
SumOf(list) == SumFunctionOnSet(list, DOMAIN list)

WithdrawalsTotal(withdrawals) ==
    SumOf([i \in DOMAIN ListOf(withdrawals) |-> withdrawals[i].quantity])

ComputeImplicitCoin(props) ==
    LET certificates == ListOf(props.certificates) IN
    [deposit |-> SumOf([i \in DOMAIN certificates |-> DepositOf(certificates[i])]),
     input |-> WithdrawalsTotal(props.withdrawals)
                 + SumOf([i \in DOMAIN certificates |-> ReclaimOf(certificates[i])])]

-----------------------------------------------------------------------------
(* The body. *)

\* Inserting into the library's map of withdrawals replaces an earlier one of
\* the same address.
WithdrawalMap(withdrawals) ==
    {withdrawals[i] : i \in {i \in DOMAIN withdrawals :
        \A j \in DOMAIN withdrawals : withdrawals[j].address = withdrawals[i].address => j <= i}}

\* A validity bound of zero is no bound.
Bound(slot) == IF slot = 0 THEN Undefined ELSE slot

CreateTransactionInternals(sel, interval, certificates, withdrawals) ==
    [inputs |-> sel.inputs,
     outputs |-> sel.outputs \o [i \in DOMAIN sel.change |->
                                    [address |-> WalletAddress, coins |-> sel.change[i]]],
     fee |-> sel.fee,
     ttl |-> Bound(interval.invalidHereafter),
     start |-> Bound(interval.invalidBefore),
     certificates |-> ListOf(certificates),
     withdrawals |-> WithdrawalMap(ListOf(withdrawals))]

SizeOf(b) == Cardinality(b.inputs) + Len(b.outputs) + Len(b.certificates) + Cardinality(b.withdrawals)

\* buildTx of the selection constraints: what the fee is computed from.
BuildTx(sel) == CreateTransactionInternals(sel, validity, Undefined, Undefined)

-----------------------------------------------------------------------------
(* initializeTx and signTx. *)

\* The spread: a bound that is given replaces the default, also when it is
\* undefined.
EnsureValidityInterval(slot, interval) ==
    [invalidHereafter |-> IF "invalidHereafter" \in DOMAIN interval
                          THEN interval.invalidHereafter ELSE slot + 3600,
     invalidBefore |-> IF "invalidBefore" \in DOMAIN interval
                       THEN interval.invalidBefore ELSE Undefined]

Interval == {<<>>} \cup [invalidHereafter : {0, 1, Undefined}]
                   \cup [invalidBefore : {0, 1}]

Request ==
    [outputs : {<<[address |-> <<>>, coins |-> q]>> : q \in Quantity},
     certificates : {Undefined} \cup BoundedSeq(CertificateKind, MaxParts),
     withdrawals : {Undefined} \cup BoundedSeq([address : RewardAddress, quantity : Quantity], MaxParts),
     interval : Interval]

Nothing == [inputs |-> {}, outputs |-> <<>>, change |-> <<>>, fee |-> 0]

Init ==
    /\ stage = "ordering"
    /\ orders \in {Undefined} \cup BoundedSeq(Order, MaxParts)
    /\ request \in {r \in Request : r.certificates = Undefined}
    /\ validity = <<>>
    /\ implicit = [deposit |-> 0, input |-> 0]
    /\ selection = Nothing
    /\ body = <<>>
    /\ witnesses = {}

\* The caller has its certificates made, if it wants any, and calls initializeTx.
CreateCertificates ==
    /\ stage = "ordering"
    /\ \A i \in DOMAIN ListOf(orders) : CanCreate(orders[i])
    /\ stage' = "called"
    /\ request' = IF orders = Undefined THEN request
                  ELSE [request EXCEPT !.certificates = [i \in DOMAIN orders |-> orders[i].kind]]
    /\ orders' = Undefined
    /\ UNCHANGED <<validity, implicit, selection, body, witnesses>>

\* One of them throws, and there is nothing to call initializeTx with.
FactoryThrows ==
    /\ stage = "ordering"
    /\ \E i \in DOMAIN ListOf(orders) : ~ CanCreate(orders[i])
    /\ stage' = "failed"
    /\ UNCHANGED <<orders, request, validity, implicit, selection, body, witnesses>>

\* ledgerTip answers, and everything up to selectInputs is computed at once.
TipRead(slot) ==
    /\ stage = "called"
    /\ stage' = "tipRead"
    /\ validity' = EnsureValidityInterval(slot, request.interval)
    /\ implicit' = ComputeImplicitCoin(request)
    /\ UNCHANGED <<orders, request, selection, body, witnesses>>

Coins(entries) == SumFunctionOnSet([e \in entries |-> e.coins], entries)
Paid(outputs) == SumOf([i \in DOMAIN outputs |-> outputs[i].coins])

\* The entries the repository may hold, all at the address it asks for.
RepositoryEntries ==
    {[id |-> n, coins |-> c, address |-> RepositoryAddress] : n \in 1..2, c \in Entry}

\* What the entries and the implicit input leave over.
Rest(entries, fee) ==
    Coins(entries) + implicit.input - (Paid(request.outputs) + implicit.deposit + fee)

\* One output has one change bundle, and an empty one is filtered out.
ChangeOf(rest) == IF rest = 0 THEN <<>> ELSE <<rest>>

\* computeMinimumCost of the entries, with change that includes the fee.
FeeOf(entries) ==
    SizeOf(BuildTx([inputs |-> entries, outputs |-> request.outputs,
                    change |-> ChangeOf(Rest(entries, 0)), fee |-> 0]))

\* selectInputs resolves: the fee is that of the costed entries, which cover it;
\* extra entries may be drawn later, for change that is too small without the
\* fee, and the fee stays what it was.
SelectInputs(costed, extra) ==
    LET entries == costed \cup extra
        fee == FeeOf(costed)
    IN /\ stage = "tipRead"
       /\ Cardinality({e.id : e \in entries}) = Cardinality(entries)
       /\ Rest(costed, 0) >= fee
       /\ selection' = [inputs |-> entries, outputs |-> request.outputs,
                        change |-> ChangeOf(Rest(entries, fee)), fee |-> fee]
       /\ stage' = "selected"
       /\ UNCHANGED <<orders, request, validity, implicit, body, witnesses>>

\* Mutant: the certificates are added to the final body only.
BuildWithCertificates ==
    /\ stage = "selected"
    /\ stage' = "built"
    /\ body' = CreateTransactionInternals(selection, validity, request.certificates, Undefined)
    /\ UNCHANGED <<orders, request, validity, implicit, selection, witnesses>>

\* The body is built from the selection, without the certificates and the
\* withdrawals of the request.
Build ==
    /\ stage = "selected"
    /\ stage' = "built"
    /\ body' = CreateTransactionInternals(selection, validity, Undefined, Undefined)
    /\ UNCHANGED <<orders, request, validity, implicit, selection, witnesses>>

SignTx ==
    /\ stage = "built"
    /\ stage' = "signed"
    /\ witnesses' = {PrivateParentKey}
    /\ UNCHANGED <<orders, request, validity, implicit, selection, body>>

\* The tip or the selection is rejected.
Rejected ==
    /\ stage \in {"called", "tipRead"}
    /\ stage' = "failed"
    /\ UNCHANGED <<orders, request, validity, implicit, selection, body, witnesses>>

Next ==
    \/ CreateCertificates
    \/ FactoryThrows
    \/ \E slot \in 0..MaxSlot : TipRead(slot)
    \/ \E costed, extra \in SUBSET RepositoryEntries : SelectInputs(costed, extra)
    \/ Build
    \/ SignTx
    \/ Rejected

Spec == Init /\ [][Next]_vars

-----------------------------------------------------------------------------
(* What the ledger asks of a transaction. *)

\* get_implicit_input and get_deposit of the serialization library, of a body.
Count(b, kind) == Cardinality({i \in DOMAIN b.certificates : b.certificates[i] = kind})

LibraryDeposit(b) ==
    StakeKeyDeposit * Count(b, "stakeRegistration") + PoolDeposit * Count(b, "poolRegistration")
LibraryImplicitInput(b) ==
    SumFunctionOnSet([w \in b.withdrawals |-> w.quantity], b.withdrawals)
    + StakeKeyDeposit * Count(b, "stakeDeregistration") + PoolDeposit * Count(b, "poolRetirement")

ValuePreserved(b) ==
    Coins(b.inputs) + LibraryImplicitInput(b) = Paid(b.outputs) + b.fee + LibraryDeposit(b)

OnePerAddress(withdrawals) ==
    \A i, j \in DOMAIN withdrawals : withdrawals[i].address = withdrawals[j].address => i = j

-----------------------------------------------------------------------------
\* The state has its type.
BuildingTypeOK ==
    /\ stage \in {"ordering", "called", "tipRead", "selected", "built", "signed", "failed"}
    /\ implicit \in [deposit : Nat, input : Nat]
    /\ stage \in {"selected", "built", "signed"} => selection.fee \in Nat \ {0}
    /\ stage \in {"built", "signed"} => {body.ttl, body.start} \subseteq (Nat \ {0}) \cup {Undefined}
    /\ witnesses \subseteq {PrivateParentKey}

\* The implicit coin is what the serialization library computes from a body
\* that holds the same certificates and withdrawals, and such a body preserves
\* value: as long as no stake address is withdrawn from twice.
ImplicitCoinAsLibrary ==
    stage = "selected" /\ OnePerAddress(ListOf(request.withdrawals))
        => LET whole == CreateTransactionInternals(selection, validity, request.certificates,
                                                   request.withdrawals)
           IN /\ implicit = [deposit |-> LibraryDeposit(whole), input |-> LibraryImplicitInput(whole)]
              /\ ValuePreserved(whole)

\* The body initializeTx returns preserves value exactly when the implicit
\* input and the deposit that went into its selection cancel out: it is right
\* for a request without certificates and withdrawals, and not for one whose
\* coins they move.
PlainBodyPreservesValue ==
    stage = "built" => (ValuePreserved(body) <=> implicit.input = implicit.deposit)

\* Every transaction has the last slot the tracker needs to give it up, unless
\* the caller asked for no bound.
TransactionsExpire ==
    stage = "built" /\ body.ttl = Undefined
        => /\ "invalidHereafter" \in DOMAIN request.interval
           /\ request.interval.invalidHereafter \in {0, Undefined}

\* Every input of a signed transaction is witnessed by the key of its address,
\* as the ledger asks before anything is confirmed (InMemoryUtxoRepository.sync
\* and signTransaction).
InputsWitnessed == stage = "signed" => \A e \in body.inputs : e.address \in witnesses

\* The transaction made of a request with certificates or withdrawals preserves
\* value: the implicit coin its selection counted is in its body (initializeTx).
RequestPreservesValue ==
    stage = "signed" /\ ListOf(request.certificates) \o ListOf(request.withdrawals) # <<>>
        => ValuePreserved(body)
=============================================================================
