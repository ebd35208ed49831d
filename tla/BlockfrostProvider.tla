-------------------------- MODULE BlockfrostProvider --------------------------
(***************************************************************************)
(* packages/blockfrost: blockfrostProvider.ts and BlockfrostToCore.ts.     *)
(*                                                                         *)
(* Wanted is the set of requests the code has sent given the answers it    *)
(* has: Promise.all sends requests together, a sequence of awaits sends    *)
(* one after another.  A rejected request rejects the call through         *)
(* toProviderError.  Names, quantities and dates are converted one by one  *)
(* and are left out: an output stands for its reference, address and       *)
(* value.                                                                  *)
(***************************************************************************)
EXTENDS ProviderCalls

CONSTANT PageSize   \* pools in a page of a listing: 100 in the code

ASSUME PageAssumption == PageSize \in Nat \ {0}

\* What a request can fail with, besides the 404 of what is not there: a text,
\* an object with a status_code, one with a numeric code with or without errno,
\* one with a code as ECONNREFUSED, any other object, a value of another type.
Failure == {"text", "status", "code", "codeOnly", "name", "object", "value"}

\* Mutant: a failed connection is taken for something that is not there.
ConnectionIsNotFound(failure) ==
    IF failure \in {"status404", "name"} THEN "NotFound" ELSE "Unknown"

\* formatBlockfrostError and toProviderError: what the promise rejects with.
\* Reading errno.toString() of an error without errno is a TypeError.
ToProviderError(failure) ==
    CASE failure = "status404" -> "NotFound"
      [] failure = "codeOnly" -> "Error"
      [] OTHER -> "Unknown"

-----------------------------------------------------------------------------
(* The requests of each function. *)

\* Mutant: only one of the addresses is asked for.
OneAddress(addresses) == {Request("addressUtxos", CHOOSE a \in addresses : TRUE, NoArg)}

UtxoRequests(addresses) == {Request("addressUtxos", a, NoArg) : a \in addresses}

\* Mutant: the account is part of the Promise.all.
AccountInParallel(addresses) ==
    UtxoRequests(addresses) \cup {Request("account", NoArg, NoArg)}

\* The requests of utxoDelegationAndRewards: the account after all addresses.
WantedUtxo(addresses) ==
    UtxoRequests(addresses)
        \cup (IF UtxoRequests(addresses) \subseteq DOMAIN got
              THEN {Request("account", NoArg, NoArg)} ELSE {})

\* Mutant: the updates are fetched by another count.
UpdatesByRetireCount(t) ==
    {kind \in CertificateKind : IF kind = "update" THEN "mir" \in Content[t] ELSE kind \in Content[t]}

\* The certificates are fetched by kind, each when the transaction counts
\* some; retirements by the count of the updates.
FetchedCertificates(t) ==
    {kind \in CertificateKind : IF kind = "retire" THEN "update" \in Content[t] ELSE kind \in Content[t]}

\* The awaits of fetchTransaction: outputs, the transaction with its counts,
\* then its parts.
FetchOrder == <<"utxos", "tx", "withdrawal", "retire", "update", "mir", "stake", "delegation", "redeemer">>

\* What is fetched of t.  A mint never is.
Fetched(t) ==
    {"utxos", "tx"} \cup FetchedCertificates(t) \cup (Content[t] \cap {"withdrawal", "redeemer"})

\* Each request of fetchTransaction is sent when the ones before are answered.
FetchTransaction(t, via) ==
    {Request(FetchOrder[i], t, via) : i \in
        {j \in DOMAIN FetchOrder :
            /\ FetchOrder[j] \in Fetched(t)
            /\ \A k \in 1..(j - 1) :
                FetchOrder[k] \in Fetched(t) => Request(FetchOrder[k], t, via) \in DOMAIN got}}

WantedTransactions(hashes, via) == UNION {FetchTransaction(t, via) : t \in hashes}

\* queryTransactionsByAddresses: the hashes of every address, then the
\* transactions, once for each address they were listed at.
WantedByAddresses(addresses) ==
    LET lists == {Request("addressTxs", a, NoArg) : a \in addresses} IN
    lists \cup (IF lists \subseteq DOMAIN got
                THEN UNION {WantedTransactions(got[Request("addressTxs", a, NoArg)], a) : a \in addresses}
                ELSE {})

\* Mutant: off by one at a full page.
LongerPage(count) == count > PageSize

\* tallyPools: a page that is full is followed by the next one.
FullPage(count) == count = PageSize

PagesOf(list) ==
    {p \in 1..(Cardinality(Pool) + 1) :
        \A k \in 1..(p - 1) : LET r == Request(list, k, NoArg) IN r \in DOMAIN got /\ FullPage(got[r])}

ListTallied(list) ==
    \E p \in PagesOf(list) :
        LET r == Request(list, p, NoArg) IN r \in DOMAIN got /\ ~FullPage(got[r])

Tally(list) ==
    SumFunctionOnSet([p \in PagesOf(list) |-> got[Request(list, p, NoArg)]], PagesOf(list))

\* The listings stakePoolStats tallies, one after another.
Listings == <<"pools", "poolsRetired", "poolsRetiring">>

WantedStats ==
    LET begun == {i \in DOMAIN Listings : \A k \in 1..(i - 1) : ListTallied(Listings[k])} IN
    UNION {{Request(Listings[i], p, NoArg) : p \in PagesOf(Listings[i])} : i \in begun}

SingleRequest(fn) ==
    CASE fn = "ledgerTip" -> "latest"
      [] fn = "submitTx" -> "submit"
      [] fn = "currentWalletProtocolParameters" -> "parameters"

Wanted ==
    CASE call.fn = "networkInfo" ->
            SentOf(<<Request("epoch", NoArg, NoArg), Request("network", NoArg, NoArg)>>)
      [] call.fn = "stakePoolStats" -> WantedStats
      [] call.fn = "utxoDelegationAndRewards" -> WantedUtxo(call.args)
      [] call.fn = "queryTransactionsByHashes" -> WantedTransactions(call.args, NoArg)
      [] call.fn = "queryTransactionsByAddresses" -> WantedByAddresses(call.args)
      [] call.fn = "submitTx" -> {Request("submit", t, NoArg) : t \in call.args}
      [] OTHER -> {Request(SingleRequest(call.fn), NoArg, NoArg)}

-----------------------------------------------------------------------------
(* The service. *)

PageOf(length, p) ==
    LET left == length - (p - 1) * PageSize IN
    IF left < 0 THEN 0 ELSE IF left > PageSize THEN PageSize ELSE left

\* The service answers 404 to what is not on the chain.
Missing(r) == r.kind \in PartKind \cup {"utxos", "tx"} /\ r.of \notin OnChain

AnswerTo(r) ==
    CASE r.kind = "addressUtxos" -> {o \in Unspent : AddressOf[o] = r.of}
      [] r.kind = "account" -> RewardBalance
      [] r.kind = "addressTxs" -> TransactionsAt(r.of)
      [] r.kind \in {"pools", "poolsRetired", "poolsRetiring"} -> PageOf(Moment[r.kind], r.of)
      [] r.kind = "utxos" -> [inputs |-> Inputs[r.of], outputs |-> Outputs[r.of]]
      [] r.kind \in {"tx", "latest"} -> tip
      [] r.kind \in {"epoch", "network", "parameters"} -> epoch
      [] OTHER -> r.of

Pending == call.provider = "blockfrost" /\ call.outcome = "pending"

Outstanding == IF Pending THEN Wanted \ DOMAIN got ELSE {}

\* A node takes or refuses a submitted transaction; every other request is
\* answered from what the service holds.
Answer(r) ==
    /\ r \in Outstanding
    /\ ~Missing(r)
    /\ IF r.kind = "submit"
       THEN NodeAccepts(r.of) /\ Received(r, r.of) /\ UNCHANGED call
       ELSE Receive(r, AnswerTo(r))

\* The transaction is accepted and the answer is lost.
SubmitAnswerLost(r) ==
    /\ r \in Outstanding
    /\ r.kind = "submit"
    /\ NodeAccepts(r.of)
    /\ call' = [call EXCEPT !.outcome = ToProviderError("name")]
    /\ UNCHANGED got

NotThere(r) ==
    /\ r \in Outstanding
    /\ Missing(r)
    /\ Settle(ToProviderError("status404"), {r.of})

Fails(r, failure) ==
    /\ r \in Outstanding
    /\ Settle(ToProviderError(failure), {})

Resolve ==
    /\ Pending
    /\ Outstanding = {}
    /\ Settle("resolved", {})

\* The arguments a wallet calls the functions with.
ArgumentsOf(fn) ==
    CASE fn = "submitTx" -> {{t} : t \in Tx}
      [] fn = "queryTransactionsByHashes" -> (SUBSET Tx) \ {{}}
      [] fn \in {"utxoDelegationAndRewards", "queryTransactionsByAddresses"} -> (SUBSET Address) \ {{}}
      [] OTHER -> {{}}

CallBlockfrost(fn, args) ==
    /\ args \in ArgumentsOf(fn)
    /\ Begin("blockfrost", fn, args)

BlockfrostStep ==
    \/ \E fn \in WalletFunction : \E args \in ArgumentsOf(fn) : CallBlockfrost(fn, args)
    \/ \E r \in Outstanding :
        \/ Answer(r) \/ SubmitAnswerLost(r) \/ NotThere(r)
        \/ \E failure \in Failure : Fails(r, failure)
    \/ Resolve

-----------------------------------------------------------------------------
(* What the call resolves to. *)

Resolved(provider, fn) == call.provider = provider /\ call.fn = fn /\ call.outcome = "resolved"

ReportedUtxo == UNION {got[r] : r \in UtxoRequests(call.args)}
ReportedRewards == got[Request("account", NoArg, NoArg)]

\* The parts reported of transaction t.
ReportedParts(t) == {r.kind : r \in {q \in DOMAIN got : q.of = t}} \cap PartKind

ReportedTransactions == {r \in DOMAIN got : r.kind = "tx"}
=============================================================================
