--------------------------- MODULE WalletProviders ---------------------------
(***************************************************************************)
(* The providers of the repository, each with one call, over services that *)
(* move between the requests of the call.                                  *)
(***************************************************************************)
EXTENDS BlockfrostProvider, GraphqlProviders

Init == CallInit

Next ==
    \/ ServicesMove
    \/ BlockfrostStep
    \/ DbSyncStep
    \/ SearchStep

Spec == Init /\ [][Next]_vars

-----------------------------------------------------------------------------
(* The state and every answer have their type. *)
ProvidersTypeOK ==
    /\ LedgerTypeOK
    /\ pools \in [Pool -> {"none", "registered", "retiring", "retired"}]
    /\ epoch \in 0..MaxEpoch
    /\ matching \in [Pool -> SUBSET {"fields", "metadata"}]
    /\ call.outcome \in Outcome
    /\ call.provider \in {"none", "blockfrost", "dbsync", "search"}
    /\ DOMAIN got \subseteq [kind : {r.kind : r \in DOMAIN got}, of : {r.of : r \in DOMAIN got},
                             via : {r.via : r \in DOMAIN got}]

-----------------------------------------------------------------------------
(* utxoDelegationAndRewards of Blockfrost. *)

\* The outputs are read before the account, so a withdrawal whose outputs are
\* reported is out of the reported rewards: unless the chain rolls back, the
\* rewards are those of a moment at which every transaction that made one of
\* the reported outputs was on the chain.  In the other order, the same coins
\* could be answered twice, as an output and as a reward.
RewardsNotCountedTwice ==
    Resolved("blockfrost", "utxoDelegationAndRewards") /\ rollbacks = call.rollbacks
        => \E m \in seen : /\ m.rewards = ReportedRewards
                           /\ \A t \in Tx : Outputs[t] \cap ReportedUtxo # {} => t \in m.onChain

\* The addresses are read one by one.  An output that was unspent during the
\* whole call is reported, and one that is reported was unspent at some moment
\* of it: what the chain does between two requests can only change outputs
\* that are being spent or created.
UtxoWasUnspent ==
    Resolved("blockfrost", "utxoDelegationAndRewards")
        => \A o \in TxIn : AddressOf[o] \in call.args =>
              /\ (\A m \in seen : o \in m.unspent) => o \in ReportedUtxo
              /\ o \in ReportedUtxo => \E m \in seen : o \in m.unspent

-----------------------------------------------------------------------------
(* Transactions of Blockfrost. *)

\* A resolved transaction carries every part the service counts, with two
\* exceptions: a mint is skipped, and the retirements of a transaction that
\* updates no pool are lost, as their count is not the one that is read.
TransactionsAreWhole ==
    call.provider = "blockfrost" /\ call.outcome = "resolved"
        => \A r \in ReportedTransactions :
              LET lost == IF "update" \in Content[r.of] THEN {"mint"} ELSE {"mint", "retire"}
              IN Content[r.of] \ lost \subseteq ReportedParts(r.of)

\* NotFound names an absence: some transaction the call asked for was off the
\* chain at a moment of the call, which includes one that a rollback removed
\* between the listing of an address and the request of its transactions.  And a
\* queried hash that is off the chain all along is never answered.
NotFoundMeansAbsent ==
    /\ call.outcome = "NotFound"
        => /\ call.refused # {}
           /\ \A t \in call.refused : \E m \in seen : t \notin m.onChain
    /\ Resolved("blockfrost", "queryTransactionsByHashes")
        => \A t \in call.args : \E m \in seen : t \in m.onChain

\* Every transaction that was at a queried address during the whole call is in
\* the answer, once for each of these addresses.
AddressHistoryIsReported ==
    Resolved("blockfrost", "queryTransactionsByAddresses")
        => \A t \in Tx, a \in call.args :
              (\E o \in Inputs[t] \cup Outputs[t] : AddressOf[o] = a) /\ (\A m \in seen : t \in m.onChain)
                  => Request("tx", t, a) \in ReportedTransactions

\* A submission that resolves was accepted by a node, with either provider; a
\* rejection promises nothing, and with the GraphQL one never means a refusal.
ResolvedMeansAccepted ==
    call.fn = "submitTx" /\ call.outcome = "resolved"
        => \A t \in call.args : \E m \in seen : t \in m.accepted

-----------------------------------------------------------------------------
(* stakePoolStats and networkInfo. *)

\* A tally over pages is a number of pools the list had at some moment, or lies
\* between two such numbers, however the list grows and shrinks meanwhile.
TallyWithinBounds ==
    Resolved("blockfrost", "stakePoolStats")
        => \A i \in DOMAIN Listings : \E m, n \in seen :
              m[Listings[i]] <= Tally(Listings[i]) /\ Tally(Listings[i]) <= n[Listings[i]]

\* Active pools are tallied before retired ones, so a pool that retires
\* meanwhile may be counted in both and is never missed in both.
NoPoolMissed ==
    Resolved("blockfrost", "stakePoolStats")
        => \E m \in seen : m.pools + m.poolsRetired <= Tally("pools") + Tally("poolsRetired")

-----------------------------------------------------------------------------
(* queryStakePools. *)

\* No pool is answered twice, and a pool that either query finds at every
\* moment of the call is answered, though the two are not of one moment.
PoolsFoundOnce ==
    Resolved("search", "queryStakePools")
        => /\ got[ByFields] \cap got[ByMetadata] = {}
           /\ \A p \in Pool, key \in {"fields", "metadata"} :
                 (\A m \in seen : key \in m.matching[p]) => p \in got[ByFields] \cup got[ByMetadata]
=============================================================================
