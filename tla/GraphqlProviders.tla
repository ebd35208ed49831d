--------------------------- MODULE GraphqlProviders ---------------------------
(***************************************************************************)
(* The two providers that speak GraphQL: the wallet provider of            *)
(* packages/bcc-graphql-db-sync (bccGraphqlDbSyncProvider.ts,              *)
(* BccGraphqlToCore.ts) and the stake pool search of packages/bcc-graphql  *)
(* (BccGraphQLStakePoolSearchProvider.ts).                                 *)
(*                                                                         *)
(* A GraphQL service answers a query with an object that has the keys of   *)
(* the query.  The code reads keys of its own choice: reading a part of a  *)
(* key that is not there is a TypeError, and five of the eight functions   *)
(* of the wallet provider reject whatever the service answers.             *)
(***************************************************************************)
EXTENDS ProviderCalls

\* The requests of each function of bccGraphqlDbSyncProvider, in their order.
DbSyncRequests(fn) ==
    CASE fn = "ledgerTip" -> <<"tip">>
      [] fn = "networkInfo" -> <<"networkInfo">>
      [] fn = "stakePoolStats" -> <<"currentEpoch", "active", "retired", "retiring">>
      [] fn = "submitTx" -> <<"submit">>
      [] fn = "utxoDelegationAndRewards" -> <<>>
      [] fn \in {"queryTransactionsByHashes", "queryTransactionsByAddresses"} -> <<"transactions">>
      [] fn = "currentWalletProtocolParameters" -> <<"protocolParams">>

\* The key of the answer the query asks for, an alias being a key.
AskedKey(kind) ==
    CASE kind = "active" -> "active"
      [] kind \in {"retired", "retiring"} -> "stakePools_aggregate"
      [] kind = "submit" -> "submitTransaction"
      [] kind = "transactions" -> "transactions"
      [] OTHER -> "bcc"

\* The key the code reads of it.
ReadKey(kind) ==
    CASE kind \in {"active", "retired", "retiring"} -> "stakePool_aggregate"
      [] kind = "submit" -> "hash"
      [] OTHER -> AskedKey(kind)

\* graphqlTransactionsToBccTxs and utxoDelegationAndRewards throw.
NotImplemented == {"utxoDelegationAndRewards", "queryTransactionsByHashes", "queryTransactionsByAddresses"}

\* Mutant: submitTx swallows the error.
SwallowsSubmitError(fn) == IF fn = "submitTx" THEN "resolved" ELSE "Error"

\* submitTx wraps every error in a ProviderError, the other functions none.
DbSyncError(fn) == IF fn = "submitTx" THEN "Unknown" ELSE "Error"

\* How a call whose requests are all answered ends.
DbSyncOutcome(fn) ==
    IF \/ fn \in NotImplemented
       \/ \E i \in DOMAIN DbSyncRequests(fn) :
            LET kind == DbSyncRequests(fn)[i] IN ReadKey(kind) # AskedKey(kind)
    THEN DbSyncError(fn)
    ELSE "resolved"

DbSyncChain == LET kinds == DbSyncRequests(call.fn)
               IN [i \in DOMAIN kinds |-> Request(kinds[i], NoArg, NoArg)]

DbSyncPending == call.provider = "dbsync" /\ call.outcome = "pending"
DbSyncOutstanding == IF DbSyncPending THEN SentOf(DbSyncChain) \ DOMAIN got ELSE {}

CallDbSync(fn, args) == Begin("dbsync", fn, args)

\* Retired and retiring pools are told apart by the epoch of the first answer.
DbSyncAnswer(r) ==
    /\ r \in DbSyncOutstanding
    /\ IF r.kind = "submit"
       THEN (\E t \in call.args : NodeAccepts(t)) /\ Received(r, epoch) /\ UNCHANGED call
       ELSE Receive(r, epoch)

DbSyncFails(r) ==
    /\ r \in DbSyncOutstanding
    /\ Settle(DbSyncError(call.fn), {})

DbSyncSettles ==
    /\ DbSyncPending
    /\ DbSyncOutstanding = {}
    /\ Settle(DbSyncOutcome(call.fn), {})

DbSyncStep ==
    \/ \E fn \in WalletFunction, t \in Tx : CallDbSync(fn, {t})
    \/ \E r \in DbSyncOutstanding : DbSyncAnswer(r) \/ DbSyncFails(r)
    \/ DbSyncSettles

-----------------------------------------------------------------------------
(* queryStakePools: pools whose fields hold the text, then pools whose      *)
(* metadata hold it, without the ids of the first answer.                   *)

ByFields == Request("byFields", NoArg, NoArg)
ByMetadata == Request("byMetadata", NoArg, NoArg)

SearchPending == call.provider = "search" /\ call.outcome = "pending"
SearchOutstanding == IF SearchPending THEN SentOf(<<ByFields, ByMetadata>>) \ DOMAIN got ELSE {}

FoundBy(key) == {p \in Pool : key \in matching[p]}

\* Mutant: the second query omits nothing.
WithoutOmit(r) == IF r = ByFields THEN FoundBy("fields") ELSE FoundBy("metadata")

SearchAnswerTo(r) ==
    IF r = ByFields THEN FoundBy("fields") ELSE FoundBy("metadata") \ got[ByFields]

QueryStakePools == Begin("search", "queryStakePools", {})

SearchAnswer(r) ==
    /\ r \in SearchOutstanding
    /\ Receive(r, SearchAnswerTo(r))

\* A failed request, or an answer without metrics, which the conversion reads.
SearchFails ==
    /\ SearchPending
    /\ Settle("Unknown", {})

SearchResolves ==
    /\ SearchPending
    /\ SearchOutstanding = {}
    /\ Settle("resolved", {})

SearchStep ==
    \/ QueryStakePools
    \/ \E r \in SearchOutstanding : SearchAnswer(r)
    \/ SearchFails
    \/ SearchResolves
=============================================================================
