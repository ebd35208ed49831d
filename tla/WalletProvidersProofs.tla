------------------------ MODULE WalletProvidersProofs ------------------------
(***************************************************************************)
(* Theorems about WalletProviders: what one call may answer while the      *)
(* services move between its requests, for any chain, any number of        *)
(* addresses, transactions and pools, and any size of a page.              *)
(*                                                                         *)
(* The argument is the same throughout.  Every answer was true at some     *)
(* moment of the call (AnswersInv), the requests are those of the function *)
(* (RequestsInv), and a call that resolves has all the answers it needs    *)
(* (CompleteInv).  That no pool is missed rests on the order of the        *)
(* listings (OrderInv): a pool that was retired stays so (RegisterInv).    *)
(***************************************************************************)
EXTENDS WalletProviders, SumTheorems, TLAPS

ListKind == {"pools", "poolsRetired", "poolsRetiring"}

-----------------------------------------------------------------------------
(* The inductive invariant. *)

\* A call that is pending sees the present; one that is idle has no answers.
CallInv ==
    /\ LedgerTypeOK
    /\ call = [provider |-> call.provider, fn |-> call.fn, args |-> call.args,
               outcome |-> call.outcome, rollbacks |-> call.rollbacks,
               refused |-> call.refused]
    /\ call.outcome \in Outcome
    /\ call.rollbacks \in Nat /\ call.rollbacks <= rollbacks
    /\ call.outcome = "idle" => call.provider = "none" /\ DOMAIN got = {}
    /\ call.outcome = "pending" => Moment \in seen
    /\ call.provider = "blockfrost" =>
        call.fn \in WalletFunction /\ call.args \in ArgumentsOf(call.fn)
    /\ call.provider = "dbsync" => call.args \subseteq Tx
    /\ call.provider = "search" => call.fn = "queryStakePools"
    /\ call.provider \in {"none", "blockfrost", "dbsync", "search"}
    /\ call.provider = "none" => call.outcome = "idle"

\* The chain holds transactions; the lists of pools are no longer than the set
\* of all pools.
MomentsInv ==
    \A m \in seen : m.onChain \subseteq Tx /\ \A list \in ListKind : m[list] \in 0..Cardinality(Pool)

\* What request r was answered at moment m.
Told(r, answer, m) ==
    /\ r.kind = "addressUtxos" => answer = {o \in m.unspent : AddressOf[o] = r.of}
    /\ r.kind = "addressTxs" =>
        answer = {t \in m.onChain : \E o \in Inputs[t] \cup Outputs[t] : AddressOf[o] = r.of}
    /\ r.kind = "tx" => r.of \in m.onChain
    /\ r.kind = "submit" => r.of \in m.accepted
    /\ r.kind \in ListKind => answer = PageOf(m[r.kind], r.of)

\* Every answer was true at some moment of the call.
AnswersInv ==
    /\ call.provider = "blockfrost" =>
        \A r \in DOMAIN got : \E m \in seen : Told(r, got[r], m)
    /\ call.provider = "search" =>
        /\ ByFields \in DOMAIN got =>
            \E m \in seen : got[ByFields] = {p \in Pool : "fields" \in m.matching[p]}
        /\ ByMetadata \in DOMAIN got => ByFields \in DOMAIN got
        /\ ByMetadata \in DOMAIN got =>
            \E m \in seen :
                got[ByMetadata] = {p \in Pool : "metadata" \in m.matching[p]} \ got[ByFields]

AddressLists(addresses) == {Request("addressTxs", a, NoArg) : a \in addresses}

\* A transaction is asked for by its hash, or at an address it is listed at;
\* the account is asked for after the outputs.
RequestsInv ==
    call.provider = "blockfrost" =>
        \A r \in DOMAIN got :
            /\ r.kind = "tx" =>
                \/ /\ call.fn = "queryTransactionsByHashes"
                   /\ r = Request("tx", r.of, NoArg) /\ r.of \in call.args
                \/ /\ call.fn = "queryTransactionsByAddresses"
                   /\ AddressLists(call.args) \subseteq DOMAIN got
                   /\ r = Request("tx", r.of, r.via) /\ r.via \in call.args
                   /\ r.of \in got[Request("addressTxs", r.via, NoArg)]
            /\ r.kind = "account" =>
                /\ call.fn = "utxoDelegationAndRewards"
                /\ UtxoRequests(call.args) \subseteq DOMAIN got

\* All that fetchTransaction fetches of t has been answered.
Whole(t, via) == \A kind \in Fetched(t) : Request(kind, t, via) \in DOMAIN got

\* The list has been read to its end: pages 1 to q, of which only q is not full.
ListRead(list) ==
    \E q \in 1..(Cardinality(Pool) + 1) : \A p \in 1..q :
        LET r == Request(list, p, NoArg) IN r \in DOMAIN got /\ (FullPage(got[r]) <=> p # q)

Complete ==
    /\ call.provider = "blockfrost" =>
        /\ call.fn = "utxoDelegationAndRewards" =>
            UtxoRequests(call.args) \cup {Request("account", NoArg, NoArg)} \subseteq DOMAIN got
        /\ call.fn = "queryTransactionsByHashes" => \A t \in call.args : Whole(t, NoArg)
        /\ call.fn = "queryTransactionsByAddresses" =>
            /\ AddressLists(call.args) \subseteq DOMAIN got
            /\ \A a \in call.args : \A t \in got[Request("addressTxs", a, NoArg)] : Whole(t, a)
        /\ call.fn = "submitTx" => \A t \in call.args : Request("submit", t, NoArg) \in DOMAIN got
        /\ call.fn = "stakePoolStats" => \A list \in ListKind : ListRead(list)
    /\ call.provider = "search" => ByFields \in DOMAIN got /\ ByMetadata \in DOMAIN got
    /\ call.provider = "dbsync" => call.fn # "submitTx"

\* How a call ended.
CompleteInv ==
    /\ call.outcome = "resolved" => Complete
    /\ call.outcome = "NotFound" =>
        call.refused # {} /\ \A t \in call.refused : \E m \in seen : t \notin m.onChain

IInv == CallInv /\ MomentsInv /\ AnswersInv /\ RequestsInv /\ CompleteInv

\* Every transaction that made one of the outputs is one of txs.
MadeBy(outputs, txs) == \A t \in Tx : Outputs[t] \cap outputs # {} => t \in txs

\* Without a rollback, what was reported as an output was made by transactions
\* that are on the chain still, and were when the rewards were read.
OutputsInv ==
    call.provider = "blockfrost" /\ rollbacks = call.rollbacks =>
        \A r \in DOMAIN got : r.kind = "addressUtxos" => MadeBy(got[r], OnChain)

RewardsInv ==
    LET account == Request("account", NoArg, NoArg) IN
    call.provider = "blockfrost" /\ account \in DOMAIN got =>
        \E m \in seen :
            /\ m.rewards = got[account]
            /\ rollbacks = call.rollbacks =>
                \A r \in UtxoRequests(call.args) : MadeBy(got[r], m.onChain)

-----------------------------------------------------------------------------
(* The kinds of steps. *)

\* Nothing the services hold changes.
LEMMA MomentStays == UNCHANGED serverVars => Moment' = Moment
<1> SUFFICES ASSUME UNCHANGED serverVars PROVE Moment' = Moment
    OBVIOUS
<1>1. OnChain' = OnChain
    BY DEF serverVars, ledgerVars, OnChain
<1>2. Unspent' = Unspent
    BY <1>1 DEF Unspent
<1>3. RewardBalance' = RewardBalance
    BY <1>1 DEF serverVars, ledgerVars, RewardBalance, Withdrawn
<1>4. /\ PoolsIn({"registered", "retiring"})' = PoolsIn({"registered", "retiring"})
      /\ PoolsIn({"retired"})' = PoolsIn({"retired"})
      /\ PoolsIn({"retiring"})' = PoolsIn({"retiring"})
    BY DEF serverVars, PoolsIn
<1> QED
    BY <1>1, <1>2, <1>3, <1>4 DEF Moment, serverVars, ledgerVars

\* The chain holds transactions; the lists of pools are no longer than the set
\* of all pools.
LEMMA MomentSizes ==
    Moment.onChain \subseteq Tx /\ \A list \in ListKind : Moment[list] \in 0..Cardinality(Pool)
<1>1. ASSUME NEW states PROVE Cardinality(PoolsIn(states)) \in 0..Cardinality(Pool)
    <2>1. PoolsIn(states) \in SUBSET Pool
        BY DEF PoolsIn
    <2>2. IsFiniteSet(PoolsIn(states)) /\ Cardinality(PoolsIn(states)) <= Cardinality(Pool)
        BY <2>1, ProviderAssumption, FS_Subset
    <2> QED
        BY <2>2, ProviderAssumption, FS_CardinalityType
<1>2. /\ Moment["pools"] = Cardinality(PoolsIn({"registered", "retiring"}))
      /\ Moment["poolsRetired"] = Cardinality(PoolsIn({"retired"}))
      /\ Moment["poolsRetiring"] = Cardinality(PoolsIn({"retiring"}))
    BY DEF Moment
<1>3. Moment.onChain \subseteq Tx
    BY DEF Moment, OnChain
<1> QED
    BY <1>1, <1>2, <1>3 DEF ListKind

\* The chain keeps its types and does not forget a rollback, and without one
\* it does not lose a transaction.
LEMMA ChainStep ==
    ASSUME LedgerTypeOK, LedgerStep \/ \E t \in Tx : Accept(t)
    PROVE  /\ LedgerTypeOK'
           /\ rollbacks' >= rollbacks
           /\ rollbacks' = rollbacks => OnChain \subseteq OnChain'
<1> USE DEF LedgerTypeOK
<1>1. CASE ChainGrows
    <2> PICK ts \in SUBSET mempool : MintBlock(ts)
        BY <1>1 DEF ChainGrows
    <2> QED
        BY DEF MintBlock, OnChain
<1>2. CASE AccrueRewards \/ \E t \in Tx : Accept(t)
    BY <1>2 DEF AccrueRewards, Accept, OnChain
<1>3. CASE Rollback
    BY <1>3 DEF Rollback
<1> QED
    BY <1>1, <1>2, <1>3 DEF LedgerStep

\* A call begins, gets an answer, loses one, or ends.
Begins ==
    \E provider \in {"blockfrost", "dbsync", "search"} : \E fn, args :
        /\ Begin(provider, fn, args)
        /\ provider = "blockfrost" => fn \in WalletFunction /\ args \in ArgumentsOf(fn)
        /\ provider = "dbsync" => args \subseteq Tx
        /\ provider = "search" => fn = "queryStakePools"

Answers ==
    \/ \E r \in Outstanding : Answer(r)
    \/ \E r \in DbSyncOutstanding : DbSyncAnswer(r)
    \/ \E r \in SearchOutstanding : SearchAnswer(r)

Gets ==
    /\ call.outcome = "pending"
    /\ UNCHANGED call
    /\ Answers
    /\ \E r, answer : r \notin DOMAIN got /\ Received(r, answer)
    /\ UNCHANGED <<serverVars, seen>> \/ \E t \in Tx : NodeAccepts(t)

Loses ==
    /\ call.outcome = "pending"
    /\ call' = [call EXCEPT !.outcome = "Unknown"]
    /\ UNCHANGED got
    /\ \E t \in Tx : NodeAccepts(t)

Ends ==
    /\ call.outcome = "pending"
    /\ \E outcome \in {"resolved"} \cup Rejections : \E refused :
        /\ Settle(outcome, refused)
        /\ outcome = "resolved" => Resolve \/ DbSyncSettles \/ SearchResolves
        /\ outcome = "NotFound" => refused # {} /\ \A t \in refused : t \notin OnChain

-----------------------------------------------------------------------------
(* The requests of a function. *)

\* The requests of fetchTransaction ask for parts of the transaction.
LEMMA FetchShape ==
    ASSUME NEW t, NEW via, NEW r \in FetchTransaction(t, via)
    PROVE  /\ r = Request(r.kind, t, via)
           /\ r.of = t /\ r.via = via /\ r.kind \in Fetched(t)
BY DEF FetchTransaction, Request

\* What a transaction is asked for is none of the other requests.
LEMMA FetchedKinds ==
    ASSUME NEW t
    PROVE  Fetched(t) \cap ({"account", "submit", "addressUtxos", "addressTxs"} \cup ListKind) = {}
BY DEF Fetched, FetchedCertificates, CertificateKind, ListKind

\* Which requests a transaction, an account and a submission are asked for in.
LEMMA WantedShape ==
    ASSUME call.fn \in WalletFunction, NEW r \in Wanted
    PROVE  /\ r.kind = "tx" =>
                \/ /\ call.fn = "queryTransactionsByHashes"
                   /\ r = Request("tx", r.of, NoArg) /\ r.of \in call.args
                \/ /\ call.fn = "queryTransactionsByAddresses"
                   /\ AddressLists(call.args) \subseteq DOMAIN got
                   /\ r = Request("tx", r.of, r.via) /\ r.via \in call.args
                   /\ r.of \in got[Request("addressTxs", r.via, NoArg)]
           /\ r.kind = "account" =>
                /\ call.fn = "utxoDelegationAndRewards"
                /\ UtxoRequests(call.args) \subseteq DOMAIN got
                /\ r = Request("account", NoArg, NoArg)
           /\ r.kind = "submit" => call.fn = "submitTx" /\ r.of \in call.args
<1>1. CASE call.fn = "utxoDelegationAndRewards"
    BY <1>1 DEF Wanted, WantedUtxo, UtxoRequests, Request
<1>2. CASE call.fn = "queryTransactionsByHashes"
    BY <1>2, FetchShape, FetchedKinds DEF Wanted, WantedTransactions
<1>3. CASE call.fn = "queryTransactionsByAddresses"
    <2>1. \/ r \in AddressLists(call.args)
          \/ /\ AddressLists(call.args) \subseteq DOMAIN got
             /\ \E a \in call.args : \E t \in got[Request("addressTxs", a, NoArg)] :
                    r \in FetchTransaction(t, a)
        BY <1>3 DEF Wanted, WantedByAddresses, WantedTransactions, AddressLists
    <2>2. CASE r \in AddressLists(call.args)
        BY <1>3, <2>2 DEF AddressLists, Request
    <2>3. CASE r \notin AddressLists(call.args)
        BY <1>3, <2>1, <2>3, FetchShape, FetchedKinds
    <2> QED
        BY <2>2, <2>3
<1>4. CASE call.fn = "stakePoolStats"
    <2>1. r.kind \in ListKind
        BY <1>4 DEF Wanted, WantedStats, Request, Listings, ListKind
    <2> QED
        BY <2>1 DEF ListKind
<1>5. CASE call.fn = "networkInfo"
    <2>1. r.kind \in {"epoch", "network"}
        BY <1>5 DEF Wanted, SentOf, Request
    <2> QED
        BY <2>1
<1>6. CASE call.fn = "submitTx"
    BY <1>6 DEF Wanted, Request
<1>7. CASE call.fn \in {"ledgerTip", "currentWalletProtocolParameters"}
    BY <1>7 DEF Wanted, Request, SingleRequest
<1> QED
    BY <1>1, <1>2, <1>3, <1>4, <1>5, <1>6, <1>7 DEF WalletFunction

\* A node is given transactions.
LEMMA SubmittedIsTx ==
    ASSUME CallInv, NEW r \in Outstanding, r.kind = "submit"
    PROVE  r.of \in Tx /\ call.args = {r.of}
<1>1. call.fn = "submitTx" /\ r.of \in call.args
    BY WantedShape DEF CallInv, Outstanding, Pending
<1> QED
    BY <1>1 DEF CallInv, Outstanding, Pending, ArgumentsOf

\* Every step is of one of these kinds.
LEMMA StepKinds ==
    ASSUME CallInv, [Next]_vars
    PROVE  ServicesMove \/ Begins \/ Gets \/ Loses \/ Ends \/ UNCHANGED vars
<1>1. CASE BlockfrostStep
    <2>1. ASSUME NEW fn \in WalletFunction, NEW args \in ArgumentsOf(fn), CallBlockfrost(fn, args)
          PROVE  Begins
        BY <2>1 DEF CallBlockfrost, Begins
    <2>2. ASSUME NEW r \in Outstanding, Answer(r) PROVE Gets
        BY <2>2, SubmittedIsTx DEF Answer, Gets, Answers, Outstanding, Pending, Receive
    <2>3. ASSUME NEW r \in Outstanding, SubmitAnswerLost(r) PROVE Loses
        BY <2>3, SubmittedIsTx DEF SubmitAnswerLost, Loses, Outstanding, Pending, ToProviderError
    <2>4. ASSUME NEW r \in Outstanding, NotThere(r) PROVE Ends
        BY <2>4 DEF NotThere, Ends, Outstanding, Pending, ToProviderError, Rejections, Missing
    <2>5. ASSUME NEW r \in Outstanding, NEW failure \in Failure, Fails(r, failure) PROVE Ends
        BY <2>5 DEF Fails, Ends, Outstanding, Pending, ToProviderError, Rejections, Failure
    <2>6. CASE Resolve
        BY <2>6 DEF Resolve, Ends, Pending
    <2> QED
        BY <1>1, <2>1, <2>2, <2>3, <2>4, <2>5, <2>6 DEF BlockfrostStep
<1>2. CASE DbSyncStep
    <2>1. ASSUME NEW fn \in WalletFunction, NEW t \in Tx, CallDbSync(fn, {t}) PROVE Begins
        BY <2>1 DEF CallDbSync, Begins
    <2>2. ASSUME NEW r \in DbSyncOutstanding, DbSyncAnswer(r) PROVE Gets
        BY <2>2 DEF DbSyncAnswer, Gets, Answers, DbSyncOutstanding, DbSyncPending, Receive, CallInv
    <2>3. /\ DbSyncError(call.fn) \in Rejections \ {"NotFound"}
          /\ DbSyncOutcome(call.fn) \in ({"resolved"} \cup Rejections) \ {"NotFound"}
        BY DEF DbSyncError, DbSyncOutcome, Rejections
    <2>4. ASSUME NEW r \in DbSyncOutstanding, DbSyncFails(r) PROVE Ends
        BY <2>3, <2>4 DEF DbSyncFails, Ends, DbSyncOutstanding, DbSyncPending, Rejections
    <2>5. CASE DbSyncSettles
        BY <2>3, <2>5 DEF DbSyncSettles, Ends, DbSyncPending
    <2> QED
        BY <1>2, <2>1, <2>2, <2>4, <2>5 DEF DbSyncStep
<1>3. CASE SearchStep
    <2>1. CASE QueryStakePools
        BY <2>1 DEF QueryStakePools, Begins
    <2>2. ASSUME NEW r \in SearchOutstanding, SearchAnswer(r) PROVE Gets
        BY <2>2 DEF SearchAnswer, Gets, Answers, SearchOutstanding, SearchPending, Receive
    <2>3. CASE SearchFails \/ SearchResolves
        BY <2>3 DEF SearchFails, SearchResolves, SearchPending, Ends, Rejections
    <2> QED
        BY <1>3, <2>1, <2>2, <2>3 DEF SearchStep
<1> QED
    BY <1>1, <1>2, <1>3 DEF Next

-----------------------------------------------------------------------------
(* The present is among the moments a pending call has seen. *)

\* A call sees the present until it settles.
LEMMA NextCallInv == CallInv /\ [Next]_vars => CallInv'
<1> SUFFICES ASSUME CallInv, [Next]_vars PROVE CallInv'
    OBVIOUS
<1> USE DEF CallInv, Outcome, Rejections
<1>1. CASE ServicesMove
    <2>1. LedgerTypeOK' /\ rollbacks' >= rollbacks /\ rollbacks' \in Nat /\ rollbacks \in Nat
        BY <1>1, ChainStep DEF ServicesMove, ledgerVars, LedgerTypeOK
    <2> QED
        BY <1>1, <2>1 DEF ServicesMove
<1>2. CASE Begins
    <2>1. Moment' \in seen'
        BY <1>2, MomentStays DEF Begins, Begin
    <2> QED
        BY <1>2, <2>1 DEF Begins, Begin, serverVars, ledgerVars, LedgerTypeOK
<1>3. ASSUME NEW t \in Tx, NodeAccepts(t)
      PROVE  /\ LedgerTypeOK' /\ rollbacks' = rollbacks
             /\ Moment' \in seen'
    BY <1>3, ChainStep DEF NodeAccepts, Accept
<1>4. ASSUME UNCHANGED serverVars
      PROVE  /\ LedgerTypeOK' /\ rollbacks' = rollbacks
             /\ Moment' = Moment
    BY <1>4, MomentStays DEF serverVars, ledgerVars, LedgerTypeOK
<1>5. CASE Gets
    BY <1>3, <1>4, <1>5 DEF Gets
<1>6. CASE Loses
    BY <1>3, <1>6 DEF Loses
<1>7. CASE Ends
    BY <1>4, <1>7 DEF Ends, Settle
<1>8. CASE UNCHANGED vars
    BY <1>4, <1>8 DEF vars
<1> QED
    BY <1>1, <1>2, <1>5, <1>6, <1>7, <1>8, StepKinds

\* Every moment has lists of a possible length.
LEMMA NextMomentsInv == CallInv /\ MomentsInv /\ [Next]_vars => MomentsInv'
<1> SUFFICES ASSUME CallInv, MomentsInv, [Next]_vars PROVE MomentsInv'
    OBVIOUS
<1>1. (Moment.onChain \subseteq Tx /\ \A list \in ListKind : Moment[list] \in 0..Cardinality(Pool))'
    BY MomentSizes, PTL
<1>2. seen' \subseteq seen \cup {Moment, Moment'}
    BY StepKinds DEF ServicesMove, Begins, Begin, Gets, Loses, Ends, Settle, NodeAccepts, vars
<1> QED
    BY <1>1, <1>2, MomentSizes DEF MomentsInv, ListKind

-----------------------------------------------------------------------------
(* Answers. *)

\* What the service answers is told at the moment of the answer.
LEMMA AnswerIsTold ==
    ASSUME NEW r, ~Missing(r)
    PROVE  r.kind # "submit" => Told(r, AnswerTo(r), Moment)
<1>1. CASE r.kind \in {"addressUtxos", "addressTxs"}
    BY <1>1 DEF Told, AnswerTo, Moment, TransactionsAt, ListKind
<1>2. CASE r.kind \in ListKind
    BY <1>2 DEF Told, AnswerTo, ListKind
<1>3. CASE r.kind = "tx"
    BY <1>3 DEF Told, Missing, Moment, ListKind
<1>4. CASE r.kind \notin {"addressUtxos", "addressTxs", "tx", "submit"} \cup ListKind
    BY <1>4 DEF Told
<1> QED
    BY <1>1, <1>2, <1>3, <1>4

\* How the answers, the moments and the requests change in a step.
LEMMA GotStep ==
    ASSUME CallInv, [Next]_vars
    PROVE  \/ got' = got /\ call'.provider = call.provider /\ call'.fn = call.fn
                /\ call'.args = call.args /\ seen \subseteq seen'
           \/ got' = got /\ DOMAIN got' = {}
           \/ Gets
<1>1. CASE ServicesMove \/ UNCHANGED vars
    BY <1>1 DEF ServicesMove, vars
<1>2. CASE Begins
    BY <1>2 DEF Begins, Begin, CallInv, Idle
<1>3. CASE Loses \/ Ends
    <2>1. UNCHANGED got /\ seen \subseteq seen'
        BY <1>3 DEF Loses, Ends, Settle, NodeAccepts
    <2>2. \/ \E outcome, refused : call' = [call EXCEPT !.outcome = outcome, !.refused = refused]
          \/ call' = [call EXCEPT !.outcome = "Unknown"]
        BY <1>3 DEF Loses, Ends, Settle
    <2>3. /\ call'.provider = call.provider /\ call'.fn = call.fn
          /\ call'.args = call.args
        BY <2>2 DEF CallInv
    <2> QED
        BY <2>1, <2>3
<1> QED
    BY <1>1, <1>2, <1>3, StepKinds

\* The answers so far stay, and so do the moments.
LEMMA GetsKeeps ==
    ASSUME Gets
    PROVE  /\ seen \subseteq seen'
           /\ DOMAIN got \subseteq DOMAIN got'
           /\ \A r \in DOMAIN got : got'[r] = got[r]
           /\ call' = call
BY DEF Gets, Received, NodeAccepts

\* An answer is true at the moment it is received, and stays one of the call.
LEMMA NextAnswersInv == CallInv /\ AnswersInv /\ [Next]_vars => AnswersInv'
<1> SUFFICES ASSUME CallInv, AnswersInv, [Next]_vars PROVE AnswersInv'
    OBVIOUS
<1>1. CASE got' = got /\ call'.provider = call.provider /\ seen \subseteq seen'
    BY <1>1 DEF AnswersInv
<1>2. CASE got' = got /\ DOMAIN got' = {}
    BY <1>2 DEF AnswersInv
<1>3. CASE Gets
    <2>1. /\ seen \subseteq seen' /\ DOMAIN got \subseteq DOMAIN got' /\ call' = call
          /\ \A r \in DOMAIN got : got'[r] = got[r]
        BY <1>3, GetsKeeps
    <2>2. Moment \in seen
        BY <1>3 DEF Gets, CallInv
    <2>3. ASSUME NEW r \in Outstanding, Answer(r)
          PROVE  AnswersInv'
        <3>1. call.provider = "blockfrost"
            BY <2>3 DEF Outstanding, Pending
        <3>2. DOMAIN got' = DOMAIN got \cup {r}
            BY <2>3 DEF Answer, Receive, Received
        <3>3. \E m \in seen' : Told(r, got'[r], m)
            <4>1. CASE r.kind = "submit"
                <5>1. Moment' \in seen' /\ r.of \in Moment'.accepted
                    BY <2>3, <4>1 DEF Answer, NodeAccepts, Accept, Moment
                <5> QED
                    BY <4>1, <5>1 DEF Told, ListKind
            <4>2. CASE r.kind # "submit"
                <5>1. got'[r] = AnswerTo(r) /\ ~Missing(r)
                    BY <2>3, <4>2 DEF Answer, Receive, Received
                <5> QED
                    BY <2>1, <2>2, <4>2, <5>1, AnswerIsTold
            <4> QED
                BY <4>1, <4>2
        <3>4. \A q \in DOMAIN got' : \E m \in seen' : Told(q, got'[q], m)
            BY <2>1, <3>1, <3>2, <3>3 DEF AnswersInv
        <3> QED
            BY <2>1, <3>1, <3>4 DEF AnswersInv
    <2>4. ASSUME NEW r \in DbSyncOutstanding, DbSyncAnswer(r)
          PROVE  AnswersInv'
        BY <2>1, <2>4 DEF DbSyncOutstanding, DbSyncPending, AnswersInv
    <2>5. ASSUME NEW r \in SearchOutstanding, SearchAnswer(r)
          PROVE  AnswersInv'
        <3>1. /\ call.provider = "search" /\ r \notin DOMAIN got
              /\ r \in SentOf(<<ByFields, ByMetadata>>)
            BY <2>5 DEF SearchOutstanding, SearchPending
        <3>2. DOMAIN got' = DOMAIN got \cup {r} /\ got'[r] = SearchAnswerTo(r)
            BY <2>5 DEF SearchAnswer, Receive, Received
        <3>3. ByFields # ByMetadata
            BY DEF ByFields, ByMetadata, Request
        <3>4. Moment.matching = matching
            BY DEF Moment
        <3>5. CASE r = ByFields
            <4>1. got'[r] = {p \in Pool : "fields" \in Moment.matching[p]}
                BY <3>2, <3>4, <3>5 DEF SearchAnswerTo, FoundBy
            <4>2. ByMetadata \notin DOMAIN got'
                BY <3>1, <3>2, <3>3, <3>5 DEF AnswersInv
            <4> QED
                BY <2>1, <2>2, <3>1, <3>5, <4>1, <4>2 DEF AnswersInv
        <3>6. CASE r # ByFields
            <4>1. r = ByMetadata /\ ByFields \in DOMAIN got
                BY <3>1, <3>6 DEF SentOf
            <4>2. got'[r] = {p \in Pool : "metadata" \in Moment.matching[p]} \ got'[ByFields]
                BY <2>1, <3>2, <3>4, <3>6, <4>1 DEF SearchAnswerTo, FoundBy
            <4>3. ByFields \in DOMAIN got' /\ got'[ByFields] = got[ByFields]
                BY <2>1, <4>1
            <4>4. \E m \in seen : got[ByFields] = {p \in Pool : "fields" \in m.matching[p]}
                BY <3>1, <4>1 DEF AnswersInv
            <4> QED
                BY <2>1, <2>2, <3>1, <4>1, <4>2, <4>3, <4>4 DEF AnswersInv
        <3> QED
            BY <3>5, <3>6
    <2> QED
        BY <1>3, <2>3, <2>4, <2>5 DEF Gets, Answers
<1> QED
    BY <1>1, <1>2, <1>3, GotStep

-----------------------------------------------------------------------------
(* Requests. *)

\* A request is sent only after the answers it depends on.
LEMMA NextRequestsInv == CallInv /\ RequestsInv /\ [Next]_vars => RequestsInv'
<1> SUFFICES ASSUME CallInv, RequestsInv, [Next]_vars PROVE RequestsInv'
    OBVIOUS
<1>1. CASE got' = got /\ call'.provider = call.provider /\ call'.fn = call.fn
                /\ call'.args = call.args
    BY <1>1 DEF RequestsInv, AddressLists, UtxoRequests
<1>2. CASE got' = got /\ DOMAIN got' = {}
    BY <1>2 DEF RequestsInv
<1>3. CASE Gets
    <2>1. /\ DOMAIN got \subseteq DOMAIN got' /\ call' = call
          /\ \A r \in DOMAIN got : got'[r] = got[r]
        BY <1>3, GetsKeeps
    <2> SUFFICES ASSUME call.provider = "blockfrost" PROVE RequestsInv'
        BY <2>1 DEF RequestsInv
    <2>2. PICK s \in Outstanding : Answer(s)
        BY <1>3 DEF Gets, Answers, DbSyncOutstanding, DbSyncPending, SearchOutstanding, SearchPending
    <2>3. s \in Wanted /\ call.fn \in WalletFunction
        BY <2>2 DEF Outstanding, CallInv
    <2>4. DOMAIN got' = DOMAIN got \cup {s}
        BY <2>2 DEF Answer, Receive, Received
    <2> SUFFICES ASSUME NEW r \in DOMAIN got'
                 PROVE  /\ r.kind = "tx" =>
                            \/ /\ call.fn = "queryTransactionsByHashes"
                               /\ r = Request("tx", r.of, NoArg) /\ r.of \in call.args
                            \/ /\ call.fn = "queryTransactionsByAddresses"
                               /\ AddressLists(call.args) \subseteq DOMAIN got'
                               /\ r = Request("tx", r.of, r.via) /\ r.via \in call.args
                               /\ r.of \in got'[Request("addressTxs", r.via, NoArg)]
                        /\ r.kind = "account" =>
                            /\ call.fn = "utxoDelegationAndRewards"
                            /\ UtxoRequests(call.args) \subseteq DOMAIN got'
        BY <2>1 DEF RequestsInv, AddressLists, UtxoRequests
    <2>5. ASSUME r.kind = "tx"
          PROVE  \/ /\ call.fn = "queryTransactionsByHashes"
                    /\ r = Request("tx", r.of, NoArg) /\ r.of \in call.args
                 \/ /\ call.fn = "queryTransactionsByAddresses"
                    /\ AddressLists(call.args) \subseteq DOMAIN got
                    /\ r = Request("tx", r.of, r.via) /\ r.via \in call.args
                    /\ r.of \in got[Request("addressTxs", r.via, NoArg)]
        BY <2>3, <2>4, <2>5, WantedShape DEF RequestsInv
    <2>6. ASSUME r.kind = "account"
          PROVE  call.fn = "utxoDelegationAndRewards" /\ UtxoRequests(call.args) \subseteq DOMAIN got
        BY <2>3, <2>4, <2>6, WantedShape DEF RequestsInv
    <2>7. ASSUME AddressLists(call.args) \subseteq DOMAIN got, r.via \in call.args
          PROVE  got'[Request("addressTxs", r.via, NoArg)] = got[Request("addressTxs", r.via, NoArg)]
        BY <2>1, <2>7 DEF AddressLists
    <2> QED
        BY <2>1, <2>5, <2>6, <2>7
<1> QED
    BY <1>1, <1>2, <1>3, GotStep

-----------------------------------------------------------------------------
(* A call that resolves has all its answers. *)

\* When nothing of fetchTransaction is wanted any more, all of it was answered:
\* the awaits one after another.
LEMMA FetchedWhole ==
    ASSUME NEW t, NEW via, FetchTransaction(t, via) \subseteq DOMAIN got
    PROVE  Whole(t, via)
<1> DEFINE Done(i) == FetchOrder[i] \in Fetched(t) => Request(FetchOrder[i], t, via) \in DOMAIN got
<1>1. ASSUME NEW i \in 1..9, \A k \in 1..(i - 1) : Done(k)
      PROVE  Done(i)
    <2>1. i \in DOMAIN FetchOrder
        BY DEF FetchOrder
    <2>2. ASSUME FetchOrder[i] \in Fetched(t)
          PROVE  Request(FetchOrder[i], t, via) \in FetchTransaction(t, via)
        BY <1>1, <2>1, <2>2 DEF FetchTransaction
    <2> QED
        BY <2>2
<1>2. Done(1)
    BY <1>1
<1>3. Done(2)
    BY <1>1, <1>2
<1>4. Done(3)
    BY <1>1, <1>2, <1>3
<1>5. Done(4)
    BY <1>1, <1>2, <1>3, <1>4
<1>6. Done(5)
    BY <1>1, <1>2, <1>3, <1>4, <1>5
<1>7. Done(6)
    BY <1>1, <1>2, <1>3, <1>4, <1>5, <1>6
<1>8. Done(7)
    BY <1>1, <1>2, <1>3, <1>4, <1>5, <1>6, <1>7
<1>9. Done(8)
    BY <1>1, <1>2, <1>3, <1>4, <1>5, <1>6, <1>7, <1>8
<1>10. Done(9)
    BY <1>1, <1>2, <1>3, <1>4, <1>5, <1>6, <1>7, <1>8, <1>9
<1>11. ASSUME NEW kind \in Fetched(t)
       PROVE  \E i \in 1..9 : kind = FetchOrder[i]
    BY DEF Fetched, FetchedCertificates, CertificateKind, FetchOrder
<1>12. ASSUME NEW i \in 1..9 PROVE Done(i)
    BY <1>2, <1>3, <1>4, <1>5, <1>6, <1>7, <1>8, <1>9, <1>10
<1> QED
    BY <1>11, <1>12 DEF Whole

\* A listing whose wanted pages are all answered has been read to its end: no
\* answer beyond the number of pools is a full page.
LEMMA PagesEnd ==
    ASSUME call.provider = "blockfrost", MomentsInv, AnswersInv, NEW list \in ListKind,
           \A p \in PagesOf(list) : Request(list, p, NoArg) \in DOMAIN got
    PROVE  ListRead(list)
<1> DEFINE N == Cardinality(Pool) + 1
           Full(p) == Request(list, p, NoArg) \in DOMAIN got /\ FullPage(got[Request(list, p, NoArg)])
           B == {p \in 1..N : ~Full(p)}
<1>1. N \in Nat /\ N >= 1 /\ Cardinality(Pool) \in Nat
    BY ProviderAssumption, FS_CardinalityType
<1>2. ~Full(N)
    <2>1. SUFFICES ASSUME Request(list, N, NoArg) \in DOMAIN got
                   PROVE  ~FullPage(got[Request(list, N, NoArg)])
        OBVIOUS
    <2> HIDE DEF N
    <2>2. PICK m \in seen : got[Request(list, N, NoArg)] = PageOf(m[list], N)
        BY <2>1 DEF AnswersInv, Told, Request
    <2>3. m[list] \in 0..Cardinality(Pool)
        BY DEF MomentsInv
    <2>4. \A n, k \in Nat : k # 0 => n * k >= n /\ n * k \in Nat
        OBVIOUS
    <2>5. Cardinality(Pool) * PageSize >= Cardinality(Pool) /\ Cardinality(Pool) * PageSize \in Nat
        BY <1>1, <2>4, PageAssumption
    <2>6. PICK size \in Nat : size = Cardinality(Pool) * PageSize
        BY <2>5
    <2>7. PICK length \in Nat : length = m[list] /\ length - size <= 0
        BY <1>1, <2>3, <2>5, <2>6
    <2>8. got[Request(list, N, NoArg)] = IF length - size < 0 THEN 0
                                         ELSE IF length - size > PageSize THEN PageSize
                                         ELSE length - size
        <3>1. (N - 1) = Cardinality(Pool)
            BY <1>1 DEF N
        <3> QED
            BY <2>2, <2>6, <2>7, <3>1 DEF PageOf
    <2> QED
        BY <2>7, <2>8, PageAssumption DEF FullPage
<1>3. N \in B
    BY <1>1, <1>2
<1>4. PICK q \in B \cap 0..N : \A k \in 0..(q - 1) : k \notin B
    <2> HIDE DEF B, N
    <2> QED
        BY <1>1, <1>3, LeastUpTo
<1>5. q \in 1..N /\ ~Full(q) /\ \A k \in 1..(q - 1) : Full(k)
    BY <1>1, <1>4
<1>6. q \in PagesOf(list)
    BY <1>5 DEF PagesOf
<1>7. ASSUME NEW p \in 1..q
      PROVE  LET r == Request(list, p, NoArg) IN r \in DOMAIN got /\ (FullPage(got[r]) <=> p # q)
    <2>1. CASE p = q
        BY <1>5, <1>6, <2>1
    <2>2. CASE p # q
        BY <1>1, <1>5, <2>2
    <2> QED
        BY <2>1, <2>2
<1> QED
    BY <1>5, <1>7 DEF ListRead

\* A listing that has been read is tallied, and the pages wanted are those read.
LEMMA ReadIsTallied ==
    ASSUME NEW list, NEW q \in 1..(Cardinality(Pool) + 1),
           \A p \in 1..q : LET r == Request(list, p, NoArg) IN r \in DOMAIN got /\ (FullPage(got[r]) <=> p # q)
    PROVE  ListTallied(list) /\ PagesOf(list) = 1..q
<1>1. Cardinality(Pool) \in Nat
    BY ProviderAssumption, FS_CardinalityType
<1>2. 1..q \subseteq PagesOf(list)
    BY <1>1 DEF PagesOf
<1>3. ASSUME NEW p \in PagesOf(list), p \notin 1..q PROVE FALSE
    <2>1. q \in 1..(p - 1)
        BY <1>1, <1>3 DEF PagesOf
    <2>2. FullPage(got[Request(list, q, NoArg)])
        BY <2>1 DEF PagesOf
    <2> QED
        BY <2>2
<1>4. ListTallied(list)
    BY <1>1, <1>2 DEF ListTallied
<1> QED
    BY <1>2, <1>3, <1>4

\* A call resolves when everything it wanted has been answered.
LEMMA ResolvedIsComplete ==
    ASSUME CallInv, MomentsInv, AnswersInv, Resolve
    PROVE  Complete
<1>1. /\ call.provider = "blockfrost" /\ Wanted \subseteq DOMAIN got
    BY DEF Resolve, Outstanding, Pending
<1>2. ASSUME call.fn = "utxoDelegationAndRewards"
      PROVE  UtxoRequests(call.args) \cup {Request("account", NoArg, NoArg)} \subseteq DOMAIN got
    <2>1. WantedUtxo(call.args) \subseteq DOMAIN got
        BY <1>1, <1>2 DEF Wanted
    <2> QED
        BY <2>1 DEF WantedUtxo
<1>3. ASSUME call.fn = "queryTransactionsByHashes"
      PROVE  \A t \in call.args : Whole(t, NoArg)
    <2>1. WantedTransactions(call.args, NoArg) \subseteq DOMAIN got
        BY <1>1, <1>3 DEF Wanted
    <2>2. \A t \in call.args : FetchTransaction(t, NoArg) \subseteq DOMAIN got
        BY <2>1 DEF WantedTransactions
    <2> QED
        BY <2>2, FetchedWhole
<1>4. ASSUME call.fn = "queryTransactionsByAddresses"
      PROVE  /\ AddressLists(call.args) \subseteq DOMAIN got
             /\ \A a \in call.args : \A t \in got[Request("addressTxs", a, NoArg)] : Whole(t, a)
    <2>1. WantedByAddresses(call.args) \subseteq DOMAIN got
        BY <1>1, <1>4 DEF Wanted
    <2>2. AddressLists(call.args) \subseteq DOMAIN got
        BY <2>1 DEF WantedByAddresses, AddressLists
    <2>3. UNION {WantedTransactions(got[Request("addressTxs", a, NoArg)], a) : a \in call.args}
            \subseteq DOMAIN got
        BY <2>1, <2>2 DEF WantedByAddresses, AddressLists
    <2>4. \A a \in call.args : \A t \in got[Request("addressTxs", a, NoArg)] :
            FetchTransaction(t, a) \subseteq DOMAIN got
        BY <2>3 DEF WantedTransactions
    <2> QED
        BY <2>2, <2>4, FetchedWhole
<1>5. ASSUME call.fn = "submitTx"
      PROVE  \A t \in call.args : Request("submit", t, NoArg) \in DOMAIN got
    BY <1>1, <1>5 DEF Wanted
<1>6. ASSUME call.fn = "stakePoolStats"
      PROVE  \A list \in ListKind : ListRead(list)
    <2>1. WantedStats \subseteq DOMAIN got
        BY <1>1, <1>6 DEF Wanted
    <2>2. ASSUME NEW i \in 1..3, \A k \in 1..(i - 1) : ListTallied(Listings[k])
          PROVE  ListRead(Listings[i]) /\ ListTallied(Listings[i])
        <3>1. /\ i \in {j \in DOMAIN Listings : \A k \in 1..(j - 1) : ListTallied(Listings[k])}
              /\ Listings[i] \in ListKind
            BY <2>2 DEF Listings, ListKind
        <3>2. \A p \in PagesOf(Listings[i]) : Request(Listings[i], p, NoArg) \in DOMAIN got
            BY <2>1, <3>1 DEF WantedStats
        <3>3. ListRead(Listings[i])
            BY <1>1, <3>1, <3>2, PagesEnd
        <3> QED
            BY <3>3, ReadIsTallied DEF ListRead
    <2>3. ListRead(Listings[1]) /\ ListTallied(Listings[1])
        BY <2>2
    <2>4. ListRead(Listings[2]) /\ ListTallied(Listings[2])
        BY <2>2, <2>3
    <2>5. ListRead(Listings[3])
        BY <2>2, <2>3, <2>4
    <2> QED
        BY <2>3, <2>4, <2>5 DEF Listings, ListKind
<1> QED
    BY <1>1, <1>2, <1>3, <1>4, <1>5, <1>6 DEF Complete

\* Whether what the resolved call needs has been answered does not change.
LEMMA NextCompleteInv ==
    CallInv /\ MomentsInv /\ AnswersInv /\ CompleteInv /\ [Next]_vars => CompleteInv'
<1> SUFFICES ASSUME CallInv, MomentsInv, AnswersInv, CompleteInv, [Next]_vars
             PROVE  CompleteInv'
    OBVIOUS
<1>1. CASE UNCHANGED vars
    BY <1>1 DEF vars, CompleteInv, Complete, Whole, ListRead, AddressLists, UtxoRequests
<1>2. CASE ServicesMove \/ Begins \/ Gets \/ Loses
    <2>1. call'.outcome \in {"idle", "pending", "Unknown"}
        BY <1>2 DEF ServicesMove, Begins, Begin, Gets, Loses, CallInv
    <2> QED
        BY <2>1 DEF CompleteInv
<1>3. CASE Ends
    <2>1. PICK outcome \in {"resolved"} \cup Rejections : \E refused :
            /\ Settle(outcome, refused)
            /\ outcome = "resolved" => Resolve \/ DbSyncSettles \/ SearchResolves
            /\ outcome = "NotFound" => refused # {} /\ \A t \in refused : t \notin OnChain
        BY <1>3 DEF Ends
    <2>0. PICK refused :
            /\ Settle(outcome, refused)
            /\ outcome = "NotFound" => refused # {} /\ \A t \in refused : t \notin OnChain
        BY <2>1
    <2>2. /\ call'.provider = call.provider /\ call'.fn = call.fn /\ call'.args = call.args
          /\ call'.outcome = outcome /\ call'.refused = refused
          /\ UNCHANGED <<got, seen>>
        BY <2>0 DEF Settle, CallInv
    <2>3. Moment \in seen /\ Moment.onChain = OnChain
        BY <1>3 DEF Ends, CallInv, Moment
    <2>4. ASSUME outcome = "resolved" PROVE Complete
        <3>1. CASE Resolve
            BY <3>1, ResolvedIsComplete
        <3>2. CASE DbSyncSettles
            <4>1. call.provider = "dbsync" /\ DbSyncOutcome(call.fn) = "resolved"
                BY <2>1, <2>2, <2>4, <3>2 DEF DbSyncSettles, DbSyncPending, Settle, CallInv
            <4>2. call.fn # "submitTx"
                <5>1. DbSyncRequests("submitTx") = <<"submit">>
                    BY DEF DbSyncRequests
                <5>2. 1 \in DOMAIN <<"submit">> /\ <<"submit">>[1] = "submit"
                    OBVIOUS
                <5>3. ReadKey("submit") # AskedKey("submit")
                    BY DEF ReadKey, AskedKey
                <5>4. DbSyncOutcome("submitTx") = DbSyncError("submitTx")
                    BY <5>1, <5>2, <5>3 DEF DbSyncOutcome
                <5> QED
                    BY <4>1, <5>4 DEF DbSyncError
            <4> QED
                BY <4>1, <4>2 DEF Complete
        <3>3. CASE SearchResolves
            <4>1. call.provider = "search" /\ SentOf(<<ByFields, ByMetadata>>) \subseteq DOMAIN got
                BY <3>3 DEF SearchResolves, SearchPending, SearchOutstanding
            <4>2. ByFields \in DOMAIN got
                BY <4>1 DEF SentOf
            <4>3. ByMetadata \in DOMAIN got
                BY <4>1, <4>2 DEF SentOf
            <4> QED
                BY <4>1, <4>2, <4>3 DEF Complete
        <3> QED
            BY <2>1, <2>4, <3>1, <3>2, <3>3
    <2>5. Complete => Complete'
        BY <2>2 DEF Complete, Whole, ListRead, AddressLists, UtxoRequests
    <2> QED
        BY <2>0, <2>2, <2>3, <2>4, <2>5 DEF CompleteInv
<1> QED
    BY <1>1, <1>2, <1>3, StepKinds

-----------------------------------------------------------------------------
(* Outputs and rewards. *)

\* The ledger's rule that an output is made once: it is one of the genesis, or
\* of one transaction.  References are of a transaction id and an index.
OutputsAreUnique ==
    \A t \in Tx :
        /\ Outputs[t] \cap Genesis = {}
        /\ \A u \in Tx : u # t => Outputs[t] \cap Outputs[u] = {}

\* What is unspent was made on the chain.
LEMMA UnspentIsMade ==
    ASSUME OutputsAreUnique, NEW S \in SUBSET Unspent
    PROVE  MadeBy(S, OnChain)
BY DEF OutputsAreUnique, MadeBy, Unspent, OnChain

\* While no rollback is counted, the chain keeps its transactions.
LEMMA ChainKept ==
    ASSUME CallInv, [Next]_vars, call' = call \/ call.outcome = "pending",
           rollbacks' = call.rollbacks
    PROVE  rollbacks = call.rollbacks /\ OnChain \subseteq OnChain'
<1>1. ASSUME LedgerStep \/ \E t \in Tx : Accept(t)
      PROVE  rollbacks = call.rollbacks /\ OnChain \subseteq OnChain'
    BY <1>1, ChainStep DEF CallInv, LedgerTypeOK
<1>2. ASSUME UNCHANGED ledgerVars
      PROVE  rollbacks = call.rollbacks /\ OnChain \subseteq OnChain'
    BY <1>2 DEF ledgerVars, OnChain
<1>3. CASE ServicesMove
    BY <1>1, <1>2, <1>3 DEF ServicesMove
<1>4. CASE Begins
    BY <1>2, <1>4 DEF Begins, Begin, serverVars
<1>5. CASE Gets \/ Loses
    BY <1>1, <1>2, <1>5 DEF Gets, Loses, NodeAccepts, serverVars
<1>6. CASE Ends \/ UNCHANGED vars
    BY <1>2, <1>6 DEF Ends, Settle, vars, serverVars
<1> QED
    BY <1>3, <1>4, <1>5, <1>6, StepKinds

\* The calls whose answers are new in a step.
LEMMA CallKept ==
    ASSUME CallInv, [Next]_vars, call'.provider = "blockfrost", DOMAIN got' # {}
    PROVE  /\ call.provider = "blockfrost" /\ call'.rollbacks = call.rollbacks
           /\ call'.args = call.args
           /\ call' = call \/ call.outcome = "pending"
           /\ seen \subseteq seen'
           /\ got' = got \/ \E r \in Outstanding : Answer(r)
<1>1. CASE ServicesMove \/ UNCHANGED vars
    BY <1>1 DEF ServicesMove, vars
<1>2. CASE Begins
    BY <1>2 DEF Begins, Begin, CallInv, Idle
<1>3. CASE Gets
    BY <1>3, GetsKeeps DEF Gets, Answers, DbSyncOutstanding, DbSyncPending,
                           SearchOutstanding, SearchPending
<1>4. CASE Loses \/ Ends
    <2>1. UNCHANGED got /\ seen \subseteq seen' /\ call.outcome = "pending"
        BY <1>4 DEF Loses, Ends, Settle, NodeAccepts
    <2>2. \/ \E outcome, refused : call' = [call EXCEPT !.outcome = outcome, !.refused = refused]
          \/ call' = [call EXCEPT !.outcome = "Unknown"]
        BY <1>4 DEF Loses, Ends, Settle
    <2>3. /\ call'.provider = call.provider /\ call'.rollbacks = call.rollbacks
          /\ call'.args = call.args
        BY <2>2 DEF CallInv
    <2> QED
        BY <2>1, <2>3
<1> QED
    BY <1>1, <1>2, <1>3, <1>4, StepKinds

\* Reported outputs stay made as long as nothing is rolled back.
LEMMA NextOutputsInv ==
    OutputsAreUnique /\ CallInv /\ OutputsInv /\ [Next]_vars => OutputsInv'
<1> SUFFICES ASSUME OutputsAreUnique, CallInv, OutputsInv, [Next]_vars,
                    call'.provider = "blockfrost", rollbacks' = call'.rollbacks,
                    NEW r \in DOMAIN got', r.kind = "addressUtxos"
             PROVE  MadeBy(got'[r], OnChain')
    BY DEF OutputsInv, MadeBy
<1>1. /\ call.provider = "blockfrost" /\ call'.rollbacks = call.rollbacks
      /\ call' = call \/ call.outcome = "pending"
      /\ got' = got \/ \E q \in Outstanding : Answer(q)
    BY CallKept
<1>2. rollbacks = call.rollbacks /\ OnChain \subseteq OnChain'
    BY <1>1, ChainKept
<1>3. CASE r \in DOMAIN got /\ got'[r] = got[r]
    BY <1>1, <1>2, <1>3 DEF OutputsInv, MadeBy
<1>4. CASE got' # got /\ \E q \in Outstanding : Answer(q)
    <2>1. PICK q \in Outstanding : Answer(q)
        BY <1>4
    <2>2. CASE r = q
        <3>1. got'[r] = {o \in Unspent : AddressOf[o] = r.of}
            <4>1. got'[r] = AnswerTo(r)
                BY <2>1, <2>2 DEF Answer, Receive, Received
            <4> QED
                BY <4>1 DEF AnswerTo
        <3> QED
            BY <1>2, <3>1, UnspentIsMade DEF MadeBy
    <2>3. CASE r # q
        BY <2>1, <2>3, <1>3 DEF Answer, Receive, Received
    <2> QED
        BY <2>2, <2>3
<1> QED
    BY <1>1, <1>3, <1>4

\* The account is read while the reported outputs are made.
LEMMA NextRewardsInv ==
    CallInv /\ RequestsInv /\ OutputsInv /\ RewardsInv /\ [Next]_vars => RewardsInv'
<1> DEFINE account == Request("account", NoArg, NoArg)
<1> SUFFICES ASSUME CallInv, RequestsInv, OutputsInv, RewardsInv, [Next]_vars,
                    call'.provider = "blockfrost", account \in DOMAIN got'
             PROVE  \E m \in seen' :
                        /\ m.rewards = got'[account]
                        /\ rollbacks' = call'.rollbacks =>
                            \A r \in UtxoRequests(call'.args) : MadeBy(got'[r], m.onChain)
    BY DEF RewardsInv, MadeBy, UtxoRequests
<1>1. /\ call.provider = "blockfrost" /\ call'.rollbacks = call.rollbacks
      /\ call'.args = call.args
      /\ call' = call \/ call.outcome = "pending"
      /\ seen \subseteq seen'
      /\ got' = got \/ \E q \in Outstanding : Answer(q)
    BY CallKept
<1>2. rollbacks' = call'.rollbacks => rollbacks = call.rollbacks
    BY <1>1, ChainKept
<1>3. CASE account \in DOMAIN got
    <2>1. UtxoRequests(call.args) \subseteq DOMAIN got
        BY <1>1, <1>3 DEF RequestsInv, Request
    <2>2. \A r \in DOMAIN got : got'[r] = got[r]
        <3>1. ASSUME NEW q \in Outstanding, Answer(q), NEW r \in DOMAIN got PROVE got'[r] = got[r]
            <4>1. q \notin DOMAIN got
                BY <3>1 DEF Outstanding
            <4> QED
                BY <3>1, <4>1 DEF Answer, Receive, Received
        <3> QED
            BY <1>1, <3>1
    <2>3. PICK m \in seen :
            /\ m.rewards = got[account]
            /\ rollbacks = call.rollbacks =>
                \A r \in UtxoRequests(call.args) : MadeBy(got[r], m.onChain)
        BY <1>1, <1>3 DEF RewardsInv
    <2> QED
        BY <1>1, <1>2, <1>3, <2>1, <2>2, <2>3
<1>4. CASE account \notin DOMAIN got
    <2>1. PICK q \in Outstanding : Answer(q)
        BY <1>1, <1>4
    <2>2. q = account
        BY <1>4, <2>1 DEF Answer, Receive, Received
    <2>3. got'[account] = RewardBalance /\ UNCHANGED <<serverVars, call, seen>>
        <3>1. account.kind = "account"
            BY DEF Request
        <3>2. got'[account] = AnswerTo(account) /\ UNCHANGED <<serverVars, call, seen>>
            BY <2>1, <2>2, <3>1 DEF Answer, Receive, Received
        <3> QED
            BY <3>1, <3>2 DEF AnswerTo
    <2>4. Moment \in seen /\ Moment.rewards = RewardBalance /\ Moment.onChain = OnChain
        BY <1>1, <2>1 DEF CallInv, Moment, Outstanding, Pending
    <2>5. UtxoRequests(call.args) \subseteq DOMAIN got
        <3>1. account \in Wanted /\ call.fn \in WalletFunction
            BY <1>1, <2>1, <2>2 DEF Outstanding, CallInv
        <3> QED
            BY <3>1, WantedShape DEF Request
    <2>6. \A r \in UtxoRequests(call.args) : got'[r] = got[r] /\ r.kind = "addressUtxos"
        BY <2>1, <2>2, <2>5, <1>4 DEF Answer, Receive, Received, UtxoRequests, Request
    <2>7. rollbacks = call.rollbacks => \A r \in UtxoRequests(call.args) : MadeBy(got[r], OnChain)
        BY <1>1, <2>5, <2>6 DEF OutputsInv
    <2> QED
        BY <1>1, <1>2, <2>3, <2>4, <2>6, <2>7
<1> QED
    BY <1>3, <1>4

-----------------------------------------------------------------------------
(* The invariants hold. *)

\* No call has begun at first.
LEMMA InitIInv == Init => IInv /\ OutputsInv /\ RewardsInv
<1> SUFFICES ASSUME Init PROVE IInv /\ OutputsInv /\ RewardsInv
    OBVIOUS
<1>1. /\ call = Idle /\ DOMAIN got = {} /\ seen = {}
      /\ LedgerTypeOK /\ rollbacks = 0
    BY LedgerAssumption DEF Init, CallInit, LedgerInit, LedgerTypeOK
<1> QED
    BY <1>1 DEF Idle, IInv, CallInv, Outcome, MomentsInv, AnswersInv, RequestsInv, CompleteInv,
                OutputsInv, RewardsInv

\* The invariant of the providers.
LEMMA InvariantHolds == Spec => []IInv
<1>1. IInv /\ [Next]_vars => IInv'
    BY NextCallInv, NextMomentsInv, NextAnswersInv, NextRequestsInv, NextCompleteInv DEF IInv
<1> QED
    BY <1>1, InitIInv, PTL DEF Spec

\* A call that resolved has all it needs.
LEMMA ResolvedIsWhole == IInv /\ call.outcome = "resolved" => Complete
BY DEF IInv, CompleteInv

-----------------------------------------------------------------------------
(* The theorems. *)

\* The stake pool search answers every pool once, and every pool that matches
\* during the whole call.
THEOREM EveryPoolIsFound == Spec => []PoolsFoundOnce
<1>1. IInv => PoolsFoundOnce
    <2> SUFFICES ASSUME IInv, Resolved("search", "queryStakePools") PROVE PoolsFoundOnce
        BY DEF PoolsFoundOnce
    <2>1. call.provider = "search" /\ ByFields \in DOMAIN got /\ ByMetadata \in DOMAIN got
        BY ResolvedIsWhole DEF Resolved, Complete
    <2>2. PICK m \in seen : got[ByFields] = {p \in Pool : "fields" \in m.matching[p]}
        BY <2>1 DEF IInv, AnswersInv
    <2>3. PICK n \in seen :
            got[ByMetadata] = {p \in Pool : "metadata" \in n.matching[p]} \ got[ByFields]
        BY <2>1 DEF IInv, AnswersInv
    <2> QED
        BY <2>2, <2>3 DEF PoolsFoundOnce
<1> QED
    BY <1>1, InvariantHolds, PTL

\* A submission resolves only when a node took the transaction.
THEOREM SubmittedIsAccepted == Spec => []ResolvedMeansAccepted
<1>1. IInv => ResolvedMeansAccepted
    <2> SUFFICES ASSUME IInv, call.fn = "submitTx", call.outcome = "resolved", NEW t \in call.args
                 PROVE  \E m \in seen : t \in m.accepted
        BY DEF ResolvedMeansAccepted
    <2>1. Complete
        BY ResolvedIsWhole
    <2>2. call.provider = "blockfrost"
        BY <2>1 DEF Complete, IInv, CallInv
    <2>3. Request("submit", t, NoArg) \in DOMAIN got
        BY <2>1, <2>2 DEF Complete
    <2>4. PICK m \in seen : Told(Request("submit", t, NoArg), got[Request("submit", t, NoArg)], m)
        BY <2>2, <2>3 DEF IInv, AnswersInv
    <2> QED
        BY <2>4 DEF Told, Request
<1> QED
    BY <1>1, InvariantHolds, PTL

\* NotFound is answered of what was not there, and what is answered by its hash
\* was there.
THEOREM NotFoundIsHonest == Spec => []NotFoundMeansAbsent
<1>1. IInv => NotFoundMeansAbsent
    <2> SUFFICES ASSUME IInv, Resolved("blockfrost", "queryTransactionsByHashes"), NEW t \in call.args
                 PROVE  \E m \in seen : t \in m.onChain
        BY DEF NotFoundMeansAbsent, IInv, CompleteInv
    <2>1. Request("tx", t, NoArg) \in DOMAIN got
        BY ResolvedIsWhole DEF Resolved, Complete, Whole, Fetched
    <2>2. PICK m \in seen : Told(Request("tx", t, NoArg), got[Request("tx", t, NoArg)], m)
        BY <2>1 DEF IInv, AnswersInv, Resolved
    <2> QED
        BY <2>2 DEF Told, Request
<1> QED
    BY <1>1, InvariantHolds, PTL

\* The outputs of several addresses are not of one moment, but each is of some.
THEOREM ReportedWasUnspent == Spec => []UtxoWasUnspent
<1>1. IInv => UtxoWasUnspent
    <2> SUFFICES ASSUME IInv, Resolved("blockfrost", "utxoDelegationAndRewards"),
                        NEW o \in TxIn, AddressOf[o] \in call.args
                 PROVE  /\ (\A m \in seen : o \in m.unspent) => o \in ReportedUtxo
                        /\ o \in ReportedUtxo => \E m \in seen : o \in m.unspent
        BY DEF UtxoWasUnspent
    <2>1. UtxoRequests(call.args) \subseteq DOMAIN got
        BY ResolvedIsWhole DEF Resolved, Complete
    <2>2. ASSUME NEW a \in call.args
          PROVE  \E m \in seen : got[Request("addressUtxos", a, NoArg)] = {x \in m.unspent : AddressOf[x] = a}
        <3>1. Request("addressUtxos", a, NoArg) \in DOMAIN got
            BY <2>1 DEF UtxoRequests
        <3>2. PICK m \in seen :
                Told(Request("addressUtxos", a, NoArg), got[Request("addressUtxos", a, NoArg)], m)
            BY <3>1 DEF IInv, AnswersInv, Resolved
        <3> QED
            BY <3>2 DEF Told, Request
    <2>3. ASSUME \A m \in seen : o \in m.unspent
          PROVE  o \in ReportedUtxo
        BY <2>2, <2>3 DEF ReportedUtxo, UtxoRequests
    <2>4. ASSUME o \in ReportedUtxo
          PROVE  \E m \in seen : o \in m.unspent
        BY <2>2, <2>4 DEF ReportedUtxo, UtxoRequests
    <2> QED
        BY <2>3, <2>4
<1> QED
    BY <1>1, InvariantHolds, PTL

\* A transaction that is answered has all its parts, but mints, and retirements
\* when it updates no pool.
THEOREM ReportedIsWhole == Spec => []TransactionsAreWhole
<1>1. IInv => TransactionsAreWhole
    <2> SUFFICES ASSUME IInv, call.provider = "blockfrost", call.outcome = "resolved",
                        NEW r \in ReportedTransactions,
                        NEW kind \in Content[r.of], kind # "mint",
                        "update" \notin Content[r.of] => kind # "retire"
                 PROVE  kind \in ReportedParts(r.of)
        BY DEF TransactionsAreWhole
    <2>1. Complete
        BY ResolvedIsWhole
    <2>2. r \in DOMAIN got /\ r.kind = "tx"
        BY DEF ReportedTransactions
    <2>3. PICK via : Whole(r.of, via)
        <3>1. CASE call.fn = "queryTransactionsByHashes"
            BY <2>1, <2>2, <3>1 DEF IInv, RequestsInv, Complete
        <3>2. CASE call.fn = "queryTransactionsByAddresses"
            BY <2>1, <2>2, <3>2 DEF IInv, RequestsInv, Complete
        <3> QED
            BY <2>2, <3>1, <3>2 DEF IInv, RequestsInv
    <2>4. kind \in PartKind
        <3>1. r.of \in Tx
            <4>1. PICK m \in seen : Told(r, got[r], m)
                BY <2>2 DEF IInv, AnswersInv
            <4>2. r.of \in m.onChain
                BY <2>2, <4>1 DEF Told
            <4> QED
                BY <4>1, <4>2 DEF IInv, MomentsInv
        <3> QED
            BY <3>1, ProviderAssumption
    <2>5. kind \in Fetched(r.of)
        BY <2>4 DEF Fetched, FetchedCertificates, CertificateKind, PartKind
    <2>6. Request(kind, r.of, via) \in DOMAIN got
        BY <2>3, <2>5 DEF Whole
    <2> QED
        BY <2>4, <2>6 DEF ReportedParts, Request
<1> QED
    BY <1>1, InvariantHolds, PTL

\* A listing that was read adds up to its full pages and the last one.
LEMMA TallyOfPages ==
    ASSUME NEW list, NEW q \in 1..(Cardinality(Pool) + 1),
           \A p \in 1..q : LET r == Request(list, p, NoArg) IN r \in DOMAIN got /\ (FullPage(got[r]) <=> p # q),
           got[Request(list, q, NoArg)] \in Nat
    PROVE  Tally(list) = PageSize * (q - 1) + got[Request(list, q, NoArg)]
<1> DEFINE f == [p \in 1..q |-> got[Request(list, p, NoArg)]]
           S == 1..(q - 1)
<1>1. Cardinality(Pool) \in Nat /\ q \in Nat /\ q >= 1
    BY ProviderAssumption, FS_CardinalityType
<1>2. Tally(list) = SumFunctionOnSet(f, 1..q)
    BY ReadIsTallied DEF Tally
<1>3. 1..q = S \cup {q} /\ q \notin S /\ IsFiniteSet(S)
    <2>1. 1..q = S \cup {q} /\ q \notin S
        BY <1>1
    <2>2. IsFiniteSet(S)
        BY <1>1, FS_Interval
    <2> QED
        BY <2>1, <2>2
<1>4. \A p \in S : f[p] = PageSize
    BY <1>1 DEF FullPage
<1>5. f[q] = got[Request(list, q, NoArg)] /\ PageSize \in Int
    BY <1>1, PageAssumption
<1>6. \A p \in S \cup {q} : f[p] \in Int
    BY <1>4, <1>5
<1>7. Cardinality(S) = q - 1
    BY <1>1, FS_Interval
<1>8. SumFunctionOnSet(f, S) = PageSize * Cardinality(S) /\ PageSize * (q - 1) \in Int
    <2>1. PageSize * (q - 1) \in Int
        BY <1>1, <1>5
    <2> HIDE DEF f, S
    <2> QED
        BY <1>3, <1>4, <1>5, <2>1, SumConstant
<1>9. SumFunctionOnSet(f, S \cup {q}) = f[q] + SumFunctionOnSet(f, S)
    <2> HIDE DEF f, S
    <2> QED
        BY <1>3, <1>6, SumAdd
<1>10. Tally(list) = got[Request(list, q, NoArg)] + PageSize * (q - 1)
    BY <1>2, <1>3, <1>5, <1>7, <1>8, <1>9
<1>11. PICK full \in Int, last \in Nat : full = PageSize * (q - 1) /\ last = got[Request(list, q, NoArg)]
    BY <1>8
<1> QED
    BY <1>10, <1>11

\* The tally of a listing is bounded by two lengths it had: the last page bounds
\* it from below, the last full one from above.
LEMMA TallyIsBounded ==
    ASSUME IInv, call.provider = "blockfrost", NEW list \in ListKind, ListRead(list)
    PROVE  \E m, n \in seen : m[list] <= Tally(list) /\ Tally(list) <= n[list]
<1> DEFINE page(p) == got[Request(list, p, NoArg)]
<1>1. PICK q \in 1..(Cardinality(Pool) + 1) :
        \A p \in 1..q :
            LET r == Request(list, p, NoArg) IN r \in DOMAIN got /\ (FullPage(got[r]) <=> p # q)
    BY DEF ListRead
<1>2. q \in Nat /\ q >= 1
    BY ProviderAssumption, FS_CardinalityType
<1>3. ASSUME NEW p \in 1..q
      PROVE  \E m \in seen : m[list] \in Nat /\ page(p) = PageOf(m[list], p)
    <2>1. Request(list, p, NoArg) \in DOMAIN got
        BY <1>1
    <2>2. PICK m \in seen : Told(Request(list, p, NoArg), page(p), m)
        BY <2>1 DEF IInv, AnswersInv
    <2>3. m[list] \in Nat
        BY ProviderAssumption, FS_CardinalityType DEF IInv, MomentsInv
    <2> QED
        BY <2>2, <2>3 DEF Told, Request
<1>4. PICK m \in seen : m[list] \in Nat /\ page(q) = PageOf(m[list], q)
    BY <1>2, <1>3
<1>5. page(q) # PageSize
    BY <1>1, <1>2 DEF FullPage
<1>6. PICK full \in Nat : full = (q - 1) * PageSize
    BY <1>2, PageAssumption
<1>7. PICK length \in Nat : length = m[list]
    BY <1>4
<1>8. page(q) = IF length - full < 0 THEN 0
                ELSE IF length - full > PageSize THEN PageSize ELSE length - full
    BY <1>4, <1>6, <1>7 DEF PageOf
<1>9. page(q) \in Nat /\ length <= full + page(q) /\ (page(q) # 0 => length = full + page(q))
    BY <1>5, <1>8, PageAssumption
<1>10. Tally(list) = full + page(q)
    <2>1. PageSize * (q - 1) = full
        BY <1>2, <1>6, PageAssumption
    <2> QED
        BY <1>1, <1>9, <2>1, TallyOfPages
<1>11. CASE page(q) # 0
    BY <1>7, <1>9, <1>10, <1>11
<1>12. CASE page(q) = 0 /\ q = 1
    <2>1. full = 0
        BY <1>6, <1>12, PageAssumption
    <2> QED
        BY <1>7, <1>9, <1>10, <1>12, <2>1
<1>13. CASE page(q) = 0 /\ q # 1
    <2>1. q - 1 \in 1..q /\ q - 1 # q
        BY <1>2, <1>13
    <2>2. page(q - 1) = PageSize
        BY <1>1, <2>1 DEF FullPage
    <2>3. PICK n \in seen : n[list] \in Nat /\ page(q - 1) = PageOf(n[list], q - 1)
        BY <1>3, <2>1
    <2>4. PICK longer \in Nat : longer = n[list]
        BY <2>3
    <2>5. PICK before \in Nat : before = ((q - 1) - 1) * PageSize /\ full = before + PageSize
        <3>1. \A k, size \in Nat : (k + 1) * size = k * size + size /\ k * size \in Nat
            OBVIOUS
        <3>2. (q - 1) - 1 \in Nat /\ ((q - 1) - 1) + 1 = q - 1
            BY <1>2, <1>13
        <3> QED
            BY <1>6, <3>1, <3>2, PageAssumption
    <2>6. PageSize = IF longer - before < 0 THEN 0
                     ELSE IF longer - before > PageSize THEN PageSize ELSE longer - before
        BY <2>2, <2>3, <2>4, <2>5 DEF PageOf
    <2>7. full <= longer
        BY <2>5, <2>6, PageAssumption
    <2> QED
        BY <1>7, <1>9, <1>10, <1>13, <2>4, <2>7
<1> QED
    BY <1>11, <1>12, <1>13

\* The statistics of the stake pools are numbers the listings had, or between
\* two of them, for any number of pools and any size of a page.
THEOREM TalliesAreBounded == Spec => []TallyWithinBounds
<1>1. IInv => TallyWithinBounds
    <2> SUFFICES ASSUME IInv, Resolved("blockfrost", "stakePoolStats"), NEW i \in DOMAIN Listings
                 PROVE  \E m, n \in seen :
                            m[Listings[i]] <= Tally(Listings[i]) /\ Tally(Listings[i]) <= n[Listings[i]]
        BY DEF TallyWithinBounds
    <2>1. Listings[i] \in ListKind
        BY DEF Listings, ListKind
    <2>2. ListRead(Listings[i])
        BY <2>1, ResolvedIsWhole DEF Resolved, Complete
    <2> QED
        BY <2>1, <2>2, TallyIsBounded DEF Resolved
<1> QED
    BY <1>1, InvariantHolds, PTL

\* Coins that are withdrawn while the wallet is read are not answered twice,
\* where an output is made once.
THEOREM RewardsAreCountedOnce ==
    ASSUME OutputsAreUnique
    PROVE  Spec => []RewardsNotCountedTwice
<1>1. ASSUME IInv, RewardsInv PROVE RewardsNotCountedTwice
    <2> SUFFICES ASSUME Resolved("blockfrost", "utxoDelegationAndRewards"),
                        rollbacks = call.rollbacks
                 PROVE  \E m \in seen :
                            /\ m.rewards = ReportedRewards
                            /\ \A t \in Tx : Outputs[t] \cap ReportedUtxo # {} => t \in m.onChain
        BY DEF RewardsNotCountedTwice
    <2>1. Request("account", NoArg, NoArg) \in DOMAIN got
        BY <1>1, ResolvedIsWhole DEF Resolved, Complete
    <2>2. PICK m \in seen :
            /\ m.rewards = ReportedRewards
            /\ \A r \in UtxoRequests(call.args) : MadeBy(got[r], m.onChain)
        BY <1>1, <2>1 DEF RewardsInv, Resolved, ReportedRewards
    <2> QED
        BY <2>2 DEF MadeBy, ReportedUtxo
<1>2. OutputsInv /\ RewardsInv /\ IInv /\ [Next]_vars => OutputsInv' /\ RewardsInv'
    BY NextOutputsInv, NextRewardsInv DEF IInv
<1> QED
    BY <1>1, <1>2, InvariantHolds, InitIInv, PTL DEF Spec

\* The history of an address lacks no transaction that was there all along.
THEOREM HistoryIsComplete == Spec => []AddressHistoryIsReported
<1>1. IInv => AddressHistoryIsReported
    <2> SUFFICES ASSUME IInv, Resolved("blockfrost", "queryTransactionsByAddresses"),
                        NEW t \in Tx, NEW a \in call.args,
                        \E o \in Inputs[t] \cup Outputs[t] : AddressOf[o] = a,
                        \A m \in seen : t \in m.onChain
                 PROVE  Request("tx", t, a) \in ReportedTransactions
        BY DEF AddressHistoryIsReported
    <2>1. Complete
        BY ResolvedIsWhole DEF Resolved
    <2>2. Request("addressTxs", a, NoArg) \in DOMAIN got
        BY <2>1 DEF Complete, Resolved, AddressLists
    <2>3. PICK m \in seen :
            Told(Request("addressTxs", a, NoArg), got[Request("addressTxs", a, NoArg)], m)
        BY <2>2 DEF IInv, AnswersInv, Resolved
    <2>4. t \in got[Request("addressTxs", a, NoArg)]
        BY <2>3 DEF Told, Request
    <2>5. Whole(t, a)
        BY <2>1, <2>4 DEF Complete, Resolved
    <2> QED
        BY <2>5 DEF Whole, Fetched, ReportedTransactions, Request
<1> QED
    BY <1>1, InvariantHolds, PTL

-----------------------------------------------------------------------------
(* The register of pools, and the order of the listings. *)

PoolState == {"none", "registered", "retiring", "retired"}

\* What the services hold besides the chain has its type, and a pool that was
\* retired at a moment of a pending call is retired still.
RegisterInv ==
    /\ pools \in [Pool -> PoolState]
    /\ epoch \in 0..MaxEpoch
    /\ matching \in [Pool -> SUBSET {"fields", "metadata"}]
    /\ call.outcome = "pending" => \A m \in seen : m.poolsRetired <= Moment.poolsRetired

\* Retired pools are listed after the others: what a page of the latter was
\* told at is a moment with no more retired pools than any page of the former.
OrderInv ==
    call.provider = "blockfrost" =>
        /\ (\E r \in DOMAIN got : r.kind = "poolsRetired") => ListTallied("pools")
        /\ \A r \in DOMAIN got : r.kind = "pools" =>
            \E m \in seen :
                /\ Told(r, got[r], m)
                /\ \A s \in DOMAIN got : s.kind = "poolsRetired" =>
                    \E n \in seen : Told(s, got[s], n) /\ m.poolsRetired <= n.poolsRetired

\* The requests of a call are records of a kind, a subject and an address.
ShapeInv == \A r \in DOMAIN got : r = Request(r.kind, r.of, r.via)

\* No pool is registered at first, and nothing has been answered.
LEMMA InitRegisterInv == Init => RegisterInv /\ OrderInv /\ ShapeInv
<1>1. ASSUME Init PROVE RegisterInv
    BY <1>1, ProviderAssumption DEF Init, CallInit, RegisterInv, PoolState, Idle
<1>2. ASSUME Init PROVE OrderInv /\ ShapeInv
    BY <1>2 DEF Init, CallInit, OrderInv, ShapeInv, Idle
<1> QED BY <1>1, <1>2

\* The register keeps its types, and no pool leaves the retired ones.
LEMMA RegisterMoves ==
    ASSUME CallInv, RegisterInv, [Next]_vars
    PROVE  /\ pools' \in [Pool -> PoolState]
           /\ epoch' \in 0..MaxEpoch
           /\ matching' \in [Pool -> SUBSET {"fields", "metadata"}]
           /\ \A p \in Pool : pools[p] = "retired" => pools'[p] = "retired"
<1>1. ASSUME NEW p \in Pool, RegisterPool(p) \/ AnnounceRetirement(p)
      PROVE  /\ pools' \in [Pool -> PoolState] /\ UNCHANGED <<epoch, matching>>
             /\ \A q \in Pool : pools[q] = "retired" => pools'[q] = "retired"
    BY <1>1 DEF RegisterInv, RegisterPool, AnnounceRetirement, PoolState
<1>2. CASE NewEpoch
    <2>1. epoch' \in 0..MaxEpoch
        BY <1>2, ProviderAssumption DEF RegisterInv, NewEpoch
    <2>2. /\ pools' \in [Pool -> PoolState] /\ UNCHANGED matching
          /\ \A q \in Pool : pools[q] = "retired" => pools'[q] = "retired"
        BY <1>2 DEF RegisterInv, NewEpoch, PoolState
    <2> QED BY <2>1, <2>2 DEF RegisterInv
<1>3. CASE PoolSearchStep
    BY <1>3 DEF RegisterInv, PoolSearchStep, EditPool
<1>4. CASE UNCHANGED <<pools, epoch, matching>>
    BY <1>4 DEF RegisterInv
<1>5. CASE ServicesMove
    BY <1>1, <1>2, <1>3, <1>4, <1>5 DEF ServicesMove, RegisterStep, RegisterInv
<1>6. CASE Begins \/ Gets \/ Loses \/ Ends \/ UNCHANGED vars
    <2>1. UNCHANGED <<pools, epoch, matching>>
        BY <1>6 DEF Begins, Begin, Gets, Loses, Ends, Settle, NodeAccepts, serverVars, vars
    <2> QED BY <1>4, <2>1
<1> QED BY <1>5, <1>6, StepKinds

\* Moments of a call only add retired pools.
LEMMA NextRegisterInv == CallInv /\ MomentsInv /\ RegisterInv /\ [Next]_vars => RegisterInv'
<1> SUFFICES ASSUME CallInv, MomentsInv, RegisterInv, [Next]_vars PROVE RegisterInv'
    OBVIOUS
<1> DEFINE now == Moment.poolsRetired
           then == Moment'.poolsRetired
<1>1. now \in Nat /\ then \in Nat /\ (\A m \in seen : m.poolsRetired \in Nat) /\ now <= then
    <2> DEFINE before == {p \in Pool : pools[p] \in {"retired"}}
               after == {p \in Pool : pools'[p] \in {"retired"}}
    <2>1. before \subseteq after /\ after \subseteq Pool
        BY RegisterMoves
    <2>2. IsFiniteSet(after) /\ IsFiniteSet(before)
        BY <2>1, ProviderAssumption, FS_Subset
    <2>3. Cardinality(before) <= Cardinality(after)
        BY <2>1, <2>2, FS_Subset
    <2>4. now = Cardinality(before) /\ then = Cardinality(after)
        BY DEF Moment, PoolsIn
    <2>5. Cardinality(Pool) \in Nat
        BY ProviderAssumption, FS_CardinalityType
    <2>6. \A m \in seen : m.poolsRetired \in Nat
        <3>1. \A m \in seen : m["poolsRetired"] \in 0..Cardinality(Pool)
            BY DEF MomentsInv, ListKind
        <3> QED BY <2>5, <3>1
    <2>7. Cardinality(before) \in Nat /\ Cardinality(after) \in Nat
        BY <2>2, FS_CardinalityType
    <2> QED BY <2>3, <2>4, <2>6, <2>7
<1>2. ASSUME call'.outcome = "pending" PROVE \A m \in seen' : m.poolsRetired <= then
    <2>1. CASE Begins
        <3>1. seen' = {Moment}
            BY <2>1 DEF Begins, Begin
        <3> HIDE DEF now, then
        <3> QED BY <1>1, <3>1 DEF now
    <2>2. CASE ~Begins
        <3>1. call.outcome = "pending" /\ seen' \subseteq seen \cup {Moment'}
            BY <1>2, <2>2, StepKinds
               DEF ServicesMove, Gets, Loses, Ends, Settle, NodeAccepts, Rejections, CallInv, vars
        <3>2. \A m \in seen : m.poolsRetired <= now
            BY <3>1 DEF RegisterInv
        <3>3. \A m \in seen' : m \in seen \/ m.poolsRetired = then
            BY <3>1
        <3> HIDE DEF now, then
        <3> QED BY <1>1, <3>2, <3>3
    <2> QED BY <2>1, <2>2
<1> QED BY <1>2, RegisterMoves DEF RegisterInv

\* Once the list of pools has been tallied, no page of it is asked for.
LEMMA TalliedIsRead ==
    ASSUME ListTallied("pools"), NEW p \in PagesOf("pools")
    PROVE  Request("pools", p, NoArg) \in DOMAIN got
<1>1. PICK q \in PagesOf("pools") :
        Request("pools", q, NoArg) \in DOMAIN got /\ ~FullPage(got[Request("pools", q, NoArg)])
    BY DEF ListTallied
<1>2. Cardinality(Pool) \in Nat /\ p \in Nat /\ q \in Nat /\ p >= 1 /\ q >= 1
    BY ProviderAssumption, FS_CardinalityType DEF PagesOf
<1>3. CASE p = q
    BY <1>1, <1>3
<1>4. CASE p < q
    <2>1. p \in 1..(q - 1)
        BY <1>2, <1>4
    <2> QED BY <2>1 DEF PagesOf
<1>5. CASE q < p
    <2>1. q \in 1..(p - 1)
        BY <1>2, <1>5
    <2>2. FullPage(got[Request("pools", q, NoArg)])
        BY <2>1 DEF PagesOf
    <2> QED BY <1>1, <2>2
<1> QED BY <1>2, <1>3, <1>4, <1>5

\* Of the listings, the retired pools are asked for after the others.
LEMMA ListsAreOrdered ==
    ASSUME call.fn \in WalletFunction, NEW r \in Wanted
    PROVE  /\ r.kind = "pools" => \E p \in PagesOf("pools") : r = Request("pools", p, NoArg)
           /\ r.kind = "poolsRetired" => ListTallied("pools")
<1>1. CASE call.fn = "stakePoolStats"
    <2>1. PICK i \in DOMAIN Listings :
            /\ \A k \in 1..(i - 1) : ListTallied(Listings[k])
            /\ \E p \in PagesOf(Listings[i]) : r = Request(Listings[i], p, NoArg)
        BY <1>1 DEF Wanted, WantedStats
    <2>2. r.kind = Listings[i] /\ i \in 1..3
        BY <2>1 DEF Request, Listings
    <2>3. CASE i = 1
        BY <2>1, <2>2, <2>3 DEF Listings
    <2>4. CASE i = 2
        <3>1. ListTallied(Listings[1])
            BY <2>1, <2>4
        <3> QED BY <2>2, <2>4, <3>1 DEF Listings
    <2>5. CASE i = 3
        BY <2>2, <2>5 DEF Listings
    <2> QED BY <2>2, <2>3, <2>4, <2>5
<1>2. CASE call.fn # "stakePoolStats"
    <2>1. r.kind \notin ListKind
        <3>1. CASE call.fn = "utxoDelegationAndRewards"
            BY <3>1 DEF Wanted, WantedUtxo, UtxoRequests, Request, ListKind
        <3>2. CASE call.fn = "queryTransactionsByHashes"
            BY <3>2, FetchShape, FetchedKinds DEF Wanted, WantedTransactions
        <3>3. CASE call.fn = "queryTransactionsByAddresses"
            <4>1. \/ r \in AddressLists(call.args)
                  \/ \E a \in call.args : \E t \in got[Request("addressTxs", a, NoArg)] :
                        r \in FetchTransaction(t, a)
                BY <3>3 DEF Wanted, WantedByAddresses, WantedTransactions, AddressLists
            <4>2. ASSUME r \in AddressLists(call.args) PROVE r.kind \notin ListKind
                BY <4>2 DEF AddressLists, Request, ListKind
            <4> QED BY <4>1, <4>2, FetchShape, FetchedKinds
        <3>4. CASE call.fn = "networkInfo"
            BY <3>4 DEF Wanted, SentOf, Request, ListKind
        <3>5. CASE call.fn = "submitTx"
            BY <3>5 DEF Wanted, Request, ListKind
        <3>6. CASE call.fn \in {"ledgerTip", "currentWalletProtocolParameters"}
            BY <3>6 DEF Wanted, Request, SingleRequest, ListKind
        <3> QED BY <1>2, <3>1, <3>2, <3>3, <3>4, <3>5, <3>6 DEF WalletFunction
    <2> QED BY <2>1 DEF ListKind
<1> QED BY <1>1, <1>2

\* A listing stays tallied.
LEMMA TalliedStays ==
    ASSUME Gets, ListTallied("pools") PROVE ListTallied("pools")'
<1>1. DOMAIN got \subseteq DOMAIN got' /\ \A r \in DOMAIN got : got'[r] = got[r]
    BY GetsKeeps
<1>2. PagesOf("pools") \subseteq PagesOf("pools")'
    BY <1>1 DEF PagesOf, FullPage
<1> QED BY <1>1, <1>2 DEF ListTallied, FullPage

\* A page of retired pools is answered later than every page of the others.
LEMMA NextOrderInv ==
    CallInv /\ MomentsInv /\ AnswersInv /\ RegisterInv /\ OrderInv /\ [Next]_vars => OrderInv'
<1> SUFFICES ASSUME CallInv, MomentsInv, AnswersInv, RegisterInv, OrderInv, [Next]_vars
             PROVE  OrderInv'
    OBVIOUS
<1>1. CASE got' = got /\ call'.provider = call.provider /\ seen \subseteq seen'
    BY <1>1 DEF OrderInv, ListTallied, PagesOf, FullPage
<1>2. CASE got' = got /\ DOMAIN got' = {}
    BY <1>2 DEF OrderInv
<1>3. CASE Gets
    <2> SUFFICES ASSUME call.provider = "blockfrost" PROVE OrderInv'
        BY <1>3, GetsKeeps DEF OrderInv
    <2>1. PICK s \in Outstanding : Answer(s)
        BY <1>3 DEF Gets, Answers, DbSyncOutstanding, DbSyncPending, SearchOutstanding, SearchPending
    <2>2. /\ s \in Wanted /\ s \notin DOMAIN got /\ call.fn \in WalletFunction /\ call.outcome = "pending"
          /\ call' = call
        BY <1>3, <2>1, GetsKeeps DEF Outstanding, Pending, CallInv
    <2>3. /\ DOMAIN got' = DOMAIN got \cup {s} /\ \A r \in DOMAIN got : got'[r] = got[r]
          /\ seen \subseteq seen' /\ Moment \in seen
        BY <1>3, <2>1, <2>2, GetsKeeps DEF Answer, Receive, Received, CallInv
    <2>4. s.kind \in ListKind => Told(s, got'[s], Moment)
        <3>1. s.kind \in ListKind => s.kind # "submit"
            BY DEF ListKind
        <3>2. s.kind # "submit" => got'[s] = AnswerTo(s) /\ ~Missing(s)
            BY <2>1 DEF Answer, Receive, Received
        <3> QED BY <3>1, <3>2, AnswerIsTold
    <2>5. \A m \in seen : m.poolsRetired <= Moment.poolsRetired
        BY <2>2 DEF RegisterInv
    <2>6. ASSUME \E r \in DOMAIN got' : r.kind = "poolsRetired" PROVE ListTallied("pools")
        BY <2>2, <2>3, <2>6, ListsAreOrdered DEF OrderInv
    <2>7. ASSUME NEW r \in DOMAIN got', r.kind = "pools"
          PROVE  \E m \in seen' :
                    /\ Told(r, got'[r], m)
                    /\ \A t \in DOMAIN got' : t.kind = "poolsRetired" =>
                        \E n \in seen' : Told(t, got'[t], n) /\ m.poolsRetired <= n.poolsRetired
        <3>1. CASE r = s
            <4>1. ~ ListTallied("pools")
                BY <2>2, <2>7, <3>1, ListsAreOrdered, TalliedIsRead
            <4>2. Told(r, got'[r], Moment)
                BY <2>4, <2>7, <3>1 DEF ListKind
            <4> QED BY <2>3, <2>6, <4>1, <4>2
        <3>2. CASE r # s
            <4>1. PICK m \in seen :
                    /\ Told(r, got[r], m)
                    /\ \A t \in DOMAIN got : t.kind = "poolsRetired" =>
                        \E n \in seen : Told(t, got[t], n) /\ m.poolsRetired <= n.poolsRetired
                BY <2>3, <2>7, <3>2 DEF OrderInv
            <4>2. Told(r, got'[r], m) /\ m \in seen'
                BY <2>3, <2>7, <3>2, <4>1
            <4>3. ASSUME NEW t \in DOMAIN got', t.kind = "poolsRetired"
                  PROVE  \E n \in seen' : Told(t, got'[t], n) /\ m.poolsRetired <= n.poolsRetired
                <5>1. CASE t = s
                    BY <2>3, <2>4, <2>5, <4>1, <4>3, <5>1 DEF ListKind
                <5>2. CASE t # s
                    BY <2>3, <4>1, <4>3, <5>2
                <5> QED BY <5>1, <5>2
            <4> QED BY <4>2, <4>3
        <3> QED BY <3>1, <3>2
    <2>8. (\E r \in DOMAIN got' : r.kind = "poolsRetired") => ListTallied("pools")'
        BY <1>3, <2>6, TalliedStays
    <2> QED BY <2>7, <2>8 DEF OrderInv
<1> QED BY <1>1, <1>2, <1>3, GotStep

\* The last page of a listing was answered when its length was at most the tally.
LEMMA LastPageIsCounted ==
    ASSUME NEW list, NEW q \in 1..(Cardinality(Pool) + 1),
           \A p \in 1..q : LET r == Request(list, p, NoArg) IN r \in DOMAIN got /\ (FullPage(got[r]) <=> p # q),
           NEW length \in Nat, got[Request(list, q, NoArg)] = PageOf(length, q)
    PROVE  Tally(list) \in Nat /\ length <= Tally(list)
<1> DEFINE page == got[Request(list, q, NoArg)]
<1>1. q \in Nat /\ q >= 1 /\ page # PageSize
    BY ProviderAssumption, FS_CardinalityType DEF FullPage
<1>2. PICK full \in Nat : full = (q - 1) * PageSize
    BY <1>1, PageAssumption
<1>3. page = IF length - full < 0 THEN 0
             ELSE IF length - full > PageSize THEN PageSize ELSE length - full
    BY <1>2 DEF PageOf
<1> HIDE DEF page
<1>4. page \in Nat /\ length <= full + page
    BY <1>1, <1>3, PageAssumption
<1>5. Tally(list) = full + page
    <2>1. PageSize * (q - 1) = full
        BY <1>1, <1>2, PageAssumption
    <2> QED BY <1>4, <2>1, TallyOfPages DEF page
<1> QED BY <1>4, <1>5

\* A pool that retires while the listings are read is counted at least once,
\* for any number of pools and any size of a page: the active pools are tallied
\* before the retired ones (blockfrostProvider.ts, stakePoolStats).
THEOREM PoolsAreNotMissed == Spec => []NoPoolMissed
<1>1. ASSUME IInv, OrderInv PROVE NoPoolMissed
    <2> SUFFICES ASSUME Resolved("blockfrost", "stakePoolStats")
                 PROVE  \E m \in seen : m.pools + m.poolsRetired <= Tally("pools") + Tally("poolsRetired")
        BY DEF NoPoolMissed
    <2>1. ListRead("pools") /\ ListRead("poolsRetired")
        BY <1>1, ResolvedIsWhole DEF Resolved, Complete, ListKind
    <2>2. PICK q \in 1..(Cardinality(Pool) + 1) : \A p \in 1..q :
            LET r == Request("pools", p, NoArg) IN r \in DOMAIN got /\ (FullPage(got[r]) <=> p # q)
        BY <2>1 DEF ListRead
    <2>3. PICK s \in 1..(Cardinality(Pool) + 1) : \A p \in 1..s :
            LET r == Request("poolsRetired", p, NoArg) IN r \in DOMAIN got /\ (FullPage(got[r]) <=> p # s)
        BY <2>1 DEF ListRead
    <2>4. q \in 1..q /\ s \in 1..s
        BY ProviderAssumption, FS_CardinalityType
    <2> DEFINE active == Request("pools", q, NoArg)
               retired == Request("poolsRetired", s, NoArg)
    <2>5. /\ active \in DOMAIN got /\ active.kind = "pools" /\ active.of = q
          /\ retired \in DOMAIN got /\ retired.kind = "poolsRetired" /\ retired.of = s
        BY <2>2, <2>3, <2>4 DEF Request
    <2> HIDE DEF active, retired
    <2>6. PICK m \in seen :
            /\ Told(active, got[active], m)
            /\ \A t \in DOMAIN got : t.kind = "poolsRetired" =>
                \E n \in seen : Told(t, got[t], n) /\ m.poolsRetired <= n.poolsRetired
        BY <1>1, <2>5 DEF OrderInv, Resolved
    <2>7. PICK n \in seen : Told(retired, got[retired], n) /\ m.poolsRetired <= n.poolsRetired
        BY <2>5, <2>6
    <2>8. \A k \in seen : k["pools"] \in Nat /\ k["poolsRetired"] \in Nat
        BY <1>1, ProviderAssumption, FS_CardinalityType DEF IInv, MomentsInv, ListKind
    <2>9. got[active] = PageOf(m["pools"], q) /\ got[retired] = PageOf(n["poolsRetired"], s)
        BY <2>5, <2>6, <2>7 DEF Told, ListKind
    <2>10. Tally("pools") \in Nat /\ m["pools"] <= Tally("pools")
        BY <2>2, <2>8, <2>9, LastPageIsCounted DEF active
    <2>11. Tally("poolsRetired") \in Nat /\ n["poolsRetired"] <= Tally("poolsRetired")
        BY <2>3, <2>8, <2>9, LastPageIsCounted DEF retired
    <2>12. PICK a \in Nat, b \in Nat, c \in Nat : a = m.pools /\ b = m.poolsRetired /\ c = n.poolsRetired
        BY <2>8
    <2>13. a + b <= Tally("pools") + Tally("poolsRetired")
        BY <2>7, <2>10, <2>11, <2>12
    <2> QED BY <2>12, <2>13
<1>2. IInv /\ RegisterInv /\ OrderInv /\ [Next]_vars => RegisterInv' /\ OrderInv'
    BY NextRegisterInv, NextOrderInv DEF IInv
<1> QED BY <1>1, <1>2, InitRegisterInv, InvariantHolds, PTL DEF Spec

\* Every function asks for what a request can name.
LEMMA WantedAreRequests ==
    ASSUME call.fn \in WalletFunction, NEW r \in Wanted
    PROVE  r = Request(r.kind, r.of, r.via)
<1>1. CASE call.fn = "utxoDelegationAndRewards"
    BY <1>1 DEF Wanted, WantedUtxo, UtxoRequests, Request
<1>2. CASE call.fn = "queryTransactionsByHashes"
    BY <1>2, FetchShape DEF Wanted, WantedTransactions
<1>3. CASE call.fn = "queryTransactionsByAddresses"
    <2>1. \/ r \in AddressLists(call.args)
          \/ \E a \in call.args : \E t \in got[Request("addressTxs", a, NoArg)] :
                r \in FetchTransaction(t, a)
        BY <1>3 DEF Wanted, WantedByAddresses, WantedTransactions, AddressLists
    <2>2. ASSUME r \in AddressLists(call.args) PROVE r = Request(r.kind, r.of, r.via)
        BY <2>2 DEF AddressLists, Request
    <2> QED BY <2>1, <2>2, FetchShape
<1>4. CASE call.fn = "stakePoolStats"
    <2>1. \E list, p : r = Request(list, p, NoArg)
        BY <1>4 DEF Wanted, WantedStats
    <2> QED BY <2>1 DEF Request
<1>5. CASE call.fn = "networkInfo"
    <2>1. r \in {Request("epoch", NoArg, NoArg), Request("network", NoArg, NoArg)}
        BY <1>5 DEF Wanted, SentOf
    <2> QED BY <2>1 DEF Request
<1>6. CASE call.fn = "submitTx"
    BY <1>6 DEF Wanted, Request
<1>7. CASE call.fn \in {"ledgerTip", "currentWalletProtocolParameters"}
    <2>1. r = Request(SingleRequest(call.fn), NoArg, NoArg)
        BY <1>7 DEF Wanted
    <2> QED BY <2>1 DEF Request
<1> QED BY <1>1, <1>2, <1>3, <1>4, <1>5, <1>6, <1>7 DEF WalletFunction

\* What is answered was asked for.
LEMMA NextShapeInv == CallInv /\ ShapeInv /\ [Next]_vars => ShapeInv'
<1> SUFFICES ASSUME CallInv, ShapeInv, [Next]_vars PROVE ShapeInv'
    OBVIOUS
<1>1. CASE got' = got \/ DOMAIN got' = {}
    BY <1>1 DEF ShapeInv
<1>2. CASE Gets
    <2>1. ASSUME NEW r, NEW answer, Received(r, answer), r = Request(r.kind, r.of, r.via)
          PROVE  ShapeInv'
        <3>1. DOMAIN got' = DOMAIN got \cup {r}
            BY <2>1 DEF Received
        <3> QED BY <2>1, <3>1 DEF ShapeInv
    <2>2. ASSUME NEW r \in Outstanding, Answer(r) PROVE ShapeInv'
        <3>1. r = Request(r.kind, r.of, r.via)
            BY <2>2, WantedAreRequests DEF Outstanding, Pending, CallInv
        <3>2. \E answer : Received(r, answer)
            BY <2>2 DEF Answer, Receive
        <3> QED BY <2>1, <3>1, <3>2
    <2>3. ASSUME NEW r \in DbSyncOutstanding, DbSyncAnswer(r) PROVE ShapeInv'
        <3>1. \E kind : r = Request(kind, NoArg, NoArg)
            BY <2>3 DEF DbSyncOutstanding, SentOf, DbSyncChain
        <3>2. r = Request(r.kind, r.of, r.via)
            BY <3>1 DEF Request
        <3>3. \E answer : Received(r, answer)
            BY <2>3 DEF DbSyncAnswer, Receive
        <3> QED BY <2>1, <3>2, <3>3
    <2>4. ASSUME NEW r \in SearchOutstanding, SearchAnswer(r) PROVE ShapeInv'
        <3>1. r \in {ByFields, ByMetadata}
            BY <2>4 DEF SearchOutstanding, SentOf
        <3>2. r = Request(r.kind, r.of, r.via)
            BY <3>1 DEF ByFields, ByMetadata, Request
        <3>3. \E answer : Received(r, answer)
            BY <2>4 DEF SearchAnswer, Receive
        <3> QED BY <2>1, <3>2, <3>3
    <2> QED BY <1>2, <2>2, <2>3, <2>4 DEF Gets, Answers
<1> QED BY <1>1, <1>2, GotStep

\* The services, the call and the requests have their types.
THEOREM ProvidersTypeCorrect == Spec => []ProvidersTypeOK
<1>1. IInv /\ RegisterInv /\ ShapeInv => ProvidersTypeOK
    <2> SUFFICES ASSUME IInv, RegisterInv, ShapeInv PROVE ProvidersTypeOK
        OBVIOUS
    <2>1. DOMAIN got \subseteq [kind : {r.kind : r \in DOMAIN got}, of : {r.of : r \in DOMAIN got},
                                via : {r.via : r \in DOMAIN got}]
        BY DEF ShapeInv, Request
    <2> QED BY <2>1 DEF ProvidersTypeOK, IInv, CallInv, RegisterInv, PoolState
<1>2. IInv /\ RegisterInv /\ ShapeInv /\ [Next]_vars => RegisterInv' /\ ShapeInv'
    BY NextRegisterInv, NextShapeInv DEF IInv
<1> QED BY <1>1, <1>2, InitRegisterInv, InvariantHolds, PTL DEF Spec

=============================================================================
