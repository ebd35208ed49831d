---------------------------- MODULE WalletProofs ----------------------------
(***************************************************************************)
(* Theorems about Wallet: it drives the tracker and the repository as they *)
(* are specified, so that the theorems about each of them hold in it; and  *)
(* what the two promise together.                                          *)
(*                                                                         *)
(* TrackerT and RepositoryT are the two components with their theorems.    *)
(* Wallet instantiates the components alone, as Tracker and Repository;    *)
(* the lemmas of the first section say that this makes no difference.  The *)
(* balances of RepositoryT listen to the repository and change nothing.    *)
(***************************************************************************)
EXTENDS Wallet, TLAPS

TrackerT == INSTANCE TransactionTrackerProofs
RepositoryT ==
    INSTANCE UtxoRepositoryProofs
        WITH Handler <- Call, total <- None, available <- None, lastEvent <- None

-----------------------------------------------------------------------------
(* The components and the components with theorems are the same.             *)

\* The assumptions the theorems of the components need.
LEMMA ComponentAssumptions ==
    /\ TrackerT!LedgerAssumption /\ TrackerT!TrackerAssumption
    /\ RepositoryT!LedgerAssumption /\ RepositoryT!RepositoryAssumption
    /\ RepositoryT!ObjectAssumption
<1>1. RepositoryT!Cardinality(Call) = Repository!Cardinality(Call)
    BY DEF RepositoryT!Cardinality, Repository!Cardinality,
           RepositoryT!IsFiniteSet, Repository!IsFiniteSet
<1> USE LedgerAssumption, WalletAssumption
        DEF IsFiniteSet, TrackerT!IsFiniteSet, RepositoryT!IsFiniteSet, Repository!IsFiniteSet
<1>2. TrackerT!LedgerAssumption
    BY DEF TrackerT!LedgerAssumption
<1>3. TrackerT!TrackerAssumption
    BY DEF TrackerT!TrackerAssumption, Tracker!TrackerAssumption
<1>4. RepositoryT!LedgerAssumption
    BY DEF RepositoryT!LedgerAssumption
<1>5. RepositoryT!RepositoryAssumption
    BY DEF RepositoryT!RepositoryAssumption, Repository!RepositoryAssumption
<1>6. RepositoryT!ObjectAssumption
    BY <1>1 DEF RepositoryT!ObjectAssumption, Repository!ObjectAssumption, RepositoryT!Utxo, Repository!Utxo,
           RepositoryT!SyncId, Repository!SyncId
<1> QED
    BY <1>2, <1>3, <1>4, <1>5, <1>6

\* The tracker.
LEMMA SameTracker ==
    /\ Tracker!Init => TrackerT!Init
    /\ [Tracker!Next]_(Tracker!vars) <=> [TrackerT!Next]_(TrackerT!vars)
<1>1. Tracker!Init => TrackerT!Init
    BY DEF Tracker!Init, TrackerT!Init, Tracker!LedgerInit, TrackerT!LedgerInit,
           Tracker!TrackerInit, TrackerT!TrackerInit
<1>2. Tracker!Next <=> TrackerT!Next
    BY DEF Tracker!Next, TrackerT!Next, Tracker!TrackerStep, TrackerT!TrackerStep,
           Tracker!TrackerCall, TrackerT!TrackerCall, Tracker!Track, TrackerT!Track,
           Tracker!SubmissionFails, TrackerT!SubmissionFails, Tracker!JoinPending,
           TrackerT!JoinPending, Tracker!RefuseNoTtl, TrackerT!RefuseNoTtl,
           Tracker!StartPolling, TrackerT!StartPolling, Tracker!PollStep,
           TrackerT!PollStep, Tracker!TrackerQuiet, TrackerT!TrackerQuiet,
           Tracker!DelayElapsed, TrackerT!DelayElapsed, Tracker!ProviderReplies,
           TrackerT!ProviderReplies, Tracker!TxFound, TrackerT!TxFound,
           Tracker!TxNotFound, TrackerT!TxNotFound, Tracker!TxQueryFails,
           TrackerT!TxQueryFails, Tracker!TipStillValid, TrackerT!TipStillValid,
           Tracker!TipExpired, TrackerT!TipExpired, Tracker!TipQueryFails,
           TrackerT!TipQueryFails, Tracker!Settle, TrackerT!Settle, Tracker!Proceed,
           TrackerT!Proceed, Tracker!TrackerMicrotask, TrackerT!TrackerMicrotask,
           Tracker!Forget, TrackerT!Forget, Tracker!DeliverNewTransaction,
           TrackerT!DeliverNewTransaction, Tracker!trackerVars, TrackerT!trackerVars,
           Tracker!ledgerVars, TrackerT!ledgerVars, Tracker!LedgerStep,
           TrackerT!LedgerStep, Tracker!ChainGrows, TrackerT!ChainGrows,
           Tracker!AccrueRewards, TrackerT!AccrueRewards, Tracker!Rollback,
           TrackerT!Rollback, Tracker!MintBlock, TrackerT!MintBlock, Tracker!InTime,
           TrackerT!InTime, Tracker!Accept, TrackerT!Accept, Tracker!Unspent,
           TrackerT!Unspent, Tracker!OnChain, TrackerT!OnChain,
           Tracker!RewardBalance, TrackerT!RewardBalance, Tracker!Withdrawn,
           TrackerT!Withdrawn, Tracker!SumFunctionOnSet, TrackerT!SumFunctionOnSet,
           Tracker!FoldFunctionOnSet, TrackerT!FoldFunctionOnSet,
           Tracker!MapThenFoldSet, TrackerT!MapThenFoldSet
<1> QED
    BY <1>1, <1>2 DEF Tracker!vars, TrackerT!vars, Tracker!ledgerVars, TrackerT!ledgerVars,
           Tracker!trackerVars, TrackerT!trackerVars

\* The repository.
LEMMA SameRepository ==
    /\ Repository!Init => RepositoryT!Init
    /\ [Repository!Next]_(Repository!vars) <=> [RepositoryT!Next]_(RepositoryT!vars)
<1>1. Repository!Init => RepositoryT!Init
    BY DEF Repository!Init, RepositoryT!Init, Repository!LedgerInit, RepositoryT!LedgerInit,
           Repository!RepoInit, RepositoryT!RepoInit, Repository!SyncId,
           RepositoryT!SyncId, Repository!NoReply, RepositoryT!NoReply,
           Repository!Cardinality, RepositoryT!Cardinality, Repository!IsFiniteSet,
           RepositoryT!IsFiniteSet
<1>2. Repository!Next <=> RepositoryT!Next
    BY DEF Repository!Next, RepositoryT!Next, Repository!RepoStep, RepositoryT!RepoStep,
           Repository!Sync, RepositoryT!Sync, Repository!SendSync,
           RepositoryT!SendSync, Repository!UserSyncs, RepositoryT!UserSyncs,
           Repository!ProviderReads, RepositoryT!ProviderReads,
           Repository!RepoReply, RepositoryT!RepoReply,
           Repository!ApplySync, RepositoryT!ApplySync, Repository!FailSync,
           RepositoryT!FailSync, Repository!OnTransaction, RepositoryT!OnTransaction,
           Repository!ConfirmedSettles, RepositoryT!ConfirmedSettles,
           Repository!RepoMicrotask, RepositoryT!RepoMicrotask, Repository!Unlock,
           RepositoryT!Unlock, Repository!DeliverEvent, RepositoryT!DeliverEvent,
           Repository!RepoQuiet, RepositoryT!RepoQuiet, Repository!NewUtxos,
           RepositoryT!NewUtxos, Repository!GoneUtxos, RepositoryT!GoneUtxos,
           Repository!ObjectsOf, RepositoryT!ObjectsOf, Repository!Reference,
           RepositoryT!Reference, Repository!Changed, RepositoryT!Changed,
           Repository!OutOfSync, RepositoryT!OutOfSync, Repository!Fields,
           RepositoryT!Fields, Repository!AvailableUtxos, RepositoryT!AvailableUtxos,
           Repository!AvailableRewards, RepositoryT!AvailableRewards,
           Repository!SyncId, RepositoryT!SyncId, Repository!repoVars,
           RepositoryT!repoVars, Repository!Cardinality, RepositoryT!Cardinality,
           Repository!IsFiniteSet, RepositoryT!IsFiniteSet, Repository!ledgerVars,
           RepositoryT!ledgerVars, Repository!LedgerStep, RepositoryT!LedgerStep,
           Repository!ChainGrows, RepositoryT!ChainGrows, Repository!AccrueRewards,
           RepositoryT!AccrueRewards, Repository!Rollback, RepositoryT!Rollback,
           Repository!MintBlock, RepositoryT!MintBlock, Repository!InTime,
           RepositoryT!InTime, Repository!Accept, RepositoryT!Accept,
           Repository!Unspent, RepositoryT!Unspent, Repository!OnChain,
           RepositoryT!OnChain, Repository!RewardBalance, RepositoryT!RewardBalance,
           Repository!Withdrawn, RepositoryT!Withdrawn, Repository!SumFunctionOnSet,
           RepositoryT!SumFunctionOnSet, Repository!FoldFunctionOnSet,
           RepositoryT!FoldFunctionOnSet, Repository!MapThenFoldSet,
           RepositoryT!MapThenFoldSet
<1> QED
    BY <1>1, <1>2 DEF Repository!vars, RepositoryT!vars, Repository!ledgerVars, RepositoryT!ledgerVars,
           Repository!repoVars, RepositoryT!repoVars

-----------------------------------------------------------------------------
(* The inductive invariant of the handlers. *)

\* What each component keeps true by itself.
ComponentsInv ==
    /\ TrackerT!IInv
    /\ RepositoryT!RepoTypes
    /\ RepositoryT!RewardsInv

\* A poll is announced while it runs and before it is handled.
AnnouncedInv ==
    \A p \in announced : poll[p] \in Tracker!LivePoll /\ handler[p] = "none"

Ending(h) == Woken(h) \/ handler[h] = "resuming"

\* A poll settles only when all microtasks have run.  Until its handler has
\* unlocked there are no others: nothing is announced, no event is under way
\* and no other handler ends.
EndingInv ==
    \A h \in Call : Ending(h) =>
        /\ announced = {}
        /\ events = <<>>
        /\ \A g \in Call : Ending(g) => g = h

WalletInv == ComponentsInv /\ OneHandlerPerPoll /\ AnnouncedInv /\ EndingInv

-----------------------------------------------------------------------------
(* Every step of the wallet is a step of each component, or none.            *)

\* The chain is the same for both.
LEMMA SameChain ==
    /\ LedgerStep => Tracker!LedgerStep /\ Repository!LedgerStep
    /\ \A t \in Tx : Accept(t) => Tracker!Accept(t) /\ Repository!Accept(t)
<1>1. LedgerStep => Tracker!LedgerStep
    BY DEF LedgerStep, Tracker!LedgerStep, ChainGrows, Tracker!ChainGrows,
           AccrueRewards, Tracker!AccrueRewards, Rollback, Tracker!Rollback,
           MintBlock, Tracker!MintBlock, InTime, Tracker!InTime,
           Unspent, Tracker!Unspent, OnChain, Tracker!OnChain,
           RewardBalance, Tracker!RewardBalance, Withdrawn, Tracker!Withdrawn,
           SumFunctionOnSet, Tracker!SumFunctionOnSet,
           FoldFunctionOnSet, Tracker!FoldFunctionOnSet,
           MapThenFoldSet, Tracker!MapThenFoldSet
<1>2. LedgerStep => Repository!LedgerStep
    BY DEF LedgerStep, Repository!LedgerStep, ChainGrows, Repository!ChainGrows,
           AccrueRewards, Repository!AccrueRewards, Rollback, Repository!Rollback,
           MintBlock, Repository!MintBlock, InTime, Repository!InTime,
           Unspent, Repository!Unspent, OnChain, Repository!OnChain,
           RewardBalance, Repository!RewardBalance, Withdrawn, Repository!Withdrawn,
           SumFunctionOnSet, Repository!SumFunctionOnSet,
           FoldFunctionOnSet, Repository!FoldFunctionOnSet,
           MapThenFoldSet, Repository!MapThenFoldSet
<1> QED
    BY <1>1, <1>2 DEF Accept, Tracker!Accept, Repository!Accept

\* The tracker: a transaction that a node accepts is one that was submitted.
LEMMA TrackerSteps ==
    ASSUME TrackerT!IInv, [Next]_vars
    PROVE  [Tracker!Next]_(Tracker!vars)
<1> USE DEF trackerVars, ledgerVars, Tracker!trackerVars, Tracker!ledgerVars
<1>1. ASSUME UNCHANGED <<ledgerVars, trackerVars>> PROVE UNCHANGED Tracker!vars
    BY <1>1 DEF Tracker!vars
<1>2. ASSUME NEW c \in Call, Tracker!TrackerCall(c), UNCHANGED ledgerVars
      PROVE  Tracker!Next
    BY <1>2 DEF Tracker!Next, Tracker!TrackerStep
<1>3. ASSUME NEW c \in Call,
             \/ \E t \in Tx : SubmitTx(c, t)
             \/ Submitted(c)
             \/ FailedToSubmit(c)
      PROVE  Tracker!Next
    BY <1>2, <1>3 DEF SubmitTx, Submitted, FailedToSubmit, Tracker!TrackerCall
<1>4. ASSUME NEW c \in Call, NodeAccepts(c) PROVE Tracker!Next
    <2>1. callTx[c] \in Tx
        BY <1>4 DEF NodeAccepts, TrackerT!IInv, TrackerT!ControlInv
    <2> QED
        BY <1>4, <2>1, SameChain DEF NodeAccepts, Tracker!Next
<1>5. ASSUME NEW p \in Call, NewTransaction(p) \/ TrackerForgets(p) PROVE Tracker!Next
    BY <1>5 DEF NewTransaction, TrackerForgets, Tracker!TrackerMicrotask,
                Tracker!TrackerStep, Tracker!Next
<1>6. ASSUME NEW p \in Call, TrackerPolls(p) PROVE Tracker!Next
    BY <1>6 DEF TrackerPolls, Tracker!TrackerStep, Tracker!Next
<1>7. CASE ChainWorks
    BY <1>7, SameChain DEF ChainWorks, Tracker!Next
<1>8. ASSUME NEW t \in Tx,
             \/ InitializeTx(t) \/ TipFails(t) \/ SelectInputs(t)
             \/ SyncBeforeSelecting(t) \/ SelectAfterSync(t)
      PROVE  UNCHANGED <<ledgerVars, trackerVars>>
    BY <1>8 DEF InitializeTx, TipFails, SelectInputs, SyncBeforeSelecting, SelectAfterSync
<1>9. ASSUME \/ \E h \in Call : HandlerWakes(h)
             \/ \E n \in Repository!SyncId : SyncReply(n)
             \/ RepositoryWorks
             \/ UNCHANGED vars
      PROVE  UNCHANGED <<ledgerVars, trackerVars>>
    BY <1>9 DEF HandlerWakes, SyncReply, RepositoryWorks, vars
<1> QED
    BY <1>1, <1>3, <1>4, <1>5, <1>6, <1>7, <1>8, <1>9 DEF Next

\* The repository: a handler starts with the transaction of a poll, and wakes
\* when the repository has no microtask left.
LEMMA RepositorySteps ==
    ASSUME TrackerT!IInv, AnnouncedInv, EndingInv, [Next]_vars
    PROVE  [Repository!Next]_(Repository!vars)
<1> USE DEF repoVars, ledgerVars, Repository!repoVars, Repository!ledgerVars
<1>1. ASSUME UNCHANGED <<ledgerVars, repoVars>> PROVE UNCHANGED Repository!vars
    BY <1>1 DEF Repository!vars
<1>2. ASSUME Repository!RepoStep, UNCHANGED ledgerVars PROVE Repository!Next
    BY <1>2 DEF Repository!Next
<1>3. ASSUME NEW t \in Tx, SyncBeforeSelecting(t) PROVE Repository!Next
    BY <1>2, <1>3 DEF SyncBeforeSelecting, Repository!RepoStep
<1>4. ASSUME NEW c \in Call, NodeAccepts(c) PROVE Repository!Next
    <2>1. callTx[c] \in Tx
        BY <1>4 DEF NodeAccepts, TrackerT!IInv, TrackerT!ControlInv
    <2> QED
        BY <1>4, <2>1, SameChain DEF NodeAccepts, Repository!Next
<1>5. ASSUME NEW p \in Call, NewTransaction(p) PROVE Repository!Next
    <2>1. callTx[p] \in Tx
        BY <1>5 DEF NewTransaction, Tracker!DeliverNewTransaction, AnnouncedInv,
                    Tracker!LivePoll, TrackerT!IInv, TrackerT!ControlInv
    <2> QED
        BY <1>2, <1>5, <2>1 DEF NewTransaction, Repository!RepoStep
<1>6. ASSUME NEW h \in Call, HandlerWakes(h) PROVE Repository!Next
    <2>1. Repository!RepoQuiet
        BY <1>6 DEF HandlerWakes, EndingInv, Ending, Woken, Repository!RepoQuiet
    <2> QED
        BY <1>2, <1>6, <2>1 DEF HandlerWakes, Repository!RepoStep
<1>7. CASE \/ \E n \in Repository!SyncId : SyncReply(n)
           \/ RepositoryWorks
    BY <1>2, <1>7 DEF SyncReply, RepositoryWorks, Repository!RepoStep
<1>8. CASE ChainWorks
    BY <1>8, SameChain DEF ChainWorks, Repository!Next
<1>9. ASSUME \/ \E t \in Tx :
                   \/ InitializeTx(t) \/ TipFails(t)
                   \/ SelectInputs(t) \/ SelectAfterSync(t)
             \/ \E c \in Call :
                   \/ \E t \in Tx : SubmitTx(c, t)
                   \/ Submitted(c) \/ FailedToSubmit(c)
                   \/ TrackerPolls(c) \/ TrackerForgets(c)
             \/ UNCHANGED vars
      PROVE  UNCHANGED <<ledgerVars, repoVars>>
    BY <1>9 DEF InitializeTx, TipFails, SelectInputs, SelectAfterSync, SubmitTx,
                Submitted, FailedToSubmit, TrackerPolls, TrackerForgets, vars
<1> QED
    BY <1>1, <1>3, <1>4, <1>5, <1>6, <1>7, <1>8, <1>9 DEF Next

-----------------------------------------------------------------------------
(* Handlers and polls. *)

\* The components keep their invariants.
LEMMA NextComponentsInv ==
    ASSUME ComponentsInv, AnnouncedInv, EndingInv, [Next]_vars
    PROVE  ComponentsInv'
<1>1. [TrackerT!Next]_(TrackerT!vars)
    BY TrackerSteps, SameTracker DEF ComponentsInv
<1>2. [RepositoryT!Next]_(RepositoryT!vars)
    BY RepositorySteps, SameRepository DEF ComponentsInv
<1>3. TrackerT!IInv'
    BY <1>1, TrackerT!NextIInv, ComponentAssumptions DEF ComponentsInv
<1>4. RepositoryT!RepoTypes'
    BY <1>2, RepositoryT!NextRepoTypes, ComponentAssumptions DEF ComponentsInv
<1>5. RepositoryT!RewardsInv'
    BY <1>2, RepositoryT!NextRewardsInv, ComponentAssumptions DEF ComponentsInv
<1> QED
    BY <1>3, <1>4, <1>5 DEF ComponentsInv

\* The facts about the tracker that the handlers depend on.
LEMMA TrackerFacts ==
    ASSUME ComponentsInv
    PROVE  /\ poll \in [Call -> {"none"} \cup Tracker!LivePoll \cup Tracker!SettledPoll]
           /\ DOMAIN caller = Call
           /\ callTx \in [Call -> Tx \cup {None}]
           /\ \A c \in Call : caller[c] # "idle" => callTx[c] \in Tx
           /\ \A p \in Call : poll[p] # "none" => caller[p] = "tracking"
           /\ announced \subseteq Call
           /\ handler \in [Call -> {"none", "waiting", "resuming", "done"}]
           /\ handled \in [Call -> Tx \cup {None}]
BY DEF ComponentsInv, TrackerT!IInv, TrackerT!TrackerTypeOK, TrackerT!ControlInv,
       TrackerT!LivePoll, TrackerT!SettledPoll, Tracker!LivePoll, Tracker!SettledPoll,
       RepositoryT!RepoTypes, RepositoryT!RepoTypeOK

HandlersInv == OneHandlerPerPoll /\ AnnouncedInv /\ EndingInv

USE DEF HandlersInv, OneHandlerPerPoll, AnnouncedInv, EndingInv, Ending, Woken,
        Tracker!LivePoll, Tracker!SettledPoll

\* Nothing that the handlers depend on changes.
LEMMA SameHandlersInv ==
    ASSUME HandlersInv, UNCHANGED <<poll, announced, handler, handled, callTx, events>>
    PROVE  HandlersInv'
OBVIOUS

\* What callers do preserves the invariant: a call that starts a poll has had
\* none, and so no handler.
LEMMA CallHandlersInv ==
    ASSUME ComponentsInv, HandlersInv, NEW c \in Call,
           \/ \E t \in Tx : SubmitTx(c, t)
           \/ NodeAccepts(c) \/ Submitted(c) \/ FailedToSubmit(c)
    PROVE  HandlersInv'
<1>1. ASSUME NEW t \in Tx, SubmitTx(c, t) PROVE HandlersInv'
    BY <1>1, TrackerFacts DEF SubmitTx, Tracker!Track, repoVars
<1>2. CASE NodeAccepts(c)
    BY <1>2, SameHandlersInv DEF NodeAccepts, trackerVars, repoVars
<1>3. CASE FailedToSubmit(c)
    BY <1>3, SameHandlersInv DEF FailedToSubmit, Tracker!SubmissionFails, repoVars
<1>4. CASE Submitted(c) /\ (Tracker!JoinPending(c) \/ Tracker!RefuseNoTtl(c))
    BY <1>4, SameHandlersInv DEF Submitted, Tracker!JoinPending, Tracker!RefuseNoTtl, repoVars
<1>5. CASE Submitted(c) /\ Tracker!StartPolling(c)
    <2>1. poll[c] = "none" /\ handler[c] = "none"
        BY <1>5, TrackerFacts DEF Tracker!StartPolling
    <2>2. \A h \in Call : ~Ending(h)
        BY <1>5 DEF Submitted, Quiet, Repository!RepoQuiet
    <2> QED
        BY <1>5, <2>1, <2>2, TrackerFacts DEF Submitted, Tracker!StartPolling, repoVars
<1> QED
    BY <1>1, <1>2, <1>3, <1>4, <1>5 DEF Submitted

\* A poll goes on or settles when nothing is announced and no handler ends.
LEMMA PollHandlersInv ==
    ASSUME ComponentsInv, HandlersInv, NEW p \in Call, TrackerPolls(p)
    PROVE  HandlersInv'
<1>1. PICK outcome \in Tracker!LivePoll \cup Tracker!SettledPoll :
        poll' = [poll EXCEPT ![p] = outcome]
    BY DEF TrackerPolls, Tracker!PollStep, Tracker!ProviderReplies,
           Tracker!DelayElapsed, Tracker!TxFound, Tracker!TxNotFound,
           Tracker!TxQueryFails, Tracker!TipStillValid, Tracker!TipExpired,
           Tracker!TipQueryFails, Tracker!Settle, Tracker!Proceed
<1>2. UNCHANGED <<announced, callTx, handler, handled, events>>
    BY DEF TrackerPolls, Tracker!PollStep, Tracker!ProviderReplies,
           Tracker!DelayElapsed, Tracker!TxFound, Tracker!TxNotFound,
           Tracker!TxQueryFails, Tracker!TipStillValid, Tracker!TipExpired,
           Tracker!TipQueryFails, Tracker!Settle, Tracker!Proceed, repoVars
<1>3. poll[p] \in Tracker!LivePoll
    BY DEF TrackerPolls, Tracker!PollStep, Tracker!ProviderReplies,
           Tracker!DelayElapsed, Tracker!TxFound, Tracker!TxNotFound,
           Tracker!TxQueryFails, Tracker!TipStillValid, Tracker!TipExpired,
           Tracker!TipQueryFails
<1>4. announced = {} /\ events = <<>> /\ \A h \in Call : ~Ending(h)
    BY DEF TrackerPolls, Quiet, Tracker!TrackerQuiet, Repository!RepoQuiet
<1> QED
    BY <1>1, <1>2, <1>3, <1>4, TrackerFacts

\* A handler starts, wakes and ends.
LEMMA HandlerHandlersInv ==
    ASSUME ComponentsInv, HandlersInv, NEW h \in Call,
           \/ NewTransaction(h)
           \/ HandlerWakes(h)
           \/ \E n \in Repository!SyncId :
                Repository!Unlock(h, n) /\ UNCHANGED <<trackerVars>>
    PROVE  HandlersInv'
<1>1. CASE NewTransaction(h)
    <2>1. \A g \in Call : ~Ending(g)
        BY <1>1 DEF NewTransaction, Tracker!DeliverNewTransaction
    <2> QED
        BY <1>1, <2>1, TrackerFacts
           DEF NewTransaction, Tracker!DeliverNewTransaction, Repository!OnTransaction
<1>2. CASE HandlerWakes(h)
    BY <1>2, TrackerFacts DEF HandlerWakes, Repository!ConfirmedSettles, trackerVars
<1>3. ASSUME NEW n \in Repository!SyncId, Repository!Unlock(h, n), UNCHANGED trackerVars
      PROVE  HandlersInv'
    BY <1>3, TrackerFacts DEF Repository!Unlock, trackerVars
<1> QED
    BY <1>1, <1>2, <1>3

\* Every step preserves the invariant.
LEMMA NextWalletInv == WalletInv /\ [Next]_vars => WalletInv'
<1> SUFFICES ASSUME ComponentsInv, HandlersInv, [Next]_vars PROVE HandlersInv'
    BY NextComponentsInv DEF WalletInv
<1>1. ASSUME NEW t \in Tx,
             \/ InitializeTx(t) \/ TipFails(t) \/ SelectInputs(t)
             \/ SyncBeforeSelecting(t) \/ SelectAfterSync(t)
      PROVE  HandlersInv'
    BY <1>1, SameHandlersInv
       DEF InitializeTx, TipFails, SelectInputs, SyncBeforeSelecting, SelectAfterSync,
           Repository!Sync, trackerVars, repoVars
<1>2. ASSUME NEW p \in Call, TrackerForgets(p) PROVE HandlersInv'
    BY <1>2, SameHandlersInv DEF TrackerForgets, Tracker!Forget, repoVars
<1>3. ASSUME NEW n \in Repository!SyncId, SyncReply(n) PROVE HandlersInv'
    <2>1. \A h \in Call : ~Ending(h)
        BY <1>3 DEF SyncReply, Quiet, Repository!RepoQuiet
    <2>2. UNCHANGED <<poll, announced, callTx, handler, handled>>
        BY <1>3 DEF SyncReply, Repository!RepoReply, Repository!ApplySync,
                    Repository!FailSync, trackerVars
    <2> QED
        BY <2>1, <2>2
<1>4. CASE RepositoryWorks
    <2>1. ASSUME NEW n \in Repository!SyncId,
                 Repository!Sync(n) \/ Repository!ProviderReads(n), UNCHANGED trackerVars
          PROVE  HandlersInv'
        BY <2>1, SameHandlersInv DEF Repository!Sync, Repository!ProviderReads, trackerVars
    <2>2. ASSUME Repository!DeliverEvent, UNCHANGED trackerVars PROVE HandlersInv'
        BY <2>2 DEF Repository!DeliverEvent, trackerVars
    <2> QED
        BY <1>4, <2>1, <2>2, HandlerHandlersInv DEF RepositoryWorks, Repository!RepoMicrotask
<1>5. CASE ChainWorks \/ UNCHANGED vars
    BY <1>5, SameHandlersInv DEF ChainWorks, vars, trackerVars, repoVars
<1> QED
    BY <1>1, <1>2, <1>3, <1>4, <1>5, CallHandlersInv, PollHandlersInv, HandlerHandlersInv DEF Next

\* Nothing has begun at first.
LEMMA InitWalletInv == Init => WalletInv
<1> SUFFICES ASSUME Init PROVE WalletInv
    OBVIOUS
<1>1. TrackerT!Init
    BY SameTracker DEF Init
<1>2. RepositoryT!Init
    BY SameRepository
       DEF Init, Repository!Init, Tracker!Init, Tracker!LedgerInit, Repository!LedgerInit
<1>3. ComponentsInv
    BY <1>1, <1>2, TrackerT!InitIInv, RepositoryT!InitRepoTypes, RepositoryT!InitRewardsInv,
       ComponentAssumptions DEF ComponentsInv
<1>4. HandlersInv
    BY DEF Init, Tracker!Init, Tracker!TrackerInit, Repository!RepoInit
<1> QED
    BY <1>3, <1>4 DEF WalletInv

\* A poll is handled by one handler, whatever way the calls, the event and the
\* settled promises interleave.
THEOREM PollsAreHandledOnce == Spec => []OneHandlerPerPoll
<1>1. WalletInv => OneHandlerPerPoll
    BY DEF WalletInv
<1> QED
    BY <1>1, InitWalletInv, NextWalletInv, PTL DEF Spec

\* Drafts keep their types.
DraftTypes ==
    /\ draft \in [Tx -> {"none", "initializing", "syncing", "drafted"}]
    /\ draftSync \in [Tx -> Repository!SyncId \cup {0}]

\* No draft has been made at first.
LEMMA InitDraftTypes == Init => DraftTypes
BY DEF Init, DraftTypes

\* Drafts keep their types.
LEMMA NextDraftTypes == DraftTypes /\ [Next]_vars => DraftTypes'
<1> SUFFICES ASSUME DraftTypes, [Next]_vars PROVE DraftTypes'
    OBVIOUS
<1> USE DEF DraftTypes, Repository!SyncId
<1>1. CASE UNCHANGED draftVars
    BY <1>1 DEF draftVars
<1>2. ASSUME NEW t \in Tx,
             \/ InitializeTx(t) \/ TipFails(t) \/ SelectInputs(t)
             \/ SyncBeforeSelecting(t) \/ SelectAfterSync(t)
      PROVE  DraftTypes'
    BY <1>2 DEF InitializeTx, TipFails, SelectInputs, Select, SyncBeforeSelecting,
                SelectAfterSync
<1> QED
    BY <1>1, <1>2
       DEF Next, SubmitTx, NodeAccepts, Submitted, FailedToSubmit, NewTransaction,
           HandlerWakes, TrackerPolls, TrackerForgets, SyncReply, RepositoryWorks,
           ChainWorks, vars

\* The variables of the wallet keep their types.
THEOREM WalletTypeCorrect == Spec => []WalletTypeOK
<1>1. TrackerT!TrackerTypeOK => Tracker!TrackerTypeOK
    BY DEF TrackerT!TrackerTypeOK, Tracker!TrackerTypeOK, TrackerT!LivePoll, TrackerT!SettledPoll
<1>2. RepositoryT!RepoTypeOK => Repository!RepoTypeOK
    BY DEF RepositoryT!RepoTypeOK, Repository!RepoTypeOK, RepositoryT!Utxo, Repository!Utxo,
           RepositoryT!SyncId, Repository!SyncId, RepositoryT!Reply, Repository!Reply,
           RepositoryT!OutOfSync, Repository!OutOfSync, RepositoryT!Cardinality,
           Repository!Cardinality, RepositoryT!IsFiniteSet, Repository!IsFiniteSet
<1>3. RepositoryT!LedgerTypeOK => LedgerTypeOK
    BY DEF RepositoryT!LedgerTypeOK, LedgerTypeOK
<1>4. WalletInv /\ DraftTypes => WalletTypeOK
    BY <1>1, <1>2, <1>3
       DEF WalletInv, ComponentsInv, WalletTypeOK, DraftTypes, TrackerT!IInv, RepositoryT!RepoTypes
<1> QED
    BY <1>4, InitDraftTypes, NextDraftTypes, InitWalletInv, NextWalletInv, PTL DEF Spec

-----------------------------------------------------------------------------
(* What the repository lists and locks while drafts, submissions, polls and  *)
(* handlers interleave.                                                      *)

\* Both facts, with the invariants they rest on.
StockInv == RepositoryT!HistoryInv /\ RepositoryT!HoldInv

\* What a step of the repository keeps, a step of the wallet keeps.
LEMMA NextStockInv == WalletInv /\ StockInv /\ [Next]_vars => StockInv'
<1> SUFFICES ASSUME WalletInv, StockInv, [Next]_vars PROVE StockInv'
    OBVIOUS
<1>1. [RepositoryT!Next]_(RepositoryT!vars)
    BY RepositorySteps, SameRepository DEF WalletInv, ComponentsInv
<1> QED
    BY <1>1, RepositoryT!NextHistoryInv, RepositoryT!NextHoldInv, ComponentAssumptions
       DEF WalletInv, ComponentsInv, StockInv

\* The repository is empty at first.
LEMMA InitStockInv == Init => StockInv
<1>1. Init => RepositoryT!Init
    BY SameRepository
       DEF Init, Repository!Init, Tracker!Init, Tracker!LedgerInit, Repository!LedgerInit
<1> QED
    BY <1>1, RepositoryT!InitHistoryInv, RepositoryT!InitHoldInv, ComponentAssumptions
       DEF StockInv

\* A transaction is waited for exactly while its poll runs, so what is said of
\* the inputs of a waiting handler is said of those of a pending transaction:
\* they are available only if they were not listed when it was announced, if a
\* transaction that shares them has ended, or if a reply took them away and
\* another brought them back.
THEOREM PendingInputsAreLocked == Spec => []PendingLockedUnlessRelisted
<1>1. HandlersInv /\ RepositoryT!LockedUnlessRelisted => PendingLockedUnlessRelisted
    <2> SUFFICES ASSUME HandlersInv, RepositoryT!LockedUnlessRelisted,
                        NEW h \in Call, handler[h] # "none", poll[h] \in Tracker!LivePoll,
                        NEW o \in Repository!AvailableUtxos, o.in \in Inputs[handled[h]]
                 PROVE  \/ Repository!LockedFor(h, o.in) = {}
                        \/ \E g \in Call \ {h} : handler[g] = "done" /\ o \in held[g]
                        \/ /\ o \notin held[h]
                           /\ \E n \in Repository!Applied : o.in \notin syncs[n].reply.utxo
        BY DEF PendingLockedUnlessRelisted
    <2>1. handler[h] = "waiting"
        BY DEF HandlersInv, OneHandlerPerPoll, AnnouncedInv
    <2>2. RepositoryT!Applied = Repository!Applied
        BY DEF RepositoryT!Applied, Repository!Applied, RepositoryT!SyncId,
               Repository!SyncId, RepositoryT!Cardinality, Repository!Cardinality,
               RepositoryT!IsFiniteSet, Repository!IsFiniteSet
    <2>3. o \in RepositoryT!AvailableUtxos
        BY DEF RepositoryT!AvailableUtxos, Repository!AvailableUtxos
    <2>4. RepositoryT!LockedFor(h, o.in) = Repository!LockedFor(h, o.in)
        BY DEF RepositoryT!LockedFor, Repository!LockedFor
    <2>5. h \in RepositoryT!Holders
        BY <2>1 DEF RepositoryT!Holders, RepositoryT!Holding
    <2> QED
        BY <2>1, <2>2, <2>3, <2>4, <2>5 DEF RepositoryT!LockedUnlessRelisted
<1>2. StockInv => RepositoryT!LockedUnlessRelisted
    BY RepositoryT!HoldIsLocked, ComponentAssumptions DEF StockInv
<1>3. WalletInv => HandlersInv
    BY DEF WalletInv, HandlersInv
<1> QED
    BY <1>1, <1>2, <1>3, InitStockInv, NextStockInv, InitWalletInv, NextWalletInv, PTL
       DEF Spec

=============================================================================
