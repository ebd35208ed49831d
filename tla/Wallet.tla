------------------------------- MODULE Wallet -------------------------------
(***************************************************************************)
(* createSingleAddressWallet (packages/wallet/src) with its tracker and    *)
(* its repository: drafting a transaction, submitting it, and what the     *)
(* NewTransaction event and its promise then do in the repository.         *)
(*                                                                         *)
(* A transaction of Tx stands for one outcome of initializeTx: the draft   *)
(* that selects exactly Inputs[t].  Which inputs a selection may return is *)
(* the subject of the modules on coin selection; here it may return any.   *)
(***************************************************************************)
EXTENDS Ledger, Sequences

CONSTANTS
    Call,           \* calls of submitTx() or track()
    None, Undefined, MaxUserSyncs

VARIABLES
    caller, callTx, promise, poll, pending, cleanup, announced,  \* the tracker
    utxoSet, lockedUtxoSet, rewards, lockedRewards,            \* the repository
    syncs, handler, handled, held, events,
    draft,      \* draft[t]: where the initializeTx that returns t is
    draftSync   \* draftSync[t]: the sync that its selectInputs awaits

Tracker == INSTANCE TransactionTracker
Repository == INSTANCE UtxoRepository WITH Handler <- Call

ASSUME WalletAssumption ==
    /\ Tracker!TrackerAssumption
    /\ Repository!RepositoryAssumption
    /\ Repository!ObjectAssumption

trackerVars == <<caller, callTx, promise, poll, pending, cleanup, announced>>
repoVars == <<utxoSet, lockedUtxoSet, rewards, lockedRewards,
              syncs, handler, handled, held, events>>
draftVars == <<draft, draftSync>>
vars == <<ledgerVars, trackerVars, repoVars, draftVars>>

WalletTypeOK ==
    /\ LedgerTypeOK
    /\ Tracker!TrackerTypeOK
    /\ Repository!RepoTypeOK
    /\ draft \in [Tx -> {"none", "initializing", "syncing", "drafted"}]
    /\ draftSync \in [Tx -> Repository!SyncId \cup {0}]

Init ==
    /\ Tracker!Init
    /\ Repository!RepoInit
    /\ draft = [t \in Tx |-> "none"]
    /\ draftSync = [t \in Tx |-> 0]

-----------------------------------------------------------------------------
(* Microtasks come before timers and replies. *)

\* Mutants: the handler does not await confirmed, or only its fulfilment.
WokenAtOnce(h) == handler[h] = "waiting"
WokenIfConfirmed(h) == handler[h] = "waiting" /\ poll[h] = "confirmed"

Woken(h) == handler[h] = "waiting" /\ poll[h] \in Tracker!SettledPoll

SyncEnded(t) ==
    draft[t] = "syncing" /\ syncs[draftSync[t]].stage \in {"applied", "failed"}

Quiet ==
    /\ Tracker!TrackerQuiet
    /\ Repository!RepoQuiet
    /\ \A h \in Call : ~Woken(h)
    /\ \A t \in Tx : ~SyncEnded(t)

-----------------------------------------------------------------------------
(* initializeTx *)

\* initializeTx awaits the tip that its validity interval starts from.
InitializeTx(t) ==
    /\ draft[t] = "none"
    /\ draft' = [draft EXCEPT ![t] = "initializing"]
    /\ UNCHANGED <<ledgerVars, trackerVars, repoVars, draftSync>>

\* ledgerTip rejects, and so does initializeTx.
TipFails(t) ==
    /\ Quiet
    /\ draft[t] = "initializing"
    /\ draft' = [draft EXCEPT ![t] = "none"]
    /\ UNCHANGED <<ledgerVars, trackerVars, repoVars, draftSync>>

\* The selection returns these available outputs, or finds none that will do
\* and initializeTx rejects.
Select(t) ==
    draft' = [draft EXCEPT ![t] =
        IF Inputs[t] \subseteq Repository!Reference(Repository!AvailableUtxos)
        THEN "drafted" ELSE "none"]

\* The tip arrives.  selectInputs reads the available outputs at once ...
SelectInputs(t) ==
    /\ Quiet
    /\ draft[t] = "initializing"
    /\ utxoSet # {}
    /\ Select(t)
    /\ UNCHANGED <<ledgerVars, trackerVars, repoVars, draftSync>>

\* ... or calls sync() first if the repository is empty,
SyncBeforeSelecting(t) ==
    /\ Quiet
    /\ draft[t] = "initializing"
    /\ utxoSet = {}
    /\ draft' = [draft EXCEPT ![t] = "syncing"]
    /\ \E n \in Repository!SyncId :
        /\ Repository!Sync(n)
        /\ draftSync' = [draftSync EXCEPT ![t] = n]
    /\ UNCHANGED <<ledgerVars, trackerVars>>

\* and then reads the available outputs, or rejects because the sync did.
SelectAfterSync(t) ==
    /\ SyncEnded(t)
    /\ IF syncs[draftSync[t]].stage = "applied"
       THEN Select(t)
       ELSE draft' = [draft EXCEPT ![t] = "none"]
    /\ UNCHANGED <<ledgerVars, trackerVars, repoVars, draftSync>>

-----------------------------------------------------------------------------
(* submitTx *)

\* provider.submitTx and txTracker.track are called; a draft that was signed
\* may be submitted at any later time, and more than once.
SubmitTx(c, t) ==
    /\ draft[t] = "drafted"
    /\ Tracker!Track(c, t)
    /\ UNCHANGED <<ledgerVars, repoVars, draftVars>>

\* The request reaches a node, which accepts the transaction.
NodeAccepts(c) ==
    /\ caller[c] = "submitting"
    /\ Inputs[callTx[c]] \subseteq Unspent
    /\ Accept(callTx[c])
    /\ UNCHANGED <<trackerVars, repoVars, draftVars>>

\* The reply arrives: the transaction was accepted, and is tracked, ...
Submitted(c) ==
    /\ Quiet
    /\ callTx[c] \in mempool \cup OnChain
    /\ Tracker!JoinPending(c) \/ Tracker!RefuseNoTtl(c) \/ Tracker!StartPolling(c)
    /\ UNCHANGED <<ledgerVars, repoVars, draftVars>>

\* ... or the request failed, before or after the node accepted it.
FailedToSubmit(c) ==
    /\ Quiet
    /\ Tracker!SubmissionFails(c)
    /\ UNCHANGED <<ledgerVars, repoVars, draftVars>>

-----------------------------------------------------------------------------
(* The tracker's event and promise, and what they do in the repository. *)

NewTransaction(p) ==
    /\ Tracker!DeliverNewTransaction(p)
    /\ Repository!OnTransaction(p, callTx[p])
    /\ UNCHANGED <<ledgerVars, draftVars>>

HandlerWakes(h) ==
    /\ Woken(h)
    /\ Repository!ConfirmedSettles(h)
    /\ UNCHANGED <<ledgerVars, trackerVars, draftVars>>

TrackerPolls(p) ==
    /\ Quiet
    /\ Tracker!PollStep(p)
    /\ UNCHANGED <<ledgerVars, repoVars, draftVars>>

TrackerForgets(p) ==
    /\ Tracker!Forget(p)
    /\ UNCHANGED <<ledgerVars, repoVars, draftVars>>

\* A reply to a sync arrives: I/O, like every RepoReply.
SyncReply(n) ==
    /\ Quiet
    /\ Repository!RepoReply(n)
    /\ UNCHANGED <<ledgerVars, trackerVars, draftVars>>

\* What the repository does by itself or for a user who calls sync().
RepositoryWorks ==
    /\ \/ \E n \in Repository!SyncId :
            Repository!Sync(n) \/ Repository!ProviderReads(n)
       \/ Repository!RepoMicrotask
    /\ UNCHANGED <<ledgerVars, trackerVars, draftVars>>

ChainWorks == LedgerStep /\ UNCHANGED <<trackerVars, repoVars, draftVars>>

-----------------------------------------------------------------------------

Next ==
    \/ \E t \in Tx :
        \/ InitializeTx(t)
        \/ TipFails(t)
        \/ SelectInputs(t)
        \/ SyncBeforeSelecting(t)
        \/ SelectAfterSync(t)
    \/ \E c \in Call :
        \/ \E t \in Tx : SubmitTx(c, t)
        \/ NodeAccepts(c)
        \/ Submitted(c)
        \/ FailedToSubmit(c)
        \/ NewTransaction(c)
        \/ HandlerWakes(c)
        \/ TrackerPolls(c)
        \/ TrackerForgets(c)
    \/ \E n \in Repository!SyncId : SyncReply(n)
    \/ RepositoryWorks
    \/ ChainWorks

Spec == Init /\ [][Next]_vars

\* What the event loop runs before it takes the next timer or reply.
Microtask ==
    \/ \E c \in Call : NewTransaction(c) \/ HandlerWakes(c) \/ TrackerForgets(c)
    \/ \E t \in Tx : SelectAfterSync(t)
    \/ RepositoryWorks /\ Repository!RepoMicrotask

\* Some microtask runs while there is one, timers fire, the provider answers or
\* rejects what the tracker asks, and the chain grows.
Fairness ==
    /\ WF_vars(Microtask)
    /\ \A c \in Call : WF_vars(TrackerPolls(c))
    /\ WF_vars(ChainGrows /\ UNCHANGED <<trackerVars, repoVars, draftVars>>)

FairSpec == Spec /\ Fairness

-----------------------------------------------------------------------------
(* Properties. *)

\* The map of the tracker and the handlers of the repository agree: a
\* transaction that is polled for is handled or about to be, by one handler,
\* and a handler never waits for a poll that is forgotten.
OneHandlerPerPoll ==
    \A p \in Call :
        /\ poll[p] \in Tracker!LivePoll =>
            (p \in announced) # (handler[p] = "waiting")
        /\ handler[p] # "none" =>
            /\ handled[p] = callTx[p]
            /\ poll[p] # "none"

\* Whatever the order of replies, and also for drafts that share outputs: an
\* input of a transaction that is polled for can be selected again only if the
\* repository did not list it when the event came, if the handler of a
\* transaction that shares it has ended, or if a reply took it away and another
\* brought it back (InMemoryUtxoRepository.ts:57-68, 149).
PendingLockedUnlessRelisted ==
    \A h \in Call : handler[h] # "none" /\ poll[h] \in Tracker!LivePoll =>
        \A o \in Repository!AvailableUtxos : o.in \in Inputs[handled[h]] =>
            \/ Repository!LockedFor(h, o.in) = {}
            \/ \E g \in Call \ {h} : handler[g] = "done" /\ o \in held[g]
            \/ /\ o \notin held[h]
               /\ \E n \in Repository!Applied : o.in \notin syncs[n].reply.utxo

\* Every call whose submission succeeded gets an outcome, even if the provider
\* never finds the transaction (InMemoryTransactionTracker.ts:67-82).
EveryCallSettles == Tracker!EveryTrackSettles

\* Every lock that is taken is given back.
EveryLockReleased ==
    \A h \in Call : handler[h] = "waiting" ~> handler[h] = "done"

\* packages/wallet/test/integration/withdrawal.test.ts:81 "Transaction is
\* submitting. UTxO is locked."  The repository hears of a transaction only
\* when its submission has succeeded.
LockedWhileSubmitting ==
    \A c \in Call :
        caller[c] = "submitting" =>
            Repository!Reference(Repository!AvailableUtxos)
                \cap Inputs[callTx[c]] = {}

=============================================================================
