------------------------ MODULE UtxoRepositoryProofs ------------------------
(***************************************************************************)
(* Theorems about UtxoRepository, for any transactions, any number of      *)
(* handlers and syncs, and any provider.                                   *)
(***************************************************************************)
EXTENDS BalanceTracker, SumTheorems, TLAPS

\* The variables the locks depend on are functions of handlers and sets of
\* records.
LockTypes ==
    /\ handler \in [Handler -> {"none", "waiting", "resuming", "done"}]
    /\ DOMAIN held = Handler

\* The inductive invariant: the two facts need each other's variables only
\* through the types.
LockInv == LockTypes /\ LocksAreHeld /\ OneObjectPerOutput

USE DEF LockTypes, LocksAreHeld, OneObjectPerOutput, Holders, Holding

\* An empty repository has no locks and no outputs.
LEMMA InitLockInv == Init => LockInv
BY DEF Init, RepoInit, LockInv

\* Merging a reply adds an object only for an output that has none.
LEMMA MergeLockInv ==
    ASSUME LockInv, NEW n \in SyncId, ApplySync(n)
    PROVE  LockInv'
<1>1. LockTypes' /\ LocksAreHeld'
    BY DEF LockInv, ApplySync
<1>2. ASSUME NEW o \in utxoSet', NEW q \in utxoSet', o.in = q.in
      PROVE  o = q
    <2>1. utxoSet' \subseteq utxoSet \cup NewUtxos(n)
        BY DEF ApplySync
    <2>2. CASE o \in utxoSet /\ q \in utxoSet
        BY <1>2, <2>2 DEF LockInv
    <2>3. CASE o \in NewUtxos(n) /\ q \in NewUtxos(n)
        BY <1>2, <2>3 DEF NewUtxos
    <2>4. \A a \in utxoSet, b \in NewUtxos(n) : a.in # b.in
        BY DEF NewUtxos, Reference
    <2> QED
        BY <1>2, <2>1, <2>2, <2>3, <2>4
<1> QED
    BY <1>1, <1>2 DEF LockInv

\* A handler that starts holds what it locks.
LEMMA LockLockInv ==
    ASSUME LockInv, NEW h \in Handler, NEW t \in Tx, OnTransaction(h, t)
    PROVE  LockInv'
<1>1. LockTypes' /\ OneObjectPerOutput'
    BY DEF LockInv, OnTransaction
<1>2. ASSUME NEW o \in lockedUtxoSet'
      PROVE  \E g \in Handler : Holding(g)' /\ o \in held'[g]
    <2>1. CASE o \in ObjectsOf(t)
        BY <2>1 DEF LockInv, OnTransaction
    <2>2. CASE o \in lockedUtxoSet
        <3> PICK g \in Handler : Holding(g) /\ o \in held[g]
            BY <2>2 DEF LockInv
        <3>1. g # h
            BY DEF OnTransaction
        <3> QED
            BY <3>1 DEF LockInv, OnTransaction
    <2> QED
        BY <1>2, <2>1, <2>2 DEF OnTransaction
<1> QED
    BY <1>1, <1>2 DEF LockInv

\* A handler that ends gives back all it holds.
LEMMA UnlockLockInv ==
    ASSUME LockInv, NEW h \in Handler, NEW n \in SyncId, Unlock(h, n)
    PROVE  LockInv'
<1>1. LockTypes' /\ OneObjectPerOutput'
    BY DEF LockInv, Unlock
<1>2. ASSUME NEW o \in lockedUtxoSet'
      PROVE  \E g \in Handler : Holding(g)' /\ o \in held'[g]
    <2> PICK g \in Handler : Holding(g) /\ o \in held[g]
        BY <1>2 DEF LockInv, Unlock
    <2>1. g # h
        BY <1>2 DEF Unlock
    <2> QED
        BY <2>1 DEF LockInv, Unlock
<1> QED
    BY <1>1, <1>2 DEF LockInv

\* Every step preserves the invariant.
LEMMA NextLockInv == LockInv /\ [Next]_vars => LockInv'
<1> SUFFICES ASSUME LockInv, [Next]_vars PROVE LockInv'
    OBVIOUS
<1>1. ASSUME NEW n \in SyncId, Sync(n) \/ ProviderReads(n) \/ RepoReply(n)
      PROVE  LockInv'
    <2>1. CASE ApplySync(n)
        BY <2>1, MergeLockInv
    <2>2. CASE Sync(n)
        BY <2>2 DEF Sync, LockInv
    <2>3. CASE ProviderReads(n)
        BY <2>3 DEF ProviderReads, LockInv
    <2>4. CASE FailSync(n)
        BY <2>4 DEF FailSync, LockInv
    <2> QED
        BY <1>1, <2>1, <2>2, <2>3, <2>4 DEF RepoReply
<1>2. ASSUME NEW h \in Handler, ConfirmedSettles(h)
      PROVE  LockInv'
    BY <1>2 DEF ConfirmedSettles, LockInv
<1>3. CASE DeliverEvent
    BY <1>3 DEF DeliverEvent, LockInv
<1>4. CASE UNCHANGED repoVars
    BY <1>4 DEF repoVars, LockInv
<1> QED
    BY <1>1, <1>2, <1>3, <1>4, LockLockInv, UnlockLockInv
       DEF Next, RepoStep, RepoMicrotask, vars

\* No output stays locked once the handlers that locked it are done, whatever
\* the transactions share and however syncs and handlers interleave.
THEOREM NoLockLeaks == Spec => []LocksAreHeld
<1>1. LockInv => LocksAreHeld
    BY DEF LockInv
<1> QED
    BY <1>1, InitLockInv, NextLockInv, PTL DEF Spec

\* No output is counted twice, whatever the order in which replies arrive.
THEOREM NoDuplicates == Spec => []OneObjectPerOutput
<1>1. LockInv => OneObjectPerOutput
    BY DEF LockInv
<1> QED
    BY <1>1, InitLockInv, NextLockInv, PTL DEF Spec

-----------------------------------------------------------------------------
(* The locked rewards. *)

HIDE DEF LockTypes, LocksAreHeld, OneObjectPerOutput, Holders, Holding

\* What a handler locks, and the sum over those that hold a lock.
HeldRewards == [h \in Holders |-> Withdraws[handled[h]]]

\* The inductive invariant: a handler that holds a lock has a transaction, so
\* the sum is one of numbers.
RewardsInv ==
    /\ handler \in [Handler -> {"none", "waiting", "resuming", "done"}]
    /\ handled \in [Handler -> Tx \cup {None}]
    /\ \A h \in Holders : handled[h] \in Tx
    /\ LockedRewardsAccounted

\* The sum is over a finite set of integers.
LEMMA HeldRewardsSummable ==
    ASSUME RewardsInv
    PROVE  /\ IsFiniteSet(Holders)
           /\ \A h \in Holders : HeldRewards[h] \in Int
<1>1. IsFiniteSet(Holders)
    BY RepositoryAssumption, FS_Subset DEF Holders
<1>2. \A h \in Holders : HeldRewards[h] \in Int
    BY LedgerAssumption DEF RewardsInv, HeldRewards
<1> QED
    BY <1>1, <1>2

\* Nothing is locked at first.
LEMMA InitRewardsInv == Init => RewardsInv
<1> SUFFICES ASSUME Init PROVE RewardsInv
    OBVIOUS
<1>1. Holders = {}
    BY DEF Init, RepoInit, Holders, Holding
<1>2. SumFunctionOnSet(HeldRewards, {}) = 0
    BY SumEmpty
<1> QED
    BY <1>1, <1>2 DEF Init, RepoInit, RewardsInv, LockedRewardsAccounted, HeldRewards

\* A handler that starts adds what its transaction withdraws to both sides.
LEMMA LockRewardsInv ==
    ASSUME RewardsInv, NEW h \in Handler, NEW t \in Tx, OnTransaction(h, t)
    PROVE  RewardsInv'
<1>1. h \notin Holders /\ Holders' = Holders \cup {h}
    BY DEF RewardsInv, OnTransaction, Holders, Holding
<1>2. handled' = [handled EXCEPT ![h] = t] /\ handled'[h] = t
    BY DEF RewardsInv, OnTransaction
<1>3. \A g \in Holders' : handled'[g] \in Tx
    BY <1>1, <1>2 DEF RewardsInv
<1>4. \A g \in Holders \cup {h} : HeldRewards'[g] \in Int
    BY <1>1, <1>3, LedgerAssumption DEF HeldRewards
<1>5. SumFunctionOnSet(HeldRewards', Holders \cup {h})
          = Withdraws[t] + SumFunctionOnSet(HeldRewards', Holders)
    <2>1. HeldRewards'[h] = Withdraws[t]
        BY <1>1, <1>2 DEF HeldRewards
    <2> QED
        BY <1>1, <1>4, <2>1, HeldRewardsSummable, SumAdd
<1>6. SumFunctionOnSet(HeldRewards, Holders) = SumFunctionOnSet(HeldRewards', Holders)
    <2>1. \A g \in Holders : HeldRewards[g] = HeldRewards'[g]
        BY <1>1, <1>2 DEF RewardsInv, HeldRewards
    <2> QED
        BY <2>1, HeldRewardsSummable, SumSame
<1>7. lockedRewards' = SumFunctionOnSet(HeldRewards', Holders')
    <2>1. SumFunctionOnSet(HeldRewards, Holders) \in Int /\ Withdraws[t] \in Int
        BY HeldRewardsSummable, SumType, LedgerAssumption
    <2>2. lockedRewards' = SumFunctionOnSet(HeldRewards, Holders) + Withdraws[t]
        BY DEF OnTransaction, RewardsInv, LockedRewardsAccounted, HeldRewards
    <2> QED
        BY <1>1, <1>5, <1>6, <2>1, <2>2
<1> QED
    BY <1>3, <1>7 DEF RewardsInv, OnTransaction, LockedRewardsAccounted, HeldRewards

\* A handler that ends takes the same amount away again.
LEMMA UnlockRewardsInv ==
    ASSUME RewardsInv, NEW h \in Handler, NEW n \in SyncId, Unlock(h, n)
    PROVE  RewardsInv'
<1>1. h \in Holders /\ Holders' = Holders \ {h}
    BY DEF RewardsInv, Unlock, Holders, Holding
<1>2. handled' = handled
    BY DEF Unlock
<1>3. SumFunctionOnSet(HeldRewards, Holders)
          = Withdraws[handled[h]] + SumFunctionOnSet(HeldRewards, Holders')
    BY <1>1, HeldRewardsSummable, SumRemove DEF HeldRewards
<1>4. IsFiniteSet(Holders') /\ \A g \in Holders' : HeldRewards[g] \in Int
    BY <1>1, HeldRewardsSummable, FS_Subset
<1>5. SumFunctionOnSet(HeldRewards, Holders') = SumFunctionOnSet(HeldRewards', Holders')
    <2>1. \A g \in Holders' : HeldRewards[g] = HeldRewards'[g]
        BY <1>1, <1>2 DEF HeldRewards
    <2> QED
        BY <1>4, <2>1, SumSame
<1>6. lockedRewards' = SumFunctionOnSet(HeldRewards', Holders')
    <2>1. SumFunctionOnSet(HeldRewards, Holders') \in Int /\ Withdraws[handled[h]] \in Int
        BY <1>1, <1>4, SumType, LedgerAssumption DEF RewardsInv
    <2>2. lockedRewards' = SumFunctionOnSet(HeldRewards, Holders) - Withdraws[handled[h]]
        BY DEF Unlock, RewardsInv, LockedRewardsAccounted, HeldRewards
    <2> QED
        BY <1>3, <1>5, <2>1, <2>2
<1> QED
    BY <1>1, <1>2, <1>6 DEF RewardsInv, Unlock, LockedRewardsAccounted, HeldRewards

\* A step that leaves the handlers that hold a lock, and what they hold, alone.
LEMMA SameRewardsInv ==
    ASSUME RewardsInv, UNCHANGED <<handled, lockedRewards>>, Holders' = Holders,
           handler' \in [Handler -> {"none", "waiting", "resuming", "done"}]
    PROVE  RewardsInv'
BY DEF RewardsInv, LockedRewardsAccounted

\* Every step preserves the invariant.
LEMMA NextRewardsInv == RewardsInv /\ [Next]_vars => RewardsInv'
<1> SUFFICES ASSUME RewardsInv, [Next]_vars PROVE RewardsInv'
    OBVIOUS
<1>1. ASSUME UNCHANGED <<handler, handled, lockedRewards>> PROVE RewardsInv'
    BY <1>1, SameRewardsInv DEF RewardsInv, Holders, Holding
<1>2. ASSUME NEW n \in SyncId, Sync(n) \/ ProviderReads(n) \/ RepoReply(n)
      PROVE  RewardsInv'
    BY <1>1, <1>2 DEF Sync, ProviderReads, RepoReply, ApplySync, FailSync
<1>3. ASSUME NEW h \in Handler, ConfirmedSettles(h)
      PROVE  RewardsInv'
    <2>1. Holders' = Holders
        BY <1>3 DEF ConfirmedSettles, RewardsInv, Holders, Holding
    <2> QED
        BY <1>3, <2>1, SameRewardsInv DEF ConfirmedSettles, RewardsInv
<1>4. CASE DeliverEvent
    BY <1>1, <1>4 DEF DeliverEvent
<1>5. CASE UNCHANGED repoVars
    BY <1>1, <1>5 DEF repoVars
<1> QED
    BY <1>2, <1>3, <1>4, <1>5, LockRewardsInv, UnlockRewardsInv
       DEF Next, RepoStep, RepoMicrotask, vars

\* Every += of #lockedRewards is undone by one -= of the same amount: the
\* locked rewards are always those of the transactions still waited for.
THEOREM RewardsAccounted == Spec => []LockedRewardsAccounted
<1>1. RewardsInv => LockedRewardsAccounted
    BY DEF RewardsInv
<1> QED
    BY <1>1, InitRewardsInv, NextRewardsInv, PTL DEF Spec

-----------------------------------------------------------------------------
(* Types. *)

\* Definitions of constants, which are not changed by a step.
USE DEF Utxo, Reply, SyncId, OutOfSync

RepoTypes == LedgerTypeOK /\ RepoTypeOK

\* Every chain step keeps the types of the chain.
LEMMA LedgerTypesKept ==
    ASSUME LedgerTypeOK, LedgerStep \/ \E t \in Tx : Accept(t)
    PROVE  LedgerTypeOK'
<1>1. CASE ChainGrows
    <2> PICK ts \in SUBSET mempool : MintBlock(ts)
        BY <1>1 DEF ChainGrows
    <2> QED
        BY DEF MintBlock, LedgerTypeOK
<1>2. CASE AccrueRewards
    BY <1>2 DEF AccrueRewards, LedgerTypeOK
<1>3. CASE Rollback
    BY <1>3 DEF Rollback, LedgerTypeOK
<1>4. CASE \E t \in Tx : Accept(t)
    BY <1>4 DEF Accept, LedgerTypeOK
<1> QED
    BY <1>1, <1>2, <1>3, <1>4 DEF LedgerStep

\* What a provider answers has its type.
LEMMA ReplyType ==
    ASSUME RepoTypes
    PROVE  /\ Unspent \in SUBSET TxIn /\ RewardBalance \in Int /\ tip \in Nat
<1>1. Unspent \in SUBSET TxIn
    BY LedgerAssumption DEF Unspent, OnChain
<1>2. Withdrawn(OnChain) \in Int
    <2>1. IsFiniteSet(OnChain)
        BY LedgerAssumption, FS_Subset DEF OnChain
    <2> QED
        BY <2>1, SumType, LedgerAssumption DEF Withdrawn, OnChain
<1>3. RewardBalance \in Int
    BY <1>2, LedgerAssumption DEF RewardBalance, RepoTypes, LedgerTypeOK
<1> QED
    BY <1>1, <1>3 DEF RepoTypes, LedgerTypeOK

EventType ==
    {OutOfSync} \cup
        [kind : {"Changed"},
         fields : [allUtxos : SUBSET TxIn, availableUtxos : SUBSET TxIn,
                   allRewards : Int, availableRewards : Int]]

\* The types of all variables but the events, from which an event is made.
FieldTypes ==
    /\ utxoSet \subseteq Utxo
    /\ lockedUtxoSet \subseteq Utxo \cup {Undefined}
    /\ rewards \in Int
    /\ lockedRewards \in Int

\* An event made of fields that have their types.
LEMMA ChangedType ==
    ASSUME FieldTypes', events \in Seq(EventType), events' = Append(events, Changed')
    PROVE  events' \in Seq(EventType)
<1>1. Changed' \in EventType
    BY DEF FieldTypes, Changed, Fields, EventType, Reference, AvailableUtxos,
           AvailableRewards, Utxo
<1> QED
    BY <1>1

SyncType ==
    [stage : {"unused", "requested", "answered", "applied", "failed"},
     internal : BOOLEAN,
     reply : Reply]

\* A request that is sent.
LEMMA RequestTypes ==
    ASSUME RepoTypes, NEW n \in SyncId, NEW internal \in BOOLEAN, SendSync(n, internal)
    PROVE  syncs' \in [SyncId -> SyncType]
<1>1. syncs \in [SyncId -> SyncType]
    BY DEF RepoTypes, RepoTypeOK, SyncType
<1> QED
    BY ZenonT(40), <1>1 DEF SendSync, SyncType

\* Requests, reads and failures.
LEMMA SyncTypes ==
    ASSUME RepoTypes, UNCHANGED ledgerVars, NEW n \in SyncId,
           Sync(n) \/ ProviderReads(n) \/ FailSync(n)
    PROVE  RepoTypeOK'
<1> USE DEF RepoTypes, RepoTypeOK
<1>1. CASE Sync(n)
    BY <1>1, RequestTypes DEF Sync, SyncType
<1>2. CASE ProviderReads(n)
    <2>1. syncs \in [SyncId -> SyncType]
        BY DEF SyncType
    <2> DEFINE reply == [utxo |-> Unspent, rewards |-> RewardBalance, asOf |-> tip]
    <2>2. reply \in Reply
        BY ReplyType
    <2>3. syncs' = [syncs EXCEPT ![n].stage = "answered", ![n].reply = reply]
        BY <1>2 DEF ProviderReads
    <2>4. syncs' \in [SyncId -> SyncType]
        <3> HIDE DEF RepoTypes, RepoTypeOK, SyncId, reply, Reply
        <3> QED
            BY <2>1, <2>2, <2>3 DEF SyncType
    <2> QED
        BY <1>2, <2>4 DEF ProviderReads, SyncType
<1>3. CASE FailSync(n)
    BY SMTT(30), <1>3 DEF FailSync
<1> QED
    BY <1>1, <1>2, <1>3

\* A merge keeps outputs that are objects of replies.
LEMMA MergeTypes ==
    ASSUME RepoTypes, NEW n \in SyncId, ApplySync(n)
    PROVE  RepoTypeOK'
<1>1. FieldTypes'
    <2>1. NewUtxos(n) \subseteq Utxo
        BY DEF NewUtxos, RepoTypes, RepoTypeOK, Utxo, Reply
    <2>2. syncs[n].reply.rewards \in Int
        BY DEF RepoTypes, RepoTypeOK, Reply
    <2> QED
        BY <2>1, <2>2 DEF ApplySync, RepoTypes, RepoTypeOK, FieldTypes
<1>2. events' \in Seq(EventType)
    BY <1>1, ChangedType DEF ApplySync, RepoTypes, RepoTypeOK, EventType
<1>3. syncs' \in [SyncId -> [stage : {"unused", "requested", "answered", "applied", "failed"},
                            internal : BOOLEAN, reply : Reply]]
    BY SMTT(30) DEF ApplySync, RepoTypes, RepoTypeOK
<1> QED
    BY <1>1, <1>2, <1>3 DEF ApplySync, RepoTypes, RepoTypeOK, FieldTypes, EventType

\* What a handler locks are objects of the repository or undefined.
LEMMA LockTypesKept ==
    ASSUME RepoTypes, NEW h \in Handler, NEW t \in Tx, OnTransaction(h, t)
    PROVE  RepoTypeOK'
<1>1. ObjectsOf(t) \subseteq Utxo \cup {Undefined}
    BY DEF ObjectsOf, RepoTypes, RepoTypeOK
<1>2. FieldTypes'
    BY <1>1, LedgerAssumption DEF OnTransaction, RepoTypes, RepoTypeOK, FieldTypes
<1>3. events' \in Seq(EventType)
    BY <1>2, ChangedType DEF OnTransaction, RepoTypes, RepoTypeOK, EventType
<1> QED
    BY <1>1, <1>2, <1>3 DEF OnTransaction, RepoTypes, RepoTypeOK, FieldTypes, EventType

\* Unlocking takes away what was added.
LEMMA UnlockTypes ==
    ASSUME RepoTypes, RewardsInv, NEW h \in Handler, NEW n \in SyncId, Unlock(h, n)
    PROVE  RepoTypeOK'
<1>1. Withdraws[handled[h]] \in Int
    BY LedgerAssumption DEF RewardsInv, Unlock, Holders, Holding
<1>2. syncs' \in [SyncId -> SyncType]
    BY RequestTypes DEF Unlock
<1>3. FieldTypes' /\ handler' \in [Handler -> {"none", "waiting", "resuming", "done"}]
    BY <1>1 DEF Unlock, RepoTypes, RepoTypeOK, FieldTypes
<1>4. UNCHANGED <<handled, held, events>>
    BY DEF Unlock
<1> QED
    BY <1>2, <1>3, <1>4 DEF RepoTypes, RepoTypeOK, SyncType, FieldTypes

\* Every step keeps the types.
LEMMA NextRepoTypes == RepoTypes /\ RewardsInv /\ [Next]_vars => RepoTypes'
<1> SUFFICES ASSUME RepoTypes, RewardsInv, [Next]_vars PROVE RepoTypes'
    OBVIOUS
<1>1. CASE UNCHANGED ledgerVars
    <2>1. LedgerTypeOK'
        BY <1>1 DEF RepoTypes, LedgerTypeOK, ledgerVars
    <2> SUFFICES RepoTypeOK'
        BY <2>1 DEF RepoTypes
    <2>2. ASSUME NEW h \in Handler, ConfirmedSettles(h) PROVE RepoTypeOK'
        BY <2>2 DEF ConfirmedSettles, RepoTypes, RepoTypeOK
    <2>3. CASE DeliverEvent
        <3>1. events' \in Seq(EventType)
            BY <2>3 DEF DeliverEvent, RepoTypes, RepoTypeOK, EventType
        <3> QED
            BY <2>3, <3>1 DEF DeliverEvent, RepoTypes, RepoTypeOK, EventType
    <2>4. CASE UNCHANGED repoVars
        BY <2>4 DEF repoVars, RepoTypes, RepoTypeOK
    <2> QED
        BY <1>1, <2>2, <2>3, <2>4, SyncTypes, MergeTypes, LockTypesKept, UnlockTypes
           DEF Next, RepoStep, RepoReply, RepoMicrotask, vars
<1>2. CASE UNCHANGED repoVars /\ (LedgerStep \/ \E t \in Tx : Accept(t))
    BY <1>2, LedgerTypesKept DEF RepoTypes, RepoTypeOK, repoVars
<1> QED
    BY <1>1, <1>2 DEF Next, vars

\* An empty repository has the types.
LEMMA InitRepoTypes == Init => RepoTypes
BY LedgerAssumption DEF Init, LedgerInit, RepoInit, RepoTypes, LedgerTypeOK,
    RepoTypeOK, NoReply, Reply

\* The variables of the repository keep their types, whatever the provider
\* answers and however many transactions there are.
THEOREM RepoTypeCorrect == Spec => []RepoTypeOK
<1>1. RepoTypes => RepoTypeOK
    BY DEF RepoTypes
<1> QED
    BY <1>1, InitRepoTypes, NextRepoTypes, InitRewardsInv, NextRewardsInv, PTL DEF Spec

-----------------------------------------------------------------------------
(* What the repository lists, in whatever order replies are read and arrive. *)

Read(n) == syncs[n].stage \in {"answered", "applied"}

\* On a chain that has not rolled back, what a reply lists is spent only in a
\* block that is younger than the reply.
ReadInv ==
    \A n \in SyncId : Read(n) /\ rollbacks = 0 =>
        /\ syncs[n].reply.asOf <= tip
        /\ \A t \in OnChain : Inputs[t] \cap syncs[n].reply.utxo # {} =>
                syncs[n].reply.asOf < included[t]

\* The repository lists one reply.
MergeInv ==
    \/ Applied = {} /\ utxoSet = {} /\ rewards = 0
    \/ \E n \in Applied :
        /\ Reference(utxoSet) = syncs[n].reply.utxo
        /\ rewards = syncs[n].reply.rewards

HistoryInv == RepoTypes /\ ReadInv /\ MergeInv

HIDE DEF OutOfSync, Utxo, Reply, SyncId

\* A reply once given is not changed, and one that is merged stays merged.
LEMMA RepliesStay ==
    ASSUME RepoTypes, [Next]_vars, NEW m \in SyncId,
           ~ ProviderReads(m)
    PROVE  /\ Read(m)' => Read(m)
           /\ Read(m) \/ Read(m)' => syncs'[m].reply = syncs[m].reply
           /\ m \in Applied => m \in Applied'
           /\ m \in Applied' => m \in Applied \/ ApplySync(m)
<1>1. syncs \in [SyncId -> SyncType]
    BY DEF RepoTypes, RepoTypeOK, SyncType
<1>2. ASSUME NEW n \in SyncId, NEW internal \in BOOLEAN, SendSync(n, internal)
      PROVE  \/ syncs'[m] = syncs[m]
             \/ syncs[m].stage = "unused" /\ syncs'[m].stage = "requested"
    BY <1>1, <1>2 DEF SendSync, SyncType
<1>3. ASSUME NEW n \in SyncId, ApplySync(n)
      PROVE  \/ syncs'[m] = syncs[m]
             \/ /\ syncs[m].stage = "answered" /\ syncs'[m].stage = "applied"
                /\ syncs'[m].reply = syncs[m].reply
                /\ ApplySync(m)
    BY <1>1, <1>3 DEF ApplySync, SyncType
<1>4. ASSUME NEW n \in SyncId, FailSync(n)
      PROVE  \/ syncs'[m] = syncs[m]
             \/ /\ syncs[m].stage # "applied" /\ syncs'[m].stage = "failed"
                /\ syncs'[m].reply = syncs[m].reply
    BY <1>1, <1>4 DEF FailSync, SyncType
<1>5. ASSUME NEW n \in SyncId, ProviderReads(n) PROVE syncs'[m] = syncs[m]
    BY <1>1, <1>5 DEF ProviderReads
<1>6. \/ syncs' = syncs
      \/ \E n \in SyncId, internal \in BOOLEAN : SendSync(n, internal)
      \/ \E n \in SyncId : ApplySync(n) \/ FailSync(n) \/ ProviderReads(n)
    BY DEF Next, RepoStep, RepoReply, RepoMicrotask, vars, repoVars, Sync,
       OnTransaction, ConfirmedSettles, Unlock, DeliverEvent
<1> QED
    BY <1>2, <1>3, <1>4, <1>5, <1>6 DEF Read, Applied

\* After a merge the repository lists exactly the outputs of the reply.
LEMMA MergedIsReply ==
    ASSUME RepoTypes, NEW n \in SyncId, ApplySync(n)
    PROVE  Reference(utxoSet)' = syncs[n].reply.utxo
<1>1. utxoSet' = (utxoSet \cup NewUtxos(n)) \ GoneUtxos(n)
    BY DEF ApplySync
<1>2. \A i \in syncs[n].reply.utxo : i \in Reference(utxoSet)'
    <2> TAKE i \in syncs[n].reply.utxo
    <2>1. CASE i \in Reference(utxoSet)
        BY <1>1, <2>1 DEF Reference, GoneUtxos
    <2>2. CASE i \notin Reference(utxoSet)
        <3>1. [in |-> i, seq |-> n] \in NewUtxos(n)
            BY <2>2 DEF NewUtxos
        <3>2. [in |-> i, seq |-> n] \in utxoSet'
            BY <1>1, <3>1 DEF GoneUtxos
        <3> QED
            BY <3>2 DEF Reference
    <2> QED
        BY <2>1, <2>2
<1>3. \A o \in utxoSet' : o.in \in syncs[n].reply.utxo
    BY <1>1 DEF NewUtxos, GoneUtxos
<1> QED
    BY <1>2, <1>3 DEF Reference

\* A block holds nothing that is older than it.
LEMMA ChainReadInv ==
    ASSUME RepoTypes, ReadInv, UNCHANGED repoVars, LedgerStep \/ \E t \in Tx : Accept(t)
    PROVE  ReadInv'
<1> SUFFICES ASSUME NEW n \in SyncId, Read(n), rollbacks' = 0, NEW s, s = syncs[n].reply.asOf
             PROVE  /\ s <= tip'
                    /\ \A t \in OnChain' : Inputs[t] \cap syncs[n].reply.utxo # {} =>
                            s < included'[t]
    BY DEF ReadInv, Read, repoVars
<1>1. s \in Nat /\ tip \in Nat /\ rollbacks \in Nat
    BY DEF RepoTypes, RepoTypeOK, LedgerTypeOK, Reply
<1>2. rollbacks = 0 /\ (ChainGrows \/ AccrueRewards \/ \E t \in Tx : Accept(t))
    BY <1>1 DEF LedgerStep, Rollback, ChainGrows, MintBlock, AccrueRewards, Accept
<1>3. /\ s <= tip
      /\ \A t \in OnChain : Inputs[t] \cap syncs[n].reply.utxo # {} => s < included[t]
    BY <1>2 DEF ReadInv
<1>4. CASE ChainGrows
    <2> PICK ts \in SUBSET mempool : MintBlock(ts)
        BY <1>4 DEF ChainGrows
    <2>1. tip' = tip + 1 /\ \A t \in Tx : included'[t] \in {tip + 1, included[t]}
        BY DEF MintBlock
    <2> QED
        BY <1>1, <1>3, <2>1 DEF OnChain
<1> QED
    BY <1>2, <1>3, <1>4 DEF AccrueRewards, Accept, OnChain

\* The chain answers nothing that is spent on it.
LEMMA StepReadInv ==
    ASSUME RepoTypes, ReadInv, [Next]_vars, UNCHANGED ledgerVars
    PROVE  ReadInv'
<1> SUFFICES ASSUME NEW n \in SyncId, Read(n)', rollbacks = 0
             PROVE  /\ syncs'[n].reply.asOf <= tip
                    /\ \A t \in OnChain : Inputs[t] \cap syncs'[n].reply.utxo # {} =>
                            syncs'[n].reply.asOf < included[t]
    BY DEF ReadInv, ledgerVars, OnChain
<1>1. CASE ProviderReads(n)
    <2>1. syncs'[n].reply = [utxo |-> Unspent, rewards |-> RewardBalance, asOf |-> tip]
        BY <1>1 DEF ProviderReads, RepoTypes, RepoTypeOK
    <2>2. tip <= tip
        BY DEF RepoTypes, LedgerTypeOK
    <2> QED
        BY <2>1, <2>2 DEF Unspent
<1> QED
    BY <1>1, RepliesStay DEF ReadInv

\* A merge leaves the reply that is merged, another step what there was.
LEMMA NextMergeInv ==
    ASSUME RepoTypes, MergeInv, [Next]_vars
    PROVE  MergeInv'
<1>1. ASSUME NEW n \in SyncId, ApplySync(n) PROVE MergeInv'
    <2>1. syncs \in [SyncId -> SyncType]
        BY DEF RepoTypes, RepoTypeOK, SyncType
    <2>2. /\ syncs'[n].stage = "applied" /\ syncs'[n].reply = syncs[n].reply
          /\ rewards' = syncs[n].reply.rewards
        BY <1>1, <2>1 DEF ApplySync, SyncType
    <2>3. Reference(utxoSet)' = syncs[n].reply.utxo
        BY <1>1, MergedIsReply
    <2> QED
        BY <2>2, <2>3 DEF MergeInv, Applied
<1>2. CASE UNCHANGED <<utxoSet, rewards>> /\ \A n \in SyncId : ~ ApplySync(n)
    <2>1. Applied' \subseteq Applied
        <3>1. \A n \in SyncId : ProviderReads(n) => syncs'[n].stage = "answered"
            <4>1. syncs \in [SyncId -> SyncType]
                BY DEF RepoTypes, RepoTypeOK, SyncType
            <4> QED
                BY <4>1 DEF ProviderReads, SyncType
        <3>2. \A n \in SyncId : n \in Applied' => ~ ProviderReads(n)
            BY <3>1 DEF Applied
        <3>3. \A n \in SyncId : n \in Applied' => n \in Applied
            BY <1>2, <3>2, RepliesStay
        <3> QED
            BY <3>3 DEF Applied
    <2>2. \A n \in Applied : n \in Applied' /\ syncs'[n].reply = syncs[n].reply
        BY RepliesStay DEF Applied, Read, ProviderReads
    <2>3. Reference(utxoSet)' = Reference(utxoSet)
        BY <1>2 DEF Reference
    <2> QED
        BY <1>2, <2>1, <2>2, <2>3 DEF MergeInv
<1> QED
    BY <1>1, <1>2 DEF Next, RepoStep, RepoReply, RepoMicrotask, vars, repoVars, Sync,
       ProviderReads, FailSync, OnTransaction, ConfirmedSettles, Unlock, DeliverEvent

\* Every step preserves the invariant.
LEMMA NextHistoryInv == HistoryInv /\ RewardsInv /\ [Next]_vars => HistoryInv'
<1> SUFFICES ASSUME HistoryInv, RewardsInv, [Next]_vars PROVE HistoryInv'
    OBVIOUS
<1>1. RepoTypes' /\ MergeInv'
    BY NextRepoTypes, NextMergeInv DEF HistoryInv
<1>2. CASE UNCHANGED ledgerVars
    BY <1>1, <1>2, StepReadInv DEF HistoryInv
<1>3. CASE UNCHANGED repoVars /\ (LedgerStep \/ \E t \in Tx : Accept(t))
    BY <1>1, <1>3, ChainReadInv DEF HistoryInv
<1> QED
    BY <1>2, <1>3 DEF Next, vars

\* An empty repository has read nothing.
LEMMA InitHistoryInv == Init => HistoryInv
BY InitRepoTypes DEF HistoryInv, ReadInv, MergeInv, Read, Applied, Init, RepoInit

\* Merging leaves no mixture: however replies overtake one another, and on any
\* chain, the repository is one of them, and what is spent in it is younger.
THEOREM RepositoryIsOneReply == Spec => []ListsOneReply
<1>1. HistoryInv => ListsOneReply
    BY DEF HistoryInv, ReadInv, MergeInv, ListsOneReply, Read, Applied
<1> QED
    BY <1>1, InitHistoryInv, NextHistoryInv, InitRewardsInv, NextRewardsInv, PTL DEF Spec

-----------------------------------------------------------------------------
(* What is locked, whatever the transactions share. *)

\* What a waiting handler holds is locked unless one that is done held it too.
HeldInv ==
    \A h \in Handler : Holding(h) =>
        \A o \in held[h] \ lockedUtxoSet :
            \E g \in Handler : handler[g] = "done" /\ o \in held[g]

\* A merge deletes an object only if its reply leaves the output out.
KeptInv ==
    \A h \in Handler : \A p \in held[h] \ {Undefined} :
        p \in utxoSet \/ \E n \in Applied : p.in \notin syncs[n].reply.utxo

HoldInv == RepoTypes /\ LockInv /\ HeldInv /\ KeptInv

\* What is locked stays so until a handler that holds it is done.
LEMMA NextHeldInv ==
    ASSUME RepoTypes, HeldInv, [Next]_vars
    PROVE  HeldInv'
<1> USE DEF Holding
<1>1. ASSUME NEW h \in Handler, NEW t \in Tx, OnTransaction(h, t) PROVE HeldInv'
    <2> SUFFICES ASSUME NEW k \in Handler, Holding(k)', NEW o \in held'[k] \ lockedUtxoSet'
                 PROVE  \E g \in Handler : handler'[g] = "done" /\ o \in held'[g]
        BY DEF HeldInv
    <2>1. k # h /\ held'[k] = held[k] /\ Holding(k) /\ o \notin lockedUtxoSet
        BY <1>1 DEF OnTransaction, RepoTypes, RepoTypeOK
    <2>2. PICK g \in Handler : handler[g] = "done" /\ o \in held[g]
        BY <2>1 DEF HeldInv
    <2> QED
        BY <1>1, <2>2 DEF OnTransaction, RepoTypes, RepoTypeOK
<1>2. ASSUME NEW h \in Handler, NEW n \in SyncId, Unlock(h, n) PROVE HeldInv'
    BY <1>2 DEF HeldInv, Unlock, RepoTypes, RepoTypeOK
<1>3. ASSUME NEW h \in Handler, ConfirmedSettles(h) PROVE HeldInv'
    BY <1>3 DEF HeldInv, ConfirmedSettles, RepoTypes, RepoTypeOK
<1>4. CASE UNCHANGED <<handler, held, lockedUtxoSet>>
    BY <1>4 DEF HeldInv
<1> QED
    BY <1>1, <1>2, <1>3, <1>4 DEF Next, RepoStep, RepoReply, RepoMicrotask, vars, repoVars,
       Sync, ProviderReads, ApplySync, FailSync, DeliverEvent

\* An object that is held leaves the repository with a reply.
LEMMA NextKeptInv ==
    ASSUME RepoTypes, KeptInv, [Next]_vars
    PROVE  KeptInv'
<1>1. \A n \in Applied : n \in Applied' /\ syncs'[n].reply = syncs[n].reply
    BY RepliesStay DEF Applied, Read, ProviderReads
<1>2. ASSUME NEW n \in SyncId, ApplySync(n) PROVE KeptInv'
    <2>1. n \in Applied' /\ syncs'[n].reply = syncs[n].reply
        BY <1>2 DEF ApplySync, Applied, RepoTypes, RepoTypeOK
    <2>2. \A p \in utxoSet \ utxoSet' : p.in \notin syncs[n].reply.utxo
        BY <1>2 DEF ApplySync, GoneUtxos
    <2>3. held' = held
        BY <1>2 DEF ApplySync
    <2> QED
        BY <1>1, <2>1, <2>2, <2>3 DEF KeptInv
<1>3. ASSUME NEW h \in Handler, NEW t \in Tx, OnTransaction(h, t) PROVE KeptInv'
    <2>1. \A k \in Handler : held'[k] \in {held[k], ObjectsOf(t)}
        BY <1>3 DEF OnTransaction, RepoTypes, RepoTypeOK
    <2>2. \A p \in ObjectsOf(t) \ {Undefined} : p \in utxoSet
        BY DEF ObjectsOf
    <2>3. utxoSet' = utxoSet
        BY <1>3 DEF OnTransaction
    <2> QED
        BY <1>1, <2>1, <2>2, <2>3 DEF KeptInv
<1>4. CASE UNCHANGED <<held, utxoSet>>
    BY <1>1, <1>4 DEF KeptInv
<1> QED
    BY <1>2, <1>3, <1>4 DEF Next, RepoStep, RepoReply, RepoMicrotask, vars, repoVars,
       Sync, ProviderReads, FailSync, ConfirmedSettles, Unlock, DeliverEvent

\* Every step preserves the invariant.
LEMMA NextHoldInv == HoldInv /\ RewardsInv /\ [Next]_vars => HoldInv'
BY NextRepoTypes, NextLockInv, NextHeldInv, NextKeptInv DEF HoldInv

\* Nobody holds anything at first.
LEMMA InitHoldInv == Init => HoldInv
BY InitRepoTypes, InitLockInv DEF HoldInv, HeldInv, KeptInv, Holding, Init, RepoInit

\* An input that is available though its transaction waits is one that was
\* unlisted, unlocked by another handler, or relisted.
LEMMA HoldIsLocked == HoldInv => LockedUnlessRelisted
<1> SUFFICES ASSUME HoldInv, NEW h \in Handler, Holding(h),
                    NEW o \in AvailableUtxos, LockedFor(h, o.in) # {}
             PROVE  \/ \E g \in Handler : handler[g] = "done" /\ o \in held[g]
                    \/ /\ o \notin held[h]
                       /\ \E n \in Applied : o.in \notin syncs[n].reply.utxo
    BY DEF LockedUnlessRelisted, Holders
<1>1. o \in utxoSet /\ o \notin lockedUtxoSet
    BY DEF AvailableUtxos
<1>2. CASE o \in held[h]
    BY <1>1, <1>2 DEF HoldInv, HeldInv
<1>3. CASE o \notin held[h]
    <2> PICK p \in held[h] \ {Undefined} : p.in = o.in
        BY DEF LockedFor
    <2>1. p \notin utxoSet
        BY <1>1, <1>3 DEF HoldInv, LockInv, OneObjectPerOutput
    <2> QED
        BY <1>3, <2>1 DEF HoldInv, KeptInv
<1> QED
    BY <1>2, <1>3

\* Whatever transactions share inputs and however replies arrive, these are
\* the only ways in which a pending transaction loses a lock.
THEOREM LocksAreLostOnlyBy == Spec => []LockedUnlessRelisted
BY HoldIsLocked, InitHoldInv, NextHoldInv, InitRewardsInv, NextRewardsInv, PTL DEF Spec

-----------------------------------------------------------------------------
(* The balances of a tracker that listens to the repository. *)

\* The newest event, or the balances when there is none, is up to date.
Reported ==
    IF events = <<>>
    THEN BalanceIsCurrent \/ lastEvent = "OutOfSync"
    ELSE LET newest == events[Len(events)]
         IN  newest.kind = "OutOfSync" \/ newest.fields = Fields

\* StaleBalanceIsReported speaks of the moments without events; the newest
\* event is what the balances will be at the next of them.
BalanceInv == RepoTypes /\ RewardsInv /\ (InternalSyncInFlight \/ Reported)

\* A step of the balances is one of the repository.
LEMMA BalanceSteps ==
    ASSUME [BalanceNext]_<<vars, balanceVars>>
    PROVE  [Next]_vars
BY DEF BalanceNext, RepoStepNoDelivery, BalanceListens, Next, RepoStep, RepoMicrotask

\* A step that appends the current fields, or that they are lost, reports.
LEMMA AppendReports ==
    ASSUME RepoTypes, NEW e,
           events' = Append(events, e),
           e.kind = "OutOfSync" \/ e.fields = Fields'
    PROVE  Reported'
<1>1. events \in Seq(EventType)
    BY DEF RepoTypes, RepoTypeOK, EventType
<1>2. events' # <<>> /\ events'[Len(events')] = e
    BY <1>1
<1> QED
    BY <1>2 DEF Reported

\* Every step preserves the invariant.
LEMMA NextBalanceInv ==
    BalanceInv /\ [BalanceNext]_<<vars, balanceVars>> => BalanceInv'
<1> SUFFICES ASSUME BalanceInv, [BalanceNext]_<<vars, balanceVars>> PROVE BalanceInv'
    OBVIOUS
<1>1. RepoTypes' /\ RewardsInv'
    BY BalanceSteps, NextRepoTypes, NextRewardsInv DEF BalanceInv
<1> SUFFICES (InternalSyncInFlight \/ Reported)'
    BY <1>1 DEF BalanceInv
<1>2. syncs \in [SyncId -> SyncType]
    BY DEF BalanceInv, RepoTypes, RepoTypeOK, SyncType
<1>3. ASSUME UNCHANGED <<utxoSet, lockedUtxoSet, rewards, lockedRewards, events, balanceVars>>,
             InternalSyncInFlight => InternalSyncInFlight'
      PROVE  (InternalSyncInFlight \/ Reported)'
    BY <1>3 DEF BalanceInv, Reported, BalanceIsCurrent, Fields, AvailableUtxos,
                AvailableRewards, balanceVars
<1>4. ASSUME NEW n \in SyncId, ApplySync(n) PROVE Reported'
    <2>1. events' = Append(events, Changed')
        BY <1>4 DEF ApplySync
    <2> QED
        BY <2>1, AppendReports DEF BalanceInv, Changed
<1>5. ASSUME NEW n \in SyncId, FailSync(n), UNCHANGED balanceVars
      PROVE  (InternalSyncInFlight \/ Reported)'
    <2>1. CASE syncs[n].internal
        BY <1>5, <2>1, AppendReports DEF BalanceInv, FailSync, OutOfSync
    <2>2. CASE ~syncs[n].internal
        BY <1>2, <1>3, <1>5, <2>2 DEF FailSync, InternalSyncInFlight, SyncType
    <2> QED
        BY <2>1, <2>2
<1>6. ASSUME NEW n \in SyncId, Sync(n) \/ ProviderReads(n), UNCHANGED balanceVars
      PROVE  (InternalSyncInFlight \/ Reported)'
    <2>1. InternalSyncInFlight => InternalSyncInFlight'
        BY <1>2, <1>6 DEF Sync, SendSync, ProviderReads, InternalSyncInFlight, SyncType
    <2> QED
        BY <1>3, <1>6, <2>1 DEF Sync, ProviderReads
<1>7. ASSUME NEW h \in Handler, NEW t \in Tx, OnTransaction(h, t) PROVE Reported'
    <2>1. events' = Append(events, Changed')
        BY <1>7 DEF OnTransaction
    <2> QED
        BY <2>1, AppendReports DEF BalanceInv, Changed
<1>8. ASSUME NEW h \in Handler, NEW n \in SyncId, Unlock(h, n) PROVE InternalSyncInFlight'
    BY <1>2, <1>8 DEF Unlock, SendSync, InternalSyncInFlight, SyncType
<1>9. CASE BalanceListens
    <2>1. /\ events \in Seq(EventType) /\ events # <<>> /\ events' = Tail(events)
          /\ UNCHANGED <<utxoSet, lockedUtxoSet, rewards, lockedRewards, syncs>>
        BY <1>9 DEF BalanceListens, DeliverEvent, BalanceInv, RepoTypes, RepoTypeOK, EventType
    <2>2. InternalSyncInFlight => InternalSyncInFlight'
        BY <2>1 DEF InternalSyncInFlight
    <2>3. Fields' = Fields
        BY <2>1 DEF Fields, AvailableUtxos, AvailableRewards
    <2>4. CASE Len(events) > 1
        <3>1. events' # <<>> /\ events'[Len(events')] = events[Len(events)]
            BY <2>1, <2>4
        <3> QED
            BY <2>1, <2>2, <2>3, <3>1 DEF BalanceInv, Reported
    <2>5. CASE Len(events) = 1
        <3>1. events' = <<>> /\ Head(events) = events[Len(events)] /\ Head(events) \in EventType
            BY <2>1, <2>5
        <3>2. Head(events).kind = "Changed" \/ Head(events).kind = "OutOfSync"
            BY <3>1 DEF EventType, OutOfSync
        <3>3. InternalSyncInFlight \/ Head(events).kind = "OutOfSync" \/ Head(events).fields = Fields
            BY <2>1, <3>1 DEF BalanceInv, Reported
        <3>4. Head(events).kind = "OutOfSync" => lastEvent' = "OutOfSync"
            BY <1>9 DEF BalanceListens
        <3>5. Head(events).kind = "Changed" /\ Head(events).fields = Fields => BalanceIsCurrent'
            BY <1>9, <2>3 DEF BalanceListens, BalanceIsCurrent, TotalOf, AvailableOf
        <3> QED
            BY <2>2, <3>1, <3>2, <3>3, <3>4, <3>5 DEF Reported
    <2>6. Len(events) > 1 \/ Len(events) = 1
        <3>1. Len(events) \in Nat /\ Len(events) # 0
            BY <2>1
        <3> QED
            BY <3>1
    <2> QED
        BY <2>4, <2>5, <2>6
<1>10. ASSUME NEW h \in Handler, ConfirmedSettles(h), UNCHANGED balanceVars
       PROVE  (InternalSyncInFlight \/ Reported)'
    BY <1>3, <1>10 DEF ConfirmedSettles, InternalSyncInFlight
<1>11. CASE UNCHANGED <<repoVars, balanceVars>>
    BY <1>3, <1>11 DEF repoVars, InternalSyncInFlight
<1> QED
    BY <1>4, <1>5, <1>6, <1>7, <1>8, <1>9, <1>10, <1>11
       DEF BalanceNext, RepoStepNoDelivery, RepoReply, vars

\* A balance that differs from its repository is never silent: an event or the
\* sync after an unlock is under way, or the users were told OutOfSync.
THEOREM StaleBalancesAreReported == BalanceSpec => []StaleBalanceIsReported
<1>1. BalanceInit => BalanceInv
    BY InitRepoTypes, InitRewardsInv
       DEF BalanceInit, BalanceInv, Reported, BalanceIsCurrent, Init, RepoInit
<1>2. BalanceInv => StaleBalanceIsReported
    BY DEF BalanceInv, Reported, StaleBalanceIsReported
<1> QED
    BY <1>1, <1>2, NextBalanceInv, PTL DEF BalanceSpec

=============================================================================
