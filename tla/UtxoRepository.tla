--------------------------- MODULE UtxoRepository ---------------------------
(***************************************************************************)
(* InMemoryUtxoRepository (packages/wallet/src): a local copy of the       *)
(* outputs and rewards of the wallet, refreshed by sync(), and the locks   *)
(* that tracked transactions hold on it.                                   *)
(*                                                                         *)
(* The code compares outputs by reference when it merges a reply           *)
(* (utxoEquals) but locks them by object identity (Set.has), so the model  *)
(* keeps both: an element of utxoSet is [in, seq], the output in as the    *)
(* object that the reply to sync number seq brought.                       *)
(*                                                                         *)
(* The tracker is the environment here: a NewTransaction event may come at *)
(* any time with any transaction, and its promise may settle at any time.  *)
(* A handler is identified by that promise.                                *)
(***************************************************************************)
EXTENDS Ledger, Sequences

CONSTANTS
    Handler,        \* promises that come with NewTransaction events
    None,           \* no transaction
    Undefined,      \* what find() returns when no output matches
    MaxUserSyncs    \* bound: calls of sync() by users

ASSUME RepositoryAssumption ==
    /\ MaxUserSyncs \in Nat
    /\ IsFiniteSet(Handler)
    /\ None \notin Tx

VARIABLES
    utxoSet,        \* #utxoSet
    lockedUtxoSet,  \* #lockedUtxoSet
    rewards,        \* #delegationAndRewards.rewards, 0 when undefined
    lockedRewards,  \* #lockedRewards
    syncs,          \* syncs[n]: the n-th call of sync() and the reply it got
    handler,        \* handler[h]: where the run of #onTransaction is
    handled,        \* handled[h]: its transaction
    held,           \* held[h]: its utxoLockedByTx
    events          \* events emitted and not delivered to the listeners yet

repoVars == <<utxoSet, lockedUtxoSet, rewards, lockedRewards,
              syncs, handler, handled, held, events>>

\* Every handler calls sync() once.
SyncId == 1..(MaxUserSyncs + Cardinality(Handler))
Utxo == [in : TxIn, seq : SyncId]
Reference(objects) == {o.in : o \in objects}

\* undefined is not an object.
ASSUME ObjectAssumption == Undefined \notin Utxo

\* asOf is the slot a reply was read at; the program does not see it.
Reply == [utxo : SUBSET TxIn, rewards : Int, asOf : Nat]
NoReply == [utxo |-> {}, rewards |-> 0, asOf |-> 0]

RepoInit ==
    /\ utxoSet = {}
    /\ lockedUtxoSet = {}
    /\ rewards = 0
    /\ lockedRewards = 0
    /\ syncs = [n \in SyncId |->
                    [stage |-> "unused", internal |-> FALSE, reply |-> NoReply]]
    /\ handler = [h \in Handler |-> "none"]
    /\ handled = [h \in Handler |-> None]
    /\ held = [h \in Handler |-> {}]
    /\ events = <<>>

-----------------------------------------------------------------------------
(* Getters. *)

AvailableUtxos == utxoSet \ lockedUtxoSet

AvailableRewards == IF rewards = 0 THEN 0 ELSE rewards - lockedRewards

\* The payload of a Changed event, and what the getters answer now.
Fields ==
    [allUtxos |-> Reference(utxoSet),
     availableUtxos |-> Reference(AvailableUtxos),
     allRewards |-> rewards,
     availableRewards |-> AvailableRewards]

Changed == [kind |-> "Changed", fields |-> Fields]
OutOfSync == [kind |-> "OutOfSync"]

-----------------------------------------------------------------------------
(* sync(): the request, the provider's read, and the reply's arrival. *)

\* sync() sends its request as the n-th; internal is a call of #trySync.
SendSync(n, internal) ==
    /\ syncs[n].stage = "unused"
    /\ \A m \in SyncId : m < n => syncs[m].stage # "unused"
    /\ syncs' = [syncs EXCEPT ![n].stage = "requested",
                              ![n].internal = internal]

UserSyncs == {n \in SyncId : syncs[n].stage # "unused" /\ ~syncs[n].internal}

\* A user calls sync().
Sync(n) ==
    /\ Cardinality(UserSyncs) < MaxUserSyncs
    /\ SendSync(n, FALSE)
    /\ UNCHANGED <<utxoSet, lockedUtxoSet, rewards, lockedRewards,
                   handler, handled, held, events>>

\* The provider reads the ledger for request n.  Nothing in the code makes it
\* read, or its replies arrive, in the order of the requests.
ProviderReads(n) ==
    /\ syncs[n].stage = "requested"
    /\ syncs' = [syncs EXCEPT
                    ![n].stage = "answered",
                    ![n].reply = [utxo |-> Unspent,
                                  rewards |-> RewardBalance,
                                  asOf |-> tip]]
    /\ UNCHANGED <<utxoSet, lockedUtxoSet, rewards, lockedRewards,
                   handler, handled, held, events>>

\* Mutant: objects are compared by identity instead of utxoEquals.
NewUtxosByIdentity(n) == [in : syncs[n].reply.utxo, seq : {n}]

NewUtxos(n) ==
    [in : syncs[n].reply.utxo \ Reference(utxoSet), seq : {n}]

\* Mutant: locked outputs are kept whatever the reply says.
GoneUtxosNotLocked(n) ==
    {o \in utxoSet \ lockedUtxoSet : o.in \notin syncs[n].reply.utxo}

GoneUtxos(n) == {o \in utxoSet : o.in \notin syncs[n].reply.utxo}

\* The reply arrives and is merged: outputs that are new are added, those
\* that are gone deleted, the others keep their object.
ApplySync(n) ==
    /\ syncs[n].stage = "answered"
    /\ syncs' = [syncs EXCEPT ![n].stage = "applied"]
    /\ utxoSet' = (utxoSet \cup NewUtxos(n)) \ GoneUtxos(n)
    /\ rewards' = syncs[n].reply.rewards
    /\ UNCHANGED <<lockedUtxoSet, lockedRewards, handler, handled, held>>
    /\ events' = Append(events, Changed')

\* Mutant: a failure is not reported.
FailSyncSilently(n) ==
    /\ syncs[n].stage \in {"requested", "answered"}
    /\ syncs' = [syncs EXCEPT ![n].stage = "failed"]
    /\ UNCHANGED <<utxoSet, lockedUtxoSet, rewards, lockedRewards,
                   handler, handled, held, events>>

\* The request fails: sync() rejects, #trySync emits OutOfSync.
FailSync(n) ==
    /\ syncs[n].stage \in {"requested", "answered"}
    /\ syncs' = [syncs EXCEPT ![n].stage = "failed"]
    /\ events' = IF syncs[n].internal THEN Append(events, OutOfSync) ELSE events
    /\ UNCHANGED <<utxoSet, lockedUtxoSet, rewards, lockedRewards,
                   handler, handled, held>>

-----------------------------------------------------------------------------
(* #onTransaction. *)

\* The object find() returns for each input of t.
ObjectsOf(t) ==
    {o \in utxoSet : o.in \in Inputs[t]}
        \cup (IF Inputs[t] \subseteq Reference(utxoSet) THEN {} ELSE {Undefined})

\* A NewTransaction event is delivered: lock rewards and outputs.
OnTransaction(h, t) ==
    /\ handler[h] = "none"
    /\ handler' = [handler EXCEPT ![h] = "waiting"]
    /\ handled' = [handled EXCEPT ![h] = t]
    /\ held' = [held EXCEPT ![h] = ObjectsOf(t)]
    /\ lockedUtxoSet' = lockedUtxoSet \cup ObjectsOf(t)
    /\ lockedRewards' = lockedRewards + Withdraws[t]
    /\ UNCHANGED <<utxoSet, rewards, syncs>>
    /\ events' = Append(events, Changed')

\* confirmed resolves or rejects: the handler resumes in a later microtask.
ConfirmedSettles(h) ==
    /\ handler[h] = "waiting"
    /\ handler' = [handler EXCEPT ![h] = "resuming"]
    /\ UNCHANGED <<utxoSet, lockedUtxoSet, rewards, lockedRewards,
                   syncs, handled, held, events>>

\* Mutants: the outputs, or the rewards, stay locked.
UnlockRewardsOnly(h, n) ==
    /\ handler[h] = "resuming"
    /\ handler' = [handler EXCEPT ![h] = "done"]
    /\ lockedRewards' = lockedRewards - Withdraws[handled[h]]
    /\ SendSync(n, TRUE)
    /\ UNCHANGED <<utxoSet, lockedUtxoSet, rewards, handled, held, events>>

UnlockUtxosOnly(h, n) ==
    /\ handler[h] = "resuming"
    /\ handler' = [handler EXCEPT ![h] = "done"]
    /\ lockedUtxoSet' = lockedUtxoSet \ held[h]
    /\ SendSync(n, TRUE)
    /\ UNCHANGED <<utxoSet, rewards, lockedRewards, handled, held, events>>

\* Mutant: all locks are cleared.
UnlockEverything(h, n) ==
    /\ handler[h] = "resuming"
    /\ handler' = [handler EXCEPT ![h] = "done"]
    /\ lockedUtxoSet' = {}
    /\ lockedRewards' = lockedRewards - Withdraws[handled[h]]
    /\ SendSync(n, TRUE)
    /\ UNCHANGED <<utxoSet, rewards, handled, held, events>>

\* The handler resumes: unlock, then #trySync.
Unlock(h, n) ==
    /\ handler[h] = "resuming"
    /\ handler' = [handler EXCEPT ![h] = "done"]
    /\ lockedUtxoSet' = lockedUtxoSet \ held[h]
    /\ lockedRewards' = lockedRewards - Withdraws[handled[h]]
    /\ SendSync(n, TRUE)
    /\ UNCHANGED <<utxoSet, rewards, handled, held, events>>

\* The next event reaches its listeners.
DeliverEvent ==
    /\ events # <<>>
    /\ events' = Tail(events)
    /\ UNCHANGED <<utxoSet, lockedUtxoSet, rewards, lockedRewards,
                   syncs, handler, handled, held>>

\* The repository has no microtask left.
RepoQuiet == events = <<>> /\ \A h \in Handler : handler[h] # "resuming"

-----------------------------------------------------------------------------

RepoReply(n) == RepoQuiet /\ (ApplySync(n) \/ FailSync(n))

RepoMicrotask == DeliverEvent \/ \E h \in Handler, n \in SyncId : Unlock(h, n)

vars == <<ledgerVars, repoVars>>

Init == LedgerInit /\ RepoInit

RepoStep ==
    \/ \E n \in SyncId : Sync(n) \/ ProviderReads(n) \/ RepoReply(n)
    \/ \E h \in Handler :
        \/ \E t \in Tx : OnTransaction(h, t)
        \/ RepoQuiet /\ ConfirmedSettles(h)
    \/ RepoMicrotask

Next ==
    \/ RepoStep /\ UNCHANGED ledgerVars
    \/ LedgerStep /\ UNCHANGED repoVars
    \/ (\E t \in Tx : Accept(t)) /\ UNCHANGED repoVars

Spec == Init /\ [][Next]_vars

-----------------------------------------------------------------------------
(* Properties. *)

Holding(h) == handler[h] \in {"waiting", "resuming"}
Holders == {h \in Handler : Holding(h)}

RepoTypeOK ==
    /\ utxoSet \subseteq Utxo
    /\ lockedUtxoSet \subseteq Utxo \cup {Undefined}
    /\ rewards \in Int
    /\ lockedRewards \in Int
    /\ syncs \in [SyncId -> [stage : {"unused", "requested", "answered",
                                      "applied", "failed"},
                             internal : BOOLEAN,
                             reply : Reply]]
    /\ handler \in [Handler -> {"none", "waiting", "resuming", "done"}]
    /\ handled \in [Handler -> Tx \cup {None}]
    /\ held \in [Handler -> SUBSET (Utxo \cup {Undefined})]
    /\ events \in Seq({OutOfSync} \cup
            [kind : {"Changed"},
             fields : [allUtxos : SUBSET TxIn, availableUtxos : SUBSET TxIn,
                       allRewards : Int, availableRewards : Int]])

\* The merge of lines 57-68 never leaves two objects for one output, whatever
\* the order in which concurrent replies arrive: no balance counts it twice.
OneObjectPerOutput ==
    \A o, q \in utxoSet : o.in = q.in => o = q

\* No lock leaks: whatever is locked is held by a handler that still waits and
\* will unlock it (lines 130-155).
LocksAreHeld ==
    lockedUtxoSet \subseteq UNION {held[h] : h \in Holders}

\* The locked rewards are those of the transactions still waited for: every
\* += of line 133 is undone once, by the -= of line 152.
LockedRewardsAccounted ==
    lockedRewards = SumFunctionOnSet([h \in Holders |-> Withdraws[handled[h]]],
                                     Holders)

Applied == {n \in SyncId : syncs[n].stage = "applied"}

\* In whatever order replies arrive, the repository is that of one reply, its
\* outputs and its rewards, and never a mixture of two (lines 57-80).  On a
\* chain without rollbacks an output that a merged reply knew to be spent can
\* be back only because that one reply is older than the block that spends it.
ListsOneReply ==
    \/ Applied = {} /\ utxoSet = {} /\ rewards = 0
    \/ \E n \in Applied :
        /\ Reference(utxoSet) = syncs[n].reply.utxo
        /\ rewards = syncs[n].reply.rewards
        /\ rollbacks = 0 =>
            \A t \in OnChain : Inputs[t] \cap Reference(utxoSet) # {} =>
                syncs[n].reply.asOf < included[t]

\* The objects a handler locked for an output.
LockedFor(h, i) == {p \in held[h] \ {Undefined} : p.in = i}

\* An input of a transaction that is still waited for is available only if the
\* repository did not list it when the handler locked the inputs, if a handler
\* that is done held the same object and has deleted it from the locks (line
\* 149), or if some reply left the output out and another brought it back as
\* an object that nobody locked (lines 57-68).
LockedUnlessRelisted ==
    \A h \in Holders : \A o \in AvailableUtxos : o.in \in Inputs[handled[h]] =>
        \/ LockedFor(h, o.in) = {}
        \/ \E g \in Handler : handler[g] = "done" /\ o \in held[g]
        \/ /\ o \notin held[h]
           /\ \E n \in Applied : o.in \notin syncs[n].reply.utxo

\* packages/wallet/test/InMemoryUtxoRepository.test.ts:125-127 "transaction not
\* yet confirmed": what a handler has locked is not available while it waits.
LocksLastUntilConfirmed ==
    \A h \in Holders : held[h] \cap AvailableUtxos = {}

\* packages/wallet/test/InMemoryUtxoRepository.test.ts:194-197 "Assert values
\* from provider sync": once the sync that follows a confirmation is merged,
\* the inputs of the confirmed transaction are not available.
ConfirmedInputsGone ==
    \A h \in Handler, n \in Applied :
        /\ handler[h] = "done"
        /\ syncs[n].internal
        /\ included[handled[h]] \in 1..syncs[n].reply.asOf
        => Reference(AvailableUtxos) \cap Inputs[handled[h]] = {}

=============================================================================
