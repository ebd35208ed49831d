--------------------------- MODULE BalanceTracker ---------------------------
(***************************************************************************)
(* BalanceTracker (packages/wallet/src) listening to the Changed events of *)
(* an InMemoryUtxoRepository.  A balance is kept as the set of outputs it  *)
(* adds up: which outputs are counted is what can go wrong, the sum is     *)
(* coalesceValueQuantities of packages/core.                               *)
(***************************************************************************)
EXTENDS UtxoRepository

VARIABLES
    total,      \* outputs and rewards in the total balance
    available,  \* outputs and rewards in the available balance
    lastEvent   \* kind of the last repository event the listeners got

balanceVars == <<total, available, lastEvent>>

\* #updateBalances with the fields of the repository or of its event.
TotalOf(fields) == [utxo |-> fields.allUtxos, rewards |-> fields.allRewards]
AvailableOf(fields) ==
    [utxo |-> fields.availableUtxos, rewards |-> fields.availableRewards]

\* The constructor reads the repository, which is empty then.
BalanceInit ==
    /\ Init
    /\ total = TotalOf(Fields)
    /\ available = AvailableOf(Fields)
    /\ lastEvent = "Changed"

\* A Changed event updates both balances; an OutOfSync event has no listener
\* here, users are told.
BalanceListens ==
    /\ DeliverEvent
    /\ lastEvent' = Head(events).kind
    /\ IF Head(events).kind = "Changed"
       THEN /\ total' = TotalOf(Head(events).fields)
            /\ available' = AvailableOf(Head(events).fields)
       ELSE UNCHANGED <<total, available>>

RepoStepNoDelivery ==
    \/ \E n \in SyncId : Sync(n) \/ ProviderReads(n) \/ RepoReply(n)
    \/ \E h \in Handler :
        \/ \E t \in Tx : OnTransaction(h, t)
        \/ RepoQuiet /\ ConfirmedSettles(h)
        \/ \E n \in SyncId : Unlock(h, n)

BalanceNext ==
    \/ RepoStepNoDelivery /\ UNCHANGED <<ledgerVars, balanceVars>>
    \/ BalanceListens /\ UNCHANGED ledgerVars
    \/ LedgerStep /\ UNCHANGED <<repoVars, balanceVars>>
    \/ (\E t \in Tx : Accept(t)) /\ UNCHANGED <<repoVars, balanceVars>>

BalanceSpec == BalanceInit /\ [][BalanceNext]_<<vars, balanceVars>>

-----------------------------------------------------------------------------
(* Properties. *)

InternalSyncInFlight ==
    \E n \in SyncId :
        syncs[n].internal /\ syncs[n].stage \in {"requested", "answered"}

BalanceIsCurrent == total = TotalOf(Fields) /\ available = AvailableOf(Fields)

\* Unlocking emits nothing (lines 147-152): a balance that differs from its
\* repository, with no event under way, is being refreshed by the sync that
\* follows the unlock, or the users were told OutOfSync and nothing since.
StaleBalanceIsReported ==
    events = <<>> /\ ~BalanceIsCurrent
        => InternalSyncInFlight \/ lastEvent = "OutOfSync"

=============================================================================
