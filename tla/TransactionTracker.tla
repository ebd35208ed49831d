------------------------- MODULE TransactionTracker -------------------------
(***************************************************************************)
(* InMemoryTransactionTracker (packages/wallet/src): every call of track   *)
(* waits for the submission, then shares the poll of its transaction or    *)
(* starts one; a poll asks the provider for the transaction, then for the  *)
(* tip, until it is found, expired or lost.                                *)
(*                                                                         *)
(* A call is identified by an element of Call, and the promise that        *)
(* #checkTransactionViaProvider returns by the call that started it.       *)
(* Steps are the pieces of code between two awaits.  The reactions of a    *)
(* settled promise and the listeners of an event are microtasks: the event *)
(* loop runs all of them before it takes the next timer or reply, which is *)
(* what TrackerQuiet says.                                                 *)
(***************************************************************************)
EXTENDS Ledger

CONSTANTS
    Call,   \* calls of track()
    None    \* no transaction, no promise

ASSUME TrackerAssumption == None \notin Call /\ None \notin Tx

VARIABLES
    caller,     \* caller[c]: where call c is
    callTx,     \* callTx[c]: the transaction call c tracks
    promise,    \* promise[c]: the poll whose promise call c returned
    poll,       \* poll[p]: where the poll started by call p is
    pending,    \* pending[t]: entry of t in #pendingTransactions
    cleanup,    \* settled polls whose deletion from the map has not run
    announced   \* polls whose NewTransaction event has not been delivered

trackerVars == <<caller, callTx, promise, poll, pending, cleanup, announced>>

LivePoll == {"delay", "queryTx", "queryTip"}
SettledPoll == {"confirmed", "CannotTrack", "Timeout"}

TrackerTypeOK ==
    /\ caller \in [Call -> {"idle", "submitting", "tracking",
                            "FailedToSubmit", "CannotTrack"}]
    /\ callTx \in [Call -> Tx \cup {None}]
    /\ promise \in [Call -> Call \cup {None}]
    /\ poll \in [Call -> {"none"} \cup LivePoll \cup SettledPoll]
    /\ pending \in [Tx -> Call \cup {None}]
    /\ cleanup \subseteq Call
    /\ announced \subseteq Call

TrackerInit ==
    /\ caller = [c \in Call |-> "idle"]
    /\ callTx = [c \in Call |-> None]
    /\ promise = [c \in Call |-> None]
    /\ poll = [c \in Call |-> "none"]
    /\ pending = [t \in Tx |-> None]
    /\ cleanup = {}
    /\ announced = {}

-----------------------------------------------------------------------------
(* The call of track(). *)

\* track(transaction, submitted) is called and awaits submitted.
Track(c, t) ==
    /\ caller[c] = "idle"
    /\ caller' = [caller EXCEPT ![c] = "submitting"]
    /\ callTx' = [callTx EXCEPT ![c] = t]
    /\ UNCHANGED <<promise, poll, pending, cleanup, announced>>

\* submitted rejects: so does the call, and nothing is tracked.
SubmissionFails(c) ==
    /\ caller[c] = "submitting"
    /\ caller' = [caller EXCEPT ![c] = "FailedToSubmit"]
    /\ UNCHANGED <<callTx, promise, poll, pending, cleanup, announced>>

\* Mutant: a call that joins a poll announces its transaction again.
JoinPendingAnnounces(c) ==
    /\ caller[c] = "submitting"
    /\ pending[callTx[c]] # None
    /\ caller' = [caller EXCEPT ![c] = "tracking"]
    /\ promise' = [promise EXCEPT ![c] = pending[callTx[c]]]
    /\ announced' = announced \cup {c}
    /\ UNCHANGED <<callTx, poll, pending, cleanup>>

\* submitted resolves, and the transaction is already in the map.
JoinPending(c) ==
    /\ caller[c] = "submitting"
    /\ pending[callTx[c]] # None
    /\ caller' = [caller EXCEPT ![c] = "tracking"]
    /\ promise' = [promise EXCEPT ![c] = pending[callTx[c]]]
    /\ UNCHANGED <<callTx, poll, pending, cleanup, announced>>

\* submitted resolves, and the transaction has no ttl.
RefuseNoTtl(c) ==
    /\ caller[c] = "submitting"
    /\ pending[callTx[c]] = None
    /\ Ttl[callTx[c]] = 0
    /\ caller' = [caller EXCEPT ![c] = "CannotTrack"]
    /\ UNCHANGED <<callTx, promise, poll, pending, cleanup, announced>>

\* Mutant: the map is not consulted before a poll is started.
StartPollingUnchecked(c) ==
    /\ caller[c] = "submitting"
    /\ Ttl[callTx[c]] # 0
    /\ caller' = [caller EXCEPT ![c] = "tracking"]
    /\ promise' = [promise EXCEPT ![c] = c]
    /\ poll' = [poll EXCEPT ![c] = "delay"]
    /\ pending' = [pending EXCEPT ![callTx[c]] = c]
    /\ announced' = announced \cup {c}
    /\ UNCHANGED <<callTx, cleanup>>

\* submitted resolves: the call starts a poll, records it and announces it.
StartPolling(c) ==
    /\ caller[c] = "submitting"
    /\ pending[callTx[c]] = None
    /\ Ttl[callTx[c]] # 0
    /\ caller' = [caller EXCEPT ![c] = "tracking"]
    /\ promise' = [promise EXCEPT ![c] = c]
    /\ poll' = [poll EXCEPT ![c] = "delay"]
    /\ pending' = [pending EXCEPT ![callTx[c]] = c]
    /\ announced' = announced \cup {c}
    /\ UNCHANGED <<callTx, cleanup>>

-----------------------------------------------------------------------------
(* The poll: timers and replies of the provider. *)

\* Mutant: the entry of a settled poll stays in the map.
SettleLeavesEntry(p, outcome) ==
    /\ poll' = [poll EXCEPT ![p] = outcome]
    /\ UNCHANGED <<caller, callTx, promise, pending, cleanup, announced>>

\* The promise of p settles; its reaction that empties the map is queued.
Settle(p, outcome) ==
    /\ poll' = [poll EXCEPT ![p] = outcome]
    /\ cleanup' = cleanup \cup {p}
    /\ UNCHANGED <<caller, callTx, promise, pending, announced>>

Proceed(p, stage) ==
    /\ poll' = [poll EXCEPT ![p] = stage]
    /\ UNCHANGED <<caller, callTx, promise, pending, cleanup, announced>>

DelayElapsed(p) ==
    /\ poll[p] = "delay"
    /\ Proceed(p, "queryTx")

\* queryTransactionsByHashes answers with the transaction.
TxFound(p) ==
    /\ poll[p] = "queryTx"
    /\ included[callTx[p]] > 0
    /\ Settle(p, "confirmed")

\* It answers with an empty list, or rejects with ProviderFailure.NotFound.
TxNotFound(p) ==
    /\ poll[p] = "queryTx"
    /\ included[callTx[p]] = 0
    /\ Proceed(p, "queryTip")

\* It rejects with any other error.
TxQueryFails(p) ==
    /\ poll[p] = "queryTx"
    /\ Settle(p, "CannotTrack")

\* Mutant: the tip is not compared with the ttl before polling again.
TipStillValidAlways(p) == poll[p] = "queryTip" /\ Proceed(p, "delay")

\* The ttl has not passed at the tip: poll again.
TipStillValid(p) ==
    /\ poll[p] = "queryTip"
    /\ tip <= Ttl[callTx[p]]
    /\ Proceed(p, "delay")

\* Mutants: the tip is not compared, is compared with >=, or the wrong reason
\* is given.
TipExpiredUnchecked(p) == poll[p] = "queryTip" /\ Settle(p, "Timeout")

TipExpiredAtTtl(p) ==
    /\ poll[p] = "queryTip"
    /\ tip >= Ttl[callTx[p]]
    /\ Settle(p, "Timeout")

TipExpiredWrongReason(p) ==
    /\ poll[p] = "queryTip"
    /\ tip > Ttl[callTx[p]]
    /\ Settle(p, "FailedToSubmit")

TipExpired(p) ==
    /\ poll[p] = "queryTip"
    /\ tip > Ttl[callTx[p]]
    /\ Settle(p, "Timeout")

TipQueryFails(p) ==
    /\ poll[p] = "queryTip"
    /\ Settle(p, "CannotTrack")

-----------------------------------------------------------------------------
(* Microtasks. *)

\* The reaction of a settled poll: #pendingTransactions.delete(hash).
Forget(p) ==
    /\ p \in cleanup
    /\ cleanup' = cleanup \ {p}
    /\ pending' = [pending EXCEPT ![callTx[p]] = None]
    /\ UNCHANGED <<caller, callTx, promise, poll, announced>>

\* The NewTransaction event reaches its listeners.
DeliverNewTransaction(p) ==
    /\ p \in announced
    /\ announced' = announced \ {p}
    /\ UNCHANGED <<caller, callTx, promise, poll, pending, cleanup>>

TrackerQuiet == cleanup = {} /\ announced = {}

-----------------------------------------------------------------------------

\* What a caller, or the end of its submission, makes the tracker do.
TrackerCall(c) ==
    \/ \E t \in Tx : Track(c, t)
    \/ SubmissionFails(c)
    \/ JoinPending(c)
    \/ RefuseNoTtl(c)
    \/ StartPolling(c)

ProviderReplies(p) ==
    \/ TxFound(p)
    \/ TxNotFound(p)
    \/ TxQueryFails(p)
    \/ TipStillValid(p)
    \/ TipExpired(p)
    \/ TipQueryFails(p)

PollStep(p) == TrackerQuiet /\ (DelayElapsed(p) \/ ProviderReplies(p))

TrackerMicrotask(p) == Forget(p) \/ DeliverNewTransaction(p)

TrackerStep ==
    \E c \in Call : TrackerCall(c) \/ PollStep(c) \/ TrackerMicrotask(c)

vars == <<ledgerVars, trackerVars>>

Init == LedgerInit /\ TrackerInit

Next ==
    \/ TrackerStep /\ UNCHANGED ledgerVars
    \/ LedgerStep /\ UNCHANGED trackerVars
    \/ (\E t \in Tx : Accept(t)) /\ UNCHANGED trackerVars

Spec == Init /\ [][Next]_vars

-----------------------------------------------------------------------------
(* Refinement of TransactionConfirmation. *)

\* What the promise of call c shows: its own rejection, or the poll's outcome.
Outcome(c) ==
    CASE caller[c] = "idle" -> "none"
      [] caller[c] = "submitting" -> "open"
      [] caller[c] = "tracking" ->
            IF poll[promise[c]] \in SettledPoll THEN poll[promise[c]] ELSE "open"
      [] OTHER -> caller[c]

Confirmation ==
    INSTANCE TransactionConfirmation
        WITH tx <- callTx, outcome <- [c \in Call |-> Outcome(c)]

\* Whatever way the calls, the poll and the microtasks interleave, every caller
\* sees a promise that settles at most once, as confirmed only if the
\* transaction was on the chain and as timed out only after its ttl.
ImplementsConfirmation == Confirmation!ConfirmationSpec

-----------------------------------------------------------------------------
(* Properties. *)

\* A poll that runs, or whose entry is not deleted yet, is the entry of its
\* transaction: so two polls never run for one transaction, and every call in
\* the meantime gets the same promise (the has/get of lines 36-38 and the
\* delete of line 48, which runs in a later microtask).
LivePollRegistered ==
    \A p \in Call :
        poll[p] \in LivePoll \/ p \in cleanup => pending[callTx[p]] = p

\* The map holds only polls that are running or are about to be deleted, under
\* the hash they poll for: a call is never given the promise of another
\* transaction, nor of a poll that ended long ago.
PendingIsLive ==
    \A t \in Tx : pending[t] # None =>
        /\ callTx[pending[t]] = t
        /\ poll[pending[t]] \in LivePoll \/ pending[t] \in cleanup

\* Once a poll timed out, its transaction is not put on the chain any more
\* (line 78: the tip is past the ttl).  Needs a chain without rollbacks.
TimedOutNeverIncludedLater ==
    [][\A p \in Call :
        poll[p] = "Timeout" /\ included[callTx[p]] = 0
            => included'[callTx[p]] = 0]_vars

\* Every call whose submission succeeded gets an outcome, even if the provider
\* never finds the transaction (lines 67-82).
EveryTrackSettles ==
    \A c \in Call :
        caller[c] = "tracking" ~> caller[c] = "tracking"
                                    /\ poll[promise[c]] \in SettledPoll

\* packages/wallet/test/integration/withdrawal.test.ts:91 "Transaction has
\* expired and will not be confirmed. Therefore it's safe to spend the UTxO
\* again."  The code asks for the transaction and then for the tip.
TimeoutIsFinal ==
    \A p \in Call : poll[p] = "Timeout" => included[callTx[p]] = 0

=============================================================================
