---------------------- MODULE TransactionTrackerProofs ----------------------
(***************************************************************************)
(* Theorems about TransactionTracker, for any number of transactions and   *)
(* calls and any behaviour of the chain.                                   *)
(***************************************************************************)
EXTENDS TransactionTracker, TLAPS

-----------------------------------------------------------------------------
(* The inductive invariant. *)

\* A call that has begun tracks a transaction; a poll was started by a call
\* that tracks; a poll is over when its entry is about to be deleted.
ControlInv ==
    /\ \A c \in Call : caller[c] # "idle" => callTx[c] \in Tx
    /\ \A p \in Call : poll[p] # "none" => caller[p] = "tracking"
    /\ \A p \in cleanup : poll[p] \in SettledPoll

\* LivePollRegistered is not inductive alone: StartPolling preserves it only
\* because a free entry means no live poll, and Forget because an entry is
\* that of the poll being cleaned up; PendingIsLive says what an entry is.
IInv ==
    /\ TrackerTypeOK
    /\ ControlInv
    /\ LivePollRegistered
    /\ PendingIsLive

USE DEF TrackerTypeOK, ControlInv, LivePollRegistered, PendingIsLive,
        LivePoll, SettledPoll

\* Initially no call has begun.
LEMMA InitIInv == Init => IInv
BY DEF Init, TrackerInit, IInv

\* Calls preserve the invariant.
LEMMA CallIInv ==
    ASSUME IInv, NEW c \in Call, TrackerCall(c)
    PROVE  IInv'
<1>1. ASSUME NEW t \in Tx, Track(c, t) PROVE IInv'
    BY <1>1 DEF IInv, Track
<1>2. CASE SubmissionFails(c)
    BY <1>2 DEF IInv, SubmissionFails
<1>3. CASE JoinPending(c)
    BY <1>3 DEF IInv, JoinPending
<1>4. CASE RefuseNoTtl(c)
    BY <1>4 DEF IInv, RefuseNoTtl
<1>5. CASE StartPolling(c)
    BY <1>5, TrackerAssumption DEF IInv, StartPolling
<1> QED
    BY <1>1, <1>2, <1>3, <1>4, <1>5 DEF TrackerCall

\* A poll that goes on preserves the invariant.
LEMMA ProceedIInv ==
    ASSUME IInv, NEW p \in Call, NEW stage \in LivePoll,
           poll[p] \in LivePoll, Proceed(p, stage)
    PROVE  IInv'
BY DEF IInv, Proceed

\* A poll that settles preserves the invariant.
LEMMA SettleIInv ==
    ASSUME IInv, NEW p \in Call, NEW outcome \in SettledPoll,
           poll[p] \in LivePoll, Settle(p, outcome)
    PROVE  IInv'
BY DEF IInv, Settle

\* Timers and replies preserve the invariant.
LEMMA PollIInv ==
    ASSUME IInv, NEW p \in Call, PollStep(p)
    PROVE  IInv'
<1>1. CASE DelayElapsed(p)
    BY <1>1, ProceedIInv DEF DelayElapsed
<1>2. CASE TxFound(p)
    BY <1>2, SettleIInv DEF TxFound
<1>3. CASE TxNotFound(p)
    BY <1>3, ProceedIInv DEF TxNotFound
<1>4. CASE TxQueryFails(p)
    BY <1>4, SettleIInv DEF TxQueryFails
<1>5. CASE TipStillValid(p)
    BY <1>5, ProceedIInv DEF TipStillValid
<1>6. CASE TipExpired(p)
    BY <1>6, SettleIInv DEF TipExpired
<1>7. CASE TipQueryFails(p)
    BY <1>7, SettleIInv DEF TipQueryFails
<1> QED
    BY <1>1, <1>2, <1>3, <1>4, <1>5, <1>6, <1>7 DEF PollStep, ProviderReplies

\* Microtasks preserve the invariant.
LEMMA MicrotaskIInv ==
    ASSUME IInv, NEW p \in Call, TrackerMicrotask(p)
    PROVE  IInv'
<1>1. CASE Forget(p)
    BY <1>1, TrackerAssumption DEF IInv, Forget
<1>2. CASE DeliverNewTransaction(p)
    BY <1>2 DEF IInv, DeliverNewTransaction
<1> QED
    BY <1>1, <1>2 DEF TrackerMicrotask

\* Every step preserves the invariant.
LEMMA NextIInv == IInv /\ [Next]_vars => IInv'
<1> SUFFICES ASSUME IInv, [Next]_vars PROVE IInv'
    OBVIOUS
<1>1. CASE TrackerStep
    BY <1>1, CallIInv, PollIInv, MicrotaskIInv DEF TrackerStep
<1>2. CASE UNCHANGED trackerVars
    BY <1>2 DEF IInv, trackerVars
<1> QED
    BY <1>1, <1>2 DEF Next, vars

\* The variables of the tracker keep their types, whatever the number of
\* calls and transactions.
THEOREM TypeCorrect == Spec => []TrackerTypeOK
<1>1. IInv => TrackerTypeOK
    BY DEF IInv
<1> QED
    BY <1>1, InitIInv, NextIInv, PTL DEF Spec

\* Two polls never run for one transaction, and a settled poll is still the
\* entry of its transaction when its reaction deletes that entry.
THEOREM PollsAreRegistered == Spec => []LivePollRegistered
<1>1. IInv => LivePollRegistered
    BY DEF IInv
<1> QED
    BY <1>1, InitIInv, NextIInv, PTL DEF Spec

\* The map never gives a call the promise of another transaction or of a poll
\* that has been cleaned up.
THEOREM EntriesAreLive == Spec => []PendingIsLive
<1>1. IInv => PendingIsLive
    BY DEF IInv
<1> QED
    BY <1>1, InitIInv, NextIInv, PTL DEF Spec

-----------------------------------------------------------------------------
(* A timeout is never followed by an inclusion, without rollbacks. *)

\* A poll has a ttl, and one that timed out has it in the past.
TimeoutInv ==
    /\ LedgerTypeOK
    /\ \A p \in Call : poll[p] # "none" => Ttl[callTx[p]] # 0
    /\ \A p \in Call : poll[p] = "Timeout" => Ttl[callTx[p]] < tip

\* A step of the chain keeps its types and, but for a rollback, its slots.
LEMMA LedgerMonotone ==
    ASSUME LedgerTypeOK, MaxRollbacks = 0,
           LedgerStep \/ \E t \in Tx : Accept(t)
    PROVE  /\ LedgerTypeOK'
           /\ tip' >= tip
<1>1. CASE ChainGrows
    <2> PICK ts \in SUBSET mempool : MintBlock(ts)
        BY <1>1 DEF ChainGrows
    <2> QED
        BY DEF MintBlock, LedgerTypeOK
<1>2. CASE AccrueRewards
    BY <1>2 DEF AccrueRewards, LedgerTypeOK
<1>3. CASE Rollback
    BY <1>3 DEF Rollback, LedgerTypeOK
<1>4. CASE \E t \in Tx : Accept(t)
    BY <1>4 DEF Accept, LedgerTypeOK
<1> QED
    BY <1>1, <1>2, <1>3, <1>4 DEF LedgerStep

\* Every step of a chain without rollbacks preserves TimeoutInv.
LEMMA NextTimeoutInv ==
    ASSUME MaxRollbacks = 0, IInv, TimeoutInv, [Next]_vars
    PROVE  TimeoutInv'
<1> USE DEF TimeoutInv, IInv
<1>1. ASSUME NEW c \in Call, TrackerCall(c), UNCHANGED ledgerVars
      PROVE  TimeoutInv'
    BY <1>1 DEF TrackerCall, Track, SubmissionFails, JoinPending, RefuseNoTtl,
                StartPolling, ledgerVars, LedgerTypeOK
<1>2. ASSUME NEW p \in Call, PollStep(p), UNCHANGED ledgerVars
      PROVE  TimeoutInv'
    <2>1. CASE TipExpired(p)
        BY <1>2, <2>1, LedgerAssumption
           DEF TipExpired, Settle, ledgerVars, LedgerTypeOK
    <2>2. CASE ~TipExpired(p)
        BY <1>2, <2>2
           DEF PollStep, ProviderReplies, DelayElapsed, TxFound, TxNotFound,
               TxQueryFails, TipStillValid, TipQueryFails, Settle, Proceed,
               ledgerVars, LedgerTypeOK
    <2> QED
        BY <2>1, <2>2
<1>3. ASSUME NEW p \in Call, TrackerMicrotask(p), UNCHANGED ledgerVars
      PROVE  TimeoutInv'
    BY <1>3 DEF TrackerMicrotask, Forget, DeliverNewTransaction, ledgerVars,
                LedgerTypeOK
<1>4. ASSUME LedgerStep \/ \E t \in Tx : Accept(t), UNCHANGED trackerVars
      PROVE  TimeoutInv'
    BY <1>4, LedgerMonotone, LedgerAssumption DEF trackerVars, LedgerTypeOK
<1>5. CASE UNCHANGED vars
    BY <1>5 DEF vars, ledgerVars, trackerVars, LedgerTypeOK
<1> QED
    BY <1>1, <1>2, <1>3, <1>4, <1>5 DEF Next, TrackerStep

\* On a chain without rollbacks, a block never includes a transaction whose
\* poll timed out: the tip the tracker read is past the last slot it may be in.
THEOREM TimeoutsAreFinal ==
    ASSUME MaxRollbacks = 0
    PROVE  Spec => TimedOutNeverIncludedLater
<1> DEFINE A == \A p \in Call :
                    poll[p] = "Timeout" /\ included[callTx[p]] = 0
                        => included'[callTx[p]] = 0
<1>1. Init => TimeoutInv
    BY LedgerAssumption
       DEF Init, LedgerInit, TrackerInit, TimeoutInv, LedgerTypeOK
<1>2. IInv /\ TimeoutInv /\ [Next]_vars => TimeoutInv'
    BY NextTimeoutInv
<1>3. ASSUME IInv, TimeoutInv, [Next]_vars PROVE [A]_vars
    <2>1. CASE UNCHANGED ledgerVars
        BY <2>1 DEF ledgerVars
    <2>2. CASE ChainGrows
        <3> PICK ts \in SUBSET mempool : MintBlock(ts)
            BY <2>2 DEF ChainGrows
        <3> QED
            BY <1>3, LedgerAssumption
               DEF MintBlock, InTime, TimeoutInv, LedgerTypeOK, IInv
    <2>3. CASE AccrueRewards
        BY <2>3 DEF AccrueRewards
    <2>4. CASE Rollback
        BY <1>3, <2>4 DEF Rollback, TimeoutInv, LedgerTypeOK
    <2>5. CASE \E t \in Tx : Accept(t)
        BY <2>5 DEF Accept
    <2> QED
        BY <1>3, <2>1, <2>2, <2>3, <2>4, <2>5 DEF Next, LedgerStep, vars
<1> QED
    BY <1>1, <1>2, <1>3, InitIInv, NextIInv, PTL
       DEF Spec, TimedOutNeverIncludedLater

-----------------------------------------------------------------------------
(* The tracker implements TransactionConfirmation. *)

\* A tracking call returned the promise of a poll for its transaction, and the
\* call that started a poll returned the promise of that poll.
PromiseInv ==
    /\ \A c \in Call : caller[c] = "tracking" =>
        /\ promise[c] \in Call
        /\ poll[promise[c]] # "none"
        /\ callTx[promise[c]] = callTx[c]
    /\ \A p \in Call : poll[p] # "none" =>
        promise[p] = p /\ Ttl[callTx[p]] # 0

\* Every step preserves PromiseInv: JoinPending returns the entry of the map,
\* which PendingIsLive says is a poll for the same transaction.
LEMMA NextPromiseInv ==
    ASSUME IInv, PromiseInv, [Next]_vars
    PROVE  PromiseInv'
<1> USE DEF IInv, PromiseInv
<1>1. ASSUME NEW c \in Call, TrackerCall(c) PROVE PromiseInv'
    <2>1. ASSUME NEW t \in Tx, Track(c, t) PROVE PromiseInv'
        BY <2>1 DEF Track
    <2>2. CASE JoinPending(c)
        BY <2>2, TrackerAssumption DEF JoinPending
    <2>3. CASE StartPolling(c)
        BY <2>3 DEF StartPolling
    <2>4. CASE SubmissionFails(c) \/ RefuseNoTtl(c)
        BY <2>4 DEF SubmissionFails, RefuseNoTtl
    <2> QED
        BY <1>1, <2>1, <2>2, <2>3, <2>4 DEF TrackerCall
<1>2. ASSUME NEW p \in Call, PollStep(p) PROVE PromiseInv'
    BY <1>2 DEF PollStep, ProviderReplies, DelayElapsed, TxFound, TxNotFound,
                TxQueryFails, TipStillValid, TipExpired, TipQueryFails,
                Settle, Proceed
<1>3. ASSUME NEW p \in Call, TrackerMicrotask(p) PROVE PromiseInv'
    BY <1>3 DEF TrackerMicrotask, Forget, DeliverNewTransaction
<1>4. CASE UNCHANGED trackerVars
    BY <1>4 DEF trackerVars
<1> QED
    BY <1>1, <1>2, <1>3, <1>4 DEF Next, TrackerStep, vars

\* The outcomes that callers see.
Outcomes == [c \in Call |-> Outcome(c)]

\* A poll that settles answers all the calls that returned its promise.
LEMMA SettleAnswers ==
    ASSUME IInv, PromiseInv,
           NEW p \in Call, NEW o \in SettledPoll,
           poll[p] \in LivePoll, Settle(p, o),
           Confirmation!Justified(callTx[p], o)
    PROVE  Confirmation!ConfirmationNext
<1> DEFINE calls == {c \in Call : caller[c] = "tracking" /\ promise[c] = p}
<1>1. \A c \in calls : callTx[c] = callTx[p] /\ Outcome(c) = "open"
    BY DEF PromiseInv, Outcome
<1>2. Outcomes' = [c \in Call |-> IF c \in calls THEN o ELSE Outcomes[c]]
    <2> SUFFICES ASSUME NEW c \in Call
                 PROVE  Outcome(c)' = IF c \in calls THEN o ELSE Outcome(c)
        BY DEF Outcomes
    <2>1. CASE c \in calls
        BY <2>1 DEF Settle, Outcome, IInv
    <2>2. CASE c \notin calls
        BY <2>2 DEF Settle, Outcome, IInv, PromiseInv
    <2> QED
        BY <2>1, <2>2
<1>3. callTx[p] \in Tx
    BY DEF IInv
<1>4. Confirmation!Answer(callTx[p], calls, o)
    BY <1>1, <1>2 DEF Confirmation!Answer, Settle, Outcomes
<1>5. o \in Confirmation!Failure \cup {"confirmed"}
    BY DEF Confirmation!Failure
<1>6. calls \in SUBSET Call
    OBVIOUS
<1> QED
    BY <1>3, <1>4, <1>5, <1>6 DEF Confirmation!ConfirmationNext

\* One call whose answer is o.
LEMMA CallAnswered ==
    ASSUME NEW c \in Call, callTx[c] \in Tx, Outcome(c) = "open",
           NEW o \in Confirmation!Failure \cup {"confirmed"},
           Confirmation!Justified(callTx[c], o),
           UNCHANGED callTx,
           Outcome(c)' = o,
           \A d \in Call \ {c} : Outcome(d)' = Outcome(d)
    PROVE  Confirmation!ConfirmationNext
<1>1. Confirmation!Answer(callTx[c], {c}, o)
    BY DEF Confirmation!Answer
<1> QED
    BY <1>1 DEF Confirmation!ConfirmationNext

\* Nothing that callers see changes.
LEMMA Stutters ==
    ASSUME UNCHANGED callTx, \A d \in Call : Outcome(d)' = Outcome(d)
    PROVE  UNCHANGED <<callTx, Outcomes>>
BY DEF Outcomes

\* Every step of the tracker is a step of the abstract promise or none.
LEMMA NextRefines ==
    ASSUME IInv, PromiseInv, LedgerTypeOK, [Next]_vars
    PROVE  [Confirmation!ConfirmationNext]_<<callTx, Outcomes>>
<1>1. ASSUME NEW c \in Call, NEW t \in Tx, Track(c, t)
      PROVE  Confirmation!ConfirmationNext
    <2>1. Outcomes' = [Outcomes EXCEPT ![c] = "open"]
        BY <1>1 DEF IInv, Track, Outcome, Outcomes
    <2>2. Confirmation!Begin(c, t)
        BY <1>1, <2>1 DEF Track, Outcome, Outcomes, Confirmation!Begin
    <2> QED
        BY <2>2 DEF Confirmation!ConfirmationNext
<1>2. ASSUME NEW c \in Call, SubmissionFails(c) \/ RefuseNoTtl(c)
      PROVE  Confirmation!ConfirmationNext
    <2>1. PICK o \in {"FailedToSubmit", "CannotTrack"} :
            caller' = [caller EXCEPT ![c] = o]
        BY <1>2 DEF SubmissionFails, RefuseNoTtl
    <2>2. Confirmation!Justified(callTx[c], o)
        BY DEF Confirmation!Justified
    <2>3. Outcome(c) = "open" /\ Outcome(c)' = o
        BY <1>2, <2>1 DEF IInv, SubmissionFails, RefuseNoTtl, Outcome
    <2>4. \A d \in Call \ {c} : Outcome(d)' = Outcome(d)
        BY <1>2 DEF IInv, SubmissionFails, RefuseNoTtl, Outcome
    <2> QED
        BY <1>2, <2>2, <2>3, <2>4, CallAnswered
           DEF IInv, SubmissionFails, RefuseNoTtl, Confirmation!Failure
<1>3. ASSUME NEW c \in Call, JoinPending(c)
      PROVE  [Confirmation!ConfirmationNext]_<<callTx, Outcomes>>
    <2> DEFINE q == pending[callTx[c]]
    <2>1. q \in Call /\ callTx[q] = callTx[c] /\ poll[q] # "none" /\ q # c
        BY <1>3 DEF IInv, JoinPending
    <2>2. \A d \in Call \ {c} : Outcome(d)' = Outcome(d)
        BY <1>3 DEF IInv, JoinPending, Outcome
    <2>3. Outcome(c) = "open"
        BY <1>3 DEF JoinPending, Outcome
    <2>4. Outcome(c)' = IF poll[q] \in SettledPoll THEN poll[q] ELSE "open"
        BY <1>3, <2>1 DEF IInv, JoinPending, Outcome
    <2>5. CASE poll[q] \in SettledPoll
        <3>1. Outcome(q) = poll[q]
            BY <2>1, <2>5 DEF IInv, PromiseInv, Outcome
        <3>2. Confirmation!Justified(callTx[c], poll[q])
            BY <2>1, <3>1 DEF Confirmation!Justified
        <3>3. poll[q] \in Confirmation!Failure \cup {"confirmed"}
            BY <2>5 DEF Confirmation!Failure
        <3> QED
            BY <1>3, <2>2, <2>3, <2>4, <2>5, <3>2, <3>3, CallAnswered
               DEF IInv, JoinPending
    <2>6. CASE poll[q] \notin SettledPoll
        BY <1>3, <2>2, <2>3, <2>4, <2>6, Stutters DEF JoinPending
    <2> QED
        BY <2>5, <2>6
<1>4. ASSUME NEW c \in Call, StartPolling(c)
      PROVE  UNCHANGED <<callTx, Outcomes>>
    <2>1. Outcome(c)' = Outcome(c)
        BY <1>4 DEF IInv, StartPolling, Outcome
    <2>2. poll[c] = "none"
        BY <1>4 DEF IInv, StartPolling
    <2>3. \A d \in Call \ {c} : Outcome(d)' = Outcome(d)
        BY <1>4, <2>2 DEF IInv, PromiseInv, StartPolling, Outcome
    <2> QED
        BY <1>4, <2>1, <2>3, Stutters DEF StartPolling
<1>5. ASSUME NEW p \in Call, PollStep(p)
      PROVE  [Confirmation!ConfirmationNext]_<<callTx, Outcomes>>
    <2>1. CASE TxFound(p)
        <3>1. Confirmation!Justified(callTx[p], "confirmed")
            BY <2>1 DEF TxFound, Confirmation!Justified
        <3> QED
            BY <2>1, <3>1, SettleAnswers DEF TxFound
    <2>2. CASE TxQueryFails(p) \/ TipQueryFails(p)
        <3>1. Confirmation!Justified(callTx[p], "CannotTrack")
            BY DEF Confirmation!Justified
        <3> QED
            BY <2>2, <3>1, SettleAnswers DEF TxQueryFails, TipQueryFails
    <2>3. CASE TipExpired(p)
        <3>1. tip \in Int /\ Ttl[callTx[p]] \in Int /\ Ttl[callTx[p]] # 0
            BY <2>3, LedgerAssumption
               DEF TipExpired, IInv, PromiseInv, LedgerTypeOK
        <3>2. Confirmation!Justified(callTx[p], "Timeout")
            BY <2>3, <3>1 DEF TipExpired, Confirmation!Justified
        <3> QED
            BY <2>3, <3>2, SettleAnswers DEF TipExpired
    <2>4. ASSUME NEW stage \in LivePoll, poll[p] \in LivePoll, Proceed(p, stage)
          PROVE  UNCHANGED <<callTx, Outcomes>>
        <3>1. \A d \in Call : Outcome(d)' = Outcome(d)
            BY <2>4 DEF IInv, PromiseInv, Proceed, Outcome
        <3> QED
            BY <2>4, <3>1, Stutters DEF Proceed
    <2> QED
        BY <1>5, <2>1, <2>2, <2>3, <2>4
           DEF PollStep, ProviderReplies, DelayElapsed, TxNotFound, TipStillValid
<1>6. ASSUME NEW p \in Call, TrackerMicrotask(p)
      PROVE  UNCHANGED <<callTx, Outcomes>>
    BY <1>6, Stutters
       DEF TrackerMicrotask, Forget, DeliverNewTransaction, Outcome
<1>7. ASSUME UNCHANGED trackerVars
      PROVE  UNCHANGED <<callTx, Outcomes>>
    BY <1>7, Stutters DEF trackerVars, Outcome
<1> QED
    BY <1>1, <1>2, <1>3, <1>4, <1>5, <1>6, <1>7
       DEF Next, TrackerStep, TrackerCall, vars

\* The types of the ledger hold always, rollbacks included.
LEMMA LedgerTypes == LedgerTypeOK /\ [Next]_vars => LedgerTypeOK'
<1> SUFFICES ASSUME LedgerTypeOK, [Next]_vars PROVE LedgerTypeOK'
    OBVIOUS
<1>1. CASE UNCHANGED ledgerVars
    BY <1>1 DEF LedgerTypeOK, ledgerVars
<1>2. CASE ChainGrows
    <2> PICK ts \in SUBSET mempool : MintBlock(ts)
        BY <1>2 DEF ChainGrows
    <2> QED
        BY DEF MintBlock, LedgerTypeOK
<1>3. CASE AccrueRewards \/ Rollback \/ \E t \in Tx : Accept(t)
    BY <1>3 DEF AccrueRewards, Rollback, Accept, LedgerTypeOK
<1> QED
    BY <1>1, <1>2, <1>3 DEF Next, LedgerStep, vars

\* The tracker with its map, its polls and its microtasks implements the
\* promise its interface makes to callers.
THEOREM TrackerImplementsConfirmation == Spec => ImplementsConfirmation
<1>1. Init => PromiseInv /\ LedgerTypeOK
    BY DEF Init, LedgerInit, TrackerInit, PromiseInv, LedgerTypeOK
<1>2. Init => Confirmation!ConfirmationInit
    BY DEF Init, TrackerInit, Outcome, Confirmation!ConfirmationInit
<1>3. IInv /\ PromiseInv /\ [Next]_vars => PromiseInv'
    BY NextPromiseInv
<1>4. IInv /\ PromiseInv /\ LedgerTypeOK /\ [Next]_vars
        => [Confirmation!ConfirmationNext]_<<callTx, [c \in Call |-> Outcome(c)]>>
    BY NextRefines DEF Outcomes
<1> QED
    BY <1>1, <1>2, <1>3, <1>4, InitIInv, NextIInv, LedgerTypes, PTL
       DEF Spec, ImplementsConfirmation, Confirmation!ConfirmationSpec

=============================================================================
