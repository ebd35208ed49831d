---------------------- MODULE TransactionConfirmation ----------------------
(***************************************************************************)
(* What the interface TransactionTracker (packages/wallet/src/types.ts)    *)
(* promises a caller of track(), without the polling: the promise of a     *)
(* call stays open until the transaction is confirmed, is known to have    *)
(* expired or cannot be tracked, and then never changes.  Calls that wait  *)
(* for the same transaction may get their answer together.                 *)
(***************************************************************************)
EXTENDS Ledger

CONSTANTS Call, None

VARIABLES
    tx,         \* tx[c]: the transaction of call c
    outcome     \* outcome[c]: "none" before the call, "open" until it settles

Failure == {"FailedToSubmit", "CannotTrack", "Timeout"}

ConfirmationInit ==
    /\ tx = [c \in Call |-> None]
    /\ outcome = [c \in Call |-> "none"]

Begin(c, t) ==
    /\ outcome[c] = "none"
    /\ tx' = [tx EXCEPT ![c] = t]
    /\ outcome' = [outcome EXCEPT ![c] = "open"]

\* The reason for which calls on t may be given the answer o: it is true at
\* the ledger, or another call on t was given it.
Justified(t, o) ==
    \/ o = "confirmed" /\ included[t] > 0
    \/ o = "Timeout" /\ Ttl[t] # 0 /\ Ttl[t] < tip
    \/ o \in {"FailedToSubmit", "CannotTrack"}
    \/ \E d \in Call : tx[d] = t /\ outcome[d] = o

\* Some open calls on t settle with the same answer.
Answer(t, calls, o) ==
    /\ \A c \in calls : tx[c] = t /\ outcome[c] = "open"
    /\ Justified(t, o)
    /\ outcome' = [c \in Call |-> IF c \in calls THEN o ELSE outcome[c]]
    /\ UNCHANGED tx

ConfirmationNext ==
    \/ \E c \in Call, t \in Tx : Begin(c, t)
    \/ \E t \in Tx, calls \in SUBSET Call, o \in Failure \cup {"confirmed"} :
            Answer(t, calls, o)

ConfirmationSpec == ConfirmationInit /\ [][ConfirmationNext]_<<tx, outcome>>

=============================================================================
