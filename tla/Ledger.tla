------------------------------- MODULE Ledger -------------------------------
(***************************************************************************)
(* The block chain behind a WalletProvider, as the wallet packages use it. *)
(*                                                                         *)
(* Nothing here is code of the repository: the provider is an interface    *)
(* (packages/core/src/WalletProvider/types.ts) whose answers come from a   *)
(* node.  The model keeps what the callers can tell apart: a transaction   *)
(* is submitted, is included in the block of one slot or expires, consumes *)
(* its inputs and creates its outputs when included, and withdraws         *)
(* rewards.  A block holds transactions that do not conflict.              *)
(***************************************************************************)
EXTENDS Integers, FiniteSets, Functions

CONSTANTS
    Tx,             \* transaction hashes
    TxIn,           \* outputs of transactions, as (txId, index) references
    Inputs,         \* Inputs[t]: the references t consumes
    Outputs,        \* Outputs[t]: the outputs t creates at the queried address
    Withdraws,      \* Withdraws[t]: rewards of the own stake key t withdraws
    Ttl,            \* Ttl[t]: last slot t is valid in, 0 when t has no ttl
    Genesis,        \* outputs at the queried address before the first block
    InitialRewards, \* reward balance before the first block
    MaxSlot,        \* bound: slots of the model
    MaxAccruals,    \* bound: reward payments
    MaxRollbacks    \* bound: chain rollbacks

ASSUME LedgerAssumption ==
    /\ IsFiniteSet(Tx) /\ IsFiniteSet(TxIn)
    /\ Inputs \in [Tx -> SUBSET TxIn]
    /\ Outputs \in [Tx -> SUBSET TxIn]
    /\ Withdraws \in [Tx -> Nat]
    /\ Ttl \in [Tx -> Nat]
    /\ Genesis \subseteq TxIn
    /\ InitialRewards \in Nat
    /\ MaxSlot \in Nat /\ MaxAccruals \in Nat /\ MaxRollbacks \in Nat

VARIABLES
    tip,        \* slot of the newest block: what ledgerTip() answers
    mempool,    \* transactions a node accepted and may put in a block
    included,   \* included[t]: slot of the block that holds t, 0 if none does
    accrued,    \* rewards paid to the stake key since the first block
    rollbacks   \* rollbacks so far

ledgerVars == <<tip, mempool, included, accrued, rollbacks>>

LedgerTypeOK ==
    /\ tip \in Nat
    /\ mempool \subseteq Tx
    /\ included \in [Tx -> Nat]
    /\ accrued \in Nat
    /\ rollbacks \in Nat

LedgerInit ==
    /\ tip = 0
    /\ mempool = {}
    /\ included = [t \in Tx |-> 0]
    /\ accrued = 0
    /\ rollbacks = 0

-----------------------------------------------------------------------------
(* What a provider reads. *)

OnChain == {t \in Tx : included[t] > 0}

\* The unspent outputs at the queried address, as utxoDelegationAndRewards
\* answers them.
Unspent ==
    (Genesis \cup UNION {Outputs[t] : t \in OnChain})
        \ UNION {Inputs[t] : t \in OnChain}

Withdrawn(ts) == SumFunctionOnSet(Withdraws, ts)

RewardBalance == InitialRewards + accrued - Withdrawn(OnChain)

\* t can still get into a block after the current tip.
InTime(t) == Ttl[t] = 0 \/ tip < Ttl[t]

-----------------------------------------------------------------------------
(* Steps of the chain. *)

\* A node accepts t: it was not rejected, and is not already on the chain.
Accept(t) ==
    /\ included[t] = 0
    /\ mempool' = mempool \cup {t}
    /\ UNCHANGED <<tip, included, accrued, rollbacks>>

\* The next block: any set of valid, mutually compatible mempool transactions.
MintBlock(ts) ==
    /\ tip < MaxSlot
    /\ \A t \in ts : InTime(t) /\ Inputs[t] \subseteq Unspent
    /\ \A t, u \in ts : t # u => Inputs[t] \cap Inputs[u] = {}
    /\ Withdrawn(ts) <= RewardBalance
    /\ tip' = tip + 1
    /\ included' = [t \in Tx |-> IF t \in ts THEN tip + 1 ELSE included[t]]
    /\ mempool' = mempool \ ts
    /\ UNCHANGED <<accrued, rollbacks>>

\* Rewards of an epoch reach the stake key.
AccrueRewards ==
    /\ accrued < MaxAccruals
    /\ accrued' = accrued + 1
    /\ UNCHANGED <<tip, mempool, included, rollbacks>>

\* The newest block is abandoned; its transactions wait for a block again.
Rollback ==
    /\ rollbacks < MaxRollbacks
    /\ tip > 0
    /\ rollbacks' = rollbacks + 1
    /\ tip' = tip - 1
    /\ mempool' = mempool \cup {t \in Tx : included[t] = tip}
    /\ included' = [t \in Tx |-> IF included[t] = tip THEN 0 ELSE included[t]]
    /\ UNCHANGED accrued

ChainGrows == \E ts \in SUBSET mempool : MintBlock(ts)

LedgerStep == ChainGrows \/ AccrueRewards \/ Rollback

=============================================================================
