---------------------------- MODULE ProviderCalls ----------------------------
(***************************************************************************)
(* One call of a provider and the services that answer its requests.       *)
(*                                                                         *)
(* A provider function (packages/core/src/WalletProvider/types.ts) is an   *)
(* async function: it sends requests, some in parallel and some only after *)
(* earlier answers, and resolves or rejects.  Between two requests the     *)
(* chain moves: the block chain of Ledger, the register of stake pools and *)
(* the epoch.  The services are not code of the repository; each provider  *)
(* module says which requests it sends and what it makes of the answers.   *)
(***************************************************************************)
EXTENDS Ledger, Sequences

CONSTANTS
    Address,        \* addresses of the wallet
    AddressOf,      \* AddressOf[o]: the address output o is locked to
    Content,        \* Content[t]: the kinds of parts transaction t has
    Pool,           \* stake pools
    MaxEpoch,       \* bound: epochs of the model
    MaxEdits,       \* bound: changes of what a pool search finds
    NoArg           \* the argument of a request that has none

\* The parts of a transaction a provider asks for one by one.
PartKind == {"withdrawal", "mint", "retire", "update", "mir", "stake", "delegation", "redeemer"}
CertificateKind == {"retire", "update", "mir", "stake", "delegation"}

ASSUME ProviderAssumption ==
    /\ AddressOf \in [TxIn -> Address]
    /\ Content \in [Tx -> SUBSET PartKind]
    /\ IsFiniteSet(Pool) /\ IsFiniteSet(Address)
    /\ MaxEpoch \in Nat /\ MaxEdits \in Nat

VARIABLES
    pools,      \* pools[p]: "none", "registered", "retiring" or "retired"
    epoch,      \* the current epoch
    matching,   \* matching[p]: how pool p is found by the text of a search
    edits,      \* changes of matching so far
    part,       \* bound: the part of the services that moves, and is read
    call,       \* the call: provider, function, arguments, outcome
    got,        \* the answers received, by request
    seen        \* history: what the services held at each moment of the call

serverVars == <<ledgerVars, pools, epoch, matching, edits, part>>
vars == <<serverVars, call, got, seen>>

WalletFunction == {"ledgerTip", "networkInfo", "stakePoolStats", "submitTx",
                   "utxoDelegationAndRewards", "queryTransactionsByHashes",
                   "queryTransactionsByAddresses", "currentWalletProtocolParameters"}

\* What a call can end with: an answer, one of the two ProviderErrors, or an
\* error of another class (packages/core/src/errors).
Rejections == {"NotFound", "Unknown", "Error"}
Outcome == {"idle", "pending", "resolved"} \cup Rejections

PoolsIn(states) == {p \in Pool : pools[p] \in states}

TransactionsAt(addr) ==
    {t \in OnChain : \E o \in Inputs[t] \cup Outputs[t] : AddressOf[o] = addr}

\* What the services hold at one moment.
Moment ==
    [unspent |-> Unspent, onChain |-> OnChain, rewards |-> RewardBalance, epoch |-> epoch,
     pools |-> Cardinality(PoolsIn({"registered", "retiring"})),
     poolsRetired |-> Cardinality(PoolsIn({"retired"})),
     poolsRetiring |-> Cardinality(PoolsIn({"retiring"})),
     matching |-> matching, accepted |-> mempool \cup OnChain]

-----------------------------------------------------------------------------
(* The services. *)

RegisterPool(p) ==
    /\ pools[p] = "none"
    /\ pools' = [pools EXCEPT ![p] = "registered"]
    /\ UNCHANGED <<epoch, matching, edits>>

AnnounceRetirement(p) ==
    /\ pools[p] = "registered"
    /\ pools' = [pools EXCEPT ![p] = "retiring"]
    /\ UNCHANGED <<epoch, matching, edits>>

NewEpoch ==
    /\ epoch < MaxEpoch
    /\ epoch' = epoch + 1
    /\ pools' = [p \in Pool |-> IF pools[p] = "retiring" THEN "retired" ELSE pools[p]]
    /\ UNCHANGED <<matching, edits>>

EditPool(p, by) ==
    /\ edits < MaxEdits
    /\ edits' = edits + 1
    /\ matching' = [matching EXCEPT ![p] = by]
    /\ UNCHANGED <<pools, epoch>>

PoolSearchStep == \E p \in Pool, by \in SUBSET {"fields", "metadata"} : EditPool(p, by)

RegisterStep ==
    \/ \E p \in Pool : RegisterPool(p) \/ AnnounceRetirement(p)
    \/ NewEpoch

\* The services hold something else; a call under way may see it from now on.
ServicesMove ==
    /\ \/ /\ part = "chain"
          /\ LedgerStep \/ \E t \in Tx : Accept(t)
          /\ UNCHANGED <<pools, epoch, matching, edits>>
       \/ part = "register" /\ RegisterStep /\ UNCHANGED ledgerVars
       \/ part = "search" /\ PoolSearchStep /\ UNCHANGED ledgerVars
    /\ call.outcome \in {"idle", "pending"}
    /\ seen' = IF call.outcome = "pending" THEN seen \cup {Moment'} ELSE seen
    /\ UNCHANGED <<call, got, part>>

-----------------------------------------------------------------------------
(* The life of a call. *)

Request(kind, of, via) == [kind |-> kind, of |-> of, via |-> via]

\* The requests of a sequence of awaits that have been sent: each after all
\* the earlier ones are answered.
SentOf(chain) ==
    {chain[i] : i \in {j \in DOMAIN chain : \A k \in 1..(j - 1) : chain[k] \in DOMAIN got}}

Idle == [provider |-> "none", fn |-> "none", args |-> {}, outcome |-> "idle",
         rollbacks |-> 0, refused |-> {}]

\* The part of the services a function reads.
PartRead(fn) ==
    CASE fn \in {"networkInfo", "stakePoolStats", "currentWalletProtocolParameters"} -> "register"
      [] fn = "queryStakePools" -> "search"
      [] OTHER -> "chain"

Begin(provider, fn, args) ==
    /\ call = Idle
    /\ part = PartRead(fn)
    /\ call' = [provider |-> provider, fn |-> fn, args |-> args, outcome |-> "pending",
                rollbacks |-> rollbacks, refused |-> {}]
    /\ seen' = {Moment}
    /\ UNCHANGED <<serverVars, got>>

Received(request, answer) ==
    got' = [r \in DOMAIN got \cup {request} |-> IF r = request THEN answer ELSE got[r]]

Receive(request, answer) ==
    /\ Received(request, answer)
    /\ UNCHANGED <<serverVars, call, seen>>

\* A node takes the transaction of the call.
NodeAccepts(t) ==
    /\ Accept(t)
    /\ UNCHANGED <<pools, epoch, matching, edits, part>>
    /\ seen' = seen \cup {Moment'}

\* The promise settles; refused is what a service answered that it does not have.
Settle(outcome, refused) ==
    /\ call' = [call EXCEPT !.outcome = outcome, !.refused = refused]
    /\ UNCHANGED <<serverVars, got, seen>>

CallInit ==
    /\ LedgerInit
    /\ pools = [p \in Pool |-> "none"]
    /\ epoch = 0
    /\ part \in {"chain", "register", "search"}
    /\ matching \in [Pool -> IF part = "search" THEN SUBSET {"fields", "metadata"} ELSE {{}}]
    /\ edits = 0
    /\ call = Idle
    /\ got = <<>>
    /\ seen = {}
=============================================================================
