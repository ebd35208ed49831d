--------------------------- MODULE PrototypeWallet ---------------------------
(***************************************************************************)
(* The client wallet of the prototype (src/prototype/src): the scan for    *)
(* the next address (get_next_address.ts), the addresses derived from it   *)
(* (address_derivation.ts, Utils/address_discovery.ts), the calls of       *)
(* ClientWallet.ts, and building and signing with RustBccPrimitives.       *)
(*                                                                         *)
(* A wallet keeps nothing: every call scans the chain, one request per     *)
(* batch of addresses, while transactions are added to the chain, so one   *)
(* call stands for all.  An output holds one coin and fees are left out.   *)
(***************************************************************************)
EXTENDS Naturals, Sequences, SequencesExt, FiniteSets, FiniteSetsExt

CONSTANTS
    ScanGap,    \* addresses in a batch: SCAN_GAP, 20 in the code
    Spread,     \* how many unused addresses a payment may skip behind the last used one
    MaxTx,      \* bound: transactions of the chain
    MaxOutputs  \* bound: outputs of a transaction

ASSUME PrototypeAssumption ==
    ScanGap \in Nat \ {0} /\ Spread \in Nat /\ MaxTx \in Nat /\ MaxOutputs \in Nat

VARIABLES
    ledger,     \* the transactions: [inputs, outputs], the n-th has id n
    call        \* the call of the wallet

prototypeVars == <<ledger, call>>

AddressType == {"external", "internal"}

-----------------------------------------------------------------------------
(* The chain, as a BccProvider answers it.  prefix is a number of its       *)
(* transactions: what the chain was at an earlier moment.                   *)

AddressOf(pointer) == ledger[pointer.id].outputs[pointer.index]

Made(prefix) == UNION {{[id |-> n, index |-> i] : i \in DOMAIN ledger[n].outputs} : n \in 1..prefix}
Unspent(prefix) == Made(prefix) \ UNION {ledger[n].inputs : n \in 1..prefix}

UsedIndices(prefix, type) ==
    {a.index : a \in {b \in {AddressOf(p) : p \in Made(prefix)} : b.type = type}}

\* The index behind the last one in use.
NextIndex(type) ==
    LET used == UsedIndices(Len(ledger), type)
    IN IF used = {} THEN 0 ELSE Max(used) + 1

\* Someone pays to addresses of the account that are in use, to ones that were
\* skipped, or behind the last used one, skipping up to Spread; or the account
\* spends an output.  Outputs to other accounts are left out.
Payable == UNION {[type : {type}, index : 0..(NextIndex(type) + Spread)] : type \in AddressType}

AddTransaction ==
    /\ Len(ledger) < MaxTx
    /\ \E inputs \in {{}} \cup {{p} : p \in Unspent(Len(ledger))} :
       \E paid \in SUBSET Payable :
          /\ Cardinality(paid) <= MaxOutputs
          /\ inputs \cup paid # {}
          /\ ledger' = Append(ledger, [inputs |-> inputs, outputs |-> SetToSeq(paid)])
    /\ UNCHANGED call

-----------------------------------------------------------------------------
(* The scan. *)

\* addressDiscoveryWithinBounds
Within(type, lower, upper) == [type : {type}, index : lower..upper]

\* queryTransactionsByAddress
TransactionsOf(addresses) ==
    {n \in DOMAIN ledger : \/ \E i \in DOMAIN ledger[n].outputs : ledger[n].outputs[i] \in addresses
                          \/ \E p \in ledger[n].inputs : AddressOf(p) \in addresses}

\* Mutant: an address counts only while it has a balance.
WithBalance(addresses) == {a \in addresses : \E p \in Unspent(Len(ledger)) : AddressOf(p) = a}

\* The addresses of a batch that got an output.
WithOutputs(addresses) ==
    {a \in addresses : \E n \in TransactionsOf(addresses) :
                          \E i \in DOMAIN ledger[n].outputs : ledger[n].outputs[i] = a}

\* Mutant: the first unused address of the batch is taken for the last.
LastOfBatch(used) == Min({a.index : a \in used})

LastUsed(used) == Max({a.index : a \in used})

\* What one batch of the scan finds: the next address, the next batch, or no
\* address at all, the index of which is -1 and is read all the same.
ScanBatch(type, lower) ==
    LET upper == lower + ScanGap - 1
        batch == Within(type, lower, upper)
        used == WithOutputs(batch)
    IN CASE TransactionsOf(batch) = {} -> [found |-> "address", index |-> lower]
         [] TransactionsOf(batch) # {} /\ used = {} -> [found |-> "none", index |-> 0]
         [] used # {} /\ LastUsed(used) = upper -> [found |-> "consumed", index |-> lower + ScanGap]
         [] OTHER -> [found |-> "address", index |-> LastUsed(used) + 1]

-----------------------------------------------------------------------------
(* The calls of ClientWallet: the awaits of each, in order. *)

Plan ==
    [getNextReceivingAddress |-> <<"external">>,
     getNextChangeAddress |-> <<"internal">>,
     balance |-> <<"external", "internal", "utxos">>,
     transactions |-> <<"external", "internal", "history">>,
     selectInputsForTransaction |-> <<"external", "internal", "utxos", "change">>]

Idle == [fn |-> "none", outcome |-> "idle", step |-> 0, lower |-> 0, external |-> 0, internal |-> 0,
         change |-> 0, since |-> 0, queried |-> 0, answer |-> {}, inputs |-> {}, witnesses |-> {}, payment |-> 0]

Begin(fn, payment) ==
    /\ call = Idle
    /\ call' = [Idle EXCEPT !.fn = fn, !.outcome = "pending", !.step = 1,
                            !.since = Len(ledger), !.payment = payment]
    /\ UNCHANGED ledger

Step == Plan[call.fn][call.step]
Awaits(steps) == call.outcome = "pending" /\ Step \in steps

\* The call goes on with its next await, or resolves after the last.
Continue(record) ==
    IF call.step = Len(Plan[call.fn])
    THEN [record EXCEPT !.outcome = "resolved"]
    ELSE [record EXCEPT !.step = call.step + 1, !.lower = 0]

TypeScanned == IF Step = "external" THEN "external" ELSE "internal"

Consumed ==
    /\ Awaits({"external", "internal", "change"})
    /\ LET scan == ScanBatch(TypeScanned, call.lower) IN
       /\ scan.found = "consumed"
       /\ call' = [call EXCEPT !.lower = scan.index]
    /\ UNCHANGED ledger

\* The sets of outputs the library may select, first match first: enough for the
\* payment; which of them comes first is the provider's.
Selections(found) ==
    {pointers \in SUBSET found : Cardinality(pointers) \in {call.payment, call.payment + 1}}

\* Mutant: the first entry is taken whatever its transaction.
RelevantToAny(id, found) == found

\* The entries find may return for a pointer: it compares the transaction only.
RelevantUtxo(id, found) == {p \in found : p.id = id}

\* inputSelection: each input with the address of the entry find returns.
SelectedInputs(pointers, relevant) ==
    {[pointer |-> p, addressing |-> AddressOf(relevant[p.id])] : p \in pointers}

InputSelection(changeIndex) ==
    IF Cardinality(call.answer) < call.payment
    THEN call' = [call EXCEPT !.outcome = "NotEnoughInput"]
    ELSE \E pointers \in Selections(call.answer) :
         \E relevant \in [{p.id : p \in pointers} -> call.answer] :
            /\ \A id \in DOMAIN relevant : relevant[id] \in RelevantUtxo(id, call.answer)
            /\ call' = Continue([call EXCEPT !.change = changeIndex,
                                             !.inputs = SelectedInputs(pointers, relevant)])

\* A scan ends: with an address, or with the TypeError of reading one at -2.
NextAddress ==
    /\ Awaits({"external", "internal", "change"})
    /\ LET scan == ScanBatch(TypeScanned, call.lower) IN
       /\ scan.found # "consumed"
       /\ IF scan.found = "none" THEN call' = [call EXCEPT !.outcome = "TypeError"]
          ELSE IF Step = "change" THEN InputSelection(scan.index)
          ELSE call' = Continue([call EXCEPT ![Step] = scan.index])
    /\ UNCHANGED ledger

\* Mutant: only the addresses before the next one are derived.
UpToNext(external, internal) ==
    Within("external", 0, external) \cup Within("internal", 0, internal)

\* deriveAddressSet: all addresses up to the next one and a gap beyond.
AddressSet(external, internal) ==
    Within("external", 0, external + ScanGap - 1) \cup Within("internal", 0, internal + ScanGap - 1)

UtxosOf(addresses) == {p \in Unspent(Len(ledger)) : AddressOf(p) \in addresses}

Queried ==
    /\ Awaits({"utxos", "history"})
    /\ LET addresses == AddressSet(call.external, call.internal)
           answer == IF Step = "utxos" THEN UtxosOf(addresses)
                     ELSE {[id |-> n, index |-> 0] : n \in TransactionsOf(addresses)}
       IN call' = Continue([call EXCEPT !.answer = answer, !.queried = Len(ledger)])
    /\ UNCHANGED ledger

\* The provider rejects a request, and the call with it.
RequestFails ==
    /\ call.outcome = "pending"
    /\ call' = [call EXCEPT !.outcome = "failed"]
    /\ UNCHANGED ledger

-----------------------------------------------------------------------------
(* The application builds a transaction of the inputs and has a key manager *)
(* sign it: InMemoryKeyManager adds a witness for every input, the Ledger    *)
(* one signs with the device if it has the body of every input's transaction,*)
(* and rejects when the device or the transport to it does.                  *)

AddWitnesses == call' = [call EXCEPT !.outcome = "signed",
                                     !.witnesses = {i.addressing : i \in call.inputs}]

Signs == call.fn = "selectInputsForTransaction" /\ call.outcome = "resolved" /\ UNCHANGED ledger

SignInMemory == Signs /\ AddWitnesses

SignWithLedger ==
    /\ Signs
    /\ \/ AddWitnesses
       \/ call' = [call EXCEPT !.outcome = "InsufficientData"]
       \/ call' = [call EXCEPT !.outcome = "failed"]

-----------------------------------------------------------------------------
ClientWalletStep ==
    \/ \E fn \in DOMAIN Plan : Begin(fn, IF fn = "selectInputsForTransaction" THEN 1 ELSE 0)
    \/ Consumed
    \/ NextAddress
    \/ Queried
    \/ RequestFails
    \/ SignInMemory
    \/ SignWithLedger

PrototypeInit == ledger = <<>> /\ call = Idle

PrototypeNext == AddTransaction \/ ClientWalletStep

PrototypeSpec == PrototypeInit /\ [][PrototypeNext]_prototypeVars

-----------------------------------------------------------------------------
(* Properties *)

\* The type of the call and its progress: a scan stays within the addresses in
\* use and one batch, and a call has an await left until it settles.
PrototypeTypeOK ==
    LET indices == 0..(MaxTx * (Spread + 1) + ScanGap) IN
    /\ call.outcome \in {"idle", "pending", "resolved", "failed", "NotEnoughInput",
                         "TypeError", "signed", "InsufficientData"}
    /\ call.fn \in DOMAIN Plan => call.step \in DOMAIN Plan[call.fn]
    /\ {call.lower, call.external, call.internal, call.change} \subseteq indices
    /\ \A i \in call.inputs : i.pointer \in Made(Len(ledger)) /\ i.addressing.index \in indices

\* The next address of a type is one no payment had reached when the scan was
\* asked for, whatever is paid between its batches, and it directly follows one
\* that a payment did reach (get_next_address.ts:28-74).
NextAddressIsFresh ==
    call.fn \in {"getNextReceivingAddress", "getNextChangeAddress"} /\ call.outcome = "resolved" =>
        LET type == Plan[call.fn][1] IN
        /\ call[type] \notin UsedIndices(call.since, type)
        /\ call[type] > 0 => call[type] - 1 \in UsedIndices(Len(ledger), type)

\* Less than a batch of addresses lies between the address and the first that the
\* first n transactions left unused.
WithinReach(address, n) ==
    \A j \in 0..(address.index - ScanGap) : j \in UsedIndices(n, address.type)

\* A balance counts every output the account had when the call began, within a
\* batch of its first unused address, and still had when the outputs were
\* queried, however far a payment went meanwhile, and none that is spent
\* (ClientWallet.ts:12-16, address_derivation.ts:8-27).
FundsAreFound ==
    call.fn = "balance" /\ call.outcome = "resolved" =>
        /\ {p \in Unspent(call.queried) : p.id <= call.since /\ WithinReach(AddressOf(p), call.since)}
              \subseteq call.answer
        /\ call.answer \subseteq Unspent(call.queried)

\* Discovery goes on in batches until one has no balance
\* (Utils/address_discovery.ts:12): where no payment skips a batch, a balance counts
\* every output the account had and kept.
EveryFundIsFound ==
    call.fn = "balance" /\ call.outcome = "resolved" /\ Spread < ScanGap =>
        {p \in Unspent(call.queried) : p.id <= call.since} \subseteq call.answer

\* A scan finds an address: the batch that has a transaction but no output never
\* occurs, which is read at index -2 and would throw (get_next_address.ts:73).
ScanFindsAddress == call.outcome # "TypeError"

\* Every input of a signed transaction is witnessed by the key of an address that
\* the account was paid at by the very transaction the input spends: the address
\* is looked up by the id of the transaction (RustBccPrimitives/index.ts:237).
WitnessesUnlockInputs ==
    call.outcome = "signed" =>
        \A i \in call.inputs : \E p \in call.answer :
            p.id = i.pointer.id /\ AddressOf(p) \in call.witnesses
=============================================================================
