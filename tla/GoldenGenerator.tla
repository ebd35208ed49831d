--------------------------- MODULE GoldenGenerator ---------------------------
(***************************************************************************)
(* The two tools of packages/golden-test-generator. Both follow the chain  *)
(* of a node from its origin and record something at given heights: the    *)
(* balances of addresses (getOnChainAddressBalances) or the blocks         *)
(* themselves (getBlocks).                                                 *)
(*                                                                         *)
(* The node answers each request with a block or, when its chain has       *)
(* forked, with a roll back. Requests are pipelined, so that answers wait  *)
(* in a pipe while a handler awaits. A tool runs one handler step for each *)
(* answer.                                                                 *)
(***************************************************************************)
EXTENDS Naturals, Integers, Sequences, SequencesExt, FiniteSets, FiniteSetsExt

CONSTANTS
    Address,
    Tracked,                    \* the addresses the balance is asked for
    Tx,
    Inputs,                     \* [Tx -> Seq of [tx, index]]
    Outputs,                    \* [Tx -> Seq of [address, coins]]
    AtBlocks,                   \* the requested heights
    Block,                      \* the blocks there may be: [body : Seq(Tx), era]
    InFlight,                   \* requests that are pipelined
    MaxHeight, MaxForks         \* bounds of the node's chain

ASSUME GeneratorAssumption ==
    /\ Tracked \subseteq Address
    /\ AtBlocks \subseteq 1 .. MaxHeight /\ AtBlocks # {}
    /\ MaxHeight \in Nat /\ MaxForks \in Nat /\ InFlight \in Nat \ {0}
    /\ \A b \in Block : b.era \in {"standard", "aurum", "boundary"} /\ b.body \in Seq(Tx)
    /\ Inputs \in [Tx -> Seq([tx : Tx, index : Nat])]
    /\ \A t \in Tx : IsInjective(Inputs[t])  \* a transaction's inputs are a set
    /\ Outputs \in [Tx -> Seq([address : Address, coins : Nat])]

VARIABLES
    chain,                      \* node: the chain, a sequence of Block
    pointer,                    \* node: how much of it has been sent
    undo,                       \* node: the next answer rolls back to the pointer
    forks,
    requests,                   \* requests the node has not answered
    pipe,                       \* answers the tool has not handled
    tool,                       \* which of the two tools runs
    status,
    balances,                   \* trackedAddressBalances
    trackedTxs,
    response,                   \* what is recorded at each height
    view,                       \* history: the chain the answers describe, until completion
    rolledBack                  \* history: a block of the view was undone

nodeVars == <<chain, pointer, undo, forks>>
recordVars == <<balances, trackedTxs, response>>
toolVars == <<status, recordVars, view, rolledBack>>
generatorVars == <<nodeVars, requests, pipe, tool, toolVars>>

LastHeight == Max(AtBlocks)

-----------------------------------------------------------------------------
(* The balance that a chain gives an address: its unspent outputs.         *)
TxsOf(blocks) == UNION {ToSet(blocks[h].body) : h \in DOMAIN blocks}
SpentIn(blocks) == UNION {ToSet(Inputs[t]) : t \in TxsOf(blocks)}
OutputsIn(blocks) == UNION {{[tx |-> t, index |-> i] : i \in DOMAIN Outputs[t]}
                            : t \in TxsOf(blocks)}
BalanceOn(blocks, a) ==
    SumFunctionOnSet(
        [o \in OutputsIn(blocks) |-> Outputs[o.tx][o.index].coins],
        {o \in OutputsIn(blocks) \ SpentIn(blocks) :
            Outputs[o.tx][o.index].address = a})

ValidTx(blocks, t) ==
    /\ t \notin TxsOf(blocks)
    /\ ToSet(Inputs[t]) \subseteq OutputsIn(blocks) \ SpentIn(blocks)

ValidBody(blocks, body) ==
    \A i \in DOMAIN body :
        ValidTx(Append(blocks, [body |-> SubSeq(body, 1, i - 1)]), body[i])

-----------------------------------------------------------------------------
(* applyValue: the balance stands at Negative once it has thrown.          *)
Negative == -1

ApplyValue(balance, coins, spending) ==
    LET applied == IF spending THEN balance - coins ELSE balance + coins
    IN  IF applied < 0 THEN Negative ELSE applied

\* The state of the loops over outputs and inputs: balances and transactions.
\* Once a balance is Negative an error has been thrown and nothing is done.
Thrown(s) == \E a \in Tracked : s.bal[a] = Negative

AddOutput(s, t, output) ==
    IF Thrown(s) \/ output.address \notin Tracked THEN s
    ELSE [bal |-> [s.bal EXCEPT ![output.address] =
                      ApplyValue(@, output.coins, FALSE)],
          txs |-> Append(s.txs, t)]

SpendInput(s, input) ==
    IF Thrown(s) \/ input.tx \notin ToSet(s.txs)
       \/ input.index \notin DOMAIN Outputs[input.tx] THEN s
    ELSE LET output == Outputs[input.tx][input.index] IN
         IF output.address \notin Tracked THEN s
         ELSE [s EXCEPT !.bal[output.address] =
                  ApplyValue(@, output.coins, TRUE)]

\* Mutant: a transaction's inputs are not spent.
OutputsOnly(s, t) == FoldLeft(LAMBDA r, o : AddOutput(r, t, o), s, Outputs[t])

ApplyTx(s, t) ==
    FoldLeft(SpendInput,
             FoldLeft(LAMBDA r, o : AddOutput(r, t, o), s, Outputs[t]),
             Inputs[t])

ApplyBody(s, body) == FoldLeft(ApplyTx, s, body)

-----------------------------------------------------------------------------
GeneratorInit ==
    /\ chain = <<>> /\ pointer = 0 /\ undo = TRUE /\ forks = 0
    /\ requests = 0 /\ pipe = <<>>
    /\ tool \in {"balances", "blocks"}
    /\ status = "starting"
    /\ balances = [a \in Tracked |-> 0]
    /\ trackedTxs = <<>>
    /\ response = <<>>
    /\ view = <<>> /\ rolledBack = FALSE

(* The node; what it does after the tool has ended is not observed. *)
Connected == status \in {"starting", "syncing", "draining"}

Extend(block) ==
    /\ Connected
    /\ Len(chain) < MaxHeight
    /\ ValidBody(chain, block.body)
    /\ chain' = Append(chain, block)
    /\ UNCHANGED <<pointer, undo, forks, requests, pipe, tool, toolVars>>

Fork(n) ==
    /\ Connected
    /\ forks < MaxForks
    /\ forks' = forks + 1
    /\ chain' = SubSeq(chain, 1, n)
    /\ pointer' = IF n < pointer THEN n ELSE pointer
    /\ undo' = (undo \/ n < pointer)
    /\ UNCHANGED <<requests, pipe, tool, toolVars>>

Serve ==
    /\ Connected
    /\ requests > 0
    /\ undo \/ pointer < Len(chain)
    /\ requests' = requests - 1
    /\ undo' = FALSE
    /\ IF undo
       THEN /\ pipe' = Append(pipe, [type |-> "backward", height |-> pointer])
            /\ UNCHANGED pointer
       ELSE /\ pointer' = pointer + 1
            /\ pipe' = Append(pipe, [type |-> "forward", height |-> pointer + 1,
                                     block |-> chain[pointer + 1]])
    /\ UNCHANGED <<chain, forks, tool, toolVars>>

(* The genesis configuration is fetched before the `try`: an error there   *)
(* settles nothing. What is inside it rejects.                             *)
Start ==
    /\ status = "starting"
    /\ \/ status' = "syncing" /\ requests' = InFlight
       \/ status' \in {"thrown", "rejected"} /\ UNCHANGED requests
    /\ UNCHANGED <<nodeVars, pipe, tool, recordVars, view, rolledBack>>

\* what the answers say until completion; those that follow are not looked at
ViewRollsBack(height) ==
    IF status = "draining" THEN UNCHANGED <<view, rolledBack>>
    ELSE /\ rolledBack' = (rolledBack \/ height < Len(view))
         /\ view' = SubSeq(view, 1, height)

\* Mutant: a rollback is not followed by a request.
RollBackwardOnly ==
    /\ status \in {"syncing", "draining"}
    /\ pipe # <<>> /\ Head(pipe).type = "backward"
    /\ pipe' = Tail(pipe)
    /\ ViewRollsBack(Head(pipe).height)
    /\ UNCHANGED <<nodeVars, requests, tool, status, recordVars>>

RollBackward ==
    /\ status \in {"syncing", "draining"}
    /\ pipe # <<>> /\ Head(pipe).type = "backward"
    /\ pipe' = Tail(pipe)
    /\ requests' = requests + 1
    /\ ViewRollsBack(Head(pipe).height)
    /\ UNCHANGED <<nodeVars, tool, status, recordVars>>

\* what is recorded of a block, after its transactions
Recorded(block, s) == IF tool = "balances" THEN s.bal ELSE block

\* Mutant: what was recorded at a height first is kept.
RecordFirst(height, entry) ==
    IF height \in AtBlocks \ DOMAIN response
    THEN [h \in DOMAIN response \cup {height} |-> IF h = height THEN entry ELSE response[h]]
    ELSE response

Record(height, entry) ==
    IF height \in AtBlocks
    THEN [h \in DOMAIN response \cup {height} |-> IF h = height THEN entry ELSE response[h]]
    ELSE response

\* an error in a handler is not caught and ends the process
Throws(block, s) ==
    \/ block.era = "boundary"
    \/ tool = "balances" /\ (block.era = "aurum" \/ Thrown(s))

RollForward ==
    LET m == Head(pipe)
        before == [bal |-> balances, txs |-> trackedTxs]
        after == IF tool = "balances" /\ m.block.era = "standard"
                 THEN ApplyBody(before, m.block.body) ELSE before
    IN
    /\ status = "syncing"
    /\ pipe # <<>> /\ m.type = "forward"
    /\ pipe' = Tail(pipe)
    /\ view' = Append(view, m.block)
    /\ IF Throws(m.block, after)
       THEN /\ status' = "thrown"
            /\ UNCHANGED <<recordVars, requests>>
       ELSE /\ balances' = after.bal
            /\ trackedTxs' = after.txs
            /\ response' = Record(m.height, Recorded(m.block, after))
            /\ IF m.height = LastHeight
               THEN status' = "draining" /\ UNCHANGED requests
               ELSE requests' = requests + 1 /\ UNCHANGED status
    /\ UNCHANGED <<nodeVars, tool, rolledBack>>

\* Mutant: the tool goes on recording while it shuts down.
KeepsRecording ==
    LET m == Head(pipe) IN
    /\ status = "draining"
    /\ pipe # <<>> /\ m.type = "forward"
    /\ pipe' = Tail(pipe)
    /\ response' = Record(m.height, Recorded(m.block, [bal |-> balances]))
    /\ UNCHANGED <<nodeVars, requests, tool, status, balances, trackedTxs, view, rolledBack>>

\* `if (draining) return`, without a request
DropForward ==
    /\ status = "draining"
    /\ pipe # <<>> /\ Head(pipe).type = "forward"
    /\ pipe' = Tail(pipe)
    /\ UNCHANGED <<nodeVars, requests, tool, toolVars>>

\* the shutdown that the last handler awaits
ShutDown ==
    /\ status = "draining"
    /\ status' = "resolved"
    /\ UNCHANGED <<nodeVars, requests, pipe, tool, recordVars, view,
                   rolledBack>>

\* createInteractionContext was given `reject` for errors of the connection
ConnectionFails ==
    /\ Connected
    /\ status' = "rejected"
    /\ UNCHANGED <<nodeVars, requests, pipe, tool, recordVars, view,
                   rolledBack>>

NodeStep == (\E block \in Block : Extend(block)) \/ Serve

ToolStep == Start \/ RollBackward \/ RollForward \/ DropForward \/ ShutDown

GeneratorNext ==
    \/ NodeStep
    \/ \E n \in 0 .. Len(chain) - 1 : Fork(n)
    \/ ToolStep
    \/ ConnectionFails

GeneratorSpec == GeneratorInit /\ [][GeneratorNext]_generatorVars

(* The node goes on extending its chain and answering, and the event loop  *)
(* runs the handlers.                                                      *)
FairSpec == GeneratorSpec /\ WF_generatorVars(NodeStep) /\ WF_generatorVars(ToolStep)

-----------------------------------------------------------------------------
GeneratorTypeOK ==
    /\ pointer \in 0 .. Len(chain) /\ Len(chain) <= MaxHeight
    /\ requests + Len(pipe) <= InFlight
    /\ \A i \in DOMAIN pipe : pipe[i].type \in {"forward", "backward"}
    /\ tool \in {"balances", "blocks"}
    /\ status \in {"starting", "syncing", "draining", "resolved", "rejected",
                   "thrown"}
    /\ balances \in [Tracked -> Nat]
    /\ trackedTxs \in Seq(Tx)
    /\ DOMAIN response \subseteq AtBlocks

Prefix(blocks, h) == SubSeq(blocks, 1, h)

IsBalanceAt(blocks, bal) == \A a \in Tracked : bal[a] = BalanceOn(blocks, a)

(* While no block has been rolled back, the running balances and every     *)
(* snapshot are what the outputs that are unspent at that height add up    *)
(* to, although a transaction spends outputs of its own block and outputs  *)
(* of other addresses pass by (getOnChainAddressBalances.ts:102-120).      *)
SnapshotsAddUp ==
    tool = "balances" /\ ~rolledBack /\ status # "thrown" =>
        /\ IsBalanceAt(view, balances)
        /\ \A h \in DOMAIN response : IsBalanceAt(Prefix(view, h), response[h])

(* A recorded block is replaced when its height comes again, so getBlocks  *)
(* returns blocks of one chain even if others were rolled back             *)
(* (getBlocks.ts:81-88).                                                   *)
BlocksAreOfOneChain ==
    tool = "blocks" => \A h \in AtBlocks \cap DOMAIN view :
        status # "thrown" => h \in DOMAIN response /\ response[h] = view[h]

(* The promise resolves with an entry for every requested height.          *)
ResolvedIsComplete ==
    status \in {"draining", "resolved"} => AtBlocks \subseteq DOMAIN response

(* Without a rollback the check of applyValue against negative balances    *)
(* never fires: only an unsupported block or the start can throw.          *)
ThrowsAreExplained ==
    status = "thrown" =>
        view = <<>> \/ rolledBack \/ Last(view).era # "standard"

(* Answers that are still in the pipe change nothing once the condition of *)
(* completion is met (getOnChainAddressBalances.ts:44-46).                 *)
NothingAfterCompletion ==
    [][(status \in {"draining", "resolved"}) => UNCHANGED recordVars]_generatorVars

(* A tool ends when the node goes on answering.                            *)
SyncEnds == <>(status \in {"resolved", "rejected", "thrown"})

(* index.ts:46 and 42: `Balance of the addresses at block heights',        *)
(* `determined by syncing the chain from genesis'.                         *)
BalanceAtBlockHeights ==
    tool = "balances" /\ status = "resolved" =>
        \A h \in AtBlocks \cap DOMAIN view :
            IsBalanceAt(Prefix(view, h), response[h])
=============================================================================
