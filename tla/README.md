# A TLA+ model of bcc-js-sdk

This directory holds TLA+ modules that model the parts of `bcc-js-sdk` whose
behaviour depends on the order of events or on arithmetic over many cases, the
TLC configurations that check them on small instances, and TLAPS proofs of the
theorems that matter most. `PROJECT.json` lists the runs, the properties, the
source lines behind every definition, the hazards, the findings and the
theorems.

    tlc -config Tracker_safety.cfg MC_TransactionTracker.tla
    tlapm TransactionTrackerProofs.tla

Source paths below are relative to `src/packages/`.

## 1. Inventory

The SDK is a set of TypeScript packages that run in one event loop per page or
process. Nothing is persisted by the core (only the CIP-30 wallet stores a list
of allowed sites), and nothing is shared between threads. What is hard comes
from three sources: code that is interrupted at every `await`, a chain that
moves on and answers late, and integer arithmetic with many corner cases.

| component | source | state | operations | model |
|---|---|---|---|---|
| transaction tracker | `wallet/src/InMemoryTransactionTracker.ts` | map of pending promises | `track`, the poll | `TransactionTracker` |
| UTxO repository | `wallet/src/InMemoryUtxoRepository.ts` | outputs, rewards and the locks on both | `sync`, `selectInputs`, `#onTransaction`, getters, events | `UtxoRepository` |
| balance tracker | `wallet/src/BalanceTracker.ts` | a copy of the balances | reacts to `Changed` and `OutOfSync` | `BalanceTracker` |
| single address wallet | `wallet/src/SingleAddressWallet.ts` | none of its own | `initializeTx`, `signTx`, `submitTx` | `Wallet` |
| round-robin selection | `cip2/src/RoundRobinRandomImprove/roundRobin.ts` | lists of entries and tokens | `roundRobinSelection` | `RoundRobin` |
| change computation | `cip2/src/RoundRobinRandomImprove/{change,index}.ts` | the bundles of one call | `select` and what it calls | `ChangeBundles`, `InputSelection` |
| selection constraints | `cip2/src/selectionConstraints.ts` | none | fee, smallest coin quantity, sizes | operators of `InputSelection` and `ChangeBundles` |
| core values | `core/src/{Bcc,CSL,Asset}` | none | sums and conversions | `BccValue` |
| wallet provider (interface) | `core/src/WalletProvider` | the chain, outside | tip, queries, submission | `Ledger` (external), `ProviderCalls` |
| transaction building | `wallet/src/Transaction` | none | bodies, certificates, implicit coin | `TransactionBuilding` |
| key management | `wallet/src/KeyManagement` | root key | derivation, signatures | its paths in `TransactionBuilding`; the cryptography is not modelled |
| Blockfrost provider | `blockfrost/src` | the requests of a call | the eight functions, paging, errors | `BlockfrostProvider`, `WalletProviders` |
| GraphQL db-sync provider | `bcc-graphql-db-sync/src` | the requests of a call | the eight functions, errors | `GraphqlProviders`, `WalletProviders` |
| GraphQL schema and client | `bcc-graphql/src` | none | `queryStakePools`; generated documents and type-graphql classes | the search in `GraphqlProviders`; the classes hold no behaviour |
| CIP-30 wallet | `cip30/src/Wallet`, `injectWindow.ts` | allow list in memory and stored, `window.bcc` | `enable`, `isEnabled`, injection | `Cip30Wallet`, `WalletAccess` |
| CIP-30 browser extension | `cip30/src/BrowserExtension` | none | passes messages on | not modelled |
| golden test generator | `golden-test-generator/src` | balances, known transactions, records | handlers of chain-sync | `GoldenGenerator` |
| development utilities | `util-dev` | - | stubs of tests | not modelled |
| prototype | `prototype` (beside `packages`) | none | scan, address set, selection, signing | `PrototypeWallet`, the client wallet |

### How they interact

`SingleAddressWallet.initializeTx` asks the provider for the tip, then the
repository for a selection; the repository calls the input selector with its
available outputs, after a `sync` if it knows none. `submitTx` hands the
provider's promise to `track`. The tracker awaits it, starts or joins a poll,
and emits `NewTransaction` with the poll's promise. The repository's listener
locks the inputs and withdrawals of the transaction, awaits the promise,
unlocks, and starts a `sync` of its own. Each merge of a reply and each lock
emits `Changed`; a failed `sync` of its own emits `OutOfSync`. The balance
tracker copies the balances on `Changed`.

`initializeTx` builds bodies through `createTransactionInternals`, once for each
cost the selector asks for and once at the end; `signTx` signs them with the key
manager. A provider turns one call into one or many requests to a service that
follows the same chain. A page reaches a wallet through the object that
`injectWindow` puts at `window.bcc`; all wallet objects of an origin share one
storage. The golden generator is a client of a node's chain-sync of its own, and
the prototype talks to its own provider interface.

### What is hard, and what is correct

* **Tracker.** Several calls for one transaction are suspended at once; the map
  entry outlives its poll by a promise reaction; a poll makes two requests and
  the chain moves between them. Correct means: one poll per transaction, an
  answer that was true, never two answers, and an answer in the end.
* **Repository.** Replies are merged into a set that has changed meanwhile, in
  any order; outputs are compared by reference but locked by object; locks are a
  set and not a count. Correct means: no output twice, never a mixture of two
  replies, no lock or locked reward left over, and no lock lost. (A spent output
  may come back with an old reply, and a lock may go with another transaction's:
  see the findings.)
* **Wallet.** Drafts, submissions, polls, handlers and syncs overlap. Correct
  means: the inputs of a pending transaction are not selected again, except
  where the repository lists or unlocks them as above, and every lock is
  released.
* **Balance tracker.** It holds copies; a copy that is out of date must be about
  to be refreshed or be reported.
* **Selection.** An array is spliced while an iterator runs over it, implicit
  quantities are added at several places, change is rounded, merged and
  recomputed with extra entries. Correct means: the result splits the UTxO and
  balances, every change value can be an output, the fee pays for the result, a
  call fails only for lack of funds, and it ends. (The middle two do not hold,
  and balance is lost for assets that share a policy: see the findings.)
* **Transaction building.** Certificates and withdrawals enter the selection as
  implicit coin and the body as fields, along two paths; the body is built again
  after its fee was computed; change, repository and signature each derive an
  address. Correct means: both paths agree, the body preserves value, and the
  signature fits its inputs (the last two do not hold, see the findings).
* **Providers.** A call is several requests, and blocks, retirements and edits
  come between them; answers get lost; some things are not there any more.
  Correct means: the parts of an answer fit together, nothing that was there all
  along is missing, an error means what it says.
* **CIP-30 wallet.** The user answers late; several wallet objects write one
  stored list, each with a copy in memory; pages go away in between. Correct
  means: the API is given only to sites the user allowed, and a grant is not
  lost.
* **Golden generator.** Requests are pipelined, chains fork, the completion
  awaits while answers still come in. Correct means: what is recorded is true of
  one chain, it is not touched after completion, and the sync ends.
* **Prototype.** A scan asks batch after batch while payments arrive. Correct
  means: the next address is fresh, no output within reach of the scan is
  missed, the witnesses fit.

## 2. Plan

Written, in this order: the wallet (`Ledger`, `TransactionTracker`,
`UtxoRepository`, `BalanceTracker`, `Wallet`); coin selection (`BccValue`,
`RoundRobin`, `ChangeBundles`, `InputSelection`); their abstract specifications
(`TransactionConfirmation`, `InputSelector`) and proofs; the CIP-30 wallet with
its abstract specification (`WalletAccess`, `Cip30Wallet`, `Cip30WalletProofs`);
the golden generator (`GoldenGenerator`); the providers (`ProviderCalls`,
`BlockfrostProvider`, `GraphqlProviders`, composed in `WalletProviders`);
`TransactionBuilding`; the prototype (`PrototypeWallet`).

Left to model: an abstract provider that both wallet providers are compared with
as a refinement; `TransactionBuilding` composed with `Wallet`, so that the
drafts of the latter have bodies; the prototype's remote wallet.

Proved since: every safety property of the passing runs, and the invariants that
no run lists (section 6). What stays with TLC is liveness.

## 3. Modules

### Wallet

`Ledger` is the environment: a chain that grows by blocks of compatible valid
transactions, pays rewards and may roll back its last block. A provider's
answers are its operators `Unspent`, `RewardBalance`, `OnChain` and the variable
`tip`. It is marked external in the map, as no code of the repository implements
it.

`TransactionTracker` has one action per piece of code between two awaits:

| code | actions |
|---|---|
| `track`, up to `await submitted` | `Track` |
| after it: rejected, joined, no ttl, new poll | `SubmissionFails`, `JoinPending`, `RefuseNoTtl`, `StartPolling` |
| `emit(NewTransaction)` reaches its listeners | `DeliverNewTransaction` |
| `delay`, then `queryTransactionsByHashes` | `DelayElapsed`, `TxFound`, `TxNotFound`, `TxQueryFails` |
| `ledgerTip`: later than the ttl, not yet, an error | `TipExpired`, `TipStillValid`, `TipQueryFails` |
| `promise.catch(..).then(delete)` | `Forget` |

A promise of `#checkTransactionViaProvider` is named by the call that started
it; `pending` is `#pendingTransactions`.

`TransactionConfirmation` is what a caller is promised: the promise of a call
stays open until it is given one answer, and the answer had a reason in the
ledger at that moment or had been given to another call for the same
transaction. `Confirmation` in `TransactionTracker` maps a call to the state of
the poll whose promise it returned.

`UtxoRepository` keeps what the code tells apart: an element of `utxoSet` is
`[in, seq]`, the output `in` as the object the reply to sync `seq` brought,
since replies are merged with `utxoEquals` but locks are found by identity.
`ObjectsOf` includes `Undefined` when `find` misses, as the code locks that too.
The NewTransaction events come from the environment in this module, so that its
results hold whatever drives it. Delegation is left out: nothing depends on it.

`BalanceTracker` adds the copies of balances on top of the repository and takes
over the delivery of events.

`Wallet` composes tracker and repository over one ledger by `INSTANCE`, adds
`initializeTx` (`InitializeTx`, `TipFails`, `SelectInputs`,
`SyncBeforeSelecting`, `SelectAfterSync`) and `submitTx` (`SubmitTx`,
`NodeAccepts`, `Submitted`, `FailedToSubmit`), and connects the event
(`NewTransaction`) and its promise (`HandlerWakes`). A transaction of `Tx`
stands for one draft; its body and signature are opaque, and the selection may
return any available outputs.

The event loop runs all microtasks (promise reactions, event listeners) before
it takes the next timer or reply. `TrackerQuiet`, `RepoQuiet` and `Quiet` say
that none is left and guard the steps that need a timer or a reply.

### Coin selection

`BccValue`: values with coins and assets, `CslValues` for the conversion that
keeps one asset of each policy (`core/src/CSL/coreToCsl.ts:17-32`).
`IsParsedValue` describes values that come from the library, which never hold an
asset with quantity zero.

`RoundRobin`: the two nested loops, one token per step. `tokenIdx` is the place
of the `for ... of` iterator, which skips a token when one is spliced out. A
draw is `\E` over the entries. `ImprovesSelection` is the acceptance test with
the implicit quantity as the code adds it.

`ChangeBundles` has the pure part of the change computation (division in
proportion to the outputs, rounding, leftover assets over the bundles, merging)
as operators over recursive functions and folds. `InputSelection` has the
control: the balance check, the selection, change including fee, the fee, final
change, extra entries, the checks at the end and every failure. The size of a
transaction is abstract: one unit per input, output, change value and policy. A
constraint that rejects is left out: `select` rejects with the same error.

`InputSelector` is the contract of the interface, and `ImplementsSelector` says
that `InputSelection` implements it: it settles once, a result splits the UTxO,
takes no more of any token than the inputs give (`Taken`, `Given`) and exactly
that of coins and of each asset that shares its policy with no other asset of
the inputs (`SharesPolicy`), and a failure has no result. The exception is what
`coreToCsl.ts:28` loses.

### Transaction building

`TransactionBuilding` follows one request from `initializeTx` to `signTx`:

| code (`SingleAddressWallet.ts`) | actions |
|---|---|
| `await ledgerTip()`, then everything up to `selectInputs` | `TipRead` |
| `selectInputs` resolves | `SelectInputs` |
| the final `createTransactionInternals` | `Build` |
| either await rejects | `Rejected` |
| `signTx`, with `signTransaction` of the key manager | `SignTx` |

Before that, the caller makes its certificates: `CreateCertificates`, or
`FactoryThrows` when `#createCslRelays` cannot convert a relay. Keys, and the
addresses they lock, are derivation paths. A selection is any that
`computeChangeAndAdjustForFee` can make of the entries: the fee is that of the
body `buildTx` makes of the `costed` entries, with change that still includes it
(`FeeOf`, `change.ts:299-313`), and the final selection may have `extra` entries
that were drawn after the fee was computed (`change.ts:334`).
`TransactionBuilding` therefore promises nothing about the fee. The size of a
body is the number of its parts. `LibraryDeposit` and `LibraryImplicitInput` are
what the serialization library counts in a body.

### Providers

`ProviderCalls` extends `Ledger` by what else a service holds (the register of
pools, epochs, a search index) and has the life of one call: `Begin`, `Receive`,
`Settle`. `seen` is the history of what the services held during the call,
against which an answer is judged. A call reads one `part` of the services, and
only that part moves.

A provider module says which requests a function has sent so far (`Wanted`,
`DbSyncChain`, `SearchOutstanding`): sequential awaits by `SentOf`, parallel
ones as a set. One action per event: an answer (`Answer`, `DbSyncAnswer`,
`SearchAnswer`), a 404 (`NotThere`), an error of any shape (`Fails`, mapped by
`ToProviderError` as `formatBlockfrostError` does), an answer lost after the
node took the transaction (`SubmitAnswerLost`), and the end of the call
(`Resolve`, `DbSyncSettles`, `SearchResolves`).

A GraphQL answer has the keys its query asks for (`AskedKey`); the code reads
keys of its own (`ReadKey`). Where they differ the code throws.

### CIP-30 wallet

| code (`cip30/src`) | actions |
|---|---|
| `Wallet` constructor, which reads the stored list | `Construct` |
| `injectWindow` | `InjectWindow` |
| `enable` up to `requestAccess` | `Enable` |
| the user agrees: `allowApplication` adds to its list and reads the stored one | `UserAllows` |
| ... and writes it | `Store`, `StoreFails` |
| the user declines, or `requestAccess` rejects | `UserRefuses` |
| a page goes away | `Reload` |

The code between reading and writing the stored list has no await, but other
pages run at the same time, and nothing keeps them from coming in between.
`overtaken` is the history of it: the calls that have written since a call has
read. Two pages that both read the list before either writes lose one grant
(`Overwritten`). `Runs` says that one page does one thing at a time.

`WalletAccess` is the promise to a page: a call is answered once, with the API
only for a site the user has allowed. `Access` maps `Cip30Wallet` to it.

### Golden generator

`Extend`, `Fork` and `Serve` are the node (external); `requests` are unanswered,
`pipe` holds answers that no handler has seen. `Start` fetches the genesis
configuration and connects; `RollForward` and `RollBackward` are the handlers;
`DropForward` and `ShutDown` the completion; `ConnectionFails` the error
callback. `tool` says which of the two tools runs: they share their handlers'
control and differ in what they record (`Recorded`) and in which blocks they
refuse (`Throws`). Values are coins. `view` is the history of what the handled
answers say, against which records are judged. It ends with the completion:
answers behind it are not looked at.

### Prototype

A wallet keeps nothing, so one call stands for all. `Plan` lists the awaits of
each function of `ClientWallet.ts`: `Consumed` and `NextAddress` are a batch of
a scan, `Queried` the query of outputs or history, and `InputSelection` picks
inputs and looks up their addresses. `SignInMemory` and `SignWithLedger` are the
two key managers; the device or the transport to it may reject. `AddTransaction`
is the chain, which may grow between any two requests: a payment may go to any
address up to `Spread` unused ones behind the last used one (`Payable`), so gaps
may add up.

### Theorems

`SumTheorems` proves what the proofs need of the sums `SumFunctionOnSet`; the
modules named `...Proofs` hold the theorems and extend the component they are
about. `UtxoRepositoryProofs` extends `BalanceTracker` and so covers both.
`WalletProofs` instantiates the proofs of tracker and repository with the
wallet's variables. `StandaloneProofs` extends the three components that nothing
is composed with; their variables and specifications have names of their own
(`Spec`, `GeneratorSpec`, `PrototypeSpec`).

## 4. Runs

### Wallet

| run | question | instance |
|---|---|---|
| `tracker_safety` | one poll per transaction; entries die with their poll; a timeout is final; refines `TransactionConfirmation` | 3 calls, 2 transactions, one with no ttl, 3 slots |
| `tracker_timeout` | *violated*: a transaction reported as timed out is on the chain | 2 calls, ttl 1 and 2, 3 slots |
| `repository` | no duplicate object, no lock left, locked rewards add up; the set is that of one reply; a lock is lost in no other than the named ways; a stale balance is being refreshed or was reported | 2 handlers with conflicting transactions, 1 user sync, 1 payment of rewards, replies in any order |
| `wallet_safety` | one handler per poll; an input of a pending transaction is available again in no other than the named ways | 2 drafts that share an output, 2 calls, 2 user syncs, 1 block, replies in any order |
| `wallet_liveness` | every call gets an outcome, every lock is released | 2 calls for one transaction, 1 user sync, 1 rollback, replies in any order |

Why these bounds are enough: two calls of one transaction and one of another
reach every combination of joining, starting over after `Forget` and racing;
three slots put the inclusion before, at and after the ttl. Two handlers suffice
for interference of locks, since a lock is a member of a set and a third handler
meets either the same object or another; each handler's sync and the user's can
be in flight together, which gives three concurrent replies.

No run assumes that replies come in the order of their requests, or that drafts
spend different outputs, so the properties say what is left without that.
`ListsOneReply`: the repository is never a mixture of two replies, and on a
chain without rollbacks a spent output is back only because its one reply is
older than the block that spends it. `LockedUnlessRelisted`, and
`PendingLockedUnlessRelisted` for the composed wallet: an input that a waiting
handler has locked is available in three cases only:

* the repository did not list it when the event came, so `find` locked nothing;
* the handler of another transaction with that input has ended and has deleted
  the lock of both (lines 148-150);
* one reply left the output out and another brought it back, as a new object
  that nobody locked.

### Coin selection

| run | question | instance |
|---|---|---|
| `selection_contract` | implements `InputSelector`; a token is given up only when it is covered; failures are justified; no division by zero; `select` settles | 3 entries, up to 2 outputs, requests of up to three tokens, implicit input and deposit |

Gold and silver, of different policies, are the least that can be leftover,
merged and skipped; bronze shares silver's policy and is leftover with it, so
the conversion loses one of them. Three entries make a UTxO in which one is
improved upon, one is extra and one remains. The quantities include a zero, one
that covers the request and one that does not. A call has an implicit input or a
deposit or neither.

`selection_contract` runs with a smallest coin quantity that does not grow with
policies, as in the constraints of the repository's own property tests
(`cip2/test/util/properties.ts`), and with a constant fee: with the others
failures need not be justified nor change large enough, and the additional
configurations below show each way.

### Building, providers, CIP-30, golden generator, prototype

| run | question | instance |
|---|---|---|
| `building_value` | the implicit coin is what the library computes from a body with what was requested, and such a body preserves value; the body that is built does exactly when the implicit coin cancels out | up to 2 certificates of every kind, pools with no relay or one of any kind, 2 withdrawals from 2 stake addresses, 2 entries, every selection `computeChangeAndAdjustForFee` can make, extra entries after the fee included, every validity interval with a zero, a slot or no bound |
| `building_witness` | *violated*: every input of a signed transaction has its witness | the same |
| `providers` | outputs and rewards of one answer do not count coins twice; outputs, transactions, tallies and pools are those of some moment of the call; an error means what it says | 2 transactions (the first withdraws rewards, the second spends its output), 2 addresses, 3 pools in pages of 2, 1 rollback, 1 epoch, 1 edit of the index |
| `cip30_access` | a grant is remembered unless saving failed or pages overlapped, and is lost to an overlap only; implements `WalletAccess` | 2 wallet objects, 2 pages of 2 sites, 3 calls (two from one page), 2 reloads |
| `golden_sync` | snapshots add up while no block was rolled back; recorded blocks are of one chain in any case; nothing changes after completion; the sync ends | 3 transactions, two of them in conflict on two forks, height 3, 1 fork, 2 requests in flight |
| `prototype` | the next address is fresh; a scan ends with an address; the balance misses no output within a batch of the first unused address; a witness is of an address the input's transaction paid to | batches of 2 addresses, payments that skip up to 2 addresses behind the last used one, 2 transactions of up to 2 outputs |

Two certificates and two withdrawals show whether sums are taken over all of
them, and a second withdrawal may hit the same stake address. One rollback and
three moments per call reach every order of the requests of a call against the
one event that invalidates what was read before; a list of three in pages of two
has a full and a partial page and becomes one of exactly one page when a pool
retires. Two wallet objects are the least that share a storage, and a call of
each with a third shows one overwriting what another stored; a reload replaces a
wallet object by one that starts from the storage. Two requests in flight leave
an answer behind the one that completes the sync, and a fork of one block at
height 2 changes a height that was recorded. With batches of two, one payment
consumes a batch, and the second may fall between two batches or two scans.

`TransactionsAreWhole`, `WitnessesUnlockInputs` and `FundsAreFound` name
exceptions the code has: a mint is skipped and the retirements of a transaction
are fetched by the count of its updates (`blockfrostProvider.ts:246`); the
address of an input is looked up by the id of its transaction only
(`RustBccPrimitives/index.ts:237`), so with two outputs of one transaction the
witness may be of the other's address; and the scan ends in the first batch
whose last address is unused, so that outputs more than a batch behind the first
unused address may be missed (`WithinReach`).

### Invariants that no run lists

Each of these holds in the instance of its run, is checked by adding its name to
the configuration, and is proved (section 6): the type invariants `RepoTypeOK`,
`WalletTypeOK`, `SelectTypeOK`, `AccessTypeOK`, `GeneratorTypeOK`,
`ProvidersTypeOK`, `BuildingTypeOK` and `PrototypeTypeOK`; `ConservationOfUtxo`,
`EnabledWasGranted`, `AddressHistoryIsReported`, `NoPoolMissed`,
`TransactionsExpire`, `ResolvedIsComplete` and `ThrowsAreExplained`.

### Additional configurations

These are not among the runs of `PROJECT.json`. All but the first end in a
violation, each of a statement the repository makes in a comment, a test or a
type. Where the instance is that of a run, the property takes the place of those
in its configuration:

| configuration | shows |
|---|---|
| `RoundRobin_cover.cfg` (`MC_RoundRobin`) | the selection loops alone, over all UTxOs of 3 entries with coins from {1, 2, 5} and two assets of quantity 0 or 2: a token is dropped only when it is covered, and the loops end |
| `Repository.cfg` with `LocksLastUntilConfirmed` | `InMemoryUtxoRepository.test.ts:125-127`: of two transactions that share an input, the one that settles first unlocks it for both |
| `Repository.cfg` with `ConfirmedInputsGone` | `InMemoryUtxoRepository.test.ts:194-197`: an old reply that arrives after the sync of a confirmation brings the spent output back |
| `Wallet_safety.cfg` with `LockedWhileSubmitting` | `withdrawal.test.ts:81`: outputs are available during submission |
| `Building_witness.cfg` with `RequestPreservesValue` | `withdrawal.test.ts:71-83`: a transaction of a request with certificates or withdrawals does not balance, as the body is built without what `computeImplicitCoin` has counted (`SingleAddressWallet.ts:85-91`) |
| `Selection_policy.cfg` (`MC_InputSelection`) | `CorrectnessOfChange` (`properties.ts:81`): change does not balance when a bundle has two assets of one policy (`coreToCsl.ts:28`) |
| `Selection_fee.cfg` (`MC_InputSelection`) | `FeeCoversSelection` (`change.ts:307`): the fee does not pay for an entry taken after it was computed (`change.ts:334`) |
| `Selection_limit.cfg` (`MC_InputSelection`) | `SelectedFitsTransaction` (`selectionConstraints.ts:68`): a selection larger than a transaction may be is returned (`index.ts:52`) |
| `Selection_mincoin.cfg` (`MC_InputSelection`) | `ChangeMeetsMinCoin` (`properties.ts:13`): a middle bundle of three has too few coins (`change.ts:196`) |
| `Golden_sync.cfg` with `BalanceAtBlockHeights` | `index.ts:46`: the balances after a rollback count blocks that were undone |
| `Cip30_enabled.cfg` (`MC_Cip30Wallet`) | `EnabledCallsSucceed` (`Wallet.ts:94`): without a persisted list, `isEnabled` is true and the user may still refuse |
| `Prototype_gaps.cfg` (`MC_PrototypeWallet`) | `EveryFundIsFound` (`address_discovery.ts:12`): payments that each skip less than a batch lead out of reach of the scan, and a balance misses the last (with batches of 20: outputs at 0, 15, 34 and 50) |

No run checks deadlock (`CHECK_DEADLOCK FALSE`): the modelled calls are finite
in number, and when all have settled the system stops.

### Findings

Two are listed under `findings` in `PROJECT.json` with the lines quoted, each
the subject of a run: the timeout of a confirmed transaction (the two queries of
a poll see the chain at two moments); and the signed transaction without the
witness its inputs need (the repository's outputs belong to key (1, 0), the
signature is that of key (0, 0)). The additional configurations show eleven
more.

Other observations made while modelling, each visible in a definition:

* two withdrawals for one stake address are both counted as implicit coin, while
  the body keeps the later one (`WithdrawalMap`);
* `submitTx` and `stakePoolStats` of the db-sync provider read keys the query
  does not ask for (`ReadKey`, `AskedKey`), and three more of its eight
  functions are not implemented: these five always reject, also when the node
  took the transaction;
* a Blockfrost error with a numeric code and no `errno` makes the conversion of
  the error throw a `TypeError` (`ToProviderError`);
* an error while the genesis configuration is fetched settles no promise
  (`Start`);
* `CertificateFactory` throws for a relay with an IPv6 address (`CanCreate`).

## 5. Fairness

`Fairness` in `Wallet` says that some microtask runs while there is one
(`Microtask`: promise reactions and listeners) and that timers fire (the event
loop), that the provider answers or rejects every request of a poll (HTTP
requests end), and that the chain grows. Weak fairness is enough: each of these
stays enabled until taken, apart from timers and replies that wait for
microtasks, of which there are finitely many. The chain can always grow past
every ttl of the instance (`MaxSlot` is larger), also after its rollback.
Nothing makes the provider answer well: it may fail every request. Nothing makes
a user call, a request succeed, or a rollback happen. `FairSpec` of `RoundRobin`
and `FairSelectSpec` only say that a synchronous loop and awaited constraints
make progress. `FairSpec` of `GoldenGenerator` says that the event loop runs the
handlers (`ToolStep`) and that the node goes on extending its chain and
answering (`NodeStep`); a connection that breaks rejects the promise, which ends
the sync too. Forks are bounded, as a chain that forks at every step never
reaches a height.

## 6. Proofs

| module | theorems | inductive invariant |
|---|---|---|
| `TransactionTrackerProofs` | `TypeCorrect`, `PollsAreRegistered`, `EntriesAreLive`, `TimeoutsAreFinal`, `TrackerImplementsConfirmation` | `IInv`, `TimeoutInv`, `PromiseInv` |
| `UtxoRepositoryProofs` | `NoLockLeaks`, `NoDuplicates`, `RewardsAccounted`, `RepoTypeCorrect`, `RepositoryIsOneReply`, `LocksAreLostOnlyBy`, `StaleBalancesAreReported` | `LockInv`, `RewardsInv`, `HistoryInv`, `HoldInv`, `BalanceInv` |
| `WalletProofs` | `WalletTypeCorrect`, `PollsAreHandledOnce`, `PendingInputsAreLocked` | `WalletInv`, `StockInv` |
| `SelectionProofs` | `RoundRobinTypeCorrect`, `DroppedTokensAreCovered`, `SelectionIsSufficient`, `NoUtxoLost`, `ChangeIsDivided`, `SelectTypeCorrect`, `SelectImplementsSelector`, `ChangeIsWorthAnOutput`, `GivesUpForLackOfFunds` | `SelectionInv`, `RoundRobinInv`, `SelectInv`, `ChangeInv` |
| `WalletProvidersProofs` | `EveryPoolIsFound`, `SubmittedIsAccepted`, `NotFoundIsHonest`, `ReportedWasUnspent`, `ReportedIsWhole`, `TalliesAreBounded`, `PoolsAreNotMissed`, `RewardsAreCountedOnce`, `HistoryIsComplete`, `ProvidersTypeCorrect` | `IInv`, `OutputsInv`, `RewardsInv`, `RegisterInv`, `OrderInv`, `ShapeInv` |
| `Cip30WalletProofs` | `AccessTypeCorrect`, `OnlyGrantedSites`, `GrantsRemembered`, `GrantsLostToOverlap`, `WalletImplementsAccess` | `IInv`, `StorageInv` |
| `StandaloneProofs` | of building: `ImplicitCoinIsRight`, `PlainBodyIsBalanced`, `BodiesExpire`, `BuildingTypeCorrect`; of the golden generator: `SnapshotsAreBalances`, `RecordedBlocksAreOfOneChain`, `CompletionIsFinal`, `EveryHeightIsAnswered`, `BalancesNeverGoNegative`, `GeneratorIsTyped`; of the prototype: `AddressesAreFresh`, `FundsAreCounted`, `WitnessesFit`, `ScansFindAnAddress`, `PrototypeTypeCorrect` | `BuildingInv`, `ValidityInv`, `GoldenInv`, `ViewsFollow`, `RecordInv`, `PrototypeInv`, `IndicesInv` |
| `SumTheorems` | lemmas only: what the other proofs need of sums and of folds over lists | - |

**Tracker.** `LivePollRegistered` alone is not inductive: `StartPolling`
preserves it only because a free entry means no live poll, and `Forget` because
the entry it deletes is that of the poll being cleaned up. `IInv` therefore
joins the types, `LivePollRegistered`, `PendingIsLive` and `ControlInv`, which
ties the stages of callers and polls together. The theorem on timeouts assumes
`MaxRollbacks = 0`, as a rollback takes the tip back; the others assume only
`LedgerAssumption` and `TrackerAssumption`. `TrackerImplementsConfirmation` maps
initial states to initial states and each step to a `Begin`, an `Answer` or a
stutter.

**Repository.** `LockInv` says that a waiting or resuming handler holds what it
locked and that a locked object has a holder. Unlocking removes exactly what the
handler holds; what another handler holds too goes with it, which is why the
invariant is an inclusion. The locked rewards are a sum over the handlers that
hold a lock: `RewardsInv` adds that each of them has a transaction, and a
handler that starts or ends inserts into or removes from the sum what it adds or
subtracts (`SumAdd`, `SumRemove`).

What the repository lists is what one merged reply listed (`MergeInv` in
`HistoryInv`), in whatever order replies are read and arrive: merging by
reference never mixes two of them. How old that reply is nothing bounds, so an
output that is spent may be listed again. `ReadInv` says how that comes about:
without rollbacks, what a reply lists is spent only in a block that is younger
than the reply.

What a handler has locked stays locked until it ends, with one exception: a
handler that ends unlocks everything it holds, also what another one needs
(`HeldInv` in `HoldInv`). And an object is dropped by a merge only if the reply
left its output out (`KeptInv`); when a later reply lists the output again, it
comes as a new object that nobody has locked. `LockedUnlessRelisted` follows:
these are the only ways in which an output that a waiting handler locked is
available.

A stale balance is reported: the last event in the queue is what the copies will
be when it has been delivered (`Reported`), each change of a balance emits one,
except unlocking, which starts a sync of its own (`BalanceInv`).

**Wallet.** Each step of `Wallet` is a step, or a stutter, of the tracker's and
of the repository's own specification (`TrackerSteps`, `RepositorySteps`). As
the wallet is made of their actions that says little by itself; it is the lemma
by which `WalletInv` and `StockInv` take over what was proved of each alone, and
the work is that what the components leave to their environment (the events, the
outcome of a poll, when `selectInputs` syncs) is in the wallet only what they
allow. `OneHandlerPerPoll` adds `AnnouncedInv` (a poll is announced while it
runs and before it is handled) and `EndingInv`: when a poll has settled and its
handler has not unlocked yet, no other microtask is left.

From the same it follows that a transaction is waited for exactly while its poll
runs, so that what the repository promises of a waiting handler is a promise
about the inputs of a pending transaction: `PendingLockedUnlessRelisted`, with
no assumption on the order of replies, on rollbacks or on what drafts share.

**Selection.** `DroppedIsCovered` needs the number of tokens and the place of
the iterator (`SelectionInv`), that entries are split between two lists, and
that quantities only grow when an entry is selected, which is the sum theory.
`SelectInv` carries sufficiency through the later stages: extra entries only
add. From it follow that nothing is lost however often the call starts over, and
that no divisor of change is zero: a requested asset has a positive quantity and
what is selected covers it.

`ChangeInv` carries through all stages that the bundles are well made
(`WellMade`): they add up to the excess for every token, they hold only assets
that are held, there are at most as many as outputs, and they are sorted. The
parts of the change computation each keep the total: a quotient loses less than
is there and the remainder goes to one bundle, leftover quantities that share a
bundle are added up, sorting permutes and merging adds. These are lemmas about
sums over the bundles. `SelectImplementsSelector` follows. The conversion to the
library's values keeps one asset of each policy, so what is lost is of an asset
that shares its policy with another one of the inputs (`SharesPolicy`), which
the theorem states as it is, and nothing is made; `Selection_policy.cfg` shows
the loss.

`ChangeIsWorthAnOutput` and `GivesUpForLackOfFunds` have a hypothesis each, and
they are what is true of the code. With a smallest coin quantity that is the
same for all bundles, as in the tests that state the two, any number of outputs
will do. With one that grows with policies, merging looks at the last bundle and
at the first only: a middle one may be too small (`Selection_mincoin.cfg`),
hence at most two outputs; and the first may be refused although, merged with a
last one that is not too small, it would do, hence at most one.

**Building.** `BuildingInv` says that the body is `BuildTx` of the selection,
that the selection consists of entries of the repository and balances with the
implicit coin (`SelectionIsMade`, `Balanced`), and that orders and request are
well formed. It says nothing about the fee of the final selection, as the code
ensures nothing (`change.ts:334`). The sums over certificates and withdrawals
that the code computes and those the library computes run over the same list,
apart from a stake address that is withdrawn from twice, which the property
excludes. `PlainBodyPreservesValue` covers the requests whose value the library
and the code agree on. `ValidityInv` adds that the interval is that of some tip,
which gives a body its last slot.

**Providers.** `IInv` says that each answer was true at a moment of the call
(`AnswersInv`) and that each request was one the call had to send, after those
it depends on (`RequestsInv`). A call that resolves has every answer it wanted
(`Complete`), so each property is a statement about moments. A tally is a sum
over full pages and one that is not full; the last page, at its moment, gives
the bounds. `RewardsAreCountedOnce` needs the order of two requests: outputs
that were reported are still made when the account is read (`OutputsInv`), which
a rollback during the call breaks, as does an output that two transactions make
(`OutputsAreUnique`). `PoolsAreNotMissed` needs the order of two listings: a
pool that was retired stays so (`RegisterInv`), and no page of active pools is
asked for once one of retired pools has been answered, so the latter shows all
that were retired when the former was read (`OrderInv`).

**Golden generator.** The answers in the pipe continue one another, starting at
the height of the view and ending at the node's pointer (`HeightsFollow`): so a
block is recorded at its height, also after a rollback, and what was recorded
there before is replaced.

The balances of the tool are what three nested loops make of the chain: over
blocks, transactions, and outputs or inputs. The loops are `FoldLeft` over
lists, and `FoldGoesThrough` says what such a fold is: a sequence of values, one
per element, each made of the one before by a step of the loop. So what holds at
first and is kept by a step holds at the end (`AfterEveryStep`), and no
induction rule is needed beyond the one for natural numbers that `SumTheorems`
derives from the least counterexample. What is kept is `AddsUp`: the balance of
each address is the sum of its unspent outputs, and `trackedTxs` lists the
transactions that made them. That a transaction only spends what is there comes
from the chains (`ViewsFollow`): what the answers in the pipe describe is always
a valid chain, as the node's is and every earlier state of it was. `RecordInv`
adds that each recorded snapshot is the balance of the blocks up to its height,
and that every requested height up to that of the view has one. All this is of
chains that were not rolled back: after a rollback the tool undoes nothing,
as `Golden_sync.cfg` with `BalanceAtBlockHeights` shows.

**Prototype.** `LedgerInv` bounds the addresses: a payment skips at most
`Spread` unused ones, so every transaction moves those in use by at most one
more, however the gaps add up. What a call knows (`CallFollows`) is stated of
any chain and any call, so that one lemma shows that it survives a payment
(`CallSurvives`). `FundsAreCounted` has no hypothesis. The scan stops at the
first batch whose last address is unused, and `deriveAddressSet` adds one batch:
what is counted is what lies within a batch of the first unused address
(`WithinReach`), and the theorem says that none of it is missed. An account with
several gaps, each smaller than a batch, may have funds beyond that, which are
not found (`Prototype_gaps.cfg`). `IndicesInv` adds that every index a call
holds is zero or right behind one a payment has reached, which bounds it.

**CIP-30.** `IInv` of `Cip30WalletProofs` joins the types, `EnabledWasGranted`
and `ServedCalls` (a call under way has a wallet object). It is enough for the
refinement: a call gets the API after `Enable` only if its site is in a list,
and lists hold granted sites only. The two theorems on storage assume nothing
about the order in which pages run. `StorageInv` says that of one wallet object
at most one call is between reading and writing (`WritersApart`); that what was
stored after a call had read the list, another wallet object wrote meanwhile
(`ReadThenOvertaken`, `OvertakersWrote`); that a list in memory names only sites
that are saved, being written, overwritten, or whose saving failed
(`MemoryIsStored`); and that a site given to a page is saved or was overwritten
(`GivenIsSaved`). So a grant is lost only where two wallet objects overlap.

Assumptions are the named `ASSUME`s of the modules, and TLC evaluates each in
some run: sets that sums run over are finite (`ValueAssumption`,
`BuildingAssumption`, `LedgerAssumption`, `ProviderAssumption`), bounds and
constraints are natural numbers (`LimitAssumption`, `MinCoinAssumption`,
`FeeAssumption`, `PrototypeAssumption`), `GeneratorAssumption` says that bodies
are lists of transactions and that a transaction lists each input once, and
`InstanceAssumption` says that requests and entries are parsed values (no asset
of quantity zero, coins not negative) and that `Utxo` is finite. Hypotheses of
single theorems are in their statements:

| hypothesis | theorems | what happens without it |
|---|---|---|
| `MaxRollbacks = 0` | `TimeoutsAreFinal` | the tip goes back behind the ttl |
| `MinCoinPerPolicy = 0`, or at most two (one) outputs | `ChangeIsWorthAnOutput` (`GivesUpForLackOfFunds`) | a middle bundle is too small |
| `OutputsAreUnique` | `RewardsAreCountedOnce` | no chain has an output made twice |

Only model-checked, and why:

* everything under fairness (`EveryCallSettles`, `EveryLockReleased`,
  `RoundRobinEnds`, `EverySelectSettles`, `SyncEnds`): liveness is beyond the
  prover.

What the two runs that expect a violation and the additional configurations
refute is, of course, not proved.

## 7. Limits

* The library behind the Blockfrost provider pages over several requests in
  `addressesUtxosAll` and `addressesTransactionsAll`
  (`blockfrostProvider.ts:119`, `:296`). It is not under `src/` and each is one
  answer here, true at one moment.
* `TransactionBuilding` has one output per request, entries that hold coins
  only, and at most one relay per pool; the fee of the final selection is not
  judged.
* What the properties of the repository, the CIP-30 wallet and the prototype
  except by name (`ListsOneReply`, `LockedUnlessRelisted`,
  `GrantsAreRemembered`, `FundsAreFound`) is what the code loses; the sections
  above say how.
* Bounds: `MaxSlot`, `MaxAccruals`, `MaxRollbacks`, `MaxUserSyncs` of the wallet
  and its ledger; `MaxEpoch`, `MaxEdits`, `PageSize` of the providers;
  `MaxReloads` of the CIP-30 wallet; `MaxHeight`, `MaxForks`, `InFlight` of the
  golden generator; `Quantity`, `Entry`, `MaxParts` of transaction building;
  `ScanGap`, `Spread`, `MaxTx`, `MaxOutputs` of the prototype; and the sizes of
  the constant sets. A call is made once; a caller that calls again is another
  element of `Call`.
* Quantities are unbounded integers, as they are `bigint` in the code.
* The size of a transaction and the smallest coin quantity are linear
  abstractions of what the serialization library computes.
* The order and the quality of a selection (how close a token comes to twice its
  target, how change is divided among the outputs) are modelled, but no property
  judges them.
* Not modelled: cryptography, encodings and the network; the browser extension,
  which passes each message on and keeps nothing; type declarations, generated
  documents and the type-graphql classes of `bcc-graphql`, which hold no
  behaviour; the stubs of `util-dev`; and of the prototype the remote wallet,
  the HTTP provider and the validators, which pass requests on.
* A provider call is alone: two calls share nothing, so each is judged against
  the history of the services during it.
