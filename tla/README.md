# A TLA+ model of the MultiversX – Ethereum RIDE bridge

The bridge moves one token between Ethereum and MultiversX. A user locks or
deposits tokens in a *safe* on one chain; a set of *relayers* reads the safe,
agrees on what has to happen, and makes the contracts of the other chain pay
out. This directory holds a TLA+ model of the contracts on both chains, of the
relayers in both directions, of the messages between relayers and of the process
a relayer runs in, TLC configurations for small instances, and TLAPS proofs, for
all instances, of the central properties of the contracts on both chains, of the
exchange of signatures and of the relayer's process.

## 1. Inventory

| Part | State | Operations | Interacts with |
|---|---|---|---|
| `rs/common/tx-batch-module` | window `first_batch_id .. last_batch_id` of batches, size and duration limits, last nonce | add one / several transactions, clear first batch, set limits, show the current batch | included by EsdtSafe and MultiTransferEsdt |
| `rs/esdt-safe` (+ token, fee estimator, max amount modules) | balances, refunds owed, collected fees, configuration | `createTransaction`, `claimRefund`, `setTransactionBatchStatus`, `addRefundBatch`, `distributeFees`, settings | owned and called by Multisig; asks the price aggregator |
| `rs/multi-transfer-esdt` | refund batches, limits | `batchTransferEsdtToken`, `getAndClearFirstRefundBatch`, settings | owned and called by Multisig; calls wrapper and swap contracts |
| `rs/multisig` | board, stake, quorum, actions with signers, two maps from batch to action ids, last executed Ethereum batch and deposit | propose (two kinds), sign, perform, stake, unstake, board and quorum changes, pause, move refunds | called by relayers; calls EsdtSafe and MultiTransferEsdt |
| `sol/contracts/ERC20Safe.sol` | batches of deposits, books per token, service fees, limits, whitelist | `deposit`, `transfer`, `initSupply`, `recoverLostFunds`, `claimServiceFees`, settings | called by users, admin and Bridge.sol; calls ERC20 tokens |
| `sol/contracts/Bridge.sol` (+ RelayerRole) | relayers, quorum, executed batches and their statuses | `executeTransfer`, relayer and quorum changes, views | called by relayers; calls ERC20Safe |
| `bridgeExecutor.go` | stored batch, action id, message hash, three retry counters | what the steps of both directions call | uses both clients, the signatures holder, the leader selection, the validator |
| relayer, Ethereum → MultiversX | current step | five steps | `bridgeExecutor.go` |
| relayer, MultiversX → Ethereum | current step | ten steps | `bridgeExecutor.go` |
| MultiversX client, data getter, transaction handler, token mappers | availability counter | queries, `ProposeTransfer`, `ProposeSetStatus`, `Sign`, `PerformAction` | Multisig, EsdtSafe |
| Ethereum client, chain wrapper, ERC20 holder | availability counter | queries, `BroadcastSignatureForMessageHash`, `ExecuteTransfer` | Bridge.sol, ERC20Safe, broadcaster, gas station |
| P2P broadcaster, signatures holder, role providers | nonces per sender, stored signatures, cached whitelists | process join / sign message, broadcast, poll, clear | between relayers |
| leader selection | clock slot, list of known relayers | `MyTurnAsLeader` | asked by the steps |
| gas station | latest price, retry counter | polling loop, `GetCurrentGasPrice` | asked by the Ethereum client |
| status handlers, metrics holder, facade, REST API | metrics in memory, queued and in the database of a storage unit | set, add, save, flush, load, list | written by clients and state machines |
| factory, main | polling and closable handlers | create, start, join loop, close | owns everything above |
| bridged-tokens-wrapper, wesdt-swap, deposit-wrapper | liquidity per token | wrap, unwrap, swap | behind the payout on MultiversX |
| price aggregator, configuration, converters, generated bindings | – | – | – |

**What is hard here.**

* *Interleaving*: several board members propose different lists for the same
  batch, sign each other's proposals, and perform one of them, while the owner
  changes board, stake and quorum. Two relayers can be leader at once.
* *Ordering and staleness*: every relayer reads its data in separate calls and
  acts later by a transaction whose outcome it does not wait for; signatures are
  collected, cleared and cut down to the quorum while relayers come and go.
* *Agreement of two chains on batch boundaries*: Ethereum decides with two
  block limits when a batch is closed and when it may be read; MultiversX
  decides with a size, a duration and a finality distance, and a batch may grow
  between its execution on Ethereum and the report of its statuses.
* *Partial failure*: a payout may be refused for one transfer, revert the whole
  batch, or turn into a refund that travels back through three contracts.
* *Failures*: restarts, lost transactions, lost, repeated, reordered and forged
  messages, failing queries, refused batches, paused contracts, a chain that is
  stuck, a price service that does not answer.

What makes the parts correct: tokens are conserved in each safe; every transfer
is executed once, in order and unaltered on the other chain, although up to
quorum − 1 relayers are faulty; a MultiversX batch is settled exactly as Ethereum
executed it; nothing stale can be performed; a quorum stays obtainable; every
final batch is eventually executed; a relayer restarts without loss.
`PROJECT.json` lists the hazards with the line where each of them bites and the
properties aimed at it.

## 2. Modules

| Module | Models |
|---|---|
| `TxBatch` | the tx-batch module as operators on a record with its storage; the block counter; `is_above_max_amount` |
| `EsdtSafe` | EsdtSafe, alone (`SafeSpec`) or as part of `Multisig` |
| `MultiTransfer` | MultiTransferEsdt; only as part of `Multisig` |
| `Multisig` | the three MultiversX contracts together (`Spec`), with board members that may do anything the endpoints allow |
| `ERC20Safe` | the Ethereum safe |
| `EthBridge` | the two Ethereum contracts together (`EthSpec`), with arbitrary signers |
| `MultiversXClient` | on top of `Multisig`: the queries with their encoding of answers, building batches, token mappers, sending transactions, and the network that executes them |
| `EthereumClient` | on top of `EthBridge`: queries, message hash, signatures collected and chosen, the checks before `executeTransfer`, delivery of signatures and execution of transactions |
| `BridgeExecutor` | on top of both clients: the memory and the calls of `bridgeExecutor.go`, leadership, failures |
| `HalfBridge` | abstract: what one direction of the bridge promises |
| `EthToMultiversX` | relayers running the five steps, with all contracts (`HalfBridgeSpec`, `FairHalfBridgeSpec`) |
| `MultiversXToEth` | relayers running the ten steps, with all contracts (same names) |
| `SignatureExchange` | abstract: what the half bridge needs of the messages between relayers |
| `Broadcaster` | broadcaster, nonce table, message handler, signatures holder, role providers (`BroadcasterSpec`) |
| `GasStation` | the gas station as operators and three variables |
| `StatusHandler` | status handlers, storage unit, metrics holder |
| `RelayerProcess` | the process: factory, start, loops, close, restart, with `GasStation` and `StatusHandler` (`ProcessSpec`) |
| `MCEsdtSafe`, `MCMultisig`, `MCEthBridge`, `MCEthToMultiversX`, `MCMultiversXToEth`, `MCBroadcaster` | constants for TLC |
| `DataLemmas` | lemmas about data of any size: induction, sums, flattened sequences |
| `MultisigProofs` | theorems about `Multisig`: its storage and board, its actions, the funds it decides on |
| `EsdtSafeProofs` | theorems about `EsdtSafe` with `TxBatch` |
| `EthBridgeProofs` | theorems about `EthBridge` with `ERC20Safe` |
| `BroadcasterProofs` | theorems about `Broadcaster`, with the refinement of `SignatureExchange` |
| `EthToMultiversXProofs` | theorems about `EthToMultiversX`, with the refinement of `HalfBridge` |
| `MultiversXToEthProofs` | theorems about `MultiversXToEth`, with the refinement of `HalfBridge` |
| `RelayerProcessProofs` | theorems about `RelayerProcess` with `GasStation` and `StatusHandler` |

`Multisig` extends `EsdtSafe` and `MultiTransfer`, which extend `TxBatch`;
`EthBridge` extends `ERC20Safe`. The two half bridges are therefore compositions of
the very contract modules that are checked and proved alone.

**Correspondence.** One action per endpoint, function or step. A call that
fails a `require` or an arithmetic check reverts, on both chains, so the
conditions of a function *and of every contract it calls* are the guard of its
action and all effects happen together: `PerformBatchTransfer` is the
multisig's `perform_action` with `batch_transfer_esdt_token` inside,
`MoveRefundBatchToSafe` spans all three MultiversX contracts, and
`ExecuteTransfer` runs every `safe.transfer` of the batch.

Abstractions, by module:

* `TxBatch`: batches are sequences of records; Ethereum addresses and events
  are left out.
* `EsdtSafe`: one token. The fee the price aggregator computes is any member of
  `RequiredFees` at every call. Percentages are of `MaxPercentage` (10 in the
  instances, 10000 in the code), with the code's rounding. `lockedForever` and
  `settled` are history variables.
* `MultiTransfer`: the reasons to refuse a transfer are a set of invalid
  recipients, the mint role, the limit and a set of frozen accounts. The
  wrapping contract is called for every batch and the swapping contract for
  every payment; `payout` says which of them refuses. `delivered` and
  `refunded` are history variables.
* `Multisig`: an action is a record; the two storage maps from (batch, hash or
  statuses) to action id are sets of entries, which the uniqueness check in the
  propose endpoints makes functions. `CurrentBatchLen` keeps the division by
  `TX_MULTIRESULT_NR_FIELDS`. `executedEthTxs` is a history variable.
* `ERC20Safe`: `erc20Balance` stands for the external token contracts. A token
  may refuse a recipient. Fees are in token units. `supplied`, `gifts` and
  `recovered` are history variables.
* `EthBridge`: a signature is the pair of signer and message, so all of them are
  well-formed; one that is for something else counts for nobody. Bytes that are no
  signature make `_recover` revert the whole `executeTransfer`, which is no step.
  Honest relayers never submit such bytes: `VerifyEthSignature` fails on them.
  `executions` is a history variable.
* `MultiversXClient`: a query answers from the state of the contracts at that
  moment. The encoding of Booleans and numbers is kept where an empty answer has
  a meaning (false, 0). Transactions of a relayer wait in a queue and are executed
  in nonce order; one that the contract refuses has no effect. A user sends to a
  fixed Ethereum address.
* `EthereumClient`: a message hash is the message itself. Signatures are chosen
  as any subset of quorum size: Go ranges over a map. A relayer has one Ethereum
  transaction under way, because the nonce is taken from the latest block. A
  restarted relayer is sent what the others hold. Gas is left to `GasStation`.
* `BridgeExecutor`: leadership is a free choice among the staked relayers. A
  failing call sends every step but the first to the first step. Waiting for a
  confirmation or for final statuses is one step that ends with either outcome.
* `EthToMultiversX`: step 1 is split in two actions where it reads MultiversX a
  second time; the other steps decide on one read each.
* `MultiversXToEth`: each step decides on one read of each chain and is one
  action, except step 6, which is split where it waits: `FetchBatchAgain` reads the
  number of deposits on MultiversX, `ResolveSetStatus` the final statuses on Ethereum
  later. `settlements` is a history variable.
* `Broadcaster`: a message that was sent stays deliverable for ever, to anyone,
  any number of times; a forged message is one whose signature does not verify.
  The Ethereum signature inside a message has a signer of its own, since the code only
  asks for a known one: a relayer may send a signature of another as its own message.
  `MaxForged` bounds both kinds together.
  The counter that starts from the clock is modelled by its order: it is ahead of
  every message the relayer has sent before, as long as the clock does not go back.
  The two providers know nobody until they are polled. A message that the antiflood
  check refuses has had its nonce remembered already and cannot be accepted later.
* `RelayerProcess`: the steps of the state machines are reduced to what they do to
  clients, metrics and gas price. At most one handler fails to close at a time; it
  then may go on running.
  `outlived`, `result`, `lastAnswer`, `unsaved` and `atFlush` are history variables.
* `StatusHandler`: the storage unit queues what is put and writes the whole batch at
  any later moment, or loses it (`FlushBatch`, `FlushFails`); the end of the process
  drops the queue. When in `BatchDelaySeconds` the flush happens is left open. A `Get`
  that fails for a stored entry is not modelled.

Every definition that models code has its source lines in the `map` of
`PROJECT.json`. Operators whose comment starts with "Mutant of" are not part of
the model: each is a plausible mistake in the definition after it, and breaks
the property that `mutants` names for it.

## 3. Runs

| Run | Question | Result |
|---|---|---|
| `esdt_safe` | Are tokens conserved and transactions kept in order in the MultiversX safe, whatever its owner does? | holds |
| `multisig_transfers` | Are Ethereum deposits executed once and in order, and each paid out or refunded once, with competing proposals and a changing board? | holds |
| `multisig_statuses` | Do competing status proposals settle the right batch, with tokens conserved across contracts? | holds |
| `multisig_six` | Does a proposal have one status per transaction when the batch has six? | violated: 7 statuses wanted |
| `eth_bridge` | Are nonces gapless, is a readable batch fixed, do the books balance, is the safe solvent, does only a quorum move tokens? | holds |
| `e2m_faulty` | Does the Ethereum → MultiversX half implement `HalfBridge` with a faulty board member? | holds |
| `e2m_liveness` | Is every final Ethereum batch eventually executed? | holds |
| `m2e_faulty` | Does the MultiversX → Ethereum half implement `HalfBridge`, and is every batch settled as Ethereum executed it, with a faulty relayer? | holds |
| `m2e_growth` | Is a batch still settled as Ethereum executed it when it grows after its execution? | holds |
| `m2e_liveness` | Is every closed MultiversX batch eventually executed and settled? | holds |
| `gossip` | Do relayers hold only signatures their signers made, do cleared ones stay cleared, is every new message new to all? | holds |
| `services` | Does a relayer process keep its price current, the metrics of its last flush over restarts, report a stuck chain, and close what it polls? | holds |

**The violation.** `TX_MULTIRESULT_NR_FIELDS` is 6 although a transaction is
returned as 7 values. Up to five transactions the division still rounds to the
right number; from six on the multisig and the safe want different numbers of
statuses and the batch can never be settled. The default batch size is 10.
It is described under `findings` in `PROJECT.json`.

**Met while modelling**, in the model as the code has it, without a run of its own:

* Fullness of a batch is `len == max`, so that a batch longer than a lowered
  limit is open again and grows (`docs/tech_docs.md:387` says transactions beyond
  the limit roll over). This is one way in which a batch grows in `m2e_growth`'s
  sense.
* `recoverLostFunds` counts stored service fees as lost funds, and `serviceFees`
  is one counter although several tokens may be whitelisted. `eth_bridge` has one
  token.
* The gas station is never closed although `Close` is said to "close any
  sub-components started" (`factory/ethMultiversXBridgeComponents.go:786`), nor are
  the messenger and the status storer; the join loop's `cancelFunc` is set inside
  its goroutine, so a `Close` right after `Start` misses it. `CloseIsComplete`
  excuses the gas station, the part whose own `Close` failed, and the join loop as
  long as `cancelFunc` is not set.
* Since nobody closes the status storer, metrics put in the last `BatchDelaySeconds`
  (2 in `config.toml`) before the process ends are lost, after a clean signal as well
  as after a kill. `RestartKeepsMetrics` therefore speaks of the last flush.
* The Ethereum client writes its availability under the MultiversX metric names,
  in its own handler (`clients/ethereum/client.go:424`); `StuckChainIsReported` is
  stated with the names that are written.
* The availability counter of a client is advanced by both state machines, so a
  chain counts as stuck after half the time.

**Bounds.** Bounds are constants and stand in guards: `MaxTx`, `MaxBlock`,
`MaxActions`, `MaxTransfers`, `MaxStatuses`, `MaxEthTx`, `MaxStake`,
`MaxDeposits`, `MaxGifts`, `MaxEthBlock`, `MaxSignatures`, `MaxMempool`,
`MaxFailures`, `MaxNonce`, `MaxForged`, `MaxRestarts`, `MaxCount`, `MaxBlocks`,
`MaxStarts`, `MaxFaults`, `GrowingChains`. They are chosen so that the interesting cases happen:

* `esdt_safe`: three transactions, two users, sizes 1 and 2, two blocks with a
  finality distance of 1: rollover by size and by age, the only batch and one of
  several batches cleared, refund transactions between ordinary ones, fees that
  do not divide evenly.
* `multisig_transfers`: two relayers with quorum 1 or 2, three actions, up to two
  transfers each: two competing proposals and a third after one of them was
  performed; leaving, slashing and restaking in between; payouts refused by a
  limit, a frozen account or a payout contract.
* `multisig_statuses`: quorum 2, batches of up to two transactions, three
  proposals over two batches, a refund travelling from an Ethereum transfer into
  the safe's batch. Size and duration stay fixed: `PendingStatusesFitBatch` does
  not survive a change of either while a proposal is pending, as the
  documentation of the setters leads one to expect. It also relies on fewer than
  six transactions (see `multisig_six`).
* `eth_bridge`: two deposits over three blocks, block limits 1 and 2, settle limits
  1 and 2, fees of one half, a gift, recovery, lists of one and two
  transfers of which one may be refused and which together may exceed the books; an
  account entering and leaving the relayer set, a quorum of 1 to be set to 0 and 2, at
  most two signatures, so a repeated or outdated one is needed to cheat the quorum.
  The settle limit is raised too: a batch that is thereby not final any more may take
  deposits again, which the contract does not exclude, and `FinalBatchesAreFixed` says
  that this is the only way.
* `e2m_faulty` (466400 states): two honest relayers and one faulty board member
  with quorum 2, two deposits, batch size 2, one failure of any kind, one
  transaction under way per relayer, the multisig paused and unpaused at any time.
  A deposit may arrive in every block until the batch is final.
* `e2m_liveness` (79064): two relayers, quorum 2 (so both are needed), two batches,
  two transactions under way, one failure.
* `m2e_faulty` (264896): one honest and one faulty relayer with quorum 2 on both
  chains, one transaction, two proposals of statuses, one failure of any kind, the
  faulty one removed from the Ethereum contract at any time, a recipient whom the
  token may refuse. The faulty one signs the right transfers or others, submits
  every signature twice and proposes any statuses. One honest relayer suffices:
  what is tested is that nothing happens without it or against what it has seen.
* `m2e_growth` (500280): two transactions, the batch size changing between 1 and 2
  at any time, so that a batch is executed with one transaction and has two when it
  is settled.
* `m2e_liveness` (104483): two honest relayers that are both needed on both chains,
  one batch, no failures: with failures the graph is too large for the liveness
  check. Retries that run out, two leaders, stale batches and cleared signatures
  happen without any.
* `gossip` (663048): two relayers, one message hash, two messages each, one that is
  forged or has a signature of another, and one restart: a join message overtaking a signature, a signature sent
  again after a join, a peer that has forgotten its nonces. Whether one hash
  appears in several batches makes no difference to the nonces.
* `services` (171230): two starts, one chain that grows (the other is stuck from the
  beginning), one fault, one price within the maximum (other prices, also above
  it, only in `PriceIsNeverOutdated`), a flush at any time of the first
  process (what the last one writes is never read), two retries.

Deadlock is not checked: every instance stops when its bounds are used up, and a
bridge with no deposits has nothing to do. What must happen is stated by the
liveness properties. Symmetry is used over users and over relayers, in runs
without liveness.

**Refinement.** `ImplementsHalfBridge` maps `handedIn` to what users asked for on
one chain and `handedOut` to what the other chain was made to execute: deposits of
all Ethereum batches and `executedEthTxs`; settled and queued transactions of the
safe and the transfers in `executions`. Every step of the detailed specification is
then a `HandIn`, a `HandOut` of a prefix, or a stutter. `ImplementsExchange` maps
`made` to the authentic signatures sent and `held` to the holders' contents; it is
what `EthereumClient` assumes of the delivery of signatures. For `m2e_growth` the
refinement is not claimed: a transaction that joins an executed batch is refunded,
not executed.

**Fairness.** In both half bridges: weak fairness for each honest relayer's steps,
since `stateMachine.Execute` is called by a polling loop without end, and for the
execution of transactions and the delivery of signatures that are not lost. Weak
fairness for acting as the leader where the relayer stays in the step until it is
its turn; in `MultiversXToEth` strong fairness for the two steps that it leaves and
re-enters when it is not (`PerformTransferAsLeader`, `ProposeSetStatusAsLeader`):
the selector hashes the number of the time slot, so each relayer gets its turn
again and again. Weak fairness for MultiversX blocks, since a batch closes by age.
Nothing is assumed about deposits, failures or faulty members. Losses, failing
queries and restarts are bounded by `MaxFailures`: a network that loses everything
makes no progress. In `RelayerProcess`: the gas station's loop keeps running and the
service answers again and again; one state machine at least keeps coming back to
its first step, which is what `RelayersStartOver` of the half bridges shows, and
makes a check without a fault there.

## 4. Proofs

Everything here is proved for every value of the constants that satisfies the named
assumptions of the modules: types of the parameters, limits that are not 0, finite
sets of accounts.

**The multisig** (`MultisigProofs`; `Spec`):

* `MultisigTypeCorrect`: `[]MultisigTypeOK`;
* `QuorumStaysWithinBoard`: `[]QuorumWithinBoard`. The counter
  `num_board_members` changes exactly when membership does; finiteness of
  `Relayers` gives the cardinalities;
* `DepositsExecutedOnceInOrder`: `[]EthTxsExecutedOnceInOrder`;
* `NoStaleProposals`: `[]PendingActionsAreCurrent`;
* `MappingsAlwaysMatch`: `[]MappingsMatchActions`.

The last three rest on one inductive invariant, `ActionsInv`, together with
`MultisigTypeOK`: none of them is inductive alone. Its parts are the shape of
the safe's record, finiteness of the two maps, and the three properties. The
argument, in `perform_action`: every pending action of the kind performed is for
the same batch (`PendingActionsAreCurrent`), hence all of them are in the map for
that batch (`MappingsMatchActions`). If there are two, the map has two entries
(`TwoMembers`), so the branch `len() > 1` clears all of them
(`TransfersClearedTogether`, `StatusesClearedTogether`); if there is only one it
has been cleared already. So no action of that kind is left when the last
executed batch, or the safe's first batch, moves on. The performed transfers
continue the executed ones because `require_valid_eth_tx_ids` was checked against
a counter that has not moved since (`ExecutionContinues`). Everything else keeps
the invariant because it touches neither the actions nor the counters, and the
safe's users never move `first_batch_id` (`SafeKeepsFirstBatch`,
`OtherStepsKeepInv`).

**The safe on MultiversX** (`EsdtSafeProofs`; `SafeSpec`), all from one inductive
invariant, `SafeInv`:

* `EsdtSafeTypeCorrect`: `[]SafeTypeOK`;
* `SafeIsCovered`: `[]SafeConservation`;
* `SafeSettlesInOrder`: `[]SafeQueueInOrder`.

`SafeInv` adds to the types that the batches are a *window* (`Window`): nothing is stored
behind `last_batch_id`, and the window has moved by at most one batch per transaction,
so that it never leaves the identifiers in use. It states the other
two properties over the queue the window spells out, `Queue(safe)`: `SafeOrder` (what is
settled and then what is queued count from 1) and `SafeBalanced`. The lemmas under it
say what the operations of the tx-batch module do to that queue, for any batch sizes:
`add_to_batch` appends one transaction, whether it opens a batch or not (`AddingOne`),
`add_multiple_tx_to_batch` appends all of them in order (`AddingMany`), and
`clear_first_batch` removes exactly what `get_first_batch_any_status` returned
(`ClearingFirst`). On the tokens: what is held is additive over the queue
(`HeldConcat`, `HeldSplit`), what a settled batch credits is what it held
(`CreditedIsHeld`), refund batches add nothing (`RefundsHoldNone`), and the shares of
`distribute_fees` never add up to more than the fees (`SharesAreCovered`).

**The funds under the multisig** (`MultisigProofs`; `Spec`). The multisig owns the
safe and the multi-transfer contract; here they are driven by its actions instead of by
a free owner:

* `DepositsDeliveredOrRefunded`: `[]EthTxsDeliveredOrRefunded`;
* `OwnedSafeIsCovered`: `[](SafeTypeOK /\ SafeConservation)`;
* `OwnedSafeSettlesInOrder`: `[]SafeQueueInOrder`;
* `StatusesFitTheirBatch`: `[]PendingStatusesFitBatch`, when the owner changes neither
  batch size nor duration (`BatchSizes` and `BatchDurations` have one member) and the
  size is at most 5. The code needs all three: a new size or duration reopens a closed
  batch, and six transactions are counted as seven (the run that is violated).

The first three follow from `FundsInv`, beside `MultisigTypeOK` and `ActionsInv`. It is
`SafeInv`, that no pending list of statuses is empty (`StatusesNotEmpty`), and
`RefundsInv`: the refund batches are a window, as in the safe; every executed deposit is
in one of the two histories; and the refunded nonces end with those that wait. In
`batch_transfer_esdt_token` each transfer is put on exactly one of two lists
(`PickedOrNot`), the nonces continue after the last executed one (`ActionsInv`), and the
refunds join the end of the queue (`AddingMany`); `get_and_clear_first_refund_batch`
takes the front (`ClearingFirst`). `StatusesNotEmpty` is needed because
`set_transaction_batch_status` with no statuses would accept an empty first batch and
move the window past it; it holds because the batch a proposal is made for has a
transaction (`CurrentBatchNotEmpty`).
`StatusesFitTheirBatch` adds `FitInv`: no batch is longer than the size, and while a
list of statuses is pending the first batch is closed and as long as the list. A closed
batch is left alone by deposits and by moved refunds (`AddingOneFits`,
`AddingManyFits`, `SafeStepFits`) and does not open again as blocks pass
(`ClosedStaysClosed`); when it is cleared, no list is left
(`StatusesClearedTogether`).

**The Ethereum contracts** (`EthBridgeProofs`; `EthSpec`). All seven properties of the
run `eth_bridge`:

* `SafeTypeCorrect`, `BridgeTypeCorrect`: both type invariants. `tokenBalances` stays a
  natural number within an `executeTransfer` that pays one token several times:
  induction over the steps of its loop (`TransferSteps`).
* `ExecutionsHaveQuorum`: `ExecutionHasQuorum`.
* `FinalBatchesStayFixed`: `FinalBatchesAreFixed`. Needs `LimitsOrdered` (the block
  limit is at most the settle limit, although each has a setter of its own) and
  `BatchesInTime` (no batch is younger than its last deposit, and the last of them is
  the only one that may be open).
* `DepositsStayInOrder`: `[]DepositsInOrder`, from `NoncesCount` (the nonces of the
  flattened batches are counted without gap) and `BatchesInTime`.
* `SafeStaysSolvent`: `[]SafeIsSolvent` when one token is bridged, from
  `TokensAccounted`: what the token contract shows for the safe, with what was
  recovered, is what is booked, with fees and gifts. With a second token it is false,
  as its comment says.
* `BooksStayBalanced`: `[]BooksBalance`, from `BooksInv`: sums over batches, their
  deposits and executions of any length.

**The Ethereum to MultiversX half bridge** (`EthToMultiversXProofs`; `HalfBridgeSpec`,
with deposits, settings of the safe, the relayers of whom fewer than `InitialQuorum` are
faulty, both networks, losses, failures and restarts):

* `RelayersTypeCorrect`: `[]RelayersTypeOK`;
* `BatchesAlwaysExecutedWhole`: `[]BatchesExecutedWhole`;
* `HalfBridgeKept`: `ImplementsHalfBridge`, the refinement of `HalfBridge`.

All three come from one inductive invariant, `HalfBridgeInv`. On Ethereum it has the types
of the safe, `LimitsOrdered` and `BatchesInTime`, from which a *final* batch never changes
again (`FinalStay`, `EthereumStep`), and that each deposit is a transfer the multisig can be
asked for. For the relayers (`ExecutorsOK`, `MempoolOK`) it says that what a relayer has
stored, proposed or signed is a final batch as Ethereum has it, however stale it is. For the
multisig it adds to `MultisigTypeOK` and `ActionsInv` (see above) `VotesOK`: an action that
an honest relayer has signed is cleared or `Good`, that is, it executes a final batch as it
is; and `ExecutedOK`: what was executed is the concatenation of the first
`lastExecutedEthBatchId` batches. The argument, in `PerformKeeps`: an action that can be
performed has a quorum of signatures, more than there are faulty relayers, so an honest one
(`QuorumHasHonest`), so it is `Good`; and it is for the next batch, as every pending
action is. So the next final batch is appended as it is, which `FlattenFront` turns into a
prefix of all deposits. That deposits only join the end, also when a deposit joins the
open batch instead of opening one, is `AskedComesLast`. The relayers' steps are taken one
by one in `RelayerSteps`; each stores what was just read or passes on what was stored.
An honest relayer's transaction is executed with `IF ENABLED`; the proof does not look into
`ENABLED`: either way the transaction takes effect or changes nothing.

**The MultiversX to Ethereum half bridge** (`MultiversXToEthProofs`; `HalfBridgeSpec`, with
users, a changing batch size, relayers that are removed on Ethereum, fewer faulty ones than
either quorum, both networks, losses, failures and restarts):

* `RelayersTypeCorrect`: `[]RelayersTypeOK`;
* `SettledAlwaysAsExecuted`: `[]SettledAsExecuted`, also when a batch grows after it was
  signed or executed;
* `HalfBridgeKept`: `ImplementsHalfBridge`, the refinement of `HalfBridge`, when
  `BatchSizes` and `BatchDurations` have one member (`SettingsFixed`) and the token is
  mapped to a token of Ethereum. Without the first it is false: see `m2e_growth`.

All three come from one inductive invariant, `HalfBridgeInv`. The safe's batches up to the
first one have a history: those settled and the one being bridged (`BatchOf`). `AskedFor`
says of a list of transfers that it is what such a batch holds, or what it held when it was
read; it stays true because a batch only grows at its end (`BatchesStay`, `AskedStays`) and,
while the settings stay, does not grow once it is closed (`ClosedStays`). Everything an honest relayer has stored
(`ReadBatch`) or signed for Ethereum (`SignaturesOK`) is `AskedFor`, hence everything
Ethereum has executed (`ExecutionsOK`): an execution needs the quorum, more signers than are
faulty, so an honest one (`QuorumIsAsked`). In the other direction, the statuses a relayer
reports are those Ethereum answers for the batch it has in mind (`Resolved`,
`ReportIsTrue`). They are as many as the deposits counted before the wait (`Resolving`): the
batch was executed by then, with no more transfers than it has now, so none is cut
off, unless it was settled in between (`FetchedIsEnough`). If that batch is stale, it was settled before, the multisig refuses the
report, and nothing need be known of it. An action that an honest relayer has signed is
cleared or `Good`: it settles its batch with what Ethereum did (`VotesOK`,
`QuorumIsGood`). So a settled batch has an execution (`TrueIsSettled`, `SettlingKeeps`).
`ActionsInv` and `SafeInv` (see above) say that the action performed is for the first batch
and what clearing it does to the queue. The relayers' steps are taken one by one in
`StepsToEthereum`, `StepsToMultiversX`, `StepsOnNetwork` and `FailuresKeep`.
`HalfBridgeStep` also says what a step does to the transactions asked for and to those
paid (`ChainStep`): nothing, a user's call, one more batch settled, or one more paid. The
refinement adds `WholeInv` to the invariant: the executions are those of the batches 1, 2, 3 and so
on, and what they paid is what was settled, or that and the whole first batch. A
transaction is then a `HandIn` (`UserHandsIn`), a payment a `HandOut` (`PaymentHandsOut`),
and settling moves transactions from the queue to the history without changing what was
asked for (`SettlingHandsNothing`). The assumption `MultiversXToEthAssumption` says
what a deployment needs: fewer faulty relayers than the quorum of Ethereum,
recipients and a token that exist there, and statuses the multisig can be asked for.

**The exchange of signatures** (`BroadcasterProofs`; `BroadcasterSpec`):
`BroadcasterTypeCorrect`, `NobodyIsAheadOfSender`, `ClearedSignaturesStayCleared` and the
refinement `BroadcasterImplementsExchange`, all from `ExchangeInv`: every message in
flight has a nonce its sender has reached, what is held was made, and what is held or
was cleared has a nonce that is remembered. A relayer that sends a signature of another
makes nothing new: that signature was in an authentic message before.

**The process of a relayer** (`RelayerProcessProofs`; `ProcessSpec`):

* `PriceIsNeverOutdated`: `[]NoOutdatedPrice`, from `PriceInv`: a price that is offered
  is the last answer.
* `CloseStaysComplete`: `[]CloseIsComplete`, from `LoopsInv`: every loop that runs is a
  polling handler, all of which are closable, or one of three the process starts
  itself, in every phase of creating and starting.
* `MetricsSurviveRestarts`: `RestartKeepsMetrics`, from `MetricsInv`: the database has
  what each handler showed at the flush recorded in `atFlush`; a queued write is what its
  handler shows now, and a handler with nothing queued and nothing lost shows what the
  database has. It needs `HandlersInv`: no loop writes metrics before all handlers
  exist, because the constructor creates them in order.
* `ServicesTypeCorrect`: `[]ServicesTypeOK`.

**Data of any size** (`DataLemmas`). The library's induction theorems take an operator as
a parameter and cannot be used; here induction is over sets, which are first-order:
`NatSetInduction` follows from the well-foundedness of `<`. From it follow the existence
of the recursive functions that the community modules' sums and `FlattenSeq` are defined
by, and what they compute for every input.

Only model-checked: liveness (`FinalBatchesAreExecuted`, `ClosedBatchesAreSettled`,
`RelayersStartOver`, `PriceComesBack`, `StuckChainIsReported`), because fairness is stated
with `ENABLED`, which the prover does not handle. Every other property of a passing run is
also a theorem.

## 5. Not modelled

`components` in `PROJECT.json` lists every part with the reason. In short: several
tokens on MultiversX, token id mapping and child upgrades are left out of the
contracts; wrapper and swap contracts appear only by their refusals; the leader hash
is a free choice with fairness; converters, configuration, price aggregator and
generated bindings carry no bridge logic. Test stubs and mocks are not part of the
system.

## 6. Plan

1. Modelling: `TokensWrapper`, `WesdtSwap` (liquidity and decimals, replacing
   `payout`); several tokens in the safe.
2. The refinement of `HalfBridge` by the MultiversX to Ethereum half with a batch size that
   changes, for an abstract specification in which transfers may also be refunded.
