# A TLA+ model of the DECENT node

This directory holds TLA+ specifications of the blockchain node in `src/`
(a C++ node descended from graphene: `libraries/chain`, `libraries/db`,
`libraries/net`, `libraries/plugins`, ...), the TLC configurations that check
them on small instances, and TLAPS proofs of the properties that matter most.
The specifications are translated from the code. Where a comment, an assertion
or a test of the repository says something the code does not do, that is
recorded as a finding or under *Further disagreements*.

## 1. The system and its parts

A node keeps one in-memory **object database** (accounts, balances, contents,
buyings, miners, proposals, ...). Every change is recorded in an **undo
history**, so that a block or a pending transaction can be taken back. The
**chain database** applies blocks and transactions to it, keeps competing
blocks in a **fork database** and the blocks of its own chain in a **block
database** on disk. **Evaluators** say what each operation does; at regular
intervals a block performs **maintenance**: votes are counted, parameters
change, what has expired is settled, a new budget is made. **Plugins** react to
applied blocks (seeding, histories) or drive the node (the miner). A **peer to
peer node** brings blocks and transactions in and out, and **APIs** and the
**wallet** sit on top.

| Part | State | Operations | Talks to | What is hard | What makes it correct |
|---|---|---|---|---|---|
| object database, undo history (`libraries/db`) | indexes, next ids, deque of undo states, open sessions, size limit | create, modify, remove; session open, undo, merge, commit; pop_commit; set_max_size | everything under `chain` | nested sessions merged and undone in any order; trimmed history; exceptions in a destructor | an undo state is the exact way back to where it was opened |
| fork database | tree of recent blocks, head, size limit | push, pop, set_head, remove, fetch_branch_from | chain database | unlinkable, repeated and old blocks, a head that was removed | the longest branch is found; the chain's head can be extended |
| chain database (`db_block.cpp`, `db_update.cpp`) | head, last irreversible block, pending and popped transactions, deduplication index | push_block, pop_block, push_transaction, generate_block | all of the above, plugins by signals | fork switch that fails half way, pending transactions across it | state = replay of the head's chain plus pending; failed push changes nothing; no transaction twice or lost |
| block database, open/close (`block_database.cpp`, `db_management.cpp`) | two files, saved objects | store, remove, fetch, last; open, close, reindex | chain database | crash between the two stores; close runs out of history | a running node's state is its head's; a closed node opens |
| content market (`decent_evaluator.cpp`, `db_decent.cpp`) | contents, buyings, seeders and their statistics, escrows, pools | submit, resubmit, cancel, buy, deliver keys, rate, prove custody, housekeeping | balances, maintenance, seeding plugin | last key against expiration; resubmission; ranges of times; unsigned counters | tokens are conserved, a buying is settled once, nothing stays in escrow |
| slots, schedule, pay, budget (`db_miner_schedule.cpp`, `db_update.cpp`, `db_maint.cpp`) | head time, absolute slot, filled slots, schedule, parameters, budgets | get_slot_time, get_slot_at_time, update_*, process_budget, maintenance | chain database, miner plugin | a changed block interval, changed number of miners, missed slots | the next slot is ahead; supply adds up; votes take effect |
| miner plugin | production enabled, next wake-up | the production loop | chain database, network | late wake-ups, rounding, restarts | no slot is wasted while production is healthy |
| voting tally | votes by account, counts by miner | account update, miner update, tally | maintenance | changes between tallies | the tally counts each stake once |
| subscriptions (`subscription_evaluator.cpp`, `db_decent.cpp`) | from, to, expiration, renewal flag, the order of two indexes | subscribe, by author, switch renewal, disallow; renewal in maintenance | balances, content market, undo | the loops change the key of the index they walk; undo and restart reorder it | each due subscription is renewed at the agreed price or ended; nodes agree |
| proposals | approvals, expiration, review period | create, update, delete, execute | any operation, nested session | execution that fails, expiry while approved | executed at most once, atomically |
| vesting, withdraw permissions | coin-days, periods | deposit, withdraw, claim | balances | rounding over time | never more than was vested or permitted |
| assets, feeds, pools | supply, feeds, pools | issue, reserve, fund, publish feed | market, fees | expired feeds, conversion | the price is the median of live feeds |
| publishing rights | two sets per account | set manager, set right | content submit | mirrored sets | they mirror each other |
| p2p node (`libraries/net`) | peers with their lists of ids and requests, backlog of sync blocks, calls under way | sync, inventory, fetch loops, timeouts, disconnects | chain database by a delegate | cooperative tasks that yield in every send, late answers, limits, peers that leave | blocks reach the chain in order, requests are answered or given up, honest peers are kept, the node catches up |
| seeding plugin, package manager (`seeding.cpp`, `libraries/package`) | seeding objects in the undone database, packages on disk, downloads, free space, two scheduled loops | handler of operations, generate_pors, send_ready_to_publish, resend_keys, restore_state, end of a download | both threads, IPFS, market | objects that vanish with an undone block while a download of theirs runs; restart; failed downloads | requests are answered while the seeder is up; no more space is offered than there is |
| history plugins, APIs, wallet, encryption, tools | views, keys, formats | queries, signing | – | – | not modelled, see section 8 |

`PROJECT.json` lists every part with its sources and status, and under
`hazards` what is hard to test, each at its line.

## 2. Plan

Written so far, most important behaviour first:

1. `SnapshotStack` (abstract), `UndoDatabase`, `UndoDatabaseProofs`
2. `ChainDatabase`: block processing on top of whole snapshots;
   `ChainDatabaseProofs`
3. `ChainRestart`: extends `ChainDatabase` by close, crash, open, reindex; its
   theorems are in `ChainDatabaseProofs` too, whose lemmas they use
4. `ContentMarket`, `InductionTheorems` (sums over finite sets, loops, recursion
   along a tree), `ContentMarketProofs`
5. `BlockProduction`, `BlockProductionProofs`
6. `NodeSync`: synchronisation with peers that leave, requests that time out,
   the backlog and its limits; `NodeSyncProofs`
7. `Subscriptions`: the subscription operations and the renewal loop over the
   indexes whose order they change; `SubscriptionsProofs`
8. `Seeding`: the seeding plugin with its packages, on the undone database;
   `SeedingProofs`

Left, in this order:

9. the conditions on blocks and forks under which `FailedPushUnwound`,
   `BlockDbMirrorsChain`, `HeadIsLongest` and `ClosedReopens` hold in general,
   with an invariant of the fork database, and their proofs;
10. proposals and publishing rights; several nodes with delayed blocks, on
    `BlockProduction`'s schedule and `ChainDatabase`'s fork choice;
11. the voting tally, vesting, withdraw permissions, assets and feeds, which are
    sequential and matter less to the properties above.

## 3. Modules and their correspondence to the code

### UndoDatabase and SnapshotStack

One index of objects and `undo_database`. `objs`, `next_id` and `sindex` are the
primary index, its next id and the ids a secondary index knows; `stack` is
`_stack`, each entry an `undo_state` with its maps as total functions;
`sessions` the open `session` objects with their `_disable_on_exit`; `disabled`
and `max_size` the members of those names. Actions: `Create`, `Modify`,
`Remove` (index plus the `on_create/on_modify/on_remove` hooks),
`StartUndoSession` (with the trim to `max_size`), `Undo`, `Merge`, `Commit`,
`PopCommit`, `SetMaxSize`, `Enable`. `saved` is a history variable: the
database as it was when each undo state was opened.

`SnapshotStack` says what that is for: a value, a bounded stack of earlier
values, sessions. `Snapshots` in `UndoDatabase` is the refinement mapping.

### ChainDatabase

`s` is the object database reduced to what block processing reads (head, last
irreversible block, each miner's last confirmed block, deduplication index,
how often each transaction took effect); `undo` the undo history as whole
states (justified by the refinement above); `irr` a history variable, the
highest last irreversible block number so far; `pending`, `psess`, `popped` are
`_pending_tx`, `_pending_tx_session`, `_popped_tx`; `fdb`, `live`, `fhead`,
`fsize` the fork database (`live` marks the weak `prev` pointers that are still
set); `bdb` the block database by number, with the id in the index and the block
in the data file apart. `pc` and `op` split `push_block` at its loops:
`PushBlock`, `ApplyDirect`, `PopForSwitch`, `ApplyBranch`, `Unwind`, `Restore`,
`Requeue` (the destructor of `pending_transactions_restorer`). `PushTransaction`,
`GenerateBlock` and `GenerateTooBig` are single steps. Candidate blocks are a
fixed tree; header, signature and schedule checks are the constant `Valid`.
`ApplyTxs`, the loop over a block's transactions, is a recursive function, so
that proofs can be about it.

### ChainRestart

Adds the disk: `disk` is the saved object database, `before` the block database
without its last, possibly still buffered, write, `down` a history of how the
node went down (`"behind"` if the fork database or the block database did not
agree with the chain when `close()` began, see `InStep`). `Close`, `Rewind`, `Flush` are the steps of `close()`, `Crash`
may happen in any state and may lose the last write, `Open` is `open()` with its
consistency check, `Reindex` is `reindex()`. `ReplayTxs`, the loop over a block's
transactions when it is replayed, is a recursive function like `ApplyTxs`.

### ContentMarket

State as in the indexes: balances by account and asset, the pools of a
user-issued asset, contents by URI, buyings by consumer and URI, seeders,
seeding statistics (unsigned counters modulo `Word`). Actions are the
evaluators: `ReadyToPublish`, `ContentSubmit`, `ContentResubmit`,
`ContentCancel`, `RequestToBuy`, `DeliverKeys`, `LeaveRating`,
`ProofOfCustody`; `NextBlock` moves the head block's time to a later slot and,
when due, performs maintenance: `decent_housekeeping` by the parameters that were
in force, then the pending parameters are adopted. `params` has the two intervals
in force, any of `Parameters` may be pending at a maintenance, and `maints` is a
history of the maintenances with the block interval each adopted. An operation that throws changes nothing and is
no step. Hardforks are past, operation fees zero, proofs valid. Amounts held by
several accounts are added with `SumFunctionOnSet` of the community modules.

### BlockProduction

`db` is the record of what production reads and writes: head number and time,
absolute slot, `recent_slots_filled` (as the set of its one bits), the
maintenance flag, maintenance times, fee budget and mined amounts, supply,
`real` (what `get_real_supply().total()` counts), parameters, active miners and
schedule. `ApplyBlock` composes one operator per function in the order of
`_apply_block`. `Idle` and `Produce` are `block_production_loop` with the
conditions of `maybe_produce_block`; `Stop`, `Start`, `Tick` the nodes'
environment. All nodes share one chain: blocks arrive at once. The shuffle is any permutation and the vote any member of
`Elections`; no property depends on more.

### NodeSync

One node and its peers. `pr[p]` is the node's `peer_connection` of a peer with
the members of the same names (`ids_of_items_to_get`,
`ids_of_items_being_processed`, `sync_items_requested`, ...) and the list of
connections it is on; `node` the members of `node_impl` (`_received_sync_items`,
`_active_sync_requests`, the triggers of the loops, the suspended flag); `calls`
the `handle_block` calls that are under way, in the order in which the chain's
thread takes them; `toPeer` and `fromPeer` the connections as ordered channels.
All tasks of the network thread are cooperative, so an action is what a task does
between two points at which it yields. The actions are `fetch_sync_items_loop`,
the fetch of advertised items, the handlers of the messages
(`on_blockchain_item_ids_inventory`, `on_block`, `on_item_not_available`,
`on_fetch_blockchain_item_ids`), `process_backlog_of_sync_blocks`, the end of a
`handle_block` call by sync and by inventory, `TimeOut`, `TerminateClosing`,
`PeerCloses` and `on_connection_closed` with its rescheduling. A peer holds a
prefix of one chain and answers as the same program would. The delegate is
external (`application.cpp` is not in the repository); its read-only calls
(`has_item`, `get_block_number`, the synopsis) are taken in one step although
they yield.

### Subscriptions

Both loops walk an index whose key they change, so the order of elements is
state: `by_renewal` and `by_to_renewal` are sequences of object ids, and `Link`,
`Relink` and `Following` are insertion, modification and iteration of a
boost `ordered_non_unique` index (external). `db[n]` holds the objects of each
node; all nodes apply the same operations and blocks. Actions: `ApplyOperation`
(`subscribe_to_author`, `subscribe_by_author`, `automatic_renewal`,
`account_update`'s options, a price feed), `NextBlock` with the renewal loop of
`decent_housekeeping`, `UndoOperation` and `UndoBlock` (a pending transaction or
a block of a fork that is taken back), `Restart` (objects are loaded by id).
Fees and the details written for histories are left out; the next maintenance
time is the next multiple of the interval. `agreed` is a history: the author's
options when the renewal was switched on. The loops (`StopRenewals`,
`decent_housekeeping`, `UndoneTo`, `Reload`) are recursive functions over the
number of passes, of which none needs more than there are subscriptions.

### Seeding

The plugin's objects are part of the database that is undone, so the module
carries its own short undo history: `stack`, `session` and `pending` are the
snapshots of `_undo_db`, `_pending_tx_session` and `_pending_tx`. `chain` has the
contents, requests and answers, and the plugin's `seeding_object`s with their
flags; `disk`, `downloads` and `releasing` are the package manager, the running
downloads and the releases queued for the main thread; `rtp` and `por` say
whether the two loops are scheduled; `virtual` has the contents whose URI is not
one of IPFS, for which a handler downloads nothing and `restore_state`, which
does not look at the URI, throws for want of a transfer engine; `phase` is
`"partial"` after that. Actions: `PushBlock` (which notifies the
plugin of each operation), `SwitchFork`, `PushTransaction`, `Expire`, the end of
a download with its listener, `ReleaseFraud`, `generate_pors`,
`send_ready_to_publish` (with `resend_keys`), `Restart` and `restore_state`,
`Crash`. Abstractions: one seeder; at most one request for a content, which runs
out with it; contents of one unit; proofs of custody and `ready_to_publish` count
only as transactions. The two threads touch the database one after the other: the
code has no lock there, and what a race would leave is not modelled. A listener
that dereferences a missing seeding object stops the node.

Definitions whose comment starts with "Faulty:" are deliberately wrong variants
of the definition that follows; substituting one must break the property named
in `PROJECT.json` under `mutants`, which shows that the property can fail.

## 4. Runs

| Run | Instance | Checks | Result |
|---|---|---|---|
| `undo` | 2 objects, 2 values (symmetric), 2 nested sessions, history 1..2 | `TypeOK HistoryFaithful NextIdFresh UndoNeverThrows MergeCausal`, refinement `ImplementsSnapshots` | holds, 673,234 states |
| `chain_valid` | tree of 8 valid blocks in 3 forks, 4 transactions, 3 miners | `PendingIsApplied NoDoubleApply ReversibleUndoable BlockDbMirrorsChain HeadIsLongest TransactionsKept` | holds, 2,963 states |
| `chain_invalid` | the same tree with invalid blocks, history limit 3, blocks that grow | `StateIsReplay FailedPushUnwound`, liveness `PushReturns` | holds, 10,292 states |
| `chain_restart` | a chain of 5 blocks from genesis and a fork of 2, 3 miners, 2 transactions | `LedgerIsReplay ClosedReopens IrreversibleSaved` | holds, 226,533 states |
| `market` | 1 content, author, co-author, consumer, 2 seeders (symmetric), DCT; block interval 1 or 2 with changes | `TypeOK Conservation SettledOnce RefundedInTime AlignedEscrowReturned` | holds, 1,273,843 states |
| `production` | 2 nodes, 3 miners, interval 1 → 2, elections of 2 or 3 miners | `TypeOK SlotAfterHead SupplyMatches ScheduleFollowsVote NoSlotWasted` | holds, 397,115 states |
| `sync_one` | 1 peer with 0, 3 or 6 blocks that grows to 6, ids in batches of 3, lists left off beyond 3 | liveness `CatchesUp` | holds, 13,380 states |
| `sync_two` | 2 peers, 2 blocks of which one is refused, one lost or timed out connection, one item that is not available | `SyncInOrder RequestsAreOpen HonestNotBlamed SuspensionEnds` | holds, 2,222,575 states |
| `subscriptions` | 1 node, 2 consumers, 1 author, 2 subscriptions, terms in DCT and in a monitored asset, one undo or restart | `TypeOK RenewedAsAgreed`, action properties `StoppedOnlyUnpaid PassedOverOnlyByStop` | holds, 793,456 states |
| `seeding` | 1 content of either kind of URI, 1 unit of space, 2 attempts, 2 faults, undo of 1 block | `TypeOK SpaceOffered`, liveness `KeyAnswered` | holds, 96,561 states |
| `chain_bad_head` | valid and invalid forks | `HeadLinkable` | violated |
| `subscriptions_nodes` | 2 nodes, 1 consumer, 2 authors, one undo or restart | `NodesAgree` | violated |

What the newer runs show:

- `SyncInOrder`: whatever peers leave, time out or repeat, synchronisation hands
  blocks to the chain in order and never one whose predecessor it skipped, unless
  that block builds on one the chain refuses.
  `RequestsAreOpen`: a block marked as requested is requested from a connected
  peer, so a lost peer's requests are given to others. `HonestNotBlamed`: no
  peer is disconnected for a block it was asked for, however late the block
  comes, except one the chain refuses. `SuspensionEnds`: fetching that a full
  backlog stopped always has a task left that resumes it. `CatchesUp`: with one
  peer and no lost connection the node comes to hold all its blocks and knows that
  it is in sync, unless it has left off a list longer than the prefetch limit.
  Synchronisation may then stop short in two ways, and in no other: all ids of the
  list are used up while the peer has more (`LeftUnasked`), or a block that was
  accepted is listed and fetched again and stays among those being processed
  (`LeftProcessed`). Both are reached: without either disjunct TLC finds a
  counterexample.
- `RefundedInTime` and `AlignedEscrowReturned`: which escrows a maintenance after
  their expiration may leave behind. Housekeeping looks at the times from the last
  maintenance plus one block interval on, by the interval in force now, so what
  expires less than an interval after a maintenance can be overlooked. For buyings
  this takes a change to a block interval that does not divide the old one.
- `ClosedReopens`: if fork database, block database and chain agree when `close()`
  begins, the node opens again. In the run the head is several blocks above
  the last irreversible one, `close()` pops several of them, and after a restart
  it runs out of undo history before it has come down to the irreversible block.
- `RenewedAsAgreed`: a subscription that will be renewed has the terms under
  which renewal was switched on. `StoppedOnlyUnpaid` and `PassedOverOnlyByStop`:
  the loop turns a renewal off only when it cannot be paid, and passes over a due
  one only in a maintenance that turned another one off.
- `SpaceOffered`: the plugin never offers space that its running contents take.
  `KeyAnswered`: while `send_ready_to_publish` is scheduled, a request for a
  running content that the plugin seeds is answered, whatever forks, restarts and
  expired transactions took away the first answer.

Bounds, and why they are enough for what the properties tell apart:

- two objects and two nested sessions reach all 16 cells of the table in
  `merge()` for one object, with a second object to show that entries are not
  mixed up; the proofs cover every size;
- the block tree has a fork at the root and one inside a fork, branches of
  different and equal length, transactions that are in several branches at
  different heights, expire, conflict and refer to a block of one branch, so a
  switch has to pop up to three blocks, fail in the middle and go back;
- with three miners the last irreversible block moves within the tree, so the
  undo history is trimmed;
- the chain of the restart run is as long as three miners need to make a block
  irreversible and have several reversible ones above it;
- market time runs over two maintenances with one to two slots between blocks
  and expirations on and between block times; the interval goes from 1 to 2 and
  from 2 to 1, which are a change that leaves a gap and one that leaves none; the
  last maintenance adopts nothing new (`MaxMaints`); `Word` is 16 so that counters
  could wrap;
- with two peers and two blocks each block may be offered, requested and received
  twice, by sync and by inventory, before or after its peer is gone; larger
  instances were run once (one peer with four blocks, 6.5 million states; two
  peers with four blocks and no faults) without a violation. In
  `sync_one` the limits are 3 ids, 2 requests and 1 block in the backlog or in the
  chain, so that both tests against the prefetch limit go either way: the code's
  10000, 2000 and 200 are in the same order;
- two subscriptions of one index are the fewest that can change places, and time
  runs over two maintenances;
- one content suffices for the life of one package; with `MaxFaults = 3` (202,691
  states) and `MaxUndo = 2` (389,702 states) the invariants hold too. The number
  of attempts is 5 in the code and 2 here;
- production time covers the first maintenance (at block 1), two regular ones,
  a parameter change in between, late wake-ups of half a second, and restarts.

`CHECK_DEADLOCK FALSE` is set in `undo` (the number of ids is bounded), in the
market and subscription runs (time is bounded), in the sync runs (a node in sync
with peers that do not grow waits) and in `seeding` (a stopped node stays
stopped); elsewhere every state has a successor. `TypeOK` of `ChainDatabase` and
`NodeSync` is defined and holds, but is not among the checks: that of `NodeSync` is
proved (`SyncTypes`), and the proofs about `ChainDatabase` carry the types they
need in `TypeInv`.

## 5. Fairness and liveness

`PushReturns` assumes weak fairness of `Step`, the continuation of a
`push_block` in progress. `push_block` is a synchronous call on one thread whose
loops have no waits, so a step that can be taken is taken; nothing is assumed
about blocks or transactions arriving.

`CatchesUp` assumes weak fairness of each task of the network thread, of the
chain's thread and of the peer's answers: the scheduler of the cooperative tasks
is round-robin, and a peer that does not answer is the subject of the timeouts.
It is checked for one peer without lost connections, because with them the code
does not meet it (below). That the node catches up without the second alternative
(`ListsContinued`) is not met either; `LeftUnasked` and `LeftProcessed` are states
in which no task of the node has anything left to do for the peer, so no fairness
would end them.

`KeyAnswered` assumes weak fairness of `send_ready_to_publish`, which schedules
itself every few minutes, and of a block that takes up a pending key, which is
what miners do. It says nothing once the loop is no longer scheduled (below).

No other run uses fairness: `NoSlotWasted` states timeliness as an invariant over
a clock, under the history `good` that says how long everybody scheduled has been
up, synced, keyed and on time.

## 6. Proofs

`UndoDatabaseProofs` (1453 obligations). Assumptions: values and markers are
distinct; bounds are natural numbers; `1 <= MinHistory <= MaxHistory`; at most
`MinHistory + 1` sessions are open. The last one is what the code provides: the
only caller of `set_max_size` passes head − irreversible + 1 ≥ 2, and pending,
transaction and proposal sessions are at most three. The inductive invariant is

    IndInv == TypeOK /\ SessionsHaveStates /\ NextIdFresh /\ HistoryFaithful

`HistoryFaithful` alone is not inductive: that undo finds its objects needs ids
below the next id in *every* saved snapshot (`NextIdFresh`), and that undo and
merge act on the right state needs the states of open sessions never to be
trimmed (`SessionsHaveStates`). There is one lemma per action; the one for
`Merge` goes through the table cell by cell. From `Invariance` follow
`TypeCorrect`, `HistoryIsFaithful`, `IdsAreFresh`, `UndoIsSafe` (`~session` never
meets a missing object), `MergeIsCausal` (the N/A cells are unreachable), and
`Refinement`: every step of the code's undo states is a step or a stutter of
`SnapshotStack`.

`BlockProductionProofs` (1144 obligations). Assumptions: all parameters pass
`chain_parameters::validate` (`ParameterAssumption`), elections are non-empty
sets of finitely many miners (`MinerAssumption`), fees and rewards are natural
numbers. No bound on time or lateness is used. The inductive invariant is

    IndInv == TypeOK /\ SupplyMatches /\ ScheduleInv(db)

There is one lemma per function of `_apply_block`. `ScheduleInv` strengthens
`ScheduleFollowsVote`: `update_miner_schedule` acts on block numbers divisible by
the number of active miners, so either the schedule already is an order of the
active miners or no such number has gone by since the maintenance
(`NoMultipleYet`). Theorems: `TypeCorrect`, `SupplyIsMatched` (the assertion in
`process_budget` cannot fail through block pay, fees, parameter changes or
skipped maintenance; what other operations do to `real` is outside this module),
`SlotIsAhead`, `VoteReachesSchedule`.

`NoSlotIsWasted` (`NoSlotWasted`) needs a second invariant on top of it, about the
clock and the loops:

    SlotInv == WakesInTime /\ GoodIsHealthy /\ UnusedBefore /\ StillToRun

`UnusedBefore` says that a slot that passed unused passed before production became
healthy. It is kept by a tick of the clock because of `StillToRun`: at the time of
an unused slot the loop of the node that is to fill it still has to run, and a
healthy node runs its loop before the clock goes on. `StillToRun` in turn needs
`WakesInTime` (the loop wakes up on every whole second, and slots are at whole
seconds, also after maintenance changed the interval). The hypothesis
`OneNodePerMiner`, that a miner's key is held by one node, cannot be dropped: TLC
finds that two nodes with the same key may take turns in being up, each starting
just after the wake-up that the slot needed.

`InductionTheorems` (849 obligations) has what needs induction and is used by the
other proofs: sums over finite sets, as money needs them (an element can be taken
out, a changed summand changes the sum by the difference, sums of equal, added or
moved summands); functions defined by recursion along the parents of a tree or over
the passes of a loop exist (`RecursionAlongParents`, `LoopExists`, `LoopWithin`);
what every pass keeps holds at the end (`UpTo`). Induction is by a minimal
counterexample, because the strict subsets of a finite set are well founded and the
library's induction rules cannot be instantiated here.

`ContentMarketProofs` (3159 obligations). Assumptions: the parameters that may be
adopted pass `chain_parameters::validate` (`ParameterAssumption`: positive
intervals, the maintenance interval a larger multiple of the block interval); the
day and the bounds are positive; finitely many accounts and contents; co-author splits are natural numbers of accounts;
amounts, rates and `Word` are natural numbers. Nothing is assumed about the
number of accounts, contents, seeders, prices, sizes, durations or about how many
slots are missed between blocks; any parameters may follow any others, and an
interval need not divide a day. The inductive invariant is

    Inv == TypeOK /\ Clock /\ GoodContents /\ GoodBuyings

`Clock` is what relates an expiration to the two ends of the range that
`decent_housekeeping` walks: the last entry of `maints` is the last maintenance
with the interval in force, and as long as each interval divides the one before it
and a day (`IntervalsDivide`), blocks and maintenances are at multiples of it.
`GoodContents` keeps what `content_submit` checked (a split within 100%, a quorum
of at least 2 where there are key parts) and bounds the times of proofs, without
which payouts could exceed an escrow and make `TypeOK` fail; `GoodBuyings` ties
`escrow`, `delivered`, `expired` and the number of answers of each buying
together, so that a resubmission, a late key or a second maintenance finds
nothing left to pay. From `Invariance` follow `TypeCorrect` (no balance, escrow or
pool is ever negative), `BuyingSettledOnce`, `BuyingRefundedInTime` and
`ContentEscrowReturned`. The last two say where an escrow must expire to be
overlooked, for any sequence of intervals: within a block interval of a
maintenance (`Overlooked`), for a buying only once an interval was adopted that
does not divide the one before it or a day, for a content that expires at block
times likewise. A chain whose block interval stays as it is has neither.
`TokensConserved` is proved separately, action by action
with `InductionTheorems`, under the hypothesis that no content is priced in a monitored
asset (`NoMonitoredPrice`): with one the code does not conserve (section 7). The
loops over seeders, accounts and due contents are sums over sets, so the proof
does not depend on the order in which the code walks an index.

`ChainDatabaseProofs` (5460 obligations). Assumptions: the blocks are a tree, of
any size, in which every chain leads to the root (`TreeAssumption`); block times,
expirations and conflicts are arbitrary; there is a finite, non-empty set of
miners; the history starts with a limit of at least two states
(`UndoAssumption`: `MinUndo` is `GRAPHENE_MIN_UNDO_HISTORY`). Which blocks are invalid, which transactions are in which blocks and the
order of arrival are arbitrary. `Trail` is the undo history followed by the state
without its pending transactions. The inductive invariant is

    Inv == TypeInv /\ HistoryInv /\ StateInv /\ KeptInv /\ PendingInv

- `HistoryInv`: every state of the trail is the replay of its own head's chain,
  neighbours have the same head or parent and child, none is irreversible beyond
  `irr`, and the history has room for all blocks from `irr` to the head. It is
  needed for every snapshot and not only for the state, because a fork switch
  pops to an arbitrary one.
- `StateInv`: the state differs from the end of the trail by pending transactions
  only, and what was evaluated is in the deduplication index or has expired; this
  is what makes `NoDoubleApply` survive `clear_expired_transactions`.
- `KeptInv`: where the transactions are that the node held when `push_block`
  began, for each part of `push_block`. While a branch is applied it has to hold of
  every state that the branch may be unwound to.
- `PendingInv`: the pending state is `_pending_tx` applied to the last snapshot.

Theorems: `ReplayedState` (`StateIsReplay`), `AppliedOnce` (`NoDoubleApply`),
`TransactionsNotLost` (`TransactionsKept`), and two with a hypothesis without
which the code does not meet the property (section 7): `PendingApplied` while no
transaction outgrows its size estimate (`Grows = {}`) and `UndoReachesBack` while
no transaction executes a proposal (`Proposes = {}`). That the replay of a chain
and the loop over a block's transactions are well defined, by recursion along
parents and over positions, is proved from the least closed relation and minimal
counterexamples.

Across restarts (`ChainRestart`) that invariant does not hold: `reindex()` neither
checks nor fills the deduplication index, so a state need not be the replay of its
chain. What is left is

    RestartInv == NodeInv /\ ClosingInv /\ (disk = None \/ Fit(disk))
                    /\ BlocksOk(bdb) /\ BlocksOk(before)

- `Fit(st)`: no confirmation is above the head, and the ledger of the state (all but
  the deduplication index) is that of its head's chain. `NodeInv` has it of every
  state of the trail, and that each is at most one block above the one before.
- `BlocksOk`: every stored block, also as the disk has it without the last write,
  was applied once, so that a replay of the blocks after a crash finds a chain that
  has a ledger.
- `ClosingInv`: while `close()` pops, the head is not below the block that was
  irreversible when it began. It needs that a pop goes down by one block at most,
  which holds of neighbours in the trail, whatever was trimmed or copied.

Every operation of `ChainDatabase` is gone through again for these weaker facts
(`FitRunning`); `ReplayedFacts` says that the replay of the stored blocks leads
through fit states, one block at a time. Theorems: `CloseKeepsIrreversible`
(`IrreversibleSaved`) and `RestartsKeepLedger` (`LedgerIsReplay`). Both have the
hypothesis `Genesis`, that the root is genesis, where `reindex()` starts, and
block numbers are bounded (the block database is an array up to the highest).
`RestartsKeepLedger` also assumes `Unrepeated`, that no block repeats a transaction
of its chain, unless its evaluation fails the second time: after a `reindex()` the
code accepts a repeated one (`NoDoubleApply`, section 7), and the ledger then counts it
twice. The tree of the run meets both hypotheses.

`SeedingProofs` (1171 obligations). Assumptions: finitely many contents, positive
numbers of attempts, operations in a block and undoable blocks. The inductive
invariant is

    Inv == TypeOK /\ DbInv /\ SpaceOffered

`DbInv` says of every snapshot of the undo history what `TypeOK` says of the
database (seeding objects are for contents of that snapshot, contents that are
past have expired), and that later snapshots have more seeding objects: an undo
goes back to any of them while downloads, `free_space` and the scheduled loops
stay as they are. Theorems: `TypeCorrect`, in particular that `generate_pors` stays
scheduled once `restore_state` has come to its end (one that throws does not
schedule it, section 7) and that `free_space` never goes below zero, and `SpaceWithinOption`
(`SpaceOffered`).

`SubscriptionsProofs` (2750 obligations). Assumptions: accounts are finitely many
and authors are not consumers; an author who allows subscriptions asks for a
positive price and period; rates, offers and funds are natural numbers. Nothing is
assumed about how many nodes, subscriptions, undone changes or restarts there are.
The inductive invariant is, for every node,

    Good(D) == DbOk(D) /\ AgreedOk(D)

`DbOk` says that both indexes hold every subscription that belongs there once and
in the order of its key, and that no account is overdrawn; `AgreedOk` is
`RenewedAsAgreed` of one node. The lemmas go up from insertion and modification of
one ordered index (`LinkOk`, `RelinkOk`, `RelinkStays`) to the operations and to
the loops, each of which has a stage relation (`StopStage`, `LoadStage`,
`BackStage`, `InPass`) that says where the iterator is after i passes. The two
loops over an index whose key they change differ in one fact: an element that
`account_update` stops keeps its place, since all before it are off already, so the
loop reaches every renewal of the author (`StopRenewalsOk`); an element that
maintenance stops goes to the end of `by_renewal`, and the iterator with it. That
is why `PassedOverOnlyByStop` says no more than it does: as long as nothing is
stopped, every pass moves the iterator on by one element (`PassStep`). Theorems:
`TypeCorrect`, `AgreedRenewals`, `OnlyUnpaidStopped`, `OnlyStopPassesOver`. An undo
puts objects back in any order (`UndoneGood`).

`NodeSyncProofs` (5057 obligations). Assumptions: finitely many peers, none of which
is the mark for the sync tasks; ids come in batches of at least two; the limits on
requests, calls and the backlog are positive; heights are at most `MaxBlock`. The number of peers, their
heights, the blocks the chain refuses, how often connections close or time out and
which items are lost are arbitrary. The inductive invariant is

    SyncInv == TypeInv /\ Good(Here, fromPeer, Reached) /\ CallsOk

`Good` holds of what a task of the network thread can reach, at each of its steps,
with one predicate per connection (`PeerOk`) and two for the node.

- `ListOk`: a peer's list of ids is a piece of its chain that starts no later than
  the first block still to come. `Reached` is the set of blocks up to which
  everything the chain can take is in the chain or handed to it; it grows only, so
  a list that is good stays good. `SyncInOrder` rests on this and on `CallOk`: all
  blocks below that of a call are in the chain or in an earlier call, or build on a
  refused one.
- `AnswersOpen`, `AsksOpen`, `OneKind`: what is on its way from a peer was requested
  from it and is answered once, also after the request was repeated; without that a
  late block would be taken for an unrequested one (`HonestNotBlamed`).
- `RequestsOk`: `_active_sync_requests` is the disjoint union of the peers' requests.
- `NodeOk`: a suspension has a scheduled backlog or a call whose end schedules it.

The loops over peers and over the backlog are proved with `LoopExists` and `UpTo`,
one lemma for a pass and one for the loop. Theorems: `Synchronised`, `SyncTypes`,
`BacklogInOrder` (`SyncInOrder`), `AnswersNotBlamed` (`HonestNotBlamed`),
`SuspensionHasEnd` (`SuspensionEnds`) and, if no peer loses a block it listed,
`RequestsHaveOnePeer` (`RequestsAreOpen`); with such a loss the code does not meet it
(section 7).

Only model-checked, and why:

- `PushReturns`, `CatchesUp`, `KeyAnswered`: liveness under fairness, out of this
  prover's reach;
- `BlockDbMirrorsChain`, `HeadIsLongest`, `FailedPushUnwound`: the code meets them
  on the checked instances but not in general (section 7), so there is no theorem
  to state without assuming the difference away;
- `ClosedReopens`: that pops go on from a block database that mirrors the chain
  rests on the same invariant of the fork database, which is not written yet;
- `FeesNotOverspent`, which is not true for every parameter (below).

## 7. Where code and comments disagree

Findings with a run of their own (`PROJECT.json`, `findings`):

- `chain_bad_head`: a failed block is removed from the fork database's index but
  stays its head (`db_block.cpp:216`).
- `subscriptions_nodes`: undo puts an object back behind the others with the same
  key of a non-unique index, a restart orders them by id; renewals are paid in
  that order until the money is gone, so nodes with the same blocks come to hold
  different balances (`subscription_object.hpp:73`).

### Further disagreements

These properties are defined in the modules; TLC finds each violated when the
named configuration is changed as given and checks that property alone.

| Property | Configuration | Code | What the repository says |
|---|---|---|---|
| `BlockDbMirrorsChain` | `MCChainInvalid` | `db_block.cpp:195`: after a failed switch the restored blocks are stored under the id of the block that was pushed | `db_block.cpp:120`: "every partial change is unwound" |
| `CloseAlwaysReopens` | `MCChainRestart` | `db_management.cpp:169`: after a fork switch that failed for lack of undo history (after a restart or a replay) the fork database is on the other fork, or the head is already removed from the block database; the rewind in `close()` then removes a block it cannot undo and saves the state of a block that is not stored | `database.hpp`, `pop_block`: "undoes any changes it made" |
| `EscrowReturned` | `MCContentMarket` | `db_decent.cpp:228`: content that expires between two blocks right after a maintenance is never settled | `seeding_statistics_object.hpp:24`: "decreased inside maintenance for every expired content"; `AlignedEscrowReturned` is what holds |
| `AlwaysRefunded` | `MCContentMarket` | `db_decent.cpp:236`: the range of due buyings starts at the last maintenance plus the block interval in force now; after a maintenance that adopted a longer one, a buying that expires at a block time within it is never refunded | `database.hpp:377`, `buying_expire`: "Returns unused escrow from expired buying to consumer"; `RefundedInTime` is what holds |
| `Conservation` | `MCContentMarket` with `Prices <- MiaOnly` | `asset_object.hpp:171`: DCT paid for it is in no balance, escrow or pool | assertion at `db_maint.cpp:124` |
| `RequestsAreOpen` | `MCNodeSyncTwo` with `LostBy = {"block_id"}` | `on_item_not_available` takes the request off the peer but not off `_active_sync_requests` | `node.cpp:2970`: "reschedule them to be fetched from another peer" |
| `ProcessedIsUnderWay` | `MCNodeSyncTwo` with `Heights = {2}`, `Refused = {}`, `MaxDrops = 0` | `node.cpp:3261`: a block accepted by other means is marked as being processed, and nothing unmarks it | the message there: "treating it as accepted" |
| `CatchesUp` | `MCNodeSyncOne` with `MaxDrops = 1` | blocks that were received before their peer left stay in the backlog; the peer comes back and lists them, `node.cpp:1057` does not request them again, and only an arriving block runs the backlog | `node.cpp:1057`: "already got it, but for some reson it's still in our list of items to fetch" |
| `ListsContinued` | `MCNodeSyncOne` | `node.cpp:2630` leaves a list off when it is longer than the prefetch limit; `node.cpp:3185` returns while the chain is busy, without suspending the fetching, so that the list may be fetched to its end before `node.cpp:3481` or an accepted block finds it short enough to go on | `node.cpp:2633`: "we'll switch back later to finish the job" |
| `HonestIdsNotBlamed` | `MCNodeSyncOne` with `SPECIFICATION Spec`, `MaxBlock = 4`, `Heights = {0, 1, 2}`, `MaxDrops = 1`, `MaxMissing = 1`, `LostBy = {"message_hash"}`, `MaxAsks = 2` | the answer to an earlier request for ids is checked against the synopsis of a later one | `node.cpp:2436`: "You gave an invalid response to my request for sync blocks" |
| `DownloadsRestarted` | `MCSeeding` | `seeding.cpp:607`: the condition is inverted | `seeding.cpp:122`: "Restarts all downloads and seeding upon application start" |
| `ProofsRestarted` | `MCSeeding` | `seeding.cpp:614` downloads an expired content whose URI is not one of IPFS; `package.cpp:838` has registered no engine for it, `download()` throws, and `generate_pors()` at `seeding.cpp:619` is not reached | the same comment |
| `PendingIsApplied` | `MCChainValid` with `Grows = {"t1"}`, `MaxBlockTxs = 1` | `db_block.cpp:434` throws between the end of the pending session and `push_block` | `db_block.cpp:417`: `push_block()` "will re-create the _pending_tx_session" |
| `FailedPushUnwound` | `MCChainValid` with `Proposes = {"t2"}` | `db_update.cpp:98`: three nested sessions outgrow the limit by one committed state | `db_block.cpp:120`: "every partial change is unwound" |
| `FailedPushUnwound` | `MCChainValid` with a tree of `a2..a5`, all signed by `m1`, and a fork `b2..b6` signed by `m1, m1, m2, m1, m1`, of which `b6` is invalid; two miners, no transactions | `db_update.cpp:98`: blocks of the new branch become irreversible before its last one fails, the history is trimmed for them, and the unwinding stops at `b2` for lack of undo states | `db_block.cpp:120`: "every partial change is unwound" |
| `ReversibleUndoable` stated for the current last irreversible block instead of `irr` | `MCChainValid` with `r, a2..a7` signed by `m1, m2, m1, m2, m3, m1` and a fork `b6, b7, b8` on `a5` signed by `m1, m2, m1` | `db_update.cpp:98`: the history is trimmed for the irreversible block of the longer chain seen first; a switch to a fork with fewer confirming miners puts the number back, and the blocks above it can no longer be undone | `ReversibleUndoable` is what holds: all blocks above the highest irreversible one so far can be undone |
| `ExpiredForgotten` | `MCChainValid` | `db_update.cpp:191` looks at the transaction that expires last | `db_update.cpp:187`: "Look for expired transactions ... and remove them" |
| `HeadIsLongest` | `MCChainValid` with `RootNum = 0` | `fork_database.cpp:83`: no link check without a head | `db_block.cpp:149`: "we need to switch forks" |
| `NoDoubleApply` | `MCChainRestart` | `db_management.cpp:102`: a replay skips the deduplication index | `transaction_object.hpp:34`: "to enable the detection of duplicate transactions. When a transaction is included in a block a transaction_object is added" |
| `SecondaryIndexComplete` | `MCUndoDatabase` with `MaxObjects = 1`, `Value = {v1}`, `MaxSessions = 1`, `MaxHistory = 1`, no symmetry | `undo_database.cpp:118` inserts into the primary index only | `proposal_object.hpp:54`: "tracks all of the proposal objects" |
| `SeededCounts` | `MCContentMarket` with `Durations = {2}`, `MaxMaints = 3` | `decent_evaluator.cpp:329`: content resubmitted after it expired expires twice | `seeding_statistics_object.hpp:26`: "increased with every initial PoR operation, decreased inside maint for every expired content" |
| `RatioInRange` | `MCContentMarket` with `Consumer = {bob, cat}` | `decent_evaluator.cpp:635`: counter reset in maintenance, decremented after it | `db_decent.cpp:164`: "interval [0,1]->[0,10000]" |
| `RealSupply` | `MCContentMarket` with `Prices` and `Payments` `<- UiaOnly` | `db_decent.cpp:403` adds escrows of all assets | assertion at `db_maint.cpp:124` |
| `PayNeverNegative` | `MCBlockProduction` with `Proposed <- Uneven`, `Elections <- OnlyTwo`, `Fees = {0, 3}`, `Wealth = 6`, `Rekeying = {}`, `MaxLate = 0`, `MaxTime = 24` | `db_update.cpp:109`: a new interval that does not divide the next maintenance time gives more blocks than estimated | `db_block.cpp:111`: "this should never happen" |

Seen in traces of `Seeding`, without a property of their own, because the model
follows the code: the seeding object of a block with `content_submit` and
`request_to_buy` is lost when the pending session is merged into the wrong state
(`db_block.cpp:219`); the blocks of a fork switch are never notified to the plugin
(comment at `seeding.cpp:103`); `downloaded` and `deleted` are lost with the undo
of pending transactions; a package that expired is downloaded again at each
restart (comment at `seeding.cpp:253`); one failure of IPFS ends
`send_ready_to_publish` for good; `free_space` is never given back; `resend_keys`
pushes from the service thread (comment at `seeding.cpp:289`). In
`Subscriptions`: renewals continue after the author disallowed subscriptions if
they were switched on again, and then with period 0.

Read in the code and not modelled: `close_connection` of a peer keeps an earlier
termination time; `PackageInfo::download` holds a mutex while it waits for a task
whose listener may take it again; `db_maint.cpp:92` subtracts
`maintenance_skip_slots` from an unsigned number of blocks that its comment takes
to be positive; only the reported mining budget depends on it.

## 8. Not modelled, and why

- Torn writes inside one `store()` of the block database: what follows depends
  on the state of C++ streams.
- Signatures, authorities, merkle roots, proofs of custody, ElGamal: constants
  or assumed valid; number theory is out of a model checker's reach.
- Operation fees in the market, `report_stats`, the seeder rating formula,
  publishing rights: without effect on the properties.
- `recently_missed_count`, `total_missed`, voting tally: not read by what is
  modelled, or replaced by a nondeterministic choice.
- In the peer to peer node: the handshake, address exchange, firewall checks,
  relaying of transactions, disconnects at a hard fork, `close()`; the peer
  database and the sockets.
- In the seeding plugin: races of the two threads on the database; the creation
  and checking of packages.
- Proposals, vesting, withdraw permissions, assets, transfers, authorities,
  publishing rights, non-fungible tokens: sequential evaluators, not reached yet
  or of little interest to a model checker (`PROJECT.json`, `components`).
- History plugins and the delayed node: one loop or one handler each without
  concurrent state of their own.
- Genesis construction, serialisation, APIs, wallet, Elasticsearch, encryption
  and the programs: straight-line code, queries, formatting or clients.
- `application.cpp`, which wires the parts together, is not in the repository.
