# Verification of the eacpay wallet core

eacpay-ios is an SPV wallet for iOS. Its core is the C library in
`src/Modules/eacpay-core` (breadwallet-core, adapted to the Earthcoin chain):
it keeps the user's transactions, talks to the peers of the network, follows
the chain of merkle blocks and publishes payments. A Swift application
(`src/eacpay`) holds the keys, stores what the core tells it, and calls the core.
This directory holds TLA+ models of that program, the TLC configurations that
check them on small instances, and proofs checked by TLAPS.

In what follows a bare `file.c:n` is `src/Modules/eacpay-core/file.c`, line n,
and a bare `File.swift:n` is under `src/eacpay`.

## 1. Inventory

| component | state | operations | interacts with | modules |
|---|---|---|---|---|
| Wallet ledger, `BRWallet.c` | all known transactions, the wallet's own in an array sorted by height, flags (invalid, pending), unspent and spent outputs, balance and its history, two address chains, block height | register, remove, update heights, unconfirm after a height, grow an address chain; queries | called by the peer manager and by the app; calls the app back | `BRTransactions`, `BRWallet` |
| Making a payment, `BRWallet.c` | fee rate; locals of one call | choose coins, fee, change, maximum, estimate | called by the send screen while peers' threads change the coins | `BRCoinSelection` |
| Peer manager, `BRPeerManager.c` | lists of known and connected peers, the download peer, the sync in progress, the failure count, the filter, who relayed what, what is being published | connect, disconnect, rescan, publish; some fifteen callbacks of peer threads | one thread per peer calls it under `manager->lock`; calls the wallet and the app | `BRPeerManager`, `Publication`, `BRFilterUpdate`, `BRTxRelays` |
| Chain of blocks, `BRPeerManager.c` | blocks by hash, orphans by parent's hash, the last block | add a block: extend, repeat, orphan, fork, reorganise; save and restore; rescan | the wallet's heights follow it; the app's queue saves it | `BRChain` |
| Peer, `BRPeer.c` | socket, status, handshake flags, deadline, outstanding pings with callbacks, the block being received | connect, disconnect, ping, mempool, getdata, filterload; a thread that reads messages | its thread calls the peer manager | in the three modules of the manager |
| Hash tables, `BRSet.c` | open-addressed table | add, remove, look up, clear, union, difference, intersection | everywhere | `BRSet`, `ItemSet` |
| Transactions, `BRTransaction.c` | inputs, outputs, lock time; height and timestamp | parse, serialise, sign, size | shared by pointer | `BRTransactions`, sizes in `BRCoinSelection` |
| PIN, seed, wiping, `WalletManager+Auth.swift` | keychain: seed, public key, PIN, count of wrong PINs and its time, limit | authenticate, change, set a phrase, wipe | user interface, `Sender` | `WalletAuth` |
| Sending, `Sender.swift`, send screen | the transaction in preparation, a semaphore, a queue | verify the PIN, sign, publish | wallet, peer manager, keychain | `Sender` |
| Persistence, `WalletManager.swift` | SQLite rows of transactions, blocks and peers | write from callbacks, on a queue; load at start | callbacks of the core | in `BRChain`, `BRWallet` |
| Replicated store, `BRReplicatedKVStore.swift` | versioned rows, local and remote versions, a syncing flag | get, set, delete, sync a key, sync all | a remote service and other devices | `BRReplicatedKVStore` |
| Merkle blocks, bloom filters, keys, encodings, payment protocol | none that lasts | pure functions | wallet, peers | |
| User interface, API client, web platform, retry timers | presentation state | | | |
| Vendored libraries (secp256k1, unbound, nettle) | | | | |

What is hard in them:

* Wallet: transactions arrive in any order, children before parents, double
  spends, confirmations and reorganisations, while the flags and the balance are
  recomputed only now and then and every loop relies on the array's order.
* A payment: fee, coins, change and rounding depend on each other; the call
  reads the wallet before and after it takes the lock, and calls itself.
* Peer manager: peer threads, callbacks that fire when a peer answers or dies,
  one timer per peer for three purposes, and calls that release the lock in
  their middle.
* Chain and filters: blocks that arrive out of order, blocks dropped while a
  filter is replaced, forks that outgrow the best chain, a restart from rows
  that a queue wrote late.
* Relays: "nobody has it" is concluded from answers that may be late, lost or
  not counted.
* Application: a PIN answer after the wait for it ended, wiping in many steps
  that a kill or a failed write cuts short, rows whose versions change between
  a request and its answer.

The hazards, each at the line where it bites and with the properties that
guard against it, are listed in `PROJECT.json`; those no property covers have a
note that says why.

## 2. Plan

| step | modules | of | state |
|---|---|---|---|
| 1 | `BRTransactions`, `BRWallet` | the ledger | checked, every invariant proved |
| 2 | `BRPeerManager`, `Publication` | connections, download peer, sync, timers, publishing | checked, safety proved, refinement proved |
| 3 | `BRChain` | blocks, orphans, forks, reorganisations, saving and restoring | checked, safety proved but for two invariants |
| 4 | `BRFilterUpdate` | the filter replaced while blocks arrive | checked, invariants proved |
| 5 | `BRTxRelays` with `BRWallet` | verification by relays, removal of what nobody has | checked, safety proved |
| 6 | `BRSet`, `ItemSet` | the hash table against a set | checked, refinement proved |
| 7 | `BRCoinSelection` | fees and the choice of coins | checked, safety proved |
| 8 | `WalletAuth` | PIN attempts, phrases, wiping | checked, safety proved |
| 9 | `Sender` | the send screen, PIN, limit, publishing | checked, safety proved |
| 10 | `BRReplicatedKVStore` | versions of a row on two sides | checked, safety proved |

Left, in the order of their worth: the walk of a partial merkle tree in
`BRMerkleBlock`; the list of known peers.

## 3. The models

### `BRTransactions`, `BRWallet`: the ledger

`BRTransactions` has what never changes of a transaction: inputs, outputs, lock
height, and whether its size, a dust output or a replaceable sequence number
keeps it pending. The universe of transactions is a constant `Tx`, any set whose
members do not spend each other in a circle.

| `BRWallet.tla` | `BRWallet.c` |
|---|---|
| `allTx`, `transactions` | `wallet->allTx`, `wallet->transactions` |
| `height`, `timestamp` | `tx->blockHeight`, `tx->timestamp` |
| `ledger` | `balance`, `balanceHist`, `utxos`, `spentOutputs`, `invalidTx`, `pendingTx`, `usedAddrs`, `totalSent`, `totalReceived` |
| `chainLen` | the lengths of `internalChain`, `externalChain`; `allAddrs` follows from them |
| `saved` | what the callbacks `txAdded`, `txUpdated`, `txDeleted` told the app |
| `TxAfter`, `InsertTx` | `_BRWalletTxCompare`, `_BRWalletInsertTx` |
| `Account`, `UpdateBalance` | `_BRWalletUpdateBalance`, one turn of its loop and the loop |
| `Grown`, `UnusedAddrs` | `BRWalletUnusedAddrs` |
| `RegisterTransaction`, `RemoveTransaction` | `BRWalletRegisterTransaction`, `BRWalletRemoveTransaction` with its recursion |
| `UpdateTransactions`, `SetTxUnconfirmedAfter` | the functions of those names |

`UpdateTransactions` is a fold over the hashes of a block, as the code's loop
is: each turn moves one transaction in the array while the rest still have their
old heights. `UpdateBalance` is a fold over the array. Both are recursive
functions, not `RECURSIVE` operators, so that they can be proved about.

The calls come from the peer manager, with its lock held, so each is one step:
`RelayTx`, `VerifyTx`, `DropTx`, `ConnectBlock`, `Reorganize`, `GenerateAddrs`.
They are driven by an honest chain, `mined` and `tip`. A block may be empty or
hold up to `MaxBlockTx` transactions; parents precede children, no output is
spent twice, and a peer sends the matching transactions of a block before the
block. A reorganisation is `Reorganize`, back to the fork, and then the blocks
of the new branch one by one, as `_peerRelayedBlock` does it.

Left out: lock times that are dates; the `balanceChanged` callback and the two
flags of `txDeleted`, which tell the user something and change nothing; signing;
the read-only queries except `BRWalletTransactionIsValid`.

### `BRCoinSelection`: making a payment

Of the wallet it keeps what the choice reads: the amounts of the unspent
outputs, the balance, the fee rate. `BRWalletCreateTxForOutputs` goes through
`ReadMinOutput` (`BRWallet.c:616`, the wallet's lock taken and released),
`Begin` (617), a `TakeCoin` per turn of the loop, and ends with `Refuse`,
`Return` or `Shrink`, the call of itself with smaller outputs (638-655), which
starts at "called" again. The callers are `Send`, `SendWithOpsOutput` (after the checks of the send
screen's `sendTapped`, `MayBeSent`) and `FeeForTxAmount`. `Receive`, `Lose` and `SetFeePerKb` are
other threads: they run between calls, and within a call until it has the lock.
What they do after it is not shown, since the call reads nothing of it.

Sizes and fees are the code's formulas, with the constants of `BRTransaction.h`
as parameters. All outputs have the size of a pay-to-address output, as they do
for both callers. The estimate of the send screen is the fee of a payment with
one output of amount and ops fee together; the payment it is for has two, so its
fee is larger by that of an output: the model shows both calls, and no property
compares them. `BRTransactionSetMessage`, which would add to the size, has no
caller in the application.

### `BRPeerManager`, `Publication`

| `BRPeerManager.tla` | code |
|---|---|
| `conn[p].status` | membership in `connectedPeers`, `BRPeerContext.status`, `waitingForNetwork`, and where the thread is |
| `conn[p].shut` | the socket was closed by `BRPeerDisconnect` |
| `conn[p].timer` | `disconnectTime` is set (`BRPeerScheduleDisconnect`) |
| `conn[p].pongs` | `pongCallback`, in order: `_loadBloomFilterDone`, `_mempoolDone` |
| `conn[p].sentMempool`, `awaiting` | `sentMempool`, and a callback waiting for the answer |
| `conn[p].offered` | `knownTxHashes` as far as it matters: what an inv told the peer |
| `conn[p].error` | the error its thread reports when it ends |
| `downloadPeer`, `failures`, `estimated`, `lastBlock` | `downloadPeer`, `connectFailureCount`, `estimatedHeight`, `lastBlock->height`; `isConnected` is `downloadPeer # NoPeer` |
| `syncing` | `syncStartHeight > 0`: `syncStarted` was called and `syncStopped` was not |
| `published`, `told`, `sent` | `publishedTx` with or without a callback; what the callback was called with; what was handed to a peer |
| `threads`, `app` | how many threads are at each point of `BRPeerManagerConnect`; what the app's own thread is doing |

A step is a section of code under `manager->lock`, or a step of a peer's thread
outside it. `BRPeerManagerConnect` releases the lock twice, for `syncStarted`
and for the DNS lookup, and `BRPeerManagerPublishTx` once: there the model's
thread stands at a point (`connect`, `started`, `fill`, `publish`), and every
other step can come in between. The peer thread's steps are `OpenSocket`,
`Handshake`, `PeerConnected` (`_peerConnected`), `ExtendChain` and `DropBlock`
(`_peerRelayedBlock`), `Misbehave`, `MempoolAnswered`, `Pong`, `HasTx`,
`HasOtherTx`, `RequestTx`; then `LeaveClosed`, `TimeOut` or `Fail`, `Flush` (one
outstanding ping is called back as a failure) and `Disconnected`
(`_peerDisconnected`). The app's are `AppConnect`, `AppDisconnect`,
`AppDisconnected` (the poll sees nobody), `AppRescan`, `AppPublish`,
`AppPublishes`. `NetworkChanges` is the reachability of the network.

`Publication` is what publishing promises: each transaction is answered once at
most, with success only when a peer is handed it, and one that failed is handed
to nobody. `PublicationKept` is its specification under a refinement mapping
that reads the outcome off `published`, `told` and the publishing thread.

Abstractions. The list of known peers is not kept: DNS and other peers put any
address in it, so `Fill` opens any set of peers not held that fits. Of the chain
only the height is kept. A block that extends it is compared with the old
`estimated` and then raises it (`BRPeerManager.c:1297`, `1383`). Blocks that do
not extend it are in `BRChain`: one that is held already, one on a fork, and one
that waits as an orphan for a rescan to come up to it. Of these the ones with a
height raise `estimatedHeight` too (1383), and a fork that overtakes moves
`lastBlock`; the estimate can only grow in all of them, which is what
`DownloadPeerHeld` needs. What the filter is, and the requests that follow its
change, are in `BRFilterUpdate`; here an update shows as a dropped block. Which
of several equally high peers is chosen depends on ping times, so any may be.
Callbacks of the app run after the lock is released; `told` records a publish
callback when it is decided. The arrays of pong callbacks are written by two
threads without a lock of their own (`BRPeer.c:1496`, in the hazards); the model
takes them as atomic, and thread creation (`BRPeer.c:1148`) as successful.

### `BRChain`: blocks, forks, rows

Blocks are members of a given tree. A step is one call of `_peerRelayedBlock`
under the lock, one action per branch: `RelayOrphan`, `RelayInvalid`,
`RelayExtension`, `RelayExisting`, `RelayDuringRescan`, `RelayOldFork`,
`RelayFork`, `Reorganize`, each with the verification and pruning of
`_BRPeerManagerVerifyBlock` before it. `todo` is what the thread does after it
released the lock: `Save` hands rows to the app, `Adopt` relays the orphan that
waited. `queue` is the serial queue of `WalletManager.swift`, `Write` its next
job, `rows` and `txRows` what is on disk. `Restart` loses the queue and the
memory and does what `BRPeerManagerNew` does with the rows in any of the orders
in which orphans with one parent replace each other. `Rescan` is the rescan's
choice of the checkpoint.

A transaction of the wallet is in at most one block of each branch, and was
registered before its block, as merkle blocks are relayed (`BRFilterUpdate`).
Targets and timestamps are right. The checkpoints are on one line, and none is
the parent of another (`CheckpointAssumption`). `stubs` are the checkpoints that
were put into the set at the start, which have no `prevBlock`; pruning frees them
like any other. The writes that a reorganisation makes for transactions come in
the order of the code, from the newest block to the oldest (`WritesOf`). Not shown:
`lastOrphan` (it is in `BRFilterUpdate`), and what the runs are too small for:
forks deeper than one interval, and a NULL join of a reorganisation
(`ReorgUnconfirms` speaks only of walks that meet, `Joined`).

### `BRFilterUpdate`: the filter

The chain is a line; block b pays the wallet's address `Pays[b]`; a filter is
the number of addresses it was made with. Messages of a connection are taken in
order, in both directions, and nodes filter by what they were sent, as bitcoind
does: a merkle block carries the number of its transactions that match, and is
complete when they have come. `Handle` is the peer's thread reading one message:
an inv, a merkle block whose transactions come first (`RelayedTx`, then the
block, with the lock released in between), a pong, whose callback is one of the
three steps of an update; the ping of `_loadBloomFilterDone`, after which a
mempool is asked for, is left out with the mempools. The wallet hands out its
addresses in order, so no block pays one further than the gap limit past those
used before (`PaysAssumption`). `Lose` is a lost connection, `TimeOut` a
peer that is dropped, and `Leave` what its thread does at its end.
`Serve` is the node; `Mine` adds a block. Mempools, publishing and false
positives are left out; `Degraded` are blocks after which the rate is too high.

### `BRTxRelays`: who has what

It extends `BRWallet`, whose operations it calls, with the blocks of the honest
chain and the variables of the manager and its peers. `section` is what the
thread that holds `manager->lock` has still to do: the sweep of
`_requestUnrelayedTxGetdataDone` removes one transaction after another, each call
of the wallet a step. What the app stored was in its wallet (`StoredAssumption`),
and the chains of addresses have their full length, which is what they have after
the last transaction anyway. Nodes have mempools, closed under parents, which
gain and lose transactions; they answer at the time they are asked. All peers
report the same block, one filter matches everything, and the wait of ten seconds
for a mempool ends in an empty inv. What is freed and still on the publish list
is taken as it was; a peer dropped for a reject, and `BRPeerManagerPublishTx`
when nobody is connected, are left out here (the latter is in `BRPeerManager`).

`CountedAreKept` is what the sweep is for: what a connected peer has is not
removed, unless the news of it is `Late`. `missed[p]` is a history: what p has
and showed when it was not counted (during a sync, or before it was of the
wallet), what a notfound that came after the news took back, and an invalid
transaction p got from the wallet itself. The third excuse is a peer flagged by
the ping of a publish before its mempool was asked for. As a removal takes along
what spends the removed, the excuse may be that of an ancestor (`Lineage`).

### `BRSet`, `ItemSet`: the hash table

The table itself, bucket by bucket: growth, probing with wrap-around, and the
cleanup after a removal. Buckets are counted from 1. `Probe` is the first of the
buckets from the item's own on where the loop of the code stops (`Ends`); the
other loops are turns of `Loop`, a recursive function, as a module with
`RECURSIVE` operators could not be proved about. `ItemSet` is a set that holds one item per key;
`SetKept` is its specification with `members` the items of the table. Every
caller holds the lock of what the set belongs to, so a call is a step. The
traversals that only read are left out. The comment "maximum load factor is 2/3"
(`BRSet.c:30`) is approximate: a table of seven buckets holds six items.

### `WalletAuth`: PIN, seed, wiping

`keychain` is a record of the items; a call is a list of writes (`todo`) that
`Write` makes one by one, and any of them can throw (`Throw`) or be the last
before the app is killed (`Kill`, which loses `failedPins` and the key in
memory). The delay grows as `pow`, a recursive function, does; at least one
failure is free of it (three in the code). `Authenticate`, `ForceSetPin`, `CreatePin`, `Recover` and `UserWipes`
begin a call; `RightPin`, `WrongPin`, `Forced`, `Derive` and `SeedSet` go on with
it. A phrase stands for the seed and for the key derived
from it. Calls come one at a time. Left out: deleting the database files, the
API key, the creation time. A kill between the comparison and the write of the
time of a failure leaves no lock-out for that attempt; `cut` records that, and
`LockoutHolds` excuses it.

### `Sender`

Main thread, `walletQueue` and the peers' threads. `ui` is where the send screen
is: it asks for confirmation, biometrics or the PIN, and blocks at most thirty
seconds while a job verifies it. Jobs sign and publish in order; `Answered`
brings a result back. `Alive` is whether the weak reference to a Sender still
finds one. Of the peer manager it keeps the publish list and its callbacks, of
the wallet what is registered. Use of freed memory either finds it as it was or
ends the process (`Crash`). One send screen is open at a time, coins that arrive
go last, and dismissals of the screen from elsewhere are left out.

### `BRReplicatedKVStore`

A row holds the time of the edit that made its contents, on clocks that agree and
that tell any two edits apart. The code keeps milliseconds, and the server's list
too, but the date that comes with a value or the answer to a put is an HTTP date
in whole seconds (`BRAPIClient+KV.swift:158`): two edits within a second may be
decided the other way there. A sync asks for the list, then for each key runs the decision of `_syncKey` and
makes its request; the server serves it (`Serve`), and the answer is handled
(`Take`) or lost, before or after it was served. `LocalEdit` comes at any time;
`Elsewhere` is another device. The server's optimistic lock is external. Database
errors are left out, and with them the `try?` at `BRReplicatedKVStore.swift:530`
that could leave `syncRunning` set; the test and set of `syncRunning` (440, 446)
is one step.


## 4. Runs

`tlc -workers 2 -config <cfg> <module>`; every cfg is named after its module and
its run.

| run | question | distinct states, time on two cores |
|---|---|---|
| `ledger` | is the ledger right whatever is relayed, verified, dropped, confirmed and reorganised away | 60,498, under two minutes |
| `sync` | are the download peer, the end of a sync and publishing right, with a rescan, timeouts and failures | 3,927,660, three minutes |
| `timed` | does a stalled sync end, and an offer, when threads are fair | 154,634, under two minutes |
| `chain` | does the chain stay rooted, and do heights follow it, over forks, restarts and rescans | 77,891, seconds |
| `checkpoint` | is every block of an honest chain accepted from any of the checkpoints (it is not) | seconds |
| `filter` | is any block missed while the filter is replaced, and is there always a filter again | 150,466, half a minute |
| `relays` | is only removed from the wallet what no peer has | 1,377,598, one minute |
| `set` | does the hash table do what a set does | 90,000, a minute |
| `coins` | is the fee of every payment right, and is none refused that could be made | 332,457, seconds |
| `pin` | do wrong PINs stay counted and does the seed stay where it must, whatever write is the last | 3,643,390, half a minute |
| `send` | is a payment answered, and only once, and the limit kept | 94,382, seconds |
| `kvstore` | are edits kept, and do two sides come to agree | 1,440,411, one minute |

### Bounds

`ledger`: four transactions, a payment, two that spend it and a child of one of
these, the smallest family with a double spend, a chain of parents and a parent
that can be lost to another; one of the two is postdated, so it waits; the child
pays the wallet, so it belongs to it by itself. Blocks of up to two transactions
and a chain of two blocks let all of the family be confirmed, together or apart,
and unconfirmed from any height. Address chains are cut at five, with a gap
limit of one: longer than the three addresses the family can use.
`TX_UNCONFIRMED` is 9, above every height, as INT32_MAX is. The universe is
finite, so this model may stop where the wallet would not: `CHECK_DEADLOCK
FALSE`, here and in the other runs whose counters of events run out.

`sync`: two peers, one of them a block ahead, two connections, heights 0 to 2, a
limit of two failures, two outstanding pings, two threads, two calls of the app,
one of them possibly a rescan, and one transaction to publish, once. Two peers
are enough for one to replace the other as download peer, for each to die at any
point of that, and for both to fail in a row, which takes the failure count to
its limit. The initial height is any, so a wallet that is behind, level or ahead
is covered; `Lag` is 0, so a peer that is behind is dropped, as it is at ten
blocks in the code. `timed`: the same with peers of one height, one call and one
outstanding ping, because liveness needs the whole graph in memory. The counters
are bounded by guards on the steps that increase them: calls in the app's steps,
pings in `Handshake` and `ExtendChain`, threads in `Fill`, heights in
`ExtendChain`. These two runs check for deadlock.

`chain`: a difficulty interval of two blocks and seven blocks: a genesis block,
two that lead to a transition, which is a checkpoint too, one more, and from the
checkpoint a branch of three that outgrows it and has the next transition. Two
transactions are mined, one in both branches at different heights, one only in
the branch that is left. Two peers relay any block at any time (they are alike,
so symmetric). The queue holds one job, which waits as long as it likes; one
restart or one rescan happens at any point. `checkpoint` is the same tree without
its genesis block, with a checkpoint between two transitions as its start.

`filter`: four blocks, three of them there at the start; a new filter covers two
addresses more than are used, one of which the next payment uses up (`Gap` 1,
`Spare` 2), and at the third block the false positive rate is too high, so a
filter is replaced for either reason. Two connections can be lost, at any
message. With `Spare` = `Gap` a fresh filter
is used up by the very next payment, and `FilterComesBack` fails; in the code
the lookahead of a filter is 100 addresses over gap limits of 10 and 5.

`relays`: two alike peers, a payment and what spends it, one block, and three
events, which are connections, blocks, and changes that mempools undergo by
themselves: two connections, as a removal needs, and one event more.

`set`: tables of 1, 3, 5 and 7 buckets, the first of which is never used, as in
the code, so a table grows twice; six items of five
keys, one key with two items; all keys hash to 4 or 6, so chains of probes wrap
around the end of the table, overlap, and are broken by every removal.

`coins`: four coins, one of them dust, fee rates of which one is the minimum, and
a size limit that three inputs reach (in the code some 670), so a payment that
gets too large happens. One change of the wallet by another thread in a call; the
same holds with two (1,227,268 states).

`pin`: four PINs, so three wrong ones after another and the right one are
different; three failures of the code's eight, of which two are free of delay
(three in the code); time to 3, past the longest delay of the model; two faults,
a throw or a kill each. `send`: three payments on two screens one after another,
amounts of one and two under a limit of two, so that one payment or two exceed
it, and one timeout of the PIN wait. `kvstore`: two keys with three edits on
either side and one fault; the instance of one key with four edits and two
faults holds too.

### Fairness

The ledger, the chain, relays, the hash table and the keychain have none: they
are called. `FairSpec` of the peer manager says that a thread that can take a
step of its own takes it: it connects its socket, takes a lock that is free,
notices that its socket is closed or that its timer is due, calls back what is
outstanding, and reports its end; that a thread in a Connect goes on; and that
the poll of Disconnect looks. These are the operating system's threads and the
loop of `_peerThreadRoutine` (`BRPeer.c:945`), which reads with a timeout of one
second and looks at its deadline in between. `TimeOut` is weakly fair, so a timer
that is set for good does end the thread, and one that is set again and again
need not. Nothing is assumed of peers, who may never answer, of the network,
which may never come back, or of the app, which need not call.

`BRFilterUpdate` asks more, since a sync needs somebody to sync with: a peer
connects when there is room, a node serves what it is sent, a thread reads what
there is and ends when it should (weak fairness of `PeerConnected`, `Serve`,
`Handle`, `Leave`); none of `TimeOut`, `Lose` and `Mine`. `Sender`: the queue
runs its jobs, and a publish that is canceled is called back (weak); an answer
that is possible again and again comes (strong), because the peer manager's own
timers see to it (`OfferEnds`). `BRReplicatedKVStore`: requests are answered or
fail and the steps of a sync go on (weak), and a sync of all keys that can begin
again and again does (strong): the app begins one whenever it starts
(`initKVStoreCoordinator`, `ApplicationController.swift:259`), and is started
again and again. `BRCoinSelection` has fairness only to state
`CallReturns`.

### Statements the code does not keep

Several comments, names and assumptions of the code turned out not to hold. They
are stated in the modules, under a heading that says so, for who wants to change
that code. One is a run:

* `checkpoint`, `HonestAccepted` (`BRChainParams.h:69`): the comment beside the
  checkpoints says that they must be at difficulty transition boundaries; those
  with heights that are no multiple of the interval are not, and the chain that
  starts from one takes the next transition block for invalid, because the
  transition before it is not there. `findings` in `PROJECT.json` has the trace.
  In `chain`, whose checkpoints are at transitions, the property holds.

The others are definitions that TLC refutes when they are put in the place of
the properties of the run named:

| definition | run | what happens |
|---|---|---|
| `AssociatedAreHeld` (`BRWallet.c:756`) | `ledger` | a child relayed before its parent is filed as a stranger, stays one, and later registrations report success |
| `UtxosAreUnspent` (`BRWallet.c:207`) | `ledger` | a pending transaction's inputs are recorded as spent, and are not taken out of the unspent outputs |
| `BalanceIsValid` (`BRWallet.c:113`) | `ledger` | a child that stands before its parent counts, although the parent is invalid |
| `LockedArePending` (`BRWallet.c:977`) | `ledger`, family `Fund` of `MCBRWallet` | marking a transaction verified sets the wallet's height to INT32_MAX, and a future lock height is no longer in the future |
| `CallReturns` (`BRWallet.c:640–655`) | `coins`, under `FairSpec` | a payment that is too large is tried again with less, and the smaller one can need as many coins; with amounts that are all multiples of 100 it returns |
| `HasOutputs` (`BRWallet.c:608`) | `coins` | the smaller payment can be one of nothing: the main output goes and the ops fee is paid alone |
| `SuccessMeansSynced` (`BRPeerManager.c:579`) | `sync` | the mempool answer of a former download peer ends the sync of its replacement with success, and cancels its timer |
| `NoReconnect` (`BRPeerManager.c:1684`) | `sync` | a thread about to reconnect is taken for a manual retry after Disconnect, and connects while Disconnect waits |
| `FailuresAreNotified` (`BRPeerManager.c:885`) | `sync` | a failure more than the limit is not equal to it: neither the sync nor the publishes are ended |
| `DisconnectReturns` (`BRPeerManager.c:1772`) | `timed` with two calls | a connection that has no socket yet, or waits for the network, is not told to stop, and Disconnect polls for ever, on the queue that would connect again |
| `LastBlockKnown` | `chain` | a transition block that is relayed during a rescan prunes the block that the rescan has come to |
| `ConfirmedAreMined` | `chain` | a rescan goes back without unconfirming anything, and the chain that it finds then may be another branch |
| `AllScanned` (`BRPeerManager.c:782`, `1239`) | `filter` | a second peer's handshake loads a filter in the middle of the download peer's update, and blocks come through the old one |
| `CallbacksFindPeers` | `filter` | a pong outlives the connection its callback is about |
| `NoneHasIt` (`BRPeerManager.c:474`) | `relays` | a transaction is removed while a peer has got it since and the news is under way |
| `MempoolsFirst` (`BRPeerManager.c:494`) | `relays` | the ping of a publish flags a peer as synced before its mempool was answered, and the sweep begins |
| `RequestsAreHeld` (`BRPeerManager.c:871`) | `relays` | the end of a connection clears `txRelays` and not `txRequests`: what that peer was asked for is never removed |
| `EnoughAreVerified` (`BRPeerManager.c:1508`) | `relays` | a peer that asks for a published transaction is counted, and nothing is verified when it is the last that was needed |
| `FreedAreUnlisted` | `relays` | what a sweep frees is still on the publish list |
| `CopyIsHeld` | `relays`, the app's rows with the child first | what a sweep frees is further on in the sweep's own array |
| `FormHasNoTransaction` (`SendViewController.swift:403`) | `send` | a payment whose PIN dialog was canceled stays in the sender, and the form can be filled in again |
| `SenderExists` (`Sender.swift:172`) | `send` | the screen closes between the job that signs and the one that publishes, which asserts that the sender is there |
| `FreedIsUnlinked` (`BRPeerManager.c:1918`, `1937`) | `send` | after a PIN timeout a second PIN publishes the same transaction again, and it is freed while it is on the list |
| `WipeNeedsUnique` | `pin` | the PINs that failed are kept in memory: after a restart the same one counts again |
| `LastWriteWins` (`BRReplicatedKVStore.swift:384`) | `kvstore` | recording the server's version stamps the row with the time of now, and it wins over a later edit elsewhere |

The download peer of a sync can lose its timer in the case of
`SuccessMeansSynced`, which is why the liveness of `timed` is checked for peers
of one height.

## 5. Proofs

`tlapm <module>` checks them. They hold for every set of transactions, peers,
coins and keys and for every bound; the models' bounds are parameters of the
theorems. The library's induction theorem takes a predicate, which the provers
cannot instantiate; where a module needs induction it proves it for a set of
naturals instead (`NatSetInduction`), from the well-foundedness of finite sets,
and the folds of the models, recursive functions, are followed with it.

`BRWalletProofs`. Assumed are `TxAssumption` and `WalletAssumption`: types of the
constants, `TX_UNCONFIRMED` above every height, the gap limits within the bound
of the address chains. The inductive invariant `WalletInv` is, beside `TypeOK`,
`SortedByHeight`, `NoDangling`, `SavedMatches` and `HeightsFollowChain`:

* `HeldAreAssociated`: what is in the array belongs to the wallet. A block that
  confirms a transaction of the wallet takes the branch that keeps it only if
  `ContainsTx` still says so; `HeightsFollowChain` fails without it.
* `UnknownAreNew`: what is not kept has the height of a new transaction, so that
  registering it again puts it at the end of a sorted array.
* `ChainOrdered`: mined transactions are at most at the tip, and a parent's
  block is not above its child's.

The work is in the fold. `UpdateTransactions` changes one height at a time, so
between two turns the array is sorted for heights that are neither the old ones
nor the new. The lemmas show that a turn keeps the array sorted for the heights
of its own, because the moved transaction is taken out and inserted by them, and
that the insertion sort's early stop is right in a sorted array whatever the
partial order says of equal heights. That is the property three other loops of
the file rely on.

Its second part proves what a recomputation leaves: the flags, that no output is
spent twice by what counts, and that the balance is the sum of the unspent
outputs. The loop of `_BRWalletUpdateBalance` is followed turn by turn with `Sorts` and `Balances`,
which speak of a prefix of the sorted array. `LedgerInv` adds to `WalletInv` the
three invariants and `MinedDisjoint`, that the chain spends no output twice: that
two confirmed transactions never conflict comes from there. That the ledger is
right also where the code does *not* recompute it comes from `LoopInv`, which
follows the heights through the loop of `UpdateTransactions`; that the history is as long as the array, from the
cardinality of a set without repetitions.

Its third part is about `BRTxRelays`, whose wallet is the same one: each of the
manager's steps is a step of `BRWallet` that keeps `WalletInv`, or leaves the
wallet alone (`ManagerKeepsWallet`). Assumed are `RelayAssumption` and
`StoredAssumption`. `RelaysInv` adds to `WalletInv`:

* `ChainKept`: what is confirmed and the wallet's is kept at its height, and the
  ancestors of what is confirmed are confirmed;
* `NetTypes`, the types, from which `RelaysTypes` follows, and `SectionKept`: the
  sweep and the update under way are about unconfirmed transactions, every
  connected peer is flagged while a sweep goes on, and what its copy of the array
  names was removed or is still in the array;
* `PoolsClosed`: mempools are closed under parents;
* `PeerInv`, for each peer: of each transaction at most one getdata, notfound or
  reject is on its way, and only of those the node was told; a reject of what the
  node has now is followed by news of it; and for each transaction of a mempool
  that was asked for, the peer is counted, or the news is under way, or it was
  missed.

`CountedAreKept` (theorem `CountedStay`) needs the last clause when the sweep
takes a transaction nobody is counted for, the closure of the mempools for what
is removed with it (`RemovedLineage`), and the order of rejects and news because
a reject takes a peer off the list. The lemmas before say how these predicates of
a queue change when a message is read and when answers are appended.

`BRChainProofs`. Assumed are `ChainAssumption` and `CheckpointAssumption`. What is
recursive, the line of ancestors (`Line`) and the writes of a reorganisation, is
followed by induction on heights. `TypeInvariant` follows from the actions.
`Agree` says that no block that differs from a checkpoint is kept, waits to be
written, or is a row (`CheckpointsHold`). `RootedInv` is the core of
`LastBlockRooted` (theorem `ChainRooted`): unless the app scans again, `lastBlock`
is kept and has a root, a stub or a transition that a walk along kept blocks
reaches; what is above it is a stub that the chain has not come to; and a stub
whose parent is kept has the last block for a parent. The last two clauses say
that a checkpoint stops to be a stub only when it extends the chain, and that
what a transition frees is below the transition before it, on forks too. A
restart needs no more than `Agree`: whatever subset of the rows the table of
orphans has kept, the chain it makes of them begins at a transition
(`RestoredKeepsRoot`). `ReorganisationUnconfirms` is an action property: a step
that leaves the line of `lastBlock` is a restart or `Reorganize`, which, when its
walks meet, unconfirms all above the join before it confirms the new branch.

`BRPeerManagerProofs`. Assumed is `ManagerAssumption`. `ManagerInv` is:

* `TypeOK` and `DownloadPeerHeld`: the second half of it, that `estimated` is not
  below what the download peer reported, holds as only the choice of a download
  peer sets the estimate, to just that, and blocks can only raise it;
* `Answers`: how `published`, `told` and `sent` go together, from which
  `ToldOnce` follows. It is a case per transaction: not yet answered, answered
  with ok and maybe sent, answered with failed and in no list;
* `Known` and `Timely`: what a peer was offered is published or was answered,
  and a peer that was offered something a callback waits for has its timer set;
* `GivenUp` and `SyncHasDriver`: a failure count at its limit with nobody held
  and no thread on its way means that the sync ended or the app left.

Many steps build the new connections from several operators (a filter sent, an
inv offered, a ping). Three relations say what such a step may do, `Offering`,
`Quieting` and `Filling`; each operator is shown to be one of them, they
compose, and each of the twenty-odd actions is then shown to keep each part of
the invariant. `PublicationIsKept` is the refinement: initial states map to
initial states, and each step to a step of `Publication` or to a stutter, with
`ManagerInv` for what was told before.

`WalletAuthProofs`. `AuthInv` says of each call in progress which of its writes
are still to be made and what the keychain holds meanwhile (`Typed`, `Counted`,
`Seeded`): the three invariants speak of every moment, also between two writes,
and only that makes them inductive over a kill. `Timed` adds what the lock-out
(`LockoutHolds`, theorem `DelaysAreKept`) rests on: the time of the last wrong
PIN is on the keychain or the next thing to be written, no write makes it
earlier, and a PIN under comparison has waited (`Waited`). The count on the
keychain may be ahead of the PINs that were compared, never behind
(`Counted`), and the delay does not fall with the count, by induction over
`pow`: so the delay that the code reads off the keychain is at least the one
that is due.

`BRFilterUpdateProofs`. Assumed are `FilterAssumption` (types, `Gap <= Spare`)
and `PaysAssumption`. `ScanInv` has three parts. `Types` needs a step of its own
where the download moves to another peer (`CandidateIsOther`). `Right` says of
every connection that it is `Proper`, one callback for each ping and pong on the
way, from which `TypeOK` follows; and, while one peer at a time is connected,
that nobody but the download peer is there and that its connection is `Linked`:

* `Pings`: the callbacks that wait are none, the one of a ping of an update, or
  the third ping of an update with the first of the next behind it;
* `Flushed`: until the pong of the first ping has come, everything asked for
  with the old filter is ahead of it, in one direction or the other; until that
  of the second nothing is asked for at all;
* `Filtered`: while the manager has a filter, no request is ahead of a filter on
  its way, the node ends with the manager's filter when it has read everything,
  what its answers leave out is for no address of it, and the block in progress
  has its transaction in the wallet if it pays one of its addresses.

The third part is what is said of the manager: every accepted block is scanned,
the filter has the next `Gap` addresses, and no orphan is from an older filter
(`Matched`). An answer is filtered when the node reads the request, so
`Filtered` follows a request from the queue out to the queue in; that a block
can be dropped without being asked for again does not show as a missed
transaction, because the chain does not go past it. The step that the argument
turns on is `UpdateFilterPingDone`: the new filter makes `Filtered` true from
nothing, since `Flushed` has emptied both queues of what belongs to the old one.
With two peers at once neither holds, as `AllScanned` in section 4 shows. The
lemmas at the head of the module say how each of the predicates on a sequence
(`Has`, `Followed`, `NoneAfter`, `EndsWith`, `Number`) changes when a message is
sent and read; there is a lemma `...Keeps` for each action.

`SenderProofs`. Assumed is `SenderAssumption`. `SenderInv` goes from the list of
payments to the limit:

* `Types`, `Stages`: a payment is created, signed, published and registered in
  that order, whatever the queue holds;
* `OnePerScreen`: a screen lets one payment past its confirmation and keeps it,
  and payments of different screens are different;
* `TouchJobs`, `SignJobs`: which jobs can be in the queue with which others, and
  that the job somebody waits for is the only one that is awaited;
* `OncePerTimeout`: the jobs of a payment, the dialog that would add one and
  what was already handed over are, counted, at most one more than the timeouts.
  `FailedAreOut`, and with it `FailureIsFinal`, follows without a timeout, and
  `ClosedIsOver` with less than two;
* `Coins`, `Limits`: payments take the first coins, so of those not registered
  only the ones made since the last registration are valid, and these were
  checked against what is registered now. That is why `LimitKept` holds although
  the check does not see payments on their way.

`BRReplicatedKVStoreProofs`. `KVInv` has the types, `Past` (no row or version is
of the future), `Staged` (what a sync has for a key fits how far it is), and
`ListedIs`, `Knows`, `Records`: a version that was listed, is in an answer or is
recorded is not above the server's, and when it is the server's it stands for the
same contents. From it follows
`RecordedMeansEqual`. `EditInv` is for the action property `EditKept` (theorem
`EditsAreKept`): of a row whose edit was made while nothing of its key was on
its way, the server's copy and the listed one are older edits whenever they are
older by time (`Yields`), and a call that is about to replace the row found it
older than what was listed (`Chose`).

`BRCoinSelectionProofs`. `CoinInv` is `TypeOK`, the fee of a call in progress
(`FeeOfNow`, `RateRead`), the coins taken as a prefix of the unspent outputs
(`NothingTaken`, `TakenInOrder`), one or two outputs (`OneOrTwo`), and
`FeeIsRight`. Amounts are summed by a recursive function, which is followed by
induction; that a fee never falls with the size, by the monotony of the two
fees. `RefusedOnlyIfShort` follows from `TakenInOrder`: a call that refuses has
taken all coins. `MaxIsSendable` needs `PaidInFull`: a call that was asked for no
more than `MaxOutputAmount` never reaches a branch that shrinks or refuses,
because the coins it has taken are never more than all, for which the maximum
leaves the fee.

The same module has the proofs about `BRSet`, which holds the blocks and the
orphans as it holds the transactions. Assumed is `SetAssumption`: a table
keeps a bucket empty and holds more items than one of the size before (true of
the fifty sizes of tables in the code, though 45887 buckets hold 30592 items, one
less than the size before has buckets), and the largest, of four thousand million
buckets, has room for all keys there are. `SetInv` says that a table is `Good`: it counts
its items, no two are equal, it is not over its limit, and every item is
`Reached`, which is to say that no bucket is empty from the one of its hash up to
its own. `Reached` is what lookups need (`FoundIs`) and what a removal breaks:
`Cleaning` follows the cleanup turn by turn, and says that all is reached but what
lies in the rest of the run. It holds because a path that crosses the emptied
bucket and ends outside the rest of the run would cross the empty bucket behind
it (`StillReached`), and because an item that goes in again lands in the part that
was done before (`CleaningGoesOn`). That nothing moves from behind a bucket to
before it is what `BRSetIntersect` needs, which goes on from the bucket it
emptied (`ScanGoesOn`). `SetsAreCounted` and the refinement, `SetsKeepItems`,
follow.

Only model-checked: of `BRChain`, `HonestAccepted`, which does not hold for every
tree (a checkpoint that is no transition, as in the run `checkpoint`, and a fork
from below what a transition has freed) and `MinedHaveHeights`, which rests on
the order in which rows of blocks and of transactions reach the disk over any
number of restarts;
and all of liveness, which needs fairness and ENABLED and is beyond this prover:
`StalledSyncIsReplaced`, `OfferEnds`, `CatchesUp`, `FilterComesBack`,
`SendIsAnswered`, `Converges`.

## 6. Not modelled

Whole components are listed with their reasons in `PROJECT.json`: keys, hashes
and encodings are pure functions over long words; the user interface and the API
client keep no state these properties speak of; secp256k1, unbound and nettle,
most of the repository's lines, are third-party code, so the share of its lines
that the models speak of stays small.

Within the components that are modelled, beyond what section 3 names:

* a data race below the locks: the pong arrays of a peer (`BRPeer.c:1496`), and
  two threads that both pass the test of `syncRunning`
  (`BRReplicatedKVStore.swift:440`);
* a thread that cannot be created (`BRPeer.c:1148`);
* readers of the history that hold an index across two calls
  (`BRWallet.c:1106`), and the timestamps of transactions that a reorganisation
  unconfirms (`BRWallet.c:1034`);
* the second publish of a transaction that is still listed, whose callback the
  first one's entry drops;
* edits made while an older one of the same key is on its way to the server:
  `EditKept` leaves them out (`calm`);
* failing SQL statements and decryption, of either store;
* parsing of messages, and the list of known peers.
