# TLA+ verification of the ETZ wallet core

The repository is an Android wallet for EtherZero, Ethereum tokens, Bitcoin and
Bitcoin Cash: a C core (`src/app/src/main/jni/etzwallet-core`), a Java
application above it (`src/app/src/main/java/com/etzwallet`) and a platform
layer (`src/app/src/main/java/com/platform`). The modules here model the part of
the core whose correctness depends on the order in which threads and messages
act, check it with TLC on small instances, and prove with TLAPS what can be
proved for every instance.

Paths below are relative to `src/app/src/main/jni/etzwallet-core/ethereum/`
unless they start with `src/` or name another directory of the core.

## 1. Inventory

| Part | State it keeps | Operations | Interacts through | Hard behaviour | What makes it correct |
|---|---|---|---|---|---|
| Event handler (`event/BREvent.c`, `BREventQueue.c`) | status, mutex, condition, queue of nodes, scratch event | start, stop, signal, set timeout, thread loop | the node signals; dispatchers call listeners | two locks, unlocked status, condition signals without the mutex | FIFO, no loss, one dispatcher at a time, everything handled |
| Node thread (`BREthereumLightNode.c` 165-261) | `state`, `client`, `thread`, `lock` | connect, disconnect, poll every 15 s | calls the client; shares `lock` with Announce calls | unlocked `state`, disconnect only asks | one routine, valid client, few late requests, ends |
| Light node (`BREthereumLightNode.c`, `BREthereumLightNodeAnnounce.c`) | wallets, transactions, blocks, block height | create, sign, submit, Announce* | the client's answers, on its threads | answers late, lost, repeated, out of order | one wallet per holding, one entry per transaction, chain order, blocked in the end |
| Wallet, transaction (`BREthereumWallet.c`, `BREthereumTransaction.c`) | sorted list; nonce, hash, status, block | insert, update, look up by hash or nonce | called by the light node | sort keys change outside the sort | nothing lost or doubled, order of the chain |
| Account (`BREthereumAccount.c`) | nonce of the address | increment when signing, raise when announced | signer and announcer threads | data race, stale counts, restart at 0 | a nonce is used once |
| Listeners (`BREthereumLightNodeListen.c`) | array of listeners | announce an event, dispatch it | event handler | events announced after the lock is released | order of events follows order of changes |
| Android client (`WalletEthManager.java`, JNI glue) | requests in executors | RPC calls, answers to Announce* | node thread, light node | background app drops requests, errors swallowed | answers are true of the chain at some time |
| Bitcoin wallet (`BRWallet.c`, `BRTransaction.c`) | transactions, spent and unspent outputs, balances, invalid and pending sets | register, remove, update, create | peer manager callbacks, Java | conflicts, reorganisations, any order of arrival | outputs, balances and sets agree with the transactions |
| Bitcoin peers (`BRPeerManager.c`, `BRPeer.c`) | peers, download peer, block set and tip, orphans, published transactions | connect, disconnect, relayed messages, publish, rescan | peer threads, wallet | many peers, failures, timeouts, reorganisation | tip has most work, each transaction confirmed on the tip's chain, publish callback once |
| Block, filter, containers (`BRMerkleBlock.c`, `BRBloomFilter.c`, `BRSet.c`, `BRArray.h`) | data | pure operations | used by all of the above | removal under open addressing, index bounds | agree with sets and trees |
| Values and encodings (`rlp/`, `util/`, `BREthereumEther.c`, `BREthereumGas.c`) | none | RLP, 256 bit arithmetic | Ethereum core | overflow | decode inverts encode |
| Keys (`BRKey.c`, `BRCrypto.c`, `BRBIP*.c`, `BRBase58.c`, `BRBech32.c`, `BRAddress.c`, `BRPaymentProtocol.c`) | none | cryptography, parsing | all | byte strings | test vectors |
| LES node (`les/`) | unfinished node | handshake, frames | nothing in the app | - | - |
| Key-value store (`src/.../com/platform/kvstore`) | local versions, remote versions, last sync | get, set, delete, sync | HTTP server | partial sync, conflicts, concurrent writes | no lost update, versions grow |
| Sending and authorisation (`PostAuth`, `AuthManager`, `BRKeyStore`) | PIN failures, lock-out time, pending request | authenticate, retry, send | user, Android key store | retry after authentication, clock | attempts counted, one send per confirmation |
| Bitcoin managers, executors, preferences, databases, API client, HTTP server | caches, tables | glue, input and output | - | - | - |
| User interface | views | - | - | - | - |

`PROJECT.json` lists every part under `components`, and under `hazards` what in
this code is hard to test, at the line where it bites.

## 2. Modules

```
EventChannel  <--implements--  BREvent  <--  MCBREvent, BREventProofs
EthNodeThread  <--  EthNodeThreadProofs
EthLightNode   <--  EthLightNodeProofs
BTCWallet  <--  BTCWalletProofs             wallet
BTCWallet  <--  BTCChain  <--  MCBTCChain   wallet, peer manager: blocks
BTCWalletProofs, BTCChain  <--  BTCChainProofs
BTCWallet  <--  BTCSync   <--  MCBTCSync    wallet, peer manager, peer: download
BTCWalletProofs, BTCSync   <--  BTCSyncProofs
BTCPublish  <--  BTCPublishProofs           peer manager, peers: publishing
KVStore  <--  KVStoreProofs
```

### EventChannel and BREvent: the event handler

`EventChannel` is what `event/BREvent.h` 110-115 promises: a signalled event is
queued and handled first-in, first-out. `BREvent` is the code.

| Model | Code |
|---|---|
| `status`, `lock`, `timed`, `scratch` | `handler->status`, owner of `handler->lock`, `timeoutDispatcher` is set, `handler->scratch` |
| `pending`, `available`, `cell` | the queue's two linked lists, as sequences of node numbers, and the contents of each node |
| `Enqueue`, `Dequeue` | `eventQueueEnqueue`, `eventQueueDequeue`, each one critical section under the queue's own lock (`queue->lock = *lock` copies the mutex) |
| `SignalEvent`, `CondSignal` | the two halves of `eventHandlerSignalEvent` |
| `StartCheck`/`StartThread`, `StopCheck`/`StopSet` | look at `status`, then store it: no lock is held |
| `Lock` ... `Exit` | the statements of `eventHandlerThread`, which returns with the lock held |
| `TimedWaitInvalid` | the Android timed wait whose nanoseconds exceed a second returns `EINVAL` at once |
| `sent`, `handled` | history variables, the state of `EventChannel` |

### EthNodeThread: connecting and polling

`state`, `client`, `lock` are the fields of the node; `control` is where
`lightNodeConnect` is, `pc` where each thread routine is, `request` the next
request of the round. Two history variables: `asked` says whether the last
disconnect stands or has been written over, by the routine's first store of
CONNECTED (176) or by a connect that had passed its switch (`WrittenOver`), and
`late` counts the requests made since, whatever the state is. One thread
connects (the application does so once, from a synchronized singleton), anybody
may disconnect at any time, any number of times. Each update function is two
steps, `Check` (look at the state) and `Issue` (call the client).
`AnnounceLock`/`AnnounceUnlock` stand for any Announce call. The sleep of 15 s
is a step.

### EthLightNode: wallets, transactions and announcements

Each Announce function and `lightNodeWalletCreateTransaction` runs under the
node's recursive lock and is one step that includes everything it calls: block
lookup, wallet on demand, lookup by hash and by nonce, creation, insertion,
status change and the resort. Transactions are numbered in the order of
`node->transactions`; a wallet's list is a sequence of numbers, with the
insertion sort of the code.

The chain and the pool are external: `mined` is the list of the transactions of
interest with block number and index, `head` the newest sealed block. An answer
is any value that was true at some time: an account nonce or block number at any
block up to `head`, any transaction of a sealed block, again and again. Replies
to submissions are at most one each, late or never. The chain does not
reorganise. Another device of the user may send from the same account
(`MineRemote`).

The nonce of the address is read and written without a lock, so each access is a
step: signing loads it (`LoadNonce`), stores the next one and its own
(`AssignNonce`), and signs (`SignTransaction`); an announced count is compared
(`CompareNonce`) and stored later (`StoreNonce`), by another thread. `stale` is
a history variable: a count was stored that was no longer above the nonce. No
guard reads it. One thread signs at a time, as the application does.

The application's part is taken from `WalletEthManager.signAndPublishTransaction`:
a transaction it created is signed once and then submitted once.

### BTCWallet: the operators of the Bitcoin wallet

`BRWallet.c` has no thread of its own: its functions run under `wallet->lock`,
called by the peer manager and the application. So the module holds operators on
a wallet record, one for each function: `RegisterTransaction`,
`UpdateTransactions`, `SetTxUnconfirmedAfter`, `UnusedAddrs`, and
`UpdateBalance`, the recomputation of the whole ledger, whose loop over the list
of transactions is a recursive function (`walk`) of the number of those passed;
the list is in the order of `TxIsAfter` (height, then parents first, then place
in the address chains). Each ends with everything the C function ends with: the
address chains grown, the ledger recomputed where the code recomputes it and
only there. `BRWalletRemoveTransaction` frees the lock between the dependents it
removes; `Dependents` and `RemoveLeaf` are its two halves, and `BTCChain`
interleaves them. `ConfirmTransactions` is the peer manager's call, which is
left out for a block without transactions.

Amounts are small numbers, an address is a chain and an index, a transaction a
model value with constant functions for its inputs, outputs and lock time.
Signing, fees and coin selection are left out.

### BTCChain: blocks, orphans, forks

The chain a `BRPeerManager` keeps, and the wallet below it. `_peerRelayedBlock`
is one step under `manager->lock`, and its branches are definitions in the order
of the code: orphan, refused (invalid, or a fork behind the last checkpoint:
`RelayRefused`), extension, block already known, fork, reorganisation;
`RelayBlock` ends with the walk through the orphans (`TakeNext`) and the saves
the branch makes. Verification keeps the difficulty window: a transition block
prunes (`Kept`) before the walk to the join starts, so the two walks of a
reorganisation see only what is left (`Side`, `Main`). `Joined` is where they
meet; when the blocks of the fork end first (`CutOff`) the code confirms what it
has of the branch from there. History variables: `setAside` (orphans the code
puts off until a rescan is over), `unchecked` (transactions whose confirmation a
rescan, a restart or a cut off reorganisation passed over), `pruners` (the
blocks that have pruned since the start) and `rebuiltFrom` (the height from
which the last restart rebuilt the chain); no guard reads them. `Rescan`,
`Restart` (the manager made again from the saved blocks and transactions), the
removal of transactions no peer relays, and the application's own registrations
run between the steps. The constants of `MCBTCChain` are a tree of blocks with a
fork across a transition and transactions that conflict.

### BTCSync: the download through a bloom filter

One peer, the manager's callbacks and the node at the other end. `toNode` and
the node's `out` are the two directions of the connection, first-in first-out.
`Accept*` are the message handlers of `BRPeer.c`; `AcceptMerkleblock` keeps a
block until the transactions it names have come. `UpdateFilter`,
`UpdateFilterLoadDone`, `UpdateFilterPingDone`, `UpdateFilterRerequestDone` are
the chain of pong callbacks that replaces a filter that has run out of
addresses. The node at the other end is external and does what BIP37 says: it
matches each block with the filter it holds at that time and adds the outputs it
matches. The connection may break anywhere (`Drop`), with what is under way
lost.

The node at the other end reads its memory pool in any order (`ServeMempool`),
the transactions of a block in the block's (`Scan`); `Recent` is the first block
whose orphans are not too old to keep. Assumed of the chain, by name: a
transaction is in one block, after its parents, and spends outputs they have
(`ChainAssumption`); nobody pays an address further ahead than the gap limit,
BIP44's rule, which is what makes a limited look-ahead possible at all
(`GapAssumption`); and, in the instance TLC checks, no transaction is
replaceable, locked or in conflict with another (`PlainAssumption` of
`MCBTCSync`: the ledger counts all that is registered; the proofs do not assume
it, see "BTCSyncProofs", and "Noticed" for what happens else).

### BTCPublish: publishing

Several peers, their handshake, choice and replacement of the download peer,
timeouts, failures, and the life of a published transaction: listed, told to the
peers (`Told`), asked for (`RequestedTx`), seen again (`RelayedTx`), cancelled.
The list also takes what peers relay of the wallet's own sends and what a listed
transaction spends from (`Additions`), and a transaction that is listed or
confirmed is not listed again: then the callback it is published with is
dropped. `BRPeerManagerPublishTx` frees the lock to look at the network, so it
is two steps, `Publish` and `PublishOn`. The end of a peer's thread is as many
steps as it takes the lock: the loop ends (`End`), the pongs that are due fail
and end the sync of the download peer (`PongsFail`), and `_peerDisconnected`
looks at what they have left (`Disconnected`). `published`, `answers` and
`dropped` count the callbacks given, called and dropped, for each transaction.

Connecting, whose DNS lookup frees the lock, is one step; the network is
reachable when the app connects; a callback is one step with being taken out of
the list; the count of failures is capped one above its limit. `sentMempool` of
`BRPeer.c`, which each filter resets and which makes a second request fail, is
left out: a request may be made whenever the code may make one, and its
callback, due or not, need not come.

### KVStore: one key of the replicated key-value store

`ReplicatedKVStore.java` beside the server that `KVStoreTests.java` describes
(`MockUpAdapter`), reached through `RemoteKVStore.java`. `row` is the newest row
of the key with its recorded server version, `server` the item there, `sync` where
`_syncKey` is and what it has read. Reading the recorded version, reading the row,
each request, storing and recording are steps of their own, so the app (`Set`,
`Delete`) and other devices (`RemotePut`, `RemoteDelete`) write in between. A
request that reached the server may lose its answer (`Answered`), one may fail
before, and a kill ends the synchronisation anywhere (`Break`). Time is
a counter that a write may find unchanged: two writes of one millisecond happen.
Keys are independent in the code; one is modelled.

### Abstractions of the Ethereum modules

Amounts, gas, addresses, data and signatures are left out. A transaction signed
here has its own number as its hash, another one a number above `MaxTx`. The
index of a transaction in its block counts the transactions of interest before
it. Balances and gas estimates change no modelled state. Events announced to
listeners are left out of `EthLightNode`; the handler that carries them is
`BREvent`.

## 3. Runs

| Run | Module, cfg | Instance | States | Shows |
|---|---|---|---|---|
| `event` | `MCBREvent`, `MCBREvent.cfg` | 2 events, 2 callers, 2 threads, 3 signals | 331,885 | both callers use the whole API in any order: `LockDiscipline`, `NodesConserved`, `FIFO`, `ImplementsChannel`, `TimedHandling` |
| `event_lost` | `MCBREvent`, `MCBREventLost.cfg` | 1 event value, 1 thread, 2 signals | - | violation of `SignalledIsHandled`: the lost wakeup |
| `eth_thread` | `EthNodeThread`, `EthNodeThread.cfg` | 3 routines, 2 wallets | 1,776 | `OneRoutine`, `ClientWhilePolling`, `LockInRound`, `AtMostOneLateRequest`, `DisconnectEnds` |
| `eth_node` | `EthLightNode`, `EthLightNode.cfg` | 1 token, 2 transactions, 2 mined, 2 blocks | 798,831 | `OneWalletPerHolding`, `InOneWallet`, `EtherHashesUnique`, `OnceUnlessStale`, `BlockedInOrder`, `IdentityKept` |
| `eth_live` | `EthLightNode`, `EthLightNodeLive.cfg` | no token, 2 transactions, 2 mined, 1 block | 10,186 | `MinedIsBlocked` |
| `btc_chain` | `MCBTCChain`, `MCBTCChain.cfg` | a tree of blocks with a checkpoint and a fork over a difficulty transition, conflicting transactions, 1 event | 51,107 | `HeightSorted`, `WalletMatchesChain`, `NoDoubleSpend`, `NothingLost`, `JoinFound`, `NoStuckOrphan`, `RemovedWithDependents` |
| `btc_sync` | `MCBTCSync`, `MCBTCSync.cfg` | 3 blocks, gap limit that runs out, 3 relayed transactions, 1 broken connection | 277,650 | `NoMissedPayment`, `NoMissedSpend`, `SyncCompletes` |
| `btc_publish` | `BTCPublish`, `BTCPublish.cfg` | 2 peers, 1 transaction, 2 failures, 1 fault | 363,576 | `AnsweredOnce`, `ToldIsTimed`, `Answered` |
| `kv_store` | `KVStore`, `KVStore.cfg` | 3 writes, times up to 4, 1 failure | 30,625 | `RecordedMeansSameUnlessDeleted`, `Converges` |
| `eth_nonce_match` | `EthLightNode`, `EthLightNodeNonceMatch.cfg` | no token, 2 transactions, 2 mined, 2 blocks | - | violation of `BlockedHashIsMined` |
| `eth_nonce_race` | `EthLightNode`, `EthLightNodeNonce.cfg` | no token, 3 transactions, 1 mined, 1 block | - | violation of `HandedOutOnce` |
| `kv_delete` | `KVStore`, `KVStoreDelete.cfg` | 2 writes, times up to 3, no failure | - | violation of `RemoteDeleteReplicates` |

Every property of a passing run has a mutant of the code in `PROJECT.json` that
breaks it; the mutated operators stand before the ones they replace. Each passing
run but `eth_live` also checks its module's `TypeOK`.

**What the properties except.** Some statements hold only outside a case in which
the code does otherwise; the case is part of the formula, so that the rest is
checked in full:

- `WalletMatchesChain` leaves out transactions that a rescan, a restart or a cut
  off reorganisation left confirmed (or unconfirmed) against the new chain, until
  their block comes again (`unchecked`): the extension of a chain does not look at
  what is confirmed above it. `RemovedWithDependents` leaves out the same ones.
- `NoStuckOrphan` leaves out orphans the code has set aside (`setAside`) and blocks
  that contradict a checkpoint.
- `JoinFound` speaks of a fork the difficulty window still covers (`ShallowFork`):
  it parted not below the height a restart rebuilt the chain from, and no block
  that pruned since on either line is more than an interval above the parting.
  And the tip is at the last checkpoint or above it, as it is outside a rescan.
- `NoMissedSpend` leaves out what was in a block that was taken from an orphan
  matched before its parent: an output of the parent was not yet in the filter.
- `RecordedMeansSameUnlessDeleted` leaves out a key deleted here and alive on
  the server: `ReplicatedKVStore.java` 586 stores a newer value with the deleted
  mark of the version it read, and the comment at 483-484, "if they match, there
  is nothing to do", is not true of it. `Converges` leaves out that and a key
  deleted on the server later than the row here was written, which `kv_delete`
  is about.
- `OnceUnlessStale`: nonces are handed out once unless a count was stored that
  had been compared with an older nonce, which `eth_nonce_race` is about.
  `MinedIsBlocked` leaves out transactions whose nonce was handed out twice; its
  instance, with two transactions, has none.
- `AtMostOneLateRequest` speaks of a disconnect that stands, `DisconnectEnds` of
  one that finds the routine in its loop.
- `AnsweredOnce` counts the callbacks that are dropped, `Answered` speaks of those
  that are listed, and assumes the app's connects and that sync timeouts beside
  other peers, which cancel no publish, do not go on for ever.
- `TimedHandling` says: handled, or no longer RUNNING.

**Refinement.** `ImplementsChannel` is `Channel!Spec` with `Channel == INSTANCE
EventChannel WITH sent <- sent, handled <- handled`: a signal is an append, a
dispatch takes the oldest, all else stutters. It is checked in `event` and proved.

**Bounds.** `MaxSignals` = 3 lets one event be pending, one in dispatch and one
in the making, on a queue that must grow beyond its first node and reuse nodes;
two handler threads are what a stop and a start can leave alive. Three polling
routines follow each other (disconnect, reconnect, twice). `MaxTx` = 2 with a
token: two local transactions, a local one and one heard of, or the same
transaction from the announcement of the transaction and of its log; a wallet
with two entries is the least that can be out of order, and two blocks the least
with an order between blocks; the proofs cover every size. To hand a nonce out
twice takes three transactions, which `eth_nonce_race` has. `MaxMined` counts
transactions of interest, not blocks. The tree of `MCBTCChain` has two branches
beyond a transition, so a join below, at and above the pruned window occurs, and
a block that verification refuses; one rescan, restart or removal suffices to
leave the wallet off the chain. In `MCBTCSync` the gap limit is smaller than the
addresses the chain pays to, so the filter is replaced in mid-download, and one
transaction spends what its parent block pays. `MaxFaults` = 1 in `BTCPublish`
breaks one of two peers; the failures of a connection reach their limit by
timeouts; one transaction, listed by its publisher or by a peer's relay before
it is published, has all its callbacks; inputs that are listed with another are
in the proofs. Three writes in `KVStore` are one more than a conflict takes.

**Deadlock** is not checked where the system may stop: the bounded number of
signals and threads used up in `BREvent` (an exited thread even keeps the lock,
which is the code's behaviour), the bounds of `EthLightNode`, `KVStore` and
`BTCChain` reached, the download complete in `BTCSync`. It is checked in
`eth_thread`, where a disconnect is always possible, and in `btc_publish`, where
the app can always connect.

**Fairness.** `BREvent`: weak fairness of each thread and of a client inside a
call, which is what a scheduler gives; nobody has to call, no wait has to end
spuriously; a timed wait ends. `EthNodeThread`: weak fairness of the routine and
of the end of an Announce call, strong fairness of the routine's lock, which
other threads take and release again and again. `EthLightNode`: the poll asks
for the account's transactions for ever, so a transaction in a sealed block is
announced again and again; nothing else has to happen, the reply to a submission
in particular. `BTCSync`: messages that are not lost are delivered and answered,
and the mempool and sync timeouts, which the thread of the peer computes from
the clock, expire; a connection need not break, blocks need not be mined.
`KVStore`: the app synchronises again and again (`APIClient.java` 863), and the
bounded failures end. `BTCPublish`: a publish that was begun goes on, timeouts
expire, a broken connection is reported, blocks arrive, and the app connects
again with a peer to be found; without the last, `Answered` is violated (see
below). That a download times out beside other peers again and again is
excluded: nothing bounds it, and it cancels no publish.

## 4. Disagreements between code and text

1. `event_lost`: `event/BREvent.h` 111-112 promises that a signalled event is
   handled. The signal is sent without `handler->lock` (`event/BREvent.c` 246),
   so it can fall between the thread's look at the queue and its wait. The next
   signal repairs it. With a timeout dispatcher the clock does (`TimedHandling`),
   but the light node sets none.
2. `eth_nonce_match`: `BREthereumLightNodeAnnounce.c` 311-312 says that the match by
   nonce is for a transaction that has no hash yet. The code does not look at
   the hash: a submitted transaction whose nonce another device has spent is
   shown as blocked.
3. `eth_nonce_race`: `BREthereumLightNodePrivate.h` 168 says that the lock ensures
   single thread access to the node's state. The nonce is read and written
   without it, by the signing and the announcing thread: a count compared before two
   signings and stored after them takes the nonce back, and it is handed out twice.
4. `kv_delete`: `KVStoreTests.java` 474-491 (`testRemoteDeleteReplicates`)
   deletes a key on the server and expects it deleted on the device after
   `syncAllKeys`. `RemoteKVStore`, the adapter of the app, makes every answer
   but a success the error unknown, and its `keys` sets no error for a deleted
   key, so the branches of `_syncKey` for a tombstone are never taken: the key
   stays, and its synchronisation fails each time. The test passes with
   `MockUpAdapter`, whose `keys` sets the error (122). `KVStore` has the server
   of `MockUpAdapter` behind the answers of `RemoteKVStore`.

### Noticed without a text that says otherwise

These are behaviours of the models that no run states, because the
repository says nothing else of them or says it of a case next to them:

- Node thread: a disconnect between `pthread_create` and the routine's first
  store is lost (`BREthereumLightNode.c` 176); disconnecting a node without
  routine leaves it DISCONNECTING for good. A connect may write over a
  disconnect in the same way.
- Light node: an announced block does not raise `blockHeight`, "the largest block
  number seen or computed" (`BREthereumLightNodePrivate.h` 139), only an announced
  number does; confirmations are an unsigned difference.
- Handler: the thread returns with `handler->lock` locked (`event/BREvent.c`
  187), so that a handler that is stopped and started again never handles
  anything; `BREvent.h` 111-112 promises that a signalled event is handled,
  without a word about restarts, and the app does not restart one. A stop while
  STARTING is overwritten; a stop wakes nobody who waits without a timeout; the
  setter of the timeout takes the lock that the thread keeps while it
  dispatches.
- Wallet: `BRWalletUpdateTransactions` recomputes the ledger only when a pending
  or invalid transaction was among those updated. An output to an address that was
  generated after the ledger was computed is counted at the next recomputation only.
  `wallet->blockHeight` becomes `TX_UNCONFIRMED` when an unconfirmed transaction is
  marked (`BRWallet.c` 941), and lock times in blocks are met from then on, until a
  reorganisation. A transaction the wallet lists but, after a removal and a restart,
  has no address for any more is freed while it is listed (960-963); the model does
  not follow this.
- Blocks: an orphan set aside until a rescan is over stays when its parent comes
  by a reorganisation or at the last block of the rescan. A reorganisation
  without a join reads a null pointer (`BRPeerManager.c` 1300; the model stops
  there) or, when the fork's blocks end first, confirms only what it has of the
  branch. It takes a fork longer than an interval, a restart or a rescan that
  rebuilt the chain above the parting, or a tip below the last checkpoint: what
  `JoinFound` excepts.
- Download: a transaction between the load of a new filter and its pong frees
  the filter with `updateBloomFilter` still set, and no filter is made again
  until the sync timeout; when the wallet is already synced there is none. A
  transaction announced before a block is not waited for by that block. The
  addresses of a transaction that is replaceable, locked or in conflict are not
  counted as used; no filter is made for the addresses behind them, not even
  when its block confirms it, and payments to these are missed (TLC finds it
  with t2 in `Replaceable`). `_mempoolDone` of a peer that is not the download
  peer stops the sync. A filter is loaded with the unspent outputs of the
  ledger, so an output to an address generated after the ledger was computed is
  not in it, and its spend may be missed after a new connection (see
  "BTCSyncProofs").
- Publishing: the download peer is never told of a transaction while others are
  there, and when these break it stays untimed: the callback waits until the app
  connects again. `BRPeerManagerPublishTx` looks at the network without the lock
  and not again afterwards (`BRPeerManager.c` 1915). The number of failures is
  compared for equality with its limit (847). Publishing what is listed already,
  because a peer has relayed it, another transaction spends from it or a publish
  of it has timed out, drops its callback (226-229): it is never called, and
  nothing tells the app. A timeout while connecting cancels a publish.
- Key-value store: `syncAllKeys` returns true with keys that failed; `syncRunning` is
  tested and set without synchronisation; nothing sets `syncImmediately`.

## 5. Proofs

All theorems hold for every value of the constants that satisfies the module's
named assumption: distinct model values, and natural numbers where counts
are meant. TLC evaluates these assumptions in the passing runs.

### BREventProofs

`IInv` is the conjunction of `TypeOK`, `LockDiscipline`, `NodesConserved` and
`FIFO`, in a form that talks of the queue alone where the step does. `FIFO` is
not inductive by itself: a dequeue is followed by the same event later only if no
node is pending twice and none pending is reused (`NodesConserved`), and only if
one thread at a time is between dequeue and dispatch (`LockDiscipline`).
`EnqueueStep`, `DequeueStep` and `QuietStep` are what the queue's operations and
all other steps do to these facts; `ClientStep` and `ThreadStep` go through the
actions. From `Invariance`:

- `TypeCorrect`, `DispatchExclusive`, `QueueConservesNodes`, `HandledInOrder`:
  the four invariants;
- `HandlerImplementsChannel`: `SignalEvent` maps to the channel's `Signal`,
  `Dispatch` to its `Handle` (by `FIFO` the scratch event is the next one to be
  handled), every other step to a stutter.

### EthNodeThreadProofs

`IInv` adds to the run's invariants `StateKnowsRoutine` (while a routine runs
the state is none of those the connect switch accepts, and while the connect is
past its switch no routine runs) and `RequestUnderWay` (a request about to be
made was checked in this round, and is the first since the disconnect that
stands). Without the first, `OneRoutine` says nothing of the next connect;
without the second, `AtMostOneLateRequest` says nothing of a request whose check
has passed. `ConnectInv`, `OthersInv` and `RoutineInv` go through the actions.
Theorems: `TypeCorrect`, `SingleRoutine`, `ClientAvailable`, `RoundUnderLock`,
`DisconnectStopsRequests`.

### EthLightNodeProofs

A wallet's list is changed by two operations, whose effect is proved once for
every list: `InsertSortedPlace` (where the scan from the end stops),
`InsertSortedContains`, `InsertSortedOrdered`, `RemovedFrom`, `UpdateSortedContains`.
`InsertSortedOrdered` is where the order is not obvious: nonces and statuses change
without a sort, so the list is not sorted by `Before` as a whole; but a blocked
transaction is before every one that is not, so the scan passes all the others and
stops at a blocked one that is not after it, and `Ordered`, the order of the
blocked ones alone, is kept. `WalletsInsert` and `WalletsUpdate` lift this to the
array of wallets (`WalletsOK`: every transaction in exactly one list once, order,
one wallet per holding).

`IInv` is `WalletsOK`, the types, `LocalIds` (only what the app made is
submitted, its hash is its own), `Signing` (the one that is being signed) and
`NoncesApart`: as long as no stale count was stored, nonces are handed out once,
in ascending order, and all are below the nonce of the address and below the one
just loaded. `Preserved` says of a step that it keeps `IInv` and writes no
nonce, hash or wallet twice; `QuietStep`, `AppendStep` and `ChangeStep` are the
three kinds of step, `HeardOfOK`, `MarkBlockedOK` and `Announced` the handlers;
`AppSteps`, `AnswerSteps` and `NetSteps` go through the actions. Theorems:
`TypeCorrect`, `WalletPerHolding`, `NothingLostOrDoubled`,
`WalletsInChainOrder`, `NoncesOnceUnlessStale`, `IdentityNeverChanges`.

`EtherShownOnce` needs more, as it speaks of the chain: `EInv` says that what the
chain holds with a hash of this app carries the nonce the app signed it with
(`MinedKnown`), so an announcement that overtakes the reply finds the transaction
by its nonce; and that a transaction heard of never has the hash of one of this
app beside it in the Ether wallet (`EtherApart`), so a late reply cannot make a
second one.

### KVStoreProofs

`SyncInv` says what a synchronisation knows while the app and other devices write:
the row it read is the last one as long as the version numbers agree
(`LocalRead`), the server's version it works with is not above the server's
(`ItemKnown`), what was fetched, and what is about to be recorded, is what the
server has unless the server has moved on (`Fetched`, `ToRecord`); `Decided` ties
the request to the deleted mark of the row that was read; `Recorded` is the
property. `RecordedMeansSameUnlessDeleted` alone is not inductive: it says nothing
of what `Record` is about to write. Theorems: `TypesCorrect`, `RecordedIsSame`.

### BTCPublishProofs

`IInv` is `Lists` (what is pending is listed), `Places` and `Callbacks`
(`AnsweredOnce`). `Good` says of a place of `connectedPeers` what `ToldIsTimed`
needs to be inductive: only what is listed was told, so a new transaction is
news to every peer; and nothing before the handshake, whose end clears the timer
without a look at what is pending. `GoodTimed` to `GoodTold` are what the
assignments of the handlers do to one place, `FineTold`, `FineFilters` and
`FineMempools` what `PublishPending`, `Refilter` and `LoadMempools` do to all of
them; `AnswerPending` is the one way a callback is called, `TakeOutInv` what a
sign of a transaction does to the lists. `ConnectInv`, `HandlersInv`, `SignInv`,
`EndsInv`, `PongsFailInv`, `DisconnectedInv`, `DisconnectInv`, `RescanInv` and
`PublishInv` go through the actions. Theorems: `TypeCorrect`, `CalledOnce`,
`ToldTimed`.

### BTCWalletProofs

Lemmas about the operators of `BTCWallet`, for the theorems of `BTCChainProofs`.
What a loop of the code computes is a recursive function of a number, so its
invariant is proved by `NatInduction` on a set of numbers, not on an operator:
lists (insertion, removal, what a prefix holds), sums (`Summing`), the walk of
`UpdateBalance`. `WalletOK` is `Shape` (types, no transaction listed twice,
lists sorted by height) and `LedgerOK` (the outputs that are unspent, spent,
invalid and pending are what the list says, no output is spent by two
transactions that are not invalid, the balance is the sum of the unspent
outputs). Every operator keeps it: `RegisterTransaction`, `UpdateTransactions`,
`SetTxUnconfirmedAfter`, `RemoveLeaf`, and the wallet made again from the saved
transactions.

### BTCChainProofs

All the properties of the run `btc_chain` are proved for every tree of blocks, every
set of transactions and every interval.

- Trees: `prev` is strictly lower, so what is said of ancestors is proved by
  induction on height. `Branch` and `ConfirmBranch` give what a reorganisation
  confirms; the `Agrees` lemmas say when the wallet's heights agree with a
  chain.
- `IInv` is `WalletOK`, `KnownOK` (the known blocks and the tip), `ListedOurs`,
  `RemovingOK` (the removal under way between two locks), `NoStuckOrphan` and
  `WalletMatchesChain`. `WalletMatchesChain` by itself is not inductive: an
  extension would have to know that nothing is confirmed above the tip, and after
  a rescan or restart something is; `unchecked` names exactly what. Removal needs
  `ParentsNoHigher`: a confirmed transaction's parents are confirmed no higher, so
  removing a leaf leaves no dependent behind.
- `HistoryOK` is about what is missing below a known block. `GapsExcused`: a block
  missing between two known ones is below a checkpoint, below where a restart rebuilt
  the chain, or more than an interval below a transition block that pruned.
  `HoldsCheckpoints`: a line that reaches beyond the last checkpoint holds the
  checkpoint. So above the parting of a shallow fork no block of either line is
  missing, and the walks meet there: `JoinAlwaysFound`.

Theorems: `ChainTypes`, `SortedByHeight`, `WalletFollowsChain`,
`NoOutputSpentTwice`, `NoMoneyLost`, `JoinAlwaysFound`, `OrphansTakenAlong`,
`DependentsRemoved`.

### BTCSyncProofs

That no payment is missed while filters change is proved for every chain that
satisfies `ChainAssumption` and `GapAssumption`, every gap limit, every `Spare`
and `MaxInv`, and every number of broken connections. The chain may have
replaceable, locked and conflicting transactions. What the code needs is said of
the behaviour, not of the chain: `AllCounted`, that no transaction the wallet
registers is then pending or invalid, as `_BRWalletUpdateBalance` leaves the
addresses of such a one unused, and `NoMissedPayment` is false else (see
"Noticed"). `NoPaymentMissed` is `Spec /\ []AllCounted => []NoMissedPayment`;
`PlainCounted` shows that `[]AllCounted` holds of every behaviour when no
transaction is replaceable, locked or in conflict (`AllPlain`), so that the
condition is not empty. `NoMissedPayment` speaks of blocks already taken; the
invariant `Inv` has to say of every message in both directions what it will do
once it is taken:

- `Got`: the wallet is right (`Purse`), and has every payment up to the last block.
- `Blocks`: a block under way, waiting for its transactions or an orphan has all
  that pays an address of the node's filter, or the node has given its filter up and
  `_peerRelayedBlock` takes none.
- `Sent`: the other end has the node's filter, or will have it before it is asked
  for a block. `Reach`: the filter has the next unused addresses and all before them.
- `PongsDue`: the callbacks match the pings and pongs under way in their order, and
  behind the ping of `_updateFilterPingDone` there is no block and no filter. This
  is why the first of the two rounds suffices. `Updates`: one update at a time, and no
  filter until its first pong.
- `Traffic`: what is under way is in an order the wallet can follow. A payment comes
  after what it spends from, so that the wallet recognises it (`CarriedBacked`,
  `AskedBacked`, `NamedBacked`, `OutsOK`); an announced payment comes before its block
  (`NamedFresh`), so the one the node does not wait for is in the wallet, carried or
  asked for before the block (`KnownInTime`).
- `Follow`, `Waits`: the transactions of a block follow it, and the node waits for
  exactly those that have not come.

`FilterReach` and `BlockWatched` are the heart: with `GapAssumption`, a filter that
has the next unused addresses has every address the next block pays, also those
that become known only while the block is taken. What the operators do is shown
first (`GotRegisters` to `MempoolTimeoutInv` for the node; the peer's `Scan` and
`ScanBlocks` and the walk of `AcceptBlocks` by their equations and induction on a
set of numbers), then the actions. Between a block and the last of its
transactions `Follow` does not hold, so the peer's answer is followed message by
message with `Flow`, the rest of the invariant. Theorems: `NoPaymentMissed`,
`SyncCorrect`, the invariant itself, `PlainCounted`, and `SyncTypes`, with `AllPlain`.

That no spend is missed has an invariant of its own, `SpendsInv`, beside that one:

- `Held`: up to the last block, but for those taken from the orphans (`early`), what
  spends from the wallet is listed and confirmed at its height.
- `Spends`: every filter the peer has, or will have from a `filterload` under way,
  watches the outputs to its addresses that any block taken or under way pays
  (`Watches`); and a block under way has what spends from the blocks before it, and
  from itself (`SpentIn`). The peer adds what its matches pay to the filter while it
  scans (`ScanFinds`), so this follows from one block to the next (`SpendsBlock`);
  a new filter is loaded when no block is under way, and watches what the ledger
  has (`LoadsWatches`, from `_BRWalletUpdateBalance`'s walk proved in
  `BTCWalletProofs`).

A filter is only as good as the ledger. `SpendsFollowLedger`: `NoMissedSpend`
holds of every behaviour in which the ledger counts what is registered
(`AllCounted`) and always has the addresses paid so far (`LedgerCurrent`).

Some such condition is needed. With `Spare` = 0 and a gap limit of 1, let a
transaction pay the addresses 0 and 1 in block 1, and let block 2 spend its second
output: that output is not in the ledger, as its address was generated after the
ledger was computed, so it is not in the filter of the next connection, and TLC
finds the spend missing. With the code's 100 spare addresses it takes a transaction
that pays addresses on both sides of the last one generated, or spends from the
wallet and pays beyond it. That the ledger is current in all other cases is not
proved; the run `btc_sync` checks `NoMissedSpend` without a condition on the
behaviour.

### Only model-checked

Liveness (`TimedHandling`, `DisconnectEnds`, `MinedIsBlocked`, `SyncCompletes`,
`Answered`, `Converges`): the prover does not treat ENABLED. Every safety
property of the passing runs is stated by a theorem; those of `btc_sync` under
the conditions named above.

## 6. Not modelled, and why

- `eventHandlerDestroy`, `eventQueueDestroy`: nothing calls them. Sizes of events
  in memory; request ids, which every Announce function ignores.
- Ethereum: balances, gas prices and estimates (they change no modelled state);
  reorganisation (the code never changes a blocked transaction again); which event
  is announced to listeners when; the LES node (nothing connects it).
- Bitcoin: address exchange, fee filters, relay counts, headers-first download,
  signing, fees and coin selection; several peers in one download (one at a time
  in `BTCSync`).
- Block proofs, bloom filters, `BRSet`, arrays, RLP, 256 bit arithmetic: sequential
  functions over bytes, which tests with known values reach; the models use sets,
  sequences and an external filter in their place.
- Keys, addresses, mnemonics, payment protocol: cryptography and parsers over byte
  strings, out of TLC's reach.
- PIN, key store and sending: one user, one thread, between dialogs of the system.
- Executors, preferences, databases, HTTP, user interface: their effect on the core
  is in the answers that come late, again or never.

## 7. What could follow

1. `LedgerCurrent` (`BTCSyncProofs`) from an assumption on the chain that allows
   change to addresses beyond the first filter: it takes the order in which
   transactions are registered.
2. The light node composed with the event handler: the order of the events a
   listener sees against the order of the changes.
3. PIN attempts and lock-out (`AuthManager.java`), with the clock.
4. `BRSet` and the merkle tree walk as operators against reference definitions.
