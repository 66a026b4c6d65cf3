# TLA+ verification of the NEO•ONE node

NEO•ONE is a development environment for the Neo blockchain, and contains a
complete Neo node written in TypeScript. This directory models the node, the
part of the repository with state, concurrency, persistence and failure, and
the two places where its client keeps state of its own over several requests:
the block iterator and the retries of a transaction. The compiler, command
line, editor and website are not modelled.

The node is one Node.js process. JavaScript runs one callback at a time, so
code between two `await`s is atomic, and everything may happen at an `await`.
That is the granularity of the models here: one action per stretch of code
between two `await`s.

## The system

| Component | State it keeps | Operations | Hard behaviour | What makes it correct |
|---|---|---|---|---|
| Block persist pipeline (`neo-one-node-blockchain`: `Blockchain.ts`, `PersistingBlockchain.ts`) | the storage, the block queue, the set of queued hashes, the flags `mutableRunning` and `mutablePersistingBlocks`, the current block | `create`, `persistBlock`, `stop`, `reset` | three storage commits per block, failures between them, a crash, calls at any await | one drain loop, dense heights, all records of a block or none, monotone action indexes |
| Header cache (`HeaderCache.ts`) | a list of headers | `add`, `tryRemoveFirst` | two writers in turn | does not grow with the chain, no header twice |
| Node protocol, blocks (`neo-one-node-protocol`: `Node.ts`) | best peer, what was asked of it, known and being-handled hashes | `requestBlocks`, `persistBlock`, handlers of Inv, Block, GetBlocks, GetData | messages of several peers overtake each other; a useless peer | what is known is stored, a useless peer is replaced |
| Node protocol, transactions | memory pool, known and being-handled hashes | `relayTransaction`, `trimMemPool`, `reset` | awaits between check and use, blocks in between, retries | no transaction twice on the chain, an accepted one is kept, the pool drains |
| Transaction verification (`TransactionVerificationContext.ts`) | fees counted per sender | `addTransaction`, `checkTransaction` | the balance is read before the fees | the pool can be paid for |
| Peer network (`neo-one-node-network`) | connecting, connected, blacklisted endpoints | connect, negotiate, close, `stop` | closing at any await, two directions of connection | the tables and the best peer name live connections, attempts end, seeds are retried |
| Consensus driver (`neo-one-node-consensus`: `Consensus.ts`, `ConsensusQueue.ts`) | event queue, timer, the promise of its loop | `onPersistBlock`, `onTransactionReceived`, `onConsensusPayloadReceived`, `runConsensusNow`, `pause`, `resume` | the queue is replaced under the loop, blocks clear it | one loop, the timer is never lost, calls are answered |
| dBFT handlers (`handleConsensusPayload.ts`, `context/`) | one consensus context per validator | one handler per payload | lost, late and repeated payloads, view changes | agreement on the block of a height |
| RPC handler (`neo-one-node-rpc-handler`) | none of its own | JSON-RPC methods, `reset`, `getblock`, `gettransactionreceipt` | waits for a block while blocks arrive | an answer or a timeout |
| Block iterator of the client (`AsyncBlockIterator.ts`) | the queue of blocks, the cursor, the fetch under way | `next`, `asyncFetch` | answers in any order, errors, half-stored blocks, a reset | each block once and in order, a bounded queue, every `next()` answered |
| Full node (`startFullNode.ts`) | the disposables | start, dispose | partial start | disposed in reverse order |
| Storage (`neo-one-node-storage-*`) | LevelDB | batches, streams, `reset` | crash | a batch is atomic |
| VM dispatcher (`neo-one-node-vm`) | the C# engine's snapshots | `executeScript`, `verify`, `updateSnapshots` | snapshots outlive blocks; scripts invoked over RPC write to the blocks' snapshot | each block runs on its predecessor's changes, never on those of a failed one |

The node's handlers and the consensus hand blocks to `Blockchain.persistBlock`
and await it; when it returns, the node tells the consensus driver
(`onPersistBlock`). The RPC handler's `reset` pauses the consensus, clears the
node's pools, resets the blockchain and resumes the consensus. `startFullNode`
creates all of them and disposes the RPC server first, the node second and the
blockchain third.

`PROJECT.json` lists the hazards, each with the line where it bites and the
properties that would catch it going wrong, or a note why none does. Several of
the latter are defects that the models show as the code has them, and that no
property denies: what an invoked script writes is stored with the next block,
a useful peer may be blacklisted, a refused transaction is answered as known,
a transaction too large keeps others out of the blocks, an exception ends
consensus. Some more are known and have no property:

* `Blockchain.ts`: `start` drops the queue without settling its promises (844);
  token balances record `currentBlockIndex` before it moves (886).
* `Node.ts`: `reset` clears the sets of hashes under relays that are awaiting
  (380), and forgets the heights of connected peers (692); a pool over its size
  is emptied, because `memoryPoolMaxTransactions` is more than it holds (285);
  a false positive of a Bloom filter hides a block or a transaction (1276).
* `HeaderCache.ts`: `tryGet` indexes with the unshifted index (47), which nothing
  calls.
* `context/common.ts`: a transaction of the pool is not verified again when it is
  proposed (160).
* `createHandler.ts`: a receipt whose block is persisted between the read and the
  subscription is answered with the next block only (950).
* `Network.ts`: the limit on connected peers is read before the awaits of
  dialling, and more endpoints are dialled than there is room for (373); a
  connection under way at `stop` stays open (530); a blacklisted endpoint is
  filed under a field that does not exist, so it is never released (523).

## The modules

### Blockchain

The persist pipeline. `Blockchain.tla` has one action per await of
`persistBlockInternal`:

| Action | Code |
|---|---|
| `Persist` | `persistBlock`: look the hash up, queue the block, start the loop if none runs |
| `ReadAndExecute` | read the predecessor's counters, verify, execute in the VM |
| `CommitBatch` | `storage.commitBatch` of the change set of the execution, the ledger index in it |
| `CommitUpdates` | `storage.commit` of block, transaction, action and log records |
| `CommitNep17` | the balance records, then `updateBlockMetadata` |
| `OnPersist`, `Complete` | the callback and the committee refresh; the entry resolves and the loop goes on (`Continue`) |
| `Fail` | any stage throws: catch and finally of `persistBlocksAsync` |
| `Stop`, `ResetStorage`, `ResetFails` | `stop` and `reset` on either side of their awaits |
| `Boot`, `Created`, `CreateFails`, `Shutdown` | `create` and the disposal in `startFullNode` |
| `Invoke` | the RPC method `invokescript`: `invokeScript`, on the VM's main snapshot |
| `Crash` | the process ends; `disk` remains |

`disk` is what survives a crash: the ledger's index and the contract storage
(one change set, one batch), the records of each block, the balances of each
block. A block is its height, because the protocol decides one block per
height; the contract storage after a block is that block's height, or `Torn`
when no sequence of whole blocks explains it; the records of a block are the
range of global action indexes they carry. `main` is the same of the VM's main
snapshot: the height up to which it holds the blocks' changes.

Blocks are not alone in writing to that snapshot. `invokeScript` runs a script
on it with all call flags (`snapshot: 'main'`, `Blockchain.ts:569`), called by
the RPC method `invokescript` at any time (`Invoke`) and, for `balanceOf`, by
the pipeline itself (`CommitUpdates`). Nothing takes these writes out again
until `updateSnapshots`, which runs after the commits of the next block; that
block has executed on them by then, and stored them with its own, because its
change set is everything in the snapshot. The model keeps them apart from the
blocks' changes: `strays` is the set of places (`"main"`, the change set of the
block under way, the `"disk"`) in which such writes may be, copied wherever the
code copies a snapshot or a change set. A block that runs with strays in the
snapshot may fail for it (`Fail` at `"read"`).

Left out of the pipeline: the contents and verification of blocks (a failed
verification is the fault `"read"`), the whitelist and extensible-payload
caches. The header cache and the `block$` subject, which
`persistBlockInternal` and its loop update too, are in BlockSync and
BlockIterator.

`BlockLedger.tla` is the abstract specification: a ledger to which one whole
block is appended at a time. `Blockchain` refines it (`AtomicBlocks`): the
visible height is the one in memory, and a block's records count only up to it.

### ConsensusDriver

`Consensus.ts` and `ConsensusQueue.ts`. `items` is the current queue; each
`driver` is an invocation of `startInternal`, which builds the first context
(`"init"`), waits in `next()` (`"waiting"`) or is inside a handler
(`"handling"`). `pause` ends the queue the drivers read (`ended`) and replaces
it; a driver still in `"init"` reads whichever queue is current when its
context is ready, as the code does. `Rearms` tells which handlers' results
carry a `timerMS`. What handlers do to the context is left
out, but for the proposal of a private network (TransactionRelay); the node is assumed to be a validator (`watchOnly` never sets a
timer).

### NetworkPeers

`Network.ts`, with `Peer` and `TCPPeer` below it and the negotiation and best
peer of `Node.ts` above it. A connection is a pair of an endpoint and a number,
because the code keys every table by the endpoint while several connections to
one endpoint may be under way. Its `proc` is the invocation of `connectToPeer`
(`"connect"`, then waiting for the `"version"`, then for the `"verack"`), its
`sock` the socket, whose close event may come long before or after that
invocation ends.

| Action | Code |
|---|---|
| `Turn` | one turn of `run`: `connectToPeers`, then `checkPeerHealth` |
| `Accept` | a socket accepted by the TCP server |
| `ConnectSucceeds`, `ConnectFails` | `peer.connect()` resolves or rejects |
| `FindsItself`, `AlreadyConnected`, `VersionReceived` | the outcomes of `checkVersion` |
| `VerackReceived` | the negotiation succeeds: the peer enters the table, `PEER_CONNECT_SUCCESS` |
| `NegotiationFails` | timeout, socket error or wrong message: catch and finally |
| `SocketFails`, `Close` | `Peer.onError`; the close event, `onClose`, `PEER_CLOSED` |
| `DropBestPeer` | `requestBlocks` gives up on its peer |
| `Stop`, `AddEndpoint`, `HeightLearned`, `Reset` | `stop`, `addEndpoint`, `updateLastBlockIndex`, `Node.reset` |

Messages of a connected peer, the heights they report and the health check's
clock are abstracted to choices. Sockets accepted but refused are left out, and
so are a second start after a stop and the rewriting of the host `localhost`.

### BlockSync

How a node fetches the blocks it lacks. `requestBlocks` is one step of its
timer, with four outcomes: `StopRequesting`, `DropBest`, `Request` and
`TooSoon`. `Inv`, `Block` and `Look` are the node's handlers up to their next
await, `Store` and `StoreFails` the outcomes of a block in Blockchain's queue,
`Answer` the handlers of GetBlocks and GetData, which the peers run as well,
since they are nodes like this one. Messages are unordered sets per peer:
every handler runs in a promise of its own. A block is its index, all peers are
on one chain, and heights come with the handshake and with blocks, because a
node sends neither Ping nor GetHeaders. The pipeline under `Store` is the one
of Blockchain, cut down to "the next block is stored, or storing it fails".

### TransactionRelay

A transaction on a private network of one validator, from the client's
`sendTransaction` to the block. `Receive`, `Find`, `Lookup`, `ReadBalance`,
`Check`, `Accept` and `Fail` are `relayTransaction` and the verification under
it, cut at its awaits; `Propose`, `StoreBlock`, `BlockFails` and `FinishBlock`
the run of consensus and `Node.persistBlock`; `Pause`, `ResetNode` and
`ResetChain` the RPC method `reset`; `Told` and `GiveUp` the client. A fee is
one unit, a transaction may pay one unit to another account, and the genesis
block's balances are among the settings.

`doubtful` is a history variable: the transactions the code gives no promise
for, because they were relayed before the last reset, trimmed from the pool, or
checked against fees that were out of date when they were counted. The
properties say for which of the others they hold. Two things come out of it. The fees
counted for a sender are never taken off, neither by a block nor by a reset; a
sender is so refused transactions it could pay. But that is also what makes
reading the balance before the fees sound: with fees given back
(`FeesReturned`) a block between the two reads lets a sender overdraw, and the
next block kills consensus. And one transaction too large for any block keeps
every later one out of the blocks (`Blocked` in `PoolDrains`), because the sums
of `ensureMaxBlockLimitation` include what was left out.

### BlockIterator and BlockStream

The client's `AsyncBlockIterator` over `getblockcount` and `getblock`. The
node's part is what these calls can observe of Blockchain: the count moves with
the first commit, the records come with the second, `block$` emits last, and a
reset replaces `block$`. `Read` and `Watch` are `getblock`, with the gap
between them; `TimedOut` is the repetition in `fetchOne`. `CallNext`,
`FirstCount`, `Arrived` and `Reject` are `next`, and the continuations of
`asyncFetch`. The consumer calls `next()` again when it was answered, as
for-await and `toObservable` do.

`BlockStream.tla` is the abstract specification: blocks in order from the start
option on, each once, and an end only at the stop option. `BlockIterator`
refines it (`InOrder`).

## The runs

Each configuration binds the constants to a small instance. Deadlock checking
is off in all of them, because the system may really stop: callers may wait
for blocks nobody delivers, and the counters of crashes, resets and blocks run
out.

| Run | Question | Bounds |
|---|---|---|
| `blockchain_pipeline` | does the pipeline implement the atomic ledger when no block is half written, do the next block and `stop` settle? | heights 0..2, 2 callers, 2 resets, 1 crash, 2 loops, no symmetry, fairness |
| `blockchain_faults` | what survives any failure and a crash anywhere? | heights 0..2, 3 callers, 2 crashes, 2 loops, every fault of the pipeline, scripts invoked at any time, no reset |
| `blockchain_reset` (violation) | does a reset start over? | one reset |
| `blockchain_tear` (violation) | are action indexes ordered after a crash in the middle of a block? | one crash |
| `consensus_loop` | one loop, no obsolete event, the timer kept; does consensus keep running, does `pause` return? | 2 calls, 2 drivers, 3 queued events, 2 blocks, 2 resets, fairness |
| `consensus_runnow` (violation) | is `runConsensusNow` answered? | one call, one block |
| `consensus_pause` (violation) | does a reset's `pause` return? | two resets in a row |
| `peers_rivals` | do the tables and the best peer name live connections only? | 3 connections to one endpoint, 1 from the same node, no reset |
| `peers_live` | do attempts end, are seeds dialled again? | a seed, a trusted seed that is the node itself, resets, fairness |
| `sync_fetch` | is what the node knows stored, does the header cache stay short, is a useless peer replaced? | 2 peers, 3 blocks, 1 failure, fairness |
| `relay_life` | at most once on the chain, payable, kept, drained? | 2 transactions of one sender, one of them sent twice, one transaction per block, a pool of one, 1 reset, fairness |
| `iterator_stream` | each block once and in order, a bounded queue, every `next()` answered? | 7 blocks, batches of 2, a queue of 3, 1 reset, any failure, fairness |

The runs of `ConsensusDriver` are those of a private network
(`PrivateNet = TRUE`), the one where the loop rearms its own timer and
`runConsensusNow` is allowed; with `FALSE` the module is that of a public one.

Three blocks are enough for a block with a predecessor and a successor, which
is as far as any guard of the pipeline looks; two callers for one block being
written and one waiting, three for a duplicate as well; two loops for a second
one to be started. Two drivers are enough for a second loop on one queue, and
three queued events for one behind a block's event and one before it. Three
connections to an endpoint are needed for a stale one to clear the flag of a
second and a third to overtake it. `BestPeerExists` is checked without resets:
a reset makes the node forget its peers' heights, and with them how to choose
among them. Two peers are enough for two copies of one block under way, and two
blocks after the first for one to wait for the other. A pool of one is over its
size with two transactions, a block of one leaves a transaction behind, and
with balances of one and two a sender can pay for one, or for two but not also
for the payment. Seven blocks are more than two fills of a queue of three, and
a queue of three is not a multiple of the batch. Symmetry is used for the
callers only, which nothing compares, and never with liveness.

Fairness is weak, on the continuations of I/O that has finished and on expired
timers: the event loop of Node.js runs each of them eventually. No fairness is
assumed of callers, peers, failures, resets or crashes; in `sync_fetch` only
the timer of `requestBlocks` is fair, so that the peers may be as useless as
they like. A stage of the pipeline that fails is an answer too: a `Fail` step
needs no fairness because it competes with the step that is fair.

`MayInvoke` bounds who writes to the VM's snapshot. Scripts are invoked in
`blockchain_faults`, the run with a property of the contract storage. In
`blockchain_pipeline`, whose properties do not read that storage, an invoked
script could only make the execution of a block fail, which is one of its
faults already (`"read"`). The two violations are found without any script, so
that nothing but the reset, or the crash, is the reason. That a script may leave
its writes in the storage is told here and in the list of hazards; no run
states the contrary.

`blockchain_faults` also bounds what a failure does to `mutableInQueue`: the hash
of a failed block is never taken out, so a retry is answered at once although
the block is not on the chain. `OnlyNextHashIsLost` says that this can be true
of the next block only, never of one further ahead. BlockSync shows where it
leads, in the blocks that `KnownIsStored` excepts (`Failed`): the node that is answered so takes the block
for known and does not fetch it again, so it stays where it is until it is
restarted.

### What the violations show

* `blockchain_reset`: `reset` empties the storage but the VM's main snapshot
  still shows the erased chain, since only `onPersist` reopens it, after a
  block is committed. Genesis is executed on the old state: it throws, or its
  changes are taken relative to the wrong state.
* `blockchain_tear`: after a crash between `commitBatch` and the commit of the
  block's records, the height is that of the block but its `blockData` is
  missing, so the next block restarts the global action index.
* `consensus_runnow`: a persisted block clears the queued events. A timer event
  is put back, but without the promise of `runConsensusNow`.
* `consensus_pause`: a `pause` while the loop is still building its first
  context ends a queue that the loop never reads; the loop then takes the new
  queue, and the pause waits for it for ever.

## The proofs

`Blockchain_proofs.tla` proves `TypeCorrect`: `Spec => []TypeOK`, from
`ConstantsAssumption` alone. `TypeOK` is not inductive: `Block(l)` reads
`height[loop[l].entry]`, so the invariant adds that an invocation under way has
taken an entry (`EntryOK`). One step of the proof per action; the lemmas say
what the operators shared by the actions (`Take`, `Continue`, `Release`, `Die`)
leave behind.

It also proves `LockCorrect`: `Spec => []OneLoop` for any number of callers,
blocks, crashes and any faults, when there is one handler of `reset`
(`SingleResetter`). `OneLoop` alone is not inductive: `reset` starts a
loop without testing the guard, so one must know that the guard is down when
its `stop` has returned. `ControlInv` adds who may be inside `stop`, that
`mutableDoneRunningResolve` is set exactly then, and that the flag may be up
while the blockchain is stopped only if somebody waits for it. With two
handlers of `reset` the invariant fails, as the hazards list says.

`BlockchainData_proofs.tla` proves `HeightsAgree`, `BlocksComplete`,
`GlobalIndexDense` and `ResolvedIsPersisted` under two assumptions:
`SingleResetter`, and `NoTear`, that no fault leaves a block half written
(`updates`, `nep17` and `tear` are not in `Faults`; every other failure, and
the crash and restart of the process between two blocks, still happen). `NoTear`
is needed, not convenient: the runs `blockchain_faults` and `blockchain_tear`
show what a failure between two commits leaves behind. The inductive invariant
`DataInv` has three parts. `EntriesInv` says who has a pending promise: the
queued owners and the one whose block is being written. `StageInv` relates, at
each `await` of `persistBlockInternal`, the block in progress to the height in
memory, the ledger on disk and the counters read from its predecessor: what was
read before an `await` is still true when it is used. `StoredInv` says that every
block up to the visible height has all its parts and is numbered on from its
predecessor. It rests on `LockInv`: with two loops at once `StageInv` fails.

The same module proves `AtomicBlocks`, that the pipeline implements
`BlockLedger`, from the same invariant: `CommitNep17` maps to `Append`,
`ResetStorage` to `Clear`, every other step to a stutter.

`BlockchainFaults_proofs.tla` drops `NoTear`: it proves `HeightsClose`,
`OnlyNextHashIsLost` and `ChangesOfLedger` for every set of faults, half-written
blocks included, with one handler of `reset`. `FaultInv` says what remains true
of a block under way when an earlier one was torn: it is the next one, or the
current one once it is written, and only between `commitBatch` and `commitNep17`
is the ledger on disk ahead. A failure there leaves it ahead with nobody inside,
and the next attempt starts from the height in memory. `ChangesOfLedger` holds until the first
reset is called (`resets = 0`); the run `blockchain_reset` shows what becomes of
the snapshot afterwards. It says that the contract storage holds the changes of
exactly the blocks the ledger counts, none twice and none of a failed block. It
does not say that the storage is the state that the blocks alone produce, which
would be false of the code: an invoked script's writes are stored with the next
block, and the theorem holds with any number of them (`MayInvoke`).
The invariant `FirstChainInv` tells why the VM's snapshot, in which a
failed block leaves its changes, is never executed on again: if the snapshot
does not hold the changes of the blocks up to the current one, exactly, and no
block is under way, the hash of the next block is in `mutableInQueue` without a
promise (`Stuck`), so that no `persistBlock` ever queues that block again. That
the hash of a failed block is kept, which looks like an oversight, is what this
property rests on.

`NetworkPeers_proofs.tla` proves `ConnectedIsOpen` and `BestPeerLives` from
`PeersAssumption` alone, for any number of endpoints and connections. The
invariant is their conjunction with `TypeOK`, which is proved with them, and
`DialInv` (there is no socket while it is dialled): a removal by endpoint can
take away too much, never leave a dead peer, because the entry of the connection
that closes is the endpoint's. `BestPeerExists` is proved when the node is never reset
(`~MayReset`), with the addition that `Node` has an entry for every connected peer
(`BestInv`): a peer is missing from the choice of a best one only after a reset.

`BlockIterator_proofs.tla` proves `QueueBounded` and `InOrder` from
`ConstantsAssumption` alone, for chains, batches and queues of any size, any
errors and any resets. The inductive invariant has four parts besides the
types. The queue part says that the blocks waiting in `mutableItems`, taken in
order, continue `last` and lead up to the cursor, errors standing in
between where they occurred. The fetch part says that the chunk under way
begins at the cursor, ends at the limit of its fetch at most, and that the
limit leaves room in the queue: a fetch is planned against the length of the
queue, which can only shrink until its chunks arrive. The waiting part says
that a `next()` waits only with an empty queue and before the end, and that the
end is told only when everything was delivered. The
refinement maps a block that reaches the consumer to `Deliver` and an answer
`done` to `End`. `TypeOK` and `BatchOnChain` need three facts more: the count,
the ledger's index and the announcements of the node follow each other at a
distance of one (`NodeInv`), the requests that are due are those of the chunk
under way (`RequestInv`), and every height the iterator has learnt, hence the limit of
the batch planned with it, is below the end of a chain that was never reset
(`KnownInv`).

`ConsensusDriver_proofs.tla` proves `TypeOK`, `OneDriver`, `LatestBlockFirst` and
`TimerKept` when there is one handler of `reset` (`SingleResetter`), for any
number of calls, blocks and resets, on private and public networks, whichever
handlers throw. `ControlInv` says that the one active driver is that of
`mutableStartPromise`, so a pause waits for it, and that there is none once the
pause has returned. `RoomInv` is why the bound on the queue holds: an armed timer finds
room, and a loop whose queue a pause ended has left the timer off and the
new queue room for one. `TimerInv` strengthens `TimerKept` to the
loop that is handling an event: the timer is armed, or its event is
queued, or the event being handled arms it. That needs `ControlInv`: a second loop
could take the timer event away.

`BlockSync_proofs.tla` proves `TypeOK`, `KnownIsStored` and `CacheShort` from
`ConstantsAssumption`, for any number of peers, heights and failures.
`KnownIsStored` is not inductive: a hash is known once a second copy finds it in
`inQueue`, which is wrong while the first copy waits in the queue. `HashesInv`
adds that this cannot happen: a block under way is in `temp`, and in one of
`looking` and `queue` only. `CacheInv` counts the headers that were added
without one being taken out; that a looked-up block is at least `Genesis` and not
yet known leaves the block the node started with, since all later ones are known
when they are stored.

`TransactionRelay_proofs.tla` proves `TypeOK`, `OncePerChain`, `Affordable` and
`SentIsKept` from `ConstantsAssumption`, for any transactions, senders,
settings, attempts, block and pool sizes and resets. None of the last three is inductive.
`RelayedInv` says that everything the node holds has been relayed, so that either half of a
reset makes it doubtful, fees included. `HashesInv` says that what is in the
pool or on the chain is known, that a transaction is relayed by one request at a
time, and that this request has it among the temporary hashes and not among the
known ones: nothing else keeps a transaction of the chain out of the pool, since the check of
the chain comes several awaits before the insertion. `BlockInv` follows a transaction
from the pool through the proposal to the chain. `HeldInv` says the same as
`SentIsKept` of every known hash and every request answered, so of what the client has
yet to be told. `FeesInv` orders, for each account of `Settled`: what it
owes and has paid, the fees counted for it, and its balance with what it has paid
since; and it bounds the balance a check has read, however old, by the last of
these, because what blocks took from the balance in between is in the sum. The
pool is a function from its transactions to their places, so that what a block or
a trim leaves of it is a set; the order matters to `Fits` alone.

Only model-checked: the liveness properties (`NextBlockSettles`, `StopReturns`,
`KeepsRunning`, `PauseEnds`, `AttemptsEnd`, `SeedsRetried`, `ProgressOrDrop`,
`PoolDrains`, `NextAnswered`), since fairness and ENABLED are beyond the prover. Every
safety property of the passing runs is proved.

## The plan

1. Prove `HeightsAgree` and `GlobalIndexDense` up to the first half-written
   block, without `NoTear`.
2. An abstract specification of a transaction's life (pooled, on the chain, or
   given up, in this order), which `TransactionRelay` implements for what is not
   doubtful.
3. `ReceiptWatch`: the wait of `gettransactionreceipt`.
4. `NodeReset`: the composition of `Blockchain` and `ConsensusDriver` under the
   RPC method `reset`.

## Not modelled

The rounds of several validators. `handleConsensusPayload` drops every payload
whose block index is not the receiver's own validator index (line 577,
`consensusMessage.blockIndex !== contextIn.myIndex`), and for one that passes
compares the sender with `bufferToUInt160` of a redeem script, which is longer
than the 20 bytes that function accepts, so that it throws and the exception
ends the consensus loop. The handlers of prepare requests, responses, commits,
view changes and recoveries are therefore not reached on any network, and a
model of dBFT would be one of the protocol, not of this code. `ConsensusDriver`
keeps what remains: that a handler may throw.

False positives of the scaling Bloom filters. The sets of known hashes are
modelled as sets; with a false positive a transaction or a block is never
asked for, or a validator's own block not stored.

Reasons other than the balance for which a transaction is refused, among them
that it has expired; the responses of oracles; `gettransactionreceipt`; header
messages, which no node asks for.

The compiler, command line, editor and website, and the client library but for
its iterator and its retries, keep no state of the node. Serialization and
cryptography are pure functions on immutable data. The VM is a C# library.
LevelDB's batches are taken to be atomic, which is what levelup documents. See
`components` in `PROJECT.json`.
