------------------------------ MODULE Blockchain ------------------------------
(***************************************************************************)
(* The persist pipeline of packages/neo-one-node-blockchain: the queue of  *)
(* blocks behind persistBlock, the loop that drains it, the three separate *)
(* storage commits a block is written with, the VM's long-lived snapshot,  *)
(* and stop, reset, create and the crash of the process around them.       *)
(*                                                                         *)
(* A block is its height: the consensus protocol gives one block per       *)
(* height, so block.hashHex and block.index name the same thing.  What     *)
(* blocks do to the contract storage is abstracted to the height h such    *)
(* that it holds the changes of blocks 0 to h; what a script run outside   *)
(* any block writes is kept apart from them, in strays; what a block emits *)
(* is abstracted to a number of actions.                                   *)
(***************************************************************************)
EXTENDS Integers

CONSTANTS
    MaxHeight,      \* bound: blocks have heights 0..MaxHeight; 0 is genesis
    Acts,           \* Acts[h]: notifications and logs emitted by block h
    Calls,          \* persistBlock calls that may be in flight at one time
    Resetters,      \* handlers of the RPC method "reset"
    Main,           \* startFullNode, which creates and disposes the Blockchain
    Loops,          \* room for concurrent invocations of persistBlocksAsync
    Faults,         \* the points at which the environment may fail
    MaxCrashes,     \* bound: crashes of the process
    MaxResets,      \* bound: resets
    MayInvoke,      \* bound: whether invokeScript is called, see Invoke
    NoLog,          \* no blockData stored for the height
    Nobody          \* no promise

Heights == 0..MaxHeight

\* A snapshot or store whose changes are not those of the blocks 0 to some h.
Torn == -2

States == (-1..MaxHeight) \cup {Torn}

(***************************************************************************)
(* "read": verifyBlock or the execution throws.  "batch", "updates",       *)
(* "nep17": that commit rejects.  "onPersist", "committee": the callback   *)
(* or the committee read rejects.  "reset": storage.reset rejects.         *)
(* "tear": the process may crash although a block is half written.         *)
(***************************************************************************)
Stages == {"read", "batch", "updates", "nep17", "onPersist", "committee"}
FaultPoints == Stages \cup {"reset", "tear"}

\* Where writes of a script run by invokeScript may be: the VM's main snapshot,
\* the change set of the block under way, the contract storage.
Places == {"main", "block", "disk"}

\* A block between its first commit and its last one.
HalfWritten == {"updates", "nep17"}

Controllers == Resetters \cup {Main}
Owners == Calls \cup Controllers

ASSUME ConstantsAssumption ==
    /\ MaxHeight \in Nat
    /\ Acts \in [Heights -> Nat]
    /\ Faults \subseteq FaultPoints
    /\ MaxCrashes \in Nat
    /\ MaxResets \in Nat
    /\ MayInvoke \in BOOLEAN
    /\ Main \notin Calls \cup Resetters
    /\ Calls \cap Resetters = {}
    /\ Nobody \notin Owners
    /\ NoLog \notin [first : Int, last : Int]

VARIABLES
    disk,           \* what survives a crash, a record (see TypeOK)
    main,           \* the VM's "main" snapshot: the blocks it holds changes of
    strays,         \* the places where a script may have left writes
    current,        \* index of mutableCurrentBlock, -1 when undefined
    queue,          \* mutableBlockQueue: the owners whose block is queued
    inQueue,        \* mutableInQueue: heights
    running,        \* mutableRunning
    persisting,     \* mutablePersistingBlocks
    doneRunning,    \* whose mutableDoneRunningResolve is set
    loop,           \* each invocation of persistBlocksAsync
    status,         \* each owner's persistBlock promise
    height,         \* the block each owner last asked to persist
    ctl,            \* where each controller stands
    phase,          \* "down", "boot" (inside create) or "up"
    crashes, resets \* counters for the bounds

memory == <<current, queue, inQueue, running, persisting, doneRunning>>
promises == <<status, height>>
vars ==
    <<disk, main, strays, memory, loop, promises, ctl, phase, crashes, resets>>

EmptyDisk ==
    [ledger |-> -1, state |-> -1, log |-> [h \in Heights |-> NoLog],
     nep17 |-> {}]

Idle == [pc |-> "idle", entry |-> Nobody, prev |-> -1, post |-> -1]

Init ==
    /\ disk = EmptyDisk
    /\ main = -1
    /\ strays = {}
    /\ current = -1
    /\ queue = {}
    /\ inQueue = {}
    /\ running = FALSE
    /\ persisting = FALSE
    /\ doneRunning = Nobody
    /\ loop = [l \in Loops |-> Idle]
    /\ status = [o \in Owners |-> "idle"]
    /\ height = [o \in Owners |-> 0]
    /\ ctl = [k \in Controllers |-> "idle"]
    /\ phase = "down"
    /\ crashes = 0
    /\ resets = 0

-----------------------------------------------------------------------------
(* The loop of persistBlocksAsync. *)

Take(l, o) == [loop EXCEPT ![l] = [Idle EXCEPT !.pc = "read", !.entry = o]]

\* Defects: the finally block forgets the guard, or the waiting stop().
ReleaseKeepingGuard ==
    /\ doneRunning' = Nobody
    /\ ctl' = [k \in Controllers |->
                  IF k = doneRunning THEN "stopped" ELSE ctl[k]]
    /\ UNCHANGED persisting
ReleaseWakingNobody ==
    /\ persisting' = FALSE
    /\ UNCHANGED <<doneRunning, ctl>>

\* The finally block: the guard is dropped and a waiting stop() released.
Release ==
    /\ persisting' = FALSE
    /\ doneRunning' = Nobody
    /\ ctl' = [k \in Controllers |->
                  IF k = doneRunning THEN "stopped" ELSE ctl[k]]

\* Defects: the next block counts as persisted; any later block is the next.
StaleOrNext(q, cur) == {o \in q : height'[o] <= cur + 1}
AnyLater(q, cur) == {o \in q : height'[o] > cur}

Stale(q, cur) == {o \in q : height'[o] <= cur}
Successor(q, cur) == {o \in q : height'[o] = cur + 1}

\* cleanBlockQueue and the loop's condition, run by l over queue q at height
\* cur, with the promises as in st: the blocks already persisted are resolved,
\* then the loop takes the next one, or puts it back and ends.
Continue(l, q, cur, st) ==
    /\ status' = [o \in Owners |->
                     IF o \in Stale(q, cur) THEN "resolved" ELSE st[o]]
    /\ \/ /\ running
          /\ \E o \in Successor(q, cur) :
                /\ queue' = q \ (Stale(q, cur) \cup {o})
                /\ loop' = Take(l, o)
          /\ persisting' = TRUE
          /\ UNCHANGED <<doneRunning, ctl>>
       \/ /\ ~running \/ Successor(q, cur) = {}
          /\ queue' = q \ Stale(q, cur)
          /\ loop' = [loop EXCEPT ![l] = Idle]
          /\ Release

\* persistBlock for a call made by the node, the consensus or a chain loader.
Persist(c, h) ==
    /\ phase = "up"
    /\ status[c] # "pending"
    /\ height' = [height EXCEPT ![c] = h]
    /\ \/ /\ h \in inQueue
          /\ status' = [status EXCEPT ![c] = "resolved"]
          /\ UNCHANGED <<memory, loop, ctl>>
       \/ /\ h \notin inQueue
          /\ inQueue' = inQueue \cup {h}
          /\ LET q  == queue \cup {c}
                 st == [status EXCEPT ![c] = "pending"]
             IN  \/ /\ persisting \/ ~running
                    /\ queue' = q
                    /\ status' = st
                    /\ UNCHANGED <<persisting, doneRunning, loop, ctl>>
                 \/ /\ ~persisting /\ running
                    /\ \E l \in Loops : /\ loop[l].pc = "idle"
                                        /\ Continue(l, q, current, st)
          /\ UNCHANGED <<current, running>>
    /\ UNCHANGED <<disk, main, strays, phase, crashes, resets>>

-----------------------------------------------------------------------------
(* Scripts run outside blocks, on the main snapshot itself. *)

\* What is copied from one place to another, which held something else before.
Copied(from, to) ==
    IF from \in strays THEN strays \cup {to} ELSE strays \ {to}

\* invokeScript makes a dummy block from the current one, and throws without it.
ScriptMayWrite ==
    /\ MayInvoke
    /\ current # -1
    /\ strays' = strays \cup {"main"}

\* The RPC method "invokescript", served from create() until Main stops: the
\* script runs with all flags on the main snapshot, and nobody takes out of it
\* what it wrote.
Invoke ==
    /\ phase = "up"
    /\ ctl[Main] = "idle"
    /\ ScriptMayWrite
    /\ UNCHANGED <<disk, main, memory, loop, promises>>
    /\ UNCHANGED <<ctl, phase, crashes, resets>>

-----------------------------------------------------------------------------
(* persistBlockInternal, one action per await. *)

At(l, stage) == loop[l].pc = stage

\* Defect: blocks are numbered from 1.
BlockFromOne(l) == height[loop[l].entry] + 1

Block(l) == height[loop[l].entry]
Goto(l, stage) == loop' = [loop EXCEPT ![l].pc = stage]

\* Defect: the counters are looked up under the block's own hash.
PrevLastOfSelf(h) == IF disk.log[h] = NoLog THEN -1 ELSE disk.log[h].last

\* getPrevBlockData: the last action index of the chain before block h.
PrevLast(h) ==
    IF h = 0 \/ disk.log[h - 1] = NoLog THEN -1 ELSE disk.log[h - 1].last

\* The predecessor's counters are read, then the block runs in the VM, on
\* whatever the main snapshot holds; its change set is all that is in there.
ReadAndExecute(l) ==
    /\ At(l, "read")
    /\ LET h    == Block(l)
           post == IF main = h - 1 THEN h ELSE Torn
       IN  /\ main' = post
           /\ loop' = [loop EXCEPT ![l].pc = "batch",
                                   ![l].prev = PrevLast(h),
                                   ![l].post = post]
    /\ strays' = Copied("main", "block")
    /\ UNCHANGED <<disk, memory, promises, ctl, phase, crashes, resets>>

\* The change set of the execution, applied to the contract storage.  The
\* ledger's current index is part of it.
CommitBatch(l) ==
    /\ At(l, "batch")
    /\ LET h == Block(l)
           fits == loop[l].post = h /\ disk.state \in {h - 1, h}
       IN  disk' = [disk EXCEPT !.ledger = h,
                                !.state = IF fits THEN h ELSE Torn]
    /\ strays' = IF "block" \in strays THEN strays \cup {"disk"} ELSE strays
    /\ Goto(l, "updates")
    /\ UNCHANGED <<main, memory, promises, ctl, phase, crashes, resets>>

\* Defect: a block starts at the last index of its predecessor.
IndexesFromLast(prev, h) == [first |-> prev, last |-> prev + Acts[h] - 1]

\* The global indexes PersistingBlockchain gives the actions of block h.
Indexes(prev, h) == [first |-> prev + 1, last |-> prev + Acts[h]]

\* Action, transaction, block and application log records of the block.  In the
\* same continuation balanceOf is invoked for the balances that changed.
CommitUpdates(l) ==
    /\ At(l, "updates")
    /\ disk' = [disk EXCEPT !.log[Block(l)] = Indexes(loop[l].prev, Block(l))]
    /\ UNCHANGED strays \/ ScriptMayWrite
    /\ Goto(l, "nep17")
    /\ UNCHANGED <<main, memory, promises, ctl, phase, crashes, resets>>

\* The token balances, then updateBlockMetadata in the same continuation.
CommitNep17(l) ==
    /\ At(l, "nep17")
    /\ disk' = [disk EXCEPT !.nep17 = disk.nep17 \cup {Block(l)}]
    /\ current' = Block(l)
    /\ Goto(l, "onPersist")
    /\ UNCHANGED <<queue, inQueue, running, persisting, doneRunning>>
    /\ UNCHANGED <<main, strays, promises, ctl, phase, crashes, resets>>

\* The default onPersist reopens the VM's snapshot on the stored state.
OnPersist(l) ==
    /\ At(l, "onPersist")
    /\ main' = disk.state
    /\ strays' = Copied("disk", "main")
    /\ Goto(l, "committee")
    /\ UNCHANGED <<disk, memory, promises, ctl, phase, crashes, resets>>

\* After the committee refresh the promise resolves and the loop goes on.
Complete(l) ==
    /\ At(l, "committee")
    /\ UNCHANGED height
    /\ Continue(l, queue, current,
                [status EXCEPT ![loop[l].entry] = "resolved"])
    /\ UNCHANGED <<disk, main, strays, current, inQueue, running>>
    /\ UNCHANGED <<phase, crashes, resets>>

\* Defect (or repair of the stuck hash): a failed block may be queued again.
HashesWithoutFailed(l) == inQueue \ {Block(l)}

\* The hash of a block that failed is never taken out of mutableInQueue.
HashesAfterFailure(l) == inQueue

\* A stage throws: the entry is rejected and dropped, the loop ends.  An
\* execution that throws may leave its writes in the main snapshot.
Fail(l) ==
    /\ loop[l].pc # "idle"
    /\ \/ loop[l].pc \in Faults
       \/ At(l, "read") /\ (main # Block(l) - 1 \/ "main" \in strays)
    /\ IF At(l, "read") THEN main' \in {main, Torn} ELSE UNCHANGED main
    /\ status' = [status EXCEPT ![loop[l].entry] = "rejected"]
    /\ loop' = [loop EXCEPT ![l] = Idle]
    /\ Release
    /\ inQueue' = HashesAfterFailure(l)
    /\ UNCHANGED <<disk, strays, current, queue, running, height>>
    /\ UNCHANGED <<phase, crashes, resets>>

Step(l) ==
    \/ ReadAndExecute(l)
    \/ CommitBatch(l)
    \/ CommitUpdates(l)
    \/ CommitNep17(l)
    \/ OnPersist(l)
    \/ Complete(l)

-----------------------------------------------------------------------------
(* stop, reset and the life of the process. *)

Resetting == \E k \in Resetters : ctl[k] # "idle" \/ status[k] = "pending"

\* Defect: stop() does not wait for the block in progress.
NeverWaits == FALSE

LoopBusy == running /\ persisting

\* stop() up to its await.  Main stops the blockchain once the RPC server has
\* closed, so never while a reset is in progress.
Stop(k) ==
    /\ phase = "up"
    /\ ctl[k] = "idle"
    /\ status[k] # "pending"
    /\ k = Main => ~Resetting
    /\ k # Main => resets < MaxResets /\ ctl[Main] = "idle"
    /\ resets' = IF k = Main THEN resets ELSE resets + 1
    /\ running' = FALSE
    /\ IF LoopBusy
       THEN /\ doneRunning' = k
            /\ ctl' = [ctl EXCEPT ![k] = "stopping"]
       ELSE /\ ctl' = [ctl EXCEPT ![k] = "stopped"]
            /\ UNCHANGED doneRunning
    /\ UNCHANGED <<current, queue, inQueue, persisting>>
    /\ UNCHANGED <<disk, main, strays, loop, promises, phase, crashes>>

\* Defect: reset() forgets to clear mutableCurrentBlock.
ForgetQueueOnly == queue' = {} /\ inQueue' = {0} /\ UNCHANGED current

\* reset() and start() forget the current block, the queue and the hashes; the
\* genesis block is then the first one queued.
Forget == queue' = {} /\ inQueue' = {0} /\ current' = -1

\* reset() after its stop(): the storage is emptied and the genesis block is
\* persisted.
ResetStorage(k) ==
    /\ ctl[k] = "stopped"
    /\ disk' = EmptyDisk
    /\ strays' = strays \ {"disk"}
    /\ Forget
    /\ running' = TRUE
    /\ persisting' = TRUE
    /\ doneRunning' = Nobody
    /\ height' = [height EXCEPT ![k] = 0]
    /\ status' = [status EXCEPT ![k] = "pending"]
    /\ \E l \in Loops : loop[l].pc = "idle" /\ loop' = Take(l, k)
    /\ ctl' = [ctl EXCEPT ![k] = "idle"]
    /\ UNCHANGED <<main, phase, crashes, resets>>

\* storage.reset rejects, and with it reset(): the blockchain stays stopped.
ResetFails(k) ==
    /\ ctl[k] = "stopped"
    /\ "reset" \in Faults
    /\ ctl' = [ctl EXCEPT ![k] = "idle"]
    /\ UNCHANGED <<disk, main, strays, memory, loop, promises>>
    /\ UNCHANGED <<phase, crashes, resets>>

\* Blockchain.create in a new process: a new VM opens the store, and the
\* height is read back from the ledger; an empty store gets the genesis block.
Boot ==
    /\ phase = "down"
    /\ main' = disk.state
    /\ strays' = Copied("disk", "main")
    /\ current' = disk.ledger
    /\ running' = TRUE
    /\ IF disk.ledger = -1
       THEN /\ phase' = "boot"
            /\ inQueue' = {0}
            /\ height' = [height EXCEPT ![Main] = 0]
            /\ status' = [status EXCEPT ![Main] = "pending"]
            /\ persisting' = TRUE
            /\ \E l \in Loops : loop' = Take(l, Main)
       ELSE /\ phase' = "up"
            /\ UNCHANGED <<inQueue, promises, persisting, loop>>
    /\ UNCHANGED <<disk, queue, doneRunning, ctl, crashes, resets>>

\* The memory of the process is gone; Boot starts from here.
Die ==
    /\ phase' = "down"
    /\ main' = -1
    /\ strays' = strays \cap {"disk"}
    /\ current' = -1
    /\ queue' = {}
    /\ inQueue' = {}
    /\ running' = FALSE
    /\ persisting' = FALSE
    /\ doneRunning' = Nobody
    /\ loop' = [l \in Loops |-> Idle]
    /\ status' = [o \in Owners |-> "idle"]
    /\ height' = [o \in Owners |-> 0]
    /\ ctl' = [k \in Controllers |-> "idle"]
    /\ UNCHANGED <<disk, resets>>

\* create() returns, or rejects and takes the process with it.
Created ==
    /\ phase = "boot"
    /\ status[Main] = "resolved"
    /\ phase' = "up"
    /\ UNCHANGED <<disk, main, strays, memory, loop, promises>>
    /\ UNCHANGED <<ctl, crashes, resets>>

CreateFails ==
    /\ phase = "boot"
    /\ status[Main] = "rejected"
    /\ Die
    /\ UNCHANGED crashes

\* Main disposes the VM and the storage after its stop().
Shutdown ==
    /\ ctl[Main] = "stopped"
    /\ Die
    /\ UNCHANGED crashes

Crash ==
    /\ phase # "down"
    /\ crashes < MaxCrashes
    /\ (\E l \in Loops : loop[l].pc \in HalfWritten) => "tear" \in Faults
    /\ crashes' = crashes + 1
    /\ Die

Next ==
    \/ \E c \in Calls, h \in Heights : Persist(c, h)
    \/ Invoke
    \/ \E l \in Loops : ReadAndExecute(l)
    \/ \E l \in Loops : CommitBatch(l)
    \/ \E l \in Loops : CommitUpdates(l)
    \/ \E l \in Loops : CommitNep17(l)
    \/ \E l \in Loops : OnPersist(l)
    \/ \E l \in Loops : Complete(l)
    \/ \E l \in Loops : Fail(l)
    \/ \E k \in Controllers : Stop(k)
    \/ \E k \in Resetters : ResetStorage(k)
    \/ \E k \in Resetters : ResetFails(k)
    \/ Boot
    \/ Created
    \/ CreateFails
    \/ Shutdown
    \/ Crash

\* The event loop runs every continuation whose I/O has finished, so an
\* invocation of persistBlocksAsync keeps moving and a stopped reset proceeds.
Fairness ==
    /\ \A l \in Loops : WF_vars(Step(l))
    /\ \A k \in Resetters : WF_vars(ResetStorage(k))
    /\ WF_vars(Boot \/ Created \/ CreateFails)

Spec == Init /\ [][Next]_vars
FairSpec == Spec /\ Fairness

-----------------------------------------------------------------------------
(* Properties. *)

LogEntries == [first : Int, last : Int] \cup {NoLog}

LoopStates == [pc : Stages \cup {"idle"}, entry : Owners \cup {Nobody},
               prev : Int, post : States]

Statuses == {"idle", "pending", "resolved", "rejected"}

StoreType ==
    /\ disk \in [ledger : -1..MaxHeight, state : States,
                 log : [Heights -> LogEntries], nep17 : SUBSET Heights]
    /\ main \in States
    /\ strays \subseteq Places
    /\ current \in -1..MaxHeight

FlagsType == running \in BOOLEAN /\ persisting \in BOOLEAN

QueueType ==
    /\ queue \subseteq Owners
    /\ inQueue \subseteq Heights
    /\ status \in [Owners -> Statuses]
    /\ height \in [Owners -> Heights]

LoopType == loop \in [Loops -> LoopStates]

ControlType ==
    /\ doneRunning \in Controllers \cup {Nobody}
    /\ ctl \in [Controllers -> {"idle", "stopping", "stopped"}]
    /\ phase \in {"down", "boot", "up"}
    /\ crashes \in Nat
    /\ resets \in Nat

\* Every variable stays within the values the code can give it.
TypeOK == StoreType /\ FlagsType /\ QueueType /\ LoopType /\ ControlType

\* mutablePersistingBlocks is a lock: it is set exactly while an invocation of
\* persistBlocksAsync is draining the queue, and never two of them drain it,
\* though start() clears it and calls arrive between any two awaits.
OneLoop ==
    /\ persisting <=> \E l \in Loops : loop[l].pc # "idle"
    /\ \A l, m \in Loops :
          loop[l].pc # "idle" /\ loop[m].pc # "idle" => l = m

\* The height in memory follows the stored one: it is behind only while the
\* last two commits of the next block are in progress.
HeightsAgree ==
    phase # "down" =>
        \/ disk.ledger = current
        \/ /\ disk.ledger = current + 1
           /\ \E l \in Loops : /\ loop[l].pc \in HalfWritten
                               /\ Block(l) = disk.ledger

\* Whatever fails or crashes, memory is at most one block behind the store.
HeightsClose ==
    phase # "down" => disk.ledger \in {current, current + 1}

\* Every block up to the height in memory has all three parts stored, so that
\* getPrevBlockData never mistakes a block's predecessor for a missing one.
BlocksComplete ==
    \A h \in Heights :
        h <= current => disk.log[h] # NoLog /\ h \in disk.nep17

\* The actions of the chain are numbered from 0 without a gap or a repetition,
\* each block's on from its predecessor's, across failures and restarts.
GlobalIndexDense ==
    \A h \in Heights :
        h <= current =>
            disk.log[h].first =
                (IF h = 0 THEN 0 ELSE disk.log[h - 1].last + 1)

\* "Ordered globally unique index of the action" (client-common/src/types.ts):
\* the indexes of a block are above those of every earlier block.
GlobalIndexOrdered ==
    \A g, h \in Heights :
        /\ g < h
        /\ disk.log[g] # NoLog
        /\ disk.log[h] # NoLog
        => disk.log[g].last < disk.log[h].first

\* The contract storage holds the changes of exactly the blocks the ledger
\* counts: each was executed on top of its predecessor's changes, none twice,
\* and none of a block that failed.  Not that nothing else is in it: what an
\* invoked script wrote to the main snapshot, over a block's writes perhaps, is
\* stored with the next block, and then "disk" \in strays.
ChangesOfLedger == disk.state = disk.ledger

\* A queued call resolves only once its block is on the chain.
ResolvedIsPersisted ==
    [][\A o \in Owners :
          status[o] = "pending" /\ status'[o] = "resolved" =>
              height[o] <= current' /\ height[o] <= disk'.ledger]_vars

\* persistBlock answers "already handled" for every hash in mutableInQueue.
\* Whatever fails, that is wrong of the next block only: any other hash there is
\* on the chain or has a promise that is still going to report its outcome.
OnlyNextHashIsLost ==
    \A h \in inQueue :
        \/ h <= current + 1
        \/ \E o \in Owners : status[o] = "pending" /\ height[o] = h

\* The block the chain waits for does not sit in the queue while the loop has
\* work: its promise settles unless the blockchain is stopped, the process goes
\* down, or a callback fails after its block was written, which rejects a block
\* that is on the chain and ends the loop with the next one in the queue.
NextBlockSettles ==
    \A o \in Owners :
        (o \in queue /\ height[o] = current + 1 /\ running /\ persisting)
            ~> \/ status[o] # "pending"
               \/ ~running
               \/ \E p \in Owners : status[p] = "rejected" /\ height[p] <= current

\* stop(), and with it reset() and the shutdown, returns although the loop was
\* busy when it was called.
StopReturns ==
    \A k \in Controllers : ctl[k] = "stopping" ~> ctl[k] # "stopping"

\* "Reset the local network to it's initial state starting at the genesis
\* block" (client-core/src/DeveloperClient.ts): a reset that nothing disturbs
\* succeeds, and the contract storage has the changes of the new chain's blocks.
ResetStartsOver ==
    \A k \in Resetters :
        /\ status[k] # "rejected"
        /\ status[k] = "resolved" => disk.state = disk.ledger

\* To readers of the height in memory a block appears at once with all of its
\* records, though it is written in three commits: the pipeline implements
\* BlockLedger.  Between two processes the stored height is the reader's.
Visible == IF phase = "down" THEN disk.ledger ELSE current

Ledger == INSTANCE BlockLedger WITH
    top <- Visible,
    log <- [h \in Heights |-> IF h <= Visible THEN disk.log[h] ELSE NoLog]

AtomicBlocks == Ledger!Spec

=============================================================================
