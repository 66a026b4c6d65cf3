---------------------------- MODULE BlockIterator ----------------------------
(***************************************************************************)
(* The client's AsyncBlockIterator over the RPC methods getblockcount and  *)
(* getblock of a node whose chain grows and may be reset meanwhile.  The   *)
(* consumer calls next() again only when the last call was answered, as    *)
(* for-await and toObservable do.  A block is its index.                   *)
(*                                                                         *)
(* The node stores a block in stages: with the first commit the count      *)
(* moves and the block can be read, with the second come the records       *)
(* getblock adds to it, and those who watch block$ hear of it last (see    *)
(* Blockchain).                                                            *)
(***************************************************************************)
EXTENDS Naturals, Sequences, FiniteSets

CONSTANTS
    None,           \* undefined
    Starts, Stops,  \* the values of indexStart and indexStop, None included
    BatchSize,      \* blocks asked for at once
    QueueSize,      \* QUEUE_SIZE, the blocks held for the consumer
    MaxHeight,      \* bound: blocks of the chain
    MaxResets,      \* bound: resets of the chain
    MayFail         \* whether requests may fail otherwise than by UNKNOWN_BLOCK

ASSUME ConstantsAssumption ==
    /\ None \notin Nat
    /\ Starts \subseteq Nat \cup {None}
    /\ Stops \subseteq Nat \cup {None}
    /\ BatchSize \in Nat \ {0}
    /\ QueueSize \in Nat \ {0}
    /\ MaxHeight \in Nat
    /\ MaxResets \in Nat
    /\ MayFail \in BOOLEAN

VARIABLES
    ledger,         \* the node's getblockcount
    stored,         \* blocks stored with all their records
    announced,      \* blocks block$ has emitted
    resets,         \* resets of the chain so far
    start, stop,    \* the iterator's options
    items,          \* mutableItems
    waiting,        \* a next() waits in mutableResolvers
    done,           \* mutableDone
    cursor,         \* mutableCurrentIndex
    height,         \* mutableStartHeight
    fetch,          \* the asyncFetch under way
    request,        \* the getBlock calls of its chunk
    count,          \* the answer to its second getBlockCount
    last, ended     \* what the consumer was told: last block, no more blocks

chain == <<ledger, stored, announced, resets>>
options == <<start, stop>>
iterator == <<items, waiting, done, cursor, height>>
calls == <<fetch, request, count>>
consumer == <<last, ended>>
vars == <<chain, options, iterator, calls, consumer>>

\* An item of the queue: a block, or an error met when the block at index `at`
\* was the next to be fetched.
Item == [block : BOOLEAN, at : Nat]

Idle == [kind |-> "none", first |-> 0, end |-> 0, limit |-> 0]
Counting == [Idle EXCEPT !.kind = "count"]

\* The blocks of a chunk.
Chunk(f) == {i \in f.first..f.end : i < f.end}

Lesser(a, b) == IF a <= b THEN a ELSE b

\* One chunk of the blocks from i up to and without limit.
ChunkFrom(kind, i, limit) ==
    [kind |-> kind, first |-> i, end |-> Lesser(i + BatchSize, limit), limit |-> limit]

\* Defect: the queue is taken to be empty.
LimitOfEmptyQueue(i, h, n) ==
    LET known == Lesser(i + QueueSize, h)
    IN  IF stop = None THEN known ELSE Lesser(known, stop)

\* Defect: the batch goes on past indexStop.
LimitPastStop(i, h, n) ==
    Lesser(IF n < QueueSize THEN i + (QueueSize - n) ELSE i, h)

\* The blocks asyncFetch goes for when n items are still queued: the next one,
\* with a watch, once it has reached the height it knows, else all below that
\* height for which the queue has room.
Limit(i, h, n) ==
    LET room == IF n < QueueSize THEN i + (QueueSize - n) ELSE i
        known == Lesser(room, h)
    IN  IF stop = None THEN known ELSE Lesser(known, stop)

\* Defect: the count of blocks is taken for the index of the last one.
PlanPastEnd(i, h, n) ==
    CASE i > h -> ChunkFrom("single", i, i + 1)
      [] i <= h /\ i < Limit(i, h + 1, n) -> ChunkFrom("batch", i, Limit(i, h + 1, n))
      [] OTHER -> Idle

Plan(i, h, n) ==
    CASE i >= h -> ChunkFrom("single", i, i + 1)
      [] i < h /\ i < Limit(i, h, n) -> ChunkFrom("batch", i, Limit(i, h, n))
      [] OTHER -> Idle

\* Defect: one call too many.
AskedThroughEnd(f) == [i \in f.first..f.end |-> "asked"]

\* The getBlock calls of a chunk that has just been asked for.
Asked(f) == [i \in Chunk(f) |-> "asked"]

Finished(i) == stop # None /\ i >= stop

Init ==
    /\ \E n \in 1..MaxHeight : ledger = n /\ stored = n /\ announced = n
    /\ resets = 0
    /\ start \in Starts
    /\ stop \in Stops
    /\ items = <<>> /\ waiting = FALSE /\ done = FALSE
    /\ cursor = start /\ height = None
    /\ fetch = Idle /\ request = <<>> /\ count = None
    /\ last = None /\ ended = FALSE

-----------------------------------------------------------------------------
(* The node. *)

CommitBatch ==
    /\ ledger = announced
    /\ ledger < MaxHeight
    /\ ledger' = ledger + 1
    /\ UNCHANGED <<stored, announced, resets, options, iterator, calls, consumer>>

CommitUpdates ==
    /\ stored < ledger
    /\ stored' = stored + 1
    /\ UNCHANGED <<ledger, announced, resets, options, iterator, calls, consumer>>

\* block$ emits the block to the requests that watch for it.
Announce ==
    /\ announced < stored
    /\ announced' = announced + 1
    /\ request' = [i \in DOMAIN request |->
                      IF i = announced /\ request[i] = "watching" THEN "here" ELSE request[i]]
    /\ UNCHANGED <<ledger, stored, resets, options, iterator, fetch, count, consumer>>

\* The chain is erased, and block$ replaced: who watches the old one hears
\* nothing more.
ResetChain ==
    /\ ledger = announced
    /\ ledger > 0
    /\ resets < MaxResets
    /\ resets' = resets + 1
    /\ ledger' = 0 /\ stored' = 0 /\ announced' = 0
    /\ request' = [i \in DOMAIN request |->
                      IF request[i] = "watching" THEN "unheard" ELSE request[i]]
    /\ UNCHANGED <<options, iterator, fetch, count, consumer>>

-----------------------------------------------------------------------------
(* The requests of a fetch. *)

\* getblock reads the store.  A block without its records is an answer that
\* convertBlock refuses.  A request of a batch that finds nothing is answered
\* with UNKNOWN_BLOCK and repeated at once, which changes nothing.
Read(i) ==
    /\ i \in DOMAIN request
    /\ request[i] = "asked"
    /\ i < ledger \/ fetch.kind = "single"
    /\ request' = [request EXCEPT ![i] = CASE i < stored -> "here"
                                           [] i >= stored /\ i < ledger -> "partial"
                                           [] OTHER -> "missing"]
    /\ UNCHANGED <<chain, options, iterator, fetch, count, consumer>>

\* ... and then watches block$; what was emitted since the read is missed.
Watch(i) ==
    /\ i \in DOMAIN request
    /\ request[i] = "missing"
    /\ request' = [request EXCEPT ![i] = "watching"]
    /\ UNCHANGED <<chain, options, iterator, fetch, count, consumer>>

\* Defect: a watch that ends is not repeated.
NoRetry == "unheard"

\* The watch times out with UNKNOWN_BLOCK and fetchOne asks again.
Retry == "asked"

TimedOut(i) ==
    /\ i \in DOMAIN request
    /\ request[i] \in {"watching", "unheard"}
    /\ request' = [request EXCEPT ![i] = Retry]
    /\ UNCHANGED <<chain, options, iterator, fetch, count, consumer>>

\* The getBlockCount that goes with the fetch of a single block.
Counted ==
    /\ fetch.kind = "single"
    /\ count = None
    /\ ledger > 0
    /\ count' = ledger
    /\ UNCHANGED <<chain, options, iterator, fetch, request, consumer>>

-----------------------------------------------------------------------------
(* The iterator. *)

Begin(f) == fetch' = f /\ request' = Asked(f) /\ count' = None

\* next() starts a fetch unless one is under way or the stream is done; it is
\* answered with the oldest item, with the end, or when something arrives.
Fetch ==
    LET starts == ~done /\ fetch = Idle
        known == height # None /\ cursor # None
        ends == starts /\ known /\ Finished(cursor)
    IN  /\ IF starts /\ ~ends
             THEN Begin(IF known THEN Plan(cursor, height, Len(items)) ELSE Counting)
             ELSE UNCHANGED calls
        /\ done' = (done \/ ends)

Answer ==
    IF items # <<>>
      THEN /\ items' = Tail(items)
           /\ last' = IF Head(items).block THEN Head(items).at ELSE last
           /\ UNCHANGED <<waiting, ended>>
      ELSE /\ waiting' = ~done'
           /\ ended' = (ended \/ done')
           /\ UNCHANGED <<items, last>>

CallNext ==
    /\ ~waiting
    /\ Fetch
    /\ Answer
    /\ UNCHANGED <<chain, options, cursor, height>>

\* The first fetch learns the height of the chain.
FirstCount ==
    /\ fetch.kind = "count"
    /\ ledger > 0
    /\ LET h == IF height = None THEN ledger - 1 ELSE height
           i == IF cursor = None THEN ledger - 1 ELSE cursor
       IN  /\ height' = h
           /\ cursor' = i
           /\ done' = Finished(i)
           /\ waiting' = (waiting /\ ~Finished(i))
           /\ ended' = (ended \/ (waiting /\ Finished(i)))
           /\ Begin(IF Finished(i) THEN Idle ELSE Plan(i, h, Len(items)))
    /\ UNCHANGED <<chain, options, items, last>>

\* push: the waiting next() gets the first item, the queue the others.
Push(new) ==
    IF waiting
      THEN /\ items' = items \o Tail(new)
           /\ waiting' = FALSE
           /\ last' = IF Head(new).block THEN Head(new).at ELSE last
      ELSE /\ items' = items \o new
           /\ UNCHANGED <<waiting, last>>

Blocks == [k \in 1..(fetch.end - fetch.first) |->
              [block |-> TRUE, at |-> fetch.first + (k - 1)]]

\* Every block of the chunk is there, and with a single block the new count:
\* the cursor moves and the blocks are handed on.
Arrived ==
    /\ fetch.kind \in {"single", "batch"}
    /\ \A i \in DOMAIN request : request[i] = "here"
    /\ fetch.kind = "single" => count # None
    /\ cursor' = cursor + (fetch.end - fetch.first)
    /\ Push(Blocks)
    /\ height' = IF fetch.kind = "single" THEN count ELSE height
    /\ Begin(IF fetch.end < fetch.limit
               THEN ChunkFrom("batch", fetch.end, fetch.limit)
               ELSE Idle)
    /\ UNCHANGED <<chain, options, done, ended>>

\* The fetch ends with an error; the cursor stays, the error is the next item.
Reject ==
    /\ fetch # Idle
    /\ IF cursor = None
         THEN waiting' = FALSE /\ UNCHANGED <<items, last>>
         ELSE Push(<<[block |-> FALSE, at |-> cursor]>>)
    /\ Begin(Idle)
    /\ UNCHANGED <<chain, options, done, cursor, height, ended>>

\* A block came without its records.
Incomplete == (\E i \in DOMAIN request : request[i] = "partial") /\ Reject

\* A request fails, which a getblockcount does while there is no chain.
Fail ==
    /\ \/ MayFail
       \/ ledger = 0 /\ fetch.kind = "count"
       \/ ledger = 0 /\ fetch.kind = "single" /\ count = None
    /\ Reject

-----------------------------------------------------------------------------
Requests == \E i \in DOMAIN request : Read(i) \/ Watch(i) \/ TimedOut(i)

Next ==
    \/ CommitBatch \/ CommitUpdates \/ Announce \/ ResetChain
    \/ Requests \/ Counted
    \/ CallNext \/ FirstCount \/ Arrived \/ Incomplete \/ Fail

Spec == Init /\ [][Next]_vars

\* The node answers, timers expire, the block being written gets written.
Fairness ==
    /\ WF_vars(CommitUpdates) /\ WF_vars(Announce)
    /\ \A i \in 0..MaxHeight : WF_vars(Read(i)) /\ WF_vars(Watch(i)) /\ WF_vars(TimedOut(i))
    /\ WF_vars(Counted) /\ WF_vars(FirstCount)
    /\ WF_vars(Arrived) /\ WF_vars(Incomplete)

FairSpec == Spec /\ Fairness

-----------------------------------------------------------------------------
TypeOK ==
    /\ announced \in 0..stored /\ stored \in 0..ledger /\ ledger \in 0..MaxHeight
    /\ ledger <= announced + 1
    /\ resets \in 0..MaxResets
    /\ start \in Starts /\ stop \in Stops
    /\ items \in Seq(Item)
    /\ waiting \in BOOLEAN /\ done \in BOOLEAN /\ ended \in BOOLEAN
    /\ cursor \in Nat \cup {None} /\ height \in Nat \cup {None}
    /\ last \in Nat \cup {None} /\ count \in Nat \cup {None}
    /\ fetch \in [kind : {"none", "count", "single", "batch"},
                   first : Nat, end : Nat, limit : Nat]
    /\ DOMAIN request = Chunk(fetch)
    /\ \A i \in Chunk(fetch) :
          request[i] \in {"asked", "missing", "watching", "unheard", "partial", "here"}

\* Whatever is asked for at once, in whatever order it arrives, fails or is
\* repeated: the consumer gets each block once and in order, and the end only
\* when the block before indexStop was delivered.
Stream == INSTANCE BlockStream

InOrder == Stream!Spec

\* However slow the consumer, no more than QUEUE_SIZE blocks and errors wait
\* for it, though every next() may start a fetch of its own.
QueueBounded == Len(items) <= QueueSize

\* Only the block after the known end is asked for with a watch; a batch asks
\* for blocks the node has.  Otherwise its requests fail and are repeated
\* without a pause.  A reset that shortens the chain breaks this.
BatchOnChain ==
    resets = 0 /\ fetch.kind = "batch" => \A i \in DOMAIN request : i < ledger

\* A next() whose block the node has stored is answered, with the block or an
\* error: a block announced between the read and the watch is found by the
\* next attempt, and no fetch ends without waking who waits.
NextAnswered ==
    (waiting /\ (cursor = None \/ cursor < stored)) ~> (~waiting \/ resets > 0)
=============================================================================
