------------------------------- MODULE BlockSync -------------------------------
(***************************************************************************)
(* How a node fetches the blocks it lacks: requestBlocks of packages/      *)
(* neo-one-node-protocol asks its best peer for hashes, the Inv messages   *)
(* that come back are turned into GetData requests, the blocks arrive in   *)
(* any order and wait in the queue of Blockchain until their turn.         *)
(*                                                                         *)
(* A block, and its hash, is its index: all peers are on one chain.  Of a  *)
(* connection only the messages on the way are kept, unordered: a peer     *)
(* reads the blocks of a request concurrently, and the node handles each   *)
(* message in a promise of its own.  What the peers ask of the node, its   *)
(* own announcements and the RPC method "reset" are left out.              *)
(***************************************************************************)
EXTENDS Integers, FiniteSets, Sequences, Functions

CONSTANTS
    Peers,          \* peers, by endpoint
    None,           \* undefined
    Genesis,        \* the node's height when it starts
    PerCount,       \* blocks asked for, per count (50)
    Buffer,         \* GET_BLOCKS_BUFFER
    CloseCount,     \* GET_BLOCKS_CLOSE_COUNT
    Ahead,          \* how far a new peer must be ahead to be the best (100)
    MaxBlock,       \* bound: height of the peers
    MaxFailures     \* bound: blocks the storage fails to persist

ASSUME ConstantsAssumption ==
    /\ None \notin Peers /\ None \notin Nat
    /\ {Genesis, PerCount, Buffer, CloseCount, Ahead, MaxBlock, MaxFailures} \subseteq Nat
    /\ Genesis <= MaxBlock

Blocks == 0..MaxBlock

VARIABLES
    top,            \* the height of each peer
    link,           \* whether it is connected
    asked, sent,    \* messages on the way to and from each peer
    best,           \* mutableBestPeer
    index,          \* mutableBlockIndex
    armed,          \* requestBlocks is due
    recent,         \* mutableGetBlocksRequestTime was less than a second ago
    reqIndex,       \* mutableGetBlocksRequestsIndex
    reqCount,       \* mutableGetBlocksRequestsCount
    height,         \* currentBlockIndex
    queue, inQueue, \* mutableBlockQueue, mutableInQueue of Blockchain
    known, temp,    \* mutableKnownBlockHashes, tempKnownBlockHashes
    looking,        \* blocks persistBlock awaits getBlock for
    cache           \* headerCache

peers == <<top, link, asked, sent>>
requests == <<best, index, armed, recent, reqIndex, reqCount>>
chain == <<height, queue, inQueue, cache>>
hashes == <<known, temp, looking>>
vars == <<peers, requests, chain, hashes>>

Message(type, S) == [type |-> type, hashes |-> S]

Init ==
    /\ top \in [Peers -> Genesis..MaxBlock]
    /\ link = [p \in Peers |-> FALSE]
    /\ asked = [p \in Peers |-> {}] /\ sent = [p \in Peers |-> {}]
    /\ best = None
    /\ index = [p \in Peers |-> 0]
    /\ armed = FALSE /\ recent = FALSE
    /\ reqIndex = None /\ reqCount = 1
    /\ height = Genesis
    /\ queue = {} /\ inQueue = {}
    /\ known = {} /\ temp = {} /\ looking = {}
    /\ cache = <<>>

Connected == {p \in Peers : link[p]}

\* requestBlocks goes by the block before the current one.
Start == IF height = 0 THEN 0 ELSE height - 1

-----------------------------------------------------------------------------
(* Connections. *)

\* findBestPeer among ps: one of the highest.
BestOf(ps) ==
    IF ps = {} THEN {None}
    ELSE {p \in ps : \A q \in ps : index[q] <= index[p]}

\* Defect: the peer that goes may be chosen once more.
AnyOf(p) == Connected

Others(p) == Connected \ {p}

ResetRequests == reqIndex' = None /\ reqCount' = 0 /\ armed' = TRUE

\* The best peer is changed for one far ahead of it only.
FarAhead(p) == IF best = None THEN TRUE ELSE index[best] + Ahead < top[p]

\* negotiate, and PEER_CONNECT_SUCCESS.
Connect(p) ==
    /\ ~link[p]
    /\ link' = [link EXCEPT ![p] = TRUE]
    /\ index' = [index EXCEPT ![p] = top[p]]
    /\ \/ FarAhead(p) /\ best' = p /\ ResetRequests
       \/ ~FarAhead(p) /\ UNCHANGED <<best, reqIndex, reqCount, armed>>
    /\ UNCHANGED <<top, asked, sent, recent, chain, hashes>>

\* What is on the way is lost with the connection.
Drop(p) ==
    /\ link' = [link EXCEPT ![p] = FALSE]
    /\ asked' = [asked EXCEPT ![p] = {}]
    /\ sent' = [sent EXCEPT ![p] = {}]

\* A connection closes, for whatever reason: PEER_CLOSED.
Close(p) ==
    /\ link[p]
    /\ Drop(p)
    /\ \/ /\ p = best
          /\ best' \in BestOf(Others(p))
          /\ ResetRequests
       \/ p # best /\ UNCHANGED <<best, reqIndex, reqCount, armed>>
    /\ UNCHANGED <<top, index, recent, chain, hashes>>

-----------------------------------------------------------------------------
(* requestBlocks. *)

Due == reqIndex = None \/ height - reqIndex > Buffer \/ ~recent

\* Defect: the count starts anew with every request.
CountAnew == 1

\* Requests in vain for the same block are counted.
NextCount == IF reqIndex = Start THEN reqCount + 1 ELSE 1

Ask(p, n) ==
    LET amount == IF n * PerCount < index[p] - Start THEN n * PerCount ELSE index[p] - Start
    IN  asked' = [asked EXCEPT ![p] =
                     @ \cup {Message("getblocks", (Start + 1)..(Start + amount - 1))}]

Wanting == armed /\ IF best = None THEN FALSE ELSE Start < index[best]

\* Without a best peer that is ahead, requestBlocks is not called again.
StopRequesting ==
    /\ armed
    /\ ~Wanting
    /\ armed' = FALSE
    /\ UNCHANGED <<peers, best, index, recent, reqIndex, reqCount, chain, hashes>>

\* blacklistAndClose.
DropBest ==
    /\ Wanting
    /\ reqCount > CloseCount
    /\ best' \in BestOf(Others(best))
    /\ Drop(best)
    /\ reqCount' = 0
    /\ UNCHANGED <<top, index, armed, recent, reqIndex, chain, hashes>>

Request ==
    /\ Wanting
    /\ reqCount <= CloseCount
    /\ recent' = TRUE
    /\ reqCount' = NextCount
    /\ reqIndex' = Start
    /\ Ask(best, NextCount)
    /\ UNCHANGED <<top, link, sent, best, index, armed, chain, hashes>>

\* requestBlocks is called again after the time a request counts as recent, give
\* or take: this call may find it just not over.
TooSoon ==
    /\ Wanting
    /\ reqCount <= CloseCount
    /\ ~Due
    /\ recent' = FALSE
    /\ UNCHANGED <<peers, best, index, armed, reqIndex, reqCount, chain, hashes>>

RequestBlocks == StopRequesting \/ DropBest \/ Request \/ TooSoon

-----------------------------------------------------------------------------
(* The peers. *)

\* A peer's chain grows, and it announces the block.
Grow(p) ==
    /\ top[p] < MaxBlock
    /\ top' = [top EXCEPT ![p] = @ + 1]
    /\ sent' = IF link[p]
               THEN [sent EXCEPT ![p] = @ \cup {Message("inv", {top[p] + 1})}]
               ELSE sent
    /\ UNCHANGED <<link, asked, requests, chain, hashes>>

\* onGetBlocksMessageReceived, onGetDataMessageReceived.
Answer(p, m) ==
    LET has == m.hashes \cap 0..top[p]
    IN  /\ m \in asked[p]
        /\ asked' = [asked EXCEPT ![p] = @ \ {m}]
        /\ sent' = [sent EXCEPT ![p] = @ \cup
                       IF m.type = "getdata" THEN {Message("block", {b}) : b \in has}
                       ELSE IF has = {} THEN {} ELSE {Message("inv", has)}]
        /\ UNCHANGED <<top, link, requests, chain, hashes>>

-----------------------------------------------------------------------------
(* The node. *)

Received(p, m) == sent' = [sent EXCEPT ![p] = @ \ {m}]

\* onInvMessageReceived.
Inv(p, m) ==
    LET new == m.hashes \ (known \cup temp)
    IN  /\ m \in sent[p] /\ m.type = "inv"
        /\ Received(p, m)
        /\ asked' = IF new = {} THEN asked
                    ELSE [asked EXCEPT ![p] = @ \cup {Message("getdata", new)}]
        /\ UNCHANGED <<top, link, requests, chain, hashes>>

\* Defect: a block under way is handled once more.
NewUnlessKnown(b) == height <= b /\ b \notin known

New(b) == height <= b /\ b \notin temp \cup known

\* onBlockMessageReceived, updateLastBlockIndex and persistBlock up to getBlock.
Block(p, m) ==
    /\ m \in sent[p] /\ m.type = "block"
    /\ Received(p, m)
    /\ \E b \in m.hashes :
          /\ index' = [index EXCEPT ![p] = IF @ < b THEN b ELSE @]
          /\ \/ New(b) /\ temp' = temp \cup {b} /\ looking' = looking \cup {b}
             \/ ~New(b) /\ UNCHANGED <<temp, looking>>
    /\ UNCHANGED <<top, link, asked, best, armed, recent, reqIndex, reqCount, chain, known>>

\* persistBlock's last part.
Persisted(b, headers) ==
    /\ known' = known \cup {b}
    /\ temp' = temp \ {b}
    /\ cache' = Append(headers, b)

\* Found in the chain, or already in Blockchain's set of queued hashes: done.
\* Else the block is queued.
Look(b) ==
    /\ b \in looking
    /\ looking' = looking \ {b}
    /\ \/ b \in 0..height \cup inQueue /\ Persisted(b, cache) /\ UNCHANGED <<queue, inQueue>>
       \/ /\ b \notin 0..height \cup inQueue
          /\ queue' = queue \cup {b}
          /\ inQueue' = inQueue \cup {b}
          /\ UNCHANGED <<known, temp, cache>>
    /\ UNCHANGED <<peers, requests, height>>

\* Defect: no header is taken out of the cache.
CacheKept == cache

CacheShifted == IF cache = <<>> THEN cache ELSE Tail(cache)

\* persistBlocksAsync: the next block is stored.
Store ==
    /\ height + 1 \in queue
    /\ height' = height + 1
    /\ queue' = queue \ {height + 1}
    /\ Persisted(height + 1, CacheShifted)
    /\ UNCHANGED <<peers, requests, inQueue, looking>>

Failed == {b \in inQueue \ queue : b > height}

\* Storing it fails.  Its hash stays in inQueue, and is not known.
StoreFails ==
    /\ height + 1 \in queue
    /\ Cardinality(Failed) < MaxFailures
    /\ queue' = queue \ {height + 1}
    /\ temp' = temp \ {height + 1}
    /\ UNCHANGED <<peers, requests, height, inQueue, known, looking, cache>>

-----------------------------------------------------------------------------
Next ==
    \/ \E p \in Peers :
          \/ Connect(p) \/ Close(p) \/ Grow(p)
          \/ \E m \in asked[p] : Answer(p, m)
          \/ \E m \in sent[p] : Inv(p, m) \/ Block(p, m)
    \/ RequestBlocks
    \/ \E b \in looking : Look(b)
    \/ Store \/ StoreFails

Spec == Init /\ [][Next]_vars

\* The timer of requestBlocks fires.
FairSpec == Spec /\ WF_vars(RequestBlocks)

-----------------------------------------------------------------------------
TypeOK ==
    /\ top \in [Peers -> Blocks]
    /\ link \in [Peers -> BOOLEAN]
    /\ asked \in [Peers -> SUBSET [type : {"getblocks", "getdata"}, hashes : SUBSET Blocks]]
    /\ sent \in [Peers -> SUBSET [type : {"inv", "block"}, hashes : SUBSET Blocks]]
    /\ best \in Connected \cup {None}
    /\ index \in [Peers -> Blocks]
    /\ armed \in BOOLEAN /\ recent \in BOOLEAN
    /\ reqIndex \in Blocks \cup {None}
    /\ reqCount \in 0..(CloseCount + 1)
    /\ height \in Blocks
    /\ queue \subseteq Blocks /\ inQueue \subseteq Blocks
    /\ known \subseteq Blocks /\ temp \subseteq Blocks /\ looking \subseteq Blocks
    /\ cache \in Seq(Blocks)

\* A hash the node takes for known, and so never asks for again, is that of a
\* block it has stored.  The exception is a block its storage failed on once:
\* the second copy finds the hash of the first in inQueue and is dropped as done
\* (Node.persistBlock, Blockchain.persistBlock).
KnownIsStored == known \subseteq 0..height \cup Failed

\* The header cache does not grow with the chain: each stored block takes a
\* header out and puts one in, and no header is put in twice.  There is one more
\* for each failed block, and for a copy of the block the node started with that
\* was looked up while the next one was stored (Node.persistBlock, HeaderCache).
CacheShort ==
    /\ Len(cache) <= 1 + Cardinality(Failed) + Cardinality(known \cap {Genesis})
    /\ IsInjective(cache)

\* A best peer that is ahead is not asked in vain for ever: a block is stored, or
\* another peer takes its place (requestBlocks).
ProgressOrDrop ==
    \A p \in Peers, h \in Blocks :
        best = p /\ Wanting /\ height = h ~> best # p \/ height # h
=============================================================================
