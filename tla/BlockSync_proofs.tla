--------------------------- MODULE BlockSync_proofs ---------------------------
(***************************************************************************)
(* What the node takes for known it has stored, and its header cache does  *)
(* not grow with the chain: for any number of peers, any messages in any   *)
(* order, and any failures.                                                *)
(***************************************************************************)
EXTENDS BlockSync, FiniteSetTheorems, SequenceTheorems, TLAPS

LEMMA Constants ==
    /\ None \notin Peers /\ None \notin Nat
    /\ Genesis \in Nat /\ PerCount \in Nat /\ Buffer \in Nat /\ CloseCount \in Nat
    /\ Ahead \in Nat /\ MaxBlock \in Nat /\ MaxFailures \in Nat
    /\ Genesis <= MaxBlock
BY ConstantsAssumption

-----------------------------------------------------------------------------
(* Types. *)

PeersType ==
    /\ top \in [Peers -> Blocks]
    /\ link \in [Peers -> BOOLEAN]
    /\ asked \in [Peers -> SUBSET [type : {"getblocks", "getdata"}, hashes : SUBSET Blocks]]
    /\ sent \in [Peers -> SUBSET [type : {"inv", "block"}, hashes : SUBSET Blocks]]

RequestsType ==
    /\ best \in Connected \cup {None}
    /\ index \in [Peers -> Blocks]
    /\ armed \in BOOLEAN /\ recent \in BOOLEAN
    /\ reqIndex \in Blocks \cup {None}
    /\ reqCount \in 0..(CloseCount + 1)

NodeType ==
    /\ height \in Blocks
    /\ queue \subseteq Blocks /\ inQueue \subseteq Blocks
    /\ known \subseteq Blocks /\ temp \subseteq Blocks /\ looking \subseteq Blocks
    /\ cache \in Seq(Blocks)

LEMMA TypeParts == TypeOK <=> PeersType /\ RequestsType /\ NodeType
BY DEF TypeOK, PeersType, RequestsType, NodeType

LEMMA TypeInit == Init => TypeOK
<1> SUFFICES ASSUME Init PROVE TypeOK
  OBVIOUS
<1>1. Genesis \in Blocks /\ Genesis..MaxBlock \subseteq Blocks /\ 0 \in Blocks
  BY Constants DEF Blocks
<1>2. PeersType
  BY <1>1 DEF Init, PeersType
<1>3. RequestsType
  <2>1. 1 \in 0..(CloseCount + 1)
    BY Constants
  <2>2. index \in [Peers -> Blocks]
    BY <1>1 DEF Init
  <2> QED BY <2>1, <2>2 DEF Init, RequestsType
<1>4. NodeType
  BY <1>1, EmptySeq DEF Init, NodeType
<1> QED BY <1>2, <1>3, <1>4, TypeParts

\* findBestPeer returns a connected peer other than the one that goes.
LEMMA BestOfOthers ==
    ASSUME NEW p \in Peers, NEW q \in BestOf(Others(p))
    PROVE  q = None \/ (q \in Connected /\ q # p)
BY DEF BestOf, Others, Connected

LEMMA ConnectType == ASSUME TypeOK, NEW p \in Peers, Connect(p) PROVE TypeOK'
<1> USE TypeParts
<1>1. PeersType'
  BY DEF Connect, PeersType
<1>2. RequestsType'
  <2>1. Connected' = Connected \cup {p}
    BY DEF Connect, Connected, PeersType
  <2>2. index' \in [Peers -> Blocks]
    BY DEF Connect, RequestsType, PeersType
  <2>3. CASE best' = p /\ ResetRequests
    BY <2>1, <2>2, <2>3, Constants DEF Connect, RequestsType, ResetRequests
  <2>4. CASE UNCHANGED <<best, reqIndex, reqCount, armed>>
    BY <2>1, <2>2, <2>4 DEF Connect, RequestsType
  <2> QED BY <2>3, <2>4 DEF Connect
<1>3. NodeType'
  BY DEF Connect, NodeType, chain, hashes
<1> QED BY <1>1, <1>2, <1>3 DEF TypeOK, PeersType, RequestsType, NodeType

LEMMA CloseType == ASSUME TypeOK, NEW p \in Peers, Close(p) PROVE TypeOK'
<1> USE TypeParts
<1>1. PeersType'
  BY DEF Close, Drop, PeersType
<1>2. RequestsType'
  <2>1. CASE p = best
    <3>1. best' = None \/ (best' \in Connected /\ best' # p)
      BY <2>1, BestOfOthers DEF Close
    <3> QED BY <2>1, <3>1, Constants
            DEF Close, Drop, RequestsType, PeersType, ResetRequests, Connected
  <2>2. CASE p # best
    BY <2>2 DEF Close, Drop, RequestsType, PeersType, Connected
  <2> QED BY <2>1, <2>2
<1>3. NodeType'
  BY DEF Close, NodeType, chain, hashes
<1> QED BY <1>1, <1>2, <1>3 DEF TypeOK, PeersType, RequestsType, NodeType

LEMMA DropBestType == ASSUME TypeOK, DropBest PROVE TypeOK'
<1> USE TypeParts
<1>1. best \in Peers
  BY DEF DropBest, Wanting, RequestsType, Connected
<1>2. PeersType'
  BY <1>1 DEF DropBest, Drop, PeersType
<1>3. best' = None \/ (best' \in Connected /\ best' # best)
  BY <1>1, BestOfOthers DEF DropBest
<1>4. RequestsType'
  BY <1>1, <1>3, Constants DEF DropBest, Drop, RequestsType, PeersType, Connected
<1>5. NodeType'
  BY DEF DropBest, NodeType, chain, hashes
<1> QED BY <1>2, <1>4, <1>5 DEF TypeOK, PeersType, RequestsType, NodeType

LEMMA StartType == ASSUME TypeOK PROVE Start \in Blocks
BY Constants DEF TypeOK, Start, Blocks

LEMMA RequestType == ASSUME TypeOK, Request PROVE TypeOK'
<1> USE TypeParts
<1>1. best \in Peers /\ Start \in Blocks /\ Start < index[best] /\ index[best] \in Blocks
  BY StartType DEF Request, Wanting, RequestsType, Connected
<1>2. NextCount \in 0..(CloseCount + 1)
  BY Constants DEF Request, NextCount, RequestsType
<1>3. PeersType'
  <2> DEFINE amount == IF NextCount * PerCount < index[best] - Start
                       THEN NextCount * PerCount ELSE index[best] - Start
             m == Message("getblocks", (Start + 1)..(Start + amount - 1))
  <2>1. NextCount * PerCount \in Nat
    BY <1>2, Constants
  <2>2. amount \in Nat /\ amount <= index[best] - Start
    BY <1>1, <2>1, Constants DEF Blocks
  <2>3. (Start + 1)..(Start + amount - 1) \subseteq Blocks
    BY <1>1, <2>2, Constants DEF Blocks
  <2>4. m \in [type : {"getblocks", "getdata"}, hashes : SUBSET Blocks]
    BY <2>3 DEF Message
  <2>5. asked' = [asked EXCEPT ![best] = @ \cup {m}]
    BY DEF Request, Ask
  <2> HIDE DEF m
  <2> QED BY <1>1, <2>4, <2>5 DEF Request, PeersType
<1>4. RequestsType'
  BY <1>1, <1>2 DEF Request, RequestsType, Connected
<1>5. NodeType'
  BY DEF Request, NodeType, chain, hashes
<1> QED BY <1>3, <1>4, <1>5 DEF TypeOK, PeersType, RequestsType, NodeType

LEMMA WaitType == ASSUME TypeOK, StopRequesting \/ TooSoon PROVE TypeOK'
BY DEF StopRequesting, TooSoon, TypeOK, Connected, peers, chain, hashes

LEMMA GrowType == ASSUME TypeOK, NEW p \in Peers, Grow(p) PROVE TypeOK'
<1> USE TypeParts
<1>1. top[p] + 1 \in Blocks
  BY Constants DEF Grow, PeersType, Blocks
<1>2. Message("inv", {top[p] + 1}) \in [type : {"inv", "block"}, hashes : SUBSET Blocks]
  BY <1>1 DEF Message
<1>3. PeersType'
  BY <1>1, <1>2 DEF Grow, PeersType
<1>4. RequestsType' /\ NodeType'
  BY DEF Grow, RequestsType, NodeType, requests, chain, hashes, Connected
<1> QED BY <1>3, <1>4 DEF TypeOK, PeersType, RequestsType, NodeType

LEMMA AnswerType == ASSUME TypeOK, NEW p \in Peers, NEW m, Answer(p, m) PROVE TypeOK'
<1> USE TypeParts
<1>1. m.hashes \subseteq Blocks
  BY DEF Answer, PeersType
<1>2. PeersType'
  BY <1>1 DEF Answer, PeersType, Message
<1>3. RequestsType' /\ NodeType'
  BY DEF Answer, RequestsType, NodeType, requests, chain, hashes, Connected
<1> QED BY <1>2, <1>3 DEF TypeOK, PeersType, RequestsType, NodeType

LEMMA InvType == ASSUME TypeOK, NEW p \in Peers, NEW m, Inv(p, m) PROVE TypeOK'
<1> USE TypeParts
<1>1. m.hashes \subseteq Blocks
  BY DEF Inv, PeersType
<1>2. PeersType'
  BY <1>1 DEF Inv, Received, PeersType, Message
<1>3. RequestsType' /\ NodeType'
  BY DEF Inv, RequestsType, NodeType, requests, chain, hashes, Connected
<1> QED BY <1>2, <1>3 DEF TypeOK, PeersType, RequestsType, NodeType

LEMMA BlockType == ASSUME TypeOK, NEW p \in Peers, NEW m, Block(p, m) PROVE TypeOK'
<1> USE TypeParts
<1>1. m.hashes \subseteq Blocks
  BY DEF Block, PeersType
<1>2. PeersType'
  BY DEF Block, Received, PeersType
<1>3. RequestsType' /\ NodeType'
  BY <1>1 DEF Block, RequestsType, NodeType, chain, Connected
<1> QED BY <1>2, <1>3 DEF TypeOK, PeersType, RequestsType, NodeType

LEMMA LookType == ASSUME TypeOK, NEW b \in looking, Look(b) PROVE TypeOK'
<1> USE TypeParts
<1>1. b \in Blocks
  BY DEF NodeType
<1>2. PeersType' /\ RequestsType'
  BY DEF Look, PeersType, RequestsType, peers, requests, Connected
<1>3. Append(cache, b) \in Seq(Blocks)
  BY <1>1, AppendProperties DEF NodeType
<1>4. NodeType'
  BY <1>1, <1>3 DEF Look, Persisted, NodeType
<1> QED BY <1>2, <1>4 DEF TypeOK, PeersType, RequestsType, NodeType

LEMMA ShiftedType ==
    ASSUME cache \in Seq(Blocks)
    PROVE  CacheShifted \in Seq(Blocks)
BY HeadTailProperties DEF CacheShifted

LEMMA StoreType == ASSUME TypeOK, Store \/ StoreFails PROVE TypeOK'
<1> USE TypeParts
<1>1. height + 1 \in Blocks
  BY DEF Store, StoreFails, NodeType
<1>2. PeersType' /\ RequestsType'
  BY DEF Store, StoreFails, PeersType, RequestsType, peers, requests, Connected
<1>3. Append(CacheShifted, height + 1) \in Seq(Blocks)
  BY <1>1, ShiftedType, AppendProperties DEF NodeType
<1>4. NodeType'
  BY <1>1, <1>3 DEF Store, StoreFails, Persisted, NodeType
<1> QED BY <1>2, <1>4 DEF TypeOK, PeersType, RequestsType, NodeType

LEMMA TypeStep == TypeOK /\ [Next]_vars => TypeOK'
<1> SUFFICES ASSUME TypeOK, [Next]_vars PROVE TypeOK'
  OBVIOUS
<1>1. CASE \E p \in Peers : Connect(p) \/ Close(p) \/ Grow(p)
  BY <1>1, ConnectType, CloseType, GrowType
<1>2. CASE \E p \in Peers : \E m \in asked[p] : Answer(p, m)
  BY <1>2, AnswerType
<1>3. CASE \E p \in Peers : \E m \in sent[p] : Inv(p, m) \/ Block(p, m)
  BY <1>3, InvType, BlockType
<1>4. CASE RequestBlocks
  BY <1>4, WaitType, DropBestType, RequestType DEF RequestBlocks
<1>5. CASE (\E b \in looking : Look(b)) \/ Store \/ StoreFails
  BY <1>5, LookType, StoreType
<1>6. CASE UNCHANGED vars
  BY <1>6 DEF vars, peers, requests, chain, hashes, TypeOK, Connected
<1> QED BY <1>1, <1>2, <1>3, <1>4, <1>5, <1>6 DEF Next

\* Every variable keeps its type; in particular the best peer is connected and
\* the count of requests in vain is bounded (findBestPeer, requestBlocks).
THEOREM TypeCorrect == Spec => []TypeOK
<1>1. Init => TypeOK
  BY TypeInit
<1>2. TypeOK /\ [Next]_vars => TypeOK'
  BY TypeStep
<1> QED BY <1>1, <1>2, PTL DEF Spec

-----------------------------------------------------------------------------
(* The hashes. *)

\* A block looked up is one the node was not past when it came, and not yet
\* known; each block that is under way is so in one place.  What was stored
\* since the start is known.
HashesInv ==
    /\ queue \cap looking = {}
    /\ queue \cup looking \subseteq temp
    /\ looking \cap known = {}
    /\ \A b \in looking : Genesis <= b
    /\ Genesis <= height
    /\ (Genesis + 1)..height \subseteq known
    /\ known \subseteq 0..height \cup Failed

LEMMA HashesInit == Init => HashesInv
<1> SUFFICES ASSUME Init PROVE HashesInv
  OBVIOUS
<1>1. (Genesis + 1)..height = {}
  BY Constants DEF Init
<1> QED BY <1>1, Constants DEF Init, HashesInv

\* Steps that leave the chain and the hashes alone.
LEMMA HashesKept ==
    ASSUME HashesInv, UNCHANGED <<height, queue, inQueue, known, temp, looking>>
    PROVE  HashesInv'
BY DEF HashesInv, Failed

LEMMA HashesBlock ==
    ASSUME TypeOK, HashesInv, NEW p \in Peers, NEW m, Block(p, m)
    PROVE  HashesInv'
<1>1. height \in Nat /\ Genesis \in Nat /\ m.hashes \subseteq Nat
  BY Constants DEF TypeOK, Block, Blocks
<1>2. UNCHANGED <<height, queue, inQueue, known>>
  BY DEF Block, chain
<1>3. \/ UNCHANGED <<temp, looking>>
      \/ \E b \in m.hashes : New(b) /\ temp' = temp \cup {b} /\ looking' = looking \cup {b}
  BY DEF Block
<1>4. CASE UNCHANGED <<temp, looking>>
  BY <1>2, <1>4, HashesKept
<1>5. ASSUME NEW b \in m.hashes,
             New(b), temp' = temp \cup {b}, looking' = looking \cup {b}
      PROVE  HashesInv'
  <2>1. b \notin known /\ b \notin queue /\ Genesis <= b
    BY <1>1, <1>5 DEF New, HashesInv
  <2>2. known' \subseteq 0..height' \cup Failed'
    BY <1>2 DEF HashesInv, Failed
  <2> QED BY <1>2, <1>5, <2>1, <2>2 DEF HashesInv
<1> QED BY <1>3, <1>4, <1>5

LEMMA HashesLook ==
    ASSUME TypeOK, HashesInv, NEW b \in looking, Look(b)
    PROVE  HashesInv'
<1>1. height \in Nat /\ b \in Nat
  BY DEF TypeOK, Blocks
<1>2. height' = height /\ looking' = looking \ {b} /\ b \in temp /\ b \notin queue /\ b \notin known
  BY DEF Look, HashesInv, requests
<1>3. CASE b \in 0..height \cup inQueue /\ Persisted(b, cache) /\ UNCHANGED <<queue, inQueue>>
  <2>1. Failed' = Failed
    BY <1>2, <1>3 DEF Failed
  <2>2. b \in 0..height \cup Failed
    BY <1>1, <1>2, <1>3 DEF Failed
  <2> QED BY <1>2, <1>3, <2>1, <2>2 DEF Persisted, HashesInv
<1>4. CASE /\ b \notin 0..height \cup inQueue
           /\ queue' = queue \cup {b}
           /\ inQueue' = inQueue \cup {b}
           /\ UNCHANGED <<known, temp, cache>>
  <2>1. Failed' = Failed
    BY <1>2, <1>4 DEF Failed
  <2> QED BY <1>2, <1>4, <2>1 DEF HashesInv
<1> QED BY <1>3, <1>4 DEF Look

\* Storing a block takes it out of the queue; those that failed stay the same.
LEMMA FailedStored == ASSUME TypeOK, Store PROVE Failed' = Failed
<1>1. height \in Nat /\ inQueue \subseteq Nat
  BY DEF TypeOK, Blocks
<1>2. height' = height + 1 /\ inQueue' = inQueue /\ queue' = queue \ {height + 1} /\ height + 1 \in queue
  BY DEF Store
<1>3. \A b \in inQueue : b \notin queue' /\ b > height + 1 <=> b \notin queue /\ b > height
  BY <1>1, <1>2
<1> QED BY <1>2, <1>3 DEF Failed

LEMMA HashesStore ==
    ASSUME TypeOK, HashesInv, Store
    PROVE  HashesInv'
<1>1. height \in Nat /\ Genesis \in Nat
  BY Constants DEF TypeOK, Blocks
<1>2. (Genesis + 1)..height' \subseteq known'
  BY <1>1 DEF Store, Persisted, HashesInv
<1>3. known' \subseteq 0..height' \cup Failed'
  BY <1>1, FailedStored DEF Store, Persisted, HashesInv
<1> QED BY <1>1, <1>2, <1>3 DEF Store, Persisted, HashesInv

LEMMA HashesFail ==
    ASSUME TypeOK, HashesInv, StoreFails
    PROVE  HashesInv'
<1>1. Failed \subseteq Failed'
  BY DEF StoreFails, Failed
<1> QED BY <1>1 DEF StoreFails, HashesInv

LEMMA HashesStep == TypeOK /\ HashesInv /\ [Next]_vars => HashesInv'
<1> SUFFICES ASSUME TypeOK, HashesInv, [Next]_vars PROVE HashesInv'
  OBVIOUS
<1>1. CASE \E p \in Peers : Connect(p) \/ Close(p) \/ Grow(p)
  BY <1>1, HashesKept DEF Connect, Close, Grow, chain, hashes
<1>2. CASE \E p \in Peers : \E m \in asked[p] : Answer(p, m)
  BY <1>2, HashesKept DEF Answer, chain, hashes
<1>3. CASE \E p \in Peers : \E m \in sent[p] : Inv(p, m)
  BY <1>3, HashesKept DEF Inv, chain, hashes
<1>4. CASE \E p \in Peers : \E m \in sent[p] : Block(p, m)
  BY <1>4, HashesBlock
<1>5. CASE RequestBlocks
  BY <1>5, HashesKept
     DEF RequestBlocks, StopRequesting, DropBest, Request, TooSoon, chain, hashes
<1>6. CASE \E b \in looking : Look(b)
  BY <1>6, HashesLook
<1>7. CASE Store \/ StoreFails
  BY <1>7, HashesStore, HashesFail
<1>8. CASE UNCHANGED vars
  BY <1>8, HashesKept DEF vars, chain, hashes
<1> QED BY <1>1, <1>2, <1>3, <1>4, <1>5, <1>6, <1>7, <1>8 DEF Next

\* Whatever overtakes what, a hash taken for known is that of a stored block, or
\* of one that storing failed on (Node.persistBlock).
THEOREM KnownIsStoredCorrect == Spec => []KnownIsStored
<1>1. Init => TypeOK /\ HashesInv
  BY TypeInit, HashesInit
<1>2. TypeOK /\ HashesInv /\ [Next]_vars => (TypeOK /\ HashesInv)'
  BY TypeStep, HashesStep
<1>3. HashesInv => KnownIsStored
  BY DEF HashesInv, KnownIsStored
<1> QED BY <1>1, <1>2, <1>3, PTL DEF Spec

-----------------------------------------------------------------------------
(* The header cache. *)

\* The headers of blocks found in the chain, or queued before, that were looked
\* up after the start.
Extra == known \cap (Failed \cup {Genesis})

CacheInv ==
    /\ \A i \in DOMAIN cache : cache[i] \in known
    /\ IsInjective(cache)
    /\ Len(cache) <= 1 + Cardinality(Extra)

LEMMA BlocksFinite == ASSUME NEW S \in SUBSET Blocks PROVE IsFiniteSet(S)
<1>1. IsFiniteSet(Blocks)
  BY Constants, FS_Interval DEF Blocks
<1> QED BY <1>1, FS_Subset

LEMMA CacheInit == Init => CacheInv
<1> SUFFICES ASSUME Init PROVE CacheInv
  OBVIOUS
<1>1. Extra = {} /\ cache = <<>>
  BY DEF Init, Extra
<1>2. Cardinality(Extra) = 0
  BY <1>1, FS_EmptySet
<1>3. DOMAIN cache = {} /\ Len(cache) = 0
  BY <1>1
<1> QED BY <1>2, <1>3 DEF CacheInv, IsInjective

\* Appending what is not there.
LEMMA AppendNew ==
    ASSUME NEW c \in Seq(Blocks), NEW b \in Blocks, NEW K,
           \A i \in DOMAIN c : c[i] \in K, IsInjective(c), b \notin K
    PROVE  /\ \A i \in DOMAIN Append(c, b) : Append(c, b)[i] \in K \cup {b}
           /\ IsInjective(Append(c, b))
           /\ Len(Append(c, b)) = Len(c) + 1
<1>1. /\ Append(c, b) \in Seq(Blocks)
      /\ Len(Append(c, b)) = Len(c) + 1
      /\ \A i \in 1..Len(c) : Append(c, b)[i] = c[i]
      /\ Append(c, b)[Len(c) + 1] = b
  BY AppendProperties
<1>2. DOMAIN c = 1..Len(c) /\ DOMAIN Append(c, b) = 1..(Len(c) + 1) /\ Len(c) \in Nat
  BY <1>1, LenProperties
<1>3. \A i \in 1..(Len(c) + 1) : i \in 1..Len(c) \/ i = Len(c) + 1
  BY <1>2
<1>4. \A i \in 1..Len(c) : c[i] \in K
  BY <1>2
<1>5. \A i, j \in 1..Len(c) : c[i] = c[j] => i = j
  BY <1>2 DEF IsInjective
<1>6. ASSUME NEW i \in 1..(Len(c) + 1), NEW j \in 1..(Len(c) + 1),
             Append(c, b)[i] = Append(c, b)[j]
      PROVE  i = j
  BY <1>1, <1>3, <1>4, <1>5, <1>6
<1>7. IsInjective(Append(c, b))
  BY <1>2, <1>6 DEF IsInjective
<1> QED BY <1>1, <1>2, <1>3, <1>4, <1>7

\* The rest of the cache, after the first header is gone.
LEMMA ShiftedSound ==
    ASSUME cache \in Seq(Blocks), NEW K,
           \A i \in DOMAIN cache : cache[i] \in K, IsInjective(cache)
    PROVE  /\ CacheShifted \in Seq(Blocks)
           /\ \A i \in DOMAIN CacheShifted : CacheShifted[i] \in K
           /\ IsInjective(CacheShifted)
           /\ Len(CacheShifted) = IF cache = <<>> THEN 0 ELSE Len(cache) - 1
<1>1. CASE cache = <<>>
  BY <1>1 DEF CacheShifted
<1>2. CASE cache # <<>>
  <2>1. /\ Tail(cache) \in Seq(Blocks)
        /\ Len(Tail(cache)) = Len(cache) - 1
        /\ \A i \in 1..Len(Tail(cache)) : Tail(cache)[i] = cache[i + 1]
    BY <1>2, HeadTailProperties
  <2>2. /\ DOMAIN cache = 1..Len(cache) /\ Len(cache) \in Nat
        /\ DOMAIN Tail(cache) = 1..(Len(cache) - 1)
    BY <2>1, LenProperties
  <2>3. \A i \in 1..(Len(cache) - 1) : i + 1 \in 1..Len(cache)
    BY <2>2
  <2>4. \A i \in DOMAIN Tail(cache) : Tail(cache)[i] \in K
    BY <2>1, <2>2, <2>3
  <2>5. ASSUME NEW i \in DOMAIN Tail(cache), NEW j \in DOMAIN Tail(cache),
               Tail(cache)[i] = Tail(cache)[j]
        PROVE  i = j
    <3>1. cache[i + 1] = cache[j + 1] /\ i + 1 \in DOMAIN cache /\ j + 1 \in DOMAIN cache
      BY <2>1, <2>2, <2>3, <2>5
    <3>2. i + 1 = j + 1
      BY <3>1 DEF IsInjective
    <3> QED BY <2>2, <3>2
  <2>6. IsInjective(Tail(cache))
    BY <2>5 DEF IsInjective
  <2> QED BY <1>2, <2>1, <2>4, <2>6 DEF CacheShifted
<1> QED BY <1>1, <1>2

LEMMA CacheKeeps ==
    ASSUME CacheInv, UNCHANGED <<height, queue, inQueue, known, cache>>
    PROVE  CacheInv'
BY DEF CacheInv, Extra, Failed

LEMMA CacheLook ==
    ASSUME TypeOK, HashesInv, CacheInv, NEW b \in looking, Look(b)
    PROVE  CacheInv'
<1>1. /\ height \in Nat /\ b \in Nat /\ b \in Blocks /\ Genesis \in Nat
      /\ cache \in Seq(Blocks) /\ known \subseteq Blocks
  BY Constants DEF TypeOK, Blocks
<1>2. height' = height /\ b \notin queue /\ b \notin known /\ Genesis <= b
  BY DEF Look, HashesInv, requests
<1>3. CASE b \in 0..height \cup inQueue /\ Persisted(b, cache) /\ UNCHANGED <<queue, inQueue>>
  <2>1. Failed' = Failed
    BY <1>2, <1>3 DEF Failed
  <2>2. b \in Failed \cup {Genesis}
    <3>1. CASE b <= height
      <4>1. b \notin (Genesis + 1)..height
        BY <1>2 DEF HashesInv
      <4> QED BY <1>1, <1>2, <3>1, <4>1
    <3>2. CASE b > height
      BY <1>1, <1>2, <1>3, <3>2 DEF Failed
    <3> QED BY <1>1, <3>1, <3>2
  <2>3. Extra' = Extra \cup {b} /\ b \notin Extra
    BY <1>2, <1>3, <2>1, <2>2 DEF Extra, Persisted
  <2>4. IsFiniteSet(Extra)
    BY <1>1, BlocksFinite DEF Extra
  <2>5. Cardinality(Extra') = Cardinality(Extra) + 1 /\ Cardinality(Extra) \in Nat
    BY <2>3, <2>4, FS_AddElement, FS_CardinalityType
  <2>6. /\ \A i \in DOMAIN Append(cache, b) : Append(cache, b)[i] \in known \cup {b}
        /\ IsInjective(Append(cache, b))
        /\ Len(Append(cache, b)) = Len(cache) + 1
    BY <1>1, <1>2, AppendNew DEF CacheInv
  <2>7. cache' = Append(cache, b) /\ known' = known \cup {b}
    BY <1>3 DEF Persisted
  <2>8. Len(cache) \in Nat
    BY <1>1, LenProperties
  <2> QED BY <2>5, <2>6, <2>7, <2>8 DEF CacheInv
<1>4. CASE /\ b \notin 0..height \cup inQueue
           /\ queue' = queue \cup {b}
           /\ inQueue' = inQueue \cup {b}
           /\ UNCHANGED <<known, temp, cache>>
  <2>1. Failed' = Failed
    BY <1>2, <1>4 DEF Failed
  <2> QED BY <1>4, <2>1 DEF CacheInv, Extra
<1> QED BY <1>3, <1>4 DEF Look

LEMMA CacheStore ==
    ASSUME TypeOK, HashesInv, CacheInv, Store
    PROVE  CacheInv'
<1>1. /\ height \in Nat /\ Genesis \in Nat /\ height + 1 \in Blocks
      /\ cache \in Seq(Blocks) /\ known \subseteq Blocks
  BY Constants DEF TypeOK, Blocks, Store
<1>2. height + 1 \notin known
  BY <1>1 DEF Store, HashesInv, Failed
<1>3. Extra' = Extra
  <2>1. Failed' = Failed
    BY FailedStored
  <2>2. height + 1 \notin Failed \cup {Genesis}
    BY <1>1 DEF Store, Failed, HashesInv
  <2> QED BY <2>1, <2>2 DEF Extra, Store, Persisted
<1>4. Cardinality(Extra) \in Nat
  BY <1>1, BlocksFinite, FS_CardinalityType DEF Extra
<1>5. /\ CacheShifted \in Seq(Blocks)
      /\ \A i \in DOMAIN CacheShifted : CacheShifted[i] \in known
      /\ IsInjective(CacheShifted)
      /\ Len(CacheShifted) = IF cache = <<>> THEN 0 ELSE Len(cache) - 1
  BY <1>1, ShiftedSound DEF CacheInv
<1>6. cache' = Append(CacheShifted, height + 1) /\ known' = known \cup {height + 1}
  BY DEF Store, Persisted
<1>7. /\ \A i \in DOMAIN cache' : cache'[i] \in known'
      /\ IsInjective(cache')
      /\ Len(cache') = Len(CacheShifted) + 1
  BY <1>1, <1>2, <1>5, <1>6, AppendNew
<1>8. Len(cache') <= 1 + Cardinality(Extra)
  <2>1. Len(cache) \in Nat /\ Len(cache) <= 1 + Cardinality(Extra)
    BY <1>1, LenProperties DEF CacheInv
  <2> QED BY <1>4, <1>5, <1>7, <2>1
<1> QED BY <1>3, <1>7, <1>8 DEF CacheInv

LEMMA CacheFail ==
    ASSUME TypeOK, HashesInv, CacheInv, StoreFails
    PROVE  CacheInv'
<1>1. height \in Nat /\ known \subseteq Blocks /\ cache \in Seq(Blocks)
  BY DEF TypeOK, Blocks
<1>2. height' = height /\ inQueue' = inQueue /\ known' = known /\ cache' = cache
  BY DEF StoreFails, requests
<1>3. Extra \subseteq Extra'
  BY <1>2 DEF StoreFails, Extra, Failed
<1>4. IsFiniteSet(Extra') /\ IsFiniteSet(Extra)
  BY <1>1, <1>2, BlocksFinite DEF Extra
<1>5. /\ Cardinality(Extra) <= Cardinality(Extra')
      /\ Cardinality(Extra) \in Nat /\ Cardinality(Extra') \in Nat
  BY <1>3, <1>4, FS_Subset, FS_CardinalityType
<1>6. Len(cache) \in Nat
  BY <1>1, LenProperties
<1> QED BY <1>2, <1>5, <1>6 DEF CacheInv

LEMMA CacheStep == TypeOK /\ HashesInv /\ CacheInv /\ [Next]_vars => CacheInv'
<1> SUFFICES ASSUME TypeOK, HashesInv, CacheInv, [Next]_vars PROVE CacheInv'
  OBVIOUS
<1>1. CASE \E p \in Peers : Connect(p) \/ Close(p) \/ Grow(p)
  BY <1>1, CacheKeeps DEF Connect, Close, Grow, chain, hashes
<1>2. CASE \E p \in Peers : \E m \in asked[p] : Answer(p, m)
  BY <1>2, CacheKeeps DEF Answer, chain, hashes
<1>3. CASE \E p \in Peers : \E m \in sent[p] : Inv(p, m) \/ Block(p, m)
  BY <1>3, CacheKeeps DEF Inv, Block, chain, hashes
<1>4. CASE RequestBlocks
  BY <1>4, CacheKeeps
     DEF RequestBlocks, StopRequesting, DropBest, Request, TooSoon, chain, hashes
<1>5. CASE \E b \in looking : Look(b)
  BY <1>5, CacheLook
<1>6. CASE Store \/ StoreFails
  BY <1>6, CacheStore, CacheFail
<1>7. CASE UNCHANGED vars
  BY <1>7, CacheKeeps DEF vars, chain, hashes
<1> QED BY <1>1, <1>2, <1>3, <1>4, <1>5, <1>6, <1>7 DEF Next

LEMMA CacheBound == TypeOK /\ CacheInv => CacheShort
<1> SUFFICES ASSUME TypeOK, CacheInv PROVE CacheShort
  OBVIOUS
<1> DEFINE F == known \cap Failed
           G == known \cap {Genesis}
<1>1. IsFiniteSet(Failed) /\ IsFiniteSet(F) /\ IsFiniteSet(G) /\ IsFiniteSet(F \cap G)
  BY BlocksFinite DEF TypeOK, Failed
<1>2. Extra = F \cup G
  BY DEF Extra
<1>3. /\ Cardinality(F \cup G) = Cardinality(F) + Cardinality(G) - Cardinality(F \cap G)
      /\ Cardinality(F) \in Nat /\ Cardinality(G) \in Nat /\ Cardinality(F \cap G) \in Nat
  <2> HIDE DEF F, G
  <2> QED BY <1>1, FS_Union, FS_CardinalityType
<1>4. Cardinality(F) <= Cardinality(Failed) /\ Cardinality(Failed) \in Nat
  <2>1. F \in SUBSET Failed
    OBVIOUS
  <2> HIDE DEF F
  <2> QED BY <1>1, <2>1, FS_Subset, FS_CardinalityType
<1>5. Len(cache) \in Nat
  BY LenProperties DEF TypeOK
<1>6. Len(cache) <= 1 + Cardinality(F \cup G)
  BY <1>2 DEF CacheInv
<1> HIDE DEF F
<1> QED BY <1>3, <1>4, <1>5, <1>6 DEF CacheShort, CacheInv

\* The header cache is as short as one header, and one more for each failed block
\* and for a second copy of the first block; it never holds one twice
\* (Node.persistBlock, HeaderCache).
THEOREM CacheShortCorrect == Spec => []CacheShort
<1>1. Init => TypeOK /\ HashesInv /\ CacheInv
  BY TypeInit, HashesInit, CacheInit
<1>2. TypeOK /\ HashesInv /\ CacheInv /\ [Next]_vars => (TypeOK /\ HashesInv /\ CacheInv)'
  BY TypeStep, HashesStep, CacheStep
<1>3. TypeOK /\ CacheInv => CacheShort
  BY CacheBound
<1> QED BY <1>1, <1>2, <1>3, PTL DEF Spec
=============================================================================
