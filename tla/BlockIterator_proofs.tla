------------------------- MODULE BlockIterator_proofs -------------------------
(***************************************************************************)
(* The iterator delivers the blocks in order, each once, for any options,  *)
(* batch and queue size, whatever the chain and the requests do; its queue *)
(* is bounded; and a batch asks only for blocks that the node has.         *)
(***************************************************************************)
EXTENDS BlockIterator, SequenceTheorems, TLAPS

Items == [block : BOOLEAN, at : Nat]
Fetches == [kind : {"none", "count", "single", "batch"}, first : Nat, end : Nat, limit : Nat]
Index == Nat \cup {None}

Types ==
    /\ ledger \in Nat
    /\ start \in Index /\ stop \in Index
    /\ items \in Seq(Items)
    /\ waiting \in BOOLEAN /\ done \in BOOLEAN /\ ended \in BOOLEAN
    /\ cursor \in Index /\ height \in Index /\ last \in Index /\ count \in Index
    /\ fetch \in Fetches

\* The index that comes after an item.
After(item) == IF item.block THEN item.at + 1 ELSE item.at

\* The items of q lead from index i to index j without a gap.
Line(q, i, j) ==
    IF q = <<>> THEN i = j
    ELSE /\ q[1].at = i
         /\ After(q[Len(q)]) = j
         /\ \A k \in 1..(Len(q) - 1) : q[k + 1].at = After(q[k])

\* i is the index the consumer has to get next.
Due(i) == IF last # None THEN i = last + 1 ELSE (start # None => i = start)

Before(i) == stop = None \/ i < stop

Blocked(q) == \A k \in 1..Len(q) : q[k].block => Before(q[k].at)

\* The queue leads from what the consumer has to what is fetched next.
QueueInv ==
    /\ cursor # None => \E i \in Nat : Due(i) /\ Line(items, i, cursor)
    /\ cursor = None => last = None /\ start = None /\ items = <<>>
    /\ height = None => items = <<>>
    /\ Blocked(items)

\* A fetch goes on from the cursor and stays below the stop; it finds room.
FetchInv ==
    /\ fetch.kind = "none" => fetch = Idle
    /\ fetch.kind = "count" => ~done /\ waiting
    /\ fetch.kind \in {"single", "batch"} =>
          /\ ~done /\ cursor # None /\ height # None
          /\ fetch.first = cursor
          /\ fetch.first < fetch.end /\ fetch.end <= fetch.limit
          /\ stop # None => fetch.limit <= stop
          /\ Len(items) + (fetch.limit - fetch.first) <= QueueSize
    /\ fetch.kind = "single" => fetch.limit = fetch.first + 1

\* Who waits waits for something; the end is told when all was delivered.
WaitInv ==
    /\ waiting => items = <<>> /\ ~done
    /\ done => stop # None /\ cursor # None /\ cursor >= stop
    /\ ended => done /\ items = <<>>

Inv == Types /\ QueueInv /\ FetchInv /\ WaitInv /\ QueueBounded

-----------------------------------------------------------------------------
(* Sequences of items. *)

LEMMA EmptyLen == ASSUME NEW s \in Seq(Items) PROVE s = <<>> <=> Len(s) = 0
BY EmptySeq

LEMMA LineTail ==
    ASSUME NEW q \in Seq(Items), q # <<>>, NEW i \in Nat, NEW j \in Nat, Line(q, i, j)
    PROVE  /\ Head(q) = q[1] /\ Head(q) \in Items /\ Tail(q) \in Seq(Items)
           /\ Head(q).at = i
           /\ Len(Tail(q)) = Len(q) - 1
           /\ Line(Tail(q), After(Head(q)), j)
           /\ \A k \in 1..Len(Tail(q)) : Tail(q)[k] = q[k + 1]
<1>1. /\ Head(q) = q[1] /\ Head(q) \in Items /\ Tail(q) \in Seq(Items)
      /\ Len(Tail(q)) = Len(q) - 1 /\ Len(q) \in Nat \ {0}
      /\ \A k \in 1..Len(Tail(q)) : Tail(q)[k] = q[k + 1]
  BY HeadTailProperties, EmptySeq
<1>2. CASE Tail(q) = <<>>
  <2>1. Len(Tail(q)) = 0
    <3>1. Tail(q) \in Seq(Items)
      BY <1>1
    <3> HIDE <1>1
    <3> QED BY <1>2, <3>1, EmptyLen
  <2>2. Len(q) - 1 = 0 /\ Len(q) \in Nat
    BY <1>1, <2>1, Zenon
  <2>3. Len(q) = 1
    BY <2>2
  <2> QED BY <1>1, <1>2, <2>3 DEF Line
<1>3. CASE Tail(q) # <<>>
  <2>1. Len(Tail(q)) \in Nat \ {0}
    BY <1>1, <1>3, EmptySeq
  <2>2. Tail(q)[1] = q[2] /\ Tail(q)[Len(Tail(q))] = q[Len(q)]
    BY <1>1, <2>1
  <2>3. \A k \in 1..(Len(Tail(q)) - 1) : Tail(q)[k] = q[k + 1] /\ Tail(q)[k + 1] = q[k + 2]
    BY <1>1, <2>1
  <2>4. \A k \in 1..(Len(q) - 1) : q[k + 1].at = After(q[k])
    BY DEF Line
  <2>5. \A k \in 1..(Len(Tail(q)) - 1) : k + 1 \in 1..(Len(q) - 1) /\ (k + 1) + 1 = k + 2
    BY <1>1, <2>1
  <2>6. \A k \in 1..(Len(Tail(q)) - 1) : Tail(q)[k + 1].at = After(Tail(q)[k])
    BY <2>3, <2>4, <2>5
  <2>7. q[2].at = After(q[1])
    BY <1>1, <2>1, <2>4
  <2> QED BY <1>1, <1>3, <2>2, <2>6, <2>7 DEF Line
<1> QED BY <1>1, <1>2, <1>3 DEF Line

LEMMA LineConcat ==
    ASSUME NEW p \in Seq(Items), NEW q \in Seq(Items),
           NEW i \in Nat, NEW j \in Nat, NEW k \in Nat, Line(p, i, j), Line(q, j, k)
    PROVE  /\ p \o q \in Seq(Items) /\ Line(p \o q, i, k)
           /\ Len(p \o q) = Len(p) + Len(q)
           /\ \A n \in 1..(Len(p) + Len(q)) :
                 (p \o q)[n] = IF n <= Len(p) THEN p[n] ELSE q[n - Len(p)]
<1>1. /\ p \o q \in Seq(Items) /\ Len(p \o q) = Len(p) + Len(q)
      /\ \A n \in 1..(Len(p) + Len(q)) :
            (p \o q)[n] = IF n <= Len(p) THEN p[n] ELSE q[n - Len(p)]
  BY ConcatProperties
<1>2. Len(p) \in Nat /\ Len(q) \in Nat
  BY LenProperties
<1>3. CASE p = <<>> \/ q = <<>>
  BY <1>1, <1>3, ConcatEmptySeq DEF Line
<1>4. CASE p # <<>> /\ q # <<>>
  <2>1. Len(p) \in Nat \ {0} /\ Len(q) \in Nat \ {0} /\ p \o q # <<>>
    BY <1>4, <1>1, EmptySeq, ConcatEqualIffEmpty
  <2>2. (p \o q)[1] = p[1] /\ (p \o q)[Len(p \o q)] = q[Len(q)]
    BY <1>1, <2>1
  <2>3. ASSUME NEW n \in 1..(Len(p \o q) - 1)
        PROVE  (p \o q)[n + 1].at = After((p \o q)[n])
    <3>1. CASE n < Len(p)
      <4>1. (p \o q)[n] = p[n] /\ (p \o q)[n + 1] = p[n + 1]
        BY <1>1, <2>1, <3>1
      <4> QED BY <4>1, <3>1, <1>4, <2>1 DEF Line
    <3>2. CASE n = Len(p)
      <4>1. (p \o q)[n] = p[Len(p)] /\ (p \o q)[n + 1] = q[1]
        BY <1>1, <2>1, <3>2
      <4> QED BY <4>1, <1>4 DEF Line
    <3>3. CASE n > Len(p)
      <4> DEFINE m == n - Len(p)
      <4>1. m \in 1..(Len(q) - 1)
        BY <1>1, <2>1, <3>3
      <4>2. (p \o q)[n] = q[m] /\ (p \o q)[n + 1] = q[m + 1]
        BY <1>1, <2>1, <3>3
      <4>3. q[m + 1].at = After(q[m])
        BY <4>1, <1>4 DEF Line
      <4> QED BY <4>2, <4>3
    <3> QED BY <1>1, <2>1, <3>1, <3>2, <3>3
  <2> QED BY <1>1, <1>4, <2>1, <2>2, <2>3 DEF Line
<1> QED BY <1>1, <1>3, <1>4

\* The blocks of a chunk, as items.
LEMMA BlocksLine ==
    ASSUME fetch \in Fetches, fetch.first < fetch.end
    PROVE  /\ Blocks \in Seq(Items) /\ Blocks # <<>>
           /\ Len(Blocks) = fetch.end - fetch.first
           /\ Line(Blocks, fetch.first, fetch.end)
           /\ \A k \in 1..Len(Blocks) :
                 Blocks[k].block /\ Blocks[k].at = fetch.first + (k - 1)
<1> DEFINE n == fetch.end - fetch.first
<1>1. n \in Nat \ {0} /\ fetch.first \in Nat /\ fetch.end \in Nat
  BY DEF Fetches
<1>2. Blocks \in [1..n -> Items]
  BY <1>1 DEF Blocks, Items
<1>3. Blocks \in Seq(Items) /\ Len(Blocks) = n
  BY <1>1, <1>2
<1>4. \A k \in 1..n : Blocks[k].block /\ Blocks[k].at = fetch.first + (k - 1)
  BY <1>1 DEF Blocks
<1>5. Blocks # <<>>
  BY <1>1, <1>3
<1>6. Blocks[1].at = fetch.first /\ After(Blocks[n]) = fetch.end
  BY <1>1, <1>4 DEF After
<1>7. \A k \in 1..(n - 1) : Blocks[k + 1].at = After(Blocks[k])
  BY <1>1, <1>4 DEF After
<1> QED BY <1>1, <1>3, <1>4, <1>5, <1>6, <1>7 DEF Line

-----------------------------------------------------------------------------
(* The plan of a fetch. *)

\* A fetch that begins below the stop starts at the cursor, does not cross the
\* stop, and finds room for its blocks once the caller has taken an item.
LEMMA PlanFits ==
    ASSUME stop \in Index, NEW i \in Nat, NEW h \in Nat, NEW n \in Nat, ~Finished(i)
    PROVE  LET f == Plan(i, h, n)
           IN  \/ f = Idle
               \/ /\ f \in Fetches /\ f.kind \in {"single", "batch"}
                  /\ f.first = i /\ i < f.end /\ f.end <= f.limit
                  /\ stop # None => f.limit <= stop
                  /\ f.kind = "single" => f.limit = i + 1
                  /\ f.kind = "batch" => n + (f.limit - i) <= QueueSize
<1> USE ConstantsAssumption DEF ConstantsAssumption
<1>1. ASSUME NEW l \in Nat, i < l, NEW kind \in {"single", "batch"}
      PROVE  /\ ChunkFrom(kind, i, l) \in Fetches
             /\ ChunkFrom(kind, i, l).kind = kind
             /\ ChunkFrom(kind, i, l).first = i
             /\ ChunkFrom(kind, i, l).limit = l
             /\ i < ChunkFrom(kind, i, l).end /\ ChunkFrom(kind, i, l).end <= l
  BY <1>1 DEF ChunkFrom, Lesser, Fetches
<1>2. CASE i >= h
  <2>1. Plan(i, h, n) = ChunkFrom("single", i, i + 1)
    BY <1>2 DEF Plan
  <2>2. stop # None => i + 1 <= stop
    BY DEF Finished, Index
  <2> QED BY <1>1, <2>1, <2>2
<1>3. CASE i < h /\ i < Limit(i, h, n)
  <2>1. Plan(i, h, n) = ChunkFrom("batch", i, Limit(i, h, n))
    BY <1>3 DEF Plan
  <2>2. Limit(i, h, n) \in Nat /\ (stop # None => Limit(i, h, n) <= stop)
    BY DEF Limit, Lesser, Index
  <2>3. n + (Limit(i, h, n) - i) <= QueueSize
    BY <1>3 DEF Limit, Lesser, Index
  <2> QED BY <1>1, <1>3, <2>1, <2>2, <2>3
<1>4. CASE i < h /\ ~(i < Limit(i, h, n))
  BY <1>4 DEF Plan
<1> QED BY <1>2, <1>3, <1>4

LEMMA IdleFetch == Idle \in Fetches /\ Counting \in Fetches /\ Idle.kind = "none"
                   /\ Counting.kind = "count"
BY DEF Idle, Counting, Fetches

-----------------------------------------------------------------------------
(* Handing items on. *)

\* The consumer gets the block that is due, or learns nothing.
Delivery == last' = last \/ (Due(last') /\ last' \in Nat /\ Before(last') /\ ~ended)

\* Taking the oldest item moves what is due by that item.
LEMMA TakeFirst ==
    ASSUME Types, UNCHANGED options, NEW q \in Seq(Items), q # <<>>,
           NEW i \in Nat, NEW j \in Nat, Line(q, i, j), Due(i), Blocked(q), ~ended,
           last' = IF Head(q).block THEN Head(q).at ELSE last
    PROVE  /\ Delivery /\ last' \in Index
           /\ After(Head(q)) \in Nat
           /\ Due(After(Head(q)))'
           /\ Line(Tail(q), After(Head(q)), j)
           /\ Blocked(Tail(q))
           /\ Tail(q) \in Seq(Items) /\ Len(Tail(q)) = Len(q) - 1
<1> USE ConstantsAssumption DEF ConstantsAssumption
<1>1. /\ Head(q) = q[1] /\ Head(q) \in Items /\ Tail(q) \in Seq(Items)
      /\ Head(q).at = i
      /\ Len(Tail(q)) = Len(q) - 1
      /\ Line(Tail(q), After(Head(q)), j)
      /\ \A k \in 1..Len(Tail(q)) : Tail(q)[k] = q[k + 1]
  BY LineTail
<1>2. Len(q) \in Nat \ {0}
  BY EmptySeq
<1>3. start' = start /\ stop' = stop
  BY DEF options
<1>4. Blocked(Tail(q))
  BY <1>1, <1>2 DEF Blocked
<1>5. Head(q).block => Before(i)
  BY <1>1, <1>2 DEF Blocked
<1>6. CASE Head(q).block
  <2>1. last' = i
    BY <1>1, <1>6
  <2>2. After(Head(q)) = i + 1
    BY <1>1, <1>6 DEF After
  <2>3. Due(i + 1)'
    BY <2>1 DEF Due
  <2>4. Delivery
    BY <2>1, <1>5, <1>6 DEF Delivery
  <2> QED BY <1>1, <1>4, <2>1, <2>2, <2>3, <2>4 DEF Index
<1>7. CASE ~Head(q).block
  <2>1. last' = last /\ After(Head(q)) = i
    BY <1>1, <1>7 DEF After
  <2>2. Due(i)'
    BY <2>1, <1>3 DEF Due
  <2> QED BY <1>1, <1>4, <2>1, <2>2 DEF Types, Delivery
<1> QED BY <1>6, <1>7

\* What is pushed goes to who waits or behind what is queued.
LEMMA PushKeepsLine ==
    ASSUME Types, QueueInv, WaitInv, UNCHANGED options, cursor # None,
           NEW new \in Seq(Items), new # <<>>,
           NEW j \in Nat, Line(new, cursor, j), Blocked(new), Push(new)
    PROVE  /\ Delivery /\ last' \in Index
           /\ \E i \in Nat : Due(i)' /\ Line(items', i, j)
           /\ Blocked(items')
           /\ items' \in Seq(Items)
           /\ Len(items') <= Len(items) + Len(new)
           /\ Len(items') \in Nat
           /\ waiting' = FALSE
           /\ last # None => last' # None
<1> USE ConstantsAssumption DEF ConstantsAssumption
<1>1. PICK i \in Nat : Due(i) /\ Line(items, i, cursor)
  BY DEF QueueInv
<1>2. cursor \in Nat /\ items \in Seq(Items) /\ last \in Index
  BY DEF Types, Index
<1>3. start' = start /\ stop' = stop
  BY DEF options
<1>4. CASE waiting
  <2>1. items = <<>> /\ ~ended /\ i = cursor
    BY <1>1, <1>4 DEF WaitInv, Line
  <2>2. /\ items' = Tail(new) /\ waiting' = FALSE
        /\ last' = IF Head(new).block THEN Head(new).at ELSE last
    <3>1. Tail(new) \in Seq(Items)
      BY LineTail, <1>2
    <3> QED BY <1>4, <2>1, <3>1, ConcatEmptySeq DEF Push
  <2>3. /\ Delivery /\ last' \in Index
        /\ After(Head(new)) \in Nat
        /\ Due(After(Head(new)))'
        /\ Line(Tail(new), After(Head(new)), j)
        /\ Blocked(Tail(new))
        /\ Tail(new) \in Seq(Items) /\ Len(Tail(new)) = Len(new) - 1
    BY <1>1, <1>2, <2>1, <2>2, TakeFirst
  <2>4. Len(new) \in Nat \ {0} /\ Len(items) = 0
    BY EmptySeq, <2>1
  <2>5. last # None => last' # None
    BY <2>2, <1>2, LineTail DEF Items
  <2>6. Len(items') <= Len(items) + Len(new) /\ Len(items') \in Nat
    BY <2>2, <2>3, <2>4
  <2>7. \E m \in Nat : Due(m)' /\ Line(items', m, j)
    BY <2>2, <2>3
  <2>8. Blocked(items') /\ items' \in Seq(Items)
    BY <2>2, <2>3
  <2> QED BY <2>2, <2>3, <2>5, <2>6, <2>7, <2>8
<1>5. CASE ~waiting
  <2>1. items' = items \o new /\ last' = last /\ waiting' = FALSE
    BY <1>5 DEF Push, Types
  <2>2. /\ items' \in Seq(Items) /\ Line(items', i, j)
        /\ Len(items') = Len(items) + Len(new)
        /\ \A n \in 1..(Len(items) + Len(new)) :
              items'[n] = IF n <= Len(items) THEN items[n] ELSE new[n - Len(items)]
    BY <1>1, <1>2, <2>1, LineConcat
  <2>3. Due(i)'
    BY <1>1, <1>3, <2>1 DEF Due
  <2>4. Len(items) \in Nat /\ Len(new) \in Nat
    BY <1>2, LenProperties
  <2>5. ASSUME NEW k \in 1..Len(items'), items'[k].block PROVE Before(items'[k].at)
    <3>1. CASE k <= Len(items)
      BY <2>2, <2>4, <2>5, <3>1 DEF QueueInv, Blocked
    <3>2. CASE k > Len(items)
      <4>1. k - Len(items) \in 1..Len(new) /\ items'[k] = new[k - Len(items)]
        BY <2>2, <2>4, <3>2
      <4> QED BY <4>1, <2>5 DEF Blocked
    <3> QED BY <2>4, <3>1, <3>2
  <2>6. Blocked(items')
    BY <2>5 DEF Blocked
  <2> QED BY <2>1, <2>2, <2>3, <2>4, <2>6, <1>1, <1>2 DEF Delivery
<1> QED BY <1>4, <1>5 DEF Types

-----------------------------------------------------------------------------
(* The invariant. *)

LEMMA IteratorInit == Init => Inv
<1> USE ConstantsAssumption DEF ConstantsAssumption
<1> SUFFICES ASSUME Init PROVE Inv
  OBVIOUS
<1>1. items = <<>> /\ items \in Seq(Items) /\ Len(items) = 0
  BY EmptySeq DEF Init
<1>2. Types
  <2>1. ledger \in Nat
    BY DEF Init
  <2>2. start \in Index /\ stop \in Index /\ cursor \in Index
    BY DEF Init, Index
  <2> QED BY <1>1, <2>1, <2>2, IdleFetch DEF Init, Types, Index
<1>3. QueueInv
  <2>1. cursor # None => cursor \in Nat /\ Due(cursor) /\ Line(items, cursor, cursor)
    BY <1>1, <1>2 DEF Init, Due, Line, Types, Index
  <2>2. Blocked(items)
    BY <1>1 DEF Blocked
  <2> QED BY <2>1, <2>2, <1>1 DEF QueueInv, Init
<1>4. FetchInv /\ WaitInv
  BY <1>1, IdleFetch DEF Init, FetchInv, WaitInv
<1>5. QueueBounded
  BY <1>1 DEF QueueBounded
<1> QED BY <1>2, <1>3, <1>4, <1>5 DEF Inv

\* Steps of the node and of single requests leave the iterator alone.
LEMMA Untouched ==
    ASSUME Inv, UNCHANGED <<options, iterator, fetch, consumer>>,
           ledger' \in Nat, count' \in Index
    PROVE  Inv'
<1> USE DEF options, iterator, consumer
<1>1. Types'
  BY DEF Inv, Types
<1>2. QueueInv'
  BY DEF Inv, QueueInv, Due, Blocked, Before
<1>3. FetchInv' /\ WaitInv' /\ QueueBounded'
  BY DEF Inv, FetchInv, WaitInv, QueueBounded
<1> QED BY <1>1, <1>2, <1>3 DEF Inv

\* The fetch a next() leaves under way, before the item it takes is counted.
Planned ==
    /\ fetch' \in Fetches /\ count' \in Index /\ done' \in BOOLEAN
    /\ done => done'
    /\ done' => stop # None /\ cursor # None /\ cursor >= stop
    /\ fetch'.kind = "none" => fetch' = Idle
    /\ fetch'.kind = "count" => ~done' /\ items = <<>>
    /\ fetch'.kind \in {"single", "batch"} =>
          /\ ~done' /\ cursor # None /\ height # None
          /\ fetch'.first = cursor
          /\ fetch'.first < fetch'.end /\ fetch'.end <= fetch'.limit
          /\ stop # None => fetch'.limit <= stop
    /\ fetch'.kind = "single" => fetch'.limit = fetch'.first + 1
    /\ fetch'.kind = "batch" => Len(items) + (fetch'.limit - fetch'.first) <= QueueSize

LEMMA FetchHalf == ASSUME Inv, ~waiting, Fetch PROVE Planned
<1> USE ConstantsAssumption DEF ConstantsAssumption, Inv
<1>1. Len(items) \in Nat
  BY LenProperties DEF Types
<1>2. done' \in BOOLEAN /\ (done => done')
      /\ (done' => stop # None /\ cursor # None /\ cursor >= stop)
  BY DEF Fetch, Types, WaitInv, Finished, Index
<1>3. CASE done \/ fetch # Idle
  <2>1. fetch' = fetch /\ count' = count /\ done' = done
    BY <1>3 DEF Fetch, calls, Types
  <2> QED BY <2>1, <1>2 DEF Planned, FetchInv, Types
<1>4. CASE ~done /\ fetch = Idle /\ done'
  <2>1. fetch' = fetch /\ count' = count
    BY <1>4 DEF Fetch, calls, Types
  <2> QED BY <2>1, <1>2, <1>4, IdleFetch DEF Planned, Types
<1>5. CASE ~done /\ fetch = Idle /\ ~done' /\ height # None /\ cursor # None
  <2>1. fetch' = Plan(cursor, height, Len(items)) /\ count' = None /\ ~Finished(cursor)
    BY <1>5 DEF Fetch, Begin, Types
  <2>2. cursor \in Nat /\ height \in Nat /\ stop \in Index
    BY <1>5 DEF Types, Index
  <2>3. \/ fetch' = Idle
        \/ /\ fetch' \in Fetches /\ fetch'.kind \in {"single", "batch"}
           /\ fetch'.first = cursor /\ cursor < fetch'.end /\ fetch'.end <= fetch'.limit
           /\ stop # None => fetch'.limit <= stop
           /\ fetch'.kind = "single" => fetch'.limit = cursor + 1
           /\ fetch'.kind = "batch" => Len(items) + (fetch'.limit - cursor) <= QueueSize
    BY <1>1, <2>1, <2>2, PlanFits
  <2> QED BY <2>1, <2>3, <1>2, <1>5, IdleFetch DEF Planned, Index
<1>6. CASE ~done /\ fetch = Idle /\ ~done' /\ ~(height # None /\ cursor # None)
  <2>1. fetch' = Counting /\ count' = None
    BY <1>6 DEF Fetch, Begin
  <2>2. items = <<>>
    BY <1>6 DEF QueueInv
  <2> QED BY <2>1, <2>2, <1>2, <1>6, IdleFetch DEF Planned, Index
<1> QED BY <1>2, <1>3, <1>4, <1>5, <1>6 DEF Types

\* The part of CallNext's step that the answer determines.
LEMMA AnswerHalf ==
    ASSUME Inv, ~waiting, Answer, done' \in BOOLEAN, UNCHANGED <<options, cursor, height>>,
           done => done'
    PROVE  /\ Delivery /\ QueueInv'
           /\ items' \in Seq(Items) /\ last' \in Index
           /\ waiting' \in BOOLEAN /\ ended' \in BOOLEAN
           /\ waiting' <=> items = <<>> /\ ~done'
           /\ waiting' => items' = <<>>
           /\ ended' => done' /\ items' = <<>>
           /\ items = <<>> => items' = <<>>
           /\ items # <<>> => Len(items') = Len(items) - 1
           /\ items # <<>> => ended' = ended
           /\ ended => ended'
           /\ items = <<>> => last' = last
<1> USE DEF Inv
<1>1. CASE items = <<>>
  <2>1. /\ items' = items /\ last' = last /\ waiting' = ~done'
        /\ ended' = (ended \/ done')
    BY <1>1 DEF Answer
  <2>2. QueueInv'
    <3>1. cursor' # None => \E i \in Nat : Due(i)' /\ Line(items', i, cursor')
      BY <2>1 DEF QueueInv, Due, options
    <3>2. Blocked(items)'
      BY <2>1 DEF QueueInv, Blocked, Before, options
    <3> QED BY <2>1, <3>1, <3>2 DEF QueueInv, options
  <2> QED BY <1>1, <2>1, <2>2 DEF Delivery, Types, WaitInv
<1>2. CASE items # <<>>
  <2>1. /\ items' = Tail(items) /\ waiting' = waiting /\ ended' = ended
        /\ last' = IF Head(items).block THEN Head(items).at ELSE last
    BY <1>2 DEF Answer
  <2>2. cursor # None /\ height # None /\ cursor \in Nat /\ ~ended /\ items \in Seq(Items)
    BY <1>2 DEF QueueInv, Types, Index, WaitInv
  <2>3. PICK i \in Nat : Due(i) /\ Line(items, i, cursor)
    BY <2>2 DEF QueueInv
  <2>4. PICK q \in Seq(Items) : q = items
    BY <2>2
  <2>5. /\ Delivery /\ last' \in Index
        /\ After(Head(q)) \in Nat
        /\ Due(After(Head(q)))'
        /\ Line(Tail(q), After(Head(q)), cursor)
        /\ Blocked(Tail(q))
        /\ Tail(q) \in Seq(Items) /\ Len(Tail(q)) = Len(q) - 1
    BY <1>2, <2>1, <2>2, <2>3, <2>4, TakeFirst DEF QueueInv
  <2>6. \E k \in Nat : Due(k)' /\ Line(Tail(q), k, cursor)
    BY <2>5
  <2>7. \E k \in Nat : Due(k)' /\ Line(items', k, cursor')
    BY <2>1, <2>4, <2>6
  <2>8. Blocked(items)'
    BY <2>1, <2>4, <2>5 DEF Blocked, Before, options
  <2>9. QueueInv'
    BY <2>2, <2>7, <2>8 DEF QueueInv
  <2> QED BY <1>2, <2>1, <2>2, <2>4, <2>5, <2>9 DEF WaitInv, Types
<1> QED BY <1>1, <1>2

LEMMA CallNextStep ==
    ASSUME Inv, CallNext
    PROVE  /\ Inv' /\ Delivery /\ UNCHANGED options
           /\ ended' # ended => ended' /\ done' /\ items' = <<>> /\ last' = last
<1> USE ConstantsAssumption DEF ConstantsAssumption, Inv
<1>1. /\ ~waiting /\ Fetch /\ Answer
      /\ start' = start /\ stop' = stop /\ cursor' = cursor /\ height' = height
      /\ ledger' = ledger /\ UNCHANGED options
  BY DEF CallNext, chain, options
<1>2. Planned
  BY <1>1, FetchHalf
<1>3. /\ Delivery /\ QueueInv'
      /\ items' \in Seq(Items) /\ last' \in Index
      /\ waiting' \in BOOLEAN /\ ended' \in BOOLEAN
      /\ waiting' <=> items = <<>> /\ ~done'
      /\ waiting' => items' = <<>>
      /\ ended' => done' /\ items' = <<>>
      /\ items = <<>> => items' = <<>>
      /\ items # <<>> => Len(items') = Len(items) - 1
      /\ items # <<>> => ended' = ended
      /\ ended => ended'
      /\ items = <<>> => last' = last
  BY <1>1, <1>2, AnswerHalf DEF Planned
<1>4. Len(items) \in Nat /\ Len(items') \in Nat /\ Len(items) <= QueueSize
      /\ (items = <<>> => Len(items') = 0)
  BY <1>3, LenProperties, EmptyLen DEF Types, QueueBounded
<1>5. Types'
  BY <1>1, <1>2, <1>3 DEF Planned, Types
<1>6. fetch' \in Fetches
  BY <1>2 DEF Planned
<1>7. FetchInv'
  <2>1. fetch'.kind \in {"single", "batch"} =>
            Len(items') + (fetch'.limit - fetch'.first) <= QueueSize
    BY <1>2, <1>3, <1>4, <1>6 DEF Planned, Fetches
  <2> QED BY <1>1, <1>2, <1>3, <2>1 DEF Planned, FetchInv
<1>8. WaitInv'
  BY <1>1, <1>2, <1>3 DEF Planned, WaitInv
<1>9. QueueBounded'
  BY <1>3, <1>4 DEF QueueBounded
<1>10. ended' # ended => ended' /\ done' /\ items' = <<>> /\ last' = last
  BY <1>3 DEF Types
<1> QED BY <1>1, <1>3, <1>5, <1>7, <1>8, <1>9, <1>10

LEMMA FirstCountStep ==
    ASSUME Inv, FirstCount
    PROVE  /\ Inv'
           /\ last' = last /\ UNCHANGED options
           /\ ended' # ended => ended' /\ done' /\ items' = <<>>
<1> USE ConstantsAssumption DEF ConstantsAssumption, Inv
<1> DEFINE h == IF height = None THEN ledger - 1 ELSE height
           i == IF cursor = None THEN ledger - 1 ELSE cursor
           f == IF Finished(i) THEN Idle ELSE Plan(i, h, Len(items))
<1>1. /\ fetch.kind = "count" /\ ledger > 0
      /\ height' = h /\ cursor' = i /\ done' = Finished(i)
      /\ waiting' = (waiting /\ ~Finished(i))
      /\ ended' = (ended \/ (waiting /\ Finished(i)))
      /\ fetch' = f /\ count' = None
      /\ ledger' = ledger /\ start' = start /\ stop' = stop
      /\ items' = items /\ last' = last /\ UNCHANGED options
  BY DEF FirstCount, Begin, chain, options
<1>2. items = <<>> /\ waiting /\ ~done /\ ~ended
  BY <1>1 DEF FetchInv, WaitInv
<1>3. Len(items) = 0
  BY <1>2, EmptySeq
<1>4. h \in Nat /\ i \in Nat /\ stop \in Index
  BY <1>1 DEF Types, Index
<1>5. \/ f = Idle
      \/ /\ ~Finished(i) /\ f \in Fetches /\ f.kind \in {"single", "batch"}
         /\ f.first = i /\ i < f.end /\ f.end <= f.limit
         /\ stop # None => f.limit <= stop
         /\ f.kind = "single" => f.limit = i + 1
         /\ f.kind = "batch" => 0 + (f.limit - i) <= QueueSize
  BY <1>3, <1>4, PlanFits
<1>6. Finished(i) \in BOOLEAN /\ (Finished(i) => stop # None /\ i >= stop)
  BY DEF Finished
<1> HIDE DEF h, i, f
<1>7. Types'
  BY <1>1, <1>4, <1>5, <1>6, IdleFetch DEF Types, Index
<1>8. QueueInv'
  <2>0. PICK m \in Nat : m = i
    BY <1>4
  <2>1. \E k \in Nat : Due(k)' /\ Line(items', k, cursor')
    <3>1. Due(m)'
      <4>1. CASE cursor = None
        BY <1>1, <4>1 DEF QueueInv, Due
      <4>2. CASE cursor # None
        <5>1. m = cursor
          BY <2>0, <4>2 DEF i
        <5> QED BY <1>1, <1>2, <4>2, <5>1 DEF QueueInv, Due, Line
      <4> QED BY <4>1, <4>2
    <3>2. Line(items', m, cursor')
      BY <1>1, <1>2, <2>0 DEF Line
    <3> QED BY <3>1, <3>2
  <2>2. Blocked(items)'
    BY <1>1, <1>3 DEF Blocked
  <2> QED BY <2>1, <2>2, <1>1, <1>2, <1>4 DEF QueueInv
<1>9. FetchInv'
  <2>1. CASE f = Idle
    BY <2>1, <1>1, IdleFetch DEF FetchInv
  <2>2. CASE f # Idle
    <3>1. f.first \in Nat /\ f.limit \in Nat
      BY <1>5, <2>2 DEF Fetches
    <3>2. f.limit - f.first <= QueueSize
      BY <1>4, <1>5, <2>2, <3>1
    <3> QED BY <1>1, <1>3, <1>4, <1>5, <1>6, <2>2, <3>1, <3>2 DEF FetchInv
  <2> QED BY <2>1, <2>2
<1>10. WaitInv' /\ QueueBounded'
  BY <1>1, <1>2, <1>3, <1>4, <1>6 DEF WaitInv, QueueBounded
<1> QED BY <1>1, <1>2, <1>7, <1>8, <1>9, <1>10 DEF Types

LEMMA ArrivedStep ==
    ASSUME Inv, Arrived
    PROVE  Inv' /\ Delivery /\ UNCHANGED <<options, ended>>
<1> USE ConstantsAssumption DEF ConstantsAssumption, Inv
<1>1. /\ fetch.kind \in {"single", "batch"}
      /\ fetch.kind = "single" => count # None
      /\ cursor' = cursor + (fetch.end - fetch.first)
      /\ Push(Blocks)
      /\ height' = IF fetch.kind = "single" THEN count ELSE height
      /\ fetch' = IF fetch.end < fetch.limit
                    THEN ChunkFrom("batch", fetch.end, fetch.limit) ELSE Idle
      /\ count' = None
      /\ ledger' = ledger /\ start' = start /\ stop' = stop
      /\ done' = done /\ ended' = ended /\ UNCHANGED options
  BY DEF Arrived, Begin, chain, options
<1>2. /\ ~done /\ cursor # None /\ height # None
      /\ fetch.first = cursor
      /\ fetch.first < fetch.end /\ fetch.end <= fetch.limit
      /\ stop # None => fetch.limit <= stop
      /\ Len(items) + (fetch.limit - fetch.first) <= QueueSize
  BY <1>1 DEF FetchInv
<1>3. /\ fetch.first \in Nat /\ fetch.end \in Nat /\ fetch.limit \in Nat
      /\ cursor \in Nat /\ Len(items) \in Nat
      /\ fetch \in Fetches
      /\ cursor' = fetch.end
  BY <1>1, <1>2, LenProperties DEF Types, Fetches, Index
<1>4. PICK new \in Seq(Items), end \in Nat :
        /\ new = Blocks /\ end = fetch.end
        /\ new # <<>> /\ Line(new, cursor, end)
        /\ Len(new) = fetch.end - fetch.first
        /\ \A k \in 1..Len(new) : new[k].block /\ new[k].at = fetch.first + (k - 1)
  BY <1>2, <1>3, BlocksLine
<1>5. Blocked(new)
  <2>1. ASSUME NEW k \in 1..Len(new) PROVE Before(new[k].at)
    <3>1. new[k].at = fetch.first + (k - 1) /\ k \in Nat /\ k <= fetch.end - fetch.first
      BY <1>3, <1>4
    <3>2. new[k].at < fetch.limit /\ new[k].at \in Nat
      BY <1>2, <1>3, <3>1
    <3>3. stop # None => stop \in Nat
      BY DEF Types, Index
    <3> QED BY <1>2, <1>3, <3>2, <3>3 DEF Before
  <2> QED BY <2>1 DEF Blocked
<1>6. /\ Delivery /\ last' \in Index
      /\ \E i \in Nat : Due(i)' /\ Line(items', i, end)
      /\ Blocked(items')
      /\ items' \in Seq(Items)
      /\ Len(items') <= Len(items) + Len(new)
      /\ Len(items') \in Nat
      /\ waiting' = FALSE
  BY <1>1, <1>2, <1>4, <1>5, PushKeepsLine
<1>7. height' \in Nat
  BY <1>1, <1>2 DEF Types, Index
<1>8. fetch' \in Fetches
  <2>1. ChunkFrom("batch", fetch.end, fetch.limit) \in Fetches
    BY <1>3 DEF ChunkFrom, Lesser, Fetches
  <2> QED BY <1>1, <2>1, IdleFetch
<1>9. Types'
  BY <1>1, <1>3, <1>6, <1>7, <1>8 DEF Types, Index
<1>10. QueueInv'
  <2>1. \E i \in Nat : Due(i)' /\ Line(items', i, cursor')
    BY <1>3, <1>4, <1>6
  <2>2. Blocked(items)'
    BY <1>1, <1>6 DEF Blocked, Before
  <2> QED BY <2>1, <2>2, <1>3, <1>7 DEF QueueInv
<1>11. FetchInv'
  <2>1. CASE fetch.end < fetch.limit
    <3>1. /\ fetch'.kind = "batch" /\ fetch'.first = fetch.end
          /\ fetch'.limit = fetch.limit
          /\ fetch'.first < fetch'.end /\ fetch'.end <= fetch'.limit
      BY <1>1, <1>3, <2>1 DEF ChunkFrom, Lesser
    <3>2. Len(items') + (fetch'.limit - fetch'.first) <= QueueSize
      <4>1. Len(items') <= Len(items) + (fetch.end - fetch.first)
        BY <1>4, <1>6
      <4>2. Len(items') + (fetch.limit - fetch.end) <= QueueSize
        BY <1>2, <1>3, <1>6, <4>1
      <4> QED BY <3>1, <4>2
    <3> QED BY <1>1, <1>2, <1>3, <1>7, <3>1, <3>2 DEF FetchInv
  <2>2. CASE ~(fetch.end < fetch.limit)
    BY <1>1, <2>2, IdleFetch DEF FetchInv
  <2> QED BY <2>1, <2>2
<1>12. WaitInv'
  BY <1>1, <1>2, <1>6 DEF WaitInv
<1>13. QueueBounded'
  BY <1>2, <1>3, <1>4, <1>6 DEF QueueBounded
<1> QED BY <1>1, <1>6, <1>9, <1>10, <1>11, <1>12, <1>13

LEMMA RejectStep ==
    ASSUME Inv, Reject
    PROVE  Inv' /\ Delivery /\ UNCHANGED <<options, ended>>
<1> USE ConstantsAssumption DEF ConstantsAssumption, Inv
<1>1. /\ fetch # Idle /\ fetch' = Idle /\ count' = None
      /\ ledger' = ledger /\ start' = start /\ stop' = stop
      /\ done' = done /\ ended' = ended /\ cursor' = cursor /\ height' = height
      /\ UNCHANGED options
  BY DEF Reject, Begin, chain, options
<1>2. FetchInv'
  BY <1>1, IdleFetch DEF FetchInv
<1>3. fetch.kind \in {"count", "single", "batch"} /\ ~done /\ ~ended
  BY <1>1 DEF FetchInv, WaitInv, Types, Fetches
<1>4. CASE cursor = None
  <2>1. waiting' = FALSE /\ items' = items /\ last' = last
    BY <1>4 DEF Reject
  <2>2. Types'
    BY <1>1, <2>1, IdleFetch DEF Types, Index
  <2>3. QueueInv'
    BY <1>1, <1>4, <2>1 DEF QueueInv, Blocked
  <2>4. WaitInv' /\ QueueBounded' /\ Delivery
    BY <1>1, <1>3, <2>1 DEF WaitInv, QueueBounded, Delivery
  <2> QED BY <1>1, <1>2, <2>2, <2>3, <2>4
<1>5. CASE cursor # None
  <2>1. PICK new \in Seq(Items), end \in Nat :
          /\ new = <<[block |-> FALSE, at |-> cursor]>> /\ end = cursor
          /\ new # <<>> /\ Len(new) = 1 /\ Line(new, cursor, end) /\ Blocked(new)
    <3> DEFINE e == [block |-> FALSE, at |-> cursor]
    <3>1. e \in Items /\ cursor \in Nat /\ After(e) = cursor
      BY <1>5 DEF Items, Types, Index, After
    <3>2. <<e>> \in Seq(Items) /\ Len(<<e>>) = 1 /\ <<e>>[1] = e /\ <<e>> # <<>>
      BY <3>1
    <3> HIDE DEF e
    <3>3. Line(<<e>>, cursor, cursor)
      <4>1. e.at = cursor
        BY DEF e
      <4> QED BY <3>1, <3>2, <4>1 DEF Line
    <3>4. Blocked(<<e>>)
      <4>1. ~e.block
        BY DEF e
      <4> QED BY <3>2, <4>1 DEF Blocked
    <3> QED BY <3>1, <3>2, <3>3, <3>4 DEF e
  <2>2. Push(new)
    BY <1>5, <2>1 DEF Reject
  <2>3. /\ Delivery /\ last' \in Index
        /\ \E i \in Nat : Due(i)' /\ Line(items', i, end)
        /\ Blocked(items')
        /\ items' \in Seq(Items)
        /\ Len(items') <= Len(items) + Len(new)
        /\ Len(items') \in Nat
        /\ waiting' = FALSE
    BY <1>1, <1>5, <2>1, <2>2, PushKeepsLine
  <2>4. Types'
    BY <1>1, <2>3, IdleFetch DEF Types, Index
  <2>5. QueueInv'
    <3>1. \E i \in Nat : Due(i)' /\ Line(items', i, cursor')
      BY <1>1, <2>1, <2>3
    <3>2. Blocked(items)'
      BY <1>1, <2>3 DEF Blocked, Before
    <3>3. height = None => items' = <<>>
      <4>1. height = None => fetch.kind = "count"
        BY <1>3 DEF FetchInv
      <4>2. height = None => waiting /\ items = <<>>
        BY <4>1 DEF FetchInv, WaitInv
      <4>3. height = None => items' = Tail(new) /\ Tail(new) = <<>>
        <5>1. Tail(new) \in Seq(Items) /\ Len(Tail(new)) = 0
          BY <2>1, HeadTailProperties
        <5>2. Tail(new) = <<>>
          BY <5>1, EmptyLen
        <5> QED BY <2>2, <4>2, <5>1, <5>2, ConcatEmptySeq DEF Push
      <4> QED BY <4>3
    <3> QED BY <1>1, <1>5, <3>1, <3>2, <3>3 DEF QueueInv
  <2>6. QueueBounded'
    <3>1. CASE waiting
      <4>1. Len(items) = 0
        BY <3>1, EmptySeq DEF WaitInv
      <4> QED BY <4>1, <2>1, <2>3 DEF QueueBounded
    <3>2. CASE ~waiting
      <4>1. fetch.kind \in {"single", "batch"}
        BY <1>3, <3>2 DEF FetchInv
      <4>2. /\ Len(items) + (fetch.limit - fetch.first) <= QueueSize
            /\ fetch.first < fetch.end /\ fetch.end <= fetch.limit
        BY <4>1 DEF FetchInv
      <4>3. /\ fetch.first \in Nat /\ fetch.end \in Nat /\ fetch.limit \in Nat
            /\ Len(items) \in Nat
        BY LenProperties DEF Types, Fetches
      <4> QED BY <4>2, <4>3, <2>1, <2>3 DEF QueueBounded
    <3> QED BY <3>1, <3>2
  <2>7. WaitInv'
    BY <1>1, <1>3, <2>3 DEF WaitInv
  <2> QED BY <1>1, <1>2, <2>3, <2>4, <2>5, <2>6, <2>7
<1> QED BY <1>4, <1>5

LEMMA IteratorNext == Inv /\ [Next]_vars => Inv'
<1> SUFFICES ASSUME Inv, [Next]_vars PROVE Inv'
  OBVIOUS
<1>1. ASSUME UNCHANGED <<options, iterator, fetch, consumer>>,
             ledger' \in Nat, count' \in Index
      PROVE  Inv'
  BY <1>1, Untouched
<1>2. ledger \in Nat /\ count \in Index
  BY DEF Inv, Types
<1>3. CASE CommitBatch \/ CommitUpdates \/ Announce \/ ResetChain
  BY <1>1, <1>2, <1>3 DEF CommitBatch, CommitUpdates, Announce, ResetChain, calls
<1>4. CASE Requests \/ Counted
  BY <1>1, <1>2, <1>4 DEF Requests, Read, Watch, TimedOut, Counted, chain, Index
<1>5. CASE CallNext
  BY <1>5, CallNextStep
<1>6. CASE FirstCount
  BY <1>6, FirstCountStep
<1>7. CASE Arrived
  BY <1>7, ArrivedStep
<1>8. CASE Incomplete \/ Fail
  BY <1>8, RejectStep DEF Incomplete, Fail
<1>9. CASE UNCHANGED vars
  BY <1>1, <1>2, <1>9 DEF vars, chain, calls
<1> QED BY <1>3, <1>4, <1>5, <1>6, <1>7, <1>8, <1>9 DEF Next

LEMMA IteratorInvariant == Spec => []Inv
BY IteratorInit, IteratorNext, PTL DEF Spec

\* For every batch size, queue size and chain, and however slowly next() is
\* called, asyncFetch never queues more than QUEUE_SIZE items.
THEOREM QueueBoundedCorrect == Spec => []QueueBounded
<1>1. Inv => QueueBounded
  BY DEF Inv
<1> QED BY <1>1, IteratorInvariant, PTL

-----------------------------------------------------------------------------
(* The refinement. *)

\* What next() and the fetches tell the consumer is a step of the stream.
LEMMA DeliveryIsStep ==
    ASSUME Inv, Delivery, UNCHANGED options, ended' = ended
    PROVE  [Stream!Next]_(Stream!vars)
<1> USE ConstantsAssumption DEF ConstantsAssumption
<1>1. start' = start /\ stop' = stop
  BY DEF options
<1>2. CASE last' = last
  BY <1>1, <1>2 DEF Stream!vars
<1>3. CASE last' # last
  <2>1. Due(last') /\ last' \in Nat /\ Before(last') /\ ~ended
    BY <1>3 DEF Delivery
  <2>2. Stream!Deliver
    BY <1>1, <2>1 DEF Stream!Deliver, Stream!BeforeStop, Due, Before
  <2> QED BY <2>2 DEF Stream!Next
<1> QED BY <1>2, <1>3

\* The consumer is told the end when the last block below the stop was told.
LEMMA EndIsStep ==
    ASSUME Inv, Inv', UNCHANGED options, last' = last, ended', done', items' = <<>>
    PROVE  [Stream!Next]_(Stream!vars)
<1> USE ConstantsAssumption DEF ConstantsAssumption
<1>1. start' = start /\ stop' = stop
  BY DEF options
<1>2. stop # None /\ cursor' # None /\ cursor' >= stop
  BY <1>1 DEF Inv, WaitInv
<1>3. PICK i \in Nat : Due(i)' /\ Line(items', i, cursor')
  BY <1>2 DEF Inv, QueueInv
<1>4. i = cursor' /\ stop \in Nat
  BY <1>2, <1>3 DEF Line, Inv, Types, Index
<1>5. last # None => ~(last + 1 < stop)
  BY <1>1, <1>2, <1>3, <1>4 DEF Due, Inv, Types, Index
<1>6. last = None /\ start # None => ~(start < stop)
  BY <1>1, <1>2, <1>3, <1>4 DEF Due, Inv, Types, Index
<1>7. ended' = TRUE
  BY DEF Inv, Types
<1> QED BY <1>1, <1>2, <1>5, <1>6, <1>7
        DEF Stream!End, Stream!Next, Stream!BeforeStop

LEMMA InitMaps == Init => Stream!Init
BY DEF Init, Stream!Init

LEMMA StepMaps == Inv /\ [Next]_vars => [Stream!Next]_(Stream!vars)
<1> SUFFICES ASSUME Inv, [Next]_vars PROVE [Stream!Next]_(Stream!vars)
  OBVIOUS
<1>1. Inv'
  BY IteratorNext
<1>2. CASE UNCHANGED <<options, consumer>>
  BY <1>2 DEF options, consumer, Stream!vars
<1>3. CASE CommitBatch \/ CommitUpdates \/ Announce \/ ResetChain
  BY <1>2, <1>3 DEF CommitBatch, CommitUpdates, Announce, ResetChain
<1>4. CASE Requests \/ Counted
  BY <1>2, <1>4 DEF Requests, Read, Watch, TimedOut, Counted
<1>5. CASE CallNext
  BY <1>1, <1>5, CallNextStep, DeliveryIsStep, EndIsStep
<1>6. CASE FirstCount
  <2>1. Delivery
    BY <1>6, FirstCountStep DEF Delivery
  <2> QED BY <1>1, <1>6, <2>1, FirstCountStep, DeliveryIsStep, EndIsStep
<1>7. CASE Arrived
  BY <1>7, ArrivedStep, DeliveryIsStep
<1>8. CASE Incomplete \/ Fail
  BY <1>8, RejectStep, DeliveryIsStep DEF Incomplete, Fail
<1>9. CASE UNCHANGED vars
  BY <1>2, <1>9 DEF vars
<1> QED BY <1>3, <1>4, <1>5, <1>6, <1>7, <1>8, <1>9 DEF Next

\* For any options, batch size and queue size, whatever the chain, the requests
\* and the consumer do, the iterator implements BlockStream: every block once
\* and in order, and the end exactly at indexStop.
THEOREM InOrderCorrect == Spec => InOrder
<1>1. Spec => Stream!Init /\ [][Stream!Next]_(Stream!vars)
  BY InitMaps, StepMaps, IteratorInvariant, PTL DEF Spec
<1> QED BY <1>1 DEF InOrder, Stream!Spec

-----------------------------------------------------------------------------
(* The requests, and what the iterator knows of the chain. *)

Outcomes == {"asked", "missing", "watching", "unheard", "partial", "here"}

NodeInv ==
    /\ announced \in 0..stored /\ stored \in 0..ledger /\ ledger \in 0..MaxHeight
    /\ ledger <= announced + 1
    /\ resets \in 0..MaxResets
    /\ start \in Starts /\ stop \in Stops

RequestInv ==
    /\ DOMAIN request = Chunk(fetch)
    /\ \A i \in Chunk(fetch) : request[i] \in Outcomes

\* Every height the iterator has learnt, and with it the limit of a batch, is
\* still below the end of a chain that was never reset.
KnownInv ==
    resets = 0 =>
        /\ height # None => height <= ledger
        /\ count # None => count <= ledger
        /\ fetch.kind = "batch" => fetch.limit <= ledger

\* A batch is planned below the height it is planned with.
LEMMA PlanKnown ==
    ASSUME stop \in Index, NEW i \in Nat, NEW h \in Nat, NEW n \in Nat,
           Plan(i, h, n).kind = "batch"
    PROVE  Plan(i, h, n).limit <= h
<1> USE ConstantsAssumption DEF ConstantsAssumption
<1>1. i < h /\ i < Limit(i, h, n)
  BY DEF Plan, ChunkFrom, Idle
<1>2. Plan(i, h, n).limit = Limit(i, h, n)
  BY <1>1 DEF Plan, ChunkFrom
<1>3. Limit(i, h, n) <= h
  BY DEF Limit, Lesser, Index
<1> QED BY <1>2, <1>3

LEMMA NodeStep ==
    ASSUME NodeInv, [Next]_vars
    PROVE  NodeInv' /\ (resets' = 0 => resets = 0 /\ ledger <= ledger')
<1> USE ConstantsAssumption DEF ConstantsAssumption, NodeInv
<1>1. CASE UNCHANGED <<ledger, stored, announced, resets, start, stop>>
  BY <1>1
<1>2. CASE CommitBatch
  BY <1>2 DEF CommitBatch, options
<1>3. CASE CommitUpdates
  BY <1>3 DEF CommitUpdates, options
<1>4. CASE Announce
  BY <1>4 DEF Announce, options
<1>5. CASE ResetChain
  BY <1>5 DEF ResetChain, options
<1>6. CASE \/ Requests \/ Counted \/ CallNext \/ FirstCount \/ Arrived
           \/ Incomplete \/ Fail \/ UNCHANGED vars
  BY <1>1, <1>6 DEF Requests, Read, Watch, TimedOut, Counted, CallNext, FirstCount,
     Arrived, Incomplete, Fail, Reject, vars, chain, options
<1> QED BY <1>2, <1>3, <1>4, <1>5, <1>6 DEF Next

\* A fetch begins with its own requests.
LEMMA BeginRequests == ASSUME NEW f, Begin(f) PROVE RequestInv'
<1>1. fetch' = f /\ request' = Asked(f)
  BY DEF Begin
<1>2. Chunk(f) = Chunk(fetch)'
  BY <1>1 DEF Chunk
<1> QED BY <1>1, <1>2 DEF RequestInv, Asked, Outcomes

LEMMA RequestStep ==
    ASSUME RequestInv, [Next]_vars
    PROVE  RequestInv'
<1>1. CASE UNCHANGED <<fetch, request>>
  BY <1>1 DEF RequestInv, Chunk
<1>2. ASSUME UNCHANGED fetch, NEW i \in DOMAIN request, NEW o \in Outcomes,
             request' = [request EXCEPT ![i] = o]
      PROVE  RequestInv'
  BY <1>2 DEF RequestInv, Chunk
<1>3. CASE Requests
  <2>1. PICK i \in DOMAIN request : Read(i) \/ Watch(i) \/ TimedOut(i)
    BY <1>3 DEF Requests
  <2>2. CASE Read(i)
    <3> DEFINE o == CASE i < stored -> "here"
                      [] i >= stored /\ i < ledger -> "partial"
                      [] OTHER -> "missing"
    <3>1. request' = [request EXCEPT ![i] = o] /\ UNCHANGED fetch
      BY <2>2 DEF Read
    <3>2. o \in Outcomes
      BY Zenon DEF Outcomes
    <3> HIDE DEF o
    <3> QED BY <1>2, <3>1, <3>2
  <2>3. CASE Watch(i)
    BY <1>2, <2>3 DEF Watch, Outcomes
  <2>4. CASE TimedOut(i)
    BY <1>2, <2>4 DEF TimedOut, Retry, Outcomes
  <2> QED BY <2>1, <2>2, <2>3, <2>4
<1>4. CASE Announce \/ ResetChain
  <2>1. fetch' = fetch /\ DOMAIN request' = DOMAIN request
    BY <1>4 DEF Announce, ResetChain
  <2>2. \A i \in DOMAIN request : request'[i] \in {request[i], "here", "unheard"}
    BY <1>4 DEF Announce, ResetChain
  <2> QED BY <2>1, <2>2 DEF RequestInv, Chunk, Outcomes
<1>5. CASE CallNext
  <2>1. (\E f : Begin(f)) \/ UNCHANGED <<fetch, request>>
    BY <1>5 DEF CallNext, Fetch, calls
  <2> QED BY <1>1, <2>1, BeginRequests
<1>6. CASE FirstCount \/ Arrived \/ Incomplete \/ Fail
  <2>1. \E f : Begin(f)
    BY <1>6 DEF FirstCount, Arrived, Incomplete, Fail, Reject
  <2> QED BY <2>1, BeginRequests
<1>7. CASE CommitBatch \/ CommitUpdates \/ Counted \/ UNCHANGED vars
  BY <1>1, <1>7 DEF CommitBatch, CommitUpdates, Counted, vars, calls
<1> QED BY <1>3, <1>4, <1>5, <1>6, <1>7 DEF Next

LEMMA KnownStep ==
    ASSUME Inv, NodeInv, KnownInv, [Next]_vars
    PROVE  KnownInv'
<1> USE ConstantsAssumption DEF ConstantsAssumption
<1> SUFFICES ASSUME resets' = 0
             PROVE  /\ height' # None => height' <= ledger'
                    /\ count' # None => count' <= ledger'
                    /\ fetch'.kind = "batch" => fetch'.limit <= ledger'
  BY DEF KnownInv
<1>1. /\ resets = 0 /\ ledger <= ledger' /\ ledger \in Nat /\ ledger' \in Nat
      /\ stop \in Index /\ Len(items) \in Nat
      /\ fetch \in Fetches /\ height \in Index /\ count \in Index /\ cursor \in Index
  BY NodeStep, LenProperties DEF Inv, Types, NodeInv
<1>2. /\ height # None => height <= ledger
      /\ count # None => count <= ledger
      /\ fetch.kind = "batch" => fetch.limit <= ledger
  BY <1>1 DEF KnownInv
<1>3. CASE UNCHANGED <<height, fetch, count>>
  BY <1>1, <1>2, <1>3 DEF Index, Fetches
<1>4. CASE \/ CommitBatch \/ CommitUpdates \/ Announce \/ ResetChain
           \/ Requests \/ UNCHANGED vars
  BY <1>3, <1>4 DEF CommitBatch, CommitUpdates, Announce, ResetChain, Requests,
     Read, Watch, TimedOut, vars, iterator, calls
<1>5. CASE Counted
  BY <1>1, <1>2, <1>5 DEF Counted, chain, iterator, Index, Fetches
<1>6. CASE CallNext
  <2>1. height' = height /\ ledger' = ledger
    BY <1>6 DEF CallNext, chain
  <2>2. CASE UNCHANGED <<fetch, count>>
    BY <1>3, <2>1, <2>2
  <2>3. CASE Begin(Counting)
    BY <1>2, <2>1, <2>3, IdleFetch DEF Begin
  <2>4. CASE height # None /\ cursor # None /\ Begin(Plan(cursor, height, Len(items)))
    <3>1. cursor \in Nat /\ height \in Nat
      BY <1>1, <2>4 DEF Index
    <3>2. /\ fetch' = Plan(cursor, height, Len(items)) /\ count' = None
      BY <2>4 DEF Begin
    <3>3. fetch'.kind = "batch" => fetch'.limit <= height
      BY <1>1, <3>1, <3>2, PlanKnown
    <3>4. Plan(cursor, height, Len(items)).kind = "batch"
             => Plan(cursor, height, Len(items)).limit \in Nat
      BY <1>1, <3>1 DEF Plan, ChunkFrom, Limit, Lesser, Idle, Index
    <3> QED BY <1>1, <1>2, <2>1, <3>1, <3>2, <3>3, <3>4
  <2> QED BY <1>6, <2>2, <2>3, <2>4 DEF CallNext, Fetch, calls
<1>7. CASE FirstCount
  <2> DEFINE h == IF height = None THEN ledger - 1 ELSE height
             i == IF cursor = None THEN ledger - 1 ELSE cursor
  <2>1. /\ height' = h /\ ledger' = ledger /\ count' = None /\ ledger > 0
        /\ fetch' = IF Finished(i) THEN Idle ELSE Plan(i, h, Len(items))
    BY <1>7 DEF FirstCount, Begin, chain
  <2>2. h \in Nat /\ i \in Nat /\ h <= ledger
    BY <1>1, <1>2, <2>1 DEF Index
  <2> HIDE DEF h, i
  <2>3. Plan(i, h, Len(items)).kind = "batch"
           => Plan(i, h, Len(items)).limit <= h /\ Plan(i, h, Len(items)).limit \in Nat
    <3>1. Plan(i, h, Len(items)).kind = "batch" => Plan(i, h, Len(items)).limit \in Nat
      BY <1>1, <2>2 DEF Plan, ChunkFrom, Limit, Lesser, Idle, Index
    <3> QED BY <1>1, <2>2, <3>1, PlanKnown
  <2>4. fetch'.kind = "batch" => fetch'.limit <= h /\ fetch'.limit \in Nat
    BY <2>1, <2>3, IdleFetch
  <2> QED BY <1>1, <2>1, <2>2, <2>4
<1>8. CASE Arrived
  <2>1. /\ height' = IF fetch.kind = "single" THEN count ELSE height
        /\ ledger' = ledger /\ count' = None
        /\ fetch' = IF fetch.end < fetch.limit
                      THEN ChunkFrom("batch", fetch.end, fetch.limit) ELSE Idle
        /\ fetch.kind \in {"single", "batch"}
    BY <1>8 DEF Arrived, Begin, chain
  <2>2. fetch.end < fetch.limit => fetch.kind = "batch"
    BY <1>1, <2>1 DEF Inv, FetchInv, Fetches
  <2>3. fetch'.kind = "batch" => fetch.kind = "batch" /\ fetch'.limit = fetch.limit
    BY <2>1, <2>2, IdleFetch DEF ChunkFrom
  <2> QED BY <1>1, <1>2, <2>1, <2>3
<1>9. CASE Incomplete \/ Fail
  <2>1. height' = height /\ ledger' = ledger /\ count' = None /\ fetch' = Idle
    BY <1>9 DEF Incomplete, Fail, Reject, Begin, chain
  <2> QED BY <1>1, <1>2, <2>1, IdleFetch
<1> QED BY <1>4, <1>5, <1>6, <1>7, <1>8, <1>9 DEF Next

LEMMA ChainInvariant == Spec => [](NodeInv /\ RequestInv /\ KnownInv)
<1> USE ConstantsAssumption DEF ConstantsAssumption
<1>1. Init => NodeInv
  BY DEF Init, NodeInv
<1>2. Init => RequestInv
  BY DEF Init, RequestInv, Chunk, Idle
<1>3. Init => KnownInv
  BY DEF Init, KnownInv, Idle
<1> QED BY <1>1, <1>2, <1>3, NodeStep, RequestStep, KnownStep, IteratorInvariant, PTL
        DEF Spec

\* Every variable keeps its type: the answers that are due are those of the
\* chunk under way.
THEOREM TypeCorrect == Spec => []TypeOK
<1>1. Inv /\ NodeInv /\ RequestInv => TypeOK
  BY DEF Inv, Types, NodeInv, RequestInv, TypeOK, Outcomes, Items, Item, Index, Fetches
<1> QED BY <1>1, IteratorInvariant, ChainInvariant, PTL

\* On a chain that was never reset a batch asks for blocks the node has.
THEOREM BatchOnChainCorrect == Spec => []BatchOnChain
<1>1. ASSUME Inv, NodeInv, RequestInv, KnownInv PROVE BatchOnChain
  <2>1. ASSUME resets = 0, fetch.kind = "batch", NEW i \in DOMAIN request
        PROVE  i < ledger
    <3>1. i \in fetch.first..fetch.end /\ i < fetch.end
      BY <1>1, <2>1 DEF RequestInv, Chunk
    <3>2. fetch.end <= fetch.limit /\ fetch.limit <= ledger
      BY <1>1, <2>1 DEF Inv, FetchInv, KnownInv
    <3> QED BY <1>1, <3>1, <3>2 DEF Inv, Types, Fetches
  <2> QED BY <2>1 DEF BatchOnChain
<1> QED BY <1>1, IteratorInvariant, ChainInvariant, PTL
=============================================================================
