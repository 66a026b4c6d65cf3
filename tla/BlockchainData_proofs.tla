------------------------ MODULE BlockchainData_proofs -------------------------
(***************************************************************************)
(* What the store holds, for every value of the constants with one handler *)
(* of reset and no fault that leaves a block half written: the height in   *)
(* memory follows the stored one, every block up to it is complete and its *)
(* actions are numbered on from its predecessor's, and the pipeline        *)
(* implements the atomic ledger.                                           *)
(***************************************************************************)
EXTENDS Blockchain_proofs

NoTear == Faults \cap {"updates", "nep17", "tear"} = {}

\* Who has a promise: the owners queued, and the one whose block is written.
EntriesInv ==
    /\ \A o \in queue : status[o] = "pending"
    /\ \A l \in Loops : Busy(l) => /\ status[loop[l].entry] = "pending"
                                   /\ loop[l].entry \notin queue
    /\ phase # "up" => queue = {}
    /\ phase = "boot" => \A l \in Loops : Busy(l) => loop[l].entry = Main

\* What an invocation has written of its block, at each of its stages.
StageOf(l) ==
    /\ loop[l].pc \in {"read", "batch"} =>
          Block(l) = current + 1 /\ disk.ledger = current
    /\ loop[l].pc \in HalfWritten =>
          Block(l) = current + 1 /\ disk.ledger = current + 1
    /\ loop[l].pc \in {"onPersist", "committee"} =>
          Block(l) = current /\ disk.ledger = current
    /\ loop[l].pc \in {"batch", "updates"} => loop[l].prev = PrevLast(Block(l))
    /\ loop[l].pc = "nep17" =>
          disk.log[Block(l)] = Indexes(PrevLast(Block(l)), Block(l))

StageInv ==
    /\ phase = "down" => current = -1
    /\ phase # "down" /\ (\A l \in Loops : ~Busy(l)) => disk.ledger = current
    /\ \A l \in Loops : StageOf(l)

Stored(h) == h \in disk.nep17 /\ disk.log[h] = Indexes(PrevLast(h), h)

StoredInv == \A h \in Heights : h <= Visible => Stored(h)

DataInv == EntriesInv /\ StageInv /\ StoredInv

-----------------------------------------------------------------------------
(* Operators. *)

\* The records of two stores that agree below h look the same from h.
LEMMA PrevLastSame ==
    ASSUME NEW h \in Heights,
           h # 0 => disk'.log[h - 1] = disk.log[h - 1]
    PROVE  PrevLast(h)' = PrevLast(h)
BY DEF PrevLast

\* No invocation, no stage to speak of.
LEMMA IdleStage == ASSUME NEW l \in Loops, ~Busy(l) PROVE StageOf(l)
BY DEF Busy, StageOf, HalfWritten

\* When nobody is in the middle of a block, the stored height is the current.
LEMMA WholeBlocks ==
    ASSUME TypeInv, StageInv, phase # "down",
           \A l \in Loops : loop[l].pc \notin HalfWritten
    PROVE  disk.ledger = current
<1>1. CASE \A l \in Loops : ~Busy(l)
  BY <1>1 DEF StageInv
<1>2. ASSUME NEW l \in Loops, Busy(l) PROVE disk.ledger = current
  <2>1. loop[l].pc \in Stages
    BY <1>2 DEF TypeInv, TypeOK, LoopType, LoopStates, Busy
  <2>2. loop[l].pc \in {"read", "batch", "onPersist", "committee"}
    BY <2>1 DEF Stages, HalfWritten
  <2> QED BY <2>2 DEF StageInv, StageOf
<1> QED BY <1>1, <1>2

\* The loop goes on or ends between two blocks.
LEMMA ContinueData ==
    ASSUME TypeInv, NEW l \in Loops, NEW q \in SUBSET Owners,
           NEW st \in [Owners -> Statuses],
           height' \in [Owners -> Heights],
           \A o \in q : st[o] = "pending",
           \A m \in Loops : m # l => ~Busy(m),
           phase # "up" => q = {},
           phase # "down", disk.ledger = current,
           UNCHANGED <<disk, current, phase>>,
           Continue(l, q, current, st)
    PROVE  EntriesInv' /\ StageInv'
<1>1. \A o \in Owners :
         status'[o] = IF o \in Stale(q, current) THEN "resolved" ELSE st[o]
  BY DEF Continue
<1>2. current \in Int /\ loop \in [Loops -> LoopStates]
  BY DEF TypeInv, TypeOK, StoreType, LoopType
<1>3. ASSUME NEW o \in Successor(q, current),
             queue' = q \ (Stale(q, current) \cup {o}), loop' = Take(l, o)
      PROVE  EntriesInv' /\ StageInv'
  <2>1. o \in Owners /\ o \in q /\ height'[o] = current + 1
    BY <1>3 DEF Successor
  <2>2. o \notin Stale(q, current)
    BY <1>2, <2>1 DEF Stale
  <2>3. \A m \in Loops : Busy(m)' <=> m = l
    BY <1>2, <1>3 DEF Take, Idle, Busy
  <2>4. loop'[l].pc = "read" /\ loop'[l].entry = o
    BY <1>2, <1>3 DEF Take, Idle
  <2>5. EntriesInv'
    <3>1. \A p \in queue' : status'[p] = "pending"
      BY <1>1, <1>3
    <3>2. status'[o] = "pending" /\ o \notin queue'
      BY <1>1, <1>3, <2>1, <2>2
    <3>3. phase' = "up"
      BY <2>1
    <3> QED BY <2>3, <2>4, <3>1, <3>2, <3>3 DEF EntriesInv
  <2>6. StageOf(l)'
    BY <2>1, <2>4 DEF StageOf, Block, HalfWritten
  <2>7. \A m \in Loops : StageOf(m)'
    BY <2>3, <2>6 DEF StageOf, Busy, HalfWritten
  <2>8. StageInv'
    BY <2>7 DEF StageInv
  <2> QED BY <2>5, <2>8
<1>4. ASSUME queue' = q \ Stale(q, current), loop' = [loop EXCEPT ![l] = Idle]
      PROVE  EntriesInv' /\ StageInv'
  <2>1. \A m \in Loops : ~Busy(m)'
    BY <1>2, <1>4 DEF Idle, Busy
  <2>2. EntriesInv'
    BY <1>1, <1>4, <2>1 DEF EntriesInv
  <2>3. \A m \in Loops : StageOf(m)'
    BY <2>1 DEF StageOf, Busy, HalfWritten
  <2>4. StageInv'
    BY <2>3 DEF StageInv
  <2> QED BY <2>2, <2>4
<1> QED BY <1>3, <1>4 DEF Continue

\* An invocation takes its first block when nothing is queued.
LEMMA TakeData ==
    ASSUME TypeInv, NEW l \in Loops, NEW o \in Owners,
           \A m \in Loops : ~Busy(m),
           loop' = Take(l, o), queue' = {}, status'[o] = "pending",
           height'[o] = current' + 1, disk'.ledger = current',
           phase' # "down", phase' = "boot" => o = Main
    PROVE  EntriesInv' /\ StageInv'
<1>1. loop \in [Loops -> LoopStates]
  BY DEF TypeInv, TypeOK, LoopType
<1>2. \A m \in Loops : Busy(m)' <=> m = l
  BY <1>1 DEF Take, Idle, Busy
<1>3. loop'[l].pc = "read" /\ loop'[l].entry = o
  BY <1>1 DEF Take, Idle
<1>4. EntriesInv'
  BY <1>2, <1>3 DEF EntriesInv
<1>5. StageOf(l)'
  BY <1>3 DEF StageOf, Block, HalfWritten
<1>6. \A m \in Loops : StageOf(m)'
  BY <1>2, <1>5 DEF StageOf, Busy, HalfWritten
<1>7. StageInv'
  BY <1>6 DEF StageInv
<1> QED BY <1>4, <1>7

\* The records survive a step that leaves them and the visible height alone.
LEMMA StoredSame ==
    ASSUME StoredInv, UNCHANGED disk, Visible' = Visible
    PROVE  StoredInv'
BY DEF StoredInv, Stored, PrevLast

\* The end of a process between two blocks.
LEMMA DieData ==
    ASSUME StoredInv, phase # "down", disk.ledger = current, Die
    PROVE  DataInv'
<1>1. \A l \in Loops : ~Busy(l)'
  BY DEF Die, Idle, Busy
<1>2. queue' = {} /\ current' = -1 /\ phase' = "down" /\ disk' = disk
  BY DEF Die
<1>3. EntriesInv'
  BY <1>1, <1>2 DEF EntriesInv
<1>4. \A l \in Loops : StageOf(l)'
  BY <1>1 DEF StageOf, Busy, HalfWritten
<1>5. StageInv'
  BY <1>2, <1>4 DEF StageInv
<1>6. Visible' = Visible
  BY <1>2 DEF Visible
<1>7. StoredInv'
  BY <1>2, <1>6, StoredSame
<1> QED BY <1>3, <1>5, <1>7 DEF DataInv

-----------------------------------------------------------------------------
(* Every step keeps the invariant. *)

LEMMA DataInit == Init => DataInv
<1> SUFFICES ASSUME Init PROVE DataInv
  OBVIOUS
<1>1. \A l \in Loops : ~Busy(l)
  BY DEF Init, Idle, Busy
<1>2. queue = {} /\ current = -1 /\ phase = "down" /\ disk.ledger = -1
  BY DEF Init, EmptyDisk
<1>3. EntriesInv
  BY <1>1, <1>2 DEF EntriesInv
<1>4. \A l \in Loops : StageOf(l)
  BY <1>1, IdleStage
<1>5. StageInv
  BY <1>2, <1>4 DEF StageInv
<1>6. StoredInv
  BY <1>2, ConstantsAssumption DEF StoredInv, Visible, Heights, ConstantsAssumption
<1> QED BY <1>3, <1>5, <1>6 DEF DataInv

\* A step from one stage to the next leaves promises and queue alone.
LEMMA StageEntries ==
    ASSUME TypeInv, EntriesInv, NEW l \in Loops, Busy(l),
           loop'[l].entry = loop[l].entry,
           \A m \in Loops : m # l => loop'[m] = loop[m],
           UNCHANGED <<queue, status, phase>>
    PROVE  EntriesInv'
<1>1. \A m \in Loops : Busy(m)' => Busy(m)
  BY DEF Busy
<1>2. \A m \in Loops : loop'[m].entry = loop[m].entry
  OBVIOUS
<1> QED BY <1>1, <1>2 DEF EntriesInv

\* What one invocation's step says of all stages, the others being idle.
LEMMA OneStage ==
    ASSUME NEW l \in Loops, \A m \in Loops : m # l => ~Busy(m),
           \A m \in Loops : m # l => loop'[m] = loop[m],
           Busy(l)', StageOf(l)', phase' # "down"
    PROVE  StageInv'
<1>1. \A m \in Loops : StageOf(m)'
  BY DEF StageOf, Busy, HalfWritten
<1> QED BY <1>1 DEF StageInv

\* With no tear a process ends between two blocks.
LEMMA DeathBetweenBlocks ==
    ASSUME NoTear, TypeInv, LockInv, DataInv, CreateFails \/ Shutdown \/ Crash
    PROVE  phase # "down" /\ disk.ledger = current /\ Die
<1> USE DEF DataInv
<1>1. CASE CreateFails
  <2>1. phase = "boot" /\ status[Main] = "rejected" /\ Die
    BY <1>1 DEF CreateFails
  <2>2. \A m \in Loops : ~Busy(m)
    BY <2>1 DEF EntriesInv
  <2> QED BY <2>1, <2>2 DEF StageInv
<1>2. CASE Shutdown
  <2>1. ctl[Main] = "stopped" /\ Die /\ Main \in Controllers
    BY <1>2 DEF Shutdown, Controllers
  <2>2. phase = "up" /\ \A m \in Loops : ~Busy(m)
    BY <2>1, Zenon DEF LockInv, ControlInv, OneLoop, Busy
  <2> QED BY <2>1, <2>2 DEF StageInv
<1>3. CASE Crash
  <2>1. /\ phase # "down" /\ Die
        /\ \A l \in Loops : loop[l].pc \notin HalfWritten
    BY <1>3 DEF Crash, NoTear
  <2> QED BY <2>1, WholeBlocks
<1> QED BY <1>1, <1>2, <1>3

LEMMA DataStep ==
    ASSUME SingleResetter, NoTear, TypeInv, LockInv, DataInv, [Next]_vars
    PROVE  DataInv'
<1> USE DEF DataInv
<1>0. /\ loop \in [Loops -> LoopStates]
      /\ height \in [Owners -> Heights]
      /\ status \in [Owners -> Statuses]
      /\ current \in Int
  BY DEF TypeInv, TypeOK, LoopType, QueueType, StoreType
<1>1. ASSUME NEW c \in Calls, NEW h \in Heights, Persist(c, h) PROVE DataInv'
  <2>1. /\ UNCHANGED <<disk, current, phase>> /\ phase = "up"
        /\ c \in Owners /\ status[c] # "pending"
        /\ height' = [height EXCEPT ![c] = h]
    <3>1. current' = current
      BY <1>1, Zenon DEF Persist, memory
    <3> QED BY <1>1, <3>1 DEF Persist, Owners
  <2>2. StoredInv'
    BY <2>1, StoredSame DEF Visible
  <2>3. CASE loop' = loop
    <3>1. \A m \in Loops : Busy(m) => Block(m)' = Block(m)
      <4> SUFFICES ASSUME NEW m \in Loops, Busy(m) PROVE Block(m)' = Block(m)
        OBVIOUS
      <4>1. loop[m].entry # c /\ loop[m].entry \in Owners
        BY <2>1 DEF EntriesInv, TypeInv, EntryOK, Busy
      <4> QED BY <1>0, <2>1, <2>3, <4>1 DEF Block
    <3>2. \A m \in Loops : StageOf(m)'
      <4> SUFFICES ASSUME NEW m \in Loops PROVE StageOf(m)'
        OBVIOUS
      <4>1. CASE Busy(m)
        BY <2>1, <2>3, <3>1, <4>1 DEF StageInv, StageOf, PrevLast
      <4>2. CASE ~Busy(m)
        BY <2>3, <4>2 DEF StageOf, Busy, HalfWritten
      <4> QED BY <4>1, <4>2
    <3>3. StageInv'
      BY <2>1, <2>3, <3>2 DEF StageInv, Busy
    <3>4. EntriesInv'
      <4>1. CASE queue' = queue /\ status' = [status EXCEPT ![c] = "resolved"]
        <5>1. c \notin queue /\ \A m \in Loops : Busy(m) => loop[m].entry # c
          BY <2>1 DEF EntriesInv
        <5> QED BY <1>0, <2>1, <2>3, <4>1, <5>1
                DEF EntriesInv, Busy, TypeInv, EntryOK
      <4>2. CASE /\ queue' = queue \cup {c}
                 /\ status' = [status EXCEPT ![c] = "pending"]
        <5>1. \A m \in Loops : Busy(m) => loop[m].entry # c
          BY <2>1 DEF EntriesInv
        <5> QED BY <1>0, <2>1, <2>3, <4>2, <5>1
                DEF EntriesInv, Busy, TypeInv, TypeOK, QueueType, EntryOK
      <4>3. ASSUME NEW l \in Loops,
                   Continue(l, queue \cup {c}, current,
                            [status EXCEPT ![c] = "pending"]),
                   ~persisting
            PROVE  EntriesInv'
        <5> DEFINE q == queue \cup {c}
                   st == [status EXCEPT ![c] = "pending"]
        <5>1. \A m \in Loops : ~Busy(m)
          BY <4>3, Zenon DEF LockInv, OneLoop, Busy
        <5>2. q \in SUBSET Owners /\ st \in [Owners -> Statuses]
          BY <1>0, <2>1 DEF TypeInv, TypeOK, QueueType, Statuses
        <5>3. \A o \in q : st[o] = "pending"
          BY <1>0, <2>1 DEF EntriesInv
        <5>4. height' \in [Owners -> Heights]
          BY <1>0, <2>1
        <5>5. disk.ledger = current
          BY <2>1, <5>1 DEF StageInv
        <5> HIDE DEF q, st
        <5>6. Continue(l, q, current, st)
          BY <4>3 DEF q, st
        <5> QED BY <2>1, <5>1, <5>2, <5>3, <5>4, <5>5, <5>6, ContinueData
      <4> QED BY <1>1, <4>1, <4>2, <4>3 DEF Persist, memory
    <3> QED BY <2>2, <3>3, <3>4
  <2>4. CASE loop' # loop
    <3> DEFINE q == queue \cup {c}
               st == [status EXCEPT ![c] = "pending"]
    <3>1. PICK l \in Loops : ~persisting /\ Continue(l, q, current, st)
      BY <1>1, <2>4, Zenon DEF Persist, memory
    <3>2. \A m \in Loops : ~Busy(m)
      BY <3>1, Zenon DEF LockInv, OneLoop, Busy
    <3>3. q \in SUBSET Owners /\ st \in [Owners -> Statuses]
      BY <1>0, <2>1 DEF TypeInv, TypeOK, QueueType, Statuses
    <3>4. \A o \in q : st[o] = "pending"
      BY <1>0, <2>1 DEF EntriesInv
    <3>5. height' \in [Owners -> Heights]
      BY <1>0, <2>1
    <3>6. disk.ledger = current
      BY <2>1, <3>2 DEF StageInv
    <3> HIDE DEF q, st
    <3>7. EntriesInv' /\ StageInv'
      BY <2>1, <3>1, <3>2, <3>3, <3>4, <3>5, <3>6, ContinueData
    <3> QED BY <2>2, <3>7
  <2> QED BY <2>3, <2>4
<1>2. ASSUME NEW l \in Loops,
             ReadAndExecute(l) \/ CommitBatch(l) \/ CommitUpdates(l)
               \/ CommitNep17(l) \/ OnPersist(l)
      PROVE  DataInv'
  <2>0. Busy(l) /\ phase # "down" /\ \A m \in Loops : m # l => ~Busy(m)
    <3>1. Busy(l)
      BY <1>2 DEF ReadAndExecute, CommitBatch, CommitUpdates, CommitNep17,
                  OnPersist, At, Busy
    <3> QED BY <3>1, OthersIdle
  <2>1. StageOf(l) /\ Block(l) \in Heights
    BY <1>0, <2>0 DEF StageInv, Block, TypeInv, EntryOK, Busy
  <2>2. UNCHANGED <<queue, status, height, phase>>
    BY <1>2, Zenon DEF ReadAndExecute, CommitBatch, CommitUpdates, CommitNep17,
                       OnPersist, memory, promises
  <2>3. \A m \in Loops : m # l => loop'[m] = loop[m]
    BY <1>0, <1>2 DEF ReadAndExecute, CommitBatch, CommitUpdates, CommitNep17,
                      OnPersist, Goto
  <2>4. loop'[l].entry = loop[l].entry
    BY <1>0, <1>2 DEF ReadAndExecute, CommitBatch, CommitUpdates, CommitNep17,
                      OnPersist, Goto, LoopStates
  <2>5. Block(l)' = Block(l)
    BY <2>2, <2>4 DEF Block
  <2>6. EntriesInv'
    BY <2>0, <2>2, <2>3, <2>4, StageEntries
  <2>7. CASE ReadAndExecute(l)
    <3>1. /\ loop[l].pc = "read" /\ loop'[l].pc = "batch"
          /\ loop'[l].prev = PrevLast(Block(l))
      BY <1>0, <2>7 DEF ReadAndExecute, At, LoopStates
    <3>2. UNCHANGED <<disk, current>>
      BY <2>7, Zenon DEF ReadAndExecute, memory
    <3>3. PrevLast(Block(l))' = PrevLast(Block(l))
      BY <2>5, <3>2 DEF PrevLast
    <3>4. StageOf(l)'
      BY <2>1, <2>5, <3>1, <3>2, <3>3 DEF StageOf, HalfWritten
    <3>5. StageInv'
      BY <2>0, <2>2, <2>3, <3>1, <3>4, OneStage DEF Busy
    <3>6. StoredInv'
      BY <2>2, <3>2, StoredSame DEF Visible
    <3> QED BY <2>6, <3>5, <3>6
  <2>8. CASE CommitBatch(l)
    <3>1. /\ loop[l].pc = "batch" /\ loop'[l].pc = "updates"
          /\ loop'[l].prev = loop[l].prev
      BY <1>0, <2>8 DEF CommitBatch, At, Goto, LoopStates
    <3>2. current' = current
      BY <2>8, Zenon DEF CommitBatch, memory
    <3>3. disk'.ledger = Block(l) /\ disk'.log = disk.log
          /\ disk'.nep17 = disk.nep17
      BY <2>8 DEF CommitBatch, TypeInv, TypeOK, StoreType
    <3>4. PrevLast(Block(l))' = PrevLast(Block(l))
      BY <2>5, <3>3 DEF PrevLast
    <3>5. StageOf(l)'
      BY <2>1, <2>5, <3>1, <3>2, <3>3, <3>4 DEF StageOf, HalfWritten
    <3>6. StageInv'
      BY <2>0, <2>2, <2>3, <3>1, <3>5, OneStage DEF Busy
    <3>7. StoredInv'
      BY <2>0, <2>2, <3>2, <3>3 DEF StoredInv, Stored, PrevLast, Visible
    <3> QED BY <2>6, <3>6, <3>7
  <2>9. CASE CommitUpdates(l)
    <3> DEFINE b == Block(l)
    <3>1. /\ loop[l].pc = "updates" /\ loop'[l].pc = "nep17"
      BY <1>0, <2>9 DEF CommitUpdates, At, Goto, LoopStates
    <3>2. current' = current
      BY <2>9, Zenon DEF CommitUpdates, memory
    <3>3. disk' = [disk EXCEPT !.log[b] = Indexes(loop[l].prev, b)]
      BY <2>9 DEF CommitUpdates
    <3>4. loop[l].prev = PrevLast(b) /\ b = current + 1 /\ disk.ledger = b
      BY <2>1, <3>1 DEF StageOf, HalfWritten
    <3>5. /\ disk'.ledger = disk.ledger /\ disk'.nep17 = disk.nep17
          /\ disk'.log[b] = Indexes(PrevLast(b), b)
          /\ \A g \in Heights : g # b => disk'.log[g] = disk.log[g]
      BY <2>1, <3>3, <3>4 DEF TypeInv, TypeOK, StoreType
    <3>6. ASSUME NEW h \in Heights, h <= b PROVE PrevLast(h)' = PrevLast(h)
      <4>1. h # 0 => h - 1 \in Heights /\ h - 1 # b
        BY <2>1, <3>6, ConstantsAssumption DEF Heights, ConstantsAssumption
      <4> QED BY <3>5, <4>1, PrevLastSame
    <3>7. StageOf(l)'
      <4>1. b \in Heights /\ b <= b
        BY <2>1, ConstantsAssumption DEF Heights, ConstantsAssumption
      <4>2. PrevLast(b)' = PrevLast(b)
        BY <2>5, <3>6, <4>1 DEF PrevLast
      <4>3. Block(l)' = b
        BY <2>5
      <4>4. Indexes(PrevLast(Block(l)), Block(l))' = Indexes(PrevLast(b), b)
        BY <4>2, <4>3 DEF Indexes
      <4>5. disk'.log[Block(l)'] = Indexes(PrevLast(Block(l)), Block(l))'
        BY <3>5, <4>3, <4>4
      <4> QED BY <3>1, <3>2, <3>4, <3>5, <4>3, <4>5 DEF StageOf, HalfWritten
    <3>8. StageInv'
      BY <2>0, <2>2, <2>3, <3>1, <3>7, OneStage DEF Busy
    <3>9. ASSUME NEW h \in Heights, h <= Visible' PROVE Stored(h)'
      <4>1. Visible' = current /\ Visible = current
        BY <2>0, <2>2, <3>2 DEF Visible
      <4>2. h <= b /\ h # b
        BY <1>0, <3>4, <3>9, <4>1, ConstantsAssumption
           DEF Heights, ConstantsAssumption
      <4>3. Stored(h)
        BY <3>9, <4>1 DEF StoredInv
      <4>4. PrevLast(h)' = PrevLast(h)
        BY <3>6, <4>2
      <4> QED BY <3>5, <4>2, <4>3, <4>4 DEF Stored, Indexes
    <3>10. StoredInv'
      BY <3>9 DEF StoredInv
    <3> QED BY <2>6, <3>8, <3>10
  <2>10. CASE CommitNep17(l)
    <3> DEFINE b == Block(l)
    <3>1. loop[l].pc = "nep17" /\ loop'[l].pc = "onPersist"
      BY <1>0, <2>10 DEF CommitNep17, At, Goto, LoopStates
    <3>2. current' = b /\ disk' = [disk EXCEPT !.nep17 = disk.nep17 \cup {b}]
      BY <2>10 DEF CommitNep17
    <3>3. /\ disk'.ledger = disk.ledger /\ disk'.log = disk.log
          /\ disk'.nep17 = disk.nep17 \cup {b}
      BY <3>2 DEF TypeInv, TypeOK, StoreType
    <3>4. /\ b = current + 1 /\ disk.ledger = b
          /\ disk.log[b] = Indexes(PrevLast(b), b)
      BY <2>1, <3>1 DEF StageOf, HalfWritten
    <3>5. StageOf(l)'
      BY <2>5, <3>1, <3>2, <3>3, <3>4 DEF StageOf, HalfWritten
    <3>6. StageInv'
      BY <2>0, <2>2, <2>3, <3>1, <3>5, OneStage DEF Busy
    <3>7. ASSUME NEW h \in Heights, h <= Visible' PROVE Stored(h)'
      <4>1. Visible' = b /\ Visible = current
        BY <2>0, <2>2, <3>2 DEF Visible
      <4>2. PrevLast(h)' = PrevLast(h)
        BY <3>3 DEF PrevLast
      <4>3. CASE h = b
        BY <3>3, <3>4, <4>2, <4>3 DEF Stored, Indexes
      <4>4. CASE h # b
        <5>1. h <= Visible
          BY <1>0, <3>4, <3>7, <4>1, <4>4, ConstantsAssumption
             DEF Heights, ConstantsAssumption
        <5>2. Stored(h)
          BY <5>1 DEF StoredInv
        <5> QED BY <3>3, <4>2, <5>2 DEF Stored, Indexes
      <4> QED BY <4>3, <4>4
    <3>8. StoredInv'
      BY <3>7 DEF StoredInv
    <3> QED BY <2>6, <3>6, <3>8
  <2>11. CASE OnPersist(l)
    <3>1. loop[l].pc = "onPersist" /\ loop'[l].pc = "committee"
      BY <1>0, <2>11 DEF OnPersist, At, Goto, LoopStates
    <3>2. UNCHANGED <<disk, current>>
      BY <2>11, Zenon DEF OnPersist, memory
    <3>3. StageOf(l)'
      BY <2>1, <2>5, <3>1, <3>2 DEF StageOf, HalfWritten
    <3>4. StageInv'
      BY <2>0, <2>2, <2>3, <3>1, <3>3, OneStage DEF Busy
    <3>5. StoredInv'
      BY <2>2, <3>2, StoredSame DEF Visible
    <3> QED BY <2>6, <3>4, <3>5
  <2> QED BY <1>2, <2>7, <2>8, <2>9, <2>10, <2>11
<1>3. ASSUME NEW l \in Loops, Complete(l) PROVE DataInv'
  <2> DEFINE st == [status EXCEPT ![loop[l].entry] = "resolved"]
  <2>1. Busy(l) /\ loop[l].pc = "committee"
    BY <1>3 DEF Complete, At, Busy
  <2>2. phase # "down" /\ \A m \in Loops : m # l => ~Busy(m)
    BY <2>1, OthersIdle
  <2>3. disk.ledger = current
    BY <2>1 DEF StageInv, StageOf
  <2>4. st \in [Owners -> Statuses] /\ queue \in SUBSET Owners
    BY <1>0 DEF Statuses, TypeInv, TypeOK, QueueType
  <2>5. \A o \in queue : st[o] = "pending"
    BY <1>0, <2>1 DEF EntriesInv, TypeInv, TypeOK, QueueType
  <2>6. height' \in [Owners -> Heights] /\ UNCHANGED <<disk, current, phase>>
    BY <1>0, <1>3 DEF Complete
  <2>7. phase # "up" => queue = {}
    BY DEF EntriesInv
  <2> HIDE DEF st
  <2>8. Continue(l, queue, current, st)
    BY <1>3 DEF Complete, st
  <2>9. EntriesInv' /\ StageInv'
    BY <2>2, <2>3, <2>4, <2>5, <2>6, <2>7, <2>8, ContinueData
  <2>10. StoredInv'
    BY <2>6, StoredSame DEF Visible
  <2> QED BY <2>9, <2>10
<1>4. ASSUME NEW l \in Loops, Fail(l) PROVE DataInv'
  <2>1. /\ Busy(l) /\ loop' = [loop EXCEPT ![l] = Idle]
        /\ status' = [status EXCEPT ![loop[l].entry] = "rejected"]
        /\ UNCHANGED <<disk, current, queue, phase>>
        /\ loop[l].pc \in Faults \/ loop[l].pc = "read"
    BY <1>4 DEF Fail, Busy, At
  <2>2. phase # "down" /\ \A m \in Loops : m # l => ~Busy(m)
    BY <2>1, OthersIdle
  <2>3. disk.ledger = current
    <3>1. \A m \in Loops : loop[m].pc \notin HalfWritten
      BY <2>1, <2>2 DEF NoTear, HalfWritten, Busy
    <3> QED BY <2>2, <3>1, WholeBlocks
  <2>4. \A m \in Loops : ~Busy(m)'
    BY <1>0, <2>1, <2>2 DEF Busy, Idle
  <2>5. EntriesInv'
    <3>1. \A o \in queue : o # loop[l].entry /\ o \in Owners
      BY <2>1 DEF EntriesInv, TypeInv, TypeOK, QueueType
    <3> QED BY <1>0, <2>1, <2>4, <3>1 DEF EntriesInv
  <2>6. \A m \in Loops : StageOf(m)'
    BY <2>4 DEF StageOf, Busy, HalfWritten
  <2>7. StageInv'
    BY <2>1, <2>2, <2>3, <2>6 DEF StageInv
  <2>8. StoredInv'
    BY <2>1, StoredSame DEF Visible
  <2> QED BY <2>5, <2>7, <2>8
<1>5. ASSUME \/ \E k \in Controllers : Stop(k)
             \/ \E k \in Resetters : ResetFails(k)
             \/ Invoke \/ Created
             \/ UNCHANGED vars
      PROVE  DataInv'
  <2>1. UNCHANGED <<disk, current, queue, loop, status, height>>
    BY <1>5, Zenon DEF Stop, ResetFails, Invoke, Created, vars, memory, promises
  <2>2. phase' = phase \/ (phase = "boot" /\ phase' = "up")
    BY <1>5 DEF Stop, ResetFails, Invoke, Created, vars
  <2>3. EntriesInv'
    BY <2>1, <2>2 DEF EntriesInv, Busy
  <2>4. \A m \in Loops : StageOf(m)'
    BY <2>1 DEF StageInv, StageOf, Block, PrevLast, Indexes, HalfWritten
  <2>5. StageInv'
    BY <2>1, <2>2, <2>4 DEF StageInv, Busy
  <2>6. StoredInv'
    BY <2>1, <2>2, StoredSame DEF Visible
  <2> QED BY <2>3, <2>5, <2>6
<1>6. ASSUME NEW k \in Resetters, ResetStorage(k) PROVE DataInv'
  <2>1. k \in Controllers /\ k \in Owners /\ ctl[k] = "stopped"
    BY <1>6 DEF ResetStorage, Controllers, Owners
  <2>2. phase = "up" /\ \A m \in Loops : ~Busy(m)
    BY <2>1, Zenon DEF LockInv, ControlInv, OneLoop, Busy
  <2>3. PICK l \in Loops : loop' = Take(l, k)
    BY <1>6 DEF ResetStorage
  <2>4. queue' = {} /\ current' = -1 /\ disk' = EmptyDisk /\ phase' = phase
    BY <1>6 DEF ResetStorage, Forget
  <2>5. status'[k] = "pending" /\ height'[k] = 0
    BY <1>0, <1>6, <2>1 DEF ResetStorage
  <2>6. disk'.ledger = -1
    BY <2>4 DEF EmptyDisk
  <2>7. EntriesInv' /\ StageInv'
    BY <2>1, <2>2, <2>3, <2>4, <2>5, <2>6, TakeData
  <2>8. StoredInv'
    BY <2>2, <2>4, ConstantsAssumption
       DEF StoredInv, Visible, Heights, ConstantsAssumption
  <2> QED BY <2>7, <2>8
<1>7. CASE Boot
  <2>1. phase = "down" /\ phase' # "down" /\ current' = disk.ledger
        /\ UNCHANGED <<disk, queue>>
    BY <1>7 DEF Boot
  <2>2. queue = {} /\ \A m \in Loops : ~Busy(m)
    BY <2>1 DEF EntriesInv, LockInv, ControlInv, OneLoop, Busy
  <2>3. StoredInv'
    BY <2>1, StoredSame DEF Visible
  <2>4. CASE disk.ledger = -1
    <3>1. PICK l \in Loops : loop' = Take(l, Main)
      BY <1>7, <2>4 DEF Boot
    <3>2. Main \in Owners
      BY DEF Owners, Controllers
    <3>3. height' = [height EXCEPT ![Main] = 0]
          /\ status' = [status EXCEPT ![Main] = "pending"]
      BY <1>7, <2>4 DEF Boot
    <3>4. height'[Main] = current' + 1 /\ status'[Main] = "pending"
      BY <1>0, <2>1, <2>4, <3>2, <3>3
    <3>5. EntriesInv' /\ StageInv'
      BY <2>1, <2>2, <3>1, <3>2, <3>4, TakeData
    <3> QED BY <2>3, <3>5
  <2>5. CASE disk.ledger # -1
    <3>1. UNCHANGED <<loop, status, height>> /\ phase' = "up"
      BY <1>7, <2>5, Zenon DEF Boot, promises
    <3>2. \A m \in Loops : ~Busy(m)'
      BY <2>2, <3>1 DEF Busy
    <3>3. EntriesInv'
      BY <2>1, <2>2, <3>1, <3>2 DEF EntriesInv
    <3>4. \A m \in Loops : StageOf(m)'
      BY <3>2 DEF StageOf, Busy, HalfWritten
    <3>5. StageInv'
      BY <2>1, <3>4 DEF StageInv
    <3> QED BY <2>3, <3>3, <3>5
  <2> QED BY <2>4, <2>5
<1>8. CASE CreateFails \/ Shutdown \/ Crash
  BY <1>8, DeathBetweenBlocks, DieData
<1> QED BY <1>1, <1>2, <1>3, <1>4, <1>5, <1>6, <1>7, <1>8 DEF Next

\* The three inductive invariants hold together.
LEMMA Always ==
    ASSUME SingleResetter, NoTear
    PROVE  Spec => [](TypeInv /\ LockInv /\ DataInv)
BY TypeInit, TypeStep, LockInit, LockStep, DataInit, DataStep, PTL DEF Spec

-----------------------------------------------------------------------------
(* The invariants. *)

\* A stored record is one of the records' type, so it is there.
LEMMA StoredIsLogged ==
    ASSUME TypeInv, NEW h \in Heights, Stored(h)
    PROVE  disk.log[h] # NoLog /\ disk.log[h].first = PrevLast(h) + 1
<1>1. PrevLast(h) \in Int
  BY PrevLastType
<1>2. Acts[h] \in Nat
  BY ConstantsAssumption DEF ConstantsAssumption
<1>3. Indexes(PrevLast(h), h) \in [first : Int, last : Int]
  BY <1>1, <1>2 DEF Indexes
<1>4. Indexes(PrevLast(h), h).first = PrevLast(h) + 1
  BY DEF Indexes
<1> QED BY <1>3, <1>4, ConstantsAssumption DEF Stored, ConstantsAssumption

\* The height in memory is behind the stored one only while the last two
\* commits of the next block are in progress.
THEOREM HeightsAgreeCorrect ==
    ASSUME SingleResetter, NoTear PROVE Spec => []HeightsAgree
<1>1. ASSUME TypeInv, DataInv PROVE HeightsAgree
  <2>1. CASE \A l \in Loops : loop[l].pc \notin HalfWritten
    BY <1>1, <2>1, WholeBlocks DEF DataInv, HeightsAgree
  <2>2. ASSUME NEW l \in Loops, loop[l].pc \in HalfWritten PROVE HeightsAgree
    BY <1>1, <2>2 DEF DataInv, StageInv, StageOf, HeightsAgree
  <2> QED BY <2>1, <2>2
<1> QED BY <1>1, Always, PTL

\* A block the reader can see has all three of its parts.
THEOREM BlocksCompleteCorrect ==
    ASSUME SingleResetter, NoTear PROVE Spec => []BlocksComplete
<1>1. ASSUME TypeInv, DataInv, NEW h \in Heights, h <= current
      PROVE  disk.log[h] # NoLog /\ h \in disk.nep17
  <2>1. Visible = current
    BY <1>1, ConstantsAssumption
       DEF DataInv, StageInv, Visible, Heights, ConstantsAssumption
  <2>2. Stored(h)
    BY <1>1, <2>1 DEF DataInv, StoredInv
  <2> QED BY <1>1, <2>2, StoredIsLogged DEF Stored
<1>2. TypeInv /\ DataInv => BlocksComplete
  BY <1>1 DEF BlocksComplete
<1> QED BY <1>2, Always, PTL

\* The actions of the chain are numbered without a gap or a repetition.
THEOREM GlobalIndexDenseCorrect ==
    ASSUME SingleResetter, NoTear PROVE Spec => []GlobalIndexDense
<1>1. ASSUME TypeInv, DataInv, NEW h \in Heights, h <= current
      PROVE  disk.log[h].first =
                (IF h = 0 THEN 0 ELSE disk.log[h - 1].last + 1)
  <2>1. Visible = current /\ current \in Int
    BY <1>1, ConstantsAssumption
       DEF DataInv, StageInv, Visible, Heights, ConstantsAssumption, TypeInv,
           TypeOK, StoreType
  <2>2. Stored(h)
    BY <1>1, <2>1 DEF DataInv, StoredInv
  <2>3. disk.log[h].first = PrevLast(h) + 1
    BY <1>1, <2>2, StoredIsLogged
  <2>4. CASE h = 0
    BY <2>3, <2>4 DEF PrevLast
  <2>5. CASE h # 0
    <3>1. h - 1 \in Heights /\ h - 1 <= current
      BY <1>1, <2>1, <2>5, ConstantsAssumption DEF Heights, ConstantsAssumption
    <3>2. Stored(h - 1)
      BY <1>1, <2>1, <3>1 DEF DataInv, StoredInv
    <3>3. disk.log[h - 1] # NoLog
      BY <1>1, <3>1, <3>2, StoredIsLogged
    <3> QED BY <2>3, <2>5, <3>3 DEF PrevLast
  <2> QED BY <2>4, <2>5
<1>2. TypeInv /\ DataInv => GlobalIndexDense
  BY <1>1 DEF GlobalIndexDense
<1> QED BY <1>2, Always, PTL

-----------------------------------------------------------------------------
(* What the steps do. *)

\* A promise resolves only at the hands of the loop, between two blocks, for
\* the block it has just stored or for one already on the chain.
LEMMA ResolvedStep ==
    ASSUME TypeInv, LockInv, DataInv, [Next]_vars, NEW o \in Owners,
           status[o] = "pending", status'[o] = "resolved"
    PROVE  height[o] <= current' /\ height[o] <= disk'.ledger
<1> USE DEF DataInv
<1>0. /\ status \in [Owners -> Statuses]
      /\ height \in [Owners -> Heights]
      /\ current \in Int
      /\ Main \in Owners /\ \A k \in Resetters : k \in Owners
  BY DEF TypeInv, TypeOK, QueueType, StoreType, Owners, Controllers
<1>1. ASSUME NEW c \in Calls, NEW h \in Heights, Persist(c, h)
      PROVE  height[o] <= current' /\ height[o] <= disk'.ledger
  <2>1. /\ UNCHANGED <<disk, current>> /\ phase = "up" /\ c # o
        /\ height' = [height EXCEPT ![c] = h]
    <3>1. current' = current
      BY <1>1, Zenon DEF Persist, memory
    <3> QED BY <1>1, <3>1 DEF Persist
  <2>2. PICK l \in Loops :
           ~persisting /\ Continue(l, queue \cup {c}, current,
                                   [status EXCEPT ![c] = "pending"])
    <3>1. status'[o] = status[o] \/ \E l \in Loops :
             ~persisting /\ Continue(l, queue \cup {c}, current,
                                     [status EXCEPT ![c] = "pending"])
      BY <1>0, <1>1, <2>1 DEF Persist, memory
    <3> QED BY <3>1
  <2>3. o \in Stale(queue \cup {c}, current)
    BY <1>0, <2>1, <2>2 DEF Continue
  <2>4. height[o] <= current
    BY <1>0, <2>1, <2>3 DEF Stale
  <2>5. \A m \in Loops : ~Busy(m)
    BY <2>2, Zenon DEF LockInv, OneLoop, Busy
  <2>6. disk.ledger = current
    BY <2>1, <2>5 DEF StageInv
  <2> QED BY <2>1, <2>4, <2>6
<1>2. ASSUME NEW l \in Loops, Complete(l)
      PROVE  height[o] <= current' /\ height[o] <= disk'.ledger
  <2>1. Busy(l) /\ loop[l].pc = "committee"
        /\ UNCHANGED <<disk, current, height>>
    BY <1>2 DEF Complete, At, Busy
  <2>2. Block(l) = current /\ disk.ledger = current
    BY <2>1 DEF StageInv, StageOf
  <2>3. o \in Stale(queue, current) \/ o = loop[l].entry
    BY <1>0, <1>2 DEF Complete, Continue
  <2>4. height[o] <= current
    BY <1>0, <2>1, <2>2, <2>3 DEF Stale, Block
  <2> QED BY <2>1, <2>2, <2>4
<1>3. ASSUME NEW l \in Loops, Fail(l) PROVE FALSE
  BY <1>0, <1>3 DEF Fail
<1>4. ASSUME NEW k \in Resetters, ResetStorage(k) PROVE FALSE
  BY <1>0, <1>4 DEF ResetStorage
<1>5. CASE Boot
  <2>1. status' = status \/ status' = [status EXCEPT ![Main] = "pending"]
    BY <1>5, Zenon DEF Boot, promises
  <2> QED BY <1>0, <2>1
<1>6. CASE CreateFails \/ Shutdown \/ Crash
  BY <1>6 DEF CreateFails, Shutdown, Crash, Die
<1>7. CASE \/ \E l \in Loops : \/ ReadAndExecute(l) \/ CommitBatch(l)
                              \/ CommitUpdates(l) \/ CommitNep17(l)
                              \/ OnPersist(l)
           \/ \E k \in Controllers : Stop(k)
           \/ \E k \in Resetters : ResetFails(k)
           \/ Invoke \/ Created
           \/ UNCHANGED vars
  <2>1. status' = status
    BY <1>7, Zenon DEF ReadAndExecute, CommitBatch, CommitUpdates, CommitNep17,
       OnPersist, Stop, ResetFails, Invoke, Created, vars, promises
  <2> QED BY <2>1
<1> QED BY <1>1, <1>2, <1>3, <1>4, <1>5, <1>6, <1>7 DEF Next

\* A queued call resolves only once its block is on the chain.
THEOREM ResolvedIsPersistedCorrect ==
    ASSUME SingleResetter, NoTear PROVE Spec => ResolvedIsPersisted
<1>1. ASSUME TypeInv, LockInv, DataInv, [Next]_vars
      PROVE  [\A o \in Owners :
                 status[o] = "pending" /\ status'[o] = "resolved" =>
                     height[o] <= current' /\ height[o] <= disk'.ledger]_vars
  BY <1>1, ResolvedStep
<1> QED BY <1>1, Always, PTL DEF Spec, ResolvedIsPersisted
-----------------------------------------------------------------------------
(* The pipeline implements BlockLedger: commitNep17 is Append, the reset of
   the storage is Clear, everything else, the ends of processes and their
   restarts included, is a stutter. *)

\* The log a reader of the visible height can get at.
Shown == [h \in Heights |-> IF h <= Visible THEN disk.log[h] ELSE NoLog]

\* A step that moves neither the visible height nor a record below it.
Hidden ==
    /\ Visible' = Visible
    /\ \A h \in Heights : h <= Visible => disk'.log[h] = disk.log[h]

LEMMA HiddenStutters == Hidden => UNCHANGED <<Visible, Shown>>
BY DEF Hidden, Shown

LEMMA RefinesInit == Init => Ledger!Init
<1> SUFFICES ASSUME Init PROVE Ledger!Init
  OBVIOUS
<1>1. Visible = -1
  BY DEF Init, Visible, EmptyDisk
<1>2. \A h \in Heights : ~(h <= Visible)
  BY <1>1, ConstantsAssumption DEF Heights, ConstantsAssumption
<1>3. Shown = [h \in Heights |-> NoLog]
  BY <1>2 DEF Shown
<1> QED BY <1>1, <1>3 DEF Ledger!Init, Ledger!Empty, Shown, Heights

\* The third commit of a block shows it to readers.
LEMMA CommitAppends ==
    ASSUME TypeInv, LockInv, DataInv, NEW l \in Loops, CommitNep17(l)
    PROVE  Ledger!Append
<1> USE DEF DataInv
<1> DEFINE b == Block(l)
<1>1. Busy(l) /\ loop[l].pc = "nep17" /\ phase # "down"
  <2>1. Busy(l) /\ loop[l].pc = "nep17"
    BY DEF CommitNep17, At, Busy
  <2> QED BY <2>1, OthersIdle
<1>2. b \in Heights /\ b = current + 1 /\ disk.log[b] = Indexes(PrevLast(b), b)
  <2>1. loop \in [Loops -> LoopStates] /\ height \in [Owners -> Heights]
    BY DEF TypeInv, TypeOK, LoopType, QueueType
  <2>2. b \in Heights
    BY <1>1, <2>1 DEF Block, TypeInv, EntryOK, Busy
  <2> QED BY <1>1, <2>2 DEF StageInv, StageOf, HalfWritten
<1>3. Visible = current /\ Visible' = b /\ disk'.log = disk.log
  <2>1. phase' = phase /\ current' = b
    BY DEF CommitNep17
  <2>2. disk'.log = disk.log
    BY DEF CommitNep17, TypeInv, TypeOK, StoreType
  <2> QED BY <1>1, <2>1, <2>2 DEF Visible
<1>4. current \in Int /\ current < MaxHeight /\ current + 1 = b
  BY <1>2, ConstantsAssumption
     DEF TypeInv, TypeOK, StoreType, Heights, ConstantsAssumption
<1>5. PrevLast(b) = IF b = 0 THEN -1 ELSE Shown[b - 1].last
  <2>1. CASE b = 0
    BY <2>1 DEF PrevLast
  <2>2. CASE b # 0
    <3>1. b - 1 \in Heights /\ b - 1 <= Visible
      BY <1>2, <1>3, <1>4, <2>2, ConstantsAssumption
         DEF Heights, ConstantsAssumption
    <3>2. Shown[b - 1] = disk.log[b - 1]
      BY <3>1 DEF Shown
    <3>3. disk.log[b - 1] # NoLog
      BY <3>1, StoredIsLogged DEF StoredInv
    <3> QED BY <2>2, <3>2, <3>3 DEF PrevLast
  <2> QED BY <2>1, <2>2
<1>6. Shown' = [Shown EXCEPT ![b] = Indexes(PrevLast(b), b)]
  <2>1. ASSUME NEW h \in Heights
        PROVE  (IF h <= b THEN disk.log[h] ELSE NoLog) =
               (IF h = b THEN Indexes(PrevLast(b), b) ELSE Shown[h])
    <3>1. CASE h = b
      BY <1>2, <1>4, <3>1
    <3>2. CASE h # b
      <4>1. h <= b <=> h <= Visible
        BY <1>3, <1>4, <3>2, ConstantsAssumption
           DEF Heights, ConstantsAssumption
      <4> QED BY <3>2, <4>1 DEF Shown
    <3> QED BY <3>1, <3>2
  <2>2. Shown' = [h \in Heights |-> IF h <= b THEN disk.log[h] ELSE NoLog]
    BY <1>3 DEF Shown
  <2>3. Shown = [h \in Heights |-> Shown[h]]
    BY DEF Shown
  <2> HIDE DEF b
  <2> QED BY <2>1, <2>2, <2>3
<1>7. Indexes(PrevLast(b), b) =
         [first |-> Ledger!LastBefore(b) + 1,
          last |-> Ledger!LastBefore(b) + Acts[b]]
  BY <1>5 DEF Indexes, Ledger!LastBefore, Shown
<1> QED BY <1>3, <1>4, <1>6, <1>7 DEF Ledger!Append, Shown

\* The reset of the storage empties the ledger.
LEMMA ResetClears ==
    ASSUME TypeInv, LockInv, NEW k \in Resetters, ResetStorage(k)
    PROVE  Ledger!Clear
<1>1. phase # "down"
  BY Zenon DEF ResetStorage, LockInv, ControlInv, Controllers
<1>2. Visible' = -1
  BY <1>1 DEF ResetStorage, Forget, Visible
<1>3. \A h \in Heights : ~(h <= -1)
  BY ConstantsAssumption DEF Heights, ConstantsAssumption
<1>4. Shown' = [h \in Heights |-> NoLog]
  BY <1>2, <1>3 DEF Shown
<1> QED BY <1>2, <1>4 DEF Ledger!Clear, Ledger!Empty, Shown, Heights

\* Nobody sees any other step.
LEMMA OtherwiseHidden ==
    ASSUME NoTear, TypeInv, LockInv, DataInv, [Next]_vars,
           \A l \in Loops : ~CommitNep17(l),
           \A k \in Resetters : ~ResetStorage(k)
    PROVE  Hidden
<1> USE DEF DataInv
<1>1. ASSUME UNCHANGED <<disk, current>>, phase' = phase PROVE Hidden
  BY <1>1 DEF Hidden, Visible
<1>2. CASE \/ \E c \in Calls, h \in Heights : Persist(c, h)
           \/ \E l \in Loops : ReadAndExecute(l) \/ OnPersist(l)
           \/ \E l \in Loops : Complete(l) \/ Fail(l)
           \/ \E k \in Controllers : Stop(k)
           \/ \E k \in Resetters : ResetFails(k)
           \/ Invoke \/ UNCHANGED vars
  <2>1. UNCHANGED <<disk, current>> /\ phase' = phase
    BY <1>2, Zenon DEF Persist, ReadAndExecute, OnPersist, Complete, Fail, Stop,
                       ResetFails, Invoke, vars, memory
  <2> QED BY <1>1, <2>1
<1>3. ASSUME NEW l \in Loops, CommitBatch(l) \/ CommitUpdates(l) PROVE Hidden
  <2>1. Busy(l) /\ loop[l].pc \in {"batch", "updates"}
    BY <1>3 DEF CommitBatch, CommitUpdates, At, Busy
  <2>2. phase # "down" /\ phase' = phase /\ current' = current
    <3>1. phase' = phase /\ current' = current
      BY <1>3, Zenon DEF CommitBatch, CommitUpdates, memory
    <3> QED BY <2>1, <3>1, OthersIdle
  <2>3. Block(l) = current + 1 /\ current \in Int
    BY <2>1 DEF StageInv, StageOf, HalfWritten, TypeInv, TypeOK, StoreType
  <2>4. ASSUME NEW h \in Heights, h <= current
        PROVE  disk'.log[h] = disk.log[h]
    <3>1. h # Block(l)
      BY <2>3, <2>4, ConstantsAssumption DEF Heights, ConstantsAssumption
    <3> QED BY <1>3, <3>1
            DEF CommitBatch, CommitUpdates, TypeInv, TypeOK, StoreType
  <2> QED BY <2>2, <2>4 DEF Hidden, Visible
<1>4. CASE Boot
  BY <1>4 DEF Boot, Hidden, Visible
<1>5. CASE Created
  <2>1. UNCHANGED <<disk, current>> /\ phase = "boot" /\ phase' = "up"
    BY <1>5, Zenon DEF Created, memory
  <2> QED BY <2>1 DEF Hidden, Visible
<1>6. CASE CreateFails \/ Shutdown \/ Crash
  <2>1. phase # "down" /\ disk.ledger = current /\ Die
    BY <1>6, DeathBetweenBlocks
  <2>2. disk' = disk /\ phase' = "down"
    BY <2>1 DEF Die
  <2> QED BY <2>1, <2>2 DEF Hidden, Visible
<1> QED BY <1>2, <1>3, <1>4, <1>5, <1>6 DEF Next

\* To readers of the height in memory a block appears at once with all of its
\* records, numbered on from its predecessor's, and only a reset takes blocks
\* away, whatever the callers, the failures, the crashes and the restarts.
THEOREM AtomicBlocksCorrect ==
    ASSUME SingleResetter, NoTear PROVE Spec => AtomicBlocks
<1>1. ASSUME TypeInv, LockInv, DataInv, [Next]_vars
      PROVE  [Ledger!Next]_<<Visible, Shown>>
  <2>1. ASSUME NEW l \in Loops, CommitNep17(l) PROVE Ledger!Next
    BY <1>1, <2>1, CommitAppends DEF Ledger!Next
  <2>2. ASSUME NEW k \in Resetters, ResetStorage(k) PROVE Ledger!Next
    BY <1>1, <2>2, ResetClears DEF Ledger!Next
  <2>3. CASE /\ \A l \in Loops : ~CommitNep17(l)
             /\ \A k \in Resetters : ~ResetStorage(k)
    BY <1>1, <2>3, OtherwiseHidden, HiddenStutters
  <2> QED BY <2>1, <2>2, <2>3
<1> QED BY <1>1, Always, RefinesInit, PTL
        DEF Spec, AtomicBlocks, Ledger!Spec, Shown
=============================================================================
