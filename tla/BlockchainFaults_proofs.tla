----------------------- MODULE BlockchainFaults_proofs ------------------------
(***************************************************************************)
(* What holds of the persist pipeline whatever fails and wherever it       *)
(* crashes, for every value of the constants with one handler of reset:    *)
(* the store is at most one block ahead of the memory, the only hash that  *)
(* can be lost is the next one, and until somebody resets, each block was  *)
(* executed on top of its predecessor's changes.                           *)
(***************************************************************************)
EXTENDS Blockchain_proofs

\* Who is queued, or has his block written, still has a promise.
QueuedInv ==
    /\ \A o \in queue : status[o] = "pending"
    /\ \A l \in Loops : Busy(l) => /\ status[loop[l].entry] = "pending"
                                   /\ loop[l].entry \notin queue

\* Where the block an invocation writes is, relative to both heights.
PlaceOf(l) ==
    /\ loop[l].pc \in {"read", "batch"} => Block(l) = current + 1
    /\ loop[l].pc \in HalfWritten =>
          Block(l) = current + 1 /\ disk.ledger = current + 1
    /\ loop[l].pc \in {"onPersist", "committee"} =>
          Block(l) = current /\ disk.ledger = current

PlaceInv ==
    /\ phase = "down" => current = -1 /\ queue = {} /\ inQueue = {}
    /\ HeightsClose
    /\ \A l \in Loops : PlaceOf(l)

FaultInv == QueuedInv /\ PlaceInv /\ OnlyNextHashIsLost

-----------------------------------------------------------------------------
(* Operators. *)

LEMMA IdlePlace == ASSUME NEW l \in Loops, ~Busy(l) PROVE PlaceOf(l)
BY DEF Busy, PlaceOf, HalfWritten

\* What one invocation's step says of all places, the others being idle.
LEMMA OnePlace ==
    ASSUME NEW l \in Loops, \A m \in Loops : m # l => ~Busy(m)',
           PlaceOf(l)', phase' # "down", HeightsClose'
    PROVE  PlaceInv'
<1>1. \A m \in Loops : PlaceOf(m)'
  BY DEF PlaceOf, Busy, HalfWritten
<1> QED BY <1>1 DEF PlaceInv

\* An invocation that goes on takes the next block of its queue, or ends.
LEMMA ContinueShape ==
    ASSUME TypeInv, NEW l \in Loops, NEW q \in SUBSET Owners,
           NEW st \in [Owners -> Statuses],
           \A m \in Loops : m # l => ~Busy(m),
           Continue(l, q, current, st)
    PROVE  /\ queue' \subseteq q \ Stale(q, current)
           /\ \A o \in Owners :
                 status'[o] = IF o \in Stale(q, current) THEN "resolved" ELSE st[o]
           /\ \A m \in Loops : m # l => ~Busy(m)'
           /\ \/ ~Busy(l)'
              \/ /\ loop'[l].pc = "read" /\ loop'[l].entry \in Successor(q, current)
                 /\ loop'[l].entry \notin queue'
<1>1. loop \in [Loops -> LoopStates]
  BY DEF TypeInv, TypeOK, LoopType
<1>2. \A o \in Owners :
         status'[o] = IF o \in Stale(q, current) THEN "resolved" ELSE st[o]
  BY DEF Continue
<1>3. ASSUME NEW o \in Successor(q, current),
             queue' = q \ (Stale(q, current) \cup {o}), loop' = Take(l, o)
      PROVE  /\ queue' \subseteq q \ Stale(q, current)
             /\ \A m \in Loops : m # l => ~Busy(m)'
             /\ loop'[l].pc = "read" /\ loop'[l].entry = o /\ o \notin queue'
  BY <1>1, <1>3 DEF Take, Idle, Busy
<1>4. ASSUME queue' = q \ Stale(q, current), loop' = [loop EXCEPT ![l] = Idle]
      PROVE  /\ queue' \subseteq q \ Stale(q, current)
             /\ \A m \in Loops : ~Busy(m)'
  BY <1>1, <1>4 DEF Idle, Busy
<1> QED BY <1>2, <1>3, <1>4 DEF Continue

\* Whichever it does, promises, queue and places fit together afterwards.
LEMMA ContinueFaults ==
    ASSUME TypeInv, NEW l \in Loops, NEW q \in SUBSET Owners,
           NEW st \in [Owners -> Statuses],
           \A m \in Loops : m # l => ~Busy(m),
           \A o \in q : st[o] = "pending",
           HeightsClose, phase # "down", height' \in [Owners -> Heights],
           UNCHANGED <<disk, current, phase>>,
           Continue(l, q, current, st)
    PROVE  QueuedInv' /\ PlaceInv'
<1>1. current \in Int
  BY DEF TypeInv, TypeOK, StoreType
<1>2. /\ queue' \subseteq q \ Stale(q, current)
      /\ \A o \in Owners :
            status'[o] = IF o \in Stale(q, current) THEN "resolved" ELSE st[o]
      /\ \A m \in Loops : m # l => ~Busy(m)'
      /\ \/ ~Busy(l)'
         \/ /\ loop'[l].pc = "read" /\ loop'[l].entry \in Successor(q, current)
            /\ loop'[l].entry \notin queue'
  BY ContinueShape
<1>3. HeightsClose'
  BY DEF HeightsClose
<1>4. \A o \in Successor(q, current) :
         o \in q /\ o \notin Stale(q, current) /\ height'[o] = current + 1
  BY <1>1 DEF Successor, Stale
<1>5. QueuedInv'
  <2>1. \A o \in queue' : status'[o] = "pending"
    BY <1>2
  <2>2. ASSUME NEW m \in Loops, Busy(m)'
        PROVE  status'[loop'[m].entry] = "pending" /\ loop'[m].entry \notin queue'
    <3>1. m = l
      BY <1>2, <2>2
    <3> QED BY <1>2, <1>4, <2>2, <3>1
  <2> QED BY <2>1, <2>2 DEF QueuedInv
<1>6. PlaceOf(l)'
  <2>1. CASE ~Busy(l)'
    BY <2>1 DEF PlaceOf, Busy, HalfWritten
  <2>2. CASE loop'[l].pc = "read" /\ loop'[l].entry \in Successor(q, current)
    BY <1>4, <2>2 DEF PlaceOf, Block, HalfWritten
  <2> QED BY <1>2, <2>1, <2>2
<1> QED BY <1>2, <1>3, <1>5, <1>6, OnePlace

\* A hash is lost only if its promise went without the chain catching up.
LEMMA LostStep ==
    ASSUME OnlyNextHashIsLost,
           current \in Int, current' \in Int, current <= current',
           inQueue \subseteq Heights, inQueue' \subseteq Heights,
           \A h \in inQueue' :
              \/ h \in inQueue \/ h <= current' + 1
              \/ \E o \in Owners : status'[o] = "pending" /\ height'[o] = h,
           \A o \in Owners : status[o] = "pending" =>
              \/ height[o] <= current' + 1
              \/ status'[o] = "pending" /\ height'[o] = height[o]
    PROVE  OnlyNextHashIsLost'
<1> SUFFICES ASSUME NEW h \in inQueue'
             PROVE  \/ h <= current' + 1
                    \/ \E o \in Owners : status'[o] = "pending" /\ height'[o] = h
  BY DEF OnlyNextHashIsLost
<1>1. CASE h \in inQueue
  <2>1. CASE h <= current + 1
    <3>1. h \in Int
      BY <1>1, ConstantsAssumption DEF Heights, ConstantsAssumption
    <3>2. \A a, b, i \in Int : a <= b /\ i <= a + 1 => i <= b + 1
      OBVIOUS
    <3>3. h <= current' + 1
      BY <2>1, <3>1, <3>2, Zenon
    <3> QED BY <3>3
  <2>2. ASSUME NEW o \in Owners, status[o] = "pending", height[o] = h
        PROVE  \/ h <= current' + 1
               \/ \E p \in Owners : status'[p] = "pending" /\ height'[p] = h
    BY <2>2
  <2> QED BY <1>1, <2>1, <2>2 DEF OnlyNextHashIsLost
<1> QED BY <1>1

\* The end of a process, whatever it was doing.
LEMMA DieFaults == ASSUME Die PROVE FaultInv'
<1>1. /\ queue' = {} /\ inQueue' = {} /\ current' = -1 /\ phase' = "down"
      /\ \A l \in Loops : ~Busy(l)'
  BY DEF Die, Idle, Busy
<1>2. QueuedInv'
  BY <1>1 DEF QueuedInv
<1>3. \A l \in Loops : PlaceOf(l)'
  BY <1>1 DEF PlaceOf, Busy, HalfWritten
<1>4. PlaceInv'
  BY <1>1, <1>3 DEF PlaceInv, HeightsClose
<1>5. OnlyNextHashIsLost'
  BY <1>1 DEF OnlyNextHashIsLost
<1> QED BY <1>2, <1>4, <1>5 DEF FaultInv

-----------------------------------------------------------------------------
(* Every step keeps the invariant. *)

LEMMA FaultInit == Init => FaultInv
<1> SUFFICES ASSUME Init PROVE FaultInv
  OBVIOUS
<1>1. /\ queue = {} /\ inQueue = {} /\ current = -1 /\ phase = "down"
      /\ \A l \in Loops : ~Busy(l)
  BY DEF Init, Idle, Busy
<1>2. QueuedInv
  BY <1>1 DEF QueuedInv
<1>3. PlaceInv
  BY <1>1, IdlePlace DEF PlaceInv, HeightsClose
<1>4. OnlyNextHashIsLost
  BY <1>1 DEF OnlyNextHashIsLost
<1> QED BY <1>2, <1>3, <1>4 DEF FaultInv

\* A call does one of three things: it hears that its hash is known, it waits
\* in the queue, or it starts the loop.
LEMMA PersistCases ==
    ASSUME TypeInv, LockInv, NEW c \in Calls, NEW h \in Heights, Persist(c, h)
    PROVE  /\ UNCHANGED <<disk, main, current, phase, resets>> /\ phase = "up"
           /\ c \in Owners /\ status[c] # "pending"
           /\ height' = [height EXCEPT ![c] = h]
           /\ \/ /\ UNCHANGED <<loop, queue, inQueue, ctl>> /\ h \in inQueue
                 /\ status' = [status EXCEPT ![c] = "resolved"]
              \/ /\ h \notin inQueue /\ inQueue' = inQueue \cup {h}
                 /\ UNCHANGED <<loop, ctl>> /\ queue' = queue \cup {c}
                 /\ status' = [status EXCEPT ![c] = "pending"]
              \/ /\ h \notin inQueue /\ inQueue' = inQueue \cup {h}
                 /\ \A m \in Loops : ~Busy(m)
                 /\ \E l \in Loops : Continue(l, queue \cup {c}, current,
                                              [status EXCEPT ![c] = "pending"])
<1>1. UNCHANGED <<disk, main, current, phase, resets>>
  <2>1. UNCHANGED <<disk, main, phase, resets>>
    BY DEF Persist
  <2>2. current' = current
    BY Zenon DEF Persist, memory
  <2> QED BY <2>1, <2>2
<1>2. /\ phase = "up" /\ c \in Owners /\ status[c] # "pending"
      /\ height' = [height EXCEPT ![c] = h]
  BY DEF Persist, Owners
<1>3. ~persisting => \A m \in Loops : ~Busy(m)
  BY Zenon DEF LockInv, OneLoop, Busy
<1>4. \/ /\ UNCHANGED <<memory, loop, ctl>> /\ h \in inQueue
         /\ status' = [status EXCEPT ![c] = "resolved"]
      \/ /\ h \notin inQueue /\ inQueue' = inQueue \cup {h}
         /\ UNCHANGED <<loop, ctl>> /\ queue' = queue \cup {c}
         /\ status' = [status EXCEPT ![c] = "pending"]
      \/ /\ h \notin inQueue /\ inQueue' = inQueue \cup {h} /\ ~persisting
         /\ \E l \in Loops : Continue(l, queue \cup {c}, current,
                                      [status EXCEPT ![c] = "pending"])
  BY Zenon DEF Persist
<1>5. UNCHANGED memory => UNCHANGED <<queue, inQueue>>
  BY DEF memory
<1> QED BY <1>1, <1>2, <1>3, <1>4, <1>5

\* What the queue with the new call is, for the loop it starts.
LEMMA PersistQueue ==
    ASSUME TypeInv, QueuedInv, NEW c \in Owners
    PROVE  /\ queue \cup {c} \in SUBSET Owners
           /\ [status EXCEPT ![c] = "pending"] \in [Owners -> Statuses]
           /\ \A o \in queue \cup {c} : [status EXCEPT ![c] = "pending"][o] = "pending"
BY DEF TypeInv, TypeOK, QueueType, Statuses, QueuedInv

LEMMA PersistFaults ==
    ASSUME TypeInv, LockInv, FaultInv, NEW c \in Calls, NEW h \in Heights,
           Persist(c, h)
    PROVE  QueuedInv' /\ PlaceInv'
<1> USE DEF FaultInv
<1>0. /\ height \in [Owners -> Heights] /\ status \in [Owners -> Statuses]
      /\ queue \subseteq Owners
      /\ \A m \in Loops : Busy(m) => loop[m].entry \in Owners
  BY DEF TypeInv, TypeOK, QueueType, EntryOK, Busy
<1>1. /\ UNCHANGED <<disk, current, phase>> /\ phase = "up"
      /\ c \in Owners /\ status[c] # "pending"
      /\ height' = [height EXCEPT ![c] = h]
  BY PersistCases
<1>2. ASSUME UNCHANGED loop,
             queue' \subseteq queue \cup {c},
             c \in queue' => status'[c] = "pending",
             \A o \in Owners : o # c => status'[o] = status[o]
      PROVE  QueuedInv' /\ PlaceInv'
  <2>1. \A m \in Loops : Busy(m) => loop[m].entry # c
    BY <1>1 DEF QueuedInv
  <2>2. QueuedInv'
    BY <1>0, <1>2, <2>1 DEF QueuedInv, Busy
  <2>3. ASSUME NEW m \in Loops PROVE PlaceOf(m)'
    <3>1. CASE Busy(m)
      <4>1. Block(m)' = Block(m)
        BY <1>0, <1>1, <1>2, <2>1, <3>1 DEF Block
      <4> QED BY <1>1, <1>2, <4>1 DEF PlaceInv, PlaceOf
    <3>2. CASE ~Busy(m)
      BY <1>2, <3>2 DEF PlaceOf, Busy, HalfWritten
    <3> QED BY <3>1, <3>2
  <2>4. PlaceInv'
    BY <1>1, <2>3 DEF PlaceInv, HeightsClose
  <2> QED BY <2>2, <2>4
<1>3. CASE /\ UNCHANGED <<loop, queue>>
           /\ status' = [status EXCEPT ![c] = "resolved"]
  <2>1. c \notin queue
    BY <1>1 DEF QueuedInv
  <2> QED BY <1>0, <1>1, <1>2, <1>3, <2>1
<1>4. CASE /\ UNCHANGED loop /\ queue' = queue \cup {c}
           /\ status' = [status EXCEPT ![c] = "pending"]
  BY <1>0, <1>1, <1>2, <1>4
<1>5. CASE /\ \A m \in Loops : ~Busy(m)
           /\ \E l \in Loops : Continue(l, queue \cup {c}, current,
                                        [status EXCEPT ![c] = "pending"])
  <2> DEFINE q == queue \cup {c}
             st == [status EXCEPT ![c] = "pending"]
  <2>1. PICK l \in Loops : Continue(l, q, current, st)
    BY <1>5
  <2>2. /\ q \in SUBSET Owners /\ st \in [Owners -> Statuses]
        /\ \A o \in q : st[o] = "pending"
    BY <1>1, PersistQueue
  <2>3. height' \in [Owners -> Heights]
    BY <1>0, <1>1
  <2> HIDE DEF q, st
  <2> QED BY <1>1, <1>5, <2>1, <2>2, <2>3, ContinueFaults DEF PlaceInv
<1> QED BY <1>3, <1>4, <1>5, PersistCases

\* After a call, its hash belongs to a promise, or to a block on the chain.
LEMMA PersistLost ==
    ASSUME TypeInv, TypeInv', LockInv, FaultInv, NEW c \in Calls,
           NEW h \in Heights, Persist(c, h)
    PROVE  OnlyNextHashIsLost'
<1> USE DEF FaultInv
<1>0. /\ height \in [Owners -> Heights] /\ status \in [Owners -> Statuses]
      /\ inQueue \subseteq Heights /\ inQueue' \subseteq Heights
      /\ current \in Int
  BY DEF TypeInv, TypeOK, QueueType, StoreType
<1>1. /\ current' = current /\ c \in Owners /\ status[c] # "pending"
      /\ height' = [height EXCEPT ![c] = h]
  BY PersistCases
<1>2. \A o \in Owners : status[o] = "pending" => o # c /\ height'[o] = height[o]
  BY <1>0, <1>1
<1>3. current <= current' /\ current' \in Int
  BY <1>0, <1>1
<1>4. CASE /\ UNCHANGED inQueue
           /\ \A o \in Owners : o # c => status'[o] = status[o]
  BY <1>0, <1>2, <1>3, <1>4, LostStep
<1>5. CASE /\ inQueue' = inQueue \cup {h}
           /\ status' = [status EXCEPT ![c] = "pending"]
  <2>1. status'[c] = "pending" /\ height'[c] = h
    BY <1>0, <1>1, <1>5
  <2>2. \A o \in Owners : o # c => status'[o] = status[o]
    BY <1>0, <1>5
  <2>3. \A g \in inQueue' : g \in inQueue \/ \E o \in Owners :
                                   status'[o] = "pending" /\ height'[o] = g
    BY <1>1, <1>5, <2>1
  <2> QED BY <1>0, <1>2, <1>3, <2>2, <2>3, LostStep
<1>6. CASE /\ inQueue' = inQueue \cup {h} /\ \A m \in Loops : ~Busy(m)
           /\ \E l \in Loops : Continue(l, queue \cup {c}, current,
                                        [status EXCEPT ![c] = "pending"])
  <2> DEFINE q == queue \cup {c}
             st == [status EXCEPT ![c] = "pending"]
  <2>1. PICK l \in Loops : Continue(l, q, current, st)
    BY <1>6
  <2>2. /\ q \in SUBSET Owners /\ st \in [Owners -> Statuses]
        /\ \A o \in Owners : o # c => st[o] = status[o]
        /\ st[c] = "pending"
    BY <1>0, <1>1, PersistQueue
  <2> HIDE DEF q, st
  <2>3. \A o \in Owners :
           status'[o] = IF o \in Stale(q, current) THEN "resolved" ELSE st[o]
    BY <1>6, <2>1, <2>2, ContinueShape
  <2>4. \A o \in Stale(q, current) : height'[o] <= current
    BY DEF Stale
  <2>5. \A o \in Owners : height'[o] <= current => height'[o] <= current + 1
    <3>1. height' \in [Owners -> Heights]
      BY <1>0, <1>1
    <3> QED BY <1>0, <3>1, ConstantsAssumption DEF Heights, ConstantsAssumption
  <2>6. ASSUME NEW o \in Owners, status[o] = "pending"
        PROVE  \/ height[o] <= current' + 1
               \/ status'[o] = "pending" /\ height'[o] = height[o]
    BY <1>1, <1>2, <2>2, <2>3, <2>4, <2>5, <2>6
  <2>7. height'[c] = h
    BY <1>0, <1>1
  <2>8. h <= current' + 1 \/ (status'[c] = "pending" /\ height'[c] = h)
    BY <1>1, <2>2, <2>3, <2>4, <2>5, <2>7
  <2>9. \A g \in inQueue' :
           \/ g \in inQueue \/ g <= current' + 1
           \/ \E o \in Owners : status'[o] = "pending" /\ height'[o] = g
    BY <1>1, <1>6, <2>8
  <2> QED BY <1>0, <1>3, <2>6, <2>9, LostStep
<1> QED BY <1>4, <1>5, <1>6, <1>0, PersistCases

\* The stages of one block.
LEMMA StageFaults ==
    ASSUME TypeInv, TypeInv', LockInv, FaultInv, NEW l \in Loops,
           ReadAndExecute(l) \/ CommitBatch(l) \/ CommitUpdates(l)
             \/ CommitNep17(l) \/ OnPersist(l)
    PROVE  FaultInv'
<1> USE DEF FaultInv
<1>0. /\ loop \in [Loops -> LoopStates] /\ loop' \in [Loops -> LoopStates]
      /\ current \in Int /\ current' \in Int
      /\ inQueue \subseteq Heights
      /\ disk \in [ledger : -1..MaxHeight, state : States,
                   log : [Heights -> LogEntries], nep17 : SUBSET Heights]
  BY DEF TypeInv, TypeOK, LoopType, StoreType, QueueType
<1>1. Busy(l) /\ phase # "down" /\ \A m \in Loops : m # l => ~Busy(m)
  <2>1. Busy(l)
    BY DEF ReadAndExecute, CommitBatch, CommitUpdates, CommitNep17, OnPersist,
           At, Busy
  <2> QED BY <2>1, OthersIdle
<1>2. PlaceOf(l)
  BY DEF PlaceInv
<1>3. UNCHANGED <<queue, inQueue, status, height, phase>>
  BY Zenon DEF ReadAndExecute, CommitBatch, CommitUpdates, CommitNep17,
               OnPersist, memory, promises
<1>4. \A m \in Loops : m # l => loop'[m] = loop[m]
  BY <1>0 DEF ReadAndExecute, CommitBatch, CommitUpdates, CommitNep17,
              OnPersist, Goto
<1>5. loop'[l].entry = loop[l].entry
  BY <1>0 DEF ReadAndExecute, CommitBatch, CommitUpdates, CommitNep17,
              OnPersist, Goto, LoopStates
<1>6. Block(l)' = Block(l)
  BY <1>3, <1>5 DEF Block
<1>7. QueuedInv'
  <2>1. \A m \in Loops : Busy(m)' => Busy(m)
    BY <1>1, <1>4 DEF Busy
  <2>2. \A m \in Loops : loop'[m].entry = loop[m].entry
    BY <1>4, <1>5
  <2> QED BY <1>3, <2>1, <2>2 DEF QueuedInv
<1>8. PlaceOf(l)' /\ HeightsClose' /\ current <= current'
  <2>1. CASE ReadAndExecute(l)
    <3>1. UNCHANGED <<disk, current>>
      BY <2>1, Zenon DEF ReadAndExecute, memory
    <3>2. loop[l].pc = "read" /\ loop'[l].pc = "batch"
      BY <1>0, <2>1 DEF ReadAndExecute, At, LoopStates
    <3> QED BY <1>0, <1>2, <1>3, <1>6, <3>1, <3>2
            DEF PlaceOf, PlaceInv, HeightsClose, HalfWritten
  <2>2. CASE CommitBatch(l)
    <3>1. current' = current /\ disk'.ledger = Block(l)
      <4>1. current' = current
        BY <2>2, Zenon DEF CommitBatch, memory
      <4> QED BY <1>0, <2>2, <4>1 DEF CommitBatch
    <3>2. loop[l].pc = "batch" /\ loop'[l].pc = "updates"
      BY <1>0, <2>2 DEF CommitBatch, At, Goto, LoopStates
    <3> QED BY <1>0, <1>2, <1>3, <1>6, <3>1, <3>2
            DEF PlaceOf, PlaceInv, HeightsClose, HalfWritten
  <2>3. CASE CommitUpdates(l)
    <3>1. current' = current /\ disk'.ledger = disk.ledger
      <4>1. current' = current
        BY <2>3, Zenon DEF CommitUpdates, memory
      <4> QED BY <1>0, <2>3, <4>1 DEF CommitUpdates
    <3>2. loop[l].pc = "updates" /\ loop'[l].pc = "nep17"
      BY <1>0, <2>3 DEF CommitUpdates, At, Goto, LoopStates
    <3> QED BY <1>0, <1>2, <1>3, <1>6, <3>1, <3>2
            DEF PlaceOf, PlaceInv, HeightsClose, HalfWritten
  <2>4. CASE CommitNep17(l)
    <3>1. current' = Block(l) /\ disk'.ledger = disk.ledger
      BY <1>0, <2>4 DEF CommitNep17
    <3>2. loop[l].pc = "nep17" /\ loop'[l].pc = "onPersist"
      BY <1>0, <2>4 DEF CommitNep17, At, Goto, LoopStates
    <3> QED BY <1>0, <1>2, <1>3, <1>6, <3>1, <3>2
            DEF PlaceOf, PlaceInv, HeightsClose, HalfWritten
  <2>5. CASE OnPersist(l)
    <3>1. UNCHANGED <<disk, current>>
      BY <2>5, Zenon DEF OnPersist, memory
    <3>2. loop[l].pc = "onPersist" /\ loop'[l].pc = "committee"
      BY <1>0, <2>5 DEF OnPersist, At, Goto, LoopStates
    <3> QED BY <1>0, <1>2, <1>3, <1>6, <3>1, <3>2
            DEF PlaceOf, PlaceInv, HeightsClose, HalfWritten
  <2> QED BY <2>1, <2>2, <2>3, <2>4, <2>5
<1>9. PlaceInv'
  <2>1. \A m \in Loops : m # l => ~Busy(m)'
    BY <1>1, <1>4 DEF Busy
  <2> QED BY <1>1, <1>3, <1>8, <2>1, OnePlace
<1>10. OnlyNextHashIsLost'
  BY <1>0, <1>3, <1>8, LostStep
<1> QED BY <1>7, <1>9, <1>10

\* The end of a block: its promise resolves and the loop goes on.
LEMMA CompleteFaults ==
    ASSUME TypeInv, TypeInv', LockInv, FaultInv, NEW l \in Loops, Complete(l)
    PROVE  FaultInv'
<1> DEFINE st == [status EXCEPT ![loop[l].entry] = "resolved"]
<1> USE DEF FaultInv
<1>0. /\ status \in [Owners -> Statuses] /\ height \in [Owners -> Heights]
      /\ queue \in SUBSET Owners /\ current \in Int
      /\ inQueue \subseteq Heights
  BY DEF TypeInv, TypeOK, QueueType, StoreType
<1>1. /\ Busy(l) /\ loop[l].pc = "committee"
      /\ UNCHANGED <<disk, current, inQueue, phase, height>>
  BY DEF Complete, At, Busy
<1>2. phase # "down" /\ \A m \in Loops : m # l => ~Busy(m)
  BY <1>1, OthersIdle
<1>3. loop[l].entry \notin queue /\ Block(l) = current
  BY <1>1 DEF QueuedInv, PlaceInv, PlaceOf
<1>4. /\ st \in [Owners -> Statuses]
      /\ \A o \in queue : st[o] = "pending"
      /\ \A o \in Owners : o # loop[l].entry => st[o] = status[o]
  BY <1>0, <1>3 DEF Statuses, QueuedInv
<1>5. Continue(l, queue, current, st)
  BY DEF Complete
<1> HIDE DEF st
<1>6. QueuedInv' /\ PlaceInv'
  BY <1>0, <1>1, <1>2, <1>4, <1>5, ContinueFaults DEF PlaceInv
<1>7. \A o \in Owners :
         status'[o] = IF o \in Stale(queue, current) THEN "resolved" ELSE st[o]
  BY <1>0, <1>2, <1>4, <1>5, ContinueShape
<1>8. \A o \in Owners : height[o] <= current => height[o] <= current' + 1
  BY <1>0, <1>1, ConstantsAssumption DEF Heights, ConstantsAssumption
<1>9. ASSUME NEW o \in Owners, status[o] = "pending"
      PROVE  \/ height[o] <= current' + 1
             \/ status'[o] = "pending" /\ height'[o] = height[o]
  <2>1. o \in Stale(queue, current) => height[o] <= current
    BY <1>1 DEF Stale
  <2>2. o = loop[l].entry => height[o] <= current
    BY <1>0, <1>3 DEF Block
  <2> QED BY <1>1, <1>4, <1>7, <1>8, <1>9, <2>1, <2>2
<1>10. OnlyNextHashIsLost'
  <2>1. current <= current' /\ current' \in Int
    BY <1>0, <1>1
  <2> QED BY <1>0, <1>1, <1>9, <2>1, LostStep
<1> QED BY <1>6, <1>10

\* The failure of a stage: the block of the promise that is rejected is the
\* next one at most.
LEMMA FailFaults ==
    ASSUME TypeInv, LockInv, FaultInv, NEW l \in Loops, Fail(l)
    PROVE  FaultInv'
<1> USE DEF FaultInv
<1>0. /\ status \in [Owners -> Statuses] /\ height \in [Owners -> Heights]
      /\ loop \in [Loops -> LoopStates]
      /\ queue \subseteq Owners /\ current \in Int
      /\ inQueue \subseteq Heights
  BY DEF TypeInv, TypeOK, QueueType, StoreType, LoopType
<1>1. /\ Busy(l) /\ loop' = [loop EXCEPT ![l] = Idle]
      /\ status' = [status EXCEPT ![loop[l].entry] = "rejected"]
      /\ UNCHANGED <<disk, current, queue, inQueue, phase, height>>
  BY DEF Fail, Busy, HashesAfterFailure
<1>2. phase # "down" /\ \A m \in Loops : m # l => ~Busy(m)
  BY <1>1, OthersIdle
<1>3. \A m \in Loops : ~Busy(m)'
  BY <1>0, <1>1, <1>2 DEF Busy, Idle
<1>4. QueuedInv'
  <2>1. \A o \in queue : o # loop[l].entry /\ o \in Owners
    BY <1>0, <1>1 DEF QueuedInv
  <2> QED BY <1>0, <1>1, <1>3, <2>1 DEF QueuedInv
<1>5. PlaceInv'
  <2>1. \A m \in Loops : PlaceOf(m)'
    BY <1>3 DEF PlaceOf, Busy, HalfWritten
  <2> QED BY <1>1, <1>2, <2>1 DEF PlaceInv, HeightsClose
<1>6. height[loop[l].entry] <= current + 1
  <2>1. loop[l].pc \in Stages
    BY <1>0, <1>1 DEF LoopStates, Busy
  <2>2. Block(l) \in {current, current + 1}
    BY <2>1 DEF Stages, HalfWritten, PlaceInv, PlaceOf
  <2> QED BY <1>0, <2>2 DEF Block
<1>7. OnlyNextHashIsLost'
  <2>1. current <= current' /\ current' \in Int
    BY <1>0, <1>1
  <2>2. \A o \in Owners : status[o] = "pending" =>
           \/ height[o] <= current' + 1
           \/ status'[o] = "pending" /\ height'[o] = height[o]
    BY <1>0, <1>1, <1>6
  <2> QED BY <1>0, <1>1, <2>1, <2>2, LostStep
<1> QED BY <1>4, <1>5, <1>7

\* The first block of a chain, at the start of a process or after a reset.
LEMMA GenesisFaults ==
    ASSUME TypeInv, NEW l \in Loops, NEW o \in Owners,
           \A m \in Loops : ~Busy(m),
           loop' = Take(l, o), queue' = {}, inQueue' = {0},
           status'[o] = "pending", height'[o] = 0,
           current' = -1, disk'.ledger = -1, phase' # "down"
    PROVE  FaultInv'
<1>1. loop \in [Loops -> LoopStates]
  BY DEF TypeInv, TypeOK, LoopType
<1>2. /\ \A m \in Loops : m # l => ~Busy(m)'
      /\ loop'[l].pc = "read" /\ loop'[l].entry = o
  BY <1>1 DEF Take, Idle, Busy
<1>3. QueuedInv'
  BY <1>2 DEF QueuedInv
<1>4. PlaceOf(l)' /\ HeightsClose'
  BY <1>2 DEF PlaceOf, Block, HalfWritten, HeightsClose
<1>5. PlaceInv'
  BY <1>2, <1>4, OnePlace
<1>6. OnlyNextHashIsLost'
  BY DEF OnlyNextHashIsLost
<1> QED BY <1>3, <1>5, <1>6 DEF FaultInv

LEMMA BootFaults ==
    ASSUME TypeInv, LockInv, FaultInv, Boot PROVE FaultInv'
<1> USE DEF FaultInv
<1>0. /\ status \in [Owners -> Statuses] /\ height \in [Owners -> Heights]
      /\ Main \in Owners
  BY DEF TypeInv, TypeOK, QueueType, Owners, Controllers
<1>1. /\ phase = "down" /\ phase' # "down" /\ current' = disk.ledger
      /\ UNCHANGED <<disk, queue>>
  BY DEF Boot
<1>2. queue = {} /\ inQueue = {} /\ \A m \in Loops : ~Busy(m)
  BY <1>1 DEF PlaceInv, LockInv, ControlInv, OneLoop, Busy
<1>3. CASE disk.ledger = -1
  <2>1. PICK l \in Loops : loop' = Take(l, Main)
    BY <1>3 DEF Boot
  <2>2. /\ inQueue' = {0} /\ height' = [height EXCEPT ![Main] = 0]
        /\ status' = [status EXCEPT ![Main] = "pending"]
    BY <1>3 DEF Boot
  <2> QED BY <1>0, <1>1, <1>2, <1>3, <2>1, <2>2, GenesisFaults
<1>4. CASE disk.ledger # -1
  <2>1. UNCHANGED <<inQueue, loop, status, height>>
    BY <1>4, Zenon DEF Boot, promises
  <2>2. QueuedInv'
    BY <1>1, <1>2, <2>1 DEF QueuedInv, Busy
  <2>3. \A m \in Loops : PlaceOf(m)'
    BY <1>2, <2>1 DEF PlaceOf, Busy, HalfWritten
  <2>4. PlaceInv'
    BY <1>1, <2>3 DEF PlaceInv, HeightsClose
  <2>5. OnlyNextHashIsLost'
    BY <1>2, <2>1 DEF OnlyNextHashIsLost
  <2> QED BY <2>2, <2>4, <2>5
<1> QED BY <1>3, <1>4

LEMMA FaultStep ==
    ASSUME SingleResetter, TypeInv, TypeInv', LockInv, FaultInv, [Next]_vars
    PROVE  FaultInv'
<1> USE DEF FaultInv
<1>1. ASSUME NEW c \in Calls, NEW h \in Heights, Persist(c, h) PROVE FaultInv'
  BY <1>1, PersistFaults, PersistLost
<1>2. ASSUME NEW l \in Loops,
             ReadAndExecute(l) \/ CommitBatch(l) \/ CommitUpdates(l)
               \/ CommitNep17(l) \/ OnPersist(l)
      PROVE  FaultInv'
  BY <1>2, StageFaults
<1>3. ASSUME NEW l \in Loops, Complete(l) PROVE FaultInv'
  BY <1>3, CompleteFaults
<1>4. ASSUME NEW l \in Loops, Fail(l) PROVE FaultInv'
  BY <1>4, FailFaults
<1>5. CASE \/ \E k \in Controllers : Stop(k)
           \/ \E k \in Resetters : ResetFails(k)
           \/ Invoke \/ Created
           \/ UNCHANGED vars
  <2>1. UNCHANGED <<disk, current, queue, inQueue, loop, status, height>>
    BY <1>5, Zenon DEF Stop, ResetFails, Invoke, Created, vars, memory, promises
  <2>2. phase' = phase \/ (phase # "down" /\ phase' # "down")
    BY <1>5 DEF Stop, ResetFails, Invoke, Created, vars
  <2>3. QueuedInv'
    BY <2>1 DEF QueuedInv, Busy
  <2>4. \A m \in Loops : PlaceOf(m)'
    BY <2>1 DEF PlaceInv, PlaceOf, Block, HalfWritten
  <2>5. PlaceInv'
    BY <2>1, <2>2, <2>4 DEF PlaceInv, HeightsClose
  <2>6. OnlyNextHashIsLost'
    BY <2>1 DEF OnlyNextHashIsLost
  <2> QED BY <2>3, <2>5, <2>6
<1>6. ASSUME NEW k \in Resetters, ResetStorage(k) PROVE FaultInv'
  <2>0. status \in [Owners -> Statuses] /\ height \in [Owners -> Heights]
    BY DEF TypeInv, TypeOK, QueueType
  <2>1. k \in Controllers /\ k \in Owners /\ ctl[k] = "stopped"
    BY <1>6 DEF ResetStorage, Controllers, Owners
  <2>2. phase = "up" /\ \A m \in Loops : ~Busy(m)
    BY <2>1, Zenon DEF LockInv, ControlInv, OneLoop, Busy
  <2>3. PICK l \in Loops : loop' = Take(l, k)
    BY <1>6 DEF ResetStorage
  <2>4. /\ queue' = {} /\ inQueue' = {0} /\ current' = -1
        /\ disk' = EmptyDisk /\ phase' = phase
    BY <1>6 DEF ResetStorage, Forget
  <2>5. status'[k] = "pending" /\ height'[k] = 0
    BY <1>6, <2>0, <2>1 DEF ResetStorage
  <2>6. disk'.ledger = -1
    BY <2>4 DEF EmptyDisk
  <2> QED BY <2>1, <2>2, <2>3, <2>4, <2>5, <2>6, GenesisFaults
<1>7. CASE Boot
  BY <1>7, BootFaults
<1>8. CASE CreateFails \/ Shutdown \/ Crash
  BY <1>8, DieFaults DEF CreateFails, Shutdown, Crash
<1> QED BY <1>1, <1>2, <1>3, <1>4, <1>5, <1>6, <1>7, <1>8 DEF Next

LEMMA FaultsAlways ==
    ASSUME SingleResetter PROVE Spec => [](TypeInv /\ LockInv /\ FaultInv)
BY TypeInit, TypeStep, LockInit, LockStep, FaultInit, FaultStep, PTL DEF Spec

\* Whatever fails or crashes, a half-written block included, the height in
\* memory is the stored one or the one before.
THEOREM HeightsCloseCorrect ==
    ASSUME SingleResetter PROVE Spec => []HeightsClose
<1>1. FaultInv => HeightsClose
  BY DEF FaultInv, PlaceInv
<1> QED BY <1>1, FaultsAlways, PTL

\* persistBlock takes a hash for handled whose block never came only for the
\* block after the current one, whatever failed.
THEOREM OnlyNextHashIsLostCorrect ==
    ASSUME SingleResetter PROVE Spec => []OnlyNextHashIsLost
<1>1. FaultInv => OnlyNextHashIsLost
  BY DEF FaultInv
<1> QED BY <1>1, FaultsAlways, PTL

-----------------------------------------------------------------------------
(* The contract storage, until somebody resets. *)

Undisturbed == \A k \in Resetters : ctl[k] = "idle"

\* No two promises are for one block, and each has its hash in mutableInQueue.
PendingInv ==
    /\ \A o \in Owners : status[o] = "pending" => height[o] \in inQueue
    /\ \A o, p \in Owners :
          status[o] = "pending" /\ status[p] = "pending" /\ height[o] = height[p]
             => o = p
    /\ phase = "down" => \A o \in Owners : status[o] # "pending"

\* The next block has failed: nobody will ever queue it again.
Stuck ==
    /\ current + 1 \in inQueue
    /\ \A o \in Owners : status[o] = "pending" => height[o] # current + 1

\* Which blocks' changes the VM's snapshot holds, at each stage of a block.
MainOf(l) ==
    /\ loop[l].pc \in {"read", "onPersist", "committee"} => main = current
    /\ loop[l].pc \in {"batch", "updates", "nep17"} => main = Block(l)
    /\ loop[l].pc = "batch" => loop[l].post = Block(l)

MainInv ==
    /\ (\A l \in Loops : ~Busy(l)) => main = current \/ Stuck
    /\ \A l \in Loops : MainOf(l)

FirstChainInv ==
    resets = 0 => Undisturbed /\ ChangesOfLedger /\ PendingInv /\ MainInv

LEMMA ResetsGrow == ASSUME TypeInv, [Next]_vars, resets' = 0 PROVE resets = 0
<1>1. resets' = resets \/ resets' = resets + 1
  BY Zenon DEF Next, vars, Persist, ReadAndExecute, CommitBatch, CommitUpdates,
     CommitNep17, OnPersist, Complete, Fail, Stop, ResetStorage, ResetFails,
     Invoke, Boot, Created, CreateFails, Shutdown, Crash, Die
<1> QED BY <1>1 DEF TypeInv, TypeOK, ControlType

\* A reset is counted when it is called, so that none is under way before.
LEMMA UndisturbedStep ==
    ASSUME TypeInv, LockInv, resets' = 0, resets = 0, Undisturbed, [Next]_vars
    PROVE  Undisturbed'
<1> SUFFICES ASSUME NEW k \in Resetters PROVE ctl'[k] = "idle"
  BY DEF Undisturbed
<1>1. /\ k \in Controllers /\ k # Main /\ ctl[k] = "idle"
      /\ ctl \in [Controllers -> {"idle", "stopping", "stopped"}]
  BY ConstantsAssumption
     DEF Undisturbed, Controllers, TypeInv, TypeOK, ControlType, ConstantsAssumption
<1>2. k # doneRunning
  BY <1>1 DEF LockInv, ControlInv
<1>3. Release => ctl'[k] = "idle"
  BY <1>1, <1>2 DEF Release
<1>4. ASSUME NEW l, NEW q, NEW st, Continue(l, q, current, st)
      PROVE  ctl'[k] = "idle"
  BY <1>1, <1>3, <1>4 DEF Continue
<1>5. ASSUME NEW c \in Calls, NEW h \in Heights, Persist(c, h)
      PROVE  ctl'[k] = "idle"
  BY <1>1, <1>4, <1>5 DEF Persist
<1>6. ASSUME NEW l \in Loops, Complete(l) \/ Fail(l) PROVE ctl'[k] = "idle"
  BY <1>3, <1>4, <1>6 DEF Complete, Fail
<1>7. ASSUME NEW j \in Controllers, Stop(j) PROVE ctl'[k] = "idle"
  <2>1. j = Main
    BY <1>7 DEF Stop
  <2> QED BY <1>1, <1>7, <2>1 DEF Stop
<1>8. ASSUME NEW j \in Resetters, ResetStorage(j) \/ ResetFails(j) PROVE FALSE
  BY <1>8 DEF ResetStorage, ResetFails, Undisturbed
<1>9. CASE CreateFails \/ Shutdown \/ Crash
  BY <1>1, <1>9 DEF CreateFails, Shutdown, Crash, Die
<1>10. CASE \/ \E l \in Loops : \/ ReadAndExecute(l) \/ CommitBatch(l)
                               \/ CommitUpdates(l) \/ CommitNep17(l)
                               \/ OnPersist(l)
            \/ Invoke \/ Boot \/ Created \/ UNCHANGED vars
  <2>1. ctl' = ctl
    BY <1>10, Zenon DEF ReadAndExecute, CommitBatch, CommitUpdates, CommitNep17,
       OnPersist, Invoke, Boot, Created, vars
  <2> QED BY <1>1, <2>1
<1> QED BY <1>5, <1>6, <1>7, <1>8, <1>9, <1>10 DEF Next

\* A step in which nobody but c gets a promise, and c one for a new hash.
Promised(c) ==
    /\ inQueue \subseteq inQueue'
    /\ \A o \in Owners : status'[o] = "pending" =>
          \/ status[o] = "pending" /\ height'[o] = height[o]
          \/ o = c /\ height'[o] \in inQueue' \ inQueue

LEMMA PendingStep ==
    ASSUME PendingInv, NEW c, Promised(c), phase' # "down" PROVE PendingInv'
<1>1. \A o \in Owners : status'[o] = "pending" => height'[o] \in inQueue'
  BY DEF PendingInv, Promised
<1>2. ASSUME NEW o \in Owners, NEW p \in Owners, status'[o] = "pending",
             status'[p] = "pending", height'[o] = height'[p]
      PROVE  o = p
  BY <1>2 DEF PendingInv, Promised
<1> QED BY <1>1, <1>2 DEF PendingInv

\* The hash of a block that failed stays where it is.
LEMMA StuckStep ==
    ASSUME Stuck, NEW c, Promised(c), current' = current PROVE Stuck'
BY DEF Stuck, Promised

\* Between two blocks the loop goes on from the current state, or not at all.
LEMMA ContinueMain ==
    ASSUME TypeInv, NEW l \in Loops, NEW q \in SUBSET Owners,
           NEW st \in [Owners -> Statuses],
           \A m \in Loops : m # l => ~Busy(m),
           Continue(l, q, current, st), UNCHANGED <<main, current>>,
           main = current \/ (Stuck' /\ Successor(q, current) = {})
    PROVE  MainInv'
<1>1. /\ \A m \in Loops : m # l => ~Busy(m)'
      /\ \/ ~Busy(l)'
         \/ loop'[l].pc = "read" /\ loop'[l].entry \in Successor(q, current)
  BY ContinueShape
<1>2. ASSUME NEW m \in Loops PROVE MainOf(m)'
  <2>1. CASE ~Busy(m)'
    BY <2>1 DEF MainOf, Busy
  <2>2. CASE Busy(m)'
    BY <1>1, <2>2 DEF MainOf
  <2> QED BY <2>1, <2>2
<1>3. (\A m \in Loops : ~Busy(m)') => main' = current' \/ Stuck'
  OBVIOUS
<1> QED BY <1>2, <1>3 DEF MainInv

LEMMA PersistFirst ==
    ASSUME TypeInv, LockInv, FaultInv, ChangesOfLedger, PendingInv, MainInv,
           NEW c \in Calls, NEW h \in Heights, Persist(c, h)
    PROVE  ChangesOfLedger' /\ PendingInv' /\ MainInv'
<1> USE DEF FaultInv
<1>0. /\ height \in [Owners -> Heights] /\ status \in [Owners -> Statuses]
      /\ queue \subseteq Owners
      /\ \A m \in Loops : Busy(m) => loop[m].entry \in Owners
  BY DEF TypeInv, TypeOK, QueueType, EntryOK, Busy
<1>1. /\ UNCHANGED <<disk, main, current, phase>> /\ phase = "up"
      /\ c \in Owners /\ status[c] # "pending"
      /\ height' = [height EXCEPT ![c] = h]
  BY PersistCases
<1>2. ChangesOfLedger'
  BY <1>1 DEF ChangesOfLedger
<1>3. \A o \in Owners : height'[o] = IF o = c THEN h ELSE height[o]
  BY <1>0, <1>1
<1>4. ASSUME UNCHANGED loop, Promised(c) PROVE MainInv'
  <2>1. (\A m \in Loops : ~Busy(m)') => main' = current' \/ Stuck'
    <3>1. (\A m \in Loops : ~Busy(m)') => \A m \in Loops : ~Busy(m)
      BY <1>4 DEF Busy
    <3>2. (\A m \in Loops : ~Busy(m)) => main = current \/ Stuck
      BY DEF MainInv
    <3>3. Stuck => Stuck'
      BY <1>1, <1>4, StuckStep
    <3> QED BY <1>1, <3>1, <3>2, <3>3
  <2>2. ASSUME NEW m \in Loops PROVE MainOf(m)'
    <3>1. CASE Busy(m)
      <4>1. loop[m].entry # c /\ loop[m].entry \in Owners
        BY <1>0, <1>1, <3>1 DEF QueuedInv
      <4>2. Block(m)' = Block(m)
        BY <1>3, <1>4, <4>1 DEF Block
      <4> QED BY <1>1, <1>4, <4>2 DEF MainInv, MainOf
    <3>2. CASE ~Busy(m)
      BY <1>4, <3>2 DEF MainOf, Busy
    <3> QED BY <3>1, <3>2
  <2> QED BY <2>1, <2>2 DEF MainInv
<1>5. CASE /\ UNCHANGED <<loop, inQueue>>
           /\ status' = [status EXCEPT ![c] = "resolved"]
  <2>1. Promised(c)
    BY <1>0, <1>1, <1>3, <1>5 DEF Promised
  <2> QED BY <1>1, <1>2, <1>4, <1>5, <2>1, PendingStep
<1>6. CASE /\ h \notin inQueue /\ inQueue' = inQueue \cup {h} /\ UNCHANGED loop
           /\ status' = [status EXCEPT ![c] = "pending"]
  <2>1. Promised(c)
    BY <1>0, <1>1, <1>3, <1>6 DEF Promised
  <2> QED BY <1>1, <1>2, <1>4, <1>6, <2>1, PendingStep
<1>7. CASE /\ h \notin inQueue /\ inQueue' = inQueue \cup {h}
           /\ \A m \in Loops : ~Busy(m)
           /\ \E l \in Loops : Continue(l, queue \cup {c}, current,
                                        [status EXCEPT ![c] = "pending"])
  <2> DEFINE q == queue \cup {c}
             st == [status EXCEPT ![c] = "pending"]
  <2>1. PICK l \in Loops : Continue(l, q, current, st)
    BY <1>7
  <2>2. /\ q \in SUBSET Owners /\ st \in [Owners -> Statuses]
        /\ \A o \in Owners : o # c => st[o] = status[o]
        /\ \A o \in q : o = c \/ (o \in Owners /\ status[o] = "pending")
    BY <1>0, <1>1, PersistQueue DEF QueuedInv
  <2> HIDE DEF q, st
  <2>3. \A o \in Owners :
           status'[o] = IF o \in Stale(q, current) THEN "resolved" ELSE st[o]
    BY <1>7, <2>1, <2>2, ContinueShape
  <2>4. Promised(c)
    BY <1>1, <1>3, <1>7, <2>2, <2>3 DEF Promised
  <2>5. ASSUME Stuck PROVE Successor(q, current) = {}
    BY <1>3, <1>7, <2>2, <2>5 DEF Successor, Stuck
  <2>6. main = current \/ (Stuck' /\ Successor(q, current) = {})
    <3>1. main = current \/ Stuck
      BY <1>7 DEF MainInv
    <3>2. Stuck => Stuck'
      BY <1>1, <2>4, StuckStep
    <3> QED BY <2>5, <3>1, <3>2
  <2>7. MainInv'
    BY <1>1, <1>7, <2>1, <2>2, <2>6, ContinueMain
  <2> QED BY <1>1, <1>2, <2>4, <2>7, PendingStep
<1> QED BY <1>5, <1>6, <1>7, PersistCases

\* What one invocation's step says of the snapshot, the others being idle.
LEMMA OneMain ==
    ASSUME NEW l \in Loops, \A m \in Loops : m # l => ~Busy(m)',
           Busy(l)', MainOf(l)'
    PROVE  MainInv'
<1>1. \A m \in Loops : MainOf(m)'
  BY DEF MainOf, Busy
<1> QED BY <1>1 DEF MainInv

\* A block runs on top of its predecessor's changes, and its own ones fit.
LEMMA StageFirst ==
    ASSUME TypeInv, LockInv, FaultInv, ChangesOfLedger, PendingInv, MainInv,
           NEW l \in Loops,
           ReadAndExecute(l) \/ CommitBatch(l) \/ CommitUpdates(l)
             \/ CommitNep17(l) \/ OnPersist(l)
    PROVE  ChangesOfLedger' /\ PendingInv' /\ MainInv'
<1> USE DEF FaultInv
<1>0. /\ loop \in [Loops -> LoopStates] /\ current \in Int
      /\ disk \in [ledger : -1..MaxHeight, state : States,
                   log : [Heights -> LogEntries], nep17 : SUBSET Heights]
  BY DEF TypeInv, TypeOK, LoopType, StoreType
<1>1. Busy(l) /\ phase # "down" /\ \A m \in Loops : m # l => ~Busy(m)
  <2>1. Busy(l)
    BY DEF ReadAndExecute, CommitBatch, CommitUpdates, CommitNep17, OnPersist,
           At, Busy
  <2> QED BY <2>1, OthersIdle
<1>2. PlaceOf(l) /\ MainOf(l)
  BY DEF PlaceInv, MainInv
<1>3. UNCHANGED <<inQueue, status, height, phase>>
  BY Zenon DEF ReadAndExecute, CommitBatch, CommitUpdates, CommitNep17,
               OnPersist, memory, promises
<1>4. \A m \in Loops : m # l => loop'[m] = loop[m]
  BY <1>0 DEF ReadAndExecute, CommitBatch, CommitUpdates, CommitNep17,
              OnPersist, Goto
<1>5. loop'[l].entry = loop[l].entry
  BY <1>0 DEF ReadAndExecute, CommitBatch, CommitUpdates, CommitNep17,
              OnPersist, Goto, LoopStates
<1>6. Block(l)' = Block(l)
  BY <1>3, <1>5 DEF Block
<1>7. PendingInv'
  BY <1>3 DEF PendingInv
<1>8. ChangesOfLedger' /\ MainOf(l)' /\ loop'[l].pc # "idle"
  <2>1. CASE ReadAndExecute(l)
    <3>1. loop[l].pc = "read" /\ Block(l) = current + 1 /\ main = current
      BY <1>2, <2>1 DEF ReadAndExecute, At, PlaceOf, MainOf
    <3>2. main = Block(l) - 1
      BY <1>0, <3>1
    <3>3. /\ main' = Block(l) /\ disk' = disk
          /\ loop' = [loop EXCEPT ![l].pc = "batch", ![l].prev = PrevLast(Block(l)),
                                  ![l].post = Block(l)]
      BY <2>1, <3>2 DEF ReadAndExecute
    <3>4. loop'[l].pc = "batch" /\ loop'[l].post = Block(l)
      BY <1>0, <3>3 DEF LoopStates
    <3> QED BY <1>6, <3>3, <3>4 DEF ChangesOfLedger, MainOf
  <2>2. CASE CommitBatch(l)
    <3>1. /\ loop[l].pc = "batch" /\ Block(l) = current + 1
          /\ main = Block(l) /\ loop[l].post = Block(l)
      BY <1>2, <2>2 DEF CommitBatch, At, PlaceOf, MainOf
    <3>2. disk.state \in {Block(l) - 1, Block(l)}
      BY <1>0, <1>1, <3>1 DEF ChangesOfLedger, PlaceInv, HeightsClose
    <3>3. disk' = [disk EXCEPT !.ledger = Block(l), !.state = Block(l)]
      BY <2>2, <3>1, <3>2 DEF CommitBatch
    <3>4. disk'.ledger = Block(l) /\ disk'.state = Block(l)
      BY <1>0, <3>3
    <3>5. loop'[l].pc = "updates" /\ main' = main
      BY <1>0, <2>2 DEF CommitBatch, Goto, LoopStates
    <3> QED BY <1>6, <3>1, <3>4, <3>5 DEF ChangesOfLedger, MainOf
  <2>3. CASE CommitUpdates(l)
    <3>1. loop[l].pc = "updates" /\ main = Block(l)
      BY <1>2, <2>3 DEF CommitUpdates, At, MainOf
    <3>2. disk'.ledger = disk.ledger /\ disk'.state = disk.state
      BY <1>0, <2>3 DEF CommitUpdates
    <3>3. loop'[l].pc = "nep17" /\ main' = main
      BY <1>0, <2>3 DEF CommitUpdates, Goto, LoopStates
    <3> QED BY <1>6, <3>1, <3>2, <3>3 DEF ChangesOfLedger, MainOf
  <2>4. CASE CommitNep17(l)
    <3>1. loop[l].pc = "nep17" /\ main = Block(l)
      BY <1>2, <2>4 DEF CommitNep17, At, MainOf
    <3>2. /\ disk'.ledger = disk.ledger /\ disk'.state = disk.state
          /\ current' = Block(l)
      BY <1>0, <2>4 DEF CommitNep17
    <3>3. loop'[l].pc = "onPersist" /\ main' = main
      BY <1>0, <2>4 DEF CommitNep17, Goto, LoopStates
    <3> QED BY <1>6, <3>1, <3>2, <3>3 DEF ChangesOfLedger, MainOf
  <2>5. CASE OnPersist(l)
    <3>1. loop[l].pc = "onPersist" /\ disk.ledger = current
      BY <1>2, <2>5 DEF OnPersist, At, PlaceOf
    <3>2. main' = disk.state /\ disk' = disk
      BY <2>5 DEF OnPersist
    <3>3. current' = current
      BY <2>5, Zenon DEF OnPersist, memory
    <3>4. loop'[l].pc = "committee"
      BY <1>0, <2>5 DEF OnPersist, Goto, LoopStates
    <3> QED BY <3>1, <3>2, <3>3, <3>4 DEF ChangesOfLedger, MainOf
  <2> QED BY <2>1, <2>2, <2>3, <2>4, <2>5
<1>9. MainInv'
  <2>1. \A m \in Loops : m # l => ~Busy(m)'
    BY <1>1, <1>4 DEF Busy
  <2> QED BY <1>8, <2>1, OneMain DEF Busy
<1> QED BY <1>7, <1>8, <1>9

LEMMA CompleteFirst ==
    ASSUME TypeInv, LockInv, FaultInv, ChangesOfLedger, PendingInv, MainInv,
           NEW l \in Loops, Complete(l)
    PROVE  ChangesOfLedger' /\ PendingInv' /\ MainInv'
<1> DEFINE st == [status EXCEPT ![loop[l].entry] = "resolved"]
<1>0. status \in [Owners -> Statuses] /\ queue \in SUBSET Owners
  BY DEF TypeInv, TypeOK, QueueType
<1>1. /\ Busy(l) /\ loop[l].pc = "committee"
      /\ UNCHANGED <<disk, main, current, inQueue, phase, height>>
  BY DEF Complete, At, Busy
<1>2. phase # "down" /\ \A m \in Loops : m # l => ~Busy(m)
  BY <1>1, OthersIdle
<1>3. main = current
  BY <1>1 DEF MainInv, MainOf
<1>4. /\ st \in [Owners -> Statuses]
      /\ \A o \in Owners : st[o] = "pending" => status[o] = "pending"
  BY <1>0 DEF Statuses
<1>5. Continue(l, queue, current, st)
  BY DEF Complete
<1> HIDE DEF st
<1>6. \A o \in Owners :
         status'[o] = IF o \in Stale(queue, current) THEN "resolved" ELSE st[o]
  BY <1>0, <1>2, <1>4, <1>5, ContinueShape
<1>7. Promised(Nobody)
  BY <1>1, <1>4, <1>6 DEF Promised
<1>8. MainInv'
  BY <1>0, <1>1, <1>2, <1>3, <1>4, <1>5, ContinueMain
<1>9. ChangesOfLedger'
  BY <1>1 DEF ChangesOfLedger
<1> QED BY <1>1, <1>2, <1>7, <1>8, <1>9, PendingStep

\* A block that fails before it is on the chain is the next one, and stuck.
LEMMA FailFirst ==
    ASSUME TypeInv, LockInv, FaultInv, ChangesOfLedger, PendingInv, MainInv,
           NEW l \in Loops, Fail(l)
    PROVE  ChangesOfLedger' /\ PendingInv' /\ MainInv'
<1> USE DEF FaultInv
<1> DEFINE e == loop[l].entry
<1>0. /\ status \in [Owners -> Statuses] /\ loop \in [Loops -> LoopStates]
      /\ \A m \in Loops : Busy(m) => loop[m].entry \in Owners
  BY DEF TypeInv, TypeOK, QueueType, LoopType, EntryOK, Busy
<1>1. /\ Busy(l) /\ loop' = [loop EXCEPT ![l] = Idle]
      /\ status' = [status EXCEPT ![e] = "rejected"]
      /\ UNCHANGED <<disk, current, inQueue, phase, height>>
      /\ loop[l].pc # "read" => main' = main
  BY DEF Fail, Busy, HashesAfterFailure, At
<1>2. phase # "down" /\ \A m \in Loops : m # l => ~Busy(m)
  BY <1>1, OthersIdle
<1>3. \A m \in Loops : ~Busy(m)'
  BY <1>0, <1>1, <1>2 DEF Busy, Idle
<1>4. Promised(Nobody)
  BY <1>0, <1>1 DEF Promised
<1>5. main' = current' \/ Stuck'
  <2>1. loop[l].pc \in Stages
    BY <1>0, <1>1 DEF LoopStates, Busy
  <2>2. CASE loop[l].pc \in {"onPersist", "committee"}
    BY <1>1, <2>2 DEF MainInv, MainOf
  <2>3. CASE loop[l].pc \in {"read", "batch", "updates", "nep17"}
    <3>1. height[e] = current + 1
      BY <2>3 DEF PlaceInv, PlaceOf, HalfWritten, Block
    <3>2. e \in Owners /\ status[e] = "pending"
      BY <1>0, <1>1 DEF QueuedInv
    <3>3. current + 1 \in inQueue
      BY <3>1, <3>2 DEF PendingInv
    <3>4. ASSUME NEW o \in Owners, status'[o] = "pending" PROVE height[o] # current + 1
      <4>1. o # e /\ status[o] = "pending"
        BY <1>0, <1>1, <3>2, <3>4
      <4> QED BY <3>1, <3>2, <4>1 DEF PendingInv
    <3> QED BY <1>1, <3>3, <3>4 DEF Stuck
  <2> QED BY <2>1, <2>2, <2>3 DEF Stages
<1>6. MainInv'
  BY <1>3, <1>5 DEF MainInv, MainOf, Busy
<1>7. ChangesOfLedger'
  BY <1>1 DEF ChangesOfLedger
<1> QED BY <1>1, <1>2, <1>4, <1>6, <1>7, PendingStep

\* A new process opens the stored blocks, which are the ledger's.
LEMMA BootFirst ==
    ASSUME TypeInv, LockInv, FaultInv, ChangesOfLedger, PendingInv, MainInv, Boot
    PROVE  ChangesOfLedger' /\ PendingInv' /\ MainInv'
<1> USE DEF FaultInv
<1>0. /\ status \in [Owners -> Statuses] /\ height \in [Owners -> Heights]
      /\ loop \in [Loops -> LoopStates] /\ Main \in Owners
  BY DEF TypeInv, TypeOK, QueueType, LoopType, Owners, Controllers
<1>1. /\ phase = "down" /\ phase' # "down" /\ disk' = disk
      /\ current' = disk.ledger /\ main' = disk.state
  BY DEF Boot
<1>2. /\ inQueue = {} /\ (\A m \in Loops : ~Busy(m))
      /\ \A o \in Owners : status[o] # "pending"
  BY <1>1 DEF PlaceInv, LockInv, ControlInv, OneLoop, Busy, PendingInv
<1>3. ChangesOfLedger' /\ main' = current'
  BY <1>1 DEF ChangesOfLedger
<1>4. CASE disk.ledger = -1
  <2>1. PICK l \in Loops : loop' = Take(l, Main)
    BY <1>4 DEF Boot
  <2>2. /\ inQueue' = {0} /\ height' = [height EXCEPT ![Main] = 0]
        /\ status' = [status EXCEPT ![Main] = "pending"]
    BY <1>4 DEF Boot
  <2>3. Promised(Main)
    BY <1>0, <1>2, <2>2 DEF Promised
  <2>4. \A m \in Loops : MainOf(m)'
    BY <1>0, <1>2, <1>3, <2>1 DEF Take, Idle, MainOf, Busy
  <2> QED BY <1>1, <1>3, <2>3, <2>4, PendingStep DEF MainInv
<1>5. CASE disk.ledger # -1
  <2>1. UNCHANGED <<inQueue, loop, status, height>>
    BY <1>5, Zenon DEF Boot, promises
  <2>2. \A m \in Loops : MainOf(m)'
    BY <1>2, <2>1 DEF MainOf, Busy
  <2> QED BY <1>1, <1>2, <1>3, <2>1, <2>2 DEF MainInv, PendingInv
<1> QED BY <1>4, <1>5

LEMMA DieFirst ==
    ASSUME ChangesOfLedger, Die PROVE ChangesOfLedger' /\ PendingInv' /\ MainInv'
<1>1. /\ main' = -1 /\ current' = -1 /\ phase' = "down" /\ disk' = disk
      /\ \A l \in Loops : ~Busy(l)'
      /\ \A o \in Owners : status'[o] = "idle"
  BY DEF Die, Idle, Busy
<1>2. MainInv'
  BY <1>1 DEF MainInv, MainOf, Busy
<1> QED BY <1>1, <1>2 DEF ChangesOfLedger, PendingInv

LEMMA FirstStep ==
    ASSUME TypeInv, LockInv, FaultInv, FirstChainInv, [Next]_vars
    PROVE  FirstChainInv'
<1> SUFFICES ASSUME resets' = 0
             PROVE  Undisturbed' /\ ChangesOfLedger' /\ PendingInv' /\ MainInv'
  BY DEF FirstChainInv
<1>1. resets = 0 /\ Undisturbed /\ ChangesOfLedger /\ PendingInv /\ MainInv
  BY ResetsGrow DEF FirstChainInv
<1>2. Undisturbed'
  BY <1>1, UndisturbedStep
<1>3. ASSUME NEW c \in Calls, NEW h \in Heights, Persist(c, h)
      PROVE  ChangesOfLedger' /\ PendingInv' /\ MainInv'
  BY <1>1, <1>3, PersistFirst
<1>4. ASSUME NEW l \in Loops,
             ReadAndExecute(l) \/ CommitBatch(l) \/ CommitUpdates(l)
               \/ CommitNep17(l) \/ OnPersist(l)
      PROVE  ChangesOfLedger' /\ PendingInv' /\ MainInv'
  BY <1>1, <1>4, StageFirst
<1>5. ASSUME NEW l \in Loops, Complete(l)
      PROVE  ChangesOfLedger' /\ PendingInv' /\ MainInv'
  BY <1>1, <1>5, CompleteFirst
<1>6. ASSUME NEW l \in Loops, Fail(l)
      PROVE  ChangesOfLedger' /\ PendingInv' /\ MainInv'
  BY <1>1, <1>6, FailFirst
<1>7. CASE \/ \E k \in Controllers : Stop(k)
           \/ Invoke \/ Created \/ UNCHANGED vars
  <2>1. UNCHANGED <<disk, main, current, inQueue, loop, status, height>>
    BY <1>7, Zenon DEF Stop, Invoke, Created, vars, memory, promises
  <2>2. phase' = "down" => phase = "down"
    BY <1>7 DEF Stop, Invoke, Created, vars
  <2>3. ChangesOfLedger' /\ PendingInv'
    BY <1>1, <2>1, <2>2 DEF ChangesOfLedger, PendingInv
  <2>4. Stuck => Stuck'
    BY <2>1 DEF Stuck
  <2>5. \A m \in Loops : MainOf(m)'
    BY <1>1, <2>1 DEF MainInv, MainOf, Block
  <2>6. MainInv'
    BY <1>1, <2>1, <2>4, <2>5 DEF MainInv, Busy
  <2> QED BY <1>2, <2>3, <2>6
<1>8. ASSUME NEW k \in Resetters, ResetStorage(k) \/ ResetFails(k) PROVE FALSE
  BY <1>1, <1>8 DEF ResetStorage, ResetFails, Undisturbed
<1>9. CASE Boot
  BY <1>1, <1>2, <1>9, BootFirst
<1>10. CASE CreateFails \/ Shutdown \/ Crash
  BY <1>1, <1>2, <1>10, DieFirst DEF CreateFails, Shutdown, Crash
<1> QED BY <1>2, <1>3, <1>4, <1>5, <1>6, <1>7, <1>8, <1>9, <1>10 DEF Next

LEMMA FirstInit == Init => FirstChainInv
<1> SUFFICES ASSUME Init PROVE FirstChainInv
  OBVIOUS
<1>1. /\ main = -1 /\ current = -1 /\ disk.state = -1 /\ disk.ledger = -1
      /\ \A l \in Loops : loop[l].pc = "idle"
  BY DEF Init, EmptyDisk, Idle
<1>2. /\ \A o \in Owners : status[o] # "pending"
      /\ \A k \in Resetters : ctl[k] = "idle"
  BY DEF Init, Controllers
<1>3. MainInv
  BY <1>1 DEF MainInv, MainOf
<1> QED BY <1>1, <1>2, <1>3
        DEF FirstChainInv, Undisturbed, ChangesOfLedger, PendingInv

\* Until the first reset the contract storage holds the changes of exactly the
\* blocks the ledger counts, whatever fails, whichever scripts are invoked and
\* wherever the process ends: what a block that failed left in the VM's snapshot
\* is never stored.  What an invoked script left there may be (strays).
THEOREM ChangesOfLedgerCorrect ==
    ASSUME SingleResetter PROVE Spec => [](resets = 0 => ChangesOfLedger)
<1>1. Spec => []FirstChainInv
  BY FaultsAlways, FirstInit, FirstStep, PTL DEF Spec
<1>2. FirstChainInv => (resets = 0 => ChangesOfLedger)
  BY DEF FirstChainInv
<1> QED BY <1>1, <1>2, PTL
=============================================================================
