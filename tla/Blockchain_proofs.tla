-------------------------- MODULE Blockchain_proofs ---------------------------
(***************************************************************************)
(* The persist pipeline for every value of its constants: its types, and   *)
(* the guard of persistBlocksAsync, which is a lock.                       *)
(***************************************************************************)
EXTENDS Blockchain, TLAPS

USE ConstantsAssumption DEF ConstantsAssumption, Heights

-----------------------------------------------------------------------------
(* Type correctness. *)

\* An invocation that is under way has taken an entry.
EntryOK == \A l \in Loops : loop[l].pc # "idle" => loop[l].entry \in Owners

TypeInv == TypeOK /\ EntryOK

LEMMA IdleType == Idle \in LoopStates
BY SMT DEF Idle, LoopStates, States, Stages

\* Taking an owner's block gives a well-typed loop with an entry.
LEMMA TakeType ==
    ASSUME TypeInv, NEW l \in Loops, NEW o \in Owners, loop' = Take(l, o)
    PROVE  LoopType' /\ EntryOK'
<1>1. [Idle EXCEPT !.pc = "read", !.entry = o] \in LoopStates
  BY IdleType DEF LoopStates, Stages
<1>2. loop \in [Loops -> LoopStates]
  BY DEF TypeInv, TypeOK, LoopType
<1>3. LoopType'
  BY <1>1, <1>2 DEF Take, LoopType
<1>4. EntryOK'
  BY <1>2 DEF TypeInv, EntryOK, Take, Idle, LoopStates
<1> QED BY <1>3, <1>4

\* An invocation that ends leaves a well-typed loop.
LEMMA EndType ==
    ASSUME TypeInv, NEW l \in Loops, loop' = [loop EXCEPT ![l] = Idle]
    PROVE  LoopType' /\ EntryOK'
<1>1. LoopType'
  BY IdleType DEF TypeInv, TypeOK, LoopType
<1>2. EntryOK'
  BY DEF TypeInv, TypeOK, LoopType, EntryOK, Idle
<1> QED BY <1>1, <1>2

\* So does one that moves on to another stage.
LEMMA GotoType ==
    ASSUME TypeInv, NEW l \in Loops, NEW s \in Stages,
           loop[l].pc # "idle", Goto(l, s)
    PROVE  LoopType' /\ EntryOK'
<1>1. LoopType'
  BY DEF TypeInv, TypeOK, LoopType, LoopStates, Goto
<1>2. EntryOK'
  BY DEF TypeInv, TypeOK, LoopType, LoopStates, EntryOK, Goto
<1> QED BY <1>1, <1>2

\* Releasing the guard keeps the controllers well typed.
LEMMA ReleaseType ==
    ASSUME TypeInv, Release
    PROVE  /\ doneRunning' \in Controllers \cup {Nobody}
           /\ ctl' \in [Controllers -> {"idle", "stopping", "stopped"}]
           /\ persisting' \in BOOLEAN
BY DEF Release, TypeInv, TypeOK, ControlType

\* Whether the loop takes the next block or ends, what it leaves is well typed.
LEMMA ContinueType ==
    ASSUME TypeInv, height' \in [Owners -> Heights],
           NEW l \in Loops, NEW q \in SUBSET Owners, NEW cur,
           NEW st \in [Owners -> Statuses], Continue(l, q, cur, st)
    PROVE  /\ status' \in [Owners -> Statuses]
           /\ queue' \subseteq Owners
           /\ persisting' \in BOOLEAN
           /\ doneRunning' \in Controllers \cup {Nobody}
           /\ ctl' \in [Controllers -> {"idle", "stopping", "stopped"}]
           /\ LoopType' /\ EntryOK'
<1>1. status' \in [Owners -> Statuses]
  BY DEF Continue, Statuses
<1>2. ASSUME NEW o \in Successor(q, cur),
             queue' = q \ (Stale(q, cur) \cup {o}),
             loop' = Take(l, o),
             persisting' = TRUE,
             UNCHANGED <<doneRunning, ctl>>
      PROVE  /\ queue' \subseteq Owners
             /\ persisting' \in BOOLEAN
             /\ doneRunning' \in Controllers \cup {Nobody}
             /\ ctl' \in [Controllers -> {"idle", "stopping", "stopped"}]
             /\ LoopType' /\ EntryOK'
  <2>1. o \in Owners
    BY DEF Successor
  <2>2. LoopType' /\ EntryOK'
    BY <1>2, <2>1, TakeType
  <2> QED BY <1>2, <2>2 DEF TypeInv, TypeOK, ControlType
<1>3. ASSUME queue' = q \ Stale(q, cur),
             loop' = [loop EXCEPT ![l] = Idle],
             Release
      PROVE  /\ queue' \subseteq Owners
             /\ persisting' \in BOOLEAN
             /\ doneRunning' \in Controllers \cup {Nobody}
             /\ ctl' \in [Controllers -> {"idle", "stopping", "stopped"}]
             /\ LoopType' /\ EntryOK'
  BY <1>3, EndType, ReleaseType
<1> QED BY <1>1, <1>2, <1>3 DEF Continue

\* The end of a process leaves a well-typed state behind.
LEMMA DieType == ASSUME TypeInv, Die, crashes' \in Nat PROVE TypeInv'
<1>1. StoreType'
  BY DEF Die, TypeInv, TypeOK, StoreType, States
<1>2. FlagsType'
  BY DEF Die, FlagsType
<1>3. QueueType'
  BY DEF Die, QueueType, Statuses
<1>4. LoopType' /\ EntryOK'
  BY IdleType DEF Die, LoopType, EntryOK, Idle
<1>5. ControlType'
  BY DEF Die, TypeInv, TypeOK, ControlType
<1> QED BY <1>1, <1>2, <1>3, <1>4, <1>5 DEF TypeInv, TypeOK

LEMMA TypeInit == Init => TypeInv
<1> SUFFICES ASSUME Init PROVE TypeInv
  OBVIOUS
<1>1. StoreType
  BY DEF Init, EmptyDisk, LogEntries, States, StoreType
<1>2. FlagsType
  BY DEF Init, FlagsType
<1>3. QueueType
  BY DEF Init, QueueType, Statuses
<1>4. LoopType /\ EntryOK
  BY IdleType DEF Init, LoopType, EntryOK, Idle
<1>5. ControlType
  BY DEF Init, ControlType
<1> QED BY <1>1, <1>2, <1>3, <1>4, <1>5 DEF TypeInv, TypeOK

\* The index range of a block is a log entry.
LEMMA IndexesType ==
    ASSUME NEW p \in Int, NEW h \in Heights PROVE Indexes(p, h) \in LogEntries
<1>1. Acts[h] \in Nat
  OBVIOUS
<1> QED BY <1>1 DEF Indexes, LogEntries

LEMMA PrevLastType ==
    ASSUME TypeInv, NEW h \in Heights PROVE PrevLast(h) \in Int
<1>1. CASE h = 0 \/ disk.log[h - 1] = NoLog
  BY <1>1 DEF PrevLast
<1>2. CASE ~(h = 0 \/ disk.log[h - 1] = NoLog)
  <2>1. h - 1 \in Heights
    BY <1>2
  <2>2. disk.log[h - 1] \in [first : Int, last : Int]
    BY <1>2, <2>1 DEF TypeInv, TypeOK, StoreType, LogEntries
  <2> QED BY <1>2, <2>2 DEF PrevLast
<1> QED BY <1>1, <1>2

\* No step leaves the types: one step of the proof per action.
LEMMA TypeStep == TypeInv /\ [Next]_vars => TypeInv'
<1> SUFFICES ASSUME TypeInv, [Next]_vars PROVE TypeInv'
  OBVIOUS
<1> USE DEF TypeInv, TypeOK, Places, Copied, ScriptMayWrite
<1>1. ASSUME NEW c \in Calls, NEW h \in Heights, Persist(c, h) PROVE TypeInv'
  <2> USE <1>1 DEF Persist, memory
  <2>1. StoreType'
    BY DEF StoreType
  <2>2. height' \in [Owners -> Heights]
    BY DEF QueueType, Owners
  <2>3. CASE h \in inQueue
    <3>1. FlagsType'
      BY <2>3 DEF FlagsType
    <3>2. QueueType' /\ LoopType' /\ ControlType'
      BY <2>2, <2>3 DEF QueueType, LoopType, ControlType, Statuses, Owners
    <3>3. EntryOK'
      BY <2>3 DEF EntryOK
    <3> QED BY <2>1, <3>1, <3>2, <3>3
  <2>4. CASE h \notin inQueue
    <3> DEFINE q == queue \cup {c}
               st == [status EXCEPT ![c] = "pending"]
    <3>1. q \in SUBSET Owners /\ st \in [Owners -> Statuses]
      BY DEF QueueType, Owners, Statuses
    <3>2. inQueue' \subseteq Heights
      BY <2>4 DEF QueueType
    <3>3. CASE persisting \/ ~running
      <4>1. FlagsType'
        BY <2>4, <3>3 DEF FlagsType
      <4>2. CASE queue' = q /\ status' = st
                 /\ UNCHANGED <<persisting, doneRunning, loop, ctl>>
        BY <2>1, <2>2, <3>1, <3>2, <4>1, <4>2
           DEF QueueType, LoopType, ControlType, EntryOK
      <4> QED BY <2>4, <3>3, <4>2
    <3>4. CASE ~(persisting \/ ~running)
      <4>1. PICK l \in Loops : Continue(l, q, current, st)
        BY <2>4, <3>4
      <4> HIDE DEF q, st, TypeInv
      <4>2. /\ status' \in [Owners -> Statuses]
            /\ queue' \subseteq Owners
            /\ persisting' \in BOOLEAN
            /\ doneRunning' \in Controllers \cup {Nobody}
            /\ ctl' \in [Controllers -> {"idle", "stopping", "stopped"}]
            /\ LoopType' /\ EntryOK'
        BY <2>2, <3>1, <4>1, ContinueType
      <4> USE DEF TypeInv
      <4>3. FlagsType'
        BY <2>4, <4>2 DEF FlagsType
      <4>4. QueueType' /\ ControlType'
        BY <2>2, <3>2, <4>2 DEF QueueType, ControlType
      <4> QED BY <2>1, <4>2, <4>3, <4>4
    <3> QED BY <3>3, <3>4
  <2> QED BY <2>3, <2>4
<1>2. ASSUME NEW l \in Loops, ReadAndExecute(l) PROVE TypeInv'
  <2> DEFINE h == height[loop[l].entry]
             post == IF main = h - 1 THEN h ELSE Torn
  <2> USE <1>2
  <2>0. At(l, "read") /\ loop[l] \in LoopStates /\ loop[l].entry \in Owners
    BY DEF ReadAndExecute, At, LoopType, EntryOK
  <2>1. h \in Heights /\ post \in States
    BY <2>0 DEF QueueType, States
  <2>2. PrevLast(h) \in Int
    BY <2>1, PrevLastType
  <2>3. /\ main' = post
        /\ loop' = [loop EXCEPT ![l] = [loop[l] EXCEPT !.pc = "batch",
                                        !.prev = PrevLast(h), !.post = post]]
    BY DEF ReadAndExecute, Block, LoopType
  <2> HIDE DEF h, post
  <2>4. [loop[l] EXCEPT !.pc = "batch", !.prev = PrevLast(h), !.post = post]
          \in LoopStates
    BY <2>0, <2>1, <2>2 DEF LoopStates, Stages
  <2>5. LoopType' /\ EntryOK'
    BY <2>0, <2>3, <2>4 DEF LoopType, LoopStates, EntryOK
  <2>6. StoreType'
    BY <2>1, <2>3 DEF ReadAndExecute, StoreType, memory
  <2>7. FlagsType'
    BY DEF ReadAndExecute, FlagsType, memory
  <2> QED BY <2>5, <2>6, <2>7
          DEF ReadAndExecute, memory, promises, QueueType, ControlType
<1>3. ASSUME NEW l \in Loops, CommitBatch(l) PROVE TypeInv'
  <2> USE <1>3 DEF CommitBatch, memory, promises
  <2>0. Block(l) \in Heights /\ loop[l].pc # "idle"
    BY DEF At, Block, EntryOK, QueueType
  <2>1. LoopType' /\ EntryOK'
    BY <2>0, GotoType DEF Stages
  <2> DEFINE fits == loop[l].post = Block(l)
                       /\ disk.state \in {Block(l) - 1, Block(l)}
             s == IF fits THEN Block(l) ELSE Torn
  <2>2. s \in States /\ disk' = [disk EXCEPT !.ledger = Block(l), !.state = s]
    BY <2>0 DEF States
  <2> HIDE DEF s
  <2>3. disk' \in [ledger : -1..MaxHeight, state : States,
                    log : [Heights -> LogEntries], nep17 : SUBSET Heights]
    BY <2>0, <2>2, Block(l) \in -1..MaxHeight DEF StoreType
  <2>4. StoreType'
    BY <2>3 DEF StoreType
  <2>5. FlagsType'
    BY DEF FlagsType
  <2> QED BY <2>1, <2>4, <2>5 DEF QueueType, ControlType
<1>4. ASSUME NEW l \in Loops, CommitUpdates(l) PROVE TypeInv'
  <2> USE <1>4 DEF CommitUpdates, memory, promises
  <2>0. Block(l) \in Heights /\ loop[l].pc # "idle" /\ loop[l].prev \in Int
    BY DEF At, Block, EntryOK, QueueType, LoopType, LoopStates
  <2>1. LoopType' /\ EntryOK'
    BY <2>0, GotoType DEF Stages
  <2>2. Indexes(loop[l].prev, Block(l)) \in LogEntries
    BY <2>0, IndexesType
  <2>3. StoreType'
    BY <2>0, <2>2 DEF StoreType
  <2>4. FlagsType'
    BY DEF FlagsType
  <2> QED BY <2>1, <2>3, <2>4 DEF QueueType, ControlType
<1>5. ASSUME NEW l \in Loops, CommitNep17(l) PROVE TypeInv'
  <2> USE <1>5 DEF CommitNep17, promises
  <2>0. Block(l) \in Heights /\ loop[l].pc # "idle"
    BY DEF At, Block, EntryOK, QueueType
  <2>1. LoopType' /\ EntryOK'
    BY <2>0, GotoType DEF Stages
  <2>2. disk' \in [ledger : -1..MaxHeight, state : States,
                   log : [Heights -> LogEntries], nep17 : SUBSET Heights]
    BY <2>0 DEF StoreType
  <2>3. StoreType'
    BY <2>0, <2>2 DEF StoreType
  <2>4. FlagsType'
    BY DEF FlagsType
  <2> QED BY <2>1, <2>3, <2>4 DEF QueueType, ControlType
<1>6. ASSUME NEW l \in Loops, OnPersist(l) PROVE TypeInv'
  <2> USE <1>6 DEF OnPersist, memory, promises
  <2>1. LoopType' /\ EntryOK'
    BY GotoType DEF Stages, At
  <2>2. StoreType'
    BY DEF StoreType
  <2>3. FlagsType'
    BY DEF FlagsType
  <2> QED BY <2>1, <2>2, <2>3 DEF QueueType, ControlType
<1>7. ASSUME NEW l \in Loops, Complete(l) PROVE TypeInv'
  <2> DEFINE st == [status EXCEPT ![loop[l].entry] = "resolved"]
  <2> USE <1>7 DEF Complete
  <2>1. st \in [Owners -> Statuses] /\ queue \in SUBSET Owners
    BY DEF QueueType, Statuses
  <2>2. height' \in [Owners -> Heights]
    BY DEF QueueType
  <2>3. Continue(l, queue, current, st)
    OBVIOUS
  <2> HIDE DEF st, TypeInv
  <2>4. /\ status' \in [Owners -> Statuses]
        /\ queue' \subseteq Owners
        /\ persisting' \in BOOLEAN
        /\ doneRunning' \in Controllers \cup {Nobody}
        /\ ctl' \in [Controllers -> {"idle", "stopping", "stopped"}]
        /\ LoopType' /\ EntryOK'
    BY <2>1, <2>2, <2>3, ContinueType
  <2> USE DEF TypeInv
  <2>5. StoreType'
    BY DEF StoreType
  <2>6. FlagsType'
    BY <2>4 DEF FlagsType
  <2> QED BY <2>2, <2>4, <2>5, <2>6 DEF QueueType, ControlType
<1>8. ASSUME NEW l \in Loops, Fail(l) PROVE TypeInv'
  <2> USE <1>8 DEF Fail
  <2>1. LoopType' /\ EntryOK'
    BY EndType
  <2>2. /\ doneRunning' \in Controllers \cup {Nobody}
        /\ ctl' \in [Controllers -> {"idle", "stopping", "stopped"}]
        /\ persisting' \in BOOLEAN
    BY ReleaseType
  <2>3. StoreType'
    BY DEF StoreType, States
  <2>4. QueueType'
    BY DEF QueueType, Statuses, HashesAfterFailure
  <2>5. FlagsType'
    BY <2>2 DEF FlagsType
  <2> QED BY <2>1, <2>2, <2>3, <2>4, <2>5 DEF ControlType
<1>9. ASSUME NEW k \in Controllers, Stop(k) PROVE TypeInv'
  <2> USE <1>9 DEF Stop, promises
  <2>1. StoreType' /\ QueueType' /\ LoopType' /\ EntryOK'
    BY DEF StoreType, QueueType, LoopType, EntryOK
  <2>2. FlagsType'
    BY DEF FlagsType
  <2>3. ControlType'
    BY DEF ControlType
  <2> QED BY <2>1, <2>2, <2>3
<1>10. ASSUME NEW k \in Resetters, ResetStorage(k) PROVE TypeInv'
  <2> USE <1>10 DEF ResetStorage, Forget
  <2>1. k \in Owners
    BY DEF Owners, Controllers
  <2>2. LoopType' /\ EntryOK'
    BY <2>1, TakeType
  <2>3. StoreType'
    BY DEF StoreType, EmptyDisk, LogEntries, States
  <2>4. FlagsType'
    BY DEF FlagsType
  <2>5. QueueType'
    BY <2>1 DEF QueueType, Statuses
  <2> QED BY <2>2, <2>3, <2>4, <2>5 DEF ControlType
<1>11. ASSUME NEW k \in Resetters, ResetFails(k) PROVE TypeInv'
  <2> USE <1>11 DEF ResetFails, memory, promises
  <2>1. FlagsType'
    BY DEF FlagsType
  <2> QED BY <2>1 DEF StoreType, QueueType, LoopType, EntryOK, ControlType
<1>12. CASE Boot
  <2> USE <1>12 DEF Boot
  <2>1. StoreType'
    BY DEF StoreType
  <2>2. LoopType' /\ EntryOK'
    <3>1. CASE disk.ledger = -1
      BY <3>1, TakeType DEF Owners, Controllers
    <3>2. CASE disk.ledger # -1
      BY <3>2 DEF LoopType, EntryOK
    <3> QED BY <3>1, <3>2
  <2>3. FlagsType'
    BY DEF FlagsType
  <2>4. QueueType'
    <3>1. CASE disk.ledger = -1
      <4>1. Main \in Owners /\ 0 \in Heights
        BY DEF Owners, Controllers
      <4> QED BY <3>1, <4>1 DEF QueueType, Statuses
    <3>2. CASE disk.ledger # -1
      BY <3>2 DEF QueueType, promises
    <3> QED BY <3>1, <3>2
  <2> QED BY <2>1, <2>2, <2>3, <2>4 DEF ControlType
<1>13. CASE Created
  <2> USE <1>13 DEF Created, memory, promises
  <2>1. FlagsType'
    BY DEF FlagsType
  <2> QED BY <2>1 DEF StoreType, QueueType, LoopType, EntryOK, ControlType
<1>14. CASE CreateFails
  BY <1>14, DieType DEF CreateFails, ControlType
<1>15. CASE Shutdown
  BY <1>15, DieType DEF Shutdown, ControlType
<1>16. CASE Crash
  BY <1>16, DieType DEF Crash, ControlType
<1>17. CASE UNCHANGED vars
  <2> USE <1>17 DEF vars, memory, promises
  <2>1. FlagsType'
    BY DEF FlagsType
  <2> QED BY <2>1 DEF StoreType, QueueType, LoopType, EntryOK, ControlType
<1>18. CASE Invoke
  <2> USE <1>18 DEF Invoke, memory, promises
  <2>1. FlagsType'
    BY DEF FlagsType
  <2> QED BY <2>1 DEF StoreType, QueueType, LoopType, EntryOK, ControlType
<1> HIDE DEF TypeInv, TypeOK, Places, Copied, ScriptMayWrite
<1> QED BY <1>1, <1>2, <1>3, <1>4, <1>5, <1>6, <1>7, <1>8, <1>9, <1>10,
           <1>11, <1>12, <1>13, <1>14, <1>15, <1>16, <1>17, <1>18 DEF Next

\* The variables stay within their types, in every behaviour of the pipeline.
THEOREM TypeCorrect == Spec => []TypeOK
<1>1. Spec => []TypeInv
  BY TypeInit, TypeStep, PTL DEF Spec
<1>2. TypeInv => TypeOK
  BY DEF TypeInv
<1> QED BY <1>1, <1>2, PTL
-----------------------------------------------------------------------------
(* mutablePersistingBlocks is a lock, with one handler of reset.  OneLoop is
   not inductive: it rests on who may be inside stop() while the flag is up. *)

Busy(l) == loop[l].pc # "idle"

\* Who is inside stop() and reset(), and what the flags say meanwhile.
ControlInv ==
    /\ \A k \in Controllers : ctl[k] = "stopped" => ~running /\ ~persisting
    /\ \A k \in Controllers : ctl[k] = "stopping" <=> doneRunning = k
    /\ doneRunning # Nobody => ~running
    /\ persisting /\ ~running => doneRunning # Nobody
    /\ \A j, k \in Controllers : ctl[j] # "idle" /\ ctl[k] # "idle" => j = k
    /\ phase # "up" => \A k \in Controllers : ctl[k] = "idle"
    /\ phase = "down" => ~persisting

LockInv == OneLoop /\ ControlInv

SingleResetter == \A j, k \in Resetters : j = k

\* No controller is the absent one.
LEMMA NobodyControls == \A k \in Controllers : k # Nobody
BY ConstantsAssumption DEF ConstantsAssumption, Owners

\* An invocation that moves from one stage to another takes no part in it.
LEMMA StageLock ==
    ASSUME LockInv,
           \A l \in Loops : Busy(l)' <=> Busy(l),
           UNCHANGED <<running, persisting, doneRunning, ctl, phase>>
    PROVE  LockInv'
<1>1. OneLoop'
  BY Zenon DEF LockInv, OneLoop, Busy
<1>2. ControlInv'
  BY Zenon DEF LockInv, ControlInv
<1> QED BY <1>1, <1>2 DEF LockInv

\* The only invocation takes an entry: the flag is up while it has one.
LEMMA TakeLock ==
    ASSUME TypeInv, LockInv, NEW l \in Loops, NEW o \in Owners,
           \A m \in Loops : m # l => ~Busy(m),
           running, phase # "down", loop' = Take(l, o), persisting' = TRUE,
           UNCHANGED <<running, doneRunning, ctl, phase>>
    PROVE  LockInv'
<1>1. \A m \in Loops : Busy(m)' <=> m = l
  BY DEF TypeInv, TypeOK, LoopType, Take, Idle, Busy
<1>2. OneLoop'
  BY <1>1, Zenon DEF OneLoop, Busy
<1>3. ControlInv'
  BY DEF LockInv, ControlInv
<1> QED BY <1>2, <1>3 DEF LockInv

\* The only invocation ends: the flag drops and a waiting stop() goes on.
LEMMA EndLock ==
    ASSUME TypeInv, LockInv, NEW l \in Loops,
           \A m \in Loops : m # l => ~Busy(m),
           loop' = [loop EXCEPT ![l] = Idle], Release,
           UNCHANGED <<running, phase>>
    PROVE  LockInv'
<1>1. \A m \in Loops : ~Busy(m)'
  BY DEF TypeInv, TypeOK, LoopType, Idle, Busy
<1>2. ~persisting'
  BY Zenon DEF Release
<1>3. OneLoop'
  BY <1>1, <1>2, Zenon DEF OneLoop, Busy
<1>4. ControlInv'
  <2>1. \A k \in Controllers : ctl'[k] = IF k = doneRunning THEN "stopped" ELSE ctl[k]
    BY DEF Release
  <2>2. doneRunning' = Nobody /\ \A k \in Controllers : k # Nobody
    BY NobodyControls DEF Release
  <2>3. \A k \in Controllers : ctl'[k] # "stopping"
    BY <2>1 DEF LockInv, ControlInv
  <2>4. ASSUME NEW k \in Controllers, ctl'[k] = "stopped" PROVE ~running'
    BY <2>1, <2>2, <2>4, Zenon DEF LockInv, ControlInv
  <2>5. \A j, k \in Controllers : ctl'[j] # "idle" /\ ctl'[k] # "idle" => j = k
    BY <2>1 DEF LockInv, ControlInv
  <2>6. phase' # "up" => \A k \in Controllers : ctl'[k] = "idle"
    BY <2>1 DEF LockInv, ControlInv
  <2> QED BY <1>2, <2>2, <2>3, <2>4, <2>5, <2>6, Zenon DEF ControlInv
<1> QED BY <1>3, <1>4 DEF LockInv

\* The continuation of the loop after a block, or its first step.
LEMMA ContinueLock ==
    ASSUME TypeInv, LockInv, NEW l \in Loops, NEW q \in SUBSET Owners,
           NEW cur, NEW st, Continue(l, q, cur, st),
           \A m \in Loops : m # l => ~Busy(m),
           phase # "down", UNCHANGED <<running, phase>>
    PROVE  LockInv'
<1>1. CASE /\ running
           /\ \E o \in Successor(q, cur) :
                /\ queue' = q \ (Stale(q, cur) \cup {o})
                /\ loop' = Take(l, o)
           /\ persisting' = TRUE
           /\ UNCHANGED <<doneRunning, ctl>>
  <2>1. PICK o \in Successor(q, cur) : loop' = Take(l, o)
    BY <1>1
  <2>2. o \in Owners
    BY DEF Successor
  <2> QED BY <1>1, <2>1, <2>2, TakeLock
<1>2. CASE /\ ~running \/ Successor(q, cur) = {}
           /\ queue' = q \ Stale(q, cur)
           /\ loop' = [loop EXCEPT ![l] = Idle]
           /\ Release
  BY <1>2, EndLock
<1> QED BY <1>1, <1>2, Zenon DEF Continue

\* A process that ends leaves nobody inside stop() and no invocation.
LEMMA DieLock == ASSUME Die PROVE LockInv'
<1>1. \A l \in Loops : loop'[l].pc = "idle"
  BY DEF Die, Idle
<1>2. ~persisting' /\ ~running' /\ doneRunning' = Nobody
  BY Zenon DEF Die
<1>3. \A k \in Controllers : ctl'[k] = "idle" /\ k # Nobody
  BY NobodyControls DEF Die
<1>4. OneLoop'
  BY <1>1, <1>2, Zenon DEF OneLoop
<1>5. ControlInv'
  BY <1>2, <1>3 DEF ControlInv
<1> QED BY <1>4, <1>5 DEF LockInv

LEMMA LockInit == Init => LockInv
<1> SUFFICES ASSUME Init PROVE LockInv
  OBVIOUS
<1>1. \A l \in Loops : loop[l].pc = "idle"
  BY DEF Init, Idle
<1>2. ~persisting /\ ~running /\ doneRunning = Nobody
  BY Zenon DEF Init
<1>3. \A k \in Controllers : ctl[k] = "idle" /\ k # Nobody
  BY NobodyControls DEF Init
<1>4. OneLoop
  BY <1>1, <1>2, Zenon DEF OneLoop
<1>5. ControlInv
  BY <1>2, <1>3 DEF ControlInv
<1> QED BY <1>4, <1>5 DEF LockInv

\* While one invocation is under way, every other is idle.
LEMMA OthersIdle ==
    ASSUME LockInv, NEW l \in Loops, Busy(l)
    PROVE  persisting /\ phase # "down" /\ \A m \in Loops : m # l => ~Busy(m)
BY Zenon DEF LockInv, OneLoop, ControlInv, Busy

LEMMA LockStep ==
    ASSUME SingleResetter, TypeInv, LockInv, [Next]_vars PROVE LockInv'
<1>1. ASSUME NEW c \in Calls, NEW h \in Heights, Persist(c, h) PROVE LockInv'
  <2>1. CASE UNCHANGED <<persisting, doneRunning, loop, ctl>>
    BY <1>1, <2>1, StageLock, Zenon DEF Persist, Busy, memory
  <2>2. CASE ~UNCHANGED <<persisting, doneRunning, loop, ctl>>
    <3> DEFINE q == queue \cup {c}
               st == [status EXCEPT ![c] = "pending"]
    <3>1. PICK l \in Loops : ~persisting /\ Continue(l, q, current, st)
      BY <1>1, <2>2, Zenon DEF Persist, memory
    <3>2. \A m \in Loops : ~Busy(m)
      BY <3>1, Zenon DEF LockInv, OneLoop, Busy
    <3>3. q \in SUBSET Owners
      BY DEF TypeInv, TypeOK, QueueType, Owners
    <3>4. phase # "down" /\ UNCHANGED <<running, phase>>
      <4>1. phase = "up" /\ phase' = phase
        BY <1>1 DEF Persist
      <4>2. running' = running
        BY <1>1, Zenon DEF Persist, memory
      <4> QED BY <4>1, <4>2
    <3> HIDE DEF q, st
    <3> QED BY <3>1, <3>2, <3>3, <3>4, ContinueLock
  <2> QED BY <2>1, <2>2
<1>2. ASSUME NEW l \in Loops, ReadAndExecute(l) PROVE LockInv'
  <2>1. \A m \in Loops : Busy(m)' <=> Busy(m)
    BY <1>2 DEF TypeInv, TypeOK, LoopType, LoopStates, ReadAndExecute, At, Busy
  <2>2. UNCHANGED <<running, persisting, doneRunning, ctl, phase>>
    BY <1>2, Zenon DEF ReadAndExecute, memory
  <2> QED BY <2>1, <2>2, StageLock
<1>3. ASSUME NEW l \in Loops,
             CommitBatch(l) \/ CommitUpdates(l) \/ CommitNep17(l) \/ OnPersist(l)
      PROVE  LockInv'
  <2>1. PICK s \in Stages : Busy(l) /\ Goto(l, s)
    BY <1>3 DEF CommitBatch, CommitUpdates, CommitNep17, OnPersist, At, Busy,
                Stages
  <2>2. \A m \in Loops : Busy(m)' <=> Busy(m)
    BY <2>1 DEF TypeInv, TypeOK, LoopType, LoopStates, Goto, Busy, Stages
  <2>3. UNCHANGED <<running, persisting, doneRunning, ctl, phase>>
    BY <1>3, Zenon DEF CommitBatch, CommitUpdates, CommitNep17, OnPersist, memory
  <2> QED BY <2>2, <2>3, StageLock
<1>4. ASSUME NEW l \in Loops, Complete(l) PROVE LockInv'
  <2>1. Busy(l)
    BY <1>4 DEF Complete, At, Busy
  <2>2. queue \in SUBSET Owners
    BY DEF TypeInv, TypeOK, QueueType
  <2>3. PICK st : Continue(l, queue, current, st)
    BY <1>4 DEF Complete
  <2>4. UNCHANGED <<running, phase>>
    BY <1>4, Zenon DEF Complete
  <2> QED BY <2>1, <2>2, <2>3, <2>4, OthersIdle, ContinueLock
<1>5. ASSUME NEW l \in Loops, Fail(l) PROVE LockInv'
  <2>1. Busy(l)
    BY <1>5 DEF Fail, Busy
  <2>2. loop' = [loop EXCEPT ![l] = Idle] /\ Release
    BY <1>5 DEF Fail
  <2>3. UNCHANGED <<running, phase>>
    BY <1>5, Zenon DEF Fail
  <2> QED BY <2>1, <2>2, <2>3, OthersIdle, EndLock
<1>6. ASSUME NEW k \in Controllers, Stop(k) PROVE LockInv'
  <2>1. phase = "up" /\ phase' = phase /\ loop' = loop /\ ctl[k] = "idle"
    BY <1>6 DEF Stop
  <2>2. running' = FALSE /\ persisting' = persisting
    BY <1>6, Zenon DEF Stop
  <2>3. OneLoop'
    BY <2>1, <2>2, Zenon DEF LockInv, OneLoop
  <2>4. \A j \in Controllers : ctl[j] = "idle"
    BY <1>6 DEF Stop, Resetting, Controllers, SingleResetter
  <2>5. doneRunning = Nobody
    BY <2>4 DEF LockInv, ControlInv, TypeInv, TypeOK, ControlType
  <2>6. persisting => running
    BY <2>5, Zenon DEF LockInv, ControlInv
  <2>7. \A j \in Controllers : j # Nobody
    BY NobodyControls
  <2>8. CASE LoopBusy
    <3>1. doneRunning' = k /\ ctl' = [ctl EXCEPT ![k] = "stopping"]
      BY <1>6, <2>8 DEF Stop
    <3>2. \A j \in Controllers : ctl'[j] = IF j = k THEN "stopping" ELSE "idle"
      BY <2>4, <3>1 DEF TypeInv, TypeOK, ControlType
    <3>3. ControlInv'
      BY <2>1, <2>2, <2>7, <3>1, <3>2 DEF ControlInv
    <3> QED BY <2>3, <3>3 DEF LockInv
  <2>9. CASE ~LoopBusy
    <3>1. doneRunning' = Nobody /\ ctl' = [ctl EXCEPT ![k] = "stopped"]
      BY <1>6, <2>5, <2>9 DEF Stop
    <3>2. \A j \in Controllers : ctl'[j] = IF j = k THEN "stopped" ELSE "idle"
      BY <2>4, <3>1 DEF TypeInv, TypeOK, ControlType
    <3>3. ~persisting'
      BY <2>2, <2>6, <2>9, Zenon DEF LoopBusy
    <3>4. ControlInv'
      BY <2>1, <2>2, <2>7, <3>1, <3>2, <3>3 DEF ControlInv
    <3> QED BY <2>3, <3>4 DEF LockInv
  <2> QED BY <2>8, <2>9
<1>7. ASSUME NEW k \in Resetters, ResetStorage(k) PROVE LockInv'
  <2>1. k \in Controllers /\ ctl[k] = "stopped" /\ ctl' = [ctl EXCEPT ![k] = "idle"]
    BY <1>7 DEF ResetStorage, Controllers
  <2>2. ~persisting /\ \A j \in Controllers : j # k => ctl[j] = "idle"
    BY <2>1 DEF LockInv, ControlInv
  <2>3. \A j \in Controllers : ctl'[j] = "idle" /\ j # Nobody
    BY <2>1, <2>2, NobodyControls DEF TypeInv, TypeOK, ControlType
  <2>4. PICK l \in Loops : loop' = Take(l, k)
    BY <1>7 DEF ResetStorage
  <2>5. \A m \in Loops : Busy(m)' <=> m = l
    BY <2>2, <2>4 DEF LockInv, OneLoop, TypeInv, TypeOK, LoopType, Take, Idle, Busy
  <2>6. running' /\ persisting' /\ doneRunning' = Nobody
    BY <1>7, Zenon DEF ResetStorage
  <2>7. OneLoop'
    BY <2>5, <2>6, Zenon DEF OneLoop, Busy
  <2>8. phase' = "up"
    BY <1>7, <2>1 DEF ResetStorage, LockInv, ControlInv
  <2>9. ControlInv'
    BY <2>3, <2>6, <2>8 DEF ControlInv
  <2> QED BY <2>7, <2>9 DEF LockInv
<1>8. ASSUME NEW k \in Resetters, ResetFails(k) PROVE LockInv'
  <2>1. k \in Controllers /\ ctl[k] = "stopped" /\ ctl' = [ctl EXCEPT ![k] = "idle"]
    BY <1>8 DEF ResetFails, Controllers
  <2>2. \A j \in Controllers : j # k => ctl[j] = "idle"
    BY <2>1 DEF LockInv, ControlInv
  <2>3. \A j \in Controllers : ctl'[j] = "idle" /\ ctl[j] # "stopping" /\ j # Nobody
    BY <2>1, <2>2, NobodyControls DEF TypeInv, TypeOK, ControlType
  <2>4. UNCHANGED <<loop, persisting, running, doneRunning, phase>>
    BY <1>8, Zenon DEF ResetFails, memory
  <2>5. OneLoop'
    BY <2>4, Zenon DEF LockInv, OneLoop
  <2>6. ControlInv'
    BY <2>3, <2>4 DEF LockInv, ControlInv
  <2> QED BY <2>5, <2>6 DEF LockInv
<1>9. CASE Boot
  <2>1. phase = "down" /\ running' /\ UNCHANGED <<doneRunning, ctl>>
    BY <1>9, Zenon DEF Boot
  <2>2. ~persisting /\ \A m \in Loops : ~Busy(m)
    BY <2>1 DEF LockInv, OneLoop, ControlInv, Busy
  <2>3. \A j \in Controllers : ctl'[j] = "idle" /\ j # Nobody
    BY <2>1, NobodyControls DEF LockInv, ControlInv
  <2>4. doneRunning' = Nobody
    BY <2>1, <2>3 DEF LockInv, ControlInv, TypeInv, TypeOK, ControlType
  <2>5. CASE disk.ledger = -1
    <3>1. phase' = "boot" /\ persisting'
      BY <1>9, <2>5, Zenon DEF Boot
    <3>2. PICK l \in Loops : loop' = Take(l, Main)
      BY <1>9, <2>5 DEF Boot
    <3>3. \A m \in Loops : Busy(m)' <=> m = l
      BY <2>2, <3>2 DEF TypeInv, TypeOK, LoopType, Take, Idle, Busy
    <3>4. OneLoop'
      BY <3>1, <3>3, Zenon DEF OneLoop, Busy
    <3>5. ControlInv'
      BY <2>1, <2>3, <2>4, <3>1 DEF ControlInv
    <3> QED BY <3>4, <3>5 DEF LockInv
  <2>6. CASE disk.ledger # -1
    <3>1. phase' = "up" /\ UNCHANGED <<persisting, loop>>
      BY <1>9, <2>6, Zenon DEF Boot
    <3>2. OneLoop'
      BY <3>1, Zenon DEF LockInv, OneLoop
    <3>3. ControlInv'
      BY <2>1, <2>2, <2>3, <2>4, <3>1 DEF ControlInv
    <3> QED BY <3>2, <3>3 DEF LockInv
  <2> QED BY <2>5, <2>6
<1>10. CASE Created
  <2>1. UNCHANGED <<loop, persisting, running, doneRunning, ctl>>
    BY <1>10, Zenon DEF Created, memory
  <2>2. phase = "boot" /\ phase' = "up"
    BY <1>10 DEF Created
  <2>3. OneLoop'
    BY <2>1, Zenon DEF LockInv, OneLoop
  <2>4. ControlInv'
    BY <2>1, <2>2 DEF LockInv, ControlInv
  <2> QED BY <2>3, <2>4 DEF LockInv
<1>11. CASE CreateFails \/ Shutdown \/ Crash
  BY <1>11, DieLock DEF CreateFails, Shutdown, Crash
<1>12. CASE Invoke \/ UNCHANGED vars
  BY <1>12, StageLock, Zenon DEF Invoke, vars, memory, Busy
<1> QED BY <1>1, <1>2, <1>3, <1>4, <1>5, <1>6, <1>7, <1>8, <1>9, <1>10, <1>11,
           <1>12 DEF Next

\* mutablePersistingBlocks is a lock over persistBlocksAsync, whatever the
\* number of callers, the chain's length, the failures and the crashes.
THEOREM LockCorrect == ASSUME SingleResetter PROVE Spec => []OneLoop
<1>1. Spec => [](TypeInv /\ LockInv)
  BY TypeInit, TypeStep, LockInit, LockStep, PTL DEF Spec
<1>2. TypeInv /\ LockInv => OneLoop
  BY DEF LockInv
<1> QED BY <1>1, <1>2, PTL
=============================================================================
