------------------------ MODULE ConsensusDriver_proofs ------------------------
(***************************************************************************)
(* With one handler of reset there is one loop at a time, its queue holds  *)
(* no event that a block has made obsolete, and on a private network the   *)
(* loop never waits without a timer: for any number of calls, blocks and   *)
(* resets, and whichever handlers throw.                                   *)
(***************************************************************************)
EXTENDS ConsensusDriver, SequenceTheorems, TLAPS

SingleResetter == \A j, k \in Resetters : j = k

DriverType ==
    [pc : {"off", "init", "waiting", "handling", "failed"},
     event : Events \cup {NoEvent}, ended : BOOLEAN]

\* The part of the types that holds whatever the bounds.
Typed ==
    /\ items \in Seq(Events)
    /\ timer \in BOOLEAN
    /\ start \in Drivers \cup {Nobody}
    /\ driver \in [Drivers -> DriverType]
    /\ call \in [Callers -> {"idle", "pending", "resolved", "rejected"}]
    /\ ctl \in [Controllers -> {"idle", "pausing", "paused"}]
    /\ awaited \in [Controllers -> Drivers \cup {Nobody}]
    /\ phase \in {"starting", "up", "closing"}
    /\ blocks \in 0..MaxBlocks
    /\ pauses \in 0..MaxPauses

Active == {d \in Drivers : driver[d].pc \in {"init", "waiting", "handling"}}

\* Who is active is the driver of mutableStartPromise.  A pause waits for that
\* one, after it there is none; controllers take turns.
ControlInv ==
    /\ \A d \in Active : start = d
    /\ \A k \in Controllers : ctl[k] = "pausing" => Active \subseteq {awaited[k]}
    /\ \A k \in Controllers : ctl[k] = "paused" => Active = {}
    /\ \A j, k \in Controllers : ctl[j] # "idle" /\ ctl[k] # "idle" => j = k
    /\ ctl[Main] # "idle" => phase # "up"
    /\ \A d \in Drivers : driver[d].pc \in {"off", "init"} => ~driver[d].ended

\* A timer that is armed finds room for its event.
RoomInv ==
    /\ Len(items) <= MaxItems + 1
    /\ timer => Len(items) <= MaxItems
    /\ \A d \in Active : driver[d].ended => ~timer /\ Len(items) <= MaxItems

\* On a private network the next run is due for every driver of the queue: the
\* timer is armed, its event is queued, or the event being handled arms it.
TimerInv ==
    PrivateNet =>
        \A d \in Attached :
            /\ driver[d].pc = "waiting" => timer
            /\ driver[d].pc = "handling" /\ driver[d].event.type \notin {"timer", "persist"}
                  => timer \/ HasTimer

-----------------------------------------------------------------------------
(* The queue. *)

TimerIn(q) == \E i \in DOMAIN q : q[i].type = "timer"
BlockFirst(q) == \A i \in DOMAIN q : q[i].type = "persist" => i = 1

LEMMA EventType ==
    /\ \A type \in Types : Event(type) \in Events /\ Event(type).type = type
    /\ \A c \in Callers : [type |-> "timer", call |-> c] \in Events
BY DEF Event, Events, Types

LEMMA AppendEvent ==
    ASSUME NEW q \in Seq(Events), NEW e \in Events, e.type # "persist"
    PROVE  /\ Append(q, e) \in Seq(Events)
           /\ Len(Append(q, e)) = Len(q) + 1
           /\ TimerIn(q) \/ e.type = "timer" => TimerIn(Append(q, e))
           /\ BlockFirst(q) => BlockFirst(Append(q, e))
<1>1. /\ Append(q, e) \in Seq(Events)
      /\ Len(Append(q, e)) = Len(q) + 1
      /\ \A i \in 1..Len(q) : Append(q, e)[i] = q[i]
      /\ Append(q, e)[Len(q) + 1] = e
  BY AppendProperties
<1>2. Len(q) \in Nat /\ DOMAIN q = 1..Len(q) /\ DOMAIN Append(q, e) = 1..(Len(q) + 1)
  BY <1>1, LenProperties
<1>3. TimerIn(q) \/ e.type = "timer" => TimerIn(Append(q, e))
  BY <1>1, <1>2 DEF TimerIn
<1>4. BlockFirst(q) => BlockFirst(Append(q, e))
  BY <1>1, <1>2 DEF BlockFirst
<1> QED BY <1>1, <1>3, <1>4

\* What write leaves in the queue.
LEMMA QueuedEvent ==
    ASSUME items \in Seq(Events), NEW e \in Events
    PROVE  /\ Queued(e) \in Seq(Events)
           /\ Len(Queued(e)) \in Nat
           /\ IF e.type = "persist" THEN Len(Queued(e)) <= 2
              ELSE Len(Queued(e)) = Len(items) + 1
           /\ HasTimer \/ e.type = "timer" => TimerIn(Queued(e))
           /\ LatestBlockFirst => BlockFirst(Queued(e))
<1>1. CASE e.type # "persist"
  BY <1>1, AppendEvent DEF Queued, HasTimer, TimerIn, LatestBlockFirst, BlockFirst
<1>2. CASE e.type = "persist" /\ HasTimer
  <2> DEFINE t == Event("timer")
  <2>1. t \in Events /\ t.type = "timer"
    BY EventType DEF Types
  <2>2. Queued(e) = <<e, t>>
    BY <1>2 DEF Queued
  <2> HIDE DEF t
  <2>3. <<e, t>> \in Seq(Events) /\ Len(<<e, t>>) = 2 /\ DOMAIN <<e, t>> = 1..2
        /\ <<e, t>>[1] = e /\ <<e, t>>[2] = t
    BY <2>1
  <2> QED BY <1>2, <2>1, <2>2, <2>3 DEF TimerIn, BlockFirst
<1>3. CASE e.type = "persist" /\ ~HasTimer
  <2>1. Queued(e) = <<e>>
    BY <1>3 DEF Queued
  <2> QED BY <1>3, <2>1 DEF TimerIn, BlockFirst
<1> QED BY <1>1, <1>2, <1>3

\* What is left when the first event is taken.
LEMMA TakenEvent ==
    ASSUME items \in Seq(Events), items # <<>>
    PROVE  /\ Head(items) \in Events /\ Tail(items) \in Seq(Events)
           /\ Len(Tail(items)) = Len(items) - 1
           /\ HasTimer => Head(items).type = "timer" \/ TimerIn(Tail(items))
           /\ LatestBlockFirst => BlockFirst(Tail(items))
<1>1. /\ Head(items) \in Events /\ Tail(items) \in Seq(Events)
      /\ Len(Tail(items)) = Len(items) - 1
      /\ \A i \in 1..Len(Tail(items)) : Tail(items)[i] = items[i + 1]
      /\ Head(items) = items[1]
  BY HeadTailProperties
<1>2. /\ Len(items) \in Nat /\ DOMAIN items = 1..Len(items)
      /\ DOMAIN Tail(items) = 1..(Len(items) - 1)
  BY <1>1, LenProperties
<1>3. ASSUME NEW i \in 1..Len(items), i # 1
      PROVE  i - 1 \in DOMAIN Tail(items) /\ Tail(items)[i - 1] = items[i]
  BY <1>1, <1>2, <1>3
<1>4. HasTimer => Head(items).type = "timer" \/ TimerIn(Tail(items))
  BY <1>1, <1>2, <1>3 DEF HasTimer, TimerIn
<1>5. LatestBlockFirst => BlockFirst(Tail(items))
  BY <1>1, <1>2 DEF LatestBlockFirst, BlockFirst
<1> QED BY <1>1, <1>4, <1>5

-----------------------------------------------------------------------------
(* The writers, by what they have in common. *)

\* The timer may go off to write its event; other events find room.
Writing(e) ==
    /\ Write(e)
    /\ \/ timer' = timer /\ (e.type = "persist" \/ Room)
       \/ timer /\ timer' = FALSE /\ e.type = "timer"
    /\ UNCHANGED <<start, ctl, awaited, phase, pauses>>

Writer ==
    \/ OnPersistBlock \/ OnPayload \/ OnTransaction \/ TimerFires
    \/ \E c \in Callers : RunConsensusNow(c)

LEMMA WriterWrites ==
    ASSUME Writer
    PROVE  \/ \E e \in Events : Writing(e)
           \/ UNCHANGED <<items, timer, start, driver, control>>
<1>1. CASE OnPersistBlock
  <2>1. Writing(Event("persist")) /\ Event("persist") \in Events
    BY <1>1, EventType DEF OnPersistBlock, Writing, Types
  <2> QED BY <2>1
<1>2. CASE OnPayload
  <2>1. Writing(Event("payload")) /\ Event("payload") \in Events
    BY <1>2, EventType DEF OnPayload, Writing, Types, control
  <2> QED BY <2>1
<1>3. CASE OnTransaction
  <2>1. Writing(Event("transaction")) /\ Event("transaction") \in Events
    BY <1>3, EventType DEF OnTransaction, Writing, Types, control
  <2> QED BY <2>1
<1>4. CASE TimerFires
  <2>1. Writing(Event("timer")) /\ Event("timer") \in Events
    BY <1>4, EventType DEF TimerFires, Writing, Types, control
  <2> QED BY <2>1
<1>5. ASSUME NEW c \in Callers, RunConsensusNow(c)
      PROVE  \/ \E e \in Events : Writing(e)
             \/ UNCHANGED <<items, timer, start, driver, control>>
  <2>1. CASE PrivateNet
    <3>1. /\ Writing([type |-> "timer", call |-> c])
          /\ [type |-> "timer", call |-> c] \in Events
      BY <1>5, <2>1, EventType DEF RunConsensusNow, Writing, control
    <3> QED BY <3>1
  <2>2. CASE ~PrivateNet
    BY <1>5, <2>2 DEF RunConsensusNow, queues
  <2> QED BY <2>1, <2>2
<1> QED BY <1>1, <1>2, <1>3, <1>4, <1>5 DEF Writer

\* The outcomes of a write.
LEMMA WriteCases ==
    ASSUME NEW e \in Events, Write(e), driver \in [Drivers -> DriverType]
    PROVE  \/ \E d \in Listeners :
                 /\ driver' = [driver EXCEPT ![d].pc = "handling", ![d].event = e]
                 /\ driver' \in [Drivers -> DriverType]
                 /\ items' = items
           \/ /\ Listeners = {} /\ items' = Queued(e) /\ driver' = driver
<1>1. ASSUME NEW d \in Listeners, Handle(d, e), UNCHANGED items
      PROVE  driver' \in [Drivers -> DriverType]
  BY <1>1 DEF Handle, Listeners, Attached, DriverType
<1> QED BY <1>1 DEF Write, Handle

\* The steps of a driver.
Running(d) ==
    /\ driver[d].pc \in {"init", "handling", "waiting"}
    /\ NextEvent(d)
    /\ \/ driver[d].pc = "init" /\ timer' = TRUE
       \/ /\ driver[d].pc = "handling"
          /\ \E rearm \in Rearms(driver[d].event.type) : timer' = (timer \/ rearm)
       \/ driver[d].pc = "waiting" /\ driver[d].ended /\ timer' = timer
    /\ UNCHANGED control

LEMMA DriverRuns ==
    ASSUME NEW d \in Drivers, Initialized(d) \/ Handled(d) \/ Ended(d)
    PROVE  Running(d)
BY DEF Initialized, Handled, Ended, Woken, Running

\* The outcomes of NextEvent.
LEMMA NextEventCases ==
    ASSUME Typed, NEW d \in Drivers, NextEvent(d)
    PROVE  /\ driver' \in [Drivers -> DriverType] /\ items' \in Seq(Events)
           /\ start' \in Drivers \cup {Nobody}
           /\ \/ /\ driver[d].ended /\ driver' = [driver EXCEPT ![d] = Off]
                 /\ start' = Nobody /\ items' = items
              \/ /\ ~driver[d].ended /\ items # <<>>
                 /\ driver' = [driver EXCEPT ![d].pc = "handling", ![d].event = Head(items)]
                 /\ items' = Tail(items) /\ start' = start
              \/ /\ ~driver[d].ended /\ items = <<>>
                 /\ driver' = [driver EXCEPT ![d].pc = "waiting", ![d].event = NoEvent]
                 /\ items' = items /\ start' = start
<1>1. CASE /\ driver[d].ended /\ driver' = [driver EXCEPT ![d] = Off]
           /\ start' = Nobody /\ UNCHANGED items
  <2>1. Off \in DriverType
    BY DEF Off, DriverType
  <2> QED BY <1>1, <2>1 DEF Typed
<1>2. CASE /\ ~driver[d].ended /\ items # <<>> /\ Handle(d, Head(items))
           /\ items' = Tail(items) /\ UNCHANGED start
  BY <1>2, TakenEvent DEF Typed, Handle, DriverType
<1>3. CASE /\ ~driver[d].ended /\ items = <<>>
           /\ driver' = [driver EXCEPT ![d].pc = "waiting", ![d].event = NoEvent]
           /\ UNCHANGED <<items, start>>
  BY <1>3 DEF Typed, DriverType
<1> QED BY <1>1, <1>2, <1>3 DEF NextEvent

-----------------------------------------------------------------------------
(* The invariant and its steps. *)

DriverInv == ControlInv /\ RoomInv /\ TimerInv /\ LatestBlockFirst

LEMMA InitHolds ==
    ASSUME Init
    PROVE  Typed /\ DriverInv
<1>1. Off \in DriverType
  BY DEF Off, DriverType
<1>2. /\ items = <<>> /\ timer = FALSE /\ phase = "starting"
      /\ driver = [d \in Drivers |-> Off]
      /\ ctl = [k \in Controllers |-> IF k = Main THEN "paused" ELSE "idle"]
  BY DEF Init
<1>3. Typed
  <2>1. items \in Seq(Events)
    BY <1>2
  <2>2. driver \in [Drivers -> DriverType] /\ ctl \in [Controllers -> {"idle", "pausing", "paused"}]
    BY <1>1, <1>2
  <2>3. blocks \in 0..MaxBlocks /\ pauses \in 0..MaxPauses
    BY DriverAssumption DEF Init
  <2> QED BY <2>1, <2>2, <2>3 DEF Init, Typed
<1>4. Active = {}
  BY <1>2 DEF Active, Off
<1>5. ControlInv
  <2>1. \A d \in Drivers : ~driver[d].ended
    BY <1>2 DEF Off
  <2>2. \A k \in Controllers : ctl[k] # "pausing" /\ (ctl[k] # "idle" => k = Main)
    BY <1>2
  <2> QED BY <1>2, <1>4, <2>1, <2>2 DEF ControlInv
<1>6. RoomInv
  BY <1>2, <1>4, DriverAssumption DEF RoomInv
<1>7. TimerInv /\ LatestBlockFirst
  BY <1>2, <1>4 DEF TimerInv, Attached, Active, LatestBlockFirst
<1> QED BY <1>3, <1>5, <1>6, <1>7 DEF DriverInv

LEMMA WriterTyped ==
    ASSUME Typed, Writer
    PROVE  /\ call' \in [Callers -> {"idle", "pending", "resolved", "rejected"}]
           /\ blocks' \in 0..MaxBlocks
<1>1. ASSUME UNCHANGED call, UNCHANGED blocks \/ (blocks < MaxBlocks /\ blocks' = blocks + 1)
      PROVE  /\ call' \in [Callers -> {"idle", "pending", "resolved", "rejected"}]
             /\ blocks' \in 0..MaxBlocks
  BY <1>1, DriverAssumption DEF Typed
<1>2. ASSUME NEW c \in Callers, RunConsensusNow(c)
      PROVE  /\ call' \in [Callers -> {"idle", "pending", "resolved", "rejected"}]
             /\ blocks' \in 0..MaxBlocks
  BY <1>2 DEF Typed, RunConsensusNow, control
<1> QED BY <1>1, <1>2 DEF Writer, OnPersistBlock, OnPayload, OnTransaction, TimerFires, control

\* A writer hands its event to the waiting loop, or queues it.
LEMMA WriterStep ==
    ASSUME Typed, DriverInv, Writer
    PROVE  Typed' /\ DriverInv'
<1>1. ASSUME NEW e \in Events, Writing(e)
      PROVE  Typed' /\ DriverInv'
  <2>1. \A x, y \in Active : x = y
    BY DEF DriverInv, ControlInv
  <2>2. CASE \E d \in Listeners :
               /\ driver' = [driver EXCEPT ![d].pc = "handling", ![d].event = e]
               /\ driver' \in [Drivers -> DriverType]
               /\ items' = items
    <3>1. PICK d \in Listeners :
               /\ driver' = [driver EXCEPT ![d].pc = "handling", ![d].event = e]
               /\ driver' \in [Drivers -> DriverType]
               /\ items' = items
      BY <2>2
    <3>2. /\ d \in Drivers /\ driver[d].pc = "waiting" /\ ~driver[d].ended
          /\ d \in Attached /\ d \in Active
      BY DEF Listeners, Attached, Active
    <3>3. /\ driver'[d].pc = "handling" /\ driver'[d].event = e /\ ~driver'[d].ended
          /\ \A x \in Drivers : x # d => driver'[x] = driver[x]
      BY <3>1, <3>2 DEF Typed, DriverType
    <3>4. Active' = Active
      BY <3>2, <3>3 DEF Active
    <3>5. timer' = timer \/ (timer /\ timer' = FALSE)
      BY <1>1 DEF Writing
    <3>6. Typed'
      <4>1. timer' \in BOOLEAN
        BY <3>5 DEF Typed
      <4> QED BY <1>1, <3>1, <4>1, WriterTyped DEF Typed, Writing
    <3>7. ControlInv'
      BY <1>1, <3>2, <3>3, <3>4 DEF DriverInv, ControlInv, Writing
    <3>8. RoomInv'
      BY <3>1, <3>2, <3>3, <3>4, <3>5 DEF DriverInv, RoomInv, Active
    <3>9. TimerInv'
      <4>1. \A x \in Attached' : x = d
        BY <2>1, <3>2, <3>4 DEF Attached, Active
      <4>2. PrivateNet => timer
        BY <3>2 DEF DriverInv, TimerInv
      <4>3. timer' = timer \/ e.type = "timer"
        BY <1>1 DEF Writing
      <4> QED BY <3>3, <4>1, <4>2, <4>3 DEF TimerInv
    <3>10. LatestBlockFirst'
      BY <3>1 DEF DriverInv, LatestBlockFirst
    <3> QED BY <3>6, <3>7, <3>8, <3>9, <3>10 DEF DriverInv
  <2>3. CASE Listeners = {} /\ items' = Queued(e) /\ driver' = driver
    <3>1. items \in Seq(Events) /\ Len(items) \in Nat
      BY LenProperties DEF Typed
    <3>2. /\ items' \in Seq(Events) /\ Len(items') \in Nat
          /\ IF e.type = "persist" THEN Len(items') <= 2 ELSE Len(items') = Len(items) + 1
          /\ HasTimer \/ e.type = "timer" => TimerIn(items')
          /\ LatestBlockFirst => BlockFirst(items')
      BY <2>3, <3>1, QueuedEvent
    <3>3. Active' = Active /\ Attached' = Attached
      BY <2>3 DEF Active, Attached
    <3>4. Typed'
      BY <1>1, <2>3, <3>2, WriterTyped DEF Typed, Writing
    <3>5. ControlInv'
      BY <1>1, <2>3, <3>3 DEF DriverInv, ControlInv, Writing
    <3>6. RoomInv'
      <4>1. MaxItems \in Nat /\ MaxItems >= 2
        BY DriverAssumption
      <4>2. CASE timer' = timer /\ (e.type = "persist" \/ Room)
        <5>1. Len(items') <= MaxItems
          BY <3>1, <3>2, <4>1, <4>2 DEF Room
        <5> QED BY <2>3, <3>2, <3>3, <4>1, <4>2, <5>1 DEF DriverInv, RoomInv
      <4>3. CASE timer /\ timer' = FALSE /\ e.type = "timer"
        <5>1. Len(items') <= MaxItems + 1 /\ \A d \in Active : ~driver[d].ended
          BY <3>1, <3>2, <4>1, <4>3 DEF DriverInv, RoomInv
        <5> QED BY <2>3, <3>3, <4>3, <5>1 DEF RoomInv
      <4> QED BY <1>1, <4>2, <4>3 DEF Writing
    <3>7. TimerInv'
      <4>1. \A d \in Attached : driver[d].pc # "waiting"
        BY <2>3 DEF Listeners
      <4>2. timer \/ HasTimer => timer' \/ TimerIn(items')
        BY <1>1, <3>2 DEF Writing
      <4> QED BY <2>3, <3>3, <4>1, <4>2 DEF DriverInv, TimerInv, HasTimer, TimerIn
    <3>8. LatestBlockFirst'
      BY <3>2 DEF DriverInv, LatestBlockFirst, BlockFirst
    <3> QED BY <3>4, <3>5, <3>6, <3>7, <3>8 DEF DriverInv
  <2> QED BY <1>1, <2>2, <2>3, WriteCases DEF Writing, Typed
<1>2. CASE UNCHANGED <<items, timer, start, driver, control>>
  BY <1>2, WriterTyped DEF control, Typed, DriverInv, ControlInv, RoomInv, TimerInv,
     LatestBlockFirst, Active, Attached, HasTimer
<1> QED BY <1>1, <1>2, WriterWrites

LEMMA SettleTyped ==
    ASSUME Typed, NEW d \in Drivers, NEW o \in {"resolved", "rejected"}, Settle(d, o)
    PROVE  call' \in [Callers -> {"idle", "pending", "resolved", "rejected"}]
BY DEF Typed, Settle

\* The loop takes the next event, waits for one, or ends with its queue.
LEMMA RunningStep ==
    ASSUME Typed, DriverInv, NEW d \in Drivers,
           Initialized(d) \/ Handled(d) \/ Ended(d)
    PROVE  Typed' /\ DriverInv'
<1>1. Running(d)
  BY DriverRuns
<1>2. call' \in [Callers -> {"idle", "pending", "resolved", "rejected"}]
  BY SettleTyped DEF Initialized, Handled, Ended, Typed
<1>3. /\ UNCHANGED <<ctl, awaited, phase, blocks, pauses>>
      /\ d \in Active /\ start = d /\ \A x \in Active : x = d
  BY <1>1 DEF Running, control, Active, DriverInv, ControlInv
<1>4. timer' \in BOOLEAN
  <2>1. \A type \in {driver[d].event.type} : Rearms(type) \subseteq BOOLEAN
    BY DriverAssumption DEF Rearms
  <2>2. CASE driver[d].pc = "waiting" /\ timer' = timer
    BY <2>2 DEF Typed
  <2>3. CASE \E rearm \in Rearms(driver[d].event.type) : timer' = (timer \/ rearm)
    BY <2>3
  <2> QED BY <1>1, <2>2, <2>3 DEF Running
<1>5. driver[d] \in DriverType /\ items \in Seq(Events) /\ Len(items) \in Nat
  BY LenProperties DEF Typed
<1>6. NextEvent(d)
  BY <1>1 DEF Running
<1>7. /\ driver' \in [Drivers -> DriverType] /\ items' \in Seq(Events)
      /\ start' \in Drivers \cup {Nobody}
  BY <1>6, NextEventCases
<1>8. Typed'
  BY <1>2, <1>3, <1>4, <1>7 DEF Typed
<1>9. CASE /\ driver[d].ended /\ driver' = [driver EXCEPT ![d] = Off]
           /\ start' = Nobody /\ items' = items
  <2>1. /\ driver'[d] = Off
        /\ \A x \in Drivers : x # d => driver'[x] = driver[x]
    BY <1>9 DEF Typed
  <2>2. Active' = {} /\ Attached' = {}
    BY <1>3, <2>1 DEF Active, Attached, Off
  <2>3. ControlInv'
    BY <1>3, <2>1, <2>2 DEF DriverInv, ControlInv, Off
  <2>4. RoomInv'
    BY <1>3, <1>9, <2>2 DEF DriverInv, RoomInv
  <2>5. TimerInv' /\ LatestBlockFirst'
    BY <1>9, <2>2 DEF DriverInv, TimerInv, LatestBlockFirst
  <2> QED BY <1>8, <2>3, <2>4, <2>5 DEF DriverInv
<1>10. CASE /\ ~driver[d].ended /\ items # <<>>
            /\ driver' = [driver EXCEPT ![d].pc = "handling", ![d].event = Head(items)]
            /\ items' = Tail(items) /\ start' = start
  <2>1. /\ driver'[d].pc = "handling" /\ driver'[d].event = Head(items)
        /\ ~driver'[d].ended
        /\ \A x \in Drivers : x # d => driver'[x] = driver[x]
    BY <1>5, <1>10 DEF Typed, DriverType
  <2>2. /\ Len(Tail(items)) = Len(items) - 1
        /\ HasTimer => Head(items).type = "timer" \/ TimerIn(Tail(items))
        /\ LatestBlockFirst => BlockFirst(Tail(items))
    BY <1>5, <1>10, TakenEvent
  <2>3. Active' = Active /\ \A x \in Attached' : x = d
    BY <1>3, <2>1 DEF Active, Attached
  <2>4. ControlInv'
    BY <1>3, <1>10, <2>1, <2>3 DEF DriverInv, ControlInv
  <2>5. RoomInv'
    <3>1. Len(items') <= MaxItems
      BY <1>5, <1>10, <2>2, DriverAssumption DEF DriverInv, RoomInv
    <3>2. Len(items') <= MaxItems + 1
      BY <1>5, <1>10, <2>2, <3>1, DriverAssumption
    <3> QED BY <1>3, <2>1, <2>3, <3>1, <3>2 DEF RoomInv
  <2>6. TimerInv'
    <3>1. ASSUME PrivateNet, Head(items).type # "timer"
          PROVE  timer' \/ TimerIn(items')
      <4>1. CASE driver[d].pc = "init"
        BY <1>1, <4>1 DEF Running
      <4>2. CASE driver[d].pc = "handling"
        <5>1. CASE driver[d].event.type \in {"timer", "persist"}
          BY <1>1, <3>1, <4>2, <5>1 DEF Running, Rearms
        <5>2. CASE driver[d].event.type \notin {"timer", "persist"}
          <6>1. timer \/ HasTimer
            BY <1>10, <3>1, <4>2, <5>2 DEF DriverInv, TimerInv, Attached
          <6>2. timer => timer'
            BY <1>1, <4>2 DEF Running
          <6> QED BY <1>10, <2>2, <3>1, <6>1, <6>2
        <5> QED BY <5>1, <5>2
      <4> QED BY <1>1, <1>10, <4>1, <4>2 DEF Running
    <3> QED BY <2>1, <2>3, <3>1 DEF TimerInv, HasTimer, TimerIn
  <2>7. LatestBlockFirst'
    BY <1>10, <2>2 DEF DriverInv, LatestBlockFirst, BlockFirst
  <2> QED BY <1>8, <2>4, <2>5, <2>6, <2>7 DEF DriverInv
<1>11. CASE /\ ~driver[d].ended /\ items = <<>>
            /\ driver' = [driver EXCEPT ![d].pc = "waiting", ![d].event = NoEvent]
            /\ items' = items /\ start' = start
  <2>1. /\ driver'[d].pc = "waiting" /\ ~driver'[d].ended
        /\ \A x \in Drivers : x # d => driver'[x] = driver[x]
    BY <1>5, <1>11 DEF Typed, DriverType
  <2>2. Active' = Active /\ \A x \in Attached' : x = d
    BY <1>3, <2>1 DEF Active, Attached
  <2>3. ControlInv'
    BY <1>3, <1>11, <2>1, <2>2 DEF DriverInv, ControlInv
  <2>4. RoomInv'
    <3>1. Len(items') = 0 /\ 0 <= MaxItems /\ 0 <= MaxItems + 1
      BY <1>11, DriverAssumption
    <3> QED BY <1>3, <2>1, <2>2, <3>1 DEF RoomInv
  <2>5. TimerInv'
    <3>1. ~HasTimer
      BY <1>11 DEF HasTimer
    <3>2. ASSUME PrivateNet PROVE timer'
      <4>1. CASE driver[d].pc = "init"
        BY <1>1, <4>1 DEF Running
      <4>2. CASE driver[d].pc = "handling" /\ driver[d].event.type \in {"timer", "persist"}
        BY <1>1, <3>2, <4>2 DEF Running, Rearms
      <4>3. CASE driver[d].pc = "handling" /\ driver[d].event.type \notin {"timer", "persist"}
        <5>1. timer
          BY <1>11, <3>1, <3>2, <4>3 DEF DriverInv, TimerInv, Attached
        <5> QED BY <1>1, <4>3, <5>1 DEF Running
      <4> QED BY <1>1, <1>11, <4>1, <4>2, <4>3 DEF Running
    <3> QED BY <2>1, <2>2, <3>2 DEF TimerInv
  <2>6. LatestBlockFirst'
    BY <1>11 DEF LatestBlockFirst
  <2> QED BY <1>8, <2>3, <2>4, <2>5, <2>6 DEF DriverInv
<1> QED BY <1>6, <1>9, <1>10, <1>11, NextEventCases

\* A handler that throws leaves the others, and the timer, as they are.
LEMMA ThrowStep ==
    ASSUME Typed, DriverInv, NEW d \in Drivers, Throw(d)
    PROVE  Typed' /\ DriverInv'
<1> DEFINE failed == [Off EXCEPT !.pc = "failed"]
<1>1. failed \in DriverType /\ failed.pc = "failed"
  BY DEF Off, DriverType
<1>2. /\ driver' = [driver EXCEPT ![d] = failed]
      /\ UNCHANGED <<items, timer, start, ctl, awaited, phase, blocks, pauses>>
  BY DEF Throw, control
<1> HIDE DEF failed
<1>3. /\ driver' \in [Drivers -> DriverType] /\ driver'[d].pc = "failed"
      /\ \A x \in Drivers : x # d => driver'[x] = driver[x]
  BY <1>1, <1>2 DEF Typed
<1>4. Typed'
  BY <1>2, <1>3, SettleTyped DEF Typed, Throw
<1>5. /\ Active' \subseteq Active /\ Attached' \subseteq Attached
      /\ \A x \in Active' : driver'[x] = driver[x]
      /\ \A x \in Attached' : driver'[x] = driver[x]
  BY <1>3 DEF Active, Attached
<1>6. ControlInv'
  BY <1>2, <1>3, <1>5 DEF DriverInv, ControlInv
<1>7. RoomInv'
  BY <1>2, <1>5 DEF DriverInv, RoomInv
<1>8. TimerInv' /\ LatestBlockFirst'
  BY <1>2, <1>5 DEF DriverInv, TimerInv, LatestBlockFirst, HasTimer
<1> QED BY <1>4, <1>6, <1>7, <1>8 DEF DriverInv

\* A pause ends every queue in use, and waits for the one loop there may be.
LEMMA PauseStep ==
    ASSUME SingleResetter, Typed, DriverInv, NEW k \in Controllers, Pause(k)
    PROVE  Typed' /\ DriverInv'
<1>1. /\ phase = "up" /\ ctl[k] = "idle"
      /\ \A j \in Controllers : ctl[j] = "idle"
  <2>1. phase = "up" /\ ctl[k] = "idle" /\ (k = Main => \A j \in Resetters : ctl[j] = "idle")
    BY DriverAssumption DEF Pause
  <2>2. ctl[Main] = "idle"
    BY <2>1 DEF DriverInv, ControlInv
  <2> QED BY <2>1, <2>2 DEF SingleResetter, Controllers
<1>2. /\ timer' = FALSE /\ items' = <<>> /\ UNCHANGED <<start, call, blocks>>
      /\ awaited' = [awaited EXCEPT ![k] = start]
      /\ ctl' = [ctl EXCEPT ![k] = "pausing"]
  BY DEF Pause, StartPromise
<1>3. \A d \in Drivers :
         driver'[d] = IF d \in Attached THEN [driver[d] EXCEPT !.ended = TRUE] ELSE driver[d]
  BY DEF Pause
<1>4. /\ driver' \in [Drivers -> DriverType]
      /\ \A d \in Drivers : driver'[d].pc = driver[d].pc
      /\ \A d \in Drivers : driver[d].pc \in {"off", "init"} => driver'[d] = driver[d]
      /\ Attached' = {}
  <2>1. \A d \in Drivers : driver[d] \in DriverType
    BY DEF Typed
  <2>2. \A d \in Attached : [driver[d] EXCEPT !.ended = TRUE] \in DriverType
    BY <2>1 DEF Attached, DriverType
  <2>3. driver' \in [Drivers -> DriverType]
    <3>1. driver' = [d \in Drivers |->
                       IF d \in Attached THEN [driver[d] EXCEPT !.ended = TRUE]
                       ELSE driver[d]]
      BY DEF Pause
    <3> HIDE DEF DriverType
    <3> QED BY <2>1, <2>2, <3>1
  <2>4. \A d \in Attached : driver'[d].pc = driver[d].pc /\ driver'[d].ended
    BY <1>3, <2>1 DEF Attached, DriverType
  <2>5. \A d \in Drivers : driver'[d].pc = driver[d].pc
    BY <1>3, <2>4
  <2>6. Attached' = {}
    <3>1. ASSUME NEW d \in Drivers, driver'[d].pc \in {"waiting", "handling"}, ~driver'[d].ended
          PROVE  FALSE
      <4>1. d \notin Attached
        BY <2>4, <3>1
      <4> QED BY <1>3, <2>5, <3>1, <4>1 DEF Attached
    <3> QED BY <3>1 DEF Attached
  <2> QED BY <1>3, <2>3, <2>5, <2>6 DEF Attached
<1>5. Active' = Active
  BY <1>4 DEF Active
<1>6. Typed'
  <2>1. pauses' \in 0..MaxPauses
    <3>1. k # Main => pauses < MaxPauses /\ pauses' = pauses + 1
      BY DEF Pause
    <3>2. k = Main => pauses' = pauses
      BY DEF Pause
    <3> QED BY <3>1, <3>2, DriverAssumption DEF Typed
  <2>2. phase' \in {"starting", "up", "closing"}
    BY DEF Pause, Typed
  <2>3. timer' \in BOOLEAN
    BY <1>2
  <2>4. items' \in Seq(Events)
    BY <1>2
  <2>5. /\ ctl' \in [Controllers -> {"idle", "pausing", "paused"}]
        /\ awaited' \in [Controllers -> Drivers \cup {Nobody}]
    BY <1>2 DEF Typed
  <2> QED BY <1>2, <1>4, <2>1, <2>2, <2>3, <2>4, <2>5 DEF Typed
<1>7. /\ ctl'[k] = "pausing" /\ awaited'[k] = start
      /\ \A j \in Controllers : j # k => ctl'[j] = "idle"
  BY <1>1, <1>2 DEF Typed
<1>8. ControlInv'
  <2>1. k # Main => ctl'[Main] = "idle"
    BY <1>7 DEF Controllers
  <2>2. k = Main => phase' # "up"
    BY DEF Pause
  <2>3. /\ \A d \in Active' : start' = d
        /\ \A d \in Drivers : driver'[d].pc \in {"off", "init"} => ~driver'[d].ended
    BY <1>2, <1>4, <1>5 DEF DriverInv, ControlInv
  <2>4. /\ \A j \in Controllers : ctl'[j] = "pausing" => Active' \subseteq {awaited'[j]}
        /\ \A j \in Controllers : ctl'[j] # "paused"
    BY <1>2, <1>7, <2>3
  <2>5. \A i, j \in Controllers : ctl'[i] # "idle" /\ ctl'[j] # "idle" => i = j
    BY <1>7
  <2> QED BY <2>1, <2>2, <2>3, <2>4, <2>5 DEF ControlInv
<1>9. RoomInv'
  <2>1. Len(items') = 0 /\ 0 <= MaxItems /\ 0 <= MaxItems + 1
    BY <1>2, DriverAssumption
  <2> QED BY <1>2, <2>1 DEF RoomInv
<1>10. TimerInv' /\ LatestBlockFirst'
  BY <1>2, <1>4 DEF TimerInv, LatestBlockFirst
<1> QED BY <1>6, <1>8, <1>9, <1>10 DEF DriverInv

\* Paused, PauseThrows and ResetThrows move the controller alone.
LEMMA ControllerStep ==
    ASSUME Typed, DriverInv, NEW k \in Controllers, ctl[k] # "idle",
           UNCHANGED <<items, driver, timer, start, call, phase, blocks, pauses>>,
           \/ /\ ctl' = [ctl EXCEPT ![k] = "idle"]
              /\ awaited' \in {awaited, [awaited EXCEPT ![k] = Nobody]}
           \/ /\ ctl' = [ctl EXCEPT ![k] = "paused"]
              /\ awaited' = [awaited EXCEPT ![k] = Nobody]
              /\ Active = {}
    PROVE  Typed' /\ DriverInv'
<1>1. /\ ctl'[k] \in {"idle", "paused"} /\ (ctl'[k] = "paused" => Active = {})
      /\ \A j \in Controllers : j # k => ctl'[j] = "idle"
  BY DEF Typed, DriverInv, ControlInv
<1>2. Typed'
  BY DEF Typed
<1>3. Active' = Active /\ Attached' = Attached
  BY DEF Active, Attached
<1>4. ControlInv'
  <2>1. ctl'[Main] # "idle" => ctl[Main] # "idle"
    BY <1>1 DEF Controllers
  <2> QED BY <1>1, <1>3, <2>1 DEF DriverInv, ControlInv
<1>5. RoomInv' /\ TimerInv' /\ LatestBlockFirst'
  BY <1>3 DEF DriverInv, RoomInv, TimerInv, LatestBlockFirst, HasTimer
<1> QED BY <1>2, <1>4, <1>5 DEF DriverInv

\* The awaited promise has resolved, so no driver is active.
LEMMA PausedStep ==
    ASSUME Typed, DriverInv, NEW k \in Controllers, Paused(k)
    PROVE  Typed' /\ DriverInv'
<1>1. Active = {}
  <2>1. ASSUME NEW d \in Active PROVE FALSE
    <3>1. d = awaited[k] /\ d \in Drivers /\ driver[d].pc # "off"
      BY DEF Paused, DriverInv, ControlInv, Active
    <3> QED BY <3>1, DriverAssumption DEF Paused
  <2> QED BY <2>1
<1> QED BY <1>1, ControllerStep DEF Paused, queues

\* A loop starts only where there is none.
LEMMA DoStartStep ==
    ASSUME Typed, DriverInv, NEW k \in Controllers, DoStart(k)
    PROVE  Typed' /\ DriverInv'
<1>1. /\ ctl[k] = "paused" /\ Active = {}
      /\ \A j \in Controllers : j # k => ctl[j] = "idle"
  BY DEF DoStart, DriverInv, ControlInv
<1>2. PICK d \in Drivers : /\ driver[d].pc = "off"
                           /\ driver' = [driver EXCEPT ![d].pc = "init"]
                           /\ start' = d
  BY DEF DoStart
<1>3. /\ UNCHANGED <<items, timer, call, awaited, blocks, pauses>>
      /\ ctl' = [ctl EXCEPT ![k] = "idle"]
  BY DEF DoStart
<1>4. /\ driver' \in [Drivers -> DriverType]
      /\ driver'[d].pc = "init" /\ driver'[d].ended = driver[d].ended
      /\ \A x \in Drivers : x # d => driver'[x] = driver[x]
  BY <1>2 DEF Typed, DriverType
<1>5. ~driver[d].ended
  BY <1>2 DEF DriverInv, ControlInv
<1>6. Active' = {d} /\ Attached' = {}
  BY <1>1, <1>4 DEF Active, Attached
<1>7. \A j \in Controllers : ctl'[j] = "idle"
  BY <1>1, <1>3 DEF Typed
<1>8. Typed'
  <2>1. phase' \in {"starting", "up", "closing"}
    BY DEF DoStart, Typed
  <2> QED BY <1>2, <1>3, <1>4, <2>1 DEF Typed
<1>9. ControlInv'
  <2>1. ctl'[Main] = "idle"
    BY <1>7 DEF Controllers
  <2> QED BY <1>2, <1>4, <1>5, <1>6, <1>7, <2>1 DEF DriverInv, ControlInv
<1>10. RoomInv'
  BY <1>3, <1>4, <1>5, <1>6 DEF DriverInv, RoomInv
<1>11. TimerInv' /\ LatestBlockFirst'
  BY <1>3, <1>6 DEF DriverInv, TimerInv, LatestBlockFirst
<1> QED BY <1>8, <1>9, <1>10, <1>11 DEF DriverInv

-----------------------------------------------------------------------------
(* The theorems. *)

LEMMA DriverStep ==
    ASSUME SingleResetter, Typed, DriverInv, [Next]_vars
    PROVE  Typed' /\ DriverInv'
<1>1. CASE Writer
  BY <1>1, WriterStep
<1>2. ASSUME NEW d \in Drivers, Initialized(d) \/ Handled(d) \/ Ended(d)
      PROVE  Typed' /\ DriverInv'
  BY <1>2, RunningStep
<1>3. ASSUME NEW d \in Drivers, Throw(d)
      PROVE  Typed' /\ DriverInv'
  BY <1>3, ThrowStep
<1>4. ASSUME NEW k \in Controllers, Pause(k)
      PROVE  Typed' /\ DriverInv'
  BY <1>4, PauseStep
<1>5. ASSUME NEW k \in Controllers, Paused(k)
      PROVE  Typed' /\ DriverInv'
  BY <1>5, PausedStep
<1>6. ASSUME NEW k \in Controllers, PauseThrows(k)
      PROVE  Typed' /\ DriverInv'
  BY <1>6, ControllerStep DEF PauseThrows, queues
<1>7. ASSUME NEW k \in Controllers, DoStart(k)
      PROVE  Typed' /\ DriverInv'
  BY <1>7, DoStartStep
<1>8. ASSUME NEW k \in Resetters, ResetThrows(k)
      PROVE  Typed' /\ DriverInv'
  <2>1. k \in Controllers
    BY DEF Controllers
  <2> QED BY <1>8, <2>1, ControllerStep DEF ResetThrows, queues
<1>9. CASE UNCHANGED vars
  BY <1>9 DEF vars, control, Typed, DriverInv, ControlInv, RoomInv, TimerInv,
     LatestBlockFirst, Active, Attached, HasTimer
<1> QED
  BY <1>1, <1>2, <1>3, <1>4, <1>5, <1>6, <1>7, <1>8, <1>9 DEF Next, Writer

\* The invariant of the driver: RoomInv and ControlInv hold each other up, for
\* a loop whose queue a pause has ended must not arm a timer before it is gone.
THEOREM DriverCorrect ==
    ASSUME SingleResetter
    PROVE  Spec => [](Typed /\ DriverInv)
<1>1. Init => Typed /\ DriverInv
  BY InitHolds
<1>2. Typed /\ DriverInv /\ [Next]_vars => (Typed /\ DriverInv)'
  BY SingleResetter, DriverStep
<1> QED BY <1>1, <1>2, PTL DEF Spec

\* Every variable has its type, and the queue its bound: a timer never fires
\* into a queue without room.
THEOREM TypeCorrect ==
    ASSUME SingleResetter
    PROVE  Spec => []TypeOK
<1>1. Typed /\ DriverInv => TypeOK
  BY DEF Typed, DriverInv, RoomInv, TypeOK, DriverType
<1> QED BY <1>1, DriverCorrect, PTL

\* With one handler of reset, one loop at a time steers the consensus context,
\* wherever the pause met the loop and whatever threw.
THEOREM OneDriverCorrect ==
    ASSUME SingleResetter
    PROVE  Spec => []OneDriver
<1>1. DriverInv => OneDriver
  BY DEF DriverInv, ControlInv, Active, OneDriver
<1> QED BY <1>1, DriverCorrect, PTL

\* No event from before a block waits behind that block's event.
THEOREM LatestBlockFirstCorrect ==
    ASSUME SingleResetter
    PROVE  Spec => []LatestBlockFirst
<1>1. DriverInv => LatestBlockFirst
  BY DEF DriverInv
<1> QED BY <1>1, DriverCorrect, PTL

\* A loop of a private network that waits for an event has its timer armed.
THEOREM TimerKeptCorrect ==
    ASSUME SingleResetter
    PROVE  Spec => []TimerKept
<1>1. DriverInv => TimerKept
  BY DEF DriverInv, TimerInv, Listeners, TimerKept
<1> QED BY <1>1, DriverCorrect, PTL
=============================================================================
