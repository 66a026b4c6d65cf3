---------------------------- MODULE ConsensusDriver ----------------------------
(***************************************************************************)
(* Consensus and ConsensusQueue of packages/neo-one-node-consensus: one     *)
(* loop reads events from a queue and hands them to the dBFT handlers.      *)
(* Around it are the timer that makes consensus run, the RPC method         *)
(* runconsensusnow, which waits for the event it writes, and pause and      *)
(* resume, which replace the queue while the loop may be anywhere.          *)
(*                                                                          *)
(* What a handler does to the consensus context is left out: of its result  *)
(* only timerMS matters to the driver.                                      *)
(***************************************************************************)
EXTENDS Integers, Sequences

CONSTANTS
    PrivateNet,     \* options.privateNet
    Callers,        \* calls of runconsensusnow in flight at one time
    Resetters,      \* handlers of the RPC method "reset"
    Main,           \* startFullNode, which starts and disposes the node
    Drivers,        \* room for invocations of startInternal
    Throws,         \* the events whose handler may throw, "init" for the
                    \* first context, "reset" for the rest of a reset
    MaxItems,       \* bound: events waiting in the queue
    MaxBlocks,      \* bound: onPersistBlock calls
    MaxPauses,      \* bound: resets
    Nobody          \* no promise, no driver

Controllers == Resetters \cup {Main}
Types == {"persist", "payload", "transaction", "timer"}

ASSUME DriverAssumption ==
    /\ PrivateNet \in BOOLEAN
    /\ Main \notin Resetters
    /\ Throws \subseteq Types \cup {"init", "reset"}
    /\ MaxItems \in Nat \ {0, 1}
    /\ MaxBlocks \in Nat
    /\ MaxPauses \in Nat
    /\ Nobody \notin Callers \cup Drivers

Events == [type : Types, call : Callers \cup {Nobody}]
Event(type) == [type |-> type, call |-> Nobody]
NoEvent == [type |-> "none", call |-> Nobody]

VARIABLES
    items,          \* mutableItems of the current mutableQueue
    timer,          \* mutableTimer is armed
    start,          \* the driver of mutableStartPromise, or Nobody
    driver,         \* each invocation of startInternal
    call,           \* each runConsensusNow promise
    ctl,            \* where each controller stands
    awaited,        \* the driver a pausing controller waits for
    phase,          \* "starting", "up" or "closing"
    blocks, pauses  \* counters for the bounds

queues == <<items, driver>>
control == <<ctl, awaited, phase, blocks, pauses>>
vars == <<items, timer, start, driver, call, control>>

Off == [pc |-> "off", event |-> NoEvent, ended |-> FALSE]

Init ==
    /\ items = <<>>
    /\ timer = FALSE
    /\ start = Nobody
    /\ driver = [d \in Drivers |-> Off]
    /\ call = [c \in Callers |-> "idle"]
    /\ ctl = [k \in Controllers |-> IF k = Main THEN "paused" ELSE "idle"]
    /\ awaited = [k \in Controllers |-> Nobody]
    /\ phase = "starting"
    /\ blocks = 0
    /\ pauses = 0

-----------------------------------------------------------------------------
(* ConsensusQueue. *)

HasTimer == \E i \in DOMAIN items : items[i].type = "timer"

\* Defect: a block's event is queued behind the events it makes obsolete.
QueuedBehind(e) == Append(items, e)

\* write: a persisted block makes the queued events obsolete; of them only the
\* wish that consensus runs is kept, as a new event.
Queued(e) ==
    IF e.type # "persist" THEN Append(items, e)
    ELSE IF HasTimer THEN <<e, Event("timer")>> ELSE <<e>>

\* The drivers that iterate the current queue, and those waiting in next().
Attached == {d \in Drivers :
                driver[d].pc \in {"waiting", "handling"} /\ ~driver[d].ended}
Listeners == {d \in Attached : driver[d].pc = "waiting"}

Handle(d, e) ==
    driver' = [driver EXCEPT ![d].pc = "handling", ![d].event = e]

\* push: a waiting next() gets the event, else it is stored.
Write(e) ==
    \/ /\ \E d \in Listeners : Handle(d, e)
       /\ UNCHANGED items
    \/ /\ Listeners = {}
       /\ items' = Queued(e)
       /\ UNCHANGED driver

Room == Len(items) < MaxItems

-----------------------------------------------------------------------------
(* The writers. *)

OnPersistBlock ==
    /\ blocks < MaxBlocks
    /\ blocks' = blocks + 1
    /\ Write(Event("persist"))
    /\ UNCHANGED <<timer, start, call, ctl, awaited, phase, pauses>>

OnPayload ==
    /\ Room
    /\ Write(Event("payload"))
    /\ UNCHANGED <<timer, start, call, control>>

OnTransaction ==
    /\ Room
    /\ Write(Event("transaction"))
    /\ UNCHANGED <<timer, start, call, control>>

TimerFires ==
    /\ timer
    /\ timer' = FALSE
    /\ Write(Event("timer"))
    /\ UNCHANGED <<start, call, control>>

\* On a public network runConsensusNow throws before it touches the queue.
RunConsensusNow(c) ==
    /\ phase = "up"
    /\ call[c] # "pending"
    /\ IF PrivateNet
       THEN /\ Room
            /\ Write([type |-> "timer", call |-> c])
            /\ call' = [call EXCEPT ![c] = "pending"]
       ELSE /\ call' = [call EXCEPT ![c] = "rejected"]
            /\ UNCHANGED queues
    /\ UNCHANGED <<timer, start, control>>

-----------------------------------------------------------------------------
(* startInternal: the initial context, then the loop over the queue. *)

\* Defect: the run on the timer does not ask for the next one.
RearmsOnBlock(type) == IF type = "persist" THEN {TRUE} ELSE {FALSE}

\* Whether the result of a handler has a timerMS: a new height or view does,
\* and so does every run of a private network; runConsensus on a public one
\* drops it.  Payloads and transactions may change the view.
Rearms(type) ==
    CASE type = "persist" -> {TRUE}
      [] type = "timer" -> {PrivateNet}
      [] OTHER -> {TRUE, FALSE}

\* The next event of d's queue: an ended queue is empty, and ends the loop.
NextEvent(d) ==
    \/ /\ driver[d].ended
       /\ driver' = [driver EXCEPT ![d] = Off]
       /\ start' = Nobody
       /\ UNCHANGED items
    \/ /\ ~driver[d].ended /\ items # <<>>
       /\ Handle(d, Head(items))
       /\ items' = Tail(items)
       /\ UNCHANGED start
    \/ /\ ~driver[d].ended /\ items = <<>>
       /\ driver' = [driver EXCEPT ![d].pc = "waiting", ![d].event = NoEvent]
       /\ UNCHANGED <<items, start>>

\* The first context is ready: the timer is set, and the loop begins on
\* whichever queue is the current one by now.
Initialized(d) ==
    /\ driver[d].pc = "init"
    /\ timer' = TRUE
    /\ NextEvent(d)
    /\ UNCHANGED <<call, control>>

Settle(d, outcome) ==
    call' = [c \in Callers |->
                IF c = driver[d].event.call THEN outcome ELSE call[c]]

Handled(d) ==
    /\ driver[d].pc = "handling"
    /\ \E rearm \in Rearms(driver[d].event.type) : timer' = (timer \/ rearm)
    /\ Settle(d, "resolved")
    /\ NextEvent(d)
    /\ UNCHANGED control

\* Defect: done() forgets the reader that waits in next().
NeverWoken(d) == FALSE

Woken(d) == driver[d].ended

\* done() resolves the waiting next(), and the loop ends.
Ended(d) ==
    /\ driver[d].pc = "waiting"
    /\ Woken(d)
    /\ NextEvent(d)
    /\ UNCHANGED <<timer, call, control>>

\* A handler throws: the promise of startInternal rejects and stays
\* mutableStartPromise.
Throw(d) ==
    /\ \/ driver[d].pc = "init" /\ "init" \in Throws
       \/ driver[d].pc = "handling" /\ driver[d].event.type \in Throws
    /\ Settle(d, "rejected")
    /\ driver' = [driver EXCEPT ![d] = [Off EXCEPT !.pc = "failed"]]
    /\ UNCHANGED <<items, timer, start, control>>

-----------------------------------------------------------------------------
(* start, pause and resume. *)

\* Defect: pause goes on while the loop still handles an event.
AwaitsNothing == Nobody

StartPromise == start

\* pause up to its await.  Main disposes the node when the RPC server has
\* closed, so with no call and no reset in progress.
Pause(k) ==
    /\ phase = "up"
    /\ ctl[k] = "idle"
    /\ \/ k \in Resetters /\ pauses < MaxPauses
       \/ /\ k = Main
          /\ \A j \in Resetters : ctl[j] = "idle"
          /\ \A c \in Callers : call[c] # "pending"
    /\ phase' = IF k = Main THEN "closing" ELSE phase
    /\ pauses' = IF k = Main THEN pauses ELSE pauses + 1
    /\ timer' = FALSE
    /\ items' = <<>>
    /\ driver' = [d \in Drivers |->
                     IF d \in Attached THEN [driver[d] EXCEPT !.ended = TRUE]
                     ELSE driver[d]]
    /\ awaited' = [awaited EXCEPT ![k] = StartPromise]
    /\ ctl' = [ctl EXCEPT ![k] = "pausing"]
    /\ UNCHANGED <<start, call, blocks>>

\* The awaited promise resolved: the reset goes on, or the node is disposed.
Paused(k) ==
    /\ ctl[k] = "pausing"
    /\ awaited[k] # Nobody => driver[awaited[k]].pc = "off"
    /\ ctl' = [ctl EXCEPT ![k] = "paused"]
    /\ awaited' = [awaited EXCEPT ![k] = Nobody]
    /\ UNCHANGED <<queues, timer, start, call, phase, blocks, pauses>>

\* It rejected: pause throws, and with it the reset.
PauseThrows(k) ==
    /\ ctl[k] = "pausing"
    /\ awaited[k] # Nobody /\ driver[awaited[k]].pc = "failed"
    /\ ctl' = [ctl EXCEPT ![k] = "idle"]
    /\ awaited' = [awaited EXCEPT ![k] = Nobody]
    /\ UNCHANGED <<queues, timer, start, call, phase, blocks, pauses>>

\* doStart, for the node's start and at the end of a reset.
DoStart(k) ==
    /\ ctl[k] = "paused"
    /\ k = Main => phase = "starting"
    /\ phase' = IF k = Main THEN "up" ELSE phase
    /\ \E d \in Drivers :
          /\ driver[d].pc = "off"
          /\ driver' = [driver EXCEPT ![d].pc = "init"]
          /\ start' = d
    /\ ctl' = [ctl EXCEPT ![k] = "idle"]
    /\ UNCHANGED <<items, timer, call, awaited, blocks, pauses>>

\* The reset of the node or the blockchain throws: resume is never called.
ResetThrows(k) ==
    /\ ctl[k] = "paused"
    /\ "reset" \in Throws
    /\ ctl' = [ctl EXCEPT ![k] = "idle"]
    /\ UNCHANGED <<queues, timer, start, call, awaited, phase, blocks, pauses>>

Next ==
    \/ OnPersistBlock
    \/ OnPayload
    \/ OnTransaction
    \/ TimerFires
    \/ \E c \in Callers : RunConsensusNow(c)
    \/ \E d \in Drivers : Initialized(d)
    \/ \E d \in Drivers : Handled(d)
    \/ \E d \in Drivers : Ended(d)
    \/ \E d \in Drivers : Throw(d)
    \/ \E k \in Controllers : Pause(k)
    \/ \E k \in Controllers : Paused(k)
    \/ \E k \in Controllers : PauseThrows(k)
    \/ \E k \in Controllers : DoStart(k)
    \/ \E k \in Resetters : ResetThrows(k)

\* The event loop runs the continuations of finished I/O and expired timers.
Fairness ==
    /\ WF_vars(TimerFires)
    /\ \A d \in Drivers : WF_vars(Initialized(d) \/ Handled(d) \/ Ended(d))
    /\ \A k \in Controllers : WF_vars(Paused(k) \/ PauseThrows(k))
    /\ \A k \in Controllers : WF_vars(DoStart(k))

Spec == Init /\ [][Next]_vars
FairSpec == Spec /\ Fairness

-----------------------------------------------------------------------------
(* Properties. *)

\* Every variable stays within the values the code can give it, and the queue
\* within the room its writers leave.
TypeOK ==
    /\ items \in Seq(Events) /\ Len(items) <= MaxItems + 1
    /\ timer \in BOOLEAN
    /\ start \in Drivers \cup {Nobody}
    /\ driver \in [Drivers ->
                      [pc : {"off", "init", "waiting", "handling", "failed"},
                       event : Events \cup {NoEvent}, ended : BOOLEAN]]
    /\ call \in [Callers -> {"idle", "pending", "resolved", "rejected"}]
    /\ ctl \in [Controllers -> {"idle", "pausing", "paused"}]
    /\ awaited \in [Controllers -> Drivers \cup {Nobody}]
    /\ phase \in {"starting", "up", "closing"}
    /\ blocks \in 0..MaxBlocks
    /\ pauses \in 0..MaxPauses

\* One loop at a time steers the consensus context, though a reset may come
\* while a handler runs or while the first context is still being built.
OneDriver ==
    \A d, e \in Drivers :
        /\ driver[d].pc \in {"init", "waiting", "handling"}
        /\ driver[e].pc \in {"init", "waiting", "handling"}
        => d = e

\* No event from before a block is handled after that block's event.
LatestBlockFirst ==
    \A i \in DOMAIN items : items[i].type = "persist" => i = 1

\* A driver that waits for events on a private network has its timer set: it
\* never waits for somebody else to make consensus run.
TimerKept == PrivateNet /\ Listeners # {} => timer

\* The loop of a private network runs consensus again and again, until it is
\* paused or a handler throws.
KeepsRunning ==
    PrivateNet =>
        []<>(\/ Attached = {}
             \/ \E d \in Attached : driver[d].event.type = "timer")

\* A pause that ended the loop's queue returns, whether the loop was waiting
\* for an event or in the middle of one.
PauseEnds ==
    \A k \in Controllers :
        /\ ctl[k] = "pausing"
        /\ awaited[k] # Nobody
        /\ driver[awaited[k]].ended
        ~> ctl[k] # "pausing"

\* "Reset the local network to it's initial state starting at the genesis
\* block" (client-core/src/DeveloperClient.ts): the pause a reset begins with
\* returns, so that the reset takes place.
PauseReturns ==
    \A k \in Resetters : ctl[k] = "pausing" ~> ctl[k] # "pausing"

\* "Trigger consensus to run immediately" (client-common/src/types.ts): a call
\* of runConsensusNow is answered.
RunNowAnswered == \A c \in Callers : call[c] = "pending" ~> call[c] # "pending"

=============================================================================
