---------------------------- MODULE InputService ----------------------------
(***************************************************************************)
(* The input service: contacts and encoders raise interrupts, the service  *)
(* thread debounces the contacts, starts and stops a periodic timer per    *)
(* contact and publishes Press, Short and Release, while the timer task    *)
(* publishes Long and Repeat.  Publishing holds the mutex of the pubsub    *)
(* and puts the event in the queue of the GUI, where it blocks while the   *)
(* queue is full.                                                          *)
(*                                                                         *)
(* The timer task has a lower priority than the service thread: it runs    *)
(* only while that thread is blocked.  Faults are named Fault...           *)
(***************************************************************************)
EXTENDS Integers, Sequences, FiniteSets, SequencesExt

CONSTANTS
    InputPins,       (* input_pins: the keys of the contacts, in scan order *)
    DebounceTicks,   (* INPUT_DEBOUNCE_TICKS                                *)
    LongCounts,      (* INPUT_LONG_PRESS_COUNTS                             *)
    QueueSize,       (* capacity of the GUI's input queue                   *)
    Deltas,          (* bound: counts of an encoder between two interrupts  *)
    MaxEdges,        (* bound: level changes and encoder interrupts         *)
    CounterRange,    (* the counters of the encoders wrap at it             *)
    MaxExpiries      (* bound: expiries of the press timers                 *)

ASSUME InputAssumption ==
    /\ InputPins \in Seq(ToSet(InputPins))
    /\ \A i, j \in 1 .. Len(InputPins) : InputPins[i] = InputPins[j] => i = j
    /\ ToSet(InputPins) \cap {"Up", "Down", "Left", "Right"} = {}
    /\ DebounceTicks \in Nat \ {0, 1} /\ LongCounts \in Nat \ {0, 1}
    /\ QueueSize \in Nat \ {0} /\ CounterRange \in Nat /\ CounterRange > 2
    /\ \A d \in Deltas : d \in Int /\ 2 * d < CounterRange /\ 2 * d >= -CounterRange
    /\ MaxEdges \in Nat /\ MaxExpiries \in Nat

VARIABLES
    level,       (* levels of the contacts                                  *)
    isrFlag,     (* INPUT_THREAD_FLAG_ISR of the service thread             *)
    state,       (* pin_states[].state                                      *)
    debounce,    (* pin_states[].debounce                                   *)
    pressCount,  (* pin_states[].press_counter                              *)
    seq,         (* pin_states[].counter; not initialised until a press     *)
    counter,     (* the next sequence counter                               *)
    counted,     (* last_counter of each encoder                            *)
    accumulator, (* counts that do not make a step yet                      *)
    steps,       (* steps each encoder has accumulated                      *)
    taken,       (* steps the thread took and has yet to publish            *)
    pc,          (* program counter of the service thread                   *)
    todo,        (* contacts the running pass has yet to scan               *)
    changing,    (* is_changing                                             *)
    outbox,      (* events the thread is about to publish, in order         *)
    commands,    (* command queue of the timer task                         *)
    active,      (* contacts whose press timer is active                    *)
    timer,       (* the event the timer task is publishing, if any          *)
    holder,      (* holder of the mutex of the pubsub                       *)
    queue        (* the GUI's input queue                                   *)

(* History: the last event of each key, presses, what happened outside.     *)
VARIABLES last, used, boot, edges, turned, shown, expiries

contacts == <<state, debounce, pressCount, seq, counter>>
thread == <<pc, todo, changing, outbox>>
timers == <<commands, active, timer>>
bus == <<holder, queue, last, used, shown>>
encoders == <<counted, accumulator, steps, taken>>
outside == <<level, isrFlag, encoders, edges, turned>>
vars == <<contacts, thread, timers, bus, outside, boot, expiries>>
-----------------------------------------------------------------------------
Pins == ToSet(InputPins)
Axes == {"vertical", "horizontal"}
KeyOf(a, positive) ==
    CASE a = "vertical" /\ positive -> "Down"     [] a = "vertical" /\ ~positive -> "Up"
      [] a = "horizontal" /\ positive -> "Right"  [] a = "horizontal" /\ ~positive -> "Left"
EncoderKeys == {"Up", "Down", "Left", "Right"}
Keys == Pins \cup EncoderKeys
Event == [key : Keys, type : {"Press", "Release", "Short", "Long", "Repeat"}, seq : Nat]
Silent == [type |-> "None", seq |-> 0]
NoEvent == [key |-> "none", type |-> "None", seq |-> 0]

Abs(n) == IF n < 0 THEN -n ELSE n

(* input_publish_synthetic_key: the three events of a step.                 *)
Click(k, n) == <<[key |-> k, type |-> "Press", seq |-> n],
                 [key |-> k, type |-> "Short", seq |-> n],
                 [key |-> k, type |-> "Release", seq |-> n]>>

(* The debounce counter after a pass that read v, and when it has settled.  *)
Counted(d, v) == IF v THEN (IF d < DebounceTicks THEN d + 1 ELSE d)
                      ELSE (IF d > 0 THEN d - 1 ELSE d)
Bouncing(d) == d > 0 /\ d < DebounceTicks

(* The stack array pin_states is filled, but for its counters: a contact    *)
(* held at boot has any sequence counter until it is pressed again.         *)
Init ==
    /\ level \in [Pins -> BOOLEAN] /\ state = level
    /\ boot = {k \in Pins : level[k]}
    /\ debounce = [k \in Pins |-> DebounceTicks \div 2]
    /\ pressCount = [k \in Pins |-> 0] /\ counter = 1
    /\ seq \in {f \in [Pins -> 0 .. 1] : \A k \in Pins \ boot : f[k] = 0}
    /\ isrFlag = FALSE /\ steps = [a \in Axes |-> 0] /\ taken = [a \in Axes |-> 0]
    /\ counted = [a \in Axes |-> 0] /\ accumulator = [a \in Axes |-> 0]
    /\ pc = "scan" /\ todo = InputPins /\ changing = FALSE /\ outbox = <<>>
    /\ commands = <<>> /\ active = {} /\ timer = NoEvent
    /\ holder = "free" /\ queue = <<>>
    /\ last = [k \in Keys |-> Silent] /\ used = {}
    /\ edges = 0 /\ expiries = 0
    /\ turned = [a \in Axes |-> 0] /\ shown = [a \in Axes |-> 0]
-----------------------------------------------------------------------------
(* input_isr, on an edge of a contact and from the encoder's interrupt.     *)
Edge(k) ==
    /\ edges < MaxEdges /\ edges' = edges + 1
    /\ level' = [level EXCEPT ![k] = ~@]
    /\ isrFlag' = TRUE
    /\ UNCHANGED <<contacts, thread, timers, bus, encoders, turned, boot, expiries>>

(* The counts since the last interrupt, as a signed number of the width of  *)
(* the counter, and the whole steps in a sum of counts.                     *)
CountsPerStep == 2
FaultDelta(now, before) == (now - before) % CounterRange
Delta(now, before) ==
    LET d == (now - before) % CounterRange
    IN  IF 2 * d < CounterRange THEN d ELSE d - CounterRange
Whole(sum) == IF sum >= 0 THEN sum \div CountsPerStep ELSE -((-sum) \div CountsPerStep)

(* furi_hal_encoder_timer_isr, d counts after the one before.               *)
Turn(a, d) ==
    /\ edges < MaxEdges /\ edges' = edges + 1
    /\ turned' = [turned EXCEPT ![a] = @ + d]
    /\ counted' = [counted EXCEPT ![a] = (@ + d) % CounterRange]
    /\ LET sum == accumulator[a] + Delta(counted'[a], counted[a])
       IN  /\ steps' = [steps EXCEPT ![a] = @ + Whole(sum)]
           /\ accumulator' = [accumulator EXCEPT ![a] = sum - CountsPerStep * Whole(sum)]
    /\ isrFlag' = (isrFlag \/ steps' # steps)
    /\ UNCHANGED <<contacts, thread, timers, bus, taken, level, boot, expiries>>
-----------------------------------------------------------------------------
(* The pass over the contacts.  A press posts the start of its timer before *)
(* its event is published, a release first posts the stop of its timer.     *)
Scan ==
    /\ pc = "scan" /\ todo # <<>>
    /\ LET k == Head(todo)
           d == Counted(debounce[k], level[k])
       IN  /\ debounce' = [debounce EXCEPT ![k] = d]
           /\ changing' = (changing \/ Bouncing(d))
           /\ \/ /\ Bouncing(d) \/ state[k] = level[k]
                 /\ todo' = Tail(todo)
                 /\ UNCHANGED <<pc, state, seq, counter, outbox, commands>>
              \/ /\ ~Bouncing(d) /\ ~state[k] /\ level[k]
                 /\ state' = [state EXCEPT ![k] = TRUE]
                 /\ seq' = [seq EXCEPT ![k] = counter]
                 /\ counter' = counter + 1
                 /\ commands' = Append(commands, <<"start", k>>)
                 /\ outbox' = <<[key |-> k, type |-> "Press", seq |-> counter]>>
                 /\ todo' = Tail(todo)
                 /\ pc' = "publish"
              \/ /\ ~Bouncing(d) /\ state[k] /\ ~level[k]
                 /\ state' = [state EXCEPT ![k] = FALSE]
                 /\ commands' = Append(commands, <<"stop", k>>)
                 /\ pc' = "stopping"
                 /\ UNCHANGED <<seq, counter, outbox, todo>>
    /\ UNCHANGED <<pressCount, active, timer, bus, outside, boot, expiries>>

(* The thread polls, one tick apart, until the timer is not running.        *)
FaultStopped(k) == TRUE
Stopped(k) == k \notin active

Released ==
    /\ pc = "stopping"
    /\ LET k == Head(todo)
           event(t) == [key |-> k, type |-> t, seq |-> seq[k]]
       IN  /\ Stopped(k)
           /\ outbox' = IF pressCount[k] < LongCounts
                        THEN <<event("Short"), event("Release")>> ELSE <<event("Release")>>
           /\ pressCount' = [pressCount EXCEPT ![k] = 0]
    /\ todo' = Tail(todo)
    /\ pc' = "publish"
    /\ UNCHANGED <<state, debounce, seq, counter, changing, timers, bus, outside, boot,
                   expiries>>

(* furi_hal_encoder_get_deltas, in a critical section.                      *)
TakeSteps ==
    /\ pc = "scan" /\ todo = <<>>
    /\ taken' = steps /\ steps' = [a \in Axes |-> 0]
    /\ pc' = "burst"
    /\ UNCHANGED <<contacts, todo, changing, outbox, timers, bus, level, isrFlag, counted,
                   accumulator, edges, turned, boot, expiries>>

(* The loops of input_publish_encoder_delta: the steps of the vertical axis *)
(* first, then those of the other one.                                      *)
Detent(a) ==
    /\ pc = "burst" /\ outbox = <<>>
    /\ taken[a] # 0 /\ (a = "horizontal" => taken["vertical"] = 0)
    /\ outbox' = Click(KeyOf(a, taken[a] > 0), counter)
    /\ counter' = counter + 1
    /\ taken' = [taken EXCEPT ![a] = IF @ > 0 THEN @ - 1 ELSE @ + 1]
    /\ UNCHANGED <<state, debounce, pressCount, seq, pc, todo, changing, timers, bus, level,
                   isrFlag, counted, accumulator, steps, edges, turned, boot, expiries>>

NoDetent ==
    /\ pc = "burst" /\ outbox = <<>> /\ \A a \in Axes : taken[a] = 0
    /\ pc' = "rest"
    /\ UNCHANGED <<contacts, todo, changing, outbox, timers, bus, outside, boot, expiries>>

(* A tick of delay while a contact bounces, else the wait for the flag.     *)
FaultRest ==
    /\ pc = "rest"
    /\ pc' = IF changing THEN "delay" ELSE "sleep"
    /\ isrFlag' = FALSE
    /\ UNCHANGED <<contacts, todo, changing, outbox, timers, bus, level, encoders, edges, turned,
                   boot, expiries>>
Rest ==
    /\ pc = "rest"
    /\ pc' = IF changing THEN "delay" ELSE "sleep"
    /\ UNCHANGED <<contacts, todo, changing, outbox, timers, bus, outside, boot, expiries>>

Pass ==
    /\ \/ pc = "delay" /\ UNCHANGED isrFlag
       \/ pc = "sleep" /\ isrFlag /\ isrFlag' = FALSE
    /\ pc' = "scan" /\ todo' = InputPins /\ changing' = FALSE
    /\ UNCHANGED <<contacts, outbox, timers, bus, level, encoders, edges, turned, boot,
                   expiries>>
-----------------------------------------------------------------------------
(* furi_pubsub_publish to the GUI, which puts in its queue while the mutex  *)
(* of the pubsub is held.                                                   *)
Publishing == pc \in {"publish", "burst"} /\ outbox # <<>>

Put(e) ==
    /\ Len(queue) < QueueSize
    /\ queue' = Append(queue, e)
    /\ last' = [last EXCEPT ![e.key] = [type |-> e.type, seq |-> e.seq]]
    /\ used' = IF e.type = "Press" THEN used \cup {e.seq} ELSE used
    /\ shown' = [a \in Axes |->
                    CASE e.type = "Press" /\ e.key = KeyOf(a, TRUE) -> shown[a] + 1
                      [] e.type = "Press" /\ e.key = KeyOf(a, FALSE) -> shown[a] - 1
                      [] OTHER -> shown[a]]
    /\ holder' = "free"

PubLock ==
    /\ Publishing /\ holder = "free"
    /\ holder' = "thread"
    /\ UNCHANGED <<contacts, thread, timers, queue, last, used, shown, outside, boot, expiries>>

PubPut ==
    /\ Publishing /\ holder = "thread"
    /\ Put(Head(outbox))
    /\ outbox' = Tail(outbox)
    /\ pc' = IF pc = "publish" /\ Tail(outbox) = <<>> THEN "scan" ELSE pc
    /\ UNCHANGED <<contacts, todo, changing, timers, outside, boot, expiries>>

GuiTake ==
    /\ queue # <<>> /\ queue' = Tail(queue)
    /\ UNCHANGED <<contacts, thread, timers, holder, last, used, shown, outside, boot, expiries>>
-----------------------------------------------------------------------------
(* The timer task runs while the service thread is blocked.                 *)
ThreadBlocked ==
    \/ pc \in {"delay", "stopping"}
    \/ pc = "sleep" /\ ~isrFlag
    \/ Publishing /\ \/ holder = "timer"
                     \/ holder = "thread" /\ Len(queue) = QueueSize

(* It handles every command that waits before it looks at the timers again: *)
(* the last one for a timer decides.                                        *)
WillRun(k) ==
    LET after(i) == \A j \in i .. Len(commands) : commands[j][2] # k
    IN  \/ k \in active /\ after(1)
        \/ \E i \in 1 .. Len(commands) : commands[i] = <<"start", k>> /\ after(i + 1)
Commands ==
    /\ ThreadBlocked /\ timer = NoEvent /\ commands # <<>>
    /\ active' = {k \in Pins : WillRun(k)}
    /\ commands' = <<>>
    /\ UNCHANGED <<contacts, thread, timer, bus, outside, boot, expiries>>

(* input_press_timer_callback, every INPUT_PRESS_TICKS of a press.          *)
Expire(k) ==
    /\ expiries < MaxExpiries /\ expiries' = expiries + 1
    /\ ThreadBlocked /\ timer = NoEvent /\ k \in active
    /\ LET n == pressCount[k] + 1
           event(t) == [key |-> k, type |-> t, seq |-> seq[k]]
       IN  /\ pressCount' = [pressCount EXCEPT ![k] = IF n > LongCounts THEN n - 1 ELSE n]
           /\ timer' = CASE n < LongCounts -> NoEvent
                         [] n = LongCounts -> event("Long")
                         [] n > LongCounts -> event("Repeat")
    /\ UNCHANGED <<state, debounce, seq, counter, thread, commands, active, bus, outside, boot>>

TimerLock ==
    /\ ThreadBlocked /\ timer # NoEvent /\ holder = "free"
    /\ holder' = "timer"
    /\ UNCHANGED <<contacts, thread, timers, queue, last, used, shown, outside, boot, expiries>>

TimerPut ==
    /\ ThreadBlocked /\ holder = "timer"
    /\ Put(timer)
    /\ timer' = NoEvent
    /\ UNCHANGED <<contacts, thread, commands, active, outside, boot, expiries>>
-----------------------------------------------------------------------------
Service ==
    \/ Scan \/ Released \/ TakeSteps \/ NoDetent \/ Rest \/ Pass \/ PubLock \/ PubPut
    \/ \E a \in Axes : Detent(a)
TimerTask == Commands \/ TimerLock \/ TimerPut
Next ==
    \/ Service \/ TimerTask \/ GuiTake
    \/ \E k \in Pins : Edge(k) \/ Expire(k)
    \/ \E a \in Axes, d \in Deltas : Turn(a, d)

Spec == Init /\ [][Next]_vars
FairSpec == Spec /\ WF_vars(Service) /\ WF_vars(TimerTask) /\ WF_vars(GuiTake)
-----------------------------------------------------------------------------
TypeOK ==
    /\ level \in [Pins -> BOOLEAN] /\ isrFlag \in BOOLEAN /\ state \in [Pins -> BOOLEAN]
    /\ debounce \in [Pins -> 0 .. DebounceTicks]
    /\ pressCount \in [Pins -> 0 .. LongCounts] /\ seq \in [Pins -> Nat] /\ counter \in Nat
    /\ steps \in [Axes -> Int] /\ taken \in [Axes -> Int] /\ counted \in [Axes -> 0 .. CounterRange - 1]
    /\ accumulator \in [Axes -> -1 .. 1]
    /\ pc \in {"scan", "stopping", "publish", "burst", "rest", "delay", "sleep"}
    /\ todo \in Seq(Pins) /\ changing \in BOOLEAN /\ outbox \in Seq(Event)
    /\ commands \in Seq({"start", "stop"} \X Pins) /\ active \subseteq Pins
    /\ timer \in Event \cup {NoEvent}
    /\ holder \in {"free", "thread", "timer"}
    /\ queue \in Seq(Event) /\ Len(queue) <= QueueSize

(* However contacts bounce and the two threads race for the mutex, events   *)
(* of a key reach the GUI in the order of one press: the timer is silent    *)
(* once the release is published, and no counter serves two presses.        *)
Protocol == INSTANCE KeyProtocol
ImplementsKeyProtocol == Protocol!Spec

(* The service never sleeps on a contact it has not settled, as an edge     *)
(* that comes after its pin was read wakes it again, nor on steps of the    *)
(* encoders: each two counts in a direction were shown as one press, across *)
(* the wrap of the counter.                                                 *)
Asleep == pc = "sleep" /\ ~isrFlag
NothingMissed ==
    /\ TypeOK
    /\ Asleep => /\ state = level
                 /\ \A a \in Axes : turned[a] = CountsPerStep * shown[a] + accumulator[a]

(* Once the contacts rest, what the events say of each key is what the      *)
(* contact says, for ever.                                                  *)
Reported(k) == IF last[k].type = "None" THEN k \in boot ELSE last[k].type # "Release"
ReportsSettle == <>[](\A k \in Pins : Reported(k) = level[k])
=============================================================================
