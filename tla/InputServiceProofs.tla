------------------------- MODULE InputServiceProofs -------------------------
(***************************************************************************)
(* The input service keeps, for every number of contacts, every debounce,  *)
(* every capacity of the GUI's queue and every width of the counters, what *)
(* TLC checks of InputService on two contacts: it implements the protocol  *)
(* of one key, and it never sleeps on an edge or a step.                   *)
(*                                                                         *)
(* The timer task takes no part in the protocol of a key whose timer is    *)
(* not active, and a timer is active only while its contact is held or     *)
(* its release waits for the timer to stop (TimerOf).  What each key has   *)
(* shown follows from what the service thread still has to publish of it   *)
(* (Shown, ShownOfEncoder).                                                *)
(***************************************************************************)
EXTENDS InputService, SequenceTheorems, TLAPS

Types == {"Press", "Release", "Short", "Long", "Repeat"}

(* The event the thread publishes next is about the key, or the thread waits*)
(* until the timer of the contact has stopped.                              *)
Pending(k) == outbox # <<>> /\ Head(outbox).key = k
Stopping(k) == pc = "stopping" /\ todo # <<>> /\ Head(todo) = k
Announces(k) == timer # NoEvent /\ timer.key = k

HistoryOK ==
    /\ last \in [Keys -> [type : Types \cup {"None"}, seq : Nat]]
    /\ boot \subseteq Pins /\ used \subseteq Nat
    /\ shown \in [Axes -> Int] /\ turned \in [Axes -> Int]
    /\ expiries \in Nat /\ edges \in Nat

(* What the thread has to publish: nothing, or the rest of one press.       *)
RestOf(e) == CASE e.type = "Press" /\ pc = "burst" ->
                      <<e, [e EXCEPT !.type = "Short"], [e EXCEPT !.type = "Release"]>>
               [] e.type = "Short" -> <<e, [e EXCEPT !.type = "Release"]>>
               [] OTHER -> <<e>>
OutboxOK ==
    /\ pc = "publish" => outbox # <<>>
    /\ pc = "stopping" => todo # <<>>
    /\ outbox # <<>> =>
         LET e == Head(outbox)
         IN  /\ pc \in {"publish", "burst"}
             /\ outbox = RestOf(e)
             /\ e.type \in {"Press", "Short", "Release"}
             /\ e.seq < counter \/ e.type # "Press"
             /\ e.type = "Press" => e.seq \notin used
             /\ pc = "burst" => e.key \in EncoderKeys
             /\ pc = "publish" => /\ e.key \in Pins /\ e.seq = seq[e.key]
                                  /\ state[e.key] <=> e.type = "Press"
CountersOK == \A n \in used : n < counter

(* The mutex is held by one that has something to publish, never by the     *)
(* timer task while the thread publishes an event of the same key.          *)
MutexOK ==
    /\ holder = "thread" => Publishing
    /\ holder = "timer" => timer # NoEvent /\ ~ Pending(timer.key)
    /\ timer # NoEvent => timer.key \in Pins

(* The timer of a contact.                                                  *)
TimerOf(k) ==
    /\ WillRun(k) => state[k]
    /\ k \in active => state[k] \/ Stopping(k)
    /\ Stopping(k) => ~ state[k]
    /\ ~ state[k] /\ ~ Stopping(k) => pressCount[k] = 0
    /\ Announces(k) => /\ k \in active /\ timer.seq = seq[k] /\ pressCount[k] = LongCounts
                       /\ timer.type \in {"Long", "Repeat"}

(* What has been shown of a contact, or is about to be.                     *)
Due(k, t) == Pending(k) /\ Head(outbox).type = t
Says(k, t) == IF Due(k, "Press") THEN t = "Press" ELSE last[k].type = t
Counts(k) ==
    /\ Says(k, "Press") /\ ~ Announces(k) => pressCount[k] < LongCounts
    /\ Says(k, "Long") \/ Says(k, "Repeat") => pressCount[k] = LongCounts
    /\ Announces(k) => (timer.type = "Long" <=> Says(k, "Press"))
Untimed(k) == k \in boot /\ k \notin active /\ ~ WillRun(k) /\ pressCount[k] = 0
Shown(k) ==
    /\ Due(k, "Press") => last[k].type \in {"None", "Release"} /\ Counts(k)
    /\ Due(k, "Short") =>
          \/ last[k].type = "Press" /\ last[k].seq = seq[k]
          \/ last[k].type = "None" /\ k \in boot
    /\ Due(k, "Release") => last[k].type \in {"Short", "Long", "Repeat"} /\ last[k].seq = seq[k]
    /\ ~ Pending(k) /\ (state[k] \/ Stopping(k)) =>
          \/ last[k].type \in {"Press", "Long", "Repeat"} /\ last[k].seq = seq[k] /\ Counts(k)
          \/ last[k].type = "None" /\ Untimed(k)
    /\ ~ Pending(k) /\ ~ state[k] /\ ~ Stopping(k) => last[k].type \in {"None", "Release"}

(* What has been shown of a direction of an encoder.                        *)
ShownOfEncoder(k) ==
    /\ Due(k, "Short") => last[k] = [type |-> "Press", seq |-> Head(outbox).seq]
    /\ Due(k, "Release") => last[k] = [type |-> "Short", seq |-> Head(outbox).seq]
    /\ ~ Due(k, "Short") /\ ~ Due(k, "Release") => last[k].type \in {"None", "Release"}

ProtocolInv ==
    /\ OutboxOK /\ CountersOK /\ MutexOK
    /\ \A k \in Pins : TimerOf(k) /\ Shown(k)
    /\ \A k \in EncoderKeys : ShownOfEncoder(k)

(* A contact that disagrees with its state is one the pass has yet to read, *)
(* or one whose change brings another pass.                                 *)
Unread(k) == /\ pc \in {"scan", "stopping", "publish"} /\ \E i \in 1 .. Len(todo) : todo[i] = k
             /\ ~ Stopping(k)
SettleInv ==
    /\ \A k \in Pins : state[k] # level[k] =>
          isrFlag \/ pc = "delay" \/ (changing /\ pc # "sleep") \/ Unread(k)
    /\ pc \in {"burst", "rest", "delay", "sleep"} => todo = <<>>

(* The counts of an axis are shown, accumulated, or on their way.           *)
Turning(a, positive) == pc = "burst" /\ Due(KeyOf(a, positive), "Press")
OnTheWay(a) == IF Turning(a, TRUE) THEN 1 ELSE IF Turning(a, FALSE) THEN -1 ELSE 0
StepsInv ==
    \A a \in Axes :
       /\ turned[a] = CountsPerStep * (shown[a] + steps[a] + taken[a] + OnTheWay(a))
                      + accumulator[a]
       /\ steps[a] # 0 => isrFlag \/ pc \in {"scan", "stopping", "publish", "delay"}
       /\ taken[a] # 0 => pc = "burst"

InputInv == TypeOK /\ HistoryOK /\ ProtocolInv /\ SettleInv /\ StepsInv
-----------------------------------------------------------------------------
(* The keys of the contacts are not those of the encoders, and each of the  *)
(* four directions has a key of its own.                                    *)
LEMMA KeysApart ==
    /\ InputPins \in Seq(Pins) /\ Pins \subseteq Keys /\ EncoderKeys \subseteq Keys
    /\ \A k \in Pins : k \notin EncoderKeys
    /\ \A k \in Pins : \E i \in 1 .. Len(InputPins) : InputPins[i] = k
    /\ \A a \in Axes, b \in BOOLEAN : KeyOf(a, b) \in EncoderKeys
    /\ \A a, c \in Axes, b, d \in BOOLEAN : KeyOf(a, b) = KeyOf(c, d) => a = c /\ b = d
<1>1. \A k \in Pins : \E i \in 1 .. Len(InputPins) : InputPins[i] = k
  BY InputAssumption DEF Pins, ToSet
<1>2. \A k \in Pins : k \notin EncoderKeys
  BY InputAssumption DEF Pins, EncoderKeys
<1>3. \A a \in Axes, b \in BOOLEAN : KeyOf(a, b) \in EncoderKeys
  BY DEF Axes, KeyOf, EncoderKeys
<1>4. \A a, c \in Axes, b, d \in BOOLEAN : KeyOf(a, b) = KeyOf(c, d) => a = c /\ b = d
  BY DEF Axes, KeyOf
<1>5. QED
  BY <1>1, <1>2, <1>3, <1>4, InputAssumption DEF Pins, Keys

(* What publishing one event does to the queue and to the history.          *)
LEMMA PutEffect ==
    ASSUME TypeOK, HistoryOK, NEW e \in Event, Put(e)
    PROVE  /\ queue' \in Seq(Event) /\ Len(queue') <= QueueSize /\ holder' = "free"
           /\ last' \in [Keys -> [type : Types \cup {"None"}, seq : Nat]]
           /\ \A k \in Keys : last'[k] = IF k = e.key THEN [type |-> e.type, seq |-> e.seq]
                                                      ELSE last[k]
           /\ used' \subseteq Nat
           /\ \A n : n \in used' <=> n \in used \/ (e.type = "Press" /\ n = e.seq)
           /\ shown' \in [Axes -> Int]
           /\ \A a \in Axes : shown'[a] =
                 IF e.type = "Press" /\ e.key = KeyOf(a, TRUE) THEN shown[a] + 1
                 ELSE IF e.type = "Press" /\ e.key = KeyOf(a, FALSE) THEN shown[a] - 1
                 ELSE shown[a]
<1>1. e.key \in Keys /\ e.type \in Types /\ e.seq \in Nat
  BY DEF Event, Types
<1>2. /\ queue' = Append(queue, e) /\ Len(queue) < QueueSize /\ holder' = "free"
      /\ last' = [last EXCEPT ![e.key] = [type |-> e.type, seq |-> e.seq]]
      /\ used' = IF e.type = "Press" THEN used \cup {e.seq} ELSE used
  BY DEF Put
<1>3. queue' \in Seq(Event) /\ Len(queue') <= QueueSize
  <2>1. queue \in Seq(Event) /\ QueueSize \in Nat
    BY InputAssumption DEF TypeOK
  <2>2. QED
    BY <1>2, <2>1
<1>4. /\ last' \in [Keys -> [type : Types \cup {"None"}, seq : Nat]]
      /\ \A k \in Keys : last'[k] = IF k = e.key THEN [type |-> e.type, seq |-> e.seq]
                                                 ELSE last[k]
  BY <1>1, <1>2 DEF HistoryOK
<1>5. used' \subseteq Nat /\ \A n : n \in used' <=> n \in used \/ (e.type = "Press" /\ n = e.seq)
  BY <1>1, <1>2 DEF HistoryOK
<1>6. \A a \in Axes : KeyOf(a, TRUE) # KeyOf(a, FALSE)
  BY DEF Axes, KeyOf
<1>7. shown \in [Axes -> Int]
  BY DEF HistoryOK
<1>8. /\ shown' \in [Axes -> Int]
      /\ \A a \in Axes : shown'[a] =
            IF e.type = "Press" /\ e.key = KeyOf(a, TRUE) THEN shown[a] + 1
            ELSE IF e.type = "Press" /\ e.key = KeyOf(a, FALSE) THEN shown[a] - 1
            ELSE shown[a]
  <2> DEFINE f(a) == CASE e.type = "Press" /\ e.key = KeyOf(a, TRUE) -> shown[a] + 1
                       [] e.type = "Press" /\ e.key = KeyOf(a, FALSE) -> shown[a] - 1
                       [] OTHER -> shown[a]
  <2>1. shown' = [a \in Axes |-> f(a)]
    BY DEF Put
  <2>2. ASSUME NEW a \in Axes
        PROVE  f(a) = IF e.type = "Press" /\ e.key = KeyOf(a, TRUE) THEN shown[a] + 1
                      ELSE IF e.type = "Press" /\ e.key = KeyOf(a, FALSE) THEN shown[a] - 1
                      ELSE shown[a]
    <3>1. KeyOf(a, TRUE) # KeyOf(a, FALSE)
      BY <1>6
    <3> HIDE DEF KeyOf
    <3>2. QED
      BY <3>1
  <2>3. \A a \in Axes : f(a) \in Int
    <3> SUFFICES ASSUME NEW a \in Axes PROVE f(a) \in Int
      OBVIOUS
    <3>1. shown[a] \in Int
      BY <1>7
    <3> DEFINE v == shown[a]
    <3>2. f(a) \in {v, v + 1, v - 1}
      BY <2>2
    <3>3. v \in Int
      BY <3>1
    <3> HIDE DEF f, v
    <3>4. QED
      BY <3>2, <3>3
  <2> HIDE DEF f
  <2>4. shown' \in [Axes -> Int] /\ \A a \in Axes : shown'[a] = f(a)
    BY <2>1, <2>3
  <2>5. QED
    BY <2>2, <2>4
<1>9. QED
  BY <1>2, <1>3, <1>4, <1>5, <1>8

(* The first contact of a pass and those that remain, the event that is     *)
(* published next and those that follow it.                                 *)
LEMMA FirstOf ==
    ASSUME NEW S, NEW s \in Seq(S), s # <<>>
    PROVE  /\ Head(s) \in S /\ Tail(s) \in Seq(S) /\ Head(s) = s[1] /\ Len(s) \in Nat \ {0}
           /\ Len(Tail(s)) = Len(s) - 1 /\ \A i \in 1 .. Len(s) - 1 : Tail(s)[i] = s[i + 1]
<1>1. Len(s) \in Nat \ {0}
  BY EmptySeq
<1>2. QED
  BY <1>1, HeadTailProperties

(* A key, a type and a counter make an event.                               *)
LEMMA AnEvent ==
    ASSUME NEW k \in Keys, NEW t \in Types, NEW n \in Nat
    PROVE  [key |-> k, type |-> t, seq |-> n] \in Event
BY DEF Event, Types

(* Every variable keeps its type, for every step.                           *)
LEMMA TypesStep ==
    ASSUME TypeOK, HistoryOK, OutboxOK, MutexOK, [Next]_vars
    PROVE  TypeOK' /\ HistoryOK'
<1> USE DEF contacts, thread, timers, bus, encoders, outside, vars
<1>1. CASE UNCHANGED vars
  BY <1>1 DEF TypeOK, HistoryOK
<1>2. ASSUME NEW k \in Pins, Edge(k) PROVE TypeOK' /\ HistoryOK'
  BY <1>2 DEF Edge, TypeOK, HistoryOK
<1>3. ASSUME NEW k \in Pins, Expire(k) PROVE TypeOK' /\ HistoryOK'
  <2> DEFINE n == pressCount[k] + 1
             event(t) == [key |-> k, type |-> t, seq |-> seq[k]]
  <2>1. LongCounts \in Nat /\ pressCount[k] \in 0 .. LongCounts /\ n \in Nat
    BY InputAssumption DEF TypeOK
  <2>2. event("Long") \in Event /\ event("Repeat") \in Event
    BY AnEvent, KeysApart DEF TypeOK, Types
  <2>3. timer' \in Event \cup {NoEvent}
    <3>1. timer' = CASE n < LongCounts -> NoEvent [] n = LongCounts -> event("Long")
                     [] n > LongCounts -> event("Repeat")
      BY <1>3 DEF Expire
    <3> HIDE DEF n, event
    <3>2. QED
      BY <2>1, <2>2, <3>1
  <2>4. pressCount' \in [Pins -> 0 .. LongCounts]
    <3>1. pressCount' = [pressCount EXCEPT ![k] = IF n > LongCounts THEN n - 1 ELSE n]
      BY <1>3 DEF Expire
    <3>2. QED
      BY <2>1, <3>1 DEF TypeOK
  <2>5. expiries' \in Nat
    BY <1>3 DEF Expire, HistoryOK
  <2>6. QED
    BY <1>3, <2>3, <2>4, <2>5 DEF Expire, TypeOK, HistoryOK
<1>4. ASSUME NEW a \in Axes, NEW d \in Deltas, Turn(a, d) PROVE TypeOK' /\ HistoryOK'
  <2>1. d \in Int /\ CounterRange \in Nat /\ CounterRange > 2
    BY InputAssumption
  <2>2. counted' \in [Axes -> 0 .. CounterRange - 1] /\ turned' \in [Axes -> Int]
    <3>1. \A x \in Int : x % CounterRange \in 0 .. CounterRange - 1
      BY <2>1
    <3>2. counted[a] + d \in Int /\ turned[a] + d \in Int
      BY <2>1 DEF TypeOK, HistoryOK
    <3>3. QED
      BY <1>4, <3>1, <3>2 DEF Turn, TypeOK, HistoryOK
  <2> DEFINE sum == accumulator[a] + Delta(counted'[a], counted[a])
  <2>3. sum \in Int
    <3>1. \A x \in Int : x % CounterRange \in Int
      BY <2>1
    <3>2. counted'[a] \in Int /\ counted[a] \in Int /\ accumulator[a] \in Int
      BY <2>2 DEF TypeOK
    <3>3. Delta(counted'[a], counted[a]) \in Int
      BY <2>1, <3>1, <3>2 DEF Delta
    <3>4. QED
      BY <3>2, <3>3
  <2>4. Whole(sum) \in Int /\ sum - CountsPerStep * Whole(sum) \in -1 .. 1
    <3> HIDE DEF sum
    <3>1. QED
      BY <2>3 DEF Whole, CountsPerStep
  <2>5. /\ steps' = [steps EXCEPT ![a] = @ + Whole(sum)]
        /\ accumulator' = [accumulator EXCEPT ![a] = sum - CountsPerStep * Whole(sum)]
    BY <1>4 DEF Turn
  <2> HIDE DEF sum
  <2>6. steps' \in [Axes -> Int] /\ accumulator' \in [Axes -> -1 .. 1]
    BY <2>4, <2>5 DEF TypeOK
  <2>7. (steps' # steps) \in BOOLEAN /\ isrFlag' \in BOOLEAN
    BY <1>4 DEF Turn, TypeOK
  <2>8. edges' \in Nat
    BY <1>4 DEF Turn, HistoryOK
  <2>9. UNCHANGED <<contacts, thread, timers, bus, taken, level, boot, expiries>>
    BY <1>4 DEF Turn
  <2>10. QED
    BY <2>2, <2>6, <2>7, <2>8, <2>9 DEF TypeOK, HistoryOK
<1>5. CASE Scan
  <2> DEFINE k == Head(todo)
             d == Counted(debounce[k], level[k])
  <2>1. k \in Pins /\ Tail(todo) \in Seq(Pins)
    BY <1>5, FirstOf DEF Scan, TypeOK
  <2>2. d \in 0 .. DebounceTicks /\ Bouncing(d) \in BOOLEAN
    <3>1. DebounceTicks \in Nat /\ debounce[k] \in 0 .. DebounceTicks
      BY <2>1, InputAssumption DEF TypeOK
    <3>2. QED
      BY <3>1 DEF Counted, Bouncing
  <2>3. debounce' = [debounce EXCEPT ![k] = d] /\ changing' = (changing \/ Bouncing(d))
    BY <1>5 DEF Scan
  <2>4. debounce' \in [Pins -> 0 .. DebounceTicks] /\ changing' \in BOOLEAN
    BY <2>1, <2>2, <2>3 DEF TypeOK
  <2>5. UNCHANGED <<pressCount, active, timer, bus, outside, boot, expiries>>
    BY <1>5 DEF Scan
  <2>6. counter \in Nat /\ counter + 1 \in Nat
    BY DEF TypeOK
  <2>7. /\ state' \in [Pins -> BOOLEAN] /\ seq' \in [Pins -> Nat] /\ counter' \in Nat
        /\ pc' \in {"scan", "stopping", "publish"} /\ todo' \in Seq(Pins)
        /\ outbox' \in Seq(Event) /\ commands' \in Seq({"start", "stop"} \X Pins)
    <3>1. CASE /\ todo' = Tail(todo)
               /\ UNCHANGED <<pc, state, seq, counter, outbox, commands>>
      BY <1>5, <2>1, <3>1 DEF Scan, TypeOK
    <3>2. CASE /\ state' = [state EXCEPT ![k] = TRUE]
               /\ seq' = [seq EXCEPT ![k] = counter]
               /\ counter' = counter + 1
               /\ commands' = Append(commands, <<"start", k>>)
               /\ outbox' = <<[key |-> k, type |-> "Press", seq |-> counter]>>
               /\ todo' = Tail(todo)
               /\ pc' = "publish"
      <4>1. [key |-> k, type |-> "Press", seq |-> counter] \in Event
        BY <2>1, <2>6, AnEvent, KeysApart DEF Types
      <4>2. commands' \in Seq({"start", "stop"} \X Pins)
        <5> HIDE DEF k
        <5>1. QED
          BY <2>1, <3>2 DEF TypeOK
      <4>3. QED
        BY <2>1, <2>6, <3>2, <4>1, <4>2 DEF TypeOK
    <3>3. CASE /\ state' = [state EXCEPT ![k] = FALSE]
               /\ commands' = Append(commands, <<"stop", k>>)
               /\ pc' = "stopping"
               /\ UNCHANGED <<seq, counter, outbox, todo>>
      <4>1. commands' \in Seq({"start", "stop"} \X Pins)
        <5> HIDE DEF k
        <5>1. QED
          BY <2>1, <3>3 DEF TypeOK
      <4>2. QED
        BY <2>1, <3>3, <4>1 DEF TypeOK
    <3>4. QED
      BY <1>5, <3>1, <3>2, <3>3 DEF Scan
  <2>8. QED
    BY <2>4, <2>5, <2>7 DEF TypeOK, HistoryOK
<1>6. CASE Released
  <2> DEFINE k == Head(todo)
             event(t) == [key |-> k, type |-> t, seq |-> seq[k]]
  <2>1. k \in Pins /\ Tail(todo) \in Seq(Pins)
    BY <1>6, FirstOf DEF Released, OutboxOK, TypeOK
  <2>2. event("Short") \in Event /\ event("Release") \in Event
    BY <2>1, AnEvent, KeysApart DEF TypeOK, Types
  <2>3. outbox' \in Seq(Event)
    <3>1. outbox' \in {<<event("Short"), event("Release")>>, <<event("Release")>>}
      BY <1>6 DEF Released
    <3>2. \A e, f \in Event : <<e, f>> \in Seq(Event) /\ <<f>> \in Seq(Event)
      OBVIOUS
    <3> HIDE DEF event
    <3>3. QED
      BY <2>2, <3>1, <3>2
  <2>4. LongCounts \in Nat
    BY InputAssumption
  <2>5. pressCount' \in [Pins -> 0 .. LongCounts]
    BY <1>6, <2>1, <2>4 DEF Released, TypeOK
  <2>6. QED
    BY <1>6, <2>1, <2>3, <2>5 DEF Released, TypeOK, HistoryOK
<1>7. CASE TakeSteps
  BY <1>7 DEF TakeSteps, TypeOK, HistoryOK
<1>8. ASSUME NEW a \in Axes, Detent(a) PROVE TypeOK' /\ HistoryOK'
  <2>1. taken[a] \in Int /\ counter \in Nat
    BY DEF TypeOK
  <2>2. (taken[a] > 0) \in BOOLEAN
    BY <2>1
  <2> DEFINE k == KeyOf(a, taken[a] > 0)
  <2>3. k \in Keys
    BY <2>2, KeysApart
  <2>4. outbox' = Click(k, counter)
    BY <1>8 DEF Detent
  <2>5. outbox' \in Seq(Event)
    <3> HIDE DEF k
    <3>1. /\ [key |-> k, type |-> "Press", seq |-> counter] \in Event
          /\ [key |-> k, type |-> "Short", seq |-> counter] \in Event
          /\ [key |-> k, type |-> "Release", seq |-> counter] \in Event
      BY <2>1, <2>3, AnEvent DEF Types
    <3>2. QED
      BY <2>4, <3>1 DEF Click
  <2>6. taken' \in [Axes -> Int] /\ counter' \in Nat
    BY <1>8, <2>1 DEF Detent, TypeOK
  <2>7. QED
    BY <1>8, <2>5, <2>6 DEF Detent, TypeOK, HistoryOK
<1>9. CASE NoDetent
  BY <1>9 DEF NoDetent, TypeOK, HistoryOK
<1>10. CASE Rest
  BY <1>10 DEF Rest, TypeOK, HistoryOK
<1>11. CASE Pass
  BY <1>11, KeysApart DEF Pass, TypeOK, HistoryOK
<1>12. CASE PubLock
  BY <1>12 DEF PubLock, TypeOK, HistoryOK
<1>13. CASE PubPut
  <2>1. outbox # <<>> /\ Put(Head(outbox)) /\ outbox' = Tail(outbox)
    BY <1>13 DEF PubPut, Publishing
  <2>2. Head(outbox) \in Event /\ Tail(outbox) \in Seq(Event)
    BY <2>1, FirstOf DEF TypeOK
  <2>3. /\ queue' \in Seq(Event) /\ Len(queue') <= QueueSize /\ holder' = "free"
        /\ last' \in [Keys -> [type : Types \cup {"None"}, seq : Nat]] /\ used' \subseteq Nat
        /\ shown' \in [Axes -> Int]
    BY <2>1, <2>2, PutEffect
  <2>4. pc' \in {"scan", pc}
    BY <1>13 DEF PubPut
  <2>5. QED
    BY <1>13, <2>1, <2>2, <2>3, <2>4 DEF PubPut, TypeOK, HistoryOK
<1>14. CASE GuiTake
  <2>1. queue' \in Seq(Event) /\ Len(queue') <= QueueSize
    <3>1. Len(queue) \in Nat /\ Len(queue) <= QueueSize /\ QueueSize \in Nat
      BY InputAssumption DEF TypeOK
    <3>2. queue' \in Seq(Event) /\ Len(queue') = Len(queue) - 1
      BY <1>14, FirstOf DEF GuiTake, TypeOK
    <3>3. QED
      BY <3>1, <3>2
  <2>2. QED
    BY <1>14, <2>1 DEF GuiTake, TypeOK, HistoryOK
<1>15. CASE Commands
  <2>1. active' \subseteq Pins /\ commands' \in Seq({"start", "stop"} \X Pins)
    BY <1>15 DEF Commands
  <2>2. UNCHANGED <<contacts, thread, timer, bus, outside, boot, expiries>>
    BY <1>15 DEF Commands
  <2>3. QED
    BY <2>1, <2>2 DEF TypeOK, HistoryOK
<1>16. CASE TimerLock
  BY <1>16 DEF TimerLock, TypeOK, HistoryOK
<1>17. CASE TimerPut
  <2>1. timer \in Event /\ Put(timer) /\ timer' = NoEvent
    BY <1>17 DEF TimerPut, MutexOK, TypeOK
  <2>2. /\ queue' \in Seq(Event) /\ Len(queue') <= QueueSize /\ holder' = "free"
        /\ last' \in [Keys -> [type : Types \cup {"None"}, seq : Nat]] /\ used' \subseteq Nat
        /\ shown' \in [Axes -> Int]
    BY <2>1, PutEffect
  <2>3. QED
    BY <1>17, <2>1, <2>2 DEF TimerPut, TypeOK, HistoryOK
<1>18. QED
  BY <1>1, <1>2, <1>3, <1>4, <1>5, <1>6, <1>7, <1>8, <1>9, <1>10, <1>11, <1>12, <1>13, <1>14,
     <1>15, <1>16, <1>17 DEF Next, Service, TimerTask
-----------------------------------------------------------------------------
(* The last command posted for a timer decides whether it will run, and the *)
(* timer task makes that true.                                              *)
LEMMA CommandPosted ==
    ASSUME commands \in Seq({"start", "stop"} \X Pins), NEW c \in {"start", "stop"},
           NEW k \in Pins, commands' = Append(commands, <<c, k>>), active' = active
    PROVE  \A j \in Pins : WillRun(j)' <=> IF j = k THEN c = "start" ELSE WillRun(j)
<1> DEFINE l == Len(commands)
           after(j, i) == \A n \in i .. l : commands[n][2] # j
           after1(j, i) == \A n \in i .. l + 1 : commands'[n][2] # j
<1>1. /\ l \in Nat /\ Len(commands') = l + 1 /\ commands'[l + 1] = <<c, k>>
      /\ \A n \in 1 .. l : commands'[n] = commands[n]
  OBVIOUS
<1>2. ASSUME NEW j \in Pins
      PROVE  /\ WillRun(j) <=> \/ j \in active /\ after(j, 1)
                               \/ \E i \in 1 .. l : commands[i] = <<"start", j>> /\ after(j, i + 1)
             /\ WillRun(j)' <=> \/ j \in active /\ after1(j, 1)
                                \/ \E i \in 1 .. l + 1 :
                                      commands'[i] = <<"start", j>> /\ after1(j, i + 1)
  BY <1>1 DEF WillRun
<1>3. ASSUME NEW j \in Pins, j # k, NEW i \in 1 .. l + 1 PROVE after1(j, i) <=> after(j, i)
  BY <1>1, <1>3
<1>4. ASSUME NEW i \in 1 .. l + 1 PROVE ~ after1(k, i)
  BY <1>1
<1>5. after1(k, l + 2)
  BY <1>1
<1>6. ASSUME NEW j \in Pins, j # k PROVE WillRun(j)' <=> WillRun(j)
  <2>1. commands'[l + 1] # <<"start", j>>
    BY <1>1, <1>6
  <2> HIDE DEF after, after1
  <2>2. \A i \in 1 .. l : i + 1 \in 1 .. l + 1
    BY <1>1
  <2>3. (\E i \in 1 .. l + 1 : commands'[i] = <<"start", j>> /\ after1(j, i + 1))
          <=> (\E i \in 1 .. l : commands[i] = <<"start", j>> /\ after(j, i + 1))
    <3>1. ASSUME NEW i \in 1 .. l + 1, commands'[i] = <<"start", j>>, after1(j, i + 1)
          PROVE  \E m \in 1 .. l : commands[m] = <<"start", j>> /\ after(j, m + 1)
      <4>1. i \in 1 .. l
        BY <1>1, <2>1, <3>1
      <4>2. QED
        BY <1>1, <1>3, <1>6, <2>2, <3>1, <4>1
    <3>2. ASSUME NEW i \in 1 .. l, commands[i] = <<"start", j>>, after(j, i + 1)
          PROVE  \E m \in 1 .. l + 1 : commands'[m] = <<"start", j>> /\ after1(j, m + 1)
      <4>1. i \in 1 .. l + 1 /\ commands'[i] = <<"start", j>> /\ after1(j, i + 1)
        BY <1>1, <1>3, <1>6, <2>2, <3>2
      <4>2. QED
        BY <4>1
    <3>3. QED
      BY <3>1, <3>2
  <2>4. after1(j, 1) <=> after(j, 1)
    BY <1>1, <1>3, <1>6
  <2>5. QED
    BY <1>2, <2>3, <2>4
<1>7. WillRun(k)' <=> c = "start"
  <2> HIDE DEF after, after1
  <2>1. ~ after1(k, 1) /\ \A i \in 1 .. l : ~ after1(k, i + 1)
    BY <1>1, <1>4
  <2>2. l + 1 \in 1 .. l + 1 /\ after1(k, l + 1 + 1)
    BY <1>1, <1>5
  <2>3. (\E i \in 1 .. l + 1 : commands'[i] = <<"start", k>> /\ after1(k, i + 1))
           <=> commands'[l + 1] = <<"start", k>>
    <3>1. ASSUME NEW i \in 1 .. l + 1, commands'[i] = <<"start", k>>, after1(k, i + 1)
          PROVE  commands'[l + 1] = <<"start", k>>
      <4>1. i \notin 1 .. l
        BY <2>1, <3>1
      <4>2. i = l + 1
        BY <1>1, <4>1
      <4>3. QED
        BY <3>1, <4>2
    <3>2. QED
      BY <2>2, <3>1
  <2>4. commands'[l + 1] = <<"start", k>> <=> c = "start"
    BY <1>1
  <2>5. QED
    BY <1>2, <2>1, <2>3, <2>4
<1>8. QED
  BY <1>6, <1>7

LEMMA CommandsHandled ==
    ASSUME commands' = <<>>, active' = {k \in Pins : WillRun(k)}
    PROVE  \A k \in Pins : (k \in active' <=> WillRun(k)) /\ (WillRun(k)' <=> WillRun(k))
<1> SUFFICES ASSUME NEW k \in Pins PROVE (k \in active' <=> WillRun(k)) /\ (WillRun(k)' <=> WillRun(k))
  OBVIOUS
<1>1. k \in active' <=> WillRun(k)
  OBVIOUS
<1>2. Len(commands') = 0
  OBVIOUS
<1>3. WillRun(k)' <=> k \in active'
  <2>1. WillRun(k)' <=> \/ k \in active' /\ \A j \in 1 .. Len(commands') : commands'[j][2] # k
                        \/ \E i \in 1 .. Len(commands') : commands'[i] = <<"start", k>>
                              /\ \A j \in i + 1 .. Len(commands') : commands'[j][2] # k
    BY DEF WillRun
  <2>2. 1 .. 0 = {}
    OBVIOUS
  <2>3. QED
    BY <1>2, <2>1, <2>2
<1>4. QED
  BY <1>1, <1>3
-----------------------------------------------------------------------------
(* What follows the event the thread publishes next.                        *)
LEMMA NextInOutbox ==
    ASSUME TypeOK, OutboxOK, outbox # <<>>
    PROVE  LET e == Head(outbox)
               f == Head(Tail(outbox))
           IN  /\ e \in Event /\ e.type \in {"Press", "Short", "Release"}
               /\ pc \in {"publish", "burst"}
               /\ Tail(outbox) = <<>> <=>
                     e.type = "Release" \/ (e.type = "Press" /\ pc = "publish")
               /\ Tail(outbox) # <<>> =>
                     /\ f.key = e.key /\ f.seq = e.seq /\ Tail(outbox) = RestOf(f)
                     /\ f.type = IF e.type = "Press" THEN "Short" ELSE "Release"
<1> DEFINE e == Head(outbox)
           f == Head(Tail(outbox))
<1>1. e \in Event
  BY FirstOf DEF TypeOK
<1>2. outbox = RestOf(e) /\ e.type \in {"Press", "Short", "Release"} /\ pc \in {"publish", "burst"}
  BY DEF OutboxOK
<1> HIDE DEF e
<1> DEFINE s == [e EXCEPT !.type = "Short"]
           r == [e EXCEPT !.type = "Release"]
<1>3. /\ s.type = "Short" /\ s.key = e.key /\ s.seq = e.seq /\ [s EXCEPT !.type = "Release"] = r
      /\ r.type = "Release" /\ r.key = e.key /\ r.seq = e.seq
  BY <1>1 DEF Event
<1>4. CASE e.type = "Press" /\ pc = "burst"
  <2>1. outbox = <<e, s, r>>
    BY <1>2, <1>4 DEF RestOf
  <2>2. Tail(outbox) = <<s, r>> /\ f = s
    <3> HIDE DEF s, r
    <3>1. QED
      BY <2>1
  <2>3. RestOf(s) = <<s, r>>
    BY <1>3 DEF RestOf
  <2>4. /\ Tail(outbox) # <<>> /\ Tail(outbox) = RestOf(f)
        /\ f.key = e.key /\ f.seq = e.seq /\ f.type = "Short"
    <3>1. \A x, y : <<x, y>> # <<>> /\ <<x>> # <<>>
      OBVIOUS
    <3> HIDE DEF s, r, f
    <3>2. QED
      BY <1>3, <2>2, <2>3, <3>1
  <2> HIDE DEF f, s, r
  <2>5. QED
    BY <1>1, <1>2, <1>4, <2>4 DEF e, f
<1>5. CASE e.type = "Short"
  <2>1. outbox = <<e, r>>
    BY <1>2, <1>5 DEF RestOf
  <2>2. Tail(outbox) = <<r>> /\ f = r
    <3> HIDE DEF r
    <3>1. QED
      BY <2>1
  <2>3. RestOf(r) = <<r>>
    BY <1>3 DEF RestOf
  <2>4. /\ Tail(outbox) # <<>> /\ Tail(outbox) = RestOf(f)
        /\ f.key = e.key /\ f.seq = e.seq /\ f.type = "Release"
    <3>1. \A x, y : <<x, y>> # <<>> /\ <<x>> # <<>>
      OBVIOUS
    <3> HIDE DEF s, r, f
    <3>2. QED
      BY <1>3, <2>2, <2>3, <3>1
  <2> HIDE DEF f, s, r
  <2>5. QED
    BY <1>1, <1>2, <1>5, <2>4 DEF e, f
<1>6. CASE e.type = "Release" \/ (e.type = "Press" /\ pc # "burst")
  <2>1. outbox = <<e>>
    BY <1>2, <1>6 DEF RestOf
  <2>2. Tail(outbox) = <<>>
    BY <2>1
  <2>3. QED
    BY <1>1, <1>2, <1>6, <2>2 DEF e
<1>7. QED
  BY <1>2, <1>4, <1>5, <1>6

(* A step that is not about a contact leaves what is known of it.           *)
SameFor(k) ==
    /\ state'[k] = state[k] /\ pressCount'[k] = pressCount[k] /\ seq'[k] = seq[k]
    /\ last'[k] = last[k] /\ boot' = boot
    /\ (k \in active' <=> k \in active) /\ (WillRun(k)' <=> WillRun(k))
    /\ (Announces(k)' <=> Announces(k)) /\ (Announces(k) => timer' = timer)
    /\ (Pending(k)' <=> Pending(k)) /\ (\A t : Due(k, t)' <=> Due(k, t))
    /\ (Stopping(k)' <=> Stopping(k))
LEMMA Kept ==
    ASSUME NEW k \in Pins, TimerOf(k), Shown(k), SameFor(k)
    PROVE  TimerOf(k)' /\ Shown(k)'
<1>1. TimerOf(k)'
  BY DEF SameFor, TimerOf
<1>2. \A t : Says(k, t)' <=> Says(k, t)
  BY DEF SameFor, Says
<1>3. Counts(k)' <=> Counts(k)
  <2> HIDE DEF Says
  <2>1. QED
    BY <1>2 DEF SameFor, Counts
<1>4. Untimed(k)' <=> Untimed(k)
  BY DEF SameFor, Untimed
<1>5. Shown(k)'
  BY <1>3, <1>4 DEF SameFor, Shown
<1>6. QED
  BY <1>1, <1>5

(* The same of a key of an encoder.                                         *)
SameForEncoder(k) ==
    last'[k] = last[k] /\ (outbox' = outbox \/ (~ Pending(k) /\ ~ Pending(k)'))
LEMMA KeptOfEncoder ==
    ASSUME NEW k \in EncoderKeys, ShownOfEncoder(k), SameForEncoder(k)
    PROVE  ShownOfEncoder(k)'
BY DEF ShownOfEncoder, SameForEncoder, Due, Pending

(* Steps that publish nothing, take no event and post no command.           *)
LEMMA QuietStep ==
    ASSUME ProtocolInv, \A k \in Pins : Stopping(k)' <=> Stopping(k),
           UNCHANGED <<state, pressCount, seq, counter, outbox, commands, active, timer, last, used, boot>>
    PROVE  /\ CountersOK'
           /\ \A k \in Pins : TimerOf(k)' /\ Shown(k)'
           /\ \A k \in EncoderKeys : ShownOfEncoder(k)'
<1>1. CountersOK'
  BY DEF ProtocolInv, CountersOK
<1>2. ASSUME NEW k \in Pins PROVE SameFor(k)
  BY DEF SameFor, WillRun, Announces, Pending, Due
<1>3. \A k \in EncoderKeys : SameForEncoder(k)
  BY DEF SameForEncoder
<1>4. QED
  BY <1>1, <1>2, <1>3, Kept, KeptOfEncoder DEF ProtocolInv

(* The interrupts, the GUI, and the thread where it has nothing to publish. *)
LEMMA IdleStep ==
    ASSUME TypeOK, ProtocolInv,
           \/ \E k \in Pins : Edge(k)
           \/ \E a \in Axes, d \in Deltas : Turn(a, d)
           \/ GuiTake \/ TakeSteps \/ NoDetent \/ Rest \/ Pass \/ UNCHANGED vars
    PROVE  ProtocolInv'
<1> USE DEF contacts, thread, timers, bus, encoders, outside, vars
<1>1. UNCHANGED <<state, pressCount, seq, counter, outbox, commands, active, timer, last, used,
                  boot, holder>>
  BY DEF Edge, Turn, GuiTake, TakeSteps, NoDetent, Rest, Pass
<1>2. CASE pc' = pc /\ todo' = todo
  <2>1. \A k \in Pins : Stopping(k)' <=> Stopping(k)
    BY <1>2 DEF Stopping
  <2>2. OutboxOK' /\ MutexOK'
    BY <1>1, <1>2 DEF ProtocolInv, OutboxOK, MutexOK, Publishing, Pending, RestOf
  <2>3. QED
    BY <1>1, <2>1, <2>2, QuietStep DEF ProtocolInv
<1>3. CASE /\ outbox = <<>> /\ pc \in {"scan", "burst", "rest", "delay", "sleep"}
           /\ pc' \in {"scan", "burst", "rest", "delay", "sleep"}
  <2>1. \A k \in Pins : Stopping(k)' <=> Stopping(k)
    BY <1>3 DEF Stopping
  <2>2. OutboxOK' /\ MutexOK'
    BY <1>1, <1>3 DEF ProtocolInv, OutboxOK, MutexOK, Publishing, Pending
  <2>3. QED
    BY <1>1, <2>1, <2>2, QuietStep DEF ProtocolInv
<1>4. CASE TakeSteps \/ NoDetent \/ Rest \/ Pass
  <2>1. outbox = <<>>
    BY <1>4 DEF TakeSteps, NoDetent, Rest, Pass, ProtocolInv, OutboxOK
  <2>2. QED
    BY <1>3, <1>4, <2>1 DEF TakeSteps, NoDetent, Rest, Pass
<1>5. CASE GuiTake \/ UNCHANGED vars
  BY <1>2, <1>5 DEF GuiTake
<1>6. CASE \E k \in Pins : Edge(k)
  BY <1>2, <1>6 DEF Edge
<1>7. CASE \E a \in Axes, d \in Deltas : Turn(a, d)
  BY <1>2, <1>7 DEF Turn
<1>8. QED
  BY <1>4, <1>5, <1>6, <1>7

(* The mutex is taken.                                                      *)
LEMMA LockStep ==
    ASSUME TypeOK, ProtocolInv, PubLock \/ TimerLock
    PROVE  ProtocolInv'
<1> USE DEF contacts, thread, timers, bus, encoders, outside, vars
<1>1. UNCHANGED <<state, pressCount, seq, counter, outbox, commands, active, timer, last, used,
                  boot, pc, todo>>
  BY DEF PubLock, TimerLock
<1>2. \A k \in Pins : Stopping(k)' <=> Stopping(k)
  BY <1>1 DEF Stopping
<1>3. OutboxOK'
  BY <1>1 DEF ProtocolInv, OutboxOK, RestOf
<1>4. MutexOK'
  <2>1. CASE PubLock
    BY <1>1, <2>1 DEF PubLock, MutexOK, ProtocolInv, Publishing
  <2>2. CASE TimerLock
    <3>1. pc \notin {"publish", "burst"} \/ outbox = <<>>
      BY <2>2 DEF TimerLock, ThreadBlocked, Publishing
    <3>2. outbox = <<>>
      BY <3>1 DEF ProtocolInv, OutboxOK
    <3>3. QED
      BY <1>1, <2>2, <3>2 DEF TimerLock, MutexOK, ProtocolInv, Pending
  <2>3. QED
    BY <2>1, <2>2
<1>5. QED
  BY <1>1, <1>2, <1>3, <1>4, QuietStep DEF ProtocolInv

(* A contact is read: it has not settled or not changed, it was pressed, or *)
(* it was released.                                                         *)
ScanNone == todo' = Tail(todo) /\ UNCHANGED <<pc, state, seq, counter, outbox, commands>>
ScanPress(k) ==
    /\ ~ state[k] /\ state' = [state EXCEPT ![k] = TRUE]
    /\ seq' = [seq EXCEPT ![k] = counter] /\ counter' = counter + 1
    /\ commands' = Append(commands, <<"start", k>>)
    /\ outbox' = <<[key |-> k, type |-> "Press", seq |-> counter]>>
    /\ todo' = Tail(todo) /\ pc' = "publish"
ScanRelease(k) ==
    /\ state[k] /\ state' = [state EXCEPT ![k] = FALSE]
    /\ commands' = Append(commands, <<"stop", k>>)
    /\ pc' = "stopping" /\ UNCHANGED <<seq, counter, outbox, todo>>
LEMMA ScanCases ==
    ASSUME TypeOK, ProtocolInv, Scan
    PROVE  /\ pc = "scan" /\ todo # <<>> /\ Head(todo) \in Pins /\ outbox = <<>>
           /\ holder # "thread"
           /\ UNCHANGED <<pressCount, active, timer, last, used, boot, holder>>
           /\ ScanNone \/ ScanPress(Head(todo)) \/ ScanRelease(Head(todo))
<1>1. pc = "scan" /\ todo # <<>>
  BY DEF Scan
<1>2. Head(todo) \in Pins
  BY <1>1, FirstOf DEF TypeOK
<1>3. outbox = <<>> /\ holder # "thread"
  BY <1>1 DEF ProtocolInv, OutboxOK, MutexOK, Publishing
<1>4. UNCHANGED <<pressCount, active, timer, last, used, boot, holder>>
  BY DEF Scan, bus
<1>5. ScanNone \/ ScanPress(Head(todo)) \/ ScanRelease(Head(todo))
  BY <1>2 DEF Scan, ScanNone, ScanPress, ScanRelease, TypeOK
<1>6. QED
  BY <1>1, <1>2, <1>3, <1>4, <1>5

LEMMA ScanStep ==
    ASSUME TypeOK, HistoryOK, ProtocolInv, Scan
    PROVE  ProtocolInv'
<1>0. PICK k \in Pins : k = Head(todo)
  BY ScanCases
<1>1. /\ pc = "scan" /\ todo # <<>> /\ k \in Pins /\ outbox = <<>> /\ holder # "thread"
      /\ UNCHANGED <<pressCount, active, timer, last, used, boot, holder>>
      /\ ScanNone \/ ScanPress(k) \/ ScanRelease(k)
  BY <1>0, ScanCases
<1>2. \A j \in Pins : ~ Stopping(j) /\ ~ Pending(j) /\ \A t : ~ Due(j, t)
  BY <1>1 DEF Stopping, Pending, Due
<1>3. CASE ScanNone
  <2>1. UNCHANGED <<state, pressCount, seq, counter, outbox, commands, active, timer, last, used,
                    boot, holder, pc>>
    BY <1>1, <1>3 DEF ScanNone
  <2>2. \A j \in Pins : Stopping(j)' <=> Stopping(j)
    BY <1>1, <2>1 DEF Stopping
  <2>3. OutboxOK' /\ MutexOK'
    BY <1>1, <2>1 DEF ProtocolInv, OutboxOK, MutexOK, Publishing, Pending
  <2>4. QED
    BY <2>1, <2>2, <2>3, QuietStep DEF ProtocolInv
<1>4. CASE ScanPress(k)
  <2>0. PICK e : e = [key |-> k, type |-> "Press", seq |-> counter]
    OBVIOUS
  <2>1. /\ outbox' = <<e>> /\ outbox' # <<>> /\ Head(outbox') = e /\ pc' = "publish"
        /\ counter' = counter + 1 /\ counter \in Nat
        /\ e.key = k /\ e.type = "Press" /\ e.seq = counter
    BY <1>4, <2>0 DEF ScanPress, TypeOK
  <2>2. /\ \A j \in Pins : state'[j] = (IF j = k THEN TRUE ELSE state[j])
        /\ \A j \in Pins : seq'[j] = (IF j = k THEN counter ELSE seq[j])
    BY <1>1, <1>4 DEF ScanPress, TypeOK
  <2>3. \A j \in Pins : WillRun(j)' <=> IF j = k THEN TRUE ELSE WillRun(j)
    BY <1>1, <1>4, CommandPosted DEF ScanPress, TypeOK
  <2>4. ~ state[k] /\ k \notin active /\ ~ Announces(k) /\ pressCount[k] = 0
    BY <1>1, <1>2, <1>4 DEF ScanPress, ProtocolInv, TimerOf
  <2>5. CountersOK' /\ counter \notin used
    BY <1>1, <2>1 DEF ProtocolInv, CountersOK, HistoryOK
  <2>6. OutboxOK'
    <3>1. RestOf(Head(outbox))' = <<e>>
      BY <2>1 DEF RestOf
    <3>2. state'[k] /\ seq'[k] = counter
      BY <1>1, <2>2
    <3>3. counter < counter' /\ counter \notin used'
      BY <1>1, <2>1, <2>5
    <3>4. QED
      BY <1>1, <2>1, <3>1, <3>2, <3>3 DEF OutboxOK
  <2>7. \A j : (Pending(j)' <=> j = k) /\ \A t : Due(j, t)' <=> j = k /\ t = "Press"
    BY <2>1 DEF Pending, Due
  <2>8. \A j \in Pins : ~ Stopping(j)' /\ (Announces(j)' <=> Announces(j))
    BY <1>1, <2>1 DEF Stopping, Announces
  <2>9. MutexOK'
    <3>1. timer # NoEvent => timer.key # k
      BY <2>4 DEF Announces
    <3>2. QED
      BY <1>1, <2>7, <3>1 DEF ProtocolInv, MutexOK
  <2>10. ASSUME NEW j \in Pins, j # k PROVE TimerOf(j)' /\ Shown(j)'
    <3>1. SameFor(j)
      BY <1>1, <1>2, <2>2, <2>3, <2>7, <2>8, <2>10 DEF SameFor
    <3>2. QED
      BY <3>1, Kept DEF ProtocolInv
  <2>11. TimerOf(k)'
    BY <1>1, <2>2, <2>4, <2>8 DEF TimerOf
  <2>12. Shown(k)'
    <3>1. last[k].type \in {"None", "Release"}
      BY <1>1, <1>2, <2>4 DEF ProtocolInv, Shown
    <3>2. ~ Announces(k)' /\ pressCount'[k] < LongCounts
      BY <1>1, <2>4, <2>8, InputAssumption
    <3>3. Says(k, "Press")' /\ ~ Says(k, "Long")' /\ ~ Says(k, "Repeat")'
      BY <2>7 DEF Says
    <3>4. Counts(k)'
      BY <3>2, <3>3 DEF Counts
    <3>5. Pending(k)' /\ ~ Due(k, "Short")' /\ ~ Due(k, "Release")'
      BY <2>7
    <3>6. last'[k].type \in {"None", "Release"}
      BY <1>1, <3>1
    <3>7. QED
      BY <3>4, <3>5, <3>6 DEF Shown
  <2>13. ASSUME NEW j \in EncoderKeys PROVE ShownOfEncoder(j)'
    <3>1. j # k
      BY <1>1, KeysApart
    <3>2. SameForEncoder(j)
      BY <1>1, <2>7, <3>1 DEF SameForEncoder, Pending
    <3>3. QED
      BY <3>2, KeptOfEncoder DEF ProtocolInv
  <2>14. QED
    BY <2>5, <2>6, <2>9, <2>10, <2>11, <2>12, <2>13 DEF ProtocolInv
<1>5. CASE ScanRelease(k)
  <2>1. pc' = "stopping" /\ outbox' = <<>> /\ todo' = todo /\ counter' = counter /\ seq' = seq
    BY <1>1, <1>5 DEF ScanRelease
  <2>2. \A j \in Pins : state'[j] = (IF j = k THEN FALSE ELSE state[j])
    BY <1>1, <1>5 DEF ScanRelease, TypeOK
  <2>3. state[k]
    BY <1>5 DEF ScanRelease
  <2>4. \A j \in Pins : WillRun(j)' <=> IF j = k THEN FALSE ELSE WillRun(j)
    BY <1>1, <1>5, CommandPosted DEF ScanRelease, TypeOK
  <2>5. OutboxOK' /\ MutexOK' /\ CountersOK'
    BY <1>1, <2>1 DEF ProtocolInv, OutboxOK, MutexOK, CountersOK, Pending
  <2>6. \A j : ~ Pending(j)' /\ \A t : ~ Due(j, t)'
    BY <2>1 DEF Pending, Due
  <2>7. \A j \in Pins : (Stopping(j)' <=> j = k) /\ (Announces(j)' <=> Announces(j))
    BY <1>0, <1>1, <2>1 DEF Stopping, Announces
  <2>8. ASSUME NEW j \in Pins, j # k PROVE TimerOf(j)' /\ Shown(j)'
    <3>1. SameFor(j)
      BY <1>1, <1>2, <2>1, <2>2, <2>4, <2>6, <2>7, <2>8 DEF SameFor
    <3>2. QED
      BY <3>1, Kept DEF ProtocolInv
  <2>9. TimerOf(k)'
    BY <1>1, <2>1, <2>2, <2>4, <2>7 DEF ProtocolInv, TimerOf
  <2>10. Shown(k)'
    <3>1. \A t : Says(k, t)' <=> Says(k, t)
      BY <1>1, <1>2, <2>6 DEF Says
    <3>2. Counts(k)' <=> Counts(k)
      BY <1>1, <2>7, <3>1 DEF Counts
    <3>3. Untimed(k) => Untimed(k)'
      BY <1>1, <2>4 DEF Untimed
    <3>4. \/ last[k].type \in {"Press", "Long", "Repeat"} /\ last[k].seq = seq[k] /\ Counts(k)
          \/ last[k].type = "None" /\ Untimed(k)
      BY <1>1, <1>2, <2>3 DEF ProtocolInv, Shown
    <3>5. QED
      BY <1>1, <2>1, <2>6, <2>7, <3>2, <3>3, <3>4 DEF Shown
  <2>11. ASSUME NEW j \in EncoderKeys PROVE ShownOfEncoder(j)'
    BY <1>1, <2>1, <2>11, KeptOfEncoder DEF ProtocolInv, SameForEncoder
  <2>12. QED
    BY <2>5, <2>8, <2>9, <2>10, <2>11 DEF ProtocolInv
<1>6. QED
  BY <1>1, <1>3, <1>4, <1>5

(* The timer of a released contact has stopped: the press is reported.      *)
LEMMA ReleasedStep ==
    ASSUME TypeOK, HistoryOK, ProtocolInv, Released
    PROVE  ProtocolInv'
<1>1. PICK k \in Pins : k = Head(todo)
  BY FirstOf DEF TypeOK, ProtocolInv, OutboxOK, Released
<1>2. /\ pc = "stopping" /\ pc' = "publish" /\ outbox = <<>> /\ holder # "thread"
      /\ UNCHANGED <<state, seq, counter, commands, active, timer, holder, last, used, boot>>
  BY DEF Released, ProtocolInv, OutboxOK, MutexOK, Publishing, timers, bus
<1>3. /\ \A j \in Pins : Stopping(j) <=> j = k
      /\ \A j \in Pins : ~ Pending(j) /\ \A t : ~ Due(j, t)
  BY <1>1, <1>2 DEF Stopping, Pending, Due, ProtocolInv, OutboxOK
<1>4. k \notin active /\ ~ state[k] /\ ~ WillRun(k) /\ ~ Announces(k)
  BY <1>1, <1>3 DEF Released, Stopped, ProtocolInv, TimerOf
<1>5. PICK r : r = [key |-> k, type |-> "Release", seq |-> seq[k]]
  OBVIOUS
<1>6. PICK s : s = [key |-> k, type |-> "Short", seq |-> seq[k]]
  OBVIOUS
<1>7. PICK e : e = IF pressCount[k] < LongCounts THEN s ELSE r
  OBVIOUS
<1>8. /\ outbox' = RestOf(e)' /\ outbox' # <<>> /\ Head(outbox') = e
      /\ e.key = k /\ e.seq = seq[k] /\ e.type = IF pressCount[k] < LongCounts THEN "Short" ELSE "Release"
  <2>1. outbox' = IF pressCount[k] < LongCounts THEN <<s, r>> ELSE <<r>>
    BY <1>1, <1>5, <1>6 DEF Released
  <2>2. [s EXCEPT !.type = "Release"] = r /\ s.type = "Short" /\ r.type = "Release"
    BY <1>5, <1>6
  <2>3. CASE pressCount[k] < LongCounts
    <3>1. e = s /\ outbox' = <<s, r>>
      BY <1>7, <2>1, <2>3
    <3>2. RestOf(s)' = <<s, r>>
      BY <2>2 DEF RestOf
    <3>3. QED
      BY <1>6, <2>3, <3>1, <3>2
  <2>4. CASE ~ (pressCount[k] < LongCounts)
    <3>1. e = r /\ outbox' = <<r>>
      BY <1>7, <2>1, <2>4
    <3>2. RestOf(r)' = <<r>>
      BY <2>2 DEF RestOf
    <3>3. QED
      BY <1>5, <2>4, <3>1, <3>2
  <2>5. QED
    BY <2>3, <2>4
<1>9. /\ \A j : (Pending(j)' <=> j = k) /\ \A t : Due(j, t)' <=> j = k /\ t = e.type
      /\ \A j \in Pins : ~ Stopping(j)' /\ (Announces(j)' <=> Announces(j))
  BY <1>2, <1>8 DEF Pending, Due, Stopping, Announces
<1>10. \A j \in Pins : pressCount'[j] = IF j = k THEN 0 ELSE pressCount[j]
  BY <1>1 DEF Released, TypeOK
<1>11. OutboxOK'
  <2>1. RestOf(Head(outbox))' = outbox' /\ Head(outbox)' = e
    BY <1>8 DEF RestOf
  <2>2. e.type \in {"Short", "Release"}
    BY <1>8
  <2>3. ~ state'[k] /\ seq'[k] = e.seq
    BY <1>2, <1>4, <1>8
  <2>4. QED
    BY <1>2, <1>8, <2>1, <2>2, <2>3 DEF OutboxOK
<1>12. MutexOK' /\ CountersOK'
  <2>1. timer # NoEvent => timer.key # k
    BY <1>4 DEF Announces
  <2>2. QED
    BY <1>2, <1>9, <2>1 DEF ProtocolInv, MutexOK, CountersOK
<1>13. ASSUME NEW j \in Pins, j # k PROVE TimerOf(j)' /\ Shown(j)'
  <2>1. WillRun(j)' <=> WillRun(j)
    BY <1>2 DEF WillRun
  <2>2. SameFor(j)
    BY <1>2, <1>3, <1>9, <1>10, <1>13, <2>1 DEF SameFor
  <2>3. QED
    BY <2>2, Kept DEF ProtocolInv
<1>14. TimerOf(k)'
  <2>1. ~ WillRun(k)'
    BY <1>2, <1>4 DEF WillRun
  <2>2. QED
    BY <1>2, <1>4, <1>9, <1>10, <2>1 DEF TimerOf
<1>15. Shown(k)'
  <2>1. \/ last[k].type \in {"Press", "Long", "Repeat"} /\ last[k].seq = seq[k] /\ Counts(k)
        \/ last[k].type = "None" /\ Untimed(k)
    BY <1>3 DEF ProtocolInv, Shown
  <2>2. LongCounts \in Nat \ {0, 1}
    BY InputAssumption
  <2>3. CASE pressCount[k] < LongCounts
    <3>1. \/ last[k].type = "Press" /\ last[k].seq = seq[k]
          \/ last[k].type = "None" /\ k \in boot
      BY <1>3, <2>1, <2>2, <2>3 DEF Counts, Says, Untimed, TypeOK
    <3>2. Due(k, "Short")' /\ ~ Due(k, "Press")' /\ ~ Due(k, "Release")' /\ Pending(k)'
      BY <1>8, <1>9, <2>3
    <3>3. QED
      BY <1>2, <3>1, <3>2 DEF Shown
  <2>4. CASE ~ (pressCount[k] < LongCounts)
    <3>1. last[k].type \in {"Long", "Repeat"} /\ last[k].seq = seq[k]
      BY <1>3, <1>4, <2>1, <2>2, <2>4 DEF Counts, Says, Untimed
    <3>2. Due(k, "Release")' /\ ~ Due(k, "Press")' /\ ~ Due(k, "Short")' /\ Pending(k)'
      BY <1>8, <1>9, <2>4
    <3>3. QED
      BY <1>2, <3>1, <3>2 DEF Shown
  <2>5. QED
    BY <2>3, <2>4
<1>16. ASSUME NEW j \in EncoderKeys PROVE ShownOfEncoder(j)'
  <2>1. j # k
    BY KeysApart
  <2>2. SameForEncoder(j)
    BY <1>2, <1>9, <2>1 DEF SameForEncoder, Pending
  <2>3. QED
    BY <2>2, KeptOfEncoder DEF ProtocolInv
<1>17. QED
  BY <1>11, <1>12, <1>13, <1>14, <1>15, <1>16 DEF ProtocolInv

(* A step of an encoder is turned into the three events of one press.       *)
LEMMA DetentStep ==
    ASSUME TypeOK, HistoryOK, ProtocolInv, NEW a \in Axes, Detent(a)
    PROVE  ProtocolInv'
<1>1. PICK k : k = KeyOf(a, taken[a] > 0)
  OBVIOUS
<1>2. k \in EncoderKeys
  <2>1. (taken[a] > 0) \in BOOLEAN
    BY DEF TypeOK
  <2>2. QED
    BY <1>1, <2>1, KeysApart
<1>3. /\ pc = "burst" /\ pc' = "burst" /\ outbox = <<>> /\ counter \in Nat
      /\ outbox' = Click(k, counter) /\ counter' = counter + 1 /\ holder # "thread"
      /\ UNCHANGED <<state, seq, pressCount, commands, active, timer, holder, last, used, boot>>
  BY <1>1 DEF Detent, ProtocolInv, MutexOK, Publishing, timers, bus, TypeOK
<1>4. PICK e : e = [key |-> k, type |-> "Press", seq |-> counter]
  OBVIOUS
<1>5. e.key = k /\ e.type = "Press" /\ e.seq = counter
  BY <1>4
<1>6. outbox' = RestOf(e)' /\ outbox' # <<>> /\ Head(outbox') = e
  <2>1. /\ [e EXCEPT !.type = "Short"] = [key |-> k, type |-> "Short", seq |-> counter]
        /\ [e EXCEPT !.type = "Release"] = [key |-> k, type |-> "Release", seq |-> counter]
    BY <1>4
  <2>2. RestOf(e)' = <<e, [e EXCEPT !.type = "Short"], [e EXCEPT !.type = "Release"]>>
    BY <1>3, <1>5 DEF RestOf
  <2>3. RestOf(e)' = Click(k, counter)
    BY <1>4, <2>1, <2>2 DEF Click
  <2>4. outbox' # <<>> /\ Head(outbox') = e
    BY <1>3, <1>4 DEF Click
  <2>5. QED
    BY <1>3, <2>3, <2>4
<1>7. /\ \A j : (Pending(j)' <=> j = k) /\ \A t : Due(j, t)' <=> j = k /\ t = "Press"
      /\ \A j : ~ Pending(j) /\ \A t : ~ Due(j, t)
      /\ \A j \in Pins : ~ Stopping(j)' /\ ~ Stopping(j) /\ (Announces(j)' <=> Announces(j))
  BY <1>3, <1>5, <1>6 DEF Pending, Due, Stopping, Announces
<1>8. counter \notin used' /\ CountersOK'
  BY <1>3 DEF ProtocolInv, CountersOK, HistoryOK
<1>9. OutboxOK'
  <2>1. RestOf(Head(outbox))' = outbox' /\ Head(outbox)' = e
    BY <1>6 DEF RestOf
  <2>2. e.seq < counter'
    BY <1>3, <1>5
  <2>3. QED
    BY <1>2, <1>3, <1>5, <1>6, <1>8, <2>1, <2>2 DEF OutboxOK
<1>10. MutexOK'
  <2>1. timer # NoEvent => timer.key \in Pins /\ timer.key # k
    BY <1>2, KeysApart DEF ProtocolInv, MutexOK
  <2>2. QED
    BY <1>3, <1>7, <2>1 DEF ProtocolInv, MutexOK
<1>11. ASSUME NEW j \in Pins PROVE TimerOf(j)' /\ Shown(j)'
  <2>1. j # k /\ (WillRun(j)' <=> WillRun(j))
    BY <1>2, <1>3, KeysApart DEF WillRun
  <2>2. (Pending(j)' <=> Pending(j)) /\ \A t : Due(j, t)' <=> Due(j, t)
    BY <1>7, <2>1
  <2>3. (Stopping(j)' <=> Stopping(j)) /\ (Announces(j)' <=> Announces(j))
    BY <1>7
  <2>4. SameFor(j)
    BY <1>3, <2>1, <2>2, <2>3 DEF SameFor
  <2>5. QED
    BY <2>4, Kept DEF ProtocolInv
<1>12. ASSUME NEW j \in EncoderKeys PROVE ShownOfEncoder(j)'
  <2>1. ~ Due(j, "Short")' /\ ~ Due(j, "Release")' /\ ~ Due(j, "Short") /\ ~ Due(j, "Release")
    BY <1>7
  <2>2. QED
    BY <1>3, <2>1 DEF ProtocolInv, ShownOfEncoder
<1>13. QED
  BY <1>8, <1>9, <1>10, <1>11, <1>12 DEF ProtocolInv

(* The thread publishes an event.                                           *)
LEMMA PubPutStep ==
    ASSUME TypeOK, HistoryOK, ProtocolInv, PubPut
    PROVE  ProtocolInv'
<1>1. PICK e : e = Head(outbox)
  OBVIOUS
<1>2. PICK k : k = e.key
  OBVIOUS
<1>3. outbox # <<>> /\ Put(e) /\ outbox' = Tail(outbox) /\ holder' = "free" /\ todo' = todo
  BY <1>1 DEF PubPut, Publishing, Put
<1>4. UNCHANGED <<state, pressCount, seq, counter, commands, active, timer, boot>>
  BY DEF PubPut, contacts, timers
<1>5. /\ e \in Event /\ e.type \in {"Press", "Short", "Release"} /\ pc \in {"publish", "burst"}
      /\ outbox' = <<>> <=> e.type = "Release" \/ (e.type = "Press" /\ pc = "publish")
  <2>1. /\ e \in Event /\ e.type \in {"Press", "Short", "Release"} /\ pc \in {"publish", "burst"}
        /\ Tail(outbox) = <<>> <=> e.type = "Release" \/ (e.type = "Press" /\ pc = "publish")
    BY <1>1, <1>3, NextInOutbox DEF ProtocolInv
  <2>2. QED
    BY <1>3, <2>1
<1>6. k \in Keys
  BY <1>2, <1>5 DEF Event
<1>7. /\ \A j \in Keys : last'[j] = IF j = k THEN [type |-> e.type, seq |-> e.seq] ELSE last[j]
      /\ \A n : n \in used' <=> n \in used \/ (e.type = "Press" /\ n = e.seq)
  BY <1>2, <1>3, <1>5, PutEffect
<1>8. pc' = IF pc = "publish" /\ outbox' = <<>> THEN "scan" ELSE pc
  BY <1>3 DEF PubPut
<1>9. PICK f : f = Head(outbox')
  OBVIOUS
<1>10. outbox' # <<>> => /\ f.key = k /\ f.seq = e.seq /\ outbox' = RestOf(f)
                         /\ f.type = IF e.type = "Press" THEN "Short" ELSE "Release"
  BY <1>1, <1>2, <1>3, <1>9, NextInOutbox DEF ProtocolInv
<1>11. /\ \A j : Pending(j) <=> j = k
       /\ \A j : Pending(j)' <=> j = k /\ outbox' # <<>>
       /\ \A j, t : Due(j, t) <=> j = k /\ t = e.type
       /\ \A j, t : Due(j, t)' <=> j = k /\ outbox' # <<>> /\ t = f.type
  BY <1>1, <1>2, <1>3, <1>9, <1>10 DEF Pending, Due
<1>12. \A j \in Pins : ~ Stopping(j) /\ ~ Stopping(j)' /\ (Announces(j)' <=> Announces(j))
  BY <1>4, <1>5, <1>8 DEF Stopping, Announces
<1>13. \A j \in Pins : WillRun(j)' <=> WillRun(j)
  BY <1>4 DEF WillRun
<1>14. /\ e.seq < counter \/ e.type # "Press" 
       /\ e.type = "Press" => e.seq \notin used
       /\ pc = "burst" => k \in EncoderKeys
       /\ pc = "publish" => k \in Pins /\ e.seq = seq[k] /\ (state[k] <=> e.type = "Press")
  BY <1>1, <1>2, <1>3 DEF ProtocolInv, OutboxOK
<1>15. CountersOK'
  BY <1>4, <1>7, <1>14 DEF ProtocolInv, CountersOK
<1>16. OutboxOK'
  <2>1. CASE outbox' = <<>>
    BY <1>5, <1>8, <2>1 DEF OutboxOK
  <2>2. CASE outbox' # <<>>
    <3>1. pc' = pc /\ f.type \in {"Short", "Release"}
      BY <1>8, <1>10, <2>2
    <3>2. RestOf(Head(outbox))' = outbox' /\ Head(outbox)' = f
      BY <1>9, <1>10, <2>2, <3>1 DEF RestOf
    <3>3. pc = "publish" => e.type = "Short"
      BY <1>5, <2>2
    <3>4. QED
      BY <1>4, <1>5, <1>10, <1>14, <2>2, <3>1, <3>2, <3>3 DEF OutboxOK
  <2>3. QED
    BY <2>1, <2>2
<1>17. MutexOK'
  BY <1>3, <1>4 DEF ProtocolInv, MutexOK
<1>18. ASSUME NEW j \in Pins, j # k PROVE TimerOf(j)' /\ Shown(j)'
  <2>1. ~ Pending(j) /\ ~ Pending(j)' /\ \A t : ~ Due(j, t) /\ ~ Due(j, t)'
    BY <1>11, <1>18
  <2>2. last'[j] = last[j]
    BY <1>7, <1>18, KeysApart
  <2>3. SameFor(j)
    BY <1>4, <1>12, <1>13, <2>1, <2>2 DEF SameFor
  <2>4. QED
    BY <2>3, Kept DEF ProtocolInv
<1>19. ASSUME k \in Pins PROVE TimerOf(k)' /\ Shown(k)'
  <2>1. pc = "publish" /\ e.seq = seq[k] /\ (state[k] <=> e.type = "Press")
    BY <1>5, <1>14, <1>19, KeysApart
  <2>2. TimerOf(k)'
    BY <1>4, <1>12, <1>13, <1>19 DEF ProtocolInv, TimerOf, Announces
  <2>3. last'[k].type = e.type /\ last'[k].seq = seq[k] /\ state'[k] = state[k] /\ seq'[k] = seq[k]
    BY <1>4, <1>6, <1>7, <2>1
  <2>4. CASE e.type = "Press"
    <3>1. ~ Pending(k)' /\ \A t : ~ Due(k, t)'
      BY <1>5, <1>11, <2>1, <2>4
    <3>2. Due(k, "Press") /\ Counts(k)
      BY <1>11, <1>19, <2>4 DEF ProtocolInv, Shown
    <3>3. \A t : Says(k, t)' <=> Says(k, t)
      BY <2>3, <2>4, <3>1, <3>2 DEF Says
    <3>4. Counts(k)'
      BY <1>4, <1>12, <1>19, <3>2, <3>3 DEF Counts
    <3>5. QED
      BY <2>1, <2>2, <2>3, <2>4, <3>1, <3>4 DEF Shown
  <2>5. CASE e.type = "Short"
    <3>1. Pending(k)' /\ Due(k, "Release")' /\ ~ Due(k, "Press")' /\ ~ Due(k, "Short")'
      BY <1>5, <1>10, <1>11, <2>5
    <3>2. QED
      BY <2>2, <2>3, <2>5, <3>1 DEF Shown
  <2>6. CASE e.type = "Release"
    <3>1. ~ Pending(k)' /\ \A t : ~ Due(k, t)'
      BY <1>5, <1>11, <2>6
    <3>2. ~ state'[k] /\ ~ Stopping(k)'
      BY <1>12, <1>19, <2>1, <2>3, <2>6
    <3>3. QED
      BY <2>2, <2>3, <2>6, <3>1, <3>2 DEF Shown
  <2>7. QED
    BY <1>5, <2>4, <2>5, <2>6
<1>20. ASSUME NEW j \in EncoderKeys PROVE ShownOfEncoder(j)'
  <2>1. CASE j # k
    <3>1. last'[j] = last[j] /\ ~ Pending(j) /\ ~ Pending(j)'
      BY <1>7, <1>11, <2>1, KeysApart
    <3>2. SameForEncoder(j)
      BY <3>1 DEF SameForEncoder
    <3>3. QED
      BY <3>2, KeptOfEncoder DEF ProtocolInv
  <2>2. CASE j = k
    <3>1. last'[k] = [type |-> e.type, seq |-> e.seq]
      BY <1>6, <1>7
    <3>2. pc = "burst"
      BY <1>5, <1>14, <2>2, KeysApart
    <3>3. CASE e.type = "Release"
      <4>1. \A t : ~ Due(k, t)'
        BY <1>5, <1>11, <3>3
      <4>2. QED
        BY <2>2, <3>1, <3>3, <4>1 DEF ShownOfEncoder
    <3>4. CASE e.type # "Release"
      <4>1. /\ outbox' # <<>> /\ Head(outbox') = f /\ f.seq = e.seq
            /\ f.type = IF e.type = "Press" THEN "Short" ELSE "Release"
        BY <1>5, <1>9, <1>10, <3>2, <3>4
      <4>2. /\ Due(k, "Short")' <=> e.type = "Press"
            /\ Due(k, "Release")' <=> e.type = "Short"
        BY <1>5, <1>11, <3>4, <4>1
      <4>3. QED
        BY <1>5, <2>2, <3>1, <3>4, <4>1, <4>2 DEF ShownOfEncoder
    <3>5. QED
      BY <3>3, <3>4
  <2>3. QED
    BY <2>1, <2>2
<1>21. QED
  BY <1>15, <1>16, <1>17, <1>18, <1>19, <1>20 DEF ProtocolInv

(* The timer task starts and stops the timers.                              *)
LEMMA CommandsStep ==
    ASSUME TypeOK, ProtocolInv, Commands
    PROVE  ProtocolInv'
<1>1. /\ timer = NoEvent /\ timer' = NoEvent /\ commands' = <<>> /\ active' = {k \in Pins : WillRun(k)}
      /\ UNCHANGED <<state, pressCount, seq, counter, pc, todo, outbox, holder, last, used, boot>>
  BY DEF Commands, contacts, thread, bus
<1>2. \A k \in Pins : (k \in active' <=> WillRun(k)) /\ (WillRun(k)' <=> WillRun(k))
  BY <1>1, CommandsHandled
<1>3. OutboxOK' /\ CountersOK' /\ MutexOK'
  BY <1>1 DEF ProtocolInv, OutboxOK, RestOf, CountersOK, MutexOK, Publishing, Pending
<1>4. ASSUME NEW k \in Pins PROVE TimerOf(k)' /\ Shown(k)'
  <2>1. /\ ~ Announces(k) /\ ~ Announces(k)' /\ (Pending(k)' <=> Pending(k))
        /\ (Stopping(k)' <=> Stopping(k)) /\ \A t : Due(k, t)' <=> Due(k, t)
    BY <1>1 DEF Announces, Pending, Due, Stopping
  <2>2. TimerOf(k)'
    BY <1>1, <1>2, <1>4, <2>1 DEF ProtocolInv, TimerOf
  <2>3. \A t : Says(k, t)' <=> Says(k, t)
    BY <1>1, <2>1 DEF Says
  <2>4. Counts(k)' <=> Counts(k)
    <3> HIDE DEF Says
    <3>1. QED
      BY <1>1, <2>1, <2>3 DEF Counts
  <2>5. Untimed(k) => Untimed(k)'
    BY <1>1, <1>2, <1>4 DEF Untimed
  <2>6. Shown(k)'
    BY <1>1, <1>4, <2>1, <2>4, <2>5 DEF ProtocolInv, Shown
  <2>7. QED
    BY <2>2, <2>6
<1>5. ASSUME NEW k \in EncoderKeys PROVE ShownOfEncoder(k)'
  BY <1>1, <1>5, KeptOfEncoder DEF ProtocolInv, SameForEncoder
<1>6. QED
  BY <1>3, <1>4, <1>5 DEF ProtocolInv

(* A press timer expires.                                                   *)
LEMMA ExpireStep ==
    ASSUME TypeOK, ProtocolInv, NEW k \in Pins, Expire(k)
    PROVE  ProtocolInv'
<1>1. /\ timer = NoEvent /\ k \in active
      /\ UNCHANGED <<state, seq, counter, pc, todo, outbox, holder, last, used, boot, commands,
                     active>>
  BY DEF Expire, thread, bus
<1>2. PICK p : p = pressCount[k]
  OBVIOUS
<1>3. /\ p \in 0 .. LongCounts /\ LongCounts \in Nat
      /\ pressCount' = [pressCount EXCEPT ![k] = IF p + 1 > LongCounts THEN p ELSE p + 1]
  <2>1. p \in 0 .. LongCounts /\ LongCounts \in Nat
    BY <1>2, InputAssumption DEF TypeOK
  <2> DEFINE n == pressCount[k] + 1
  <2>2. pressCount' = [pressCount EXCEPT ![k] = IF n > LongCounts THEN n - 1 ELSE n]
    BY DEF Expire
  <2>3. n = p + 1 /\ n - 1 = p
    BY <1>2, <2>1
  <2> HIDE DEF n
  <2>4. QED
    BY <2>1, <2>2, <2>3
<1>4. /\ \A j \in Pins \ {k} : pressCount'[j] = pressCount[j]
      /\ pressCount'[k] = IF p = LongCounts THEN p ELSE p + 1
  BY <1>3 DEF TypeOK
<1>5. \/ p + 1 < LongCounts /\ timer' = NoEvent
      \/ p + 1 = LongCounts /\ timer' = [key |-> k, type |-> "Long", seq |-> seq[k]]
      \/ p = LongCounts /\ timer' = [key |-> k, type |-> "Repeat", seq |-> seq[k]]
  BY <1>2, <1>3 DEF Expire
<1>6. \A t \in {"Long", "Repeat"} : [key |-> k, type |-> t, seq |-> seq[k]] # NoEvent
  BY DEF NoEvent
<1>7. timer' # NoEvent => timer'.key = k
  BY <1>5
<1>8. \A j \in Pins : ~ Announces(j)
  BY <1>1 DEF Announces
<1>9. \A j \in Pins : WillRun(j)' <=> WillRun(j)
  BY <1>1 DEF WillRun
<1>10. \A j \in Pins : /\ Pending(j)' <=> Pending(j)
                       /\ Stopping(j)' <=> Stopping(j)
                       /\ \A t : Due(j, t)' <=> Due(j, t)
  BY <1>1 DEF Pending, Due, Stopping
<1>11. OutboxOK' /\ CountersOK' /\ MutexOK'
  <2>1. holder # "timer"
    BY <1>1 DEF ProtocolInv, MutexOK
  <2>2. QED
    BY <1>1, <1>7, <2>1 DEF ProtocolInv, OutboxOK, RestOf, CountersOK, MutexOK, Publishing
<1>12. ASSUME NEW j \in Pins, j # k PROVE TimerOf(j)' /\ Shown(j)'
  <2>1. ~ Announces(j)'
    BY <1>7, <1>12 DEF Announces
  <2>2. SameFor(j)
    BY <1>1, <1>4, <1>8, <1>9, <1>10, <1>12, <2>1 DEF SameFor
  <2>3. QED
    BY <2>2, Kept DEF ProtocolInv
<1>13. state[k] \/ Stopping(k)
  BY <1>1 DEF ProtocolInv, TimerOf
<1>14. Announces(k)' => /\ timer'.seq = seq[k] /\ pressCount'[k] = LongCounts
                        /\ p = LongCounts \/ p + 1 = LongCounts
                        /\ timer'.type = IF p = LongCounts THEN "Repeat" ELSE "Long"
  BY <1>3, <1>4, <1>5 DEF Announces
<1>15. ~ Announces(k)' => p + 1 < LongCounts /\ pressCount'[k] = p + 1
  BY <1>3, <1>4, <1>5, <1>6 DEF Announces
<1>16. TimerOf(k)'
  BY <1>1, <1>9, <1>10, <1>13, <1>14 DEF ProtocolInv, TimerOf
<1>17. \A t : Says(k, t)' <=> Says(k, t)
  BY <1>1, <1>10 DEF Says
<1>18. Counts(k) /\ (Says(k, "Press") \/ Says(k, "Long") \/ Says(k, "Repeat")) => Counts(k)'
  <2> SUFFICES ASSUME Counts(k), Says(k, "Press") \/ Says(k, "Long") \/ Says(k, "Repeat")
               PROVE  Counts(k)'
    OBVIOUS
  <2>1. /\ Says(k, "Press") => p < LongCounts
        /\ Says(k, "Long") \/ Says(k, "Repeat") => p = LongCounts
    BY <1>2, <1>8 DEF Counts
  <2>2. CASE Announces(k)'
    <3>1. p = LongCounts => ~ Says(k, "Press")
      BY <1>3, <2>1
    <3>2. p # LongCounts => Says(k, "Press")
      BY <2>1
    <3>3. QED
      BY <1>14, <1>17, <2>1, <2>2, <3>1, <3>2 DEF Counts
  <2>3. CASE ~ Announces(k)'
    <3>1. ~ Says(k, "Long") /\ ~ Says(k, "Repeat")
      BY <1>3, <1>15, <2>1, <2>3
    <3>2. pressCount'[k] < LongCounts
      BY <1>3, <1>15, <2>3
    <3>3. QED
      BY <1>17, <2>3, <3>1, <3>2 DEF Counts
  <2>4. QED
    BY <2>2, <2>3
<1>19. Shown(k)'
  <2>1. ~ Untimed(k)
    BY <1>1 DEF Untimed
  <2>2. Shown(k)
    BY DEF ProtocolInv
  <2>3. /\ Due(k, "Press") => Says(k, "Press")
        /\ ~ Pending(k) => \A t : Says(k, t) <=> last[k].type = t
    BY DEF Says, Due
  <2>4. Due(k, "Press") => last[k].type \in {"None", "Release"} /\ Counts(k)'
    BY <1>18, <2>2, <2>3 DEF Shown
  <2>5. ~ Pending(k) => last[k].type \in {"Press", "Long", "Repeat"} /\ last[k].seq = seq[k] /\ Counts(k)'
    BY <1>13, <1>18, <2>1, <2>2, <2>3 DEF Shown
  <2>6. QED
    BY <1>1, <1>10, <1>13, <2>2, <2>4, <2>5 DEF Shown
<1>20. ASSUME NEW j \in EncoderKeys PROVE ShownOfEncoder(j)'
  BY <1>1, <1>20, KeptOfEncoder DEF ProtocolInv, SameForEncoder
<1>21. QED
  BY <1>11, <1>12, <1>16, <1>19, <1>20 DEF ProtocolInv

(* The timer task publishes Long or Repeat of a contact that is held, or    *)
(* whose release waits.                                                     *)
LEMMA Announcement ==
    ASSUME TypeOK, HistoryOK, ProtocolInv, TimerPut
    PROVE  /\ timer \in Event /\ timer.key \in Pins /\ Put(timer) /\ timer.type \in {"Long", "Repeat"}
           /\ timer.key \in active /\ ~ Pending(timer.key) /\ pressCount[timer.key] = LongCounts
           /\ timer.seq = seq[timer.key] /\ last[timer.key].seq = seq[timer.key]
           /\ last[timer.key].type \in
                 IF timer.type = "Long" THEN {"Press"} ELSE {"Long", "Repeat"}
<1>1. PICK k : k = timer.key
  OBVIOUS
<1>2. timer # NoEvent /\ k \in Pins /\ ~ Pending(k) /\ Put(timer) /\ timer \in Event
  BY <1>1 DEF TimerPut, ProtocolInv, MutexOK, TypeOK
<1>3. Announces(k)
  BY <1>1, <1>2 DEF Announces
<1>4. /\ k \in active /\ timer.seq = seq[k] /\ pressCount[k] = LongCounts
      /\ timer.type \in {"Long", "Repeat"} /\ (state[k] \/ Stopping(k))
  BY <1>2, <1>3 DEF ProtocolInv, TimerOf
<1>5. last[k].type \in {"Press", "Long", "Repeat"} /\ last[k].seq = seq[k] /\ Counts(k)
  BY <1>2, <1>4 DEF ProtocolInv, Shown, Untimed
<1>6. last[k].type = "Press" <=> timer.type = "Long"
  BY <1>2, <1>3, <1>5 DEF Counts, Says, Due
<1>7. last[k].type \in IF timer.type = "Long" THEN {"Press"} ELSE {"Long", "Repeat"}
  BY <1>4, <1>5, <1>6
<1>8. QED
  BY <1>1, <1>2, <1>4, <1>5, <1>7

LEMMA TimerPutStep ==
    ASSUME TypeOK, HistoryOK, ProtocolInv, TimerPut
    PROVE  ProtocolInv'
<1>1. PICK k : k = timer.key
  OBVIOUS
<1>2. /\ timer \in Event /\ k \in Pins /\ Put(timer) /\ timer.type \in {"Long", "Repeat"}
      /\ k \in active /\ ~ Pending(k) /\ pressCount[k] = LongCounts /\ timer.seq = seq[k]
  BY <1>1, Announcement
<1>3. /\ timer' = NoEvent /\ holder' = "free"
      /\ UNCHANGED <<state, pressCount, seq, counter, pc, todo, outbox, commands, active, boot>>
  BY DEF TimerPut, Put, contacts, thread
<1>4. /\ \A j \in Keys : last'[j] = IF j = k THEN [type |-> timer.type, seq |-> timer.seq] ELSE last[j]
      /\ \A n : n \in used' <=> n \in used
  BY <1>1, <1>2, PutEffect
<1>5. \A j \in Pins : WillRun(j)' <=> WillRun(j)
  BY <1>3 DEF WillRun
<1>6. \A j \in Pins : /\ Pending(j)' <=> Pending(j)
                      /\ Stopping(j)' <=> Stopping(j)
                      /\ \A t : Due(j, t)' <=> Due(j, t)
  BY <1>3 DEF Pending, Due, Stopping
<1>7. \A j : ~ Announces(j)'
  BY <1>3 DEF Announces
<1>8. OutboxOK' /\ CountersOK' /\ MutexOK'
  BY <1>3, <1>4 DEF ProtocolInv, OutboxOK, RestOf, CountersOK, MutexOK
<1>9. ASSUME NEW j \in Pins, j # k PROVE TimerOf(j)' /\ Shown(j)'
  <2>1. last'[j] = last[j]
    BY <1>4, <1>9, KeysApart
  <2>2. ~ Announces(j)
    BY <1>1, <1>9 DEF Announces
  <2>3. SameFor(j)
    BY <1>3, <1>5, <1>6, <1>7, <2>1, <2>2 DEF SameFor
  <2>4. QED
    BY <2>3, Kept DEF ProtocolInv
<1>10. TimerOf(k) /\ TimerOf(k)' /\ (state[k] \/ Stopping(k))
  <2>1. TimerOf(k)
    BY <1>2 DEF ProtocolInv
  <2>2. QED
    BY <1>2, <1>3, <1>5, <1>6, <1>7, <2>1 DEF TimerOf
<1>11. Shown(k)'
  <2>1. last'[k].type = timer.type /\ last'[k].seq = seq[k]
    BY <1>2, <1>4, KeysApart
  <2>2. ~ Pending(k)' /\ ~ Due(k, "Press")' /\ ~ Due(k, "Short")' /\ ~ Due(k, "Release")'
    BY <1>2, <1>6 DEF Due
  <2>3. ~ Says(k, "Press")'
    BY <1>2, <2>1, <2>2 DEF Says
  <2>4. Counts(k)'
    BY <1>2, <1>3, <1>7, <2>3 DEF Counts
  <2>5. QED
    BY <1>2, <1>3, <1>6, <1>10, <2>1, <2>2, <2>4 DEF Shown
<1>12. ASSUME NEW j \in EncoderKeys PROVE ShownOfEncoder(j)'
  <2>1. last'[j] = last[j]
    BY <1>2, <1>4, <1>12, KeysApart
  <2>2. SameForEncoder(j)
    BY <1>3, <2>1 DEF SameForEncoder
  <2>3. QED
    BY <2>2, KeptOfEncoder DEF ProtocolInv
<1>13. QED
  BY <1>8, <1>9, <1>10, <1>11, <1>12 DEF ProtocolInv

LEMMA ProtocolStep ==
    ASSUME TypeOK, HistoryOK, ProtocolInv, [Next]_vars
    PROVE  ProtocolInv'
BY IdleStep, LockStep, ScanStep, ReleasedStep, DetentStep, PubPutStep, CommandsStep, ExpireStep,
   TimerPutStep DEF Next, Service, TimerTask
-----------------------------------------------------------------------------
(* No change of a contact is forgotten, for every step.                     *)
Settled(k) == state[k] = level[k]
Awake(k) == isrFlag \/ pc = "delay" \/ (changing /\ pc # "sleep") \/ Unread(k)
LEMMA SettleStep ==
    ASSUME TypeOK, OutboxOK, SettleInv, [Next]_vars
    PROVE  SettleInv'
<1> USE DEF contacts, thread, timers, bus, encoders, outside, vars
<1>1. SettleInv <=> /\ \A k \in Pins : Settled(k) \/ Awake(k)
                    /\ pc \in {"burst", "rest", "delay", "sleep"} => todo = <<>>
  BY DEF SettleInv, Settled, Awake
<1>2. SettleInv' <=> /\ \A k \in Pins : Settled(k)' \/ Awake(k)'
                     /\ pc' \in {"burst", "rest", "delay", "sleep"} => todo' = <<>>
  BY DEF SettleInv, Settled, Awake
<1>3. CASE UNCHANGED <<state, level, pc, changing, todo>> /\ (isrFlag => isrFlag')
  BY <1>1, <1>2, <1>3 DEF Settled, Awake, Unread, Stopping
<1>4. ASSUME NEW k \in Pins, Edge(k) PROVE SettleInv'
  BY <1>1, <1>2, <1>4 DEF Edge, Awake
<1>5. CASE Scan
  <2>1. PICK k \in Pins : k = Head(todo)
    BY <1>5, FirstOf DEF Scan, TypeOK
  <2>2. /\ pc = "scan" /\ todo # <<>> /\ UNCHANGED <<level, isrFlag>>
        /\ pc' \in {"scan", "stopping", "publish"}
    BY <1>5 DEF Scan
  <2>3. changing => changing'
    BY <1>5 DEF Scan
  <2>4. ASSUME NEW j \in Pins, j # k PROVE Settled(j)' \/ Awake(j)'
    <3>1. state'[j] = state[j]
      BY <1>5, <2>1, <2>4 DEF Scan, TypeOK
    <3>2. CASE Settled(j)
      BY <2>2, <3>1, <3>2 DEF Settled
    <3>3. CASE isrFlag \/ changing
      BY <2>2, <2>3, <3>3 DEF Awake
    <3>4. CASE Unread(j)
      <4>1. PICK i \in 1 .. Len(todo) : todo[i] = j
        BY <3>4 DEF Unread
      <4>2. /\ todo \in Seq(Pins) /\ Len(todo) \in Nat /\ todo[1] = k
            /\ Len(Tail(todo)) = Len(todo) - 1
            /\ \A n \in 1 .. Len(todo) - 1 : Tail(todo)[n] = todo[n + 1]
        BY <2>1, <2>2, FirstOf DEF TypeOK
      <4>3. i # 1 /\ i - 1 \in 1 .. Len(todo) - 1 /\ (i - 1) + 1 = i
        BY <2>4, <4>1, <4>2
      <4>4. CASE todo' = Tail(todo) /\ pc' # "stopping"
        <5>1. i - 1 \in 1 .. Len(todo') /\ todo'[i - 1] = j
          BY <4>1, <4>2, <4>3, <4>4
        <5>2. QED
          BY <2>2, <4>4, <5>1 DEF Awake, Unread, Stopping
      <4>5. CASE todo' = todo
        BY <2>1, <2>2, <2>4, <4>1, <4>5 DEF Awake, Unread, Stopping
      <4>6. QED
        BY <1>5, <2>2, <4>4, <4>5 DEF Scan
    <3>5. QED
      BY <1>1, <2>2, <3>2, <3>3, <3>4 DEF Awake
  <2>5. Settled(k)' \/ Awake(k)'
    <3>1. CASE Bouncing(Counted(debounce[k], level[k]))
      <4>1. changing'
        BY <1>5, <2>1, <3>1 DEF Scan
      <4>2. QED
        BY <2>2, <4>1 DEF Awake
    <3>2. CASE ~ Bouncing(Counted(debounce[k], level[k]))
      <4>1. state'[k] = level[k]
        BY <1>5, <2>1, <3>2 DEF Scan, TypeOK
      <4>2. QED
        BY <2>2, <4>1 DEF Settled
    <3>3. QED
      BY <3>1, <3>2
  <2>6. QED
    BY <1>2, <2>2, <2>4, <2>5
<1>6. CASE Released
  <2>1. /\ pc = "stopping" /\ pc' = "publish" /\ todo' = Tail(todo)
        /\ UNCHANGED <<level, state, isrFlag, changing>>
    BY <1>6 DEF Released
  <2>2. ASSUME NEW j \in Pins PROVE Settled(j)' \/ Awake(j)'
    <3>1. CASE Settled(j) \/ isrFlag \/ changing
      BY <2>1, <3>1 DEF Settled, Awake
    <3>2. CASE Unread(j)
      <4>1. PICK i \in 1 .. Len(todo) : todo[i] = j
        BY <3>2 DEF Unread
      <4>2. /\ todo \in Seq(Pins) /\ todo # <<>> /\ Len(todo) \in Nat /\ todo[1] = Head(todo)
            /\ Len(Tail(todo)) = Len(todo) - 1
            /\ \A n \in 1 .. Len(todo) - 1 : Tail(todo)[n] = todo[n + 1]
        BY <2>1, FirstOf DEF TypeOK, OutboxOK
      <4>3. j # Head(todo)
        BY <2>1, <3>2, <4>2 DEF Unread, Stopping
      <4>4. i # 1 /\ i - 1 \in 1 .. Len(todo) - 1 /\ (i - 1) + 1 = i
        BY <4>1, <4>2, <4>3
      <4>5. i - 1 \in 1 .. Len(todo') /\ todo'[i - 1] = j
        BY <2>1, <4>1, <4>2, <4>4
      <4>6. QED
        BY <2>1, <4>5 DEF Awake, Unread, Stopping
    <3>3. QED
      BY <1>1, <2>1, <3>1, <3>2 DEF Awake
  <2>3. QED
    BY <1>2, <2>1, <2>2
<1>7. CASE TakeSteps \/ NoDetent \/ Rest
  <2>1. /\ UNCHANGED <<state, level, isrFlag, changing, todo>> /\ todo = <<>>
        /\ pc \in {"scan", "burst", "rest"}
        /\ pc' \in {"burst", "rest", "delay"} \/ (pc' = "sleep" /\ ~ changing)
    BY <1>1, <1>7 DEF TakeSteps, NoDetent, Rest
  <2>2. \A k \in Pins : ~ Unread(k)
    BY <2>1 DEF Unread
  <2>3. QED
    BY <1>1, <1>2, <2>1, <2>2 DEF Settled, Awake
<1>8. CASE Pass
  <2>1. pc' = "scan" /\ todo' = InputPins
    BY <1>8 DEF Pass
  <2>2. \A k \in Pins : Unread(k)'
    BY <2>1, KeysApart DEF Unread, Stopping
  <2>3. QED
    BY <1>2, <2>1, <2>2 DEF Awake
<1>9. CASE PubPut
  <2>1. /\ UNCHANGED <<state, level, isrFlag, changing, todo>> /\ pc \in {"publish", "burst"}
        /\ pc' = pc \/ (pc = "publish" /\ pc' = "scan")
    BY <1>9 DEF PubPut, Publishing
  <2>2. QED
    BY <1>1, <1>2, <2>1 DEF Settled, Awake, Unread, Stopping
<1>10. ASSUME NEW a \in Axes, Detent(a) PROVE SettleInv'
  BY <1>3, <1>10 DEF Detent
<1>11. ASSUME NEW a \in Axes, NEW d \in Deltas, Turn(a, d) PROVE SettleInv'
  BY <1>3, <1>11 DEF Turn
<1>12. ASSUME NEW k \in Pins, Expire(k) PROVE SettleInv'
  BY <1>3, <1>12 DEF Expire
<1>13. CASE GuiTake \/ PubLock \/ TimerTask \/ UNCHANGED vars
  BY <1>3, <1>13 DEF GuiTake, PubLock, TimerTask, Commands, TimerLock, TimerPut
<1>14. QED
  BY <1>4, <1>5, <1>6, <1>7, <1>8, <1>9, <1>10, <1>11, <1>12, <1>13 DEF Next, Service
-----------------------------------------------------------------------------
(* A clock or counter of width w, once around at the most.                  *)
LEMMA OnceAround ==
    ASSUME NEW w \in Nat, w > 0, NEW x \in Int, -w <= x, x < w + w
    PROVE  x % w = IF x < 0 THEN x + w ELSE IF x < w THEN x ELSE x - w
<1>1. PICK q : q = x \div w
  OBVIOUS
<1>2. PICK r : r = x % w
  OBVIOUS
<1>3. q \in Int /\ r \in 0 .. w - 1 /\ x = w * q + r
  BY <1>1, <1>2
<1>4. (q >= 2 => w * q >= w + w) /\ (q <= -2 => w * q <= -w - w)
  BY <1>3
<1>5. q \in {-1, 0, 1}
  BY <1>3, <1>4
<1>6. w * 0 = 0 /\ w * 1 = w /\ w * (-1) = -w
  OBVIOUS
<1>7. QED
  BY <1>2, <1>3, <1>5, <1>6

(* The counter tells how far it was turned, in either direction and across  *)
(* its wrap, if that is less than half its range.                           *)
LEMMA DeltaIsTurned ==
    ASSUME NEW c \in 0 .. CounterRange - 1, NEW d \in Deltas
    PROVE  Delta((c + d) % CounterRange, c) = d
<1>1. /\ CounterRange \in Nat /\ CounterRange > 2
      /\ d \in Int /\ 2 * d < CounterRange /\ 2 * d >= -CounterRange
  BY InputAssumption
<1>2. PICK w \in Nat : w = CounterRange
  BY <1>1
<1>3. PICK n : n = (c + d) % w
  OBVIOUS
<1>4. n = IF c + d < 0 THEN c + d + w ELSE IF c + d < w THEN c + d ELSE c + d - w
  BY <1>1, <1>2, <1>3, OnceAround
<1>5. n \in 0 .. w - 1 /\ n - c \in {d, d + w, d - w}
  BY <1>1, <1>2, <1>4
<1>6. (n - c) % w = IF d >= 0 THEN d ELSE d + w
  <2>1. (n - c) % w = IF n - c < 0 THEN n - c + w ELSE n - c
    BY <1>1, <1>2, <1>5, OnceAround
  <2>2. QED
    BY <1>1, <1>2, <1>5, <2>1
<1>7. Delta(n, c) = d
  <2>1. PICK m : m = (n - c) % w
    OBVIOUS
  <2>2. Delta(n, c) = IF 2 * m < w THEN m ELSE m - w
    BY <1>2, <2>1 DEF Delta
  <2>3. QED
    BY <1>1, <1>2, <1>6, <2>1, <2>2
<1>8. QED
  BY <1>2, <1>3, <1>7

(* What an axis has turned, for every step.                                 *)
Balanced(a) ==
    turned[a] = CountsPerStep * (shown[a] + steps[a] + taken[a] + OnTheWay(a)) + accumulator[a]
Noticed(a) == steps[a] # 0 => isrFlag \/ pc \in {"scan", "stopping", "publish", "delay"}
Taken(a) == taken[a] # 0 => pc = "burst"
LEMMA StepsParts == StepsInv <=> \A a \in Axes : Balanced(a) /\ Noticed(a) /\ Taken(a)
BY DEF StepsInv, Balanced, Noticed, Taken
LEMMA StepsStep ==
    ASSUME TypeOK, HistoryOK, ProtocolInv, StepsInv, [Next]_vars
    PROVE  StepsInv'
<1> USE DEF contacts, thread, timers, bus, encoders, outside, vars
<1>1. \A a \in Axes : Balanced(a) /\ Noticed(a) /\ Taken(a)
  BY StepsParts
<1>2. SUFFICES ASSUME NEW a \in Axes PROVE Balanced(a)' /\ Noticed(a)' /\ Taken(a)'
  BY DEF StepsInv, Balanced, Noticed, Taken
<1>3. /\ turned[a] \in Int /\ shown[a] \in Int /\ steps[a] \in Int /\ taken[a] \in Int
      /\ accumulator[a] \in Int /\ OnTheWay(a) \in {0, 1, -1}
  BY DEF TypeOK, HistoryOK, OnTheWay
<1>4. CASE /\ UNCHANGED <<turned, shown, steps, taken, accumulator>> /\ OnTheWay(a)' = OnTheWay(a)
           /\ (isrFlag => isrFlag') \/ pc' \in {"scan", "stopping", "publish", "delay"}
           /\ pc' = pc \/ (pc # "burst" /\ pc' \in {"scan", "stopping", "publish", "delay"})
                       \/ (pc # "burst" /\ pc \notin {"scan", "stopping", "publish", "delay"})
  BY <1>1, <1>4 DEF Balanced, Noticed, Taken
<1>5. (pc # "burst" \/ outbox = <<>>) => OnTheWay(a) = 0
  BY DEF OnTheWay, Turning, Due, Pending
<1>6. (pc' # "burst" \/ outbox' = <<>>) => OnTheWay(a)' = 0
  BY DEF OnTheWay, Turning, Due, Pending
<1>7. UNCHANGED <<pc, outbox>> => OnTheWay(a)' = OnTheWay(a)
  BY DEF OnTheWay, Turning, Due, Pending
<1>8. ASSUME NEW k \in Pins, Edge(k) PROVE Balanced(a)' /\ Noticed(a)' /\ Taken(a)'
  BY <1>4, <1>7, <1>8 DEF Edge
<1>9. ASSUME NEW k \in Pins, Expire(k) PROVE Balanced(a)' /\ Noticed(a)' /\ Taken(a)'
  BY <1>4, <1>7, <1>9 DEF Expire
<1>10. CASE GuiTake \/ PubLock \/ Commands \/ TimerLock \/ UNCHANGED vars
  BY <1>4, <1>7, <1>10 DEF GuiTake, PubLock, Commands, TimerLock
<1>11. CASE Scan
  BY <1>4, <1>5, <1>6, <1>11 DEF Scan
<1>12. CASE Released
  BY <1>4, <1>5, <1>6, <1>12 DEF Released
<1>13. CASE Pass
  BY <1>4, <1>5, <1>6, <1>13 DEF Pass
<1>14. CASE Rest
  BY <1>4, <1>5, <1>6, <1>14 DEF Rest
<1>15. CASE TakeSteps
  <2>1. /\ pc = "scan" /\ pc' = "burst" /\ outbox' = outbox /\ outbox = <<>>
        /\ taken' = steps /\ steps' = [b \in Axes |-> 0] /\ UNCHANGED <<turned, shown, accumulator>>
    BY <1>15 DEF TakeSteps, ProtocolInv, OutboxOK
  <2>2. taken[a] = 0
    BY <1>1, <2>1 DEF Taken
  <2>3. QED
    BY <1>1, <1>3, <1>5, <1>6, <2>1, <2>2 DEF Balanced, Noticed, Taken, CountsPerStep
<1>16. CASE NoDetent
  <2>1. taken[a] = 0
    BY <1>16 DEF NoDetent
  <2>2. QED
    BY <1>1, <1>5, <1>6, <1>16, <2>1 DEF NoDetent, Balanced, Noticed, Taken
<1>17. ASSUME NEW b \in Axes, Detent(b) PROVE Balanced(a)' /\ Noticed(a)' /\ Taken(a)'
  <2>1. PICK t \in Int : t = taken[b]
    BY DEF TypeOK
  <2>2. /\ pc = "burst" /\ pc' = "burst" /\ outbox = <<>> /\ t # 0
        /\ outbox' = Click(KeyOf(b, t > 0), counter)
        /\ taken' = [taken EXCEPT ![b] = IF t > 0 THEN t - 1 ELSE t + 1]
        /\ UNCHANGED <<turned, shown, steps, accumulator, isrFlag>>
    BY <1>17, <2>1 DEF Detent
  <2>3. \A c \in BOOLEAN : Turning(a, c)' <=> a = b /\ c = (t > 0)
    <3>1. Head(outbox').key = KeyOf(b, t > 0) /\ Head(outbox').type = "Press" /\ outbox' # <<>>
      BY <2>2 DEF Click
    <3>2. (t > 0) \in BOOLEAN
      BY <2>1
    <3>3. \A c \in BOOLEAN : Turning(a, c)' <=> KeyOf(a, c) = KeyOf(b, t > 0)
      BY <2>2, <3>1 DEF Turning, Due, Pending
    <3>4. \A c \in BOOLEAN : KeyOf(a, c) = KeyOf(b, t > 0) => a = b /\ c = (t > 0)
      BY <3>2, KeysApart
    <3>5. QED
      BY <3>3, <3>4
  <2>4. OnTheWay(a)' = IF a # b THEN 0 ELSE IF t > 0 THEN 1 ELSE -1
    <3>1. CASE t > 0
      <4>1. (t > 0) = TRUE
        BY <3>1
      <4>2. (Turning(a, TRUE)' <=> a = b) /\ ~ Turning(a, FALSE)'
        BY <2>3, <4>1
      <4>3. QED
        BY <3>1, <4>2 DEF OnTheWay
    <3>2. CASE ~ (t > 0)
      <4>1. (t > 0) = FALSE
        BY <3>2
      <4>2. (Turning(a, FALSE)' <=> a = b) /\ ~ Turning(a, TRUE)'
        BY <2>3, <4>1
      <4>3. QED
        BY <3>2, <4>2 DEF OnTheWay
    <3>3. QED
      BY <3>1, <3>2
  <2>5. taken'[a] = IF a # b THEN taken[a] ELSE IF t > 0 THEN t - 1 ELSE t + 1
    BY <2>2 DEF TypeOK
  <2>6. taken'[a] + OnTheWay(a)' = taken[a]
    BY <1>3, <2>1, <2>4, <2>5
  <2>7. taken'[a] \in Int /\ OnTheWay(a)' \in Int
    BY <1>3, <2>1, <2>4, <2>5
  <2>8. OnTheWay(a) = 0
    BY <1>5, <2>2
  <2>9. QED
    BY <1>1, <1>3, <2>2, <2>6, <2>7, <2>8 DEF Balanced, Noticed, Taken, CountsPerStep
<1>18. CASE PubPut
  <2>1. PICK e : e = Head(outbox)
    OBVIOUS
  <2>2. /\ pc \in {"publish", "burst"} /\ outbox # <<>> /\ Put(e) /\ outbox' = Tail(outbox)
        /\ UNCHANGED <<turned, steps, taken, accumulator, isrFlag>>
        /\ pc' = pc \/ (pc = "publish" /\ pc' = "scan")
    BY <1>18, <2>1 DEF PubPut, Publishing
  <2>3. e \in Event /\ (outbox' # <<>> => Head(outbox').type # "Press")
    BY <2>1, <2>2, NextInOutbox DEF ProtocolInv
  <2>4. shown'[a] = IF e.type = "Press" /\ e.key = KeyOf(a, TRUE) THEN shown[a] + 1
                    ELSE IF e.type = "Press" /\ e.key = KeyOf(a, FALSE) THEN shown[a] - 1
                    ELSE shown[a]
    BY <2>2, <2>3, PutEffect
  <2>5. OnTheWay(a)' = 0
    <3>1. \A c : ~ Turning(a, c)'
      BY <2>3 DEF Turning, Due, Pending
    <3>2. QED
      BY <3>1 DEF OnTheWay
  <2>6. pc = "publish" => e.key \in Pins
    BY <2>1, <2>2 DEF ProtocolInv, OutboxOK
  <2>7. shown'[a] = shown[a] + OnTheWay(a)
    <3>1. CASE pc = "publish"
      <4>1. e.key # KeyOf(a, TRUE) /\ e.key # KeyOf(a, FALSE) /\ OnTheWay(a) = 0
        BY <1>5, <2>6, <3>1, KeysApart
      <4>2. QED
        BY <1>3, <2>4, <4>1
    <3>2. CASE pc = "burst"
      <4>1. \A c \in BOOLEAN : Turning(a, c) <=> e.type = "Press" /\ e.key = KeyOf(a, c)
        BY <2>1, <2>2, <3>2 DEF Turning, Due, Pending
      <4>2. /\ Turning(a, TRUE) <=> e.type = "Press" /\ e.key = KeyOf(a, TRUE)
            /\ Turning(a, FALSE) <=> e.type = "Press" /\ e.key = KeyOf(a, FALSE)
        BY <4>1
      <4>3. PICK n \in Int : n = shown[a]
        BY <1>3
      <4>4. n + 1 = n + 1 /\ n - 1 = n + (-1) /\ n = n + 0
        OBVIOUS
      <4> HIDE DEF KeyOf
      <4>5. QED
        BY <2>4, <4>2, <4>3, <4>4 DEF OnTheWay
    <3>3. QED
      BY <2>2, <3>1, <3>2
  <2>8. Balanced(a)'
    <3>1. PICK n \in Int : n = OnTheWay(a)
      BY <1>3
    <3>2. shown[a] + steps[a] + taken[a] + n = shown'[a] + steps'[a] + taken'[a] + OnTheWay(a)'
      BY <1>3, <2>2, <2>5, <2>7, <3>1
    <3>3. QED
      BY <1>1, <2>2, <3>1, <3>2 DEF Balanced
  <2>9. Noticed(a)' /\ Taken(a)'
    <3>1. pc = "publish" => taken[a] = 0
      BY <1>1 DEF Taken
    <3>2. QED
      BY <1>1, <2>2, <3>1 DEF Noticed, Taken
  <2>10. QED
    BY <2>8, <2>9
<1>19. CASE TimerPut
  <2>1. timer.type \in {"Long", "Repeat"} /\ timer \in Event /\ Put(timer)
    BY <1>19, Announcement
  <2>2. shown'[a] = shown[a]
    BY <2>1, PutEffect
  <2>3. UNCHANGED <<turned, steps, taken, accumulator, isrFlag, pc, outbox>>
    BY <1>19 DEF TimerPut
  <2>4. QED
    BY <1>1, <1>7, <2>2, <2>3 DEF Balanced, Noticed, Taken
<1>20. ASSUME NEW b \in Axes, NEW d \in Deltas, Turn(b, d)
       PROVE  Balanced(a)' /\ Noticed(a)' /\ Taken(a)'
  <2>1. PICK c : c = accumulator[b] + d
    OBVIOUS
  <2>2. d \in Int /\ c \in Int
    BY <2>1, InputAssumption DEF TypeOK
  <2>3. Delta(counted'[b], counted[b]) = d
    <3>1. counted[b] \in 0 .. CounterRange - 1 /\ counted'[b] = (counted[b] + d) % CounterRange
      BY <1>20 DEF Turn, TypeOK
    <3>2. QED
      BY <3>1, DeltaIsTurned
  <2>4. /\ turned' = [turned EXCEPT ![b] = @ + d]
        /\ steps' = [steps EXCEPT ![b] = @ + Whole(c)]
        /\ accumulator' = [accumulator EXCEPT ![b] = c - CountsPerStep * Whole(c)]
        /\ isrFlag' = (isrFlag \/ steps' # steps)
        /\ UNCHANGED <<pc, outbox, taken, shown>>
    BY <1>20, <2>1, <2>3 DEF Turn
  <2>5. Whole(c) \in Int
    BY <2>2 DEF Whole, CountsPerStep
  <2>6. Balanced(a)'
    <3>1. CASE a = b
      <4>1. /\ turned'[a] = turned[a] + d /\ steps'[a] = steps[a] + Whole(c)
            /\ accumulator'[a] = c - CountsPerStep * Whole(c) /\ c = accumulator[a] + d
        BY <2>1, <2>4, <3>1 DEF TypeOK, HistoryOK
      <4>2. QED
        BY <1>1, <1>3, <1>7, <2>2, <2>4, <2>5, <4>1 DEF Balanced, CountsPerStep
    <3>2. CASE a # b
      <4>1. turned'[a] = turned[a] /\ steps'[a] = steps[a] /\ accumulator'[a] = accumulator[a]
        BY <2>4, <3>2 DEF TypeOK, HistoryOK
      <4>2. QED
        BY <1>1, <1>7, <2>4, <4>1 DEF Balanced
    <3>3. QED
      BY <3>1, <3>2
  <2>7. Noticed(a)' /\ Taken(a)'
    BY <1>1, <2>4 DEF Noticed, Taken
  <2>8. QED
    BY <2>6, <2>7
<1>21. QED
  BY <1>8, <1>9, <1>10, <1>11, <1>12, <1>13, <1>14, <1>15, <1>16, <1>17, <1>18, <1>19, <1>20
     DEF Next, Service, TimerTask
-----------------------------------------------------------------------------
LEMMA InputInitially == Init => InputInv
<1> SUFFICES ASSUME Init PROVE InputInv
  OBVIOUS
<1>1. TypeOK /\ HistoryOK
  <2>1. DebounceTicks \div 2 \in 0 .. DebounceTicks
    BY InputAssumption
  <2>2. level \in [Pins -> BOOLEAN] /\ seq \in [Pins -> Nat]
    BY DEF Init
  <2>3. /\ [a \in Axes |-> 0] \in [Axes -> Int] /\ [a \in Axes |-> 0] \in [Axes -> -1 .. 1]
        /\ [a \in Axes |-> 0] \in [Axes -> 0 .. CounterRange - 1]
    BY InputAssumption
  <2>4. /\ [k \in Pins |-> 0] \in [Pins -> 0 .. LongCounts]
        /\ [k \in Pins |-> DebounceTicks \div 2] \in [Pins -> 0 .. DebounceTicks]
    BY <2>1, InputAssumption
  <2>5. /\ commands \in Seq({"start", "stop"} \X Pins) /\ outbox \in Seq(Event) /\ queue \in Seq(Event)
        /\ Len(queue) <= QueueSize /\ todo \in Seq(Pins)
    BY InputAssumption, KeysApart DEF Init
  <2>6. last \in [Keys -> [type : Types \cup {"None"}, seq : Nat]]
    BY DEF Init, Silent
  <2>7. TypeOK
    BY <2>2, <2>3, <2>4, <2>5 DEF Init, TypeOK
  <2>8. HistoryOK
    BY <2>3, <2>6 DEF Init, HistoryOK
  <2>9. QED
    BY <2>7, <2>8
<1>2. /\ outbox = <<>> /\ commands = <<>> /\ active = {} /\ timer = NoEvent /\ pc = "scan"
      /\ holder = "free" /\ used = {} /\ state = level /\ boot = {k \in Pins : level[k]}
  BY DEF Init
<1>3. \A k : ~ Pending(k) /\ ~ Announces(k) /\ ~ Stopping(k) /\ \A t : ~ Due(k, t)
  BY <1>2 DEF Pending, Announces, Stopping, Due
<1>4. \A k : ~ WillRun(k)
  BY <1>2 DEF WillRun
<1>5. OutboxOK /\ CountersOK /\ MutexOK
  BY <1>2 DEF OutboxOK, CountersOK, MutexOK
<1>6. ASSUME NEW k \in Pins PROVE TimerOf(k) /\ Shown(k)
  <2>1. pressCount[k] = 0 /\ last[k].type = "None" /\ (k \in boot <=> state[k])
    BY <1>2, KeysApart DEF Init, Silent
  <2>2. Untimed(k) <=> state[k]
    BY <1>2, <1>4, <2>1 DEF Untimed
  <2>3. QED
    BY <1>2, <1>3, <1>4, <2>1, <2>2 DEF TimerOf, Shown
<1>7. ASSUME NEW k \in EncoderKeys PROVE ShownOfEncoder(k)
  <2>1. last[k].type = "None"
    BY KeysApart DEF Init, Silent
  <2>2. QED
    BY <1>3, <2>1 DEF ShownOfEncoder
<1>8. SettleInv
  BY <1>2 DEF SettleInv
<1>9. StepsInv
  <2>1. \A a \in Axes : OnTheWay(a) = 0
    BY <1>2 DEF OnTheWay, Turning
  <2>2. \A a \in Axes : /\ turned[a] = 0 /\ shown[a] = 0 /\ steps[a] = 0 /\ taken[a] = 0
                        /\ accumulator[a] = 0
    BY DEF Init
  <2>3. QED
    BY <2>1, <2>2 DEF StepsInv, CountsPerStep
<1>10. QED
  BY <1>1, <1>5, <1>6, <1>7, <1>8, <1>9 DEF InputInv, ProtocolInv

LEMMA InputStep == InputInv /\ [Next]_vars => InputInv'
<1> SUFFICES ASSUME InputInv, [Next]_vars PROVE InputInv'
  OBVIOUS
<1>1. TypeOK /\ HistoryOK /\ ProtocolInv /\ OutboxOK /\ MutexOK /\ SettleInv /\ StepsInv
  BY DEF InputInv, ProtocolInv
<1>2. TypeOK' /\ HistoryOK' /\ ProtocolInv' /\ SettleInv' /\ StepsInv'
  BY <1>1, TypesStep, ProtocolStep, SettleStep, StepsStep
<1>3. QED
  BY <1>2 DEF InputInv

(* In every state what has been shown of each key, what is still to be      *)
(* published, the timers, the debounced states and the steps of the         *)
(* encoders agree, whatever the interleaving of the two threads, the        *)
(* interrupts and the GUI.                                                  *)
THEOREM InputInvariant == Spec => []InputInv
<1>1. QED
  BY InputInitially, InputStep, PTL DEF Spec

(* When the service sleeps, every contact is settled at its level and every *)
(* two counts of an encoder were shown as one press, for every number of    *)
(* contacts, width of the counters and size of the turns (input_srv,        *)
(* furi_hal_encoder_counter_delta).                                         *)
THEOREM NothingIsMissed == Spec => []NothingMissed
<1>1. InputInv => NothingMissed
  <2> SUFFICES ASSUME InputInv PROVE NothingMissed
    OBVIOUS
  <2>1. TypeOK /\ OutboxOK /\ SettleInv /\ StepsInv /\ HistoryOK
    BY DEF InputInv, ProtocolInv
  <2>2. ASSUME pc = "sleep", ~ isrFlag
        PROVE  state = level /\ \A a \in Axes : turned[a] = CountsPerStep * shown[a] + accumulator[a]
    <3>1. \A k \in Pins : state[k] = level[k]
      BY <2>1, <2>2 DEF SettleInv, Unread
    <3>2. state = level
      BY <2>1, <3>1 DEF TypeOK
    <3>3. ASSUME NEW a \in Axes PROVE turned[a] = CountsPerStep * shown[a] + accumulator[a]
      <4>1. steps[a] = 0 /\ taken[a] = 0 /\ OnTheWay(a) = 0
        BY <2>1, <2>2 DEF StepsInv, OnTheWay, Turning
      <4>2. shown[a] \in Int
        BY <2>1 DEF HistoryOK
      <4>3. QED
        BY <2>1, <4>1, <4>2 DEF StepsInv
    <3>4. QED
      BY <3>2, <3>3
  <2>3. QED
    BY <2>1, <2>2 DEF NothingMissed, Asleep
<1>2. QED
  BY <1>1, InputInvariant, PTL
-----------------------------------------------------------------------------
(* An event of the same press changes only the type of what was shown last. *)
LEMMA Retyped ==
    ASSUME HistoryOK, NEW k \in Keys, NEW t \in Types, NEW n, last[k].seq = n
    PROVE  [last EXCEPT ![k] = [type |-> t, seq |-> n]] = [last EXCEPT ![k].type = t]
<1>1. last[k] \in [type : Types \cup {"None"}, seq : Nat]
  BY DEF HistoryOK
<1>2. [last[k] EXCEPT !.type = t] = [type |-> t, seq |-> n]
  BY <1>1
<1>3. QED
  BY <1>2 DEF HistoryOK

LEMMA ProtocolFollowed ==
    ASSUME TypeOK, HistoryOK, ProtocolInv, [Next]_vars
    PROVE  [Protocol!Next]_<<last, used, boot>>
<1> USE DEF contacts, thread, timers, bus, encoders, outside, vars
<1>1. CASE PubPut
  <2>1. PICK e : e = Head(outbox)
    OBVIOUS
  <2>2. PICK k : k = e.key
    OBVIOUS
  <2>3. outbox # <<>> /\ Put(e) /\ boot' = boot
    BY <1>1, <2>1 DEF PubPut, Publishing
  <2>4. /\ e \in Event /\ e.type \in {"Press", "Short", "Release"} /\ pc \in {"publish", "burst"}
    BY <2>1, <2>3, NextInOutbox DEF ProtocolInv
  <2>5. k \in Keys /\ e.seq \in Nat /\ e.type \in Types
    BY <2>2, <2>4 DEF Event, Types
  <2>6. /\ last' = [last EXCEPT ![k] = [type |-> e.type, seq |-> e.seq]] /\ last'[k].seq = e.seq
        /\ used' = IF e.type = "Press" THEN used \cup {e.seq} ELSE used
    BY <2>2, <2>3, <2>5 DEF Put, HistoryOK
  <2>7. /\ \A t : Due(k, t) <=> t = e.type
        /\ e.type = "Press" => e.seq \notin used
        /\ pc = "burst" => k \in EncoderKeys
        /\ pc = "publish" => k \in Pins /\ e.seq = seq[k]
    BY <2>1, <2>2, <2>3 DEF ProtocolInv, OutboxOK, Due, Pending
  <2>8. CASE e.type = "Press"
    <3>1. last[k].type \in {"None", "Release"}
      <4>1. CASE pc = "burst"
        BY <2>7, <2>8, <4>1 DEF ProtocolInv, ShownOfEncoder
      <4>2. CASE pc = "publish"
        BY <2>7, <2>8, <4>2 DEF ProtocolInv, Shown
      <4>3. QED
        BY <2>4, <4>1, <4>2
    <3>2. Protocol!Press(k, last'[k].seq)
      BY <2>3, <2>6, <2>7, <2>8, <3>1 DEF Protocol!Press
    <3>3. QED
      BY <2>5, <2>6, <3>2 DEF Protocol!Next
  <2>9. CASE e.type # "Press" /\ last[k].type = "None"
    <3>1. e.type = "Short" /\ k \in boot
      <4>1. CASE pc = "burst"
        BY <2>4, <2>7, <2>9, <4>1 DEF ProtocolInv, ShownOfEncoder
      <4>2. CASE pc = "publish"
        BY <2>4, <2>7, <2>9, <4>2 DEF ProtocolInv, Shown
      <4>3. QED
        BY <2>4, <4>1, <4>2
    <3>2. Protocol!LetGo(k, last'[k].seq)
      BY <2>3, <2>6, <2>9, <3>1 DEF Protocol!LetGo
    <3>3. QED
      BY <2>5, <2>6, <3>2 DEF Protocol!Next
  <2>10. CASE e.type # "Press" /\ last[k].type # "None"
    <3>1. /\ last[k].seq = e.seq
          /\ last[k].type \in IF e.type = "Short" THEN {"Press"} ELSE {"Short", "Long", "Repeat"}
      <4>1. CASE pc = "burst"
        <5>1. ShownOfEncoder(k)
          BY <2>7, <4>1 DEF ProtocolInv
        <5>2. CASE e.type = "Short"
          BY <2>1, <2>7, <5>1, <5>2 DEF ShownOfEncoder
        <5>3. CASE e.type = "Release"
          BY <2>1, <2>7, <5>1, <5>3 DEF ShownOfEncoder
        <5>4. QED
          BY <2>4, <2>10, <5>2, <5>3
      <4>2. CASE pc = "publish"
        <5>1. Shown(k) /\ e.seq = seq[k]
          BY <2>7, <4>2 DEF ProtocolInv
        <5>2. CASE e.type = "Short"
          BY <2>7, <2>10, <5>1, <5>2 DEF Shown
        <5>3. CASE e.type = "Release"
          BY <2>7, <5>1, <5>3 DEF Shown
        <5>4. QED
          BY <2>4, <2>10, <5>2, <5>3
      <4>3. QED
        BY <2>4, <4>1, <4>2
    <3>2. last' = [last EXCEPT ![k].type = e.type] /\ used' = used
      BY <2>5, <2>6, <2>10, <3>1, Retyped
    <3>3. Protocol!Follows(last[k].type, e.type)
      BY <2>4, <2>10, <3>1 DEF Protocol!Follows
    <3>4. Protocol!Go(k, e.type)
      BY <2>3, <3>2, <3>3 DEF Protocol!Go
    <3>5. e.type \in {"Short", "Long", "Repeat", "Release"}
      BY <2>4, <2>10
    <3>6. QED
      BY <2>5, <3>4, <3>5 DEF Protocol!Next
  <2>11. QED
    BY <2>8, <2>9, <2>10
<1>2. CASE TimerPut
  <2>1. PICK e : e = timer
    OBVIOUS
  <2>2. PICK k : k = e.key
    OBVIOUS
  <2>3. /\ e \in Event /\ k \in Pins /\ Put(e) /\ e.type \in {"Long", "Repeat"}
        /\ last[k].seq = e.seq
        /\ last[k].type \in IF e.type = "Long" THEN {"Press"} ELSE {"Long", "Repeat"}
    BY <1>2, <2>1, <2>2, Announcement
  <2>4. k \in Keys /\ e.type \in Types /\ boot' = boot
    BY <1>2, <2>3, KeysApart DEF TimerPut, Types
  <2>5. /\ last' = [last EXCEPT ![k] = [type |-> e.type, seq |-> e.seq]]
        /\ used' = used
    BY <2>2, <2>3 DEF Put
  <2>6. last' = [last EXCEPT ![k].type = e.type]
    <3>1. last[k].seq = e.seq
      BY <2>3
    <3>2. PICK n : n = e.seq
      OBVIOUS
    <3>3. PICK t : t = e.type
      OBVIOUS
    <3>4. k \in Keys /\ t \in Types /\ last[k].seq = n
      BY <2>4, <3>1, <3>2, <3>3
    <3>5. [last EXCEPT ![k] = [type |-> t, seq |-> n]] = [last EXCEPT ![k].type = t]
      BY <3>4, Retyped
    <3>6. QED
      BY <2>5, <3>2, <3>3, <3>5
  <2>7. Protocol!Go(k, e.type)
    BY <2>3, <2>4, <2>5, <2>6 DEF Protocol!Go, Protocol!Follows
  <2>8. QED
    BY <2>3, <2>4, <2>7 DEF Protocol!Next
<1>3. CASE UNCHANGED <<last, used, boot>>
  BY <1>3
<1>4. ASSUME NEW k \in Pins, Edge(k) \/ Expire(k) PROVE UNCHANGED <<last, used, boot>>
  BY <1>4 DEF Edge, Expire
<1>5. ASSUME NEW a \in Axes, NEW d \in Deltas, Turn(a, d) PROVE UNCHANGED <<last, used, boot>>
  BY <1>5 DEF Turn
<1>6. ASSUME NEW a \in Axes, Detent(a) PROVE UNCHANGED <<last, used, boot>>
  BY <1>6 DEF Detent
<1>7. CASE Scan \/ Released \/ TakeSteps \/ NoDetent \/ Rest \/ Pass \/ PubLock \/ GuiTake
  BY <1>3, <1>7 DEF Scan, Released, TakeSteps, NoDetent, Rest, Pass, PubLock, GuiTake
<1>8. CASE Commands \/ TimerLock
  BY <1>3, <1>8 DEF Commands, TimerLock
<1>9. QED
  BY <1>1, <1>2, <1>3, <1>4, <1>5, <1>6, <1>7, <1>8 DEF Next, Service, TimerTask

(* However the contacts bounce and the threads race for the mutex, the      *)
(* events of each key are those of one press after another: Press, then     *)
(* Short or Long and Repeat, then Release, all with the counter of a press  *)
(* that no other press has (input_srv, input_press_timer_callback).         *)
THEOREM KeyProtocolImplemented == Spec => ImplementsKeyProtocol
<1>1. Init => Protocol!Init
  <2> SUFFICES ASSUME Init PROVE Protocol!Init
    OBVIOUS
  <2>1. boot \in SUBSET Keys
    BY KeysApart DEF Init
  <2>2. last = [k \in Keys |-> Protocol!Silent] /\ used = {}
    BY DEF Init, Silent, Protocol!Silent
  <2>3. QED
    BY <2>1, <2>2 DEF Protocol!Init
<1>2. InputInv /\ [Next]_vars => [Protocol!Next]_<<last, used, boot>>
  BY ProtocolFollowed DEF InputInv
<1>3. QED
  BY <1>1, <1>2, InputInvariant, PTL DEF Spec, ImplementsKeyProtocol, Protocol!Spec
=============================================================================
