---------------------------- MODULE EventLoopTimer ----------------------------
(***************************************************************************)
(* The timers and the tick of a furi_event_loop.  Commands on a timer are  *)
(* requests in a queue that the loop serves before it looks at the clock;  *)
(* active timers are in a list, the first to expire in front.  The clock   *)
(* counts modulo Wrap (2^32 in the code).                                  *)
(*                                                                         *)
(* due and tickDue are the same times in an ideal world: what is left,     *)
(* negative when late.  Time stops while something is MaxLate late: the    *)
(* loop is never further behind.  Faults are Fault...                      *)
(***************************************************************************)
EXTENDS Integers, Sequences, FiniteSets, SequencesExt

CONSTANTS
    Timers,       (* the timers of a loop                                   *)
    Periodic,     (* those of FuriEventLoopTimerTypePeriodic                *)
    Intervals,    (* intervals that timers are started with, by which the   *)
                  (* loop divides: the code does not check for 0            *)
    TickInterval, (* interval of the tick                                   *)
    Wrap,         (* the clock is 0 again after Wrap - 1                    *)
    MaxLate,      (* bound: how late a timer or a tick may be               *)
    Eager         (* timers may be restarted before their start was served  *)

ASSUME EventLoopTimerAssumption ==
    /\ Periodic \subseteq Timers /\ Intervals \subseteq Nat \ {0}
    /\ TickInterval \in Nat \ {0} /\ MaxLate \in Nat /\ Wrap \in Nat
    /\ \A i \in Intervals \cup {TickInterval} : i + MaxLate < Wrap
    /\ Eager \in BOOLEAN /\ {"tick", "other"} \cap Timers = {}

VARIABLES
    now,      (* xTaskGetTickCount                                          *)
    pc,       (* the thread of the loop: "wait", "serve" or "callback"      *)
    running,  (* the timer whose callback runs, "tick", or "other"          *)
    list,     (* instance->timer_list                                       *)
    queue,    (* instance->timer_queue                                      *)
    request,  (* of each timer, with next_interval if it is a start         *)
    active,   (* the timers with the flag active                            *)
    interval, (* of each timer                                              *)
    start,    (* start_time of each timer                                   *)
    freed,    (* timers that are freed                                      *)
    prev,     (* instance->tick.prev_time                                   *)
    due,      (* time left to each active timer: history                    *)
    tickDue   (* time left to the next tick: history                        *)

timer == <<active, interval, start, freed, due>>
tick == <<prev, tickDue>>
vars == <<now, pc, running, list, queue, request, timer, tick>>

Start(i) == [kind |-> "Start", time |-> i]
No == [kind |-> "None", time |-> 0]
Stop == [kind |-> "Stop", time |-> 0]
Free == [kind |-> "Free", time |-> 0]
-----------------------------------------------------------------------------
FaultElapsed(since) == IF now >= since THEN now - since ELSE 0
Elapsed(since) == (now - since) % Wrap
Left(since, time) == IF Elapsed(since) < time THEN time - Elapsed(since) ELSE 0
Remaining(t) == Left(start[t], interval[t])

Init ==
    /\ now = 0 /\ pc = "callback" /\ running = "other"
    /\ list = <<>> /\ queue = <<>> /\ request = [t \in Timers |-> No] /\ active = {}
    /\ interval = [t \in Timers |-> 0] /\ start = [t \in Timers |-> 0] /\ freed = {}
    /\ due = [t \in Timers |-> 0] /\ prev = 0 /\ tickDue = TickInterval

(* Time goes by, whatever the loop does.                                    *)
Advance ==
    /\ tickDue > -MaxLate /\ \A t \in active : due[t] > -MaxLate
    /\ now' = (now + 1) % Wrap
    /\ due' = [t \in Timers |-> IF t \in active THEN due[t] - 1 ELSE 0]
    /\ tickDue' = tickDue - 1
    /\ UNCHANGED <<pc, running, list, queue, request, active, interval, start, freed, prev>>
-----------------------------------------------------------------------------
(* TimerList_unlink and TimerQueue_unlink: a timer is linked at most once.  *)
Unlinked(s, t) == IF t \in ToSet(s) THEN RemoveAt(s, CHOOSE n \in 1 .. Len(s) : s[n] = t) ELSE s

(* Code of the application in the thread of the loop, in some callback.  A  *)
(* request takes the place of one that waits, but for a free.               *)
Enqueue(t, r) ==
    request' = [request EXCEPT ![t] = r] /\ queue' = Append(Unlinked(queue, t), t)

Command(t, r) ==
    /\ pc = "callback" /\ t \notin freed /\ request[t] # Free
    /\ Enqueue(t, r)
    /\ UNCHANGED <<now, pc, running, list, timer, tick>>

StartTimer(t, i) == Command(t, Start(i))
RestartTimer(t) ==
    (~Eager => interval[t] # 0 /\ request[t] = No) /\ Command(t, Start(interval[t]))
StopTimer(t) == Command(t, Stop)
FreeTimer(t) == Command(t, Free)

AllocTimer(t) ==
    /\ pc = "callback" /\ t \in freed
    /\ freed' = freed \ {t}
    /\ UNCHANGED <<now, pc, running, list, queue, request, active, interval, start, due, tick>>

Return ==
    /\ pc = "callback" /\ pc' = "wait" /\ running' = "other"
    /\ UNCHANGED <<now, list, queue, request, timer, tick>>
-----------------------------------------------------------------------------
(* furi_event_loop_schedule_timer: timer t with time r left goes after the  *)
(* last of list l that expires no later.                                    *)
FaultScheduled(l, t, r) == <<t>> \o l
Scheduled(l, t, r) ==
    LET earlier == {n \in 1 .. Len(l) : Remaining(l[n]) <= r}
        place == IF earlier = {} THEN 1 ELSE 1 + CHOOSE n \in earlier : \A m \in earlier : m <= n
    IN  InsertAt(l, place, t)

(* The loop wakes up for timer commands, or for something else.             *)
WakeForCommands ==
    /\ pc = "wait" /\ queue # <<>> /\ pc' = "serve"
    /\ UNCHANGED <<now, running, list, queue, request, timer, tick>>

WakeForOther ==
    /\ pc = "wait" /\ pc' = "callback"
    /\ UNCHANGED <<now, running, list, queue, request, timer, tick>>

(* One round of furi_event_loop_process_timer_queue; freed memory is zero.  *)
Serve ==
    /\ pc = "serve" /\ queue # <<>>
    /\ LET t == Head(queue)
           time == request[t].time
           begins == request[t].kind = "Start"
           others == IF t \in active THEN Unlinked(list, t) ELSE list
       IN  /\ list' = IF begins THEN Scheduled(others, t, time) ELSE others
           /\ active' = IF begins THEN active \cup {t} ELSE active \ {t}
           /\ interval' = IF request[t] = Stop THEN interval ELSE [interval EXCEPT ![t] = time]
           /\ start' = CASE begins -> [start EXCEPT ![t] = now]
                          [] request[t] = Free -> [start EXCEPT ![t] = 0]
                          [] request[t] = Stop -> start
           /\ freed' = IF request[t] = Free THEN freed \cup {t} ELSE freed
           /\ due' = [due EXCEPT ![t] = time]
           /\ request' = [request EXCEPT ![t] = No]
    /\ queue' = Tail(queue)
    /\ UNCHANGED <<now, pc, running, tick>>

Served ==
    /\ pc = "serve" /\ queue = <<>> /\ pc' = "wait"
    /\ UNCHANGED <<now, running, list, queue, request, timer, tick>>

(* The wait ends without a notification: nothing is notified, and the time  *)
(* of the front timer or of the tick is over.                               *)
FaultQuiet == pc = "wait"
Quiet == pc = "wait" /\ queue = <<>>
FaultExpired == list # <<>> /\ Elapsed(start[Head(list)]) = interval[Head(list)]
Expired == list # <<>> /\ Remaining(Head(list)) = 0

(* A late periodic timer goes on from the last of the times it missed.      *)
CaughtUp(t) == (start[t] + interval[t] * (Elapsed(start[t]) \div interval[t])) % Wrap

(* furi_event_loop_process_expired_timers, up to the callback.              *)
ExpireTimer ==
    /\ Quiet /\ Expired
    /\ LET t == Head(list)
       IN  /\ running' = t
           /\ IF t \in Periodic
              THEN /\ start' = [start EXCEPT ![t] = CaughtUp(t)]
                   /\ list' = Scheduled(Tail(list), t, Left(CaughtUp(t), interval[t]))
                   /\ due' = [due EXCEPT ![t] =
                                 CHOOSE d \in 1 .. interval[t] : (d - due[t]) % interval[t] = 0]
                   /\ UNCHANGED active
              ELSE /\ active' = active \ {t} /\ list' = Tail(list)
                   /\ due' = [due EXCEPT ![t] = 0]
                   /\ UNCHANGED start
    /\ pc' = "callback"
    /\ UNCHANGED <<now, queue, request, interval, freed, tick>>

(* furi_event_loop_process_tick, up to the callback.                        *)
Tick ==
    /\ Quiet /\ ~Expired /\ Left(prev, TickInterval) = 0
    /\ prev' = (prev + TickInterval) % Wrap /\ tickDue' = tickDue + TickInterval
    /\ running' = "tick" /\ pc' = "callback"
    /\ UNCHANGED <<now, list, queue, request, timer>>
-----------------------------------------------------------------------------
User ==
    \E t \in Timers :
        \/ \E i \in Intervals : StartTimer(t, i)
        \/ RestartTimer(t) \/ StopTimer(t) \/ FreeTimer(t) \/ AllocTimer(t)
Loop == Return \/ WakeForCommands \/ WakeForOther \/ Serve \/ Served
Timeout == ExpireTimer \/ Tick
Next == Advance \/ User \/ Loop \/ Timeout

Spec == Init /\ [][Next]_vars
(* The loop is not kept busy for ever by its objects: time and again none   *)
(* of them is notified when it waits.                                       *)
FairSpec ==
    /\ Spec /\ WF_vars(Advance) /\ WF_vars(Return \/ Serve \/ Served)
    /\ SF_vars(WakeForCommands) /\ SF_vars(Timeout)
-----------------------------------------------------------------------------
Times == 0 .. Wrap - 1
(* The list holds the active timers, the queue those with a request, and    *)
(* neither a timer that is freed.                                           *)
ListsAgree ==
    /\ ToSet(list) = active /\ active \cap freed = {}
    /\ ToSet(queue) = {t \in Timers : request[t] # No} /\ ToSet(queue) \cap freed = {}

(* Types, and lists that agree with the timers.                             *)
TypeOK ==
    /\ now \in Times /\ pc \in {"wait", "serve", "callback"}
    /\ running \in Timers \cup {"tick", "other"}
    /\ list \in Seq(Timers) /\ queue \in Seq(Timers) /\ IsInjective(list) /\ IsInjective(queue)
    /\ request \in [Timers -> {No, Stop, Free} \cup {Start(i) : i \in Intervals \cup {0}}]
    /\ active \subseteq Timers /\ interval \in [Timers -> Intervals \cup {0}]
    /\ start \in [Timers -> Times] /\ freed \subseteq Timers /\ prev \in Times
    /\ due \in [Timers -> Int] /\ tickDue \in Int
    /\ ListsAgree

(* event_loop_timer.c:50: "TimerList_front() points to the first timer to   *)
(* expire", as time goes by and across a wrap of the clock.                 *)
FrontExpiresFirst ==
    /\ TypeOK
    /\ \A n \in 2 .. Len(list) : Remaining(list[n - 1]) <= Remaining(list[n])

(* A timer never expires early, and a periodic one keeps to the multiples   *)
(* of its interval however late the loop was.                               *)
KeepsTime == \A t \in active : Remaining(t) = IF due[t] > 0 THEN due[t] ELSE 0

(* event_loop_timer.h:83: "Stop a timer without firing its callback": none  *)
(* fires once a stop or a free was requested, though it is not served yet.  *)
Wanted(t) == t \in active /\ request[t] \notin {Stop, Free}
FiresOnlyWanted == [][\A t \in Timers : pc = "wait" /\ running' = t => Wanted(t)]_vars

(* A timer that runs fires, unless its application has more commands for    *)
(* it.                                                                      *)
EventuallyFires ==
    \A t \in Timers : []<>(t \notin active \/ request[t] # No \/ running = t)

(* event_loop.h:154: "ticks will be skipped if the event loop is busy": a   *)
(* late tick is not followed by another one that is late already.           *)
TicksSkipped == [][pc = "wait" /\ running' = "tick" => tickDue' > 0]_vars

(* event_loop_timer.h:95: "For stopped or expired timers, this function     *)
(* returns 0".                                                              *)
StoppedHasNoneLeft == \A t \in Timers : t \notin active => Remaining(t) = 0

(* event_loop_timer.h:77: "Restart a timer with the previously set          *)
(* interval", be it one that the loop did not serve yet.                    *)
RestartKeepsInterval ==
    [][\A t \in Timers : RestartTimer(t) /\ request[t].kind = "Start" => request'[t] = request[t]]_vars
=============================================================================
