------------------------------ MODULE EventLoop ------------------------------
(***************************************************************************)
(* furi_event_loop: one thread that waits for its objects (message queues, *)
(* subscribed for In events), for deferred calls, timer commands, thread   *)
(* flags and for a stop, while other threads and interrupts put messages   *)
(* and set flags.  What the loop has to look at is a set of notification   *)
(* bits of its task; which objects, a waiting list of subscription items.  *)
(*                                                                         *)
(* Critical sections are single steps.  A put stores its message and then  *)
(* notifies the item its object is linked to.  A callback of a level item  *)
(* takes one message, as those of the view dispatcher do, one of an edge   *)
(* item takes all; either may use the API of the loop.  Timer commands are *)
(* counted only (EventLoopTimer has the timers).  Faults are Fault...      *)
(***************************************************************************)
EXTENDS Naturals, Sequences, FiniteSets, SequencesExt

CONSTANTS
    Objects,      (* the message queues                                     *)
    Edge,         (* those subscribed with FuriEventLoopEventFlagEdge       *)
    Once,         (* those subscribed with FuriEventLoopEventFlagOnce       *)
    Capacity,     (* of each queue                                          *)
    Producers,    (* bound: puts into a queue at the same time              *)
    MaxItems,     (* bound: subscriptions                                   *)
    MaxCommands,  (* bound: timer commands                                  *)
    MaxPends,     (* bound: deferred calls that wait or run                 *)
    MaxRuns       (* bound: runs of the loop                                *)

ASSUME EventLoopAssumption ==
    /\ Edge \subseteq Objects /\ Once \subseteq Objects
    /\ Capacity \in [Objects -> Nat \ {0}]
    /\ {Producers, MaxItems, MaxCommands, MaxPends, MaxRuns} \subseteq Nat

VARIABLES
    level,     (* messages in each queue                                    *)
    storing,   (* puts that stored their message and did not notify yet     *)
    item,      (* instance->tree and the links: the item of each object     *)
    fate,      (* "unused", "owned", "orphan" (owner is NULL) or "freed"    *)
    object,    (* the object of each item                                   *)
    waiting,   (* instance->waiting_list                                    *)
    notified,  (* the notification bits of the task                         *)
    pc,        (* where the thread of the loop is                           *)
    flags,     (* bits taken and not handled in this pass                   *)
    current,   (* the item at hand                                          *)
    pending,   (* calls in instance->pending_queue, the running one included *)
    commands,  (* timer commands so far                                     *)
    served,    (* those processed                                           *)
    unseen,    (* objects with an event since their callback last began     *)
    runs       (* runs so far                                               *)

queues == <<level, storing>>
items == <<item, fate, object>>
counts == <<pending, commands, served>>
loop == <<pc, flags, current, runs>>
vars == <<queues, items, waiting, notified, loop, counts, unseen>>

Items == 1 .. MaxItems
NoItem == 0
Flags == {"Event", "Stop", "Timer", "Pending", "ThreadFlag"}
-----------------------------------------------------------------------------
Init ==
    /\ level = [o \in Objects |-> 0] /\ storing = [o \in Objects |-> 0]
    /\ item = [o \in Objects |-> NoItem] /\ object = [i \in Items |-> "none"]
    /\ fate = [i \in Items |-> "unused"]
    /\ waiting = <<>> /\ notified = {}
    /\ pc = "stopped" /\ flags = {} /\ current = NoItem /\ runs = 0
    /\ pending = 0 /\ commands = 0 /\ served = 0
    /\ unseen = {}

(* furi_event_loop_item_notify: an item waits once.                         *)
FaultQueued(i) == IF i \in ToSet(waiting) THEN waiting ELSE <<i>> \o waiting
Queued(i) == IF i \in ToSet(waiting) THEN waiting ELSE Append(waiting, i)
(* WaitingList_unlink                                                       *)
Unlinked(i) ==
    IF i \in ToSet(waiting)
    THEN RemoveAt(waiting, CHOOSE n \in 1 .. Len(waiting) : waiting[n] = i) ELSE waiting
ItemNotify(i) == waiting' = Queued(i) /\ notified' = notified \cup {"Event"}
-----------------------------------------------------------------------------
(* Other threads and interrupts.                                            *)
Room(o) == level[o] < Capacity[o]

Store(o) ==
    /\ storing[o] < Producers /\ Room(o)
    /\ level' = [level EXCEPT ![o] = @ + 1]
    /\ storing' = [storing EXCEPT ![o] = @ + 1]
    /\ UNCHANGED <<items, waiting, notified, loop, counts, unseen>>

LinkNotify(o) ==
    /\ storing[o] > 0
    /\ storing' = [storing EXCEPT ![o] = @ - 1]
    /\ IF item[o] # NoItem
       THEN ItemNotify(item[o]) /\ unseen' = unseen \cup {o}
       ELSE UNCHANGED <<waiting, notified, unseen>>
    /\ UNCHANGED <<level, items, loop, counts>>

SetThreadFlag ==
    /\ notified' = notified \cup {"ThreadFlag"}
    /\ UNCHANGED <<queues, items, waiting, loop, counts, unseen>>

RequestStop ==
    /\ notified' = notified \cup {"Stop"}
    /\ UNCHANGED <<queues, items, waiting, loop, counts, unseen>>
-----------------------------------------------------------------------------
(* Code of the application in the thread of the loop: before a run, in a    *)
(* callback of an object, of a thread flag, or in a deferred call.          *)
UserCode == pc \in {"stopped", "callback", "flag", "call"}

Subscribe(o) ==
    /\ UserCode /\ item[o] = NoItem
    /\ \E i \in Items :
          /\ fate[i] = "unused" /\ \A j \in 1 .. i - 1 : fate[j] # "unused"
          /\ item' = [item EXCEPT ![o] = i]
          /\ object' = [object EXCEPT ![i] = o]
          /\ fate' = [fate EXCEPT ![i] = "owned"]
          /\ IF o \notin Edge /\ level[o] > 0 THEN ItemNotify(i) ELSE UNCHANGED <<waiting, notified>>
    /\ unseen' = unseen \ {o}
    /\ UNCHANGED <<queues, loop, counts>>

(* furi_event_loop_unsubscribe while the loop processes item c: that item   *)
(* is freed after its callback.                                             *)
FaultForget(o, c) ==
    /\ item' = [item EXCEPT ![o] = NoItem]
    /\ fate' = [fate EXCEPT ![item[o]] = "freed"]
Forget(o, c) ==
    /\ item' = [item EXCEPT ![o] = NoItem]
    /\ fate' = [fate EXCEPT ![item[o]] = IF item[o] = c THEN "orphan" ELSE "freed"]

Unsubscribe(o) ==
    /\ UserCode /\ item[o] # NoItem
    /\ Forget(o, current)
    /\ waiting' = Unlinked(item[o])
    /\ UNCHANGED <<object, queues, notified, loop, counts, unseen>>

PendCallback ==
    /\ UserCode /\ pending < MaxPends
    /\ pending' = pending + 1
    /\ notified' = notified \cup {"Pending"}
    /\ UNCHANGED <<queues, items, waiting, loop, commands, served, unseen>>

TimerCommand ==
    /\ UserCode /\ commands < MaxCommands
    /\ commands' = commands + 1
    /\ notified' = notified \cup {"Timer"}
    /\ UNCHANGED <<queues, items, waiting, loop, pending, served, unseen>>
-----------------------------------------------------------------------------
(* furi_event_loop_run                                                      *)
Run ==
    /\ pc = "stopped" /\ runs < MaxRuns
    /\ pc' = "wait" /\ runs' = runs + 1
    /\ UNCHANGED <<queues, items, waiting, notified, flags, current, counts, unseen>>

(* The wait takes every bit; the first of them in this order is handled.    *)
FaultChosen == CHOOSE f \in notified : f = "Event" \/ "Event" \notin notified
Chosen ==
    LET order == <<"Stop", "Event", "Timer", "Pending", "ThreadFlag">>
        first == CHOOSE n \in 1 .. 5 : order[n] \in notified /\ \A m \in 1 .. n - 1 : order[m] \notin notified
    IN  order[first]

(* The bits that are set again when the one handled is f.                   *)
FaultRestored(f, bits) == {}
Restored(f, bits) == IF f \in {"Event", "Timer"} THEN bits \ {f} ELSE {}

Wait ==
    /\ pc = "wait" /\ notified # {}
    /\ LET f == Chosen
       IN  /\ pc' = CASE f = "Stop" -> "stopped" [] f = "Event" -> "event" [] f = "Timer" -> "wait"
                      [] f = "Pending" -> "pending" [] f = "ThreadFlag" -> "flag"
           /\ served' = IF f = "Timer" THEN commands ELSE served
           /\ notified' = IF f = "Timer" THEN Restored(f, notified) ELSE {}
           /\ flags' = IF f = "Event" THEN Restored(f, notified) ELSE {}
    /\ UNCHANGED <<queues, items, waiting, current, runs, pending, commands, unseen>>

(* furi_event_loop_get_waiting_item, and the unsubscription of a one-time   *)
(* item, which is not the current item yet and is freed.                    *)
PopWaiting ==
    /\ pc = "event" /\ waiting # <<>>
    /\ LET i == Head(waiting)
           o == object[i]
       IN  /\ current' = i
           /\ IF o \in Once THEN Forget(o, NoItem) ELSE UNCHANGED <<item, fate>>
    /\ waiting' = Tail(waiting)
    /\ pc' = "check"
    /\ UNCHANGED <<queues, object, notified, flags, runs, counts, unseen>>

NoneWaiting ==
    /\ pc = "event" /\ waiting = <<>>
    /\ notified' = notified \cup flags /\ flags' = {}
    /\ pc' = "wait"
    /\ UNCHANGED <<queues, items, waiting, current, runs, counts, unseen>>

(* The item is read, and its callback begins.  A freed item is all zeros.   *)
Check ==
    /\ pc = "check"
    /\ LET o == object[current]
       IN  IF fate[current] = "freed"
           THEN pc' = "crashed" /\ UNCHANGED <<level, unseen>>
           ELSE IF o \in Edge \/ level[o] > 0
           THEN /\ pc' = "callback" /\ unseen' = unseen \ {o}
                /\ level' = [level EXCEPT ![o] = IF o \in Edge THEN 0 ELSE @ - 1]
           ELSE pc' = "sync" /\ UNCHANGED <<level, unseen>>
    /\ UNCHANGED <<storing, items, waiting, notified, flags, current, runs, counts>>

(* After the callback a level item with messages left goes to the back of   *)
(* the waiting list, one that was unsubscribed is freed.                    *)
FaultBack(i) == UNCHANGED <<waiting, notified>>
Back(i) == ItemNotify(i)
Return ==
    /\ pc = "callback" /\ pc' = "sync"
    /\ LET o == object[current]
       IN  /\ fate' = IF fate[current] = "orphan" THEN [fate EXCEPT ![current] = "freed"] ELSE fate
           /\ IF fate[current] = "owned" /\ o \notin Edge /\ level[o] > 0
              THEN Back(current) ELSE UNCHANGED <<waiting, notified>>
    /\ UNCHANGED <<queues, item, object, flags, current, runs, counts, unseen>>

Synced == IF waiting # <<>> THEN notified \cup {"Event"} ELSE notified
Sync ==
    /\ pc = "sync" /\ pc' = "wait"
    /\ notified' = Synced \cup flags /\ flags' = {}
    /\ current' = NoItem
    /\ UNCHANGED <<queues, items, waiting, runs, counts, unseen>>

FlagReturn ==
    /\ pc = "flag" /\ pc' = "wait"
    /\ UNCHANGED <<queues, items, waiting, notified, flags, current, runs, counts, unseen>>

(* furi_event_loop_process_pending_callbacks                                *)
Call ==
    /\ pc = "pending" /\ pc' = IF pending = 0 THEN "wait" ELSE "call"
    /\ UNCHANGED <<queues, items, waiting, notified, flags, current, runs, counts, unseen>>

CallReturn ==
    /\ pc = "call" /\ pc' = "pending"
    /\ pending' = pending - 1
    /\ UNCHANGED <<queues, items, waiting, notified, flags, current, runs, commands, served, unseen>>
-----------------------------------------------------------------------------
User == (\E o \in Objects : Subscribe(o) \/ Unsubscribe(o)) \/ PendCallback \/ TimerCommand
Loop ==
    \/ Wait \/ PopWaiting \/ NoneWaiting \/ Check \/ Return \/ Sync \/ FlagReturn \/ Call
    \/ CallReturn
Others == (\E o \in Objects : Store(o) \/ LinkNotify(o)) \/ SetThreadFlag \/ RequestStop
Next == Run \/ User \/ Loop \/ Others

Spec == Init /\ [][Next]_vars
(* The thread of the loop gets the processor, its callbacks return, and a   *)
(* put that stored its message notifies.                                    *)
FairSpec == Spec /\ WF_vars(Loop) /\ \A o \in Objects : WF_vars(LinkNotify(o))
-----------------------------------------------------------------------------
TypeOK ==
    /\ level \in [Objects -> Nat] /\ \A o \in Objects : level[o] <= Capacity[o]
    /\ storing \in [Objects -> 0 .. Producers]
    /\ item \in [Objects -> Items \cup {NoItem}] /\ object \in [Items -> Objects \cup {"none"}]
    /\ fate \in [Items -> {"unused", "owned", "orphan", "freed"}]
    /\ waiting \in Seq(Items) /\ notified \subseteq Flags
    /\ pc \in {"stopped", "wait", "event", "check", "callback", "sync", "flag", "pending", "call",
               "crashed"}
    /\ flags \subseteq Flags /\ current \in Items \cup {NoItem} /\ runs \in 0 .. MaxRuns
    /\ pending \in 0 .. MaxPends /\ commands \in 0 .. MaxCommands
    /\ served \in 0 .. commands
    /\ unseen \subseteq Objects

(* event_loop.c:124 and 126: an item is freed while the loop holds it, or   *)
(* while it waits.  Items in the list, the tree and the loop's hand are not *)
(* freed.                                                                   *)
ItemsAlive ==
    /\ \A i \in ToSet(waiting) : fate[i] = "owned" /\ item[object[i]] = i
    /\ \A o \in Objects : item[o] # NoItem => fate[item[o]] = "owned" /\ object[item[o]] = o
    /\ pc \in {"check", "callback"} => fate[current] \in {"owned", "orphan"}

(* A level event is reported until the level is zero, an edge event after   *)
(* every change: an object with something to report waits, or is at hand,   *)
(* or a put into it is about to notify.                                     *)
Reported(o) ==
    \/ item[o] \in ToSet(waiting)
    \/ item[o] = current /\ pc \in (IF o \in Edge THEN {"check"} ELSE {"check", "callback"})
    \/ o \notin Edge /\ storing[o] > 0
NoEventLost ==
    \A o \in Objects : item[o] # NoItem /\ (IF o \in Edge THEN o \in unseen ELSE level[o] > 0)
        => Reported(o)

(* The loop never sleeps on work: waiting items, timer commands or deferred *)
(* calls, whatever bits were notified together.                             *)
Remembered == notified \cup flags
WorkRemembered ==
    /\ TypeOK
    /\ pc = "wait" =>
        /\ waiting # <<>> => "Event" \in Remembered
        /\ served < commands => "Timer" \in Remembered
        /\ pending > 0 => "Pending" \in Remembered

(* event_loop.h:316, the callback is called "when a flag has been set": the *)
(* bit of a thread flag that was set is kept until the callback.            *)
FlagRemembered ==
    []["ThreadFlag" \in Remembered
         => "ThreadFlag" \in Remembered' \/ pc' \in {"flag", "stopped"}]_vars

(* Deferred calls come to an end: they do not pend one another for ever.    *)
(* The loop goes on with them until there are none (event_loop.c:194), and  *)
(* looks at no object and at no stop before that.                           *)
CallsRunOut == []<>(pc \notin {"pending", "call"})

(* event_loop.h:78: "the event will be generated repeatedly until the level *)
(* becomes zero", however busy the other objects are, as long as deferred   *)
(* calls run out.                                                           *)
EventuallyServed ==
    CallsRunOut =>
        \A o \in Objects \ Edge :
            (item[o] # NoItem /\ level[o] > 0 /\ pc # "stopped")
                ~> \/ item[o] = NoItem \/ level[o] = 0 \/ pc = "stopped"
                   \/ pc = "callback" /\ object[current] = o

(* A stop ends the run, however busy the objects, timers and flags keep the *)
(* loop, as long as deferred calls run out.                                 *)
StopEnds == CallsRunOut => (("Stop" \in notified /\ pc # "stopped") ~> (pc = "stopped"))
=============================================================================
