# Specification of DrunkDashboard

DrunkDashboard is the firmware of a car dashboard: an STM32 that reads the CAN
bus of an engine controller and shows it on a small display, operated with two
buttons and two encoders. It is built on FURI, a layer over FreeRTOS with
threads, message queues, thread flags, timers and an event loop, and on GUI and
input services. This directory holds TLA+ models of the concurrent core of that
firmware, the TLC configurations that check them, and proofs for TLAPS.

All paths are relative to `software/src/`. A comment above each property says
what it is about. Definitions named `Fault...` are mistakes the code could have
made; none is used, they exist so that each property can be seen to fail.

## 1. The system

```
 contacts, encoders       CAN bus
      | interrupt            | interrupt
 input service,           handler -> can_rx_queue -> CAN worker thread
 timer task                                              | table (mutex)
      | pubsub, GUI queue                                v
 GUI thread --- view port ---> application thread: view dispatcher,
      |    \                   event loop, scene manager, scenes
      |     `- view port ---> dialogs thread (a view holder per dialog)
      v
   display
```

| Component | State it keeps | Operations | What makes it correct |
|---|---|---|---|
| CAN worker (`applications/user/dashboard/workers`) | hardware FIFO, `can_rx_queue`, table of at most 64 ids, drop count, thread flags | interrupt handler; fold a frame; copy a snapshot, one frame or a list of frames; start, stop, free | no frame is forgotten or counted twice; a reader sees one state of the table; stopping ends and leaves nothing |
| Input service (`applications/services/input`) | per contact: state, debounce and press counters, sequence number, timer; encoder steps | scan and debounce, publish Press/Short/Release, timer callback Long/Repeat, encoder bursts | events of a key form presses; no edge or detent is forgotten |
| GUI service (`applications/services/gui/gui.c`, `view_port.c`) | layers of ports, keys down, port of the ongoing input, mutex | route an event, redraw, add, remove and enable ports | a Release reaches the port of its Press; a removed port is not called; the screen is not left old |
| View holder, dialogs (`view_holder.c`, `applications/services/dialogs`) | a view, keys held, a message and its lock | show, wait for held keys, answer | dialogs close, the screen is given back |
| View dispatcher (`view_dispatcher.c`) | two queues of 16, keys held, view of the ongoing input, current view | handle an input, a custom event, a tick, switch views | no click shared by two views; the thread never waits on itself |
| Scene manager, scenes, list views | stack of scenes, a number per scene, cursors | next, previous, custom event, back, tick | what was chosen opens; the path is legal; the cursor stays on its id |
| Event loop (`furi/core/event_loop.c`) | tree of subscriptions, waiting list, deferred calls, notification bits | subscribe, unsubscribe, notify, pend, run, stop | nothing is lost, nothing freed is used, nothing starves |
| Timers of the loop (`event_loop_timer.c`, `event_loop_tick.c`) | sorted list of active timers, queue of commands, time of the last tick | start, restart, stop, free, expire, tick | sorted and exact across a wrap, silent once stopped |
| ECU decoder and dashboard view (`decoders`, `views/dashboard_view_dashboard.c`, `view.c`) | frames of a reading, model of the view and its mutex, page | decode, write the model, turn the page, draw row by row | a page on the screen is of one reading and not an old one; each number is the one that was sent |
| Thread life cycle (`furi/core/thread.c`, `furi/furi.c`) | state of each thread, its task, queue to the init thread | start, end, scrub, join, free | a thread that was joined is gone; each task is deleted once |
| Record (`furi/core/record.c`) | records, their holders | create, open, close, destroy | a record stays while somebody holds it |
| Memory (`furi/core/memmgr_heap.c`) | list of free blocks, counters | malloc, free | no memory is handed out twice; the blocks tile the heap |
| FURI base (`message_queue.c`, `timer.c`, `pubsub.c`) | queues, flags, timers, subscribers | put, get, set, wait, clear, publish | modelled as each component uses them |
| Settings, HAL drivers, toolbox, other drawing | | | not modelled, see 7 |

How they interact: interrupt handlers set thread flags; services exchange
events by queues, whose puts wait for ever when the queue is full; the GUI
thread calls the callbacks of view ports while it holds its mutex and the one
of the port; view callbacks of the application send custom events to a queue of
their own thread; the application calls dialogs by a message and a lock, and
blocks until the user answers; deleted timers and items are waited for through
the loop.

What is hard here: handlers that race the threads that drain what they fill;
flags that are taken together, or cleared by a read and a write; views, ports
and scenes that change while keys are held or events are on their way; threads
that wait on one another's queues; a callback that removes what is being served;
a clock that wraps and a loop that is late. `PROJECT.json` lists these hazards
at the lines where they bite, with the properties that would catch them.

## 2. Modules

| Module | Models |
|---|---|
| `CanTable` | abstract: frames wait in order, each is lost, dropped or folded into a bounded table |
| `CanWorker`, `MCCanWorker` | handler, worker, application and bus in detail; implements `CanTable` |
| `CanWorkerProofs` | theorems about `CanWorker` |
| `KeyProtocol` | abstract: the events that one key may produce |
| `InputService`, `MCInputService` | contacts, service thread, timer task, pubsub; implements `KeyProtocol` for each key |
| `InputServiceProofs` | theorems about `InputService` |
| `GuiInput`, `MCGuiInput` | GUI thread, application and dialogs thread while screens open and close |
| `GuiInputProofs` | theorems about `GuiInput` |
| `GuiWake` | thread flags of the GUI thread, redraw requests |
| `EventLoop`, `MCEventLoop` | waiting list, subscriptions, deferred calls, bits |
| `EventLoopTimer`, `MCEventLoopTimer` | timers and tick of the loop |
| `EventLoopProofs`, `EventLoopTimerProofs` | theorems about `EventLoop` and `EventLoopTimer` |
| `Navigation` | application thread: dispatcher, queues, views' cursors, scenes |
| `NavigationProofs` | theorems about `Navigation` |
| `ViewDispatcher` | any views switched, removed and freed while the GUI thread draws; the end of a run |
| `ViewHolder` | the life of a view holder and its view against draws and events |
| `Submenu` | cursor and window of rows of a list |
| `Threads` | the life of threads and the init thread |
| `Records` | the record storage and programs of threads that use it |
| `Allocator` | abstract: memory handed out is inside the heap and nobody else's |
| `Heap` | free list, first fit, split, merge, free in two steps; implements `Allocator` |
| `EcuDecoder` | the values of the controller's frames and their texts, as operators |
| `DashboardView` | decoding, page turns and drawing of the dashboard in two threads |
| `ViewsProofs` | theorems about `GuiWake`, `ViewHolder`, `Submenu`, `ViewDispatcher` and `DashboardView` |
| `FuriProofs` | theorems about `Threads`, `Records` and `Heap` |
| `MCParts` | runs `GuiWake` and the seven small components side by side, see 3 |

They meet at their interfaces. `CanWorker` gives `Navigation` snapshots (`Snapshots`): ids
in order, none lost since the last. `InputService` gives `GuiInput` presses that obey
`KeyProtocol`. `GuiInput` gives `Navigation` events of which each Press that was
given has its Release given (`PortsBalanced`), and `Navigation` lets the GUI
withhold all others while About is open. `EventLoop` gives `Navigation` the order in
which waiting objects are served (`Linked` is `furi_event_loop_item_notify`).

### CanWorker
The bus puts frames in `fifo` and raises the flags of `irq`; a full FIFO loses
the frame. `IsrEnter`, `IsrClear`, `IsrMove`, `IsrSignal`, `IsrExit` are the
parts of `dashboard_can_worker_can_isr`: the handler preempts every thread, and
frames arrive between any two of its steps. `WorkerWait` is `furi_thread_flags_wait`, which takes both flags;
`WorkerLock` to `WorkerUnlock` the drain under the mutex. `IsrMove` leaves out that the drain of the handler
ends early when a frame cannot be read (`dashboard_can_worker.c:119`): a FIFO that is not empty gives one. The application copies
entry by entry, so that a torn copy would be visible, and goes through the life
of the worker: start the thread, install the handler, stop, join, reset, free.
Counts are taken modulo `CountMod` in the refinement and payloads are model
values: the code only compares them. The length of a frame is part of its
payload.

### InputService
`level` is what the contacts show, `state` what the service believes. A pass
scans the contacts one by one (`todo`), then publishes (`outbox`), then sleeps
for a tick, or until the flag when nothing is changing. The steps of the encoders
are taken before the contacts' events are published, and shown one
detent at a time (`Detent`). Publishing takes the
mutex of the pubsub and may block on the queue of the GUI. The timer task has a
lower priority than the service thread, so it runs only while that thread is
blocked; it takes waiting commands in a batch. A key that is held at boot has a
sequence number that was never set: `LetGo` of `KeyProtocol` allows its Release
and Short without a Press. No contact has the key of an encoder (`InputAssumption`), as in
the table of pins. Left out: the length of the timer command queue and the
30-bit wrap of the sequence counter. The counter of an encoder is that of the hardware:
it turns by any `Deltas`, parts of a detent included, wraps at `CounterRange` (2^16 in
the code), and the service takes the difference to the last reading as a signed number.

### GuiInput and GuiWake
In `GuiInput` the GUI thread takes an event, routes it (`GuiRoute` is the body
of `gui_input`: keys down, port on top, port of the ongoing input) and delivers
it under its mutex, which also guards adding and removing ports. The application
either reads its queue or is inside About: it attaches a view holder (`AppAttach`, which may have to wait for the
mutex while its queue fills), sends a
message to the dialogs thread, waits for the answer, waits until its holder has
no key down, and removes its port. The dialogs thread does the same for the
dialog. The mutexes of single ports are left out (each is held only inside the
GUI's), and so are Long and Repeat, which are routed like Short and end no
dialog. The Short and Release of a contact are published one after the other and
are put together (`InputRoom(2)`).

`GuiWake` has the flags alone: `furi_thread_flags_clear` reads the flags and
then overwrites them (`thread.c:567`), in two steps.

### EventLoop and EventLoopTimer
Every line that touches the waiting list or the notification bits is a step:
`Store` and `LinkNotify` of a put, `PopWaiting`, `Check`, `Return`, `Sync` of
the loop. A freed item stays visible as an item whose `callback` reads NULL,
because freed memory is zeroed (`configHEAP_CLEAR_MEMORY_ON_FREE`). Objects are
message queues subscribed for input; a level callback takes one message, as
those of the view dispatcher do, an edge callback all of them. Output
subscriptions, semaphores and the like differ by contract only.

`EventLoopTimer` takes the clock modulo `Wrap` for 2^32. `due` is a history
variable: the time that is really left. The application starts, restarts, stops
and frees timers from any callback; with `Eager` it also restarts timers that
are not running. The loop serves commands before
it looks at expired timers, as the order of bits in `furi_event_loop_run` says.

### ViewDispatcher and ViewHolder
`Navigation` runs the dispatcher as this application uses it, with the GUI reduced to
the events it gives. `ViewDispatcher` is the other half: any views, the
GUI thread in the middle of a draw, and the operations that this application leaves out or
does once, switching to a view or to none, the drain at the end of a run, removing
and freeing views. The mutex of the GUI is explicit (`mutex`), because `RemoveLock` and the
draw callback meet there. In `ViewHolder` the poll for held
keys reads without a lock; the mutex of a view port excludes nothing there, as it is
given up after two ticks.

### DashboardView and EcuDecoder
`EcuState` is the table of `rusefi_can_decoder_decode`, `Pages` the one of the
view: which value is in which bytes, and which is on which row with how many
places. `Text` goes from the bytes to a sign and two numbers as the code does, in integers
with the division of C. `DashboardView` has the tick (`DecodeTick`, `WriteModel`,
`UpdatePort`, `AskRedraw`), page turns, which go the same way, and the GUI
thread, which reads the value of each row when it draws it (`PaintRow`). A reading is
the number of frames it was decoded from. The mutex of the port times out
(`Acquired` leaves it with its owner); the one of the model does not.

### Threads, Records, Heap
`Threads`: the body of a thread ends with its state and then a put into the scrub
queue, which may be full; `GetScrub`, `DeleteTask`, `SetStopped`, `CallStopped` are the
steps of `furi_thread_scrub` in the init thread, and owners run between any two. `Records`: each thread runs a
program of calls; `OpenRecord` counts the caller and `Ready` is the wait for the flag,
outside the mutex. Elements of the dictionary are taken to keep their address,
as those of the library used do. `Heap`: addresses are numbers, a
block is its start and size, `Wipe` and `Link` the halves of `vPortFree`.

### Navigation
`app` holds the stack of scenes, the current view and what the scenes keep.
Operators `MenuOnEnter`, `CanbusOnExit`, ... are the handlers of the scenes, `NextScene`
and `PreviousScene` those of the scene manager, which call them. `TakeInput` is
one call of `view_dispatcher_run_input_callback` with all it reaches: the
check of complementarity, the view of the ongoing input, the view's input
callback, back navigation. When the view's callback sends a custom event, the put
is a step of its own (`Send`), because the GUI thread may put and link an input
before it. `TakeEvent` is the other queue. `pc = "about"` is the time inside
`dashboard_scene_settings_about_on_enter`; its screens are those of `GuiInput`.
Detents come from the encoders as Press, Short, Release in a row and cannot be
held down; Ok and Back are contacts. The put of an input and its link to the
waiting list are one step here, two in `EventLoop`.

## 3. Runs

| Run | Asks | Bounds | Distinct states |
|---|---|---|---|
| `can_worker` | all of CanWorker, its refinement and liveness | 2 ids, 2 payloads, FIFO 2, queue 1, table 1, 3 frames | 248k |
| `input` | input service, refinement of the key protocol | 2 contacts, debounce 2, long 2, GUI queue 1, 3 edges and turns, counter of 6, turns by -3 and 1, 2 expiries | 304k |
| `gui_input` | routing, dialogs, return of the GUI thread | 3 keys, input queue 2, application queue 16, 4 presses | 532k |
| `event_loop` | safety and liveness of the loop | level and edge object, 2 items, 1 timer command, 2 deferred calls | 1.16M |
| `event_loop_timer` | timers | periodic and one-shot, intervals 1 and 2, tick 1, clock of 4, lateness 1 | 427k |
| `navigation` | scenes and dispatcher | 2 CAN ids, queues of 2, unbounded presses | 978k |
| `parts` | eight small components: `GuiWake`, `ViewHolder`, `ViewDispatcher`, `Submenu`, `Threads`, `Records`, `Heap`, `DashboardView` | see below | 148k |
| `gui_input_lockup`, `gui_wake_lost`, `event_loop_once`, `event_loop_tick`, `thread_released` | statements of the repository that the code does not keep, see 6 | | |

`MCParts` exists to run small components together. Its variable `part` names one;
only that one takes steps, the others stay at their initial states. Nothing is
composed by it: each property is about one component and holds in the behaviours
of the others for want of steps. `PartsProceed` is the conjunction of three
liveness properties, one each of `GuiWake`, `ViewDispatcher` and `DashboardView`.

Why the bounds are enough for the questions asked:
* `can_worker`: a queue smaller than the FIFO fills during one drain, a table of
  one id refuses the other, and three frames fill FIFO and queue while one is in
  the handler's or worker's hands. Every hand-over involves at most one frame
  in flight on each side.
* `input`: three edges are a bounce, a press and a release, or a press, a release
  and a new press; turns count among them, and a counter of 6 that turns by -3 and 1 wraps,
  stops between detents and turns back; two expiries are a Long and a Repeat; a queue of one makes every publication
  able to block, which is when the timer task runs.
* `gui_input`: four presses are what it takes to open About, hold a key across
  it, answer and press again. Three keys make an ongoing key, an
  answering key and an encoder step. The application queue is that of the code.
* `event_loop`: one waiting object is enough to be overtaken, and one of each
  kind of deferred work to be forgotten. Two deferred calls, because the running one is
  still in its queue: with two it can pend another, for ever. Puts are not bounded, `Producers` only
  bounds how many are between `Store` and `LinkNotify`.
* `event_loop_timer`: a clock of 4 with intervals up to 2 wraps all the time;
  `MaxLate` keeps lateness below the half that modular arithmetic needs. The
  code has the same limit at 2^32 ticks.
* `parts`: two drawers that race one clear, a queue of 2 with 3 events. Two keys,
  two views, an application queue of 2 and three presses: one key held through a
  switch, another pressed in the new view, and a queue that fills. Three threads and a
  scrub queue of one, so that two wait to be scrubbed. Lists of up to 7 items: longer than
  the four rows by more than the window moves, and shorter after a rebuild; `WordSize` 16 for 2^32, as differences
  wrap at any size. A heap of 24 with headers of 2 and requests of 1, 4 and 7
  holds several blocks with gaps on either side, and splits or does not; two tasks, because a free is the only
  call that is more than one step. The programs of `Records` are those of the services
  and the application, plus a thread `driver` that destroys its
  record and makes it again, which no thread of the program does. Two frames, one of them
  too short for the last values of its page, two turns from a page of five rows and
  one of two. `TextsTrue` needs no states: it takes every value with all
  lengths of data and bytes at their limits.
* `navigation`: no counter is bounded. Two ids are needed for one to move the
  other; queues of two because at most two custom events are ever outstanding
  (`NeverBlocksItself` at two implies it at sixteen).

`CHECK_DEADLOCK FALSE` is set where the environment is bounded (presses, edges,
events) and the system may rest once it is used up.

## 4. Fairness

* `CanWorker`: the handler and the worker run (weak); `SF` of `WorkerLock`
  because the application sleeps between its reads (a tick of 700 ms); the
  application goes on with a start, a copy or a stop it has begun. The bus need
  not deliver.
* `InputService`: service thread, timer task and the GUI's take. The scheduler
  is preemptive, and the service thread sleeps for a tick in each pass.
* `GuiInput`: the three threads, which have equal priority, and each
  key that is held is let go.
* `GuiWake`: the GUI thread, and a thread that has begun to put or to change
  what is drawn finishes.
* `ViewDispatcher`: the GUI thread and the application run, and keys are let go.
* `DashboardView`: the GUI thread draws what it was asked to, and the application
  finishes the update it began. Ticks need not come.
* `EventLoop`: the loop runs and its callbacks return; a put that stored its
  message notifies. Nothing makes producers stop. `EventuallyServed` and `StopEnds`
  have the premise `CallsRunOut`: the loop is done with its deferred calls time and again. The code
  does not guarantee that (6), so what they say is about loops whose deferred calls do not pend
  one another for ever; that of the program pends none.
* `EventLoopTimer`: time passes, callbacks return; `SF` of the wake-up for
  commands and of the time-out says that objects do not keep the loop busy for
  ever, which the code does not guarantee: timers and the tick are served only when
  the loop waits with no bit notified. `EventuallyFires` holds under that
  condition only.
* `Navigation`: the loop runs. Keys are not assumed to be let go, `Quiet` has that as its premise.

## 5. What the checks and proofs show

Checked by TLC, for the bounds above, are all properties that `PROJECT.json` lists.
The strongest:
* `CanWorker` implements `CanTable` (`ImplementsTable`): whatever the
  interleaving, the table is the fold of the frames in bus order, without those
  that a full FIFO or queue lost, all of which are accounted for.
* `InputService` implements `KeyProtocol` for each key although two threads
  publish, and once contacts rest what was published agrees with them.
* Every event leaves the GUI thread, and answered dialogs close (`NothingHangs`),
  as long as the queue of the application has room, which it need not (6).
* No event is lost and no item used after it was freed in the event loop; every
  waiting object is served however busy the other is, and a stop ends the run, as long as
  deferred calls run out (4).
* A periodic timer keeps to the multiples of its interval however late.
* In the application a click is never shared by two views; an event whose scene
  has gone changes nothing; what was under the cursor opens.
* `Heap` implements `Allocator` though a block is marked free and wiped before
  the scheduler is suspended; freed neighbours always merge.
* A record that somebody holds is not destroyed, nor is one that somebody waits for
  lost (`RecordsKept`).
* Events of a key that is held while views are switched go to the view that saw it go
  down (`Balanced`), and a dispatcher that was stopped ends its drain once keys are let go.
* The rows on the screen are of one page of one reading, though the mutex of the
  port may be done without, and none is old while the GUI rests (`ReadingsDrawn`).
  Every value of the decoder is on exactly one page, with as many places as its name has
  units, and its text is less than one of its last digit from what was sent.

Proved with TLAPS, for all values of the constants:

| Theorem | Says | Rests on |
|---|---|---|
| `CanWorkerProofs!TypeCorrect` | type correctness | `CanAssumption`, lemma `UpdateInsertType` |
| `NoFrameForgotten` | `Watched` (`FifoWatched` and `QueueWatched`) | itself inductive given `Lifecycle`, which ties the states of application, thread and handler |
| `ReadsConsistent` | `ReadConsistent` | mutual exclusion of reader and drain: the table only changes while the worker holds the mutex |
| `ShutdownClean` | `StopClean` | `Lifecycle` |
| `FramesConserved` | `Conservation` | per step, the change of each counter; cardinality and length lemmas |
| `TableStaysBounded` | `TableBounded` (in no run of its own; `ImplementsTable` implies it) | a refused id leaves the table alone |
| `ChangesAnnounced` | `Announced` | the change is remembered from the fold to the callback |
| `TableImplemented` | `ImplementsTable`: `CanWorker` implements `CanTable` | per step, what waits (the queue, then the FIFO) and the table change as in a step of `CanTable`; `TableInvariant`, and a count of the messages taken modulo its width (`FoldIsCount`) |
| `GuiInputProofs!GuiInputTypeCorrect` | type correctness | `InputRoom` |
| `ScreenGivenBack` | `ScreenRestored` | invariant `OnScreen`: which ports are in the layer in each state of the two threads |
| `AlternationHolds` | events of a key alternate on their way to the GUI | every suffix of the queue from a Press on |
| `NoCallAfterRemoval` | `TargetAttached` | invariant `Routing` |
| `ReleaseReachesPort` | `PortsBalanced` | `Routing` and `Alternation` |
| `ViewsProofs!WakeTypeCorrect`, `ScreenNeverOld` | `TypeOK` (in no run of its own) and `ScreenFresh` | `RedrawDue`: a request is in the flags, taken, or the redraw is to come |
| `HolderInvariant`, `HolderUseSafe` | `UseSafe` | a callback runs with the mutex of the GUI and only for an attached port; nothing is freed while it is attached |
| `CursorStaysVisible` | `CursorVisible` | `CursorInv`: the window begins above the cursor, or at the top |
| `ViewsInvariant`, `DispatcherViewsAlive` | `ViewsAlive` | `Shares`, who has the mutex of the GUI and why; `Registered`, no pointer to a view that was removed |
| `DispatcherBalanced` | `Balanced` | `BalanceInv`: on the way to the view and in its queue every Press of a key is followed by its Release, or the Release is still owed (`Alternates`); keys the target saw go down are among those |
| `DrawingInvariant`, `ReadingsAreDrawn` | `ReadingsDrawn`, assuming `TextsTrue` | the rows drawn so far are a prefix of the texts of one page of the locked model; a model that is not on the screen has a request to come |
| `FuriProofs!ThreadsInvariant`, `ThreadsJoinedIsGone` | `JoinedIsGone` | `OnePlace`: a thread that ends is in one place, suspended in its put, in the queue, or in the hands of the init thread; `StateAgrees` |
| `RecordsInvariant`, `RecordsNeverLost` | `RecordsKept` | `RecordsInv`: the count of holders of a record is that of the calls the programs are behind with |
| `HeapInvariant`, `HeapAlwaysWellFormed` | `HeapWellFormed` | `HeapInv`, in terms of addresses: each is free or in exactly one block that was handed out |
| `HeapIsAllocator` | `ImplementsAllocator`: `Heap` implements `Allocator` | the same, per step: a first fit allocates, the wipe of a freed block frees, the rest changes nothing |
| `EventLoopProofs!EventLoopTypeCorrect` | types of all variables; nothing twice in the waiting list | lemmas on `Append`, `RemoveAt`, `Tail` of a sequence without duplicates |
| `LoopRemembersWork` | `WorkRemembered`, assuming `MaxRuns = 1` | `WorkInv`: bits that were taken are given back before the loop waits |
| `LoopItemsAlive` | `ItemsAlive`, assuming `Once = {}` | `AliveInv`: only the item in the tree of an object waits; the one at hand is that or an orphan |
| `LoopLosesNoEvent` | `NoEventLost`, assuming `Once = {}` | itself inductive given `AliveInv` |
| `EventLoopTimerProofs!TimerInvariant`, `FrontIsFirst`, `TimersKeepTime` | `FrontExpiresFirst`, `KeepsTime`, assuming `~ Eager` | `TimerInv`: what the clock says has passed and the time left to a timer add up to its interval; arithmetic modulo any width |
| `NoUnwantedCallback` | `FiresOnlyWanted`, assuming `~ Eager` | the same: when the loop looks at the clock no request waits |
| `InputServiceProofs!InputInvariant`, `NothingIsMissed` | `NothingMissed` | `SettleInv`: a contact that differs from its debounced state is to be looked at, in this pass or the next; `StepsInv`: the counts turned are those shown, taken, on the way and left over |
| `KeyProtocolImplemented` | `ImplementsKeyProtocol`: `InputService` implements `KeyProtocol` | `ProtocolInv`, see below |
| `NavigationProofs!NavInvariant`, `ScenesArePath` | `PathLegal` | `NavInv`, see below |
| `RoomForOwnEvent` | `NeverBlocksItself` | `QueuesInv` of `NavInv`: the loop serves both queues in turn, so an input that sends an event is handled while at most one waits |
| `ChosenOpens` | `OpensChosen` | `EventsInv` of `NavInv`: the choice of an event that waits is the one its scene has stored, and where an input may come before its handler, the one under the cursor |
| `ListKeepsSelection` | `SelectionKept` | `ListInv`, see below |
| `ClicksAreWhole` | `ClickWhole` | `WholeInv`, see below |

What is assumed beyond the `ASSUME` of a module is assumed by the passing run as well, and each is
needed. With one-time subscriptions `ItemsAlive` fails (`event_loop_once`), with a second run
`WorkRemembered` does (6). With `Eager` a timer may be restarted before its first start was
served, with an interval of zero (6). `TextsTrue` is a constant formula about the decoder and
the pages: it needs no step of the system, only values of bytes, and TLC evaluates it.
The `ASSUME`s ask little of the code. `EventLoopTimerAssumption` wants no timer named like the tick
and an interval and a lateness that together stay below the width of the clock.
`NavigationAssumption` wants a queue of at least two for custom events; that of the code has sixteen, and
`NeverBlocksItself` fails with one. `ProgramAssumption` of `Records` is the contract of `record.h`: a
thread closes what it opened, and destroys what it made, of which there is one maker.

The invariants the runs check are not inductive by themselves. `FifoWatched`
needs to know that a handler is installed only while the worker can run
(`Lifecycle`). `PortsBalanced` needs to know that a Release in the queue belongs to a key
that is down at the GUI (`Alternation`), which in turn needs a statement about
every position of the queue, not only its head. `HeapWellFormed` needs to know where the
blocks in use are: a block that comes back has free neighbours at most at its ends, so the sorted list
has one place for it. `FrontExpiresFirst` needs the
lateness of each timer: the order of the list is kept by the passing of time only because no
timer is a whole turn of the clock late.

`NavInv` relates the stack of scenes, the current view, the number each scene keeps, the cursors and
both queues. Its core is about the handlers of the scenes, `Moves`: every
chain of exits and enters that a key, an event or the return from About starts leads from a
scene to its parent or to a child, with the view and the number of the new top. What
waits in the queue of custom events is bound to what its scene has stored
(`EventsInv`), wherever the stack has gone since it was sent. `ListInv` adds two layers for the list of ids: a Short of Ok that the list took
has its Release next in the queue, so no key comes between a choice and its opening (`ClickInv`),
and the choice is the id under the cursor until it opens (`ChoiceInv`). `WholeInv` adds that while
another view is shown than the one the held keys belong to, no event that waits is of the scene on top
(`AwayInv`): nothing can bring that view back before the keys are let go, so a key that is pressed
elsewhere in between, and not delivered, is never held in the view that comes back. For this at most one event may
wait when a scene is left, but on the dashboard, the only view whose Ok repeats (`PairInv`).

`ProtocolInv` says what each key has shown as a function of what is still to come: the events
of it that wait to be published, by the service thread or by the timer task, complete its last press in
order. That the timer task cannot add a Long after the Release is
`TimerOf`: a timer runs, or is in the hands of the task, only while its contact is held or the release of it
waits for the thread to stop it.

Only model-checked is liveness, and with it the absence of deadlock, as neither temporal fairness nor
`ENABLED` is within reach of the prover: `EveryWaitEnds`, `ReportsSettle`, `NothingHangs`,
`EventuallyServed`, `StopEnds`, `EventuallyFires`, `Quiet` and `PartsProceed`. Every other property
of a passing run is a theorem, a few under the assumptions named above. `TextsTrue`, which `ReadingsAreDrawn` assumes, is
evaluated by TLC, as said above.

## 6. Where code and documentation differ

Each of these is a run in which TLC finds a behaviour of the code that
contradicts a line of the repository.

* `event_loop_once`: a one-time subscription is freed (`event_loop.c:123`)
  before the loop uses its item; `current_item`, which would defer that, is set
  three lines later. `event_loop.h:92` describes the flag. Nothing in the program uses it.
* `gui_wake_lost`: an INPUT flag set between the read and the write of
  `furi_thread_flags_clear` is erased, and the event stays in the queue until
  the next one (`gui.c:561`: "Process till queue become empty"). For the DRAW
  flag the same race is harmless, which `ScreenNeverOld` proves.
* `gui_input_lockup`: with About open and keys held, Releases can fill the
  application's queue; the GUI thread then waits, in the put of `view_dispatcher.c:248` and
  with its mutex held, for an application that waits for that mutex, to attach its
  view holder, or for a dialog that needs it. Events go on to come in, and none is processed:
  `ProcessedTillEmpty` is the comment on the loop around `gui_input` (`gui.c:561`: "Process till
  queue become empty"). The run uses a queue of 5 to keep
  the trace short; the mechanism does not depend on the length.
* `event_loop_tick`: ticks missed while a callback was busy are made up for
  one after the other (`event_loop.h:154`: "ticks will be skipped"). The
  dashboard meets this after About, which blocks the loop for as long as the user reads.
* `thread_released`: `furi_thread_set_state` writes Stopped and then reads the state
  callback of the thread (`thread.c:96`), which its owner may have freed by then: the init
  thread has the lowest priority, and `thread.h:24` says of Stopped "It is safe to
  release thread instance". `JoinedIsGone` is about the task and does hold.

Others were seen while modelling and are stated in the modules, but no run
depends on them:
* `FlagRemembered` (`event_loop.c:245`, `event_loop.h:316`): a thread flag bit
  taken together with a deferred call is dropped. Refuted in `event_loop`'s instance.
* a loop that is stopped with objects waiting and run again sleeps on them
  (`event_loop.c:232`): `EventuallyServed` fails with `MaxRuns = 2`.
* `StoppedHasNoneLeft` (`event_loop_timer.c:207`, `event_loop_timer.h:95`): a
  stopped timer does not report 0.
* `RestartKeepsInterval` (`event_loop_timer.c:193`, `event_loop_timer.h:77`):
  restart of a timer that was never started, or was stopped, uses an interval of
  0, by which line 133 later divides; refuted with `Eager = TRUE`. A periodic timer that is
  started with 0 comes to the same division: `furi_event_loop_timer_start` does not check its
  argument (line 184). `Intervals` leaves 0 out (`EventLoopTimerAssumption`); the program has no timer of this kind.

And some in words only:
* Short is published before Release (`input_srv`, `input.c:170`), `input.h:24` says after.
* A deferred call may pend another, and the loop makes calls until there are none
  (`event_loop.c:193`): one that always pends keeps it from objects, timers and the stop that
  `furi_event_loop_stop` asks for. Without their premise `CallsRunOut`, `EventuallyServed` and
  `StopEnds` are refuted in `event_loop`'s instance. No doc claims the contrary, and nothing in the
  program pends a call.
* A deferred call that sends a timer command and then pends another call: that one is made in
  the same round (`event_loop.c:194`), before the command is served. `event_loop.h:180` says
  "when all preceding timer commands are processed".
* `realloc` copies as many bytes as were asked for from a block that may have fewer
  (`memmgr.c:28`).
* The removal of a view takes the mutex of the GUI, which the GUI thread may hold while it
  waits for room in the queue of the thread that removes: the wait of
  `gui_input_lockup` in another place. The run of the dashboard never ends, so it does not meet it.
* `furi_mutex_release` gives the mutex and then uses it to notify an event loop. In
  `pipe_free` the other side may free it in between; the program uses no pipe.
* `variable_item_list_reset` leaves the position where it was; the one list of the
  program has one item.

## 7. Not modelled, and why

Drawing (canvas, elements, icons, labels, the view of one CAN frame), strings, logging
and crash handling: sequential, and about layout. Clock, power, GPIO, ADC and
display set-up: register writes. Vendored code (u8g2, CMSIS, FreeRTOS): modelled
only through its use. GUI modules the application does not use. Build files,
scripts, assets, hardware. Inside modelled components: output subscriptions of
the event loop, the desktop and status bar layers, lockdown and direct draw,
view orientation (all views of the program share one), the backlight value, `realloc`, the pool and the traces of
the heap and its stop when memory runs out, search and switch of the scene
manager (no scene uses them), and the window of the variable item list, which
repeats the submenu's. Serial acquisition, I2C, SPI and bus counts and pipes have
operations that could race, but nothing in the program calls them from two threads, so
there is no use of them to model. Event flags serve the lock of a dialog's
message only, which is one step in `GuiInput`.

Most lines of the repository are vendored: fonts and drivers of u8g2, register headers
and CMSIS. No model stands for them.

## 8. Plan

Done so far: the CAN path, input, GUI and dialogs, event loop and timers,
navigation, view dispatcher and holder, lists, threads, records, heap, and the
dashboard from the bytes of a frame to the row on the screen. What is left, in
this order:

1. The composition of `DashboardView` with `CanWorker`, in place of the one step that
   copies the frames.
2. Output subscriptions and the contracts of semaphores, mutexes and event flags in the
   event loop, with the pipe as their user.
3. Scene manager: search and switch.
4. HAL: the interrupt table, serial handles, bus reference counts, once the
   program uses them.

Modules to be proved about declare no RECURSIVE operator and name the parts of
their invariants. Out of the prover's reach are liveness, `ENABLED` and
induction over data; those stay with TLC.

## 9. Running

`tlc -workers 2 -config X.cfg M` for each run of `PROJECT.json` (each takes at
most about two and a half minutes), `tlapm M.tla` for the eight proof modules. `Allocator`,
`CanTable` and `KeyProtocol` are only instantiated.
