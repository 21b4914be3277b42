----------------------------- MODULE CanWorker -----------------------------
(***************************************************************************)
(* The CAN receive path of the dashboard: the FDCAN peripheral with its    *)
(* three-element receive FIFO and its interrupt flags, the interrupt       *)
(* handler that moves frames into a message queue, the worker thread that  *)
(* folds queued frames into a table of the last frame of every CAN id, and *)
(* the application thread that starts the worker, reads the table under    *)
(* the mutex, and finally stops, joins and frees the worker.               *)
(*                                                                         *)
(* The MCU has one core: while the handler runs no thread takes a step,    *)
(* but the bus keeps delivering frames between any two of its accesses.    *)
(*                                                                         *)
(* A definition named Fault... is a deliberate fault that stands next to   *)
(* the definition it would replace: no action uses it, it serves to check  *)
(* that the properties would notice such a change of the code.             *)
(***************************************************************************)
EXTENDS Naturals, Sequences, FiniteSets

CONSTANTS
    Ids,          (* CAN identifiers on the bus                             *)
    Payloads,     (* length and data bytes of a frame, compared as a whole  *)
    FifoSize,     (* elements of the hardware receive FIFO                  *)
    QueueSize,    (* CAN_RX_QUEUE_SIZE                                      *)
    MaxIds,       (* DASHBOARD_CAN_MAX_IDS                                  *)
    CountMod,     (* rx_count is a uint32_t: counts modulo 2^32             *)
    MaxArrivals   (* bound: frames the bus delivers in one behaviour        *)

ASSUME CanAssumption ==
    /\ FifoSize \in Nat \ {0}
    /\ QueueSize \in Nat \ {0}
    /\ MaxIds \in Nat \ {0}
    /\ CountMod \in Nat \ {0}
    /\ MaxArrivals \in Nat

VARIABLES
    fifo,        (* hardware receive FIFO 0, oldest frame first             *)
    irq,         (* raised flags of the peripheral: "new", "full", "lost"   *)
    isrOn,       (* a handler is installed and the NVIC line is enabled     *)
    isr,         (* program counter of the interrupt handler                *)
    isrSeen,     (* flags the handler read on entry (rx_fifo0_new / _full)  *)
    isrGot,      (* message_received                                        *)
    queue,       (* can_rx_queue                                            *)
    dropped,     (* can_rx_dropped                                          *)
    flags,       (* notification bits of the worker thread                  *)
    wpc,         (* program counter of the worker thread                    *)
    updated,     (* data_updated of dashboard_can_worker_process_rx_queue   *)
    mutex,       (* holder of can_messages_mutex                            *)
    table,       (* can_messages: id -> [rx, last]                          *)
    app,         (* program counter of the application thread               *)
    want,        (* ids the running read has not copied yet                 *)
    out          (* entries the running read has copied                     *)

(* History: what the bus delivered and what became of it.                   *)
VARIABLES arrived, overrun, processed, discarded, announced

hw == <<fifo, irq>>
isrVars == <<isr, isrSeen, isrGot>>
worker == <<wpc, updated>>
reader == <<want, out>>
history == <<arrived, overrun, processed, discarded, announced>>
vars == <<fifo, irq, isrOn, isr, isrSeen, isrGot, queue, dropped, flags, wpc, updated,
          mutex, table, app, want, out, arrived, overrun, processed,
          discarded, announced>>
-----------------------------------------------------------------------------
Frame == [id : Ids, data : Payloads]
Entry == [rx : 0 .. CountMod - 1, last : Payloads]

EmptyTable == [i \in {} |-> 0]

(* What the data-updated callback is about: ids and payloads, not counts.   *)
Content(t) == [i \in DOMAIN t |-> t[i].last]

(* dashboard_can_worker_update_insert_message: the table after one frame.   *)
(* An unknown id is refused, silently, once the table is full.              *)
Refused(t, f) == f.id \notin DOMAIN t /\ Cardinality(DOMAIN t) >= MaxIds

FaultNextCountSaturated(t, i) ==
    IF i \in DOMAIN t /\ t[i].rx = CountMod - 1
    THEN t[i].rx
    ELSE (IF i \in DOMAIN t THEN t[i].rx ELSE 0) + 1
NextCount(t, i) == ((IF i \in DOMAIN t THEN t[i].rx ELSE 0) + 1) % CountMod

UpdateInsert(t, f) ==
    IF Refused(t, f)
    THEN t
    ELSE [i \in DOMAIN t \cup {f.id} |->
            IF i = f.id THEN [rx |-> NextCount(t, i), last |-> f.data] ELSE t[i]]

(* Its return value: a new id, or other data than the last frame's.         *)
FaultDataUpdatedKnownOnly(t, f) == f.id \in DOMAIN t /\ t[f.id].last # f.data
DataUpdated(t, f) ==
    /\ ~Refused(t, f)
    /\ f.id \in DOMAIN t => t[f.id].last # f.data

(* What a reader finds for id i; NotFound is found[i] = false.              *)
NotFound == [rx |-> 0, last |-> "none"]
Lookup(t, i) == IF i \in DOMAIN t THEN t[i] ELSE NotFound

Init ==
    /\ fifo = <<>> /\ irq = {} /\ isrOn = FALSE
    /\ isr = "idle" /\ isrSeen = {} /\ isrGot = FALSE
    /\ queue = <<>> /\ dropped = 0 /\ flags = {}
    /\ wpc = "none" /\ updated = FALSE
    /\ mutex = "free" /\ table = EmptyTable
    /\ app = "created" /\ want = {} /\ out = EmptyTable
    /\ arrived = 0 /\ overrun = 0 /\ processed = 0 /\ discarded = 0
    /\ announced = EmptyTable
-----------------------------------------------------------------------------
(* The peripheral, as furi_hal_fdcan_init configures it: every frame goes   *)
(* to FIFO 0, a full FIFO blocks (the new frame is lost), and the flags     *)
(* new-message, full and message-lost all raise interrupt line 0.           *)
FrameArrives(f) ==
    /\ arrived < MaxArrivals
    /\ app # "freed"
    /\ arrived' = arrived + 1
    /\ IF Len(fifo) < FifoSize
       THEN /\ fifo' = Append(fifo, f)
            /\ irq' = irq \cup {"new"}
                          \cup (IF Len(fifo) + 1 = FifoSize THEN {"full"} ELSE {})
            /\ UNCHANGED overrun
       ELSE /\ irq' = irq \cup {"lost"}
            /\ overrun' = overrun + 1
            /\ UNCHANGED fifo
    /\ UNCHANGED <<isrOn, isrVars, queue, dropped, flags, worker, mutex, table, app,
                   reader, processed, discarded, announced>>
-----------------------------------------------------------------------------
(* dashboard_can_worker_can_isr.  The line is level sensitive: any raised   *)
(* flag re-enters the handler as long as it is installed.                   *)
IsrEnter ==
    /\ isr = "idle" /\ isrOn /\ irq # {}
    /\ isrSeen' = irq \cap {"new", "full"}
    /\ isrGot' = FALSE
    /\ isr' = IF isrSeen' = {} THEN "lost" ELSE "clear"
    /\ UNCHANGED <<hw, isrOn, queue, dropped, flags, worker, mutex, table, app,
                   reader, history>>

(* The flags it saw are cleared before the FIFO is drained.                 *)
IsrClear ==
    /\ isr = "clear"
    /\ irq' = irq \ isrSeen
    /\ isr' = "drain"
    /\ UNCHANGED <<fifo, isrOn, isrSeen, isrGot, queue, dropped, flags, worker, mutex,
                   table, app, reader, history>>

(* furi_message_queue_put with no timeout fails on a full queue.            *)
Room(q) == Len(q) < QueueSize

(* One turn of the drain loop; a failed put is counted.  The loop also ends *)
(* when a frame cannot be read, which a FIFO that is not empty does not do. *)
FaultIsrMoveUncounted ==
    /\ isr = "drain" /\ fifo # <<>>
    /\ fifo' = Tail(fifo)
    /\ isrGot' = TRUE
    /\ queue' = IF Room(queue) THEN Append(queue, Head(fifo)) ELSE queue
    /\ UNCHANGED <<irq, isrOn, isr, isrSeen, dropped, flags, worker, mutex, table, app,
                   reader, history>>

IsrMove ==
    /\ isr = "drain" /\ fifo # <<>>
    /\ fifo' = Tail(fifo)
    /\ isrGot' = TRUE
    /\ IF Room(queue)
       THEN queue' = Append(queue, Head(fifo)) /\ UNCHANGED dropped
       ELSE dropped' = dropped + 1 /\ UNCHANGED queue
    /\ UNCHANGED <<irq, isrOn, isr, isrSeen, flags, worker, mutex, table, app, reader,
                   history>>

(* Then the worker is notified, if a frame was read at all.                 *)
Signalled == isrGot

IsrSignal ==
    /\ isr = "drain" /\ fifo = <<>>
    /\ flags' = IF Signalled THEN flags \cup {"MsgRecieved"} ELSE flags
    /\ isr' = "lost"
    /\ UNCHANGED <<hw, isrOn, isrSeen, isrGot, queue, dropped, worker, mutex, table,
                   app, reader, history>>

FaultIsrExitClearsAll ==
    /\ isr = "lost"
    /\ irq' = {}
    /\ isr' = "idle"
    /\ UNCHANGED <<fifo, isrOn, isrSeen, isrGot, queue, dropped, flags, worker, mutex,
                   table, app, reader, history>>

IsrExit ==
    /\ isr = "lost"
    /\ irq' = irq \ {"lost"}
    /\ isr' = "idle"
    /\ UNCHANGED <<fifo, isrOn, isrSeen, isrGot, queue, dropped, flags, worker, mutex,
                   table, app, reader, history>>

Isr == IsrEnter \/ IsrClear \/ IsrMove \/ IsrSignal \/ IsrExit
-----------------------------------------------------------------------------
(* dashboard_can_worker_thread.  furi_thread_flags_wait takes and clears    *)
(* every flag of DashboardCanWorkerEventAll in one kernel call.             *)
FaultStopLast(f) == "MsgRecieved" \notin f
StopFirst(f) == "Stop" \in f

WorkerWait ==
    /\ isr = "idle" /\ wpc = "wait" /\ flags # {}
    /\ flags' = {}
    /\ wpc' = IF StopFirst(flags) THEN "exited" ELSE "lock"
    /\ UNCHANGED <<hw, isrOn, isrVars, queue, dropped, updated, mutex, table, app,
                   reader, history>>

FaultWorkerLockNot ==
    /\ isr = "idle" /\ wpc = "lock"
    /\ updated' = FALSE
    /\ wpc' = "drain"
    /\ UNCHANGED <<hw, isrOn, isrVars, queue, dropped, flags, mutex, table, app,
                   reader, history>>

WorkerLock ==
    /\ isr = "idle" /\ wpc = "lock" /\ mutex = "free"
    /\ mutex' = "worker"
    /\ updated' = FALSE
    /\ wpc' = "drain"
    /\ UNCHANGED <<hw, isrOn, isrVars, queue, dropped, flags, table, app,
                   reader, history>>

WorkerGet ==
    /\ isr = "idle" /\ wpc = "drain" /\ queue # <<>>
    /\ queue' = Tail(queue)
    /\ table' = UpdateInsert(table, Head(queue))
    /\ updated' = (updated \/ DataUpdated(table, Head(queue)))
    /\ processed' = processed + 1
    /\ UNCHANGED <<hw, isrOn, isrVars, dropped, flags, wpc, mutex, app, reader,
                   arrived, overrun, discarded, announced>>

WorkerUnlock ==
    /\ isr = "idle" /\ wpc = "drain" /\ queue = <<>>
    /\ mutex' = "free"
    /\ wpc' = IF updated THEN "callback" ELSE "wait"
    /\ UNCHANGED <<hw, isrOn, isrVars, queue, dropped, flags, updated, table,
                   app, reader, history>>

(* The callback runs without the mutex, in the worker's own thread.         *)
WorkerCallback ==
    /\ isr = "idle" /\ wpc = "callback"
    /\ announced' = Content(table)
    /\ wpc' = "wait"
    /\ UNCHANGED <<hw, isrOn, isrVars, queue, dropped, flags, updated, mutex,
                   table, app, reader, arrived, overrun, processed, discarded>>

(* The thread's function returned; the init thread scrubs it, and only then *)
(* is its state FuriThreadStateStopped.                                     *)
WorkerScrubbed ==
    /\ isr = "idle" /\ wpc = "exited"
    /\ wpc' = "stopped"
    /\ UNCHANGED <<hw, isrOn, isrVars, queue, dropped, flags, updated, mutex,
                   table, app, reader, history>>

Worker == \/ WorkerWait \/ WorkerLock \/ WorkerGet \/ WorkerUnlock
          \/ WorkerCallback \/ WorkerScrubbed
-----------------------------------------------------------------------------
(* dashboard_can_worker_start: the thread first, the handler 10 ms later.   *)
AppStartThread ==
    /\ isr = "idle" /\ app = "created"
    /\ wpc' = "wait"
    /\ app' = "starting"
    /\ UNCHANGED <<hw, isrOn, isrVars, queue, dropped, flags, updated, mutex,
                   table, reader, history>>

AppSetIsr ==
    /\ isr = "idle" /\ app = "starting"
    /\ isrOn' = TRUE
    /\ app' = "idle"
    /\ UNCHANGED <<hw, isrVars, queue, dropped, flags, worker, mutex, table, reader,
                   history>>

(* get_frame and get_frames ask for given ids; copy_snapshot is the read of *)
(* ids = DOMAIN table, its buffer having room for MaxIds entries.           *)
AppLock(ids) ==
    /\ isr = "idle" /\ app = "idle" /\ mutex = "free"
    /\ mutex' = "app"
    /\ want' = ids
    /\ out' = EmptyTable
    /\ app' = "copy"
    /\ UNCHANGED <<hw, isrOn, isrVars, queue, dropped, flags, worker, table, history>>

AppCopy(i) ==
    /\ isr = "idle" /\ app = "copy" /\ i \in want
    /\ out' = [j \in DOMAIN out \cup {i} |-> IF j = i THEN Lookup(table, i) ELSE out[j]]
    /\ want' = want \ {i}
    /\ UNCHANGED <<hw, isrOn, isrVars, queue, dropped, flags, worker, mutex, table, app,
                   history>>

AppUnlock ==
    /\ isr = "idle" /\ app = "copy" /\ want = {}
    /\ mutex' = "free"
    /\ app' = "idle"
    /\ UNCHANGED <<hw, isrOn, isrVars, queue, dropped, flags, worker, table, reader,
                   history>>

(* dashboard_can_worker_send_stop: the handler goes before the thread.      *)
FaultAppClearIsrNot ==
    /\ isr = "idle" /\ app = "idle"
    /\ app' = "stopping"
    /\ UNCHANGED <<hw, isrOn, isrVars, queue, dropped, flags, worker, mutex, table,
                   reader, history>>

AppClearIsr ==
    /\ isr = "idle" /\ app = "idle"
    /\ isrOn' = FALSE
    /\ app' = "stopping"
    /\ UNCHANGED <<hw, isrVars, queue, dropped, flags, worker, mutex, table, reader,
                   history>>

AppSendStop ==
    /\ isr = "idle" /\ app = "stopping"
    /\ flags' = flags \cup {"Stop"}
    /\ app' = "joining"
    /\ UNCHANGED <<hw, isrOn, isrVars, queue, dropped, worker, mutex, table, reader,
                   history>>

(* dashboard_can_worker_await_stop *)
AppJoinAndResetQueue ==
    /\ isr = "idle" /\ app = "joining" /\ wpc = "stopped"
    /\ discarded' = discarded + Len(queue)
    /\ queue' = <<>>
    /\ app' = "joined"
    /\ UNCHANGED <<hw, isrOn, isrVars, dropped, flags, worker, mutex, table, reader,
                   arrived, overrun, processed, announced>>

AppResetTable ==
    /\ isr = "idle" /\ app = "joined" /\ mutex = "free"
    /\ table' = EmptyTable
    /\ app' = "reset"
    /\ UNCHANGED <<hw, isrOn, isrVars, queue, dropped, flags, worker, mutex, reader,
                   history>>

(* dashboard_can_worker_free switches the peripheral off first.             *)
AppFree ==
    /\ isr = "idle" /\ app = "reset"
    /\ app' = "freed"
    /\ UNCHANGED <<hw, isrOn, isrVars, queue, dropped, flags, worker, mutex, table,
                   reader, history>>

App == \/ AppStartThread \/ AppSetIsr \/ AppUnlock \/ AppClearIsr \/ AppSendStop
       \/ AppJoinAndResetQueue \/ AppResetTable \/ AppFree
       \/ \E ids \in SUBSET Ids : AppLock(ids)
       \/ \E i \in Ids : AppCopy(i)

(* The worker is gone: nothing is left to run.                              *)
Terminated == app = "freed" /\ UNCHANGED vars

Next == (\E f \in Frame : FrameArrives(f)) \/ Isr \/ Worker \/ App \/ Terminated

Spec == Init /\ [][Next]_vars

(* One thread runs as long as it can: the handler preempts, both threads    *)
(* are eventually scheduled.  FreeRTOS hands a released mutex to no one, so *)
(* the worker gets it only because the application sleeps between its       *)
(* reads (700 ms ticks): strong fairness for the lock step.  Nothing forces *)
(* the bus to deliver, or the application to read or to stop.               *)
Fairness ==
    /\ WF_vars(Isr)
    /\ WF_vars(Worker) /\ SF_vars(WorkerLock)
    /\ WF_vars(AppStartThread) /\ WF_vars(AppSetIsr)
    /\ WF_vars(\E i \in Ids : AppCopy(i)) /\ WF_vars(AppUnlock)
    /\ WF_vars(AppSendStop) /\ WF_vars(AppJoinAndResetQueue)
    /\ WF_vars(AppResetTable) /\ WF_vars(AppFree)

FairSpec == Spec /\ Fairness
-----------------------------------------------------------------------------
(* Every variable keeps its type; the queues keep their capacity.           *)
TypeOK ==
    /\ fifo \in Seq(Frame) /\ Len(fifo) <= FifoSize
    /\ irq \subseteq {"new", "full", "lost"}
    /\ isrOn \in BOOLEAN
    /\ isr \in {"idle", "clear", "drain", "lost"}
    /\ isrSeen \subseteq {"new", "full"}
    /\ isrGot \in BOOLEAN
    /\ queue \in Seq(Frame) /\ Len(queue) <= QueueSize
    /\ dropped \in Nat
    /\ flags \subseteq {"Stop", "MsgRecieved"}
    /\ wpc \in {"none", "wait", "lock", "drain", "callback", "exited", "stopped"}
    /\ updated \in BOOLEAN
    /\ mutex \in {"free", "worker", "app"}
    /\ DOMAIN table \subseteq Ids
    /\ table \in [DOMAIN table -> Entry]
    /\ app \in {"created", "starting", "idle", "copy", "stopping", "joining",
                "joined", "reset", "freed"}
    /\ want \subseteq Ids
    /\ DOMAIN out \subseteq Ids
    /\ out \in [DOMAIN out -> Entry \cup {NotFound}]
    /\ arrived \in Nat /\ overrun \in Nat /\ processed \in Nat /\ discarded \in Nat
    /\ DOMAIN announced \subseteq Ids
    /\ announced \in [DOMAIN announced -> Payloads]

(* A frame in the hardware FIFO always has a raised flag that will run the  *)
(* handler, or the handler is draining now: clearing the flags can never    *)
(* strand a frame that arrived while the handler was running.               *)
FifoWatched ==
    fifo # <<>> => irq \cap {"new", "full"} # {} \/ isr = "drain"

(* A frame in can_rx_queue is never forgotten: the worker has a pending     *)
(* MsgRecieved flag, is about to drain, is ending, or the handler is about  *)
(* to set the flag.                                                         *)
QueueWatched ==
    queue # <<>> =>
        \/ "MsgRecieved" \in flags
        \/ isr = "drain" /\ isrGot
        \/ wpc \in {"lock", "drain", "exited", "stopped"}

(* No frame is stranded on its way to the table, in the FIFO or the queue.  *)
Watched == FifoWatched /\ QueueWatched

(* Every frame the bus delivered is in exactly one place: lost by the full  *)
(* FIFO, in it, in the queue, counted in can_rx_dropped, folded into the    *)
(* table, or thrown away by the reset of the queue in await_stop.           *)
Conservation ==
    arrived = overrun + Len(fifo) + Len(queue) + dropped + processed + discarded

(* The table never outgrows the buffer of DASHBOARD_CAN_MAX_IDS frames that *)
(* copy_snapshot is given.                                                  *)
TableBounded == Cardinality(DOMAIN table) <= MaxIds

(* What a reader has copied is still what the table says: the entries of    *)
(* one get_frames call all belong to one state of the table.                *)
ReadConsistent ==
    app = "copy" => \A i \in DOMAIN out : out[i] = Lookup(table, i)

(* When the worker sleeps, no new id and no new payload went unannounced    *)
(* to the data-updated callback.                                            *)
Announced ==
    wpc \in {"none", "wait"} => announced = Content(table)

(* After await_stop nothing runs and nothing is left over: the handler, once *)
(* removed, adds nothing to a queue and sets no flag of a thread that ended. *)
StopClean ==
    app \in {"reset", "freed"} =>
        /\ queue = <<>> /\ table = EmptyTable
        /\ isr = "idle" /\ wpc = "stopped" /\ mutex = "free"

Running == app \in {"created", "starting", "idle", "copy"}

(* While the worker runs, what the bus delivered is eventually all counted. *)
EventuallyDrained ==
    Running /\ (fifo # <<>> \/ queue # <<>>) ~> (fifo = <<>> /\ queue = <<>>) \/ ~Running

(* furi_thread_join in await_stop returns, whatever the worker was doing    *)
(* when send_stop was called, and the application gets to free everything.  *)
JoinReturns == app = "stopping" ~> app = "freed"

(* Neither the frames nor the application wait for ever for the worker.     *)
EveryWaitEnds == EventuallyDrained /\ JoinReturns
-----------------------------------------------------------------------------
(* The worker implements the table of CAN ids of CanTable: the frames that  *)
(* wait are those of the queue followed by those of the hardware FIFO.      *)
Table == INSTANCE CanTable WITH
    Capacity <- FifoSize + QueueSize,
    Kept <- QueueSize,
    backlog <- queue \o fifo,
    known <- DOMAIN table,
    count <- [i \in Ids |-> IF i \in DOMAIN table THEN table[i].rx ELSE 0],
    last <- [i \in Ids |-> IF i \in DOMAIN table THEN {table[i].last} ELSE {}],
    open <- app \notin {"joined", "reset", "freed"}

(* No frame is folded twice, out of bus order or after the stop, none of    *)
(* the QueueSize oldest is lost, and ids, counts and payloads are the fold  *)
(* of the frames: every behaviour of the worker is one of CanTable.         *)
ImplementsTable == Table!Spec
=============================================================================
