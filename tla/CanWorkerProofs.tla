--------------------------- MODULE CanWorkerProofs ---------------------------
(***************************************************************************)
(* Proofs about CanWorker, for every number of ids and payloads and every   *)
(* capacity of the FIFO, the queue and the table.                           *)
(***************************************************************************)
EXTENDS CanWorker, FiniteSetTheorems, SequenceTheorems, TLAPS

(* The empty table is a function into whatever the table holds.             *)
LEMMA EmptyTableType == DOMAIN EmptyTable = {} /\ \A S : EmptyTable \in [{} -> S]
BY DEF EmptyTable

(* One frame keeps the table a table of the ids on the bus.                 *)
LEMMA UpdateInsertType ==
    ASSUME NEW t, DOMAIN t \subseteq Ids, t \in [DOMAIN t -> Entry], NEW f \in Frame
    PROVE  /\ DOMAIN UpdateInsert(t, f) \subseteq Ids
           /\ UpdateInsert(t, f) \in [DOMAIN UpdateInsert(t, f) -> Entry]
<1>1. CASE Refused(t, f)
  BY <1>1 DEF UpdateInsert
<1>2. CASE ~Refused(t, f)
  <2> DEFINE D == DOMAIN t \cup {f.id}
  <2>1. \A i \in D : NextCount(t, i) \in 0 .. CountMod - 1
    BY CanAssumption DEF NextCount, Entry
  <2>2. f.id \in Ids /\ f.data \in Payloads
    BY DEF Frame
  <2>3. UpdateInsert(t, f) =
          [i \in D |-> IF i = f.id THEN [rx |-> NextCount(t, i), last |-> f.data] ELSE t[i]]
    BY <1>2 DEF UpdateInsert
  <2>4. \A i \in D : (IF i = f.id THEN [rx |-> NextCount(t, i), last |-> f.data] ELSE t[i])
                        \in Entry
    BY <2>1, <2>2 DEF Entry
  <2> QED
    BY <2>2, <2>3, <2>4
<1> QED
  BY <1>1, <1>2

(* Type correctness of the CAN receive path, for every constant.            *)
THEOREM TypeCorrect == Spec => []TypeOK
<1>1. Init => TypeOK
  <2> SUFFICES ASSUME Init PROVE TypeOK
    OBVIOUS
  <2>1. fifo \in Seq(Frame) /\ Len(fifo) <= FifoSize /\ queue \in Seq(Frame) /\ Len(queue) <= QueueSize
    BY CanAssumption DEF Init
  <2>2. /\ DOMAIN table \subseteq Ids /\ table \in [DOMAIN table -> Entry]
        /\ DOMAIN out \subseteq Ids /\ out \in [DOMAIN out -> Entry \cup {NotFound}]
        /\ DOMAIN announced \subseteq Ids /\ announced \in [DOMAIN announced -> Payloads]
    BY EmptyTableType DEF Init
  <2> QED
    BY <2>1, <2>2 DEF Init, TypeOK
<1>2. TypeOK /\ [Next]_vars => TypeOK'
  <2> SUFFICES ASSUME TypeOK, [Next]_vars
               PROVE  TypeOK'
    OBVIOUS
  <2> USE DEF TypeOK, hw, isrVars, worker, reader, history
  <2>1. ASSUME NEW f \in Frame, FrameArrives(f)
        PROVE  TypeOK'
    <3>1. fifo' \in Seq(Frame) /\ Len(fifo') <= FifoSize
      <4>1. CASE Len(fifo) < FifoSize
        <5>1. fifo' = Append(fifo, f)
          BY <2>1, <4>1 DEF FrameArrives
        <5> QED
          BY <4>1, <5>1, CanAssumption
      <4>2. CASE ~(Len(fifo) < FifoSize)
        BY <2>1, <4>2 DEF FrameArrives
      <4> QED
        BY <4>1, <4>2
    <3>2. /\ irq' \subseteq {"new", "full", "lost"}
          /\ arrived' \in Nat /\ overrun' \in Nat
      BY <2>1 DEF FrameArrives
    <3> QED
      BY <2>1, <3>1, <3>2 DEF FrameArrives
  <2>2. CASE Isr
    <3>1. CASE IsrEnter
      BY <3>1 DEF IsrEnter
    <3>2. CASE IsrClear
      BY <3>2 DEF IsrClear
    <3>3. CASE IsrMove
      <4>1. fifo' \in Seq(Frame) /\ Len(fifo') <= FifoSize
        BY <3>3, CanAssumption DEF IsrMove
      <4>2. Head(fifo) \in Frame
        BY <3>3 DEF IsrMove
      <4>3. queue' \in Seq(Frame) /\ Len(queue') <= QueueSize /\ dropped' \in Nat
        <5>1. CASE Room(queue)
          <6>1. queue' = Append(queue, Head(fifo)) /\ dropped' = dropped
            BY <3>3, <5>1 DEF IsrMove
          <6> QED
            BY <4>2, <5>1, <6>1, CanAssumption DEF Room
        <5>2. CASE ~Room(queue)
          BY <3>3, <5>2 DEF IsrMove
        <5> QED
          BY <5>1, <5>2
      <4> QED
        BY <3>3, <4>1, <4>3 DEF IsrMove
    <3>4. CASE IsrSignal
      BY <3>4 DEF IsrSignal
    <3>5. CASE IsrExit
      BY <3>5 DEF IsrExit
    <3> QED
      BY <2>2, <3>1, <3>2, <3>3, <3>4, <3>5 DEF Isr
  <2>3. CASE Worker
    <3>1. CASE WorkerWait
      BY <3>1 DEF WorkerWait
    <3>2. CASE WorkerLock
      BY <3>2 DEF WorkerLock
    <3>3. CASE WorkerGet
      <4>1. Head(queue) \in Frame /\ Tail(queue) \in Seq(Frame)
            /\ Len(Tail(queue)) <= QueueSize
        BY <3>3, CanAssumption DEF WorkerGet
      <4>2. /\ DOMAIN table' \subseteq Ids
            /\ table' \in [DOMAIN table' -> Entry]
        BY <3>3, <4>1, UpdateInsertType DEF WorkerGet
      <4>3. updated' \in BOOLEAN
        BY <3>3 DEF WorkerGet
      <4> QED
        BY <3>3, <4>1, <4>2, <4>3 DEF WorkerGet
    <3>4. CASE WorkerUnlock
      BY <3>4 DEF WorkerUnlock
    <3>5. CASE WorkerCallback
      BY <3>5 DEF WorkerCallback, Content, Entry
    <3>6. CASE WorkerScrubbed
      BY <3>6 DEF WorkerScrubbed
    <3> QED
      BY <2>3, <3>1, <3>2, <3>3, <3>4, <3>5, <3>6 DEF Worker
  <2>4. CASE App
    <3>1. CASE AppStartThread
      BY <3>1 DEF AppStartThread
    <3>2. CASE AppSetIsr
      BY <3>2 DEF AppSetIsr
    <3>3. ASSUME NEW ids \in SUBSET Ids, AppLock(ids)
          PROVE  TypeOK'
      BY <3>3, EmptyTableType DEF AppLock
    <3>4. ASSUME NEW i \in Ids, AppCopy(i)
          PROVE  TypeOK'
      <4>1. Lookup(table, i) \in Entry \cup {NotFound}
        BY DEF Lookup
      <4> QED
        BY <3>4, <4>1 DEF AppCopy
    <3>5. CASE AppUnlock
      BY <3>5 DEF AppUnlock
    <3>6. CASE AppClearIsr
      BY <3>6 DEF AppClearIsr
    <3>7. CASE AppSendStop
      BY <3>7 DEF AppSendStop
    <3>8. CASE AppJoinAndResetQueue
      BY <3>8, CanAssumption DEF AppJoinAndResetQueue
    <3>9. CASE AppResetTable
      BY <3>9, EmptyTableType DEF AppResetTable
    <3>10. CASE AppFree
      BY <3>10 DEF AppFree
    <3> QED
      BY <2>4, <3>1, <3>2, <3>3, <3>4, <3>5, <3>6, <3>7, <3>8, <3>9, <3>10 DEF App
  <2>5. CASE UNCHANGED vars
    BY <2>5 DEF vars
  <2> QED
    BY <2>1, <2>2, <2>3, <2>4, <2>5 DEF Next, Terminated
<1> QED
  BY <1>1, <1>2, PTL DEF Spec
-----------------------------------------------------------------------------
(* How the program counters go together: the handler runs only while it is  *)
(* installed, which it is only between start and send_stop; the thread      *)
(* exists once started and has ended once joined; the mutex belongs to the  *)
(* thread that is between its lock and its unlock.                          *)
Lifecycle ==
    /\ isr # "idle" => isrOn
    /\ isrOn => app \in {"idle", "copy"}
    /\ app = "created" => wpc = "none"
    /\ app \in {"joined", "reset", "freed"} => wpc = "stopped"
    /\ mutex = "worker" <=> wpc = "drain"
    /\ mutex = "app" <=> app = "copy"

LEMMA LifecycleHolds == Spec => []Lifecycle
<1>1. Init => Lifecycle
  BY DEF Init, Lifecycle
<1>2. Lifecycle /\ TypeOK /\ [Next]_vars => Lifecycle'
  <2> SUFFICES ASSUME Lifecycle, TypeOK, [Next]_vars
               PROVE  Lifecycle'
    OBVIOUS
  <2> USE DEF Lifecycle, TypeOK, hw, isrVars, worker, reader, history
  <2>1. ASSUME NEW f \in Frame, FrameArrives(f)
        PROVE  Lifecycle'
    BY <2>1 DEF FrameArrives
  <2>2. CASE Isr
    BY <2>2 DEF Isr, IsrEnter, IsrClear, IsrMove, IsrSignal, IsrExit
  <2>3. CASE Worker
    BY <2>3 DEF Worker, WorkerWait, WorkerLock, WorkerGet, WorkerUnlock, WorkerCallback,
                WorkerScrubbed
  <2>4. CASE App
    <3>1. ASSUME NEW ids \in SUBSET Ids, AppLock(ids)
          PROVE  Lifecycle'
      BY <3>1 DEF AppLock
    <3>2. ASSUME NEW i \in Ids, AppCopy(i)
          PROVE  Lifecycle'
      BY <3>2 DEF AppCopy
    <3>3. CASE AppStartThread \/ AppSetIsr \/ AppUnlock \/ AppClearIsr \/ AppSendStop
      BY <3>3 DEF AppStartThread, AppSetIsr, AppUnlock, AppClearIsr, AppSendStop
    <3>4. CASE AppJoinAndResetQueue \/ AppResetTable \/ AppFree
      BY <3>4 DEF AppJoinAndResetQueue, AppResetTable, AppFree
    <3> QED
      BY <2>4, <3>1, <3>2, <3>3, <3>4 DEF App
  <2>5. CASE UNCHANGED vars
    BY <2>5 DEF vars
  <2> QED
    BY <2>1, <2>2, <2>3, <2>4, <2>5 DEF Next, Terminated
<1> QED
  BY <1>1, <1>2, TypeCorrect, PTL DEF Spec

(* No frame is ever stranded in the hardware FIFO or in can_rx_queue: the   *)
(* handler clears the flags before it drains, and the worker takes its      *)
(* flags before it empties the queue.                                       *)
THEOREM NoFrameForgotten == Spec => []Watched
<1>1. Init => Watched
  BY DEF Init, Watched, FifoWatched, QueueWatched
<1>2. Watched /\ Lifecycle /\ TypeOK /\ [Next]_vars => Watched'
  <2> SUFFICES ASSUME Watched, Lifecycle, TypeOK, [Next]_vars
               PROVE  Watched'
    OBVIOUS
  <2> USE DEF Watched, FifoWatched, QueueWatched, hw, isrVars, worker, reader, history
  <2>1. ASSUME NEW f \in Frame, FrameArrives(f)
        PROVE  Watched'
    BY <2>1 DEF FrameArrives
  <2>2. CASE Isr
    <3>1. CASE IsrEnter \/ IsrClear \/ IsrExit
      BY <3>1 DEF IsrEnter, IsrClear, IsrExit
    <3>2. CASE IsrMove
      BY <3>2 DEF IsrMove
    <3>3. CASE IsrSignal
      BY <3>3 DEF IsrSignal, Signalled
    <3> QED
      BY <2>2, <3>1, <3>2, <3>3 DEF Isr
  <2>3. CASE Worker
    <3>1. CASE WorkerWait
      BY <3>1 DEF WorkerWait
    <3>2. CASE WorkerGet
      BY <3>2 DEF WorkerGet
    <3>3. CASE WorkerUnlock
      BY <3>3 DEF WorkerUnlock
    <3>4. CASE WorkerLock \/ WorkerCallback \/ WorkerScrubbed
      BY <3>4 DEF WorkerLock, WorkerCallback, WorkerScrubbed
    <3> QED
      BY <2>3, <3>1, <3>2, <3>3, <3>4 DEF Worker
  <2>4. CASE App
    <3>1. ASSUME NEW ids \in SUBSET Ids, AppLock(ids)
          PROVE  Watched'
      BY <3>1 DEF AppLock
    <3>2. ASSUME NEW i \in Ids, AppCopy(i)
          PROVE  Watched'
      BY <3>2 DEF AppCopy
    <3>3. CASE AppStartThread
      BY <3>3 DEF AppStartThread, Lifecycle
    <3>4. CASE AppSetIsr \/ AppUnlock \/ AppClearIsr \/ AppSendStop
      BY <3>4 DEF AppSetIsr, AppUnlock, AppClearIsr, AppSendStop
    <3>5. CASE AppJoinAndResetQueue \/ AppResetTable \/ AppFree
      BY <3>5 DEF AppJoinAndResetQueue, AppResetTable, AppFree
    <3> QED
      BY <2>4, <3>1, <3>2, <3>3, <3>4, <3>5 DEF App
  <2>5. CASE UNCHANGED vars
    BY <2>5 DEF vars
  <2> QED
    BY <2>1, <2>2, <2>3, <2>4, <2>5 DEF Next, Terminated
<1> QED
  BY <1>1, <1>2, TypeCorrect, LifecycleHolds, PTL DEF Spec, Watched
-----------------------------------------------------------------------------
(* Only the worker's drain and the reset change the table, both under the   *)
(* mutex: what a reader has copied stays true until it unlocks.             *)
THEOREM ReadsConsistent == Spec => []ReadConsistent
<1>1. Init => ReadConsistent
  BY DEF Init, ReadConsistent
<1>2. ReadConsistent /\ Lifecycle /\ TypeOK /\ [Next]_vars => ReadConsistent'
  <2> SUFFICES ASSUME ReadConsistent, Lifecycle, TypeOK, [Next]_vars
               PROVE  ReadConsistent'
    OBVIOUS
  <2> USE DEF ReadConsistent, hw, isrVars, worker, reader, history
  <2>1. ASSUME NEW f \in Frame, FrameArrives(f)
        PROVE  ReadConsistent'
    BY <2>1 DEF FrameArrives, Lookup
  <2>2. CASE Isr
    BY <2>2 DEF Isr, IsrEnter, IsrClear, IsrMove, IsrSignal, IsrExit, Lookup
  <2>3. CASE Worker
    <3>1. CASE WorkerGet
      <4>1. app' # "copy"
        BY <3>1 DEF WorkerGet, Lifecycle
      <4> QED
        BY <4>1
    <3>2. CASE ~WorkerGet
      BY <2>3, <3>2 DEF Worker, WorkerWait, WorkerLock, WorkerUnlock, WorkerCallback,
                        WorkerScrubbed, Lookup
    <3> QED
      BY <3>1, <3>2
  <2>4. CASE App
    <3>1. ASSUME NEW ids \in SUBSET Ids, AppLock(ids)
          PROVE  ReadConsistent'
      <4>1. DOMAIN out' = {}
        BY <3>1, EmptyTableType DEF AppLock
      <4> QED
        BY <4>1
    <3>2. ASSUME NEW i \in Ids, AppCopy(i)
          PROVE  ReadConsistent'
      BY <3>2 DEF AppCopy, Lookup
    <3>3. CASE AppStartThread \/ AppSetIsr \/ AppUnlock \/ AppClearIsr \/ AppSendStop
      BY <3>3 DEF AppStartThread, AppSetIsr, AppUnlock, AppClearIsr, AppSendStop
    <3>4. CASE AppJoinAndResetQueue \/ AppResetTable \/ AppFree
      BY <3>4 DEF AppJoinAndResetQueue, AppResetTable, AppFree
    <3> QED
      BY <2>4, <3>1, <3>2, <3>3, <3>4 DEF App
  <2>5. CASE UNCHANGED vars
    BY <2>5 DEF vars, Lookup
  <2> QED
    BY <2>1, <2>2, <2>3, <2>4, <2>5 DEF Next, Terminated
<1> QED
  BY <1>1, <1>2, TypeCorrect, LifecycleHolds, PTL DEF Spec

(* The shutdown: from the reset of the queue on, the handler that could     *)
(* refill it is gone and the thread that could refill the table has ended.  *)
StopInv ==
    /\ app \in {"joined", "reset", "freed"} => queue = <<>>
    /\ app \in {"reset", "freed"} => table = EmptyTable

THEOREM ShutdownClean == Spec => []StopClean
<1>1. Init => StopInv
  BY DEF Init, StopInv
<1>2. StopInv /\ Lifecycle /\ TypeOK /\ [Next]_vars => StopInv'
  <2> SUFFICES ASSUME StopInv, Lifecycle, TypeOK, [Next]_vars
               PROVE  StopInv'
    OBVIOUS
  <2> USE DEF StopInv, hw, isrVars, worker, reader, history
  <2>1. ASSUME NEW f \in Frame, FrameArrives(f)
        PROVE  StopInv'
    BY <2>1 DEF FrameArrives
  <2>2. CASE Isr
    BY <2>2 DEF Isr, IsrEnter, IsrClear, IsrMove, IsrSignal, IsrExit, Lifecycle
  <2>3. CASE Worker
    <3>1. CASE WorkerGet
      BY <3>1 DEF WorkerGet, Lifecycle
    <3>2. CASE ~WorkerGet
      BY <2>3, <3>2 DEF Worker, WorkerWait, WorkerLock, WorkerUnlock, WorkerCallback,
                        WorkerScrubbed
    <3> QED
      BY <3>1, <3>2
  <2>4. CASE App
    <3>1. ASSUME NEW ids \in SUBSET Ids, AppLock(ids)
          PROVE  StopInv'
      BY <3>1 DEF AppLock
    <3>2. ASSUME NEW i \in Ids, AppCopy(i)
          PROVE  StopInv'
      BY <3>2 DEF AppCopy
    <3>3. CASE AppStartThread \/ AppSetIsr \/ AppUnlock \/ AppClearIsr \/ AppSendStop
      BY <3>3 DEF AppStartThread, AppSetIsr, AppUnlock, AppClearIsr, AppSendStop
    <3>4. CASE AppJoinAndResetQueue \/ AppResetTable \/ AppFree
      BY <3>4 DEF AppJoinAndResetQueue, AppResetTable, AppFree
    <3> QED
      BY <2>4, <3>1, <3>2, <3>3, <3>4 DEF App
  <2>5. CASE UNCHANGED vars
    BY <2>5 DEF vars
  <2> QED
    BY <2>1, <2>2, <2>3, <2>4, <2>5 DEF Next, Terminated
<1>3. StopInv /\ Lifecycle /\ TypeOK => StopClean
  BY DEF StopInv, Lifecycle, StopClean, TypeOK
<1> QED
  BY <1>1, <1>2, <1>3, TypeCorrect, LifecycleHolds, PTL DEF Spec

(* Every frame is accounted for exactly once.                               *)
THEOREM FramesConserved == Spec => []Conservation
<1>1. Init => Conservation
  BY DEF Init, Conservation
<1>2. Conservation /\ TypeOK /\ [Next]_vars => Conservation'
  <2> SUFFICES ASSUME Conservation, TypeOK, [Next]_vars
               PROVE  Conservation'
    OBVIOUS
  <2> USE DEF Conservation, hw, isrVars, worker, reader, history
  <2>0. /\ fifo \in Seq(Frame) /\ queue \in Seq(Frame)
        /\ dropped \in Nat /\ arrived \in Nat /\ overrun \in Nat
        /\ processed \in Nat /\ discarded \in Nat
    BY DEF TypeOK
  <2>1. ASSUME NEW f \in Frame, FrameArrives(f)
        PROVE  Conservation'
    <3>1. UNCHANGED <<queue, dropped, processed, discarded>> /\ arrived' = arrived + 1
      BY <2>1 DEF FrameArrives
    <3>2. CASE Len(fifo) < FifoSize
      <4>1. fifo' = Append(fifo, f) /\ overrun' = overrun
        BY <2>1, <3>2 DEF FrameArrives
      <4>2. Len(fifo') = Len(fifo) + 1
        BY <2>0, <4>1
      <4> QED
        BY <2>0, <3>1, <4>1, <4>2
    <3>3. CASE ~(Len(fifo) < FifoSize)
      BY <2>0, <2>1, <3>1, <3>3 DEF FrameArrives
    <3> QED
      BY <3>2, <3>3
  <2>2. CASE Isr
    <3>1. CASE IsrMove
      <4>1. Len(fifo') = Len(fifo) - 1
            /\ UNCHANGED <<arrived, overrun, processed, discarded>>
        BY <2>0, <3>1 DEF IsrMove
      <4>2. CASE Room(queue)
        <5>1. queue' = Append(queue, Head(fifo)) /\ dropped' = dropped
          BY <3>1, <4>2 DEF IsrMove
        <5>2. Head(fifo) \in Frame
          BY <2>0, <3>1 DEF IsrMove
        <5>3. Len(queue') = Len(queue) + 1
          BY <2>0, <5>1, <5>2
        <5> QED
          BY <2>0, <4>1, <5>1, <5>3
      <4>3. CASE ~Room(queue)
        <5>1. queue' = queue /\ dropped' = dropped + 1
          BY <3>1, <4>3 DEF IsrMove
        <5> QED
          BY <2>0, <4>1, <5>1
      <4> QED
        BY <4>2, <4>3
    <3>2. CASE ~IsrMove
      BY <2>2, <3>2 DEF Isr, IsrEnter, IsrClear, IsrSignal, IsrExit
    <3> QED
      BY <3>1, <3>2
  <2>3. CASE Worker
    <3>1. CASE WorkerGet
      <4>1. /\ Len(queue') = Len(queue) - 1 /\ processed' = processed + 1
            /\ UNCHANGED <<fifo, arrived, overrun, dropped, discarded>>
        BY <2>0, <3>1 DEF WorkerGet
      <4> QED
        BY <2>0, <4>1
    <3>2. CASE ~WorkerGet
      BY <2>3, <3>2 DEF Worker, WorkerWait, WorkerLock, WorkerUnlock, WorkerCallback,
                        WorkerScrubbed
    <3> QED
      BY <3>1, <3>2
  <2>4. CASE App
    <3>1. ASSUME NEW ids \in SUBSET Ids, AppLock(ids)
          PROVE  Conservation'
      BY <3>1 DEF AppLock
    <3>2. ASSUME NEW i \in Ids, AppCopy(i)
          PROVE  Conservation'
      BY <3>2 DEF AppCopy
    <3>3. CASE AppStartThread \/ AppSetIsr \/ AppUnlock \/ AppClearIsr \/ AppSendStop
      BY <3>3 DEF AppStartThread, AppSetIsr, AppUnlock, AppClearIsr, AppSendStop
    <3>4. CASE AppJoinAndResetQueue
      <4>1. /\ Len(queue') = 0 /\ discarded' = discarded + Len(queue)
            /\ UNCHANGED <<fifo, arrived, overrun, dropped, processed>>
        BY <3>4 DEF AppJoinAndResetQueue
      <4> QED
        BY <2>0, <4>1
    <3>5. CASE AppResetTable \/ AppFree
      BY <3>5 DEF AppResetTable, AppFree
    <3> QED
      BY <2>4, <3>1, <3>2, <3>3, <3>4, <3>5 DEF App
  <2>5. CASE UNCHANGED vars
    BY <2>5 DEF vars
  <2> QED
    BY <2>1, <2>2, <2>3, <2>4, <2>5 DEF Next, Terminated
<1> QED
  BY <1>1, <1>2, TypeCorrect, PTL DEF Spec
-----------------------------------------------------------------------------
(* The table stays finite and within DASHBOARD_CAN_MAX_IDS entries.         *)
TableInv == IsFiniteSet(DOMAIN table) /\ TableBounded

LEMMA UpdateInsertBounded ==
    ASSUME NEW t, NEW f, IsFiniteSet(DOMAIN t), Cardinality(DOMAIN t) <= MaxIds
    PROVE  /\ IsFiniteSet(DOMAIN UpdateInsert(t, f))
           /\ Cardinality(DOMAIN UpdateInsert(t, f)) <= MaxIds
<1>1. CASE Refused(t, f)
  BY <1>1 DEF UpdateInsert
<1>2. CASE ~Refused(t, f)
  <2>1. DOMAIN UpdateInsert(t, f) = DOMAIN t \cup {f.id}
    BY <1>2 DEF UpdateInsert
  <2>2. CASE f.id \in DOMAIN t
    <3>1. DOMAIN UpdateInsert(t, f) = DOMAIN t
      BY <2>1, <2>2
    <3> QED
      BY <3>1
  <2>3. CASE f.id \notin DOMAIN t
    <3>1. Cardinality(DOMAIN t) < MaxIds
      BY <1>2, <2>3, FS_CardinalityType, CanAssumption DEF Refused
    <3>2. /\ IsFiniteSet(DOMAIN t \cup {f.id})
          /\ Cardinality(DOMAIN t \cup {f.id}) = Cardinality(DOMAIN t) + 1
      BY <2>3, FS_AddElement
    <3> QED
      BY <2>1, <3>1, <3>2, FS_CardinalityType, CanAssumption
  <2> QED
    BY <2>2, <2>3
<1> QED
  BY <1>1, <1>2

LEMMA TableInvariant == Spec => []TableInv
<1>0. IsFiniteSet(DOMAIN EmptyTable) /\ Cardinality(DOMAIN EmptyTable) <= MaxIds
  BY EmptyTableType, FS_EmptySet, CanAssumption
<1>1. Init => TableInv
  BY <1>0 DEF Init, TableInv, TableBounded
<1>2. TableInv /\ [Next]_vars => TableInv'
  <2> SUFFICES ASSUME TableInv, [Next]_vars
               PROVE  TableInv'
    OBVIOUS
  <2>1. CASE WorkerGet
    <3>1. table' = UpdateInsert(table, Head(queue))
      BY <2>1 DEF WorkerGet
    <3>2. IsFiniteSet(DOMAIN table) /\ Cardinality(DOMAIN table) <= MaxIds
      BY DEF TableInv, TableBounded
    <3>3. IsFiniteSet(DOMAIN table') /\ Cardinality(DOMAIN table') <= MaxIds
      BY <3>1, <3>2, UpdateInsertBounded
    <3> QED
      BY <3>3 DEF TableInv, TableBounded
  <2>2. CASE AppResetTable
    BY <1>0, <2>2 DEF AppResetTable, TableInv, TableBounded
  <2>3. CASE ~WorkerGet /\ ~AppResetTable
    <3>1. table' = table
      <4>1. ASSUME NEW f \in Frame, FrameArrives(f) PROVE table' = table
        BY <4>1 DEF FrameArrives
      <4>2. CASE Isr
        BY <4>2 DEF Isr, IsrEnter, IsrClear, IsrMove, IsrSignal, IsrExit
      <4>3. CASE Worker
        BY <2>3, <4>3 DEF Worker, WorkerWait, WorkerLock, WorkerUnlock, WorkerCallback,
                          WorkerScrubbed
      <4>4. CASE App
        BY <2>3, <4>4 DEF App, AppStartThread, AppSetIsr, AppUnlock, AppClearIsr,
                          AppSendStop, AppJoinAndResetQueue, AppFree, AppLock, AppCopy
      <4>5. CASE UNCHANGED vars
        BY <4>5 DEF vars
      <4> QED
        BY <4>1, <4>2, <4>3, <4>4, <4>5 DEF Next, Terminated
    <3> QED
      BY <3>1 DEF TableInv, TableBounded
  <2> QED
    BY <2>1, <2>2, <2>3
<1> QED
  BY <1>1, <1>2, PTL DEF Spec

(* The table never outgrows the buffer that copy_snapshot is given.         *)
THEOREM TableStaysBounded == Spec => []TableBounded
BY TableInvariant, PTL DEF TableInv

(* What the data-updated callback was last told is the table as long as the *)
(* worker has not changed it, and a change without notice cannot outlive    *)
(* the drain that made it.                                                  *)
AnnouncedInv ==
    wpc \in {"none", "wait", "lock"} \/ (wpc = "drain" /\ ~updated)
        => announced = Content(table)

LEMMA UnchangedContent ==
    ASSUME NEW t, NEW f, ~DataUpdated(t, f)
    PROVE  Content(UpdateInsert(t, f)) = Content(t)
<1>1. CASE Refused(t, f)
  BY <1>1 DEF UpdateInsert
<1>2. CASE ~Refused(t, f)
  <2>1. f.id \in DOMAIN t /\ t[f.id].last = f.data
    BY <1>2 DEF DataUpdated
  <2>2. DOMAIN UpdateInsert(t, f) = DOMAIN t
    BY <1>2, <2>1 DEF UpdateInsert
  <2>3. \A i \in DOMAIN t : UpdateInsert(t, f)[i].last = t[i].last
    BY <1>2, <2>1 DEF UpdateInsert
  <2> QED
    BY <2>2, <2>3 DEF Content
<1> QED
  BY <1>1, <1>2

THEOREM ChangesAnnounced == Spec => []Announced
<1>1. Init => AnnouncedInv
  <2>1. Content(EmptyTable) = EmptyTable
    BY EmptyTableType DEF Content, EmptyTable
  <2> QED
    BY <2>1 DEF Init, AnnouncedInv
<1>2. AnnouncedInv /\ Lifecycle /\ TypeOK /\ [Next]_vars => AnnouncedInv'
  <2> SUFFICES ASSUME AnnouncedInv, Lifecycle, TypeOK, [Next]_vars
               PROVE  AnnouncedInv'
    OBVIOUS
  <2> USE DEF AnnouncedInv, hw, isrVars, worker, reader, history
  <2>1. ASSUME NEW f \in Frame, FrameArrives(f)
        PROVE  AnnouncedInv'
    BY <2>1 DEF FrameArrives, Content
  <2>2. CASE Isr
    BY <2>2 DEF Isr, IsrEnter, IsrClear, IsrMove, IsrSignal, IsrExit, Content
  <2>3. CASE Worker
    <3>1. CASE WorkerGet
      <4>1. /\ updated' = (updated \/ DataUpdated(table, Head(queue)))
            /\ table' = UpdateInsert(table, Head(queue))
            /\ wpc' = wpc /\ wpc = "drain" /\ announced' = announced
        BY <3>1 DEF WorkerGet
      <4>2. CASE updated \/ DataUpdated(table, Head(queue))
        BY <4>1, <4>2
      <4>3. CASE ~updated /\ ~DataUpdated(table, Head(queue))
        <5>1. Content(table') = Content(table)
          BY <4>1, <4>3, UnchangedContent
        <5> QED
          BY <4>1, <4>3, <5>1
      <4> QED
        BY <4>2, <4>3
    <3>2. CASE WorkerUnlock
      BY <3>2 DEF WorkerUnlock, TypeOK, Content
    <3>3. CASE WorkerCallback
      BY <3>3 DEF WorkerCallback, Content
    <3>4. CASE WorkerWait \/ WorkerLock \/ WorkerScrubbed
      BY <3>4 DEF WorkerWait, WorkerLock, WorkerScrubbed, Content
    <3> QED
      BY <2>3, <3>1, <3>2, <3>3, <3>4 DEF Worker
  <2>4. CASE App
    <3>1. ASSUME NEW ids \in SUBSET Ids, AppLock(ids)
          PROVE  AnnouncedInv'
      BY <3>1 DEF AppLock, Content
    <3>2. ASSUME NEW i \in Ids, AppCopy(i)
          PROVE  AnnouncedInv'
      BY <3>2 DEF AppCopy, Content
    <3>3. CASE AppStartThread
      BY <3>3 DEF AppStartThread, Lifecycle, Content
    <3>4. CASE AppSetIsr \/ AppUnlock \/ AppClearIsr \/ AppSendStop
      BY <3>4 DEF AppSetIsr, AppUnlock, AppClearIsr, AppSendStop, Content
    <3>5. CASE AppJoinAndResetQueue \/ AppResetTable \/ AppFree
      BY <3>5 DEF AppJoinAndResetQueue, AppResetTable, AppFree, Lifecycle, Content
    <3> QED
      BY <2>4, <3>1, <3>2, <3>3, <3>4, <3>5 DEF App
  <2>5. CASE UNCHANGED vars
    BY <2>5 DEF vars, Content
  <2> QED
    BY <2>1, <2>2, <2>3, <2>4, <2>5 DEF Next, Terminated
<1>3. AnnouncedInv => Announced
  BY DEF AnnouncedInv, Announced
<1> QED
  BY <1>1, <1>2, <1>3, TypeCorrect, LifecycleHolds, PTL DEF Spec
-----------------------------------------------------------------------------
(* The frames that wait are those of two queues in a row, q before r: what  *)
(* a put at the end, a get at the front, a move from r to q and the loss of *)
(* the first of r do to the row.                                            *)
LEMMA PutAtEnd ==
    ASSUME NEW S, NEW q \in Seq(S), NEW r \in Seq(S), NEW f \in S
    PROVE  q \o Append(r, f) = Append(q \o r, f)
<1> DEFINE both == q \o r
<1>1. Append(r, f) \in Seq(S) /\ Len(Append(r, f)) = Len(r) + 1
  OBVIOUS
<1>2. \A i \in 1 .. Len(r) + 1 : Append(r, f)[i] = IF i <= Len(r) THEN r[i] ELSE f
  OBVIOUS
<1>3. both \in Seq(S) /\ Len(both) = Len(q) + Len(r)
  BY ConcatProperties
<1>4. \A i \in 1 .. Len(q) + Len(r) : both[i] = IF i <= Len(q) THEN q[i] ELSE r[i - Len(q)]
  BY ConcatProperties
<1>5. /\ Append(both, f) \in Seq(S) /\ Len(Append(both, f)) = Len(q) + Len(r) + 1
      /\ \A i \in 1 .. Len(q) + Len(r) + 1 :
            Append(both, f)[i] = IF i <= Len(q) + Len(r) THEN both[i] ELSE f
  <2> HIDE DEF both
  <2>1. QED
    BY <1>3
<1>6. /\ q \o Append(r, f) \in Seq(S) /\ Len(q \o Append(r, f)) = Len(q) + Len(r) + 1
      /\ \A i \in 1 .. Len(q) + Len(r) + 1 :
            (q \o Append(r, f))[i] = IF i <= Len(q) THEN q[i] ELSE Append(r, f)[i - Len(q)]
  <2>1. /\ q \o Append(r, f) \in Seq(S) /\ Len(q \o Append(r, f)) = Len(q) + Len(Append(r, f))
        /\ \A i \in 1 .. Len(q) + Len(Append(r, f)) :
              (q \o Append(r, f))[i] = IF i <= Len(q) THEN q[i] ELSE Append(r, f)[i - Len(q)]
    BY <1>1, ConcatProperties
  <2>2. QED
    BY <1>1, <2>1
<1>7. \A i \in 1 .. Len(q) + Len(r) + 1 : (q \o Append(r, f))[i] = Append(both, f)[i]
  <2> SUFFICES ASSUME NEW i \in 1 .. Len(q) + Len(r) + 1
               PROVE  (q \o Append(r, f))[i] = Append(both, f)[i]
    OBVIOUS
  <2> HIDE DEF both
  <2>0. Len(q) \in Nat /\ Len(r) \in Nat
    BY LenProperties
  <2>1. CASE i <= Len(q)
    BY <2>1, <1>4, <1>5, <1>6
  <2>2. CASE ~ (i <= Len(q))
    <3>1. i - Len(q) \in 1 .. Len(r) + 1
      BY <2>0, <2>2
    <3>2. (q \o Append(r, f))[i] = IF i - Len(q) <= Len(r) THEN r[i - Len(q)] ELSE f
      <4>1. (q \o Append(r, f))[i] = Append(r, f)[i - Len(q)]
        BY <2>2, <1>6
      <4>2. QED
        BY <3>1, <4>1, <1>2
    <3>3. Append(both, f)[i] = IF i <= Len(q) + Len(r) THEN r[i - Len(q)] ELSE f
      BY <2>0, <2>2, <1>4, <1>5
    <3>4. QED
      BY <2>0, <3>2, <3>3
  <2>3. QED
    BY <2>1, <2>2
<1>8. QED
  BY <1>5, <1>6, <1>7, SeqEqual

LEMMA GetAtFront ==
    ASSUME NEW S, NEW q \in Seq(S), NEW r \in Seq(S), q # <<>>
    PROVE  q \o r # <<>> /\ Head(q \o r) = Head(q) /\ Tail(q \o r) = Tail(q) \o r
<1>1. /\ q \o r \in Seq(S) /\ Len(q \o r) = Len(q) + Len(r)
      /\ \A i \in 1 .. Len(q) + Len(r) :
            (q \o r)[i] = IF i <= Len(q) THEN q[i] ELSE r[i - Len(q)]
  BY ConcatProperties
<1>2. Len(q) \in Nat \ {0} /\ Len(r) \in Nat
  BY EmptySeq, LenProperties
<1>3. q \o r # <<>>
  BY <1>1, <1>2, EmptySeq
<1>4. Head(q \o r) = Head(q)
  BY <1>1, <1>2, <1>3
<1>5. /\ Tail(q) \in Seq(S) /\ Len(Tail(q)) = Len(q) - 1
      /\ \A i \in 1 .. Len(Tail(q)) : Tail(q)[i] = q[i + 1]
  BY HeadTailProperties
<1>6. /\ Tail(q \o r) \in Seq(S) /\ Len(Tail(q \o r)) = Len(q \o r) - 1
      /\ \A i \in 1 .. Len(Tail(q \o r)) : Tail(q \o r)[i] = (q \o r)[i + 1]
  BY <1>1, <1>3, HeadTailProperties
<1>7. /\ Tail(q) \o r \in Seq(S) /\ Len(Tail(q) \o r) = Len(Tail(q)) + Len(r)
      /\ \A i \in 1 .. Len(Tail(q)) + Len(r) : (Tail(q) \o r)[i] =
              IF i <= Len(Tail(q)) THEN Tail(q)[i] ELSE r[i - Len(Tail(q))]
  BY <1>5, ConcatProperties
<1>8. \A i \in 1 .. Len(Tail(q \o r)) : Tail(q \o r)[i] = (Tail(q) \o r)[i]
  <2> SUFFICES ASSUME NEW i \in 1 .. Len(Tail(q \o r)) PROVE Tail(q \o r)[i] = (Tail(q) \o r)[i]
    OBVIOUS
  <2>1. i \in 1 .. Len(q) + Len(r) - 1 /\ i + 1 \in 1 .. Len(q) + Len(r)
    BY <1>1, <1>2, <1>6
  <2>2. Tail(q \o r)[i] = IF i + 1 <= Len(q) THEN q[i + 1] ELSE r[i + 1 - Len(q)]
    BY <2>1, <1>1, <1>6
  <2>3. (Tail(q) \o r)[i] = IF i <= Len(q) - 1 THEN q[i + 1] ELSE r[i - (Len(q) - 1)]
    BY <2>1, <1>2, <1>5, <1>7
  <2>4. QED
    BY <2>1, <2>2, <2>3, <1>2
<1>9. QED
  BY <1>1, <1>2, <1>3, <1>4, <1>5, <1>6, <1>7, <1>8, SeqEqual

LEMMA HeadIsFirst ==
    ASSUME NEW S, NEW r \in Seq(S), r # <<>>
    PROVE  <<Head(r)>> \o Tail(r) = r
<1>1. <<Head(r)>> \in Seq(S) /\ Tail(r) \in Seq(S)
  BY HeadTailProperties
<1>2. /\ Len(Tail(r)) = Len(r) - 1 /\ \A i \in 1 .. Len(Tail(r)) : Tail(r)[i] = r[i + 1]
  BY HeadTailProperties
<1>3. Len(<<Head(r)>>) = 1 /\ <<Head(r)>>[1] = r[1] /\ Len(r) \in Nat \ {0}
  BY EmptySeq
<1> DEFINE whole == <<Head(r)>> \o Tail(r)
<1>4. /\ whole \in Seq(S) /\ Len(whole) = 1 + Len(Tail(r))
      /\ \A i \in 1 .. 1 + Len(Tail(r)) :
            whole[i] = IF i <= 1 THEN <<Head(r)>>[i] ELSE Tail(r)[i - 1]
  BY <1>1, <1>3, ConcatProperties
<1> HIDE DEF whole
<1>5. \A i \in 1 .. Len(whole) : whole[i] = r[i]
  BY <1>2, <1>3, <1>4
<1>6. whole = r
  BY <1>2, <1>3, <1>4, <1>5, SeqEqual
<1>7. QED
  BY <1>6 DEF whole

LEMMA MoveBetween ==
    ASSUME NEW S, NEW q \in Seq(S), NEW r \in Seq(S), r # <<>>
    PROVE  Append(q, Head(r)) \o Tail(r) = q \o r
<1>1. Head(r) \in S /\ Tail(r) \in Seq(S)
  BY HeadTailProperties
<1>2. Append(q, Head(r)) = q \o <<Head(r)>>
  BY <1>1, AppendIsConcat
<1>3. <<Head(r)>> \in Seq(S)
  BY <1>1
<1>4. (q \o <<Head(r)>>) \o Tail(r) = q \o (<<Head(r)>> \o Tail(r))
  BY <1>1, <1>3, ConcatAssociative
<1>5. QED
  BY <1>2, <1>4, HeadIsFirst

LEMMA LoseFirst ==
    ASSUME NEW S, NEW q \in Seq(S), NEW r \in Seq(S), r # <<>>
    PROVE  /\ Len(q \o r) > Len(q)
           /\ SubSeq(q \o r, 1, Len(q)) \o SubSeq(q \o r, Len(q) + 2, Len(q \o r)) = q \o Tail(r)
<1>1. /\ q \o r \in Seq(S) /\ Len(q \o r) = Len(q) + Len(r)
      /\ \A i \in 1 .. Len(q) + Len(r) :
            (q \o r)[i] = IF i <= Len(q) THEN q[i] ELSE r[i - Len(q)]
  BY ConcatProperties
<1>2. Len(r) \in Nat \ {0} /\ Len(q) \in Nat
  BY EmptySeq, LenProperties
<1>3. SubSeq(q \o r, 1, Len(q)) = q
  <2>1. \A i \in 1 .. Len(q) : (q \o r)[i] \in S
    BY <1>1, <1>2, ElementOfSeq
  <2>2. /\ SubSeq(q \o r, 1, Len(q)) \in Seq(S) /\ Len(SubSeq(q \o r, 1, Len(q))) = Len(q)
        /\ \A i \in 1 .. Len(q) : SubSeq(q \o r, 1, Len(q))[i] = (q \o r)[i]
    BY <1>2, <2>1, SubSeqProperties
  <2>3. \A i \in 1 .. Len(q) : SubSeq(q \o r, 1, Len(q))[i] = q[i]
    BY <1>1, <1>2, <2>2
  <2>4. QED
    BY <2>2, <2>3, SeqEqual
<1>4. SubSeq(q \o r, Len(q) + 2, Len(q) + Len(r)) = Tail(r)
  <2> DEFINE rest == SubSeq(q \o r, Len(q) + 2, Len(q) + Len(r))
  <2>1. \A i \in Len(q) + 2 .. Len(q) + Len(r) : (q \o r)[i] \in S
    <3>1. \A i \in 1 .. Len(q) + Len(r) : (q \o r)[i] \in S
      BY <1>1, ElementOfSeq
    <3>2. QED
      BY <1>2, <3>1
  <2>2. /\ rest \in Seq(S) /\ Len(rest) = Len(r) - 1
        /\ \A i \in 1 .. Len(r) - 1 : rest[i] = (q \o r)[Len(q) + 2 + i - 1]
    <3>1. Len(q) + 2 \in Int /\ Len(q) + Len(r) \in Int
      BY <1>2
    <3>2. /\ rest \in Seq(S)
          /\ Len(rest) = IF Len(q) + 2 <= Len(q) + Len(r)
                         THEN Len(q) + Len(r) - (Len(q) + 2) + 1 ELSE 0
          /\ \A i \in 1 .. Len(q) + Len(r) - (Len(q) + 2) + 1 :
                rest[i] = (q \o r)[Len(q) + 2 + i - 1]
      BY <2>1, <3>1, SubSeqProperties
    <3> HIDE DEF rest
    <3>3. Len(q) + Len(r) - (Len(q) + 2) + 1 = Len(r) - 1
      BY <1>2
    <3>4. Len(rest) = Len(r) - 1
      <4>1. CASE Len(r) = 1
        <5>1. ~ (Len(q) + 2 <= Len(q) + Len(r))
          BY <1>2, <4>1
        <5>2. QED
          BY <3>2, <4>1, <5>1
      <4>2. CASE Len(r) # 1
        <5>1. \A a, b \in Nat : b # 0 /\ b # 1 => a + 2 <= a + b
          OBVIOUS
        <5>2. Len(q) + 2 <= Len(q) + Len(r)
          BY <1>2, <4>2, <5>1
        <5>3. QED
          BY <3>2, <3>3, <5>2
      <4>3. QED
        BY <4>1, <4>2
    <3>5. QED
      BY <3>2, <3>3, <3>4
  <2>3. /\ Tail(r) \in Seq(S) /\ Len(Tail(r)) = Len(r) - 1
        /\ \A i \in 1 .. Len(Tail(r)) : Tail(r)[i] = r[i + 1]
    BY HeadTailProperties
  <2> HIDE DEF rest
  <2>4. \A i \in 1 .. Len(rest) : rest[i] = Tail(r)[i]
    <3> SUFFICES ASSUME NEW i \in 1 .. Len(rest) PROVE rest[i] = Tail(r)[i]
      OBVIOUS
    <3>1. i \in 1 .. Len(r) - 1 /\ Len(q) + 2 + i - 1 \in 1 .. Len(q) + Len(r)
      BY <1>2, <2>2
    <3>2. rest[i] = r[Len(q) + 2 + i - 1 - Len(q)]
      BY <1>1, <1>2, <2>2, <3>1
    <3>3. Len(q) + 2 + i - 1 - Len(q) = i + 1
      BY <1>2, <3>1
    <3>4. QED
      BY <2>3, <3>1, <3>2, <3>3
  <2>5. rest = Tail(r)
    BY <2>2, <2>3, <2>4, SeqEqual
  <2>6. QED
    BY <2>5 DEF rest
<1>5. Len(q \o r) > Len(q) /\ Len(q \o r) = Len(q) + Len(r)
  BY <1>1, <1>2
<1>6. QED
  BY <1>3, <1>4, <1>5

LEMMA DropFirst ==
    ASSUME NEW S, NEW q \in Seq(S), NEW r \in Seq(S)
    PROVE  /\ Len(q) \in 0 .. Len(q \o r)
           /\ SubSeq(q \o r, Len(q) + 1, Len(q \o r)) = r
<1>1. /\ q \o r \in Seq(S) /\ Len(q \o r) = Len(q) + Len(r)
      /\ \A i \in 1 .. Len(q) + Len(r) :
            (q \o r)[i] = IF i <= Len(q) THEN q[i] ELSE r[i - Len(q)]
  BY ConcatProperties
<1>2. Len(r) \in Nat /\ Len(q) \in Nat
  BY LenProperties
<1> DEFINE rest == SubSeq(q \o r, Len(q) + 1, Len(q) + Len(r))
<1>3. \A i \in Len(q) + 1 .. Len(q) + Len(r) : (q \o r)[i] \in S
  <2>1. \A i \in 1 .. Len(q) + Len(r) : (q \o r)[i] \in S
    BY <1>1, ElementOfSeq
  <2>2. QED
    BY <1>2, <2>1
<1>4. /\ rest \in Seq(S)
      /\ Len(rest) = IF Len(q) + 1 <= Len(q) + Len(r)
                     THEN Len(q) + Len(r) - (Len(q) + 1) + 1 ELSE 0
      /\ \A i \in 1 .. Len(q) + Len(r) - (Len(q) + 1) + 1 :
            rest[i] = (q \o r)[Len(q) + 1 + i - 1]
  <2>1. Len(q) + 1 \in Int /\ Len(q) + Len(r) \in Int
    BY <1>2
  <2>2. QED
    BY <1>3, <2>1, SubSeqProperties
<1> HIDE DEF rest
<1>5. Len(rest) = Len(r)
  BY <1>2, <1>4
<1>6. \A i \in 1 .. Len(rest) : rest[i] = r[i]
  <2> SUFFICES ASSUME NEW i \in 1 .. Len(rest) PROVE rest[i] = r[i]
    OBVIOUS
  <2>1. /\ i \in 1 .. Len(q) + Len(r) - (Len(q) + 1) + 1
        /\ Len(q) + 1 + i - 1 = Len(q) + i /\ Len(q) + i \in 1 .. Len(q) + Len(r)
    BY <1>2, <1>5
  <2>2. rest[i] = (q \o r)[Len(q) + i]
    BY <1>4, <2>1
  <2>3. (q \o r)[Len(q) + i] = r[Len(q) + i - Len(q)]
    <3>1. ~ (Len(q) + i <= Len(q))
      BY <1>2, <1>5
    <3>2. QED
      BY <1>1, <2>1, <3>1
  <2>4. QED
    BY <1>2, <1>5, <2>2, <2>3
<1>7. rest = r
  BY <1>4, <1>5, <1>6, SeqEqual
<1>8. QED
  BY <1>1, <1>2, <1>7 DEF rest
-----------------------------------------------------------------------------
(* One frame folded into the table is the frame counted in CanTable.        *)
Counts(t) == [i \in Ids |-> IF i \in DOMAIN t THEN t[i].rx ELSE 0]
Lasts(t) == [i \in Ids |-> IF i \in DOMAIN t THEN {t[i].last} ELSE {}]

LEMMA FoldIsCount ==
    ASSUME NEW t, DOMAIN t \subseteq Ids, IsFiniteSet(DOMAIN t), NEW f \in Frame
    PROVE  IF f.id \in DOMAIN t \/ Cardinality(DOMAIN t) < MaxIds
           THEN /\ DOMAIN UpdateInsert(t, f) = DOMAIN t \cup {f.id}
                /\ Counts(UpdateInsert(t, f)) = [Counts(t) EXCEPT ![f.id] = (@ + 1) % CountMod]
                /\ Lasts(UpdateInsert(t, f)) = [Lasts(t) EXCEPT ![f.id] = {f.data}]
           ELSE UpdateInsert(t, f) = t
<1>1. f.id \in Ids /\ f.data \in Payloads
  BY DEF Frame
<1>2. Refused(t, f) <=> ~ (f.id \in DOMAIN t \/ Cardinality(DOMAIN t) < MaxIds)
  BY FS_CardinalityType, CanAssumption DEF Refused
<1>3. CASE Refused(t, f)
  BY <1>2, <1>3 DEF UpdateInsert
<1>4. CASE ~ Refused(t, f)
  <2> DEFINE u == UpdateInsert(t, f)
  <2>1. u = [i \in DOMAIN t \cup {f.id} |->
                IF i = f.id THEN [rx |-> NextCount(t, i), last |-> f.data] ELSE t[i]]
    BY <1>4 DEF UpdateInsert
  <2>2. DOMAIN u = DOMAIN t \cup {f.id}
    BY <2>1
  <2>3. u[f.id].rx = (Counts(t)[f.id] + 1) % CountMod /\ u[f.id].last = f.data
    BY <1>1, <2>1 DEF NextCount, Counts
  <2>4. \A i \in DOMAIN t \ {f.id} : u[i] = t[i]
    BY <2>1
  <2> HIDE DEF u
  <2>5. Counts(u) = [Counts(t) EXCEPT ![f.id] = (@ + 1) % CountMod]
    BY <1>1, <2>2, <2>3, <2>4 DEF Counts
  <2>6. Lasts(u) = [Lasts(t) EXCEPT ![f.id] = {f.data}]
    BY <1>1, <2>2, <2>3, <2>4 DEF Lasts
  <2>7. QED
    BY <1>2, <1>4, <2>2, <2>5, <2>6 DEF u
<1>5. QED
  BY <1>3, <1>4

(* Both modules count the entries of a set alike.                           *)
LEMMA SameCardinality == \A S : Table!Cardinality(S) = Cardinality(S)
BY DEF Cardinality, Table!Cardinality

(* What CanTable does not see: the row of waiting frames, the table and     *)
(* whether it is open stay as they are.                                     *)
Open == app \notin {"joined", "reset", "freed"}

LEMMA UnseenStep ==
    ASSUME queue' \o fifo' = queue \o fifo, table' = table, Open' = Open
    PROVE  UNCHANGED Table!tableVars
BY DEF Table!tableVars, Open

(* Every behaviour of handler, worker and application is one of the table   *)
(* of CanTable: frames are folded once, in bus order and only before the    *)
(* stop, and a frame is lost only behind QueueSize others                   *)
(* (dashboard_can_worker_can_isr, dashboard_can_worker_process_rx_queue).   *)
THEOREM TableImplemented == Spec => ImplementsTable
<1>1. Init => Table!Init
  <2> SUFFICES ASSUME Init PROVE Table!Init
    OBVIOUS
  <2>1. queue \o fifo = <<>>
    BY DEF Init
  <2>2. DOMAIN table = {} /\ app \notin {"joined", "reset", "freed"}
    BY EmptyTableType DEF Init
  <2>3. QED
    BY <2>1, <2>2 DEF Table!Init
<1>2. TypeOK /\ Lifecycle /\ TableInv /\ [Next]_vars => [Table!Next]_(Table!tableVars)
  <2> SUFFICES ASSUME TypeOK, Lifecycle, TableInv, [Next]_vars
               PROVE  [Table!Next]_(Table!tableVars)
    OBVIOUS
  <2> USE DEF hw, isrVars, worker, reader, history
  <2>1. queue \in Seq(Frame) /\ fifo \in Seq(Frame)
    BY DEF TypeOK
  <2>2. Len(queue) \in Nat /\ Len(fifo) \in Nat /\ Len(queue \o fifo) = Len(queue) + Len(fifo)
    BY <2>1, LenProperties, ConcatProperties
  <2>3. ASSUME NEW f \in Frame, FrameArrives(f)
        PROVE  [Table!Next]_(Table!tableVars)
    <3>1. queue' = queue /\ table' = table /\ app' = app
      BY <2>3 DEF FrameArrives
    <3>2. CASE Len(fifo) < FifoSize
      <4>0. fifo' = Append(fifo, f)
        BY <2>3, <3>2 DEF FrameArrives
      <4>1. queue' \o fifo' = Append(queue \o fifo, f)
        BY <2>1, <3>1, <4>0, PutAtEnd
      <4>2. Len(queue \o fifo) < FifoSize + QueueSize
        BY <2>2, <3>2, CanAssumption DEF TypeOK
      <4>3. Table!Receive(f) /\ f \in Table!AbsFrame
        BY <3>1, <4>1, <4>2 DEF Table!Receive, Table!AbsFrame, Frame
      <4>4. QED
        BY <4>3 DEF Table!Next
    <3>3. CASE ~ (Len(fifo) < FifoSize)
      <4>1. fifo' = fifo
        BY <2>3, <3>3 DEF FrameArrives
      <4>2. QED
        BY <3>1, <4>1, UnseenStep DEF Open
    <3>4. QED
      BY <3>2, <3>3
  <2>4. CASE IsrMove
    <3>1. fifo # <<>> /\ fifo' = Tail(fifo) /\ table' = table /\ app' = app
      BY <2>4 DEF IsrMove
    <3>2. CASE Room(queue)
      <4>1. queue' = Append(queue, Head(fifo))
        BY <2>4, <3>2 DEF IsrMove
      <4>2. queue' \o fifo' = queue \o fifo
        BY <2>1, <3>1, <4>1, MoveBetween
      <4>3. QED
        BY <3>1, <4>2, UnseenStep DEF Open
    <3>3. CASE ~ Room(queue)
      <4>1. queue' = queue
        BY <2>4, <3>3 DEF IsrMove
      <4>2. Len(queue) = QueueSize
        BY <2>2, <3>3, CanAssumption DEF Room, TypeOK
      <4>3. /\ Len(queue \o fifo) > QueueSize
            /\ queue' \o fifo' = SubSeq(queue \o fifo, 1, QueueSize)
                                 \o SubSeq(queue \o fifo, QueueSize + 2, Len(queue \o fifo))
        BY <2>1, <3>1, <4>1, <4>2, LoseFirst
      <4>4. Table!Lose
        BY <3>1, <4>3 DEF Table!Lose
      <4>5. QED
        BY <4>4 DEF Table!Next
    <3>4. QED
      BY <3>2, <3>3
  <2>5. CASE WorkerGet
    <3>1. /\ queue # <<>> /\ queue' = Tail(queue) /\ fifo' = fifo /\ app' = app
          /\ table' = UpdateInsert(table, Head(queue)) /\ wpc = "drain"
      BY <2>5 DEF WorkerGet
    <3>2. app \notin {"joined", "reset", "freed"}
      BY <3>1 DEF Lifecycle
    <3>3. /\ queue \o fifo # <<>> /\ Head(queue \o fifo) = Head(queue)
          /\ queue' \o fifo' = Tail(queue \o fifo)
      BY <2>1, <3>1, GetAtFront
    <3> DEFINE f == Head(queue)
    <3>4. f \in Frame
      BY <2>1, <3>1, HeadTailProperties
    <3>5. IF f.id \in DOMAIN table \/ Cardinality(DOMAIN table) < MaxIds
          THEN /\ DOMAIN table' = DOMAIN table \cup {f.id}
               /\ Counts(table') = [Counts(table) EXCEPT ![f.id] = (@ + 1) % CountMod]
               /\ Lasts(table') = [Lasts(table) EXCEPT ![f.id] = {f.data}]
          ELSE table' = table
      BY <3>1, <3>4, FoldIsCount DEF TypeOK, TableInv
    <3>6. Table!Count
      <4>1. CASE f.id \in DOMAIN table \/ Cardinality(DOMAIN table) < MaxIds
        <5>1. /\ DOMAIN table' = DOMAIN table \cup {f.id}
              /\ Counts(table') = [Counts(table) EXCEPT ![f.id] = (@ + 1) % CountMod]
              /\ Lasts(table') = [Lasts(table) EXCEPT ![f.id] = {f.data}]
          BY <3>5, <4>1
        <5>2. Head(queue \o fifo).id \in DOMAIN table \/ Cardinality(DOMAIN table) < MaxIds
          BY <3>3, <4>1
        <5>3. /\ DOMAIN table' = DOMAIN table \cup {Head(queue \o fifo).id}
              /\ Counts(table')
                   = [Counts(table) EXCEPT ![Head(queue \o fifo).id] = (@ + 1) % CountMod]
              /\ Lasts(table')
                   = [Lasts(table) EXCEPT ![Head(queue \o fifo).id] = {Head(queue \o fifo).data}]
          BY <3>3, <5>1
        <5>4. app \notin {"joined", "reset", "freed"} /\ app' \notin {"joined", "reset", "freed"}
          BY <3>1, <3>2
        <5>5. QED
          BY <3>3, <5>2, <5>3, <5>4, SameCardinality DEF Table!Count, Counts, Lasts
      <4>2. CASE ~ (f.id \in DOMAIN table \/ Cardinality(DOMAIN table) < MaxIds)
        <5>1. table' = table
          BY <3>5, <4>2
        <5>2. UNCHANGED <<DOMAIN table, Counts(table), Lasts(table)>>
          BY <5>1 DEF Counts, Lasts
        <5>3. ~ (Head(queue \o fifo).id \in DOMAIN table \/ Cardinality(DOMAIN table) < MaxIds)
          BY <3>3, <4>2
        <5>4. app \notin {"joined", "reset", "freed"} /\ app' \notin {"joined", "reset", "freed"}
          BY <3>1, <3>2
        <5>5. QED
          BY <3>3, <5>2, <5>3, <5>4, SameCardinality DEF Table!Count, Counts, Lasts
      <4>3. QED
        BY <4>1, <4>2
    <3>7. QED
      BY <3>6 DEF Table!Next
  <2>6. CASE AppJoinAndResetQueue
    <3>1. /\ queue' = <<>> /\ fifo' = fifo /\ table' = table
          /\ app = "joining" /\ app' = "joined"
      BY <2>6 DEF AppJoinAndResetQueue
    <3>2. queue' \o fifo' = fifo
      BY <2>1, <3>1, ConcatEmptySeq
    <3>3. /\ Len(queue) \in 0 .. Len(queue \o fifo)
          /\ SubSeq(queue \o fifo, Len(queue) + 1, Len(queue \o fifo)) = fifo
      BY <2>1, DropFirst
    <3>4. Table!Close
      BY <3>1, <3>2, <3>3 DEF Table!Close
    <3>5. QED
      BY <3>4 DEF Table!Next
  <2>7. CASE AppResetTable
    <3>1. /\ queue' = queue /\ fifo' = fifo /\ DOMAIN table' = {}
          /\ app = "joined" /\ app' = "reset"
      BY <2>7, EmptyTableType DEF AppResetTable
    <3>2. Table!Reset
      BY <3>1 DEF Table!Reset
    <3>3. QED
      BY <3>2 DEF Table!Next
  <2>8. ASSUME IsrEnter \/ IsrClear \/ IsrSignal \/ IsrExit
        PROVE  UNCHANGED Table!tableVars
    <3>1. UNCHANGED <<queue, fifo, table, app>>
      BY <2>8 DEF IsrEnter, IsrClear, IsrSignal, IsrExit
    <3>2. QED
      BY <3>1, UnseenStep DEF Open
  <2>9. ASSUME WorkerWait \/ WorkerLock \/ WorkerUnlock \/ WorkerCallback \/ WorkerScrubbed
        PROVE  UNCHANGED Table!tableVars
    <3>1. UNCHANGED <<queue, fifo, table, app>>
      BY <2>9 DEF WorkerWait, WorkerLock, WorkerUnlock, WorkerCallback, WorkerScrubbed
    <3>2. QED
      BY <3>1, UnseenStep DEF Open
  <2>10. ASSUME \/ AppStartThread \/ AppSetIsr \/ AppUnlock \/ AppClearIsr \/ AppSendStop
                \/ AppFree \/ (\E ids \in SUBSET Ids : AppLock(ids)) \/ (\E i \in Ids : AppCopy(i))
         PROVE  UNCHANGED Table!tableVars
    <3>1. UNCHANGED <<queue, fifo, table>>
      BY <2>10 DEF AppStartThread, AppSetIsr, AppUnlock, AppClearIsr, AppSendStop, AppFree,
                   AppLock, AppCopy
    <3>2. Open' = Open
      BY <2>10 DEF AppStartThread, AppSetIsr, AppUnlock, AppClearIsr, AppSendStop, AppFree,
                   AppLock, AppCopy, Open
    <3>3. QED
      BY <3>1, <3>2, UnseenStep
  <2>11. ASSUME UNCHANGED vars PROVE UNCHANGED Table!tableVars
    BY <2>11, UnseenStep DEF vars, Open
  <2>12. QED
    BY <2>3, <2>4, <2>5, <2>6, <2>7, <2>8, <2>9, <2>10, <2>11
       DEF Next, Isr, Worker, App, Terminated
<1>3. QED
  BY <1>1, <1>2, TypeCorrect, LifecycleHolds, TableInvariant, PTL
     DEF Spec, ImplementsTable, Table!Spec
=============================================================================
