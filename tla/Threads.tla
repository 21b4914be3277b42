------------------------------ MODULE Threads -------------------------------
(***************************************************************************)
(* The life of a FuriThread: its owner configures and starts it, its body  *)
(* runs in a task of its own, the init thread deletes the task and reports *)
(* it stopped, the owner joins it and starts it again or frees it.         *)
(*                                                                         *)
(* The task control block lies inside the FuriThread: when that is freed,  *)
(* the kernel must not know the task any more.  The three kinds of threads *)
(* interleave freely; the init thread has the lowest priority of all, so   *)
(* an owner that wakes up may run between any two of its steps.            *)
(***************************************************************************)
EXTENDS Naturals, Sequences, SequencesExt, FiniteSets

CONSTANTS
    Threads,         (* instances that may be allocated                     *)
    ScrubLength      (* capacity of furi_thread_scrub_message_queue         *)

ASSUME ThreadsAssumption == IsFiniteSet(Threads) /\ ScrubLength \in Nat \ {0}

VARIABLES
    state,           (* thread->state                                       *)
    owner,           (* the owner: "none" (freed), "idle", "create", "join" *)
    task,            (* the task: "none", or where its body stands          *)
    scrubQueue,      (* furi_thread_scrub_message_queue                     *)
    scrubber,        (* the init thread: "get", "delete", "stopped", "call" *)
    scrubbed         (* thread_to_scrub, in a sequence of at most one       *)

threadVars == <<state, owner, task, scrubQueue, scrubber, scrubbed>>
scrubVars == <<scrubber, scrubbed>>

ThreadsInit ==
    /\ state = [t \in Threads |-> "Stopped"]
    /\ owner = [t \in Threads |-> "none"] /\ task = [t \in Threads |-> "none"]
    /\ scrubQueue = <<>> /\ scrubber = "get" /\ scrubbed = <<>>
-----------------------------------------------------------------------------
(* The owner.  All setters check that the state is Stopped, as start does.  *)
AllocThread(t) ==
    /\ owner[t] = "none" /\ owner' = [owner EXCEPT ![t] = "idle"]
    /\ state' = [state EXCEPT ![t] = "Stopped"]
    /\ UNCHANGED <<task, scrubQueue, scrubVars>>

StartThread(t) ==
    /\ owner[t] = "idle" /\ state[t] = "Stopped"
    /\ state' = [state EXCEPT ![t] = "Starting"]
    /\ owner' = [owner EXCEPT ![t] = "create"]
    /\ UNCHANGED <<task, scrubQueue, scrubVars>>

(* xTaskCreateStatic: the task may run before the call returns.             *)
CreateTask(t) ==
    /\ owner[t] = "create" /\ owner' = [owner EXCEPT ![t] = "join"]
    /\ task' = [task EXCEPT ![t] = "begin"]
    /\ UNCHANGED <<state, scrubQueue, scrubVars>>

JoinThread(t) ==
    /\ owner[t] = "join" /\ state[t] = "Stopped"
    /\ owner' = [owner EXCEPT ![t] = "idle"]
    /\ UNCHANGED <<state, task, scrubQueue, scrubVars>>

FreeThread(t) ==
    /\ owner[t] = "idle" /\ state[t] = "Stopped"
    /\ owner' = [owner EXCEPT ![t] = "none"]
    /\ UNCHANGED <<state, task, scrubQueue, scrubVars>>
-----------------------------------------------------------------------------
(* furi_thread_body.                                                        *)
BeginBody(t) ==
    /\ task[t] = "begin" /\ task' = [task EXCEPT ![t] = "callback"]
    /\ state' = [state EXCEPT ![t] = "Running"]
    /\ UNCHANGED <<owner, scrubQueue, scrubVars>>

FaultReturnFromBody(t) ==
    /\ task[t] = "callback" /\ task' = [task EXCEPT ![t] = "put"]
    /\ state' = [state EXCEPT ![t] = "Stopped"]
    /\ UNCHANGED <<owner, scrubQueue, scrubVars>>
ReturnFromBody(t) ==
    /\ task[t] = "callback" /\ task' = [task EXCEPT ![t] = "put"]
    /\ state' = [state EXCEPT ![t] = "Stopping"]
    /\ UNCHANGED <<owner, scrubQueue, scrubVars>>

PutScrub(t) ==
    /\ task[t] = "put" /\ Len(scrubQueue) < ScrubLength
    /\ task' = [task EXCEPT ![t] = "suspended"]
    /\ scrubQueue' = Append(scrubQueue, t)
    /\ UNCHANGED <<state, owner, scrubVars>>
-----------------------------------------------------------------------------
(* furi_thread_scrub.  The state is written first; the callback is read from *)
(* the FuriThread afterwards.                                               *)
GetScrub ==
    /\ scrubber = "get" /\ scrubQueue # <<>>
    /\ scrubbed' = <<Head(scrubQueue)>> /\ scrubQueue' = Tail(scrubQueue)
    /\ scrubber' = "delete"
    /\ UNCHANGED <<state, owner, task>>

DeleteTask ==
    /\ scrubber = "delete" /\ scrubber' = "stopped"
    /\ task' = [task EXCEPT ![scrubbed[1]] = "none"]
    /\ UNCHANGED <<state, owner, scrubQueue, scrubbed>>

SetStopped ==
    /\ scrubber = "stopped" /\ scrubber' = "call"
    /\ state' = [state EXCEPT ![scrubbed[1]] = "Stopped"]
    /\ UNCHANGED <<owner, task, scrubQueue, scrubbed>>

CallStopped ==
    /\ scrubber = "call" /\ scrubber' = "get" /\ scrubbed' = <<>>
    /\ UNCHANGED <<state, owner, task, scrubQueue>>
-----------------------------------------------------------------------------
Scrub == GetScrub \/ DeleteTask \/ SetStopped \/ CallStopped
Owner(t) == AllocThread(t) \/ StartThread(t) \/ CreateTask(t) \/ JoinThread(t) \/ FreeThread(t)
Body(t) == BeginBody(t) \/ ReturnFromBody(t) \/ PutScrub(t)
ThreadsNext == Scrub \/ \E t \in Threads : Owner(t) \/ Body(t)

ThreadsSpec == ThreadsInit /\ [][ThreadsNext]_threadVars
-----------------------------------------------------------------------------
ThreadsTypeOK ==
    /\ state \in [Threads -> {"Stopped", "Starting", "Running", "Stopping"}]
    /\ owner \in [Threads -> {"none", "idle", "create", "join"}]
    /\ task \in [Threads -> {"none", "begin", "callback", "put", "suspended"}]
    /\ scrubQueue \in Seq(Threads) /\ Len(scrubQueue) <= ScrubLength
    /\ scrubber \in {"get", "delete", "stopped", "call"}
    /\ scrubbed \in Seq(Threads) /\ (Len(scrubbed) = 1 <=> scrubber # "get") /\ Len(scrubbed) <= 1

(* A thread that has begun to stop is on its way to the init thread once,   *)
(* or in its hands, also when the queue was full.                           *)
InHand(t) == scrubber \in {"delete", "stopped"} /\ scrubbed = <<t>>
Deleting(t) == scrubber = "delete" /\ scrubbed = <<t>>
ScrubbedOnce ==
    /\ \A i, j \in 1 .. Len(scrubQueue) : scrubQueue[i] = scrubQueue[j] => i = j
    /\ \A t \in Threads :
          /\ Contains(scrubQueue, t) => task[t] = "suspended" /\ ~ InHand(t)
          /\ Deleting(t) => task[t] = "suspended"
          /\ task[t] = "suspended" => Contains(scrubQueue, t) \/ Deleting(t)

(* Once furi_thread_join has returned, and before a start, the kernel has no *)
(* task in the memory of the thread, and the init thread will not write to  *)
(* its state: the instance may be started again.  No thread that ends is    *)
(* forgotten, though the queue to the init thread fills up, and the states  *)
(* a body asserts of itself hold, however the others interleave.            *)
Quiescent(t) == task[t] = "none" /\ ~ Contains(scrubQueue, t) /\ ~ InHand(t)
JoinedIsGone ==
    /\ ThreadsTypeOK /\ ScrubbedOnce
    /\ \A t \in Threads :
          /\ owner[t] \in {"none", "idle"} => Quiescent(t) /\ state[t] = "Stopped"
          /\ owner[t] = "create" => Quiescent(t) /\ state[t] = "Starting"
          /\ task[t] = "begin" => state[t] = "Starting"
          /\ task[t] = "callback" => state[t] = "Running"

(* thread.h:24 says of FuriThreadStateStopped: "It is safe to release thread *)
(* instance".  The init thread is not done with it: furi_thread_set_state   *)
(* still has to read its callback.                                          *)
ReleasedAlone ==
    \A t \in Threads : owner[t] = "none" => ~ (scrubber = "call" /\ scrubbed = <<t>>)
=============================================================================
