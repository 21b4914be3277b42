------------------------------ MODULE Records -------------------------------
(***************************************************************************)
(* The record storage, by which services find one another, and the threads *)
(* that use it.  A thread runs a program of record calls: what it does as  *)
(* it starts, and from `LoopFrom[t]' on for ever.                          *)
(*                                                                         *)
(* The mutex of the storage makes each call one step, except open: that    *)
(* counts the caller under the mutex, waits for the record to be ready     *)
(* without it, and reads the data.                                         *)
(***************************************************************************)
EXTENDS Integers, Sequences, FiniteSets

CONSTANTS
    Clients,     (* threads                                                 *)
    Names,       (* names of records                                        *)
    Program,     (* per thread, a sequence of [call, name]                  *)
    LoopFrom     (* per thread, the step its program goes back to           *)

Calls == {"create", "destroy", "open", "close"}
ASSUME RecordsAssumption ==
    /\ IsFiniteSet(Clients)
    /\ Program \in [Clients -> Seq([call : Calls, name : Names])]
    /\ LoopFrom \in [Clients -> Nat \ {0}]

(* What record.h asks of the programs: the thread that opened a record      *)
(* closes it, the thread that created it destroys it, nobody closes more    *)
(* than he opened, and a record has one creator, who creates it again only  *)
(* after he destroyed it.  A loop ends with what it began with.             *)
Before(c, i, call, n) ==
    {j \in 1 .. Len(Program[c]) : j < i /\ Program[c][j] = [call |-> call, name |-> n]}
Uses(c, i, n) == Cardinality(Before(c, i, "open", n)) - Cardinality(Before(c, i, "close", n))
Made(c, i, n) == Cardinality(Before(c, i, "create", n)) - Cardinality(Before(c, i, "destroy", n))
Creator(c, n) == \E j \in 1 .. Len(Program[c]) : Program[c][j] = [call |-> "create", name |-> n]
ASSUME ProgramAssumption ==
    \A c \in Clients, n \in Names :
       /\ \A i \in 1 .. Len(Program[c]) + 1 : Uses(c, i, n) >= 0 /\ Made(c, i, n) \in 0 .. 1
       /\ Uses(c, LoopFrom[c], n) = Uses(c, Len(Program[c]) + 1, n)
       /\ Made(c, LoopFrom[c], n) = Made(c, Len(Program[c]) + 1, n)
       /\ \A d \in Clients : Creator(c, n) /\ Creator(d, n) => c = d

VARIABLES
    records,     (* furi_record->records: the entries there are             *)
    holders,     (* holders_count of each entry                             *)
    ready,       (* names whose entry has its data and its READY flag set   *)
    at,          (* per thread, the step of its program                     *)
    inOpen,      (* threads that wait in furi_record_open                   *)
    held         (* history: per thread and name, opens less closes         *)

recordVars == <<records, holders, ready, at, inOpen, held>>

RecordsInit ==
    /\ records = {} /\ ready = {} /\ holders = [n \in Names |-> 0]
    /\ at = [c \in Clients |-> 1] /\ inOpen = {}
    /\ held = [c \in Clients |-> [n \in Names |-> 0]]

Calling(c, call, n) ==
    /\ c \notin inOpen /\ at[c] <= Len(Program[c])
    /\ Program[c][at[c]] = [call |-> call, name |-> n]
Advanced(c) == [at EXCEPT ![c] = IF @ = Len(Program[c]) THEN LoopFrom[c] ELSE @ + 1]
-----------------------------------------------------------------------------
(* furi_record_create, with furi_record_data_get_or_create.                 *)
CreateRecord(c, n) ==
    /\ Calling(c, "create", n) /\ n \notin ready
    /\ records' = records \cup {n} /\ ready' = ready \cup {n}
    /\ at' = Advanced(c)
    /\ UNCHANGED <<holders, inOpen, held>>

(* furi_record_destroy; a caller that is told FALSE tries again.            *)
FaultDestroyRecord(c, n) ==
    /\ Calling(c, "destroy", n) /\ n \in records
    /\ holders[n] < 2
    /\ records' = records \ {n} /\ ready' = ready \ {n}
    /\ holders' = [holders EXCEPT ![n] = 0]
    /\ at' = Advanced(c)
    /\ UNCHANGED <<inOpen, held>>
DestroyRecord(c, n) ==
    /\ Calling(c, "destroy", n) /\ n \in records
    /\ holders[n] = 0
    /\ records' = records \ {n} /\ ready' = ready \ {n}
    /\ at' = Advanced(c)
    /\ UNCHANGED <<holders, inOpen, held>>

(* The first part of furi_record_open: find the entry or make one, count.   *)
OpenRecord(c, n) ==
    /\ Calling(c, "open", n)
    /\ records' = records \cup {n}
    /\ holders' = [holders EXCEPT ![n] = @ + 1]
    /\ held' = [held EXCEPT ![c][n] = @ + 1]
    /\ inOpen' = inOpen \cup {c}
    /\ UNCHANGED <<ready, at>>

(* The second part: the flag is waited for and stays set (FuriFlagNoClear). *)
Ready(c, n) ==
    /\ c \in inOpen /\ Program[c][at[c]].name = n /\ n \in ready
    /\ inOpen' = inOpen \ {c} /\ at' = Advanced(c)
    /\ UNCHANGED <<records, holders, ready, held>>

CloseRecord(c, n) ==
    /\ Calling(c, "close", n) /\ n \in records
    /\ holders' = [holders EXCEPT ![n] = @ - 1]
    /\ held' = [held EXCEPT ![c][n] = @ - 1]
    /\ at' = Advanced(c)
    /\ UNCHANGED <<records, ready, inOpen>>
-----------------------------------------------------------------------------
Client(c) == \E n \in Names :
    CreateRecord(c, n) \/ DestroyRecord(c, n) \/ OpenRecord(c, n) \/ Ready(c, n) \/ CloseRecord(c, n)
RecordsNext == \E c \in Clients : Client(c)
RecordsSpec == RecordsInit /\ [][RecordsNext]_recordVars
-----------------------------------------------------------------------------
RecordsTypeOK ==
    /\ records \subseteq Names /\ ready \subseteq records
    /\ holders \in [Names -> Nat]
    /\ at \in [Clients -> Nat] /\ inOpen \subseteq Clients
    /\ held \in [Clients -> [Names -> Nat]]

(* Nobody loses a record under his hands: what a thread has opened, or      *)
(* waits for, keeps its entry, with the event flag it waits on, and the     *)
(* data of what it has opened stays until it closes it, whatever creators   *)
(* and other users do.  And no caller meets a furi_check: an entry that is  *)
(* created has no data yet, one that is closed or destroyed exists.         *)
Waits(c, n) == c \in inOpen /\ Program[c][at[c]].name = n
RecordsKept ==
    /\ RecordsTypeOK
    /\ \A c \in Clients, n \in Names :
          /\ held[c][n] > 0 => n \in records
          /\ held[c][n] > (IF Waits(c, n) THEN 1 ELSE 0) => n \in ready
          /\ Calling(c, "create", n) => n \notin ready
          /\ Calling(c, "destroy", n) => n \in records
          /\ Calling(c, "close", n) => held[c][n] > 0
=============================================================================
