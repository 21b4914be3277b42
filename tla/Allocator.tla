----------------------------- MODULE Allocator ------------------------------
(***************************************************************************)
(* What a heap promises: memory that is handed out is inside the heap,     *)
(* large enough for what was asked, and nobody else's until it is given    *)
(* back.                                                                   *)
(***************************************************************************)
EXTENDS Integers

CONSTANTS
    HeapSize,    (* addresses 0 .. HeapSize - 1                             *)
    Header,      (* bytes of each block that are the allocator's            *)
    Requests     (* sizes that are asked for                                *)

VARIABLES
    owned,       (* the blocks that are not the allocator's                 *)
    lastRequest  (* bytes of the last request                               *)

Disjoint(b, c) == b.at + b.size <= c.at \/ c.at + c.size <= b.at

AllocatorInit == owned = {} /\ lastRequest = 0

(* The block given is for the request that this step answers.               *)
Give(b) ==
    /\ lastRequest' \in Requests /\ b.size >= Header + lastRequest'
    /\ b.at \in Nat /\ b.at + b.size <= HeapSize
    /\ \A c \in owned : Disjoint(b, c)
    /\ owned' = owned \cup {b}

TakeBack(b) == b \in owned /\ owned' = owned \ {b} /\ UNCHANGED lastRequest

AllocatorNext ==
    \/ \E b \in owned' : Give(b)
    \/ \E b \in owned : TakeBack(b)
AllocatorSpec == AllocatorInit /\ [][AllocatorNext]_<<owned, lastRequest>>
=============================================================================
