-------------------------------- MODULE Heap --------------------------------
(***************************************************************************)
(* The heap of memmgr_heap.c: free blocks in a list by address, first fit, *)
(* split and merged.  An allocation is one step, for the scheduler is      *)
(* suspended; a free is two: the block loses its mark and is wiped, and    *)
(* then goes to the list with the scheduler suspended.                     *)
(*                                                                         *)
(* An allocation that does not fit stops the system and is no step here.   *)
(* Left out: traces of allocations per thread.                             *)
(***************************************************************************)
EXTENDS Integers, Sequences, FiniteSetsExt, SequencesExt

CONSTANTS
    HeapSize,    (* bytes between the aligned start and pxEnd               *)
    Header,      (* xHeapStructSize                                         *)
    Align,       (* portBYTE_ALIGNMENT                                      *)
    Requests,    (* bound: sizes that are asked for                         *)
    Tasks        (* threads that allocate and free                          *)

ASSUME HeapAssumption ==
    /\ HeapSize \in Nat \ {0} /\ Header \in Nat \ {0} /\ Align \in Nat \ {0}
    /\ Requests \subseteq Nat \ {0}

VARIABLES
    freeList,    (* blocks from xStart on, without pxEnd                    *)
    used,        (* blocks with heapBLOCK_ALLOCATED_BITMASK                 *)
    wiping,      (* per task, the block it is freeing                       *)
    freeBytes,   (* xFreeBytesRemaining                                     *)
    minimumEver, (* xMinimumEverFreeBytesRemaining                          *)
    lastRequest  (* bytes asked for in the last allocation, for Allocator   *)

heapVars == <<freeList, used, wiping, freeBytes, minimumEver, lastRequest>>

HeapInit ==
    /\ freeList = <<[at |-> 0, size |-> HeapSize]>> /\ used = {}
    /\ wiping = [t \in Tasks |-> {}]
    /\ freeBytes = HeapSize /\ minimumEver = HeapSize /\ lastRequest = 0
-----------------------------------------------------------------------------
(* xWantedSize: with the header, rounded up.                                *)
WantedSize(bytes) ==
    LET raw == bytes + Header
    IN  IF (raw % Align) = 0 THEN raw ELSE (raw + Align) - (raw % Align)

Fits(n, wanted) ==
    /\ n \in 1 .. Len(freeList) /\ freeList[n].size >= wanted
    /\ \A i \in 1 .. n - 1 : freeList[i].size < wanted

(* heapMINIMUM_BLOCK_SIZE                                                   *)
Splits(size, wanted) == size - wanted > 2 * Header

Malloc(bytes) ==
    LET wanted == WantedSize(bytes)
    IN  \E n \in 1 .. Len(freeList) :
          /\ Fits(n, wanted) /\ wanted <= freeBytes
          /\ LET b == freeList[n]
                 size == IF Splits(b.size, wanted) THEN wanted ELSE b.size
             IN  /\ freeList' = IF Splits(b.size, wanted)
                                THEN [freeList EXCEPT ![n] = [at |-> b.at + wanted, size |-> b.size - wanted]]
                                ELSE RemoveAt(freeList, n)
                 /\ used' = used \cup {[at |-> b.at, size |-> size]}
                 /\ freeBytes' = freeBytes - size
                 /\ minimumEver' = IF freeBytes' < minimumEver THEN freeBytes' ELSE minimumEver
          /\ lastRequest' = bytes /\ UNCHANGED wiping

(* prvInsertBlockIntoFreeList: after the last block before the first that   *)
(* is not lower, merged with either neighbour that it touches.              *)
Place(list, b) ==
    CHOOSE n \in 0 .. Len(list) :
        /\ \A i \in 1 .. n : list[i].at < b.at
        /\ n < Len(list) => list[n + 1].at >= b.at
Touches(b, c) == b.at + b.size = c.at

FaultInserted(list, b) ==
    LET n == Place(list, b)
        before == n > 0 /\ Touches(list[n], b)
        joined == [at |-> IF before THEN list[n].at ELSE b.at,
                   size |-> IF before THEN list[n].size + b.size ELSE b.size]
    IN  SubSeq(list, 1, IF before THEN n - 1 ELSE n) \o <<joined>> \o SubSeq(list, n + 1, Len(list))
Inserted(list, b) ==
    LET n == Place(list, b)
        before == n > 0 /\ Touches(list[n], b)
        after == n < Len(list) /\ Touches(b, list[n + 1])
        joined == [at |-> IF before THEN list[n].at ELSE b.at,
                   size |-> (IF before THEN list[n].size ELSE 0) + b.size
                            + (IF after THEN list[n + 1].size ELSE 0)]
    IN  SubSeq(list, 1, IF before THEN n - 1 ELSE n) \o <<joined>>
          \o SubSeq(list, IF after THEN n + 2 ELSE n + 1, Len(list))

(* vPortFree up to the scheduler being suspended.                           *)
FaultWipe(t, b) ==
    /\ wiping[t] = {} /\ b \in used
    /\ wiping' = [wiping EXCEPT ![t] = {b}]
    /\ used' = used \ {b}
    /\ freeList' = Inserted(freeList, b)
    /\ UNCHANGED <<freeBytes, minimumEver, lastRequest>>
Wipe(t, b) ==
    /\ wiping[t] = {} /\ b \in used
    /\ wiping' = [wiping EXCEPT ![t] = {b}]
    /\ used' = used \ {b}
    /\ UNCHANGED <<freeList, freeBytes, minimumEver, lastRequest>>

Link(t) ==
    \E b \in wiping[t] :
       /\ freeList' = Inserted(freeList, b)
       /\ freeBytes' = freeBytes + b.size
       /\ wiping' = [wiping EXCEPT ![t] = {}]
       /\ UNCHANGED <<used, minimumEver, lastRequest>>
-----------------------------------------------------------------------------
HeapNext ==
    \/ \E bytes \in Requests : Malloc(bytes)
    \/ \E t \in Tasks : Link(t) \/ \E b \in used : Wipe(t, b)
HeapSpec == HeapInit /\ [][HeapNext]_heapVars
-----------------------------------------------------------------------------
Block == [at : Nat, size : Nat \ {0}]
HeapTypeOK ==
    /\ freeList \in Seq(Block) /\ used \subseteq Block
    /\ wiping \in [Tasks -> SUBSET Block]
    /\ freeBytes \in Int /\ minimumEver \in Int /\ lastRequest \in Requests \cup {0}

Handed == used \cup UNION {wiping[t] : t \in Tasks}
Covers(b, address) == b.at <= address /\ address < b.at + b.size

(* The list is ordered, and no two free blocks touch: what was split is     *)
(* whole again once its parts are free.                                     *)
Ordered ==
    \A i, j \in 1 .. Len(freeList) :
        i < j => freeList[i].at + freeList[i].size < freeList[j].at

(* Every byte is in exactly one block, free or handed out: nothing leaks,   *)
(* nothing is given twice.                                                  *)
Tiled ==
    \A address \in 0 .. HeapSize - 1 :
       /\ \E b \in Handed \cup ToSet(freeList) : Covers(b, address)
       /\ \A b, c \in Handed \cup ToSet(freeList) :
             Covers(b, address) /\ Covers(c, address) => b = c

(* The counters agree with the list: what memmgr_get_free_heap says can be  *)
(* had, if not in one piece, and the minimum is one.                        *)
FreeBytes == {address \in 0 .. HeapSize - 1 : \E b \in ToSet(freeList) : Covers(b, address)}
Counted == freeBytes = Cardinality(FreeBytes) /\ minimumEver <= freeBytes

HeapWellFormed == HeapTypeOK /\ Ordered /\ Tiled /\ Counted

(* Blocks that are being freed are still owned: they are being written to.  *)
Promise == INSTANCE Allocator WITH owned <- Handed
ImplementsAllocator == Promise!AllocatorSpec
=============================================================================
