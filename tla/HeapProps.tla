----------------------------- MODULE HeapProps -----------------------------
(***************************************************************************)
(* What must hold of the kernel heap of Heap.tla.                          *)
(***************************************************************************)
EXTENDS Heap

Addresses == KHEAP_BASE .. g_heap_limit

TypeOK ==
    /\ reserved \in BootBitmaps
    /\ g_bitmap \subseteq Frames
    /\ g_stats \in [free : Nat, used : Nat]
    /\ DOMAIN pageOf \subseteq Addresses
    /\ \A v \in DOMAIN pageOf : pageOf[v] \in Frames
    /\ g_heap_end \in Addresses
    /\ DOMAIN block \subseteq Addresses
    /\ \A b \in DOMAIN block :
          block[b] \in [size : Nat, free : BOOLEAN, next : Nat, prev : Nat]
    /\ held \in [Owners -> [ptr : Nat, size : Nat]]
    /\ call.pc \in {"boot", "idle", "scan", "grow", "copy"}
    /\ call.size \in Nat /\ call.added \in Nat /\ call.new \in Nat

End(b) == b + overhead + block[b].size

(***************************************************************************)
(* The list is doubly linked, in address order, and without gaps: from     *)
(* KHEAP_BASE on each block ends where the next one begins, and the last   *)
(* one ends inside the mapped pages.  Through splits, merges and growth    *)
(* that failed half way, no header ever lies inside another block.  And    *)
(* whatever the order of frees, two free blocks never lie side by side:    *)
(* what is free is available in pieces as large as can be.                 *)
(***************************************************************************)
Linked(b) ==
    /\ End(b) <= g_heap_end
    /\ b # KHEAP_BASE => /\ block[b].prev \in DOMAIN block
                         /\ block[block[b].prev].next = b
    /\ block[b].next # NULL => /\ block[b].next = End(b)
                               /\ End(b) \in DOMAIN block
                               /\ block[End(b)].prev = b

Coalesced(b) == block[b].free /\ block[b].next # NULL => ~block[block[b].next].free

WellLinked ==
    call.pc # "boot" =>
        /\ KHEAP_BASE \in DOMAIN block /\ block[KHEAP_BASE].prev = NULL
        /\ \A b \in DOMAIN block : Linked(b) /\ Coalesced(b)
        /\ \A b, c \in DOMAIN block : b < c => End(b) <= c

(***************************************************************************)
(* The blocks in use are exactly the ones the callers hold (or a krealloc  *)
(* is about to hand over), each with room for what was asked for and       *)
(* aligned: nothing leaks, and nothing held is ever given out again.       *)
(***************************************************************************)
InUse == {b \in DOMAIN block : ~block[b].free}

Accounted ==
    /\ InUse = {held[o].ptr - overhead : o \in {q \in Owners : held[q] # Nothing}}
                  \cup (IF call.pc = "copy" THEN {call.new - overhead} ELSE {})
    /\ \A o \in Owners : held[o] # Nothing =>
          /\ block[held[o].ptr - overhead].size >= held[o].size
          /\ held[o].ptr % HEAP_ALIGN = 0
          /\ \A q \in Owners \ {o} : held[q].ptr # held[o].ptr

(***************************************************************************)
(* Every page below g_heap_end is backed by a frame of its own, and the    *)
(* frames in use are those plus the ones reserved at boot: failed growth   *)
(* loses none.  The counters that meminfo prints agree with the bitmap.    *)
(* Pages behind the last block are only ever left by growth that failed,   *)
(* and then the heap can never grow by so much as a page again.            *)
(***************************************************************************)
Stranded == g_heap_end - End(Tail)

StrandedOnlyWhenFull ==
    call.pc = "idle" /\ Stranded # 0 =>
        FreeFrames = {} \/ g_heap_end + FRAME_SIZE > g_heap_limit

FramesAccounted ==
    /\ DOMAIN pageOf = {v \in KHEAP_BASE .. g_heap_end - 1 : v % FRAME_SIZE = 0}
    /\ \A v, w \in DOMAIN pageOf : pageOf[v] = pageOf[w] => v = w
    /\ g_bitmap = reserved \cup {pageOf[v] : v \in DOMAIN pageOf}
    /\ reserved \cap {pageOf[v] : v \in DOMAIN pageOf} = {}
    /\ g_stats.used = Cardinality(g_bitmap)
    /\ g_stats.free = Cardinality(FreeFrames)
    /\ StrandedOnlyWhenFull

(***************************************************************************)
(* kmalloc scans again after every growth that succeeded.  That scan finds *)
(* a fit, whatever the last block was: else the call would grow the heap   *)
(* page by page to its limit, with interrupts disabled, and then fail.     *)
(***************************************************************************)
RetryFits ==
    call.pc = "scan" /\ call.added > 0 => Fits(call.size) # {}

\* The call in progress returns NULL in this step.
ReturnsNull ==
    call.pc \in {"scan", "grow"} /\ call'.pc = "idle" /\ held' = held

(***************************************************************************)
(* A failed kmalloc or krealloc changes neither the blocks nor what        *)
(* anybody holds, and it fails only when no free block has the room.       *)
(***************************************************************************)
FailsCleanly ==
    [][ReturnsNull =>
          /\ block' = block
          /\ \A b \in DOMAIN block : block[b].free => block[b].size < call.size]_vars

(***************************************************************************)
(* The heap implements the abstract allocator.                             *)
(***************************************************************************)
A == INSTANCE Allocator WITH First <- KHEAP_BASE, Last <- g_heap_limit - 1

ImplementsAllocator == A!Spec
=============================================================================
