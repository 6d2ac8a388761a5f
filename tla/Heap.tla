-------------------------------- MODULE Heap --------------------------------
(***************************************************************************)
(* The kernel heap, heap.c, with the frame allocator of mem/pmm.c and the  *)
(* page mapping of mem/paging.c it grows by.                               *)
(*                                                                         *)
(* Blocks lie one behind the other from KHEAP_BASE on.  block maps the     *)
(* address of every header in the list to its fields, so a wrong next or   *)
(* prev is a state of the model, not ruled out by it.  One call is in      *)
(* progress at a time: heap_lock disables interrupts on the only CPU.      *)
(* Sizes stay far below 2^32, as those of all callers do.                  *)
(***************************************************************************)
EXTENDS Integers, FiniteSets

CONSTANTS FRAME_SIZE,       \* PMM_FRAME_SIZE
          KHEAP_BASE,
          MAX_PAGES,        \* KHEAP_MAX_SIZE / PMM_FRAME_SIZE
          INITIAL_PAGES,    \* HEAP_INITIAL_PAGES
          TOTAL_FRAMES,     \* g_stats.total_frames
          BootBitmaps,      \* what pmm_init may leave set in g_bitmap
          Requests,         \* the sizes callers ask for, in bytes
          Owners            \* callers, each with at most one allocation

HEAP_ALIGN == 16
overhead   == 16            \* block_overhead(): sizeof(heap_block_t)
NULL       == 0

Frames == 0 .. TOTAL_FRAMES - 1
g_heap_limit == KHEAP_BASE + MAX_PAGES * FRAME_SIZE

ASSUME LayoutAssumption ==
    /\ FRAME_SIZE \in Nat /\ FRAME_SIZE > overhead /\ FRAME_SIZE % HEAP_ALIGN = 0
    /\ KHEAP_BASE \in Nat \ {0} /\ KHEAP_BASE % FRAME_SIZE = 0
    /\ MAX_PAGES \in Nat /\ INITIAL_PAGES \in 1 .. MAX_PAGES
ASSUME FramesAssumption ==      \* else heap_init panics
    /\ TOTAL_FRAMES \in Nat
    /\ \A r \in BootBitmaps : /\ r \subseteq Frames /\ 0 \in r
                              /\ Cardinality(Frames \ r) >= INITIAL_PAGES
ASSUME RequestsAssumption == Requests \subseteq Nat \ {0}

VARIABLES
    reserved,       \* history: the frames set at boot
    g_bitmap,       \* the frames whose bit is set
    g_stats,        \* free_frames and used_frames
    pageOf,         \* the page table: frame behind each mapped page of the heap
    g_heap_end,
    block,          \* the block headers, by address
    held,           \* what each owner holds: pointer and the size it asked for
    call            \* the call in progress and its local variables

pmm  == <<reserved, g_bitmap, g_stats, pageOf, g_heap_end>>
vars == <<pmm, block, held, call>>

Nothing == [ptr |-> NULL, size |-> 0]
Idle    == [pc |-> "idle", owner |-> NULL, size |-> 0, added |-> 0, new |-> NULL]

\* f with the value v at the new or old argument a
Put(f, a, v) == [x \in DOMAIN f \cup {a} |-> IF x = a THEN v ELSE f[x]]

RoundUp(n, a) == ((n + a - 1) \div a) * a
Wanted(n)     == RoundUp(n, HEAP_ALIGN)

-----------------------------------------------------------------------------
(* mem/pmm.c and mem/paging.c: a frame for the next page of the heap.      *)

FreeFrames == Frames \ g_bitmap

LowestFree == CHOOSE f \in FreeFrames : \A g \in FreeFrames : f <= g

\* pmm_alloc_frame, then map_page at the end of the heap.
MapNextPage ==
    /\ FreeFrames # {}
    /\ g_bitmap' = g_bitmap \cup {LowestFree}
    /\ g_stats' = [free |-> g_stats.free - 1, used |-> g_stats.used + 1]
    /\ pageOf' = Put(pageOf, g_heap_end, LowestFree)
    /\ g_heap_end' = g_heap_end + FRAME_SIZE
    /\ UNCHANGED reserved

-----------------------------------------------------------------------------
(* The list of blocks.                                                     *)

\* The prev field of the block at a, when there is one.
SetPrev(f, a, p) == IF a = NULL THEN f ELSE [f EXCEPT ![a].prev = p]

SplitNoBackLink(f, b, wanted) ==        \* broken: n->next->prev is not set
    IF f[b].size <= wanted + overhead + HEAP_ALIGN THEN f
    ELSE LET n == b + overhead + wanted
         IN  Put([f EXCEPT ![b].size = wanted, ![b].next = n], n,
                 [size |-> f[b].size - wanted - overhead, free |-> TRUE,
                  next |-> f[b].next, prev |-> b])

\* split_block: what is behind the first wanted bytes becomes a free block.
Split(f, b, wanted) ==
    IF f[b].size <= wanted + overhead + HEAP_ALIGN THEN f
    ELSE LET n == b + overhead + wanted
             g == SetPrev(f, f[b].next, n)
         IN  Put([g EXCEPT ![b].size = wanted, ![b].next = n], n,
                 [size |-> f[b].size - wanted - overhead, free |-> TRUE,
                  next |-> f[b].next, prev |-> b])

\* b takes over the block n behind it, header included.
Swallow(f, b, n) ==
    LET g == SetPrev(f, f[n].next, b)
    IN  [x \in DOMAIN f \ {n} |->
            IF x = b THEN [g[b] EXCEPT !.size = @ + overhead + f[n].size,
                                       !.next = f[n].next]
            ELSE g[x]]

MergeAny(f, b) ==                       \* broken: n->free is not looked at
    IF f[b].next = NULL THEN f ELSE Swallow(f, b, f[b].next)

MergeNext(f, b) ==
    LET n == f[b].next
    IN  IF n = NULL \/ ~f[n].free THEN f ELSE Swallow(f, b, n)

\* kfree of the block b: free it, then merge it with both neighbours.
Release(f, b) ==
    LET g == MergeNext([f EXCEPT ![b].free = TRUE], b)
        p == g[b].prev
    IN  IF p # NULL /\ g[p].free THEN MergeNext(g, p) ELSE g

FitsStrictly(n) ==                      \* broken: a block of just the size is passed over
    {b \in DOMAIN block : block[b].free /\ block[b].size > Wanted(n)}
Fits(n) == {b \in DOMAIN block : block[b].free /\ block[b].size >= Wanted(n)}

\* The list is in address order (see WellLinked), so the first fit of the
\* walk from g_head is the fit with the lowest address.
FirstFit(n) == CHOOSE b \in Fits(n) : \A c \in Fits(n) : b <= c

\* last_block
Tail == CHOOSE b \in DOMAIN block : block[b].next = NULL

-----------------------------------------------------------------------------
Init ==
    /\ reserved \in BootBitmaps
    /\ g_bitmap = reserved
    /\ g_stats = [free |-> Cardinality(Frames \ reserved), used |-> Cardinality(reserved)]
    /\ pageOf = [v \in {} |-> 0]
    /\ g_heap_end = KHEAP_BASE
    /\ block = [b \in {} |-> 0]
    /\ held = [o \in Owners |-> Nothing]
    /\ call = [Idle EXCEPT !.pc = "boot"]

\* heap_init maps the first pages, then makes one free block of them.
BootPage ==
    /\ call.pc = "boot"
    /\ g_heap_end < KHEAP_BASE + INITIAL_PAGES * FRAME_SIZE
    /\ MapNextPage
    /\ UNCHANGED <<block, held, call>>

BootDone ==
    /\ call.pc = "boot"
    /\ g_heap_end = KHEAP_BASE + INITIAL_PAGES * FRAME_SIZE
    /\ block' = Put(block, KHEAP_BASE,
                    [size |-> g_heap_end - KHEAP_BASE - overhead, free |-> TRUE,
                     next |-> NULL, prev |-> NULL])
    /\ call' = Idle
    /\ UNCHANGED <<pmm, held>>

-----------------------------------------------------------------------------
(* kmalloc: scan, and when nothing fits grow and scan again.               *)

Kmalloc(o, n) ==
    /\ call.pc = "idle"
    /\ held[o] = Nothing
    /\ call' = [Idle EXCEPT !.pc = "scan", !.owner = o, !.size = n]
    /\ UNCHANGED <<pmm, block, held>>

\* krealloc still has to copy and to free the old block; kmalloc returns.
ScanHit ==
    /\ call.pc = "scan"
    /\ Fits(call.size) # {}
    /\ LET b == FirstFit(call.size)
           p == b + overhead
       IN  /\ block' = [Split(block, b, Wanted(call.size)) EXCEPT ![b].free = FALSE]
           /\ IF held[call.owner] = Nothing
              THEN /\ held' = [held EXCEPT ![call.owner] = [ptr |-> p, size |-> call.size]]
                   /\ call' = Idle
              ELSE /\ call' = [call EXCEPT !.pc = "copy", !.new = p]
                   /\ UNCHANGED held
    /\ UNCHANGED pmm

ScanMiss ==
    /\ call.pc = "scan"
    /\ Fits(call.size) = {}
    /\ call' = [call EXCEPT !.pc = "grow", !.added = 0]
    /\ UNCHANGED <<pmm, block, held>>

\* heap_expand
NeededRoundedDown(n) ==                 \* broken: align_down instead of align_up
    ((Wanted(n) + overhead) \div FRAME_SIZE) * FRAME_SIZE
Needed(n) == RoundUp(Wanted(n) + overhead, FRAME_SIZE)

GrowPage ==
    /\ call.pc = "grow"
    /\ call.added < Needed(call.size)
    /\ g_heap_end + FRAME_SIZE <= g_heap_limit
    /\ MapNextPage
    /\ call' = [call EXCEPT !.added = @ + FRAME_SIZE]
    /\ UNCHANGED <<block, held>>

FailLeaksFrame ==                       \* broken: at the limit the frame is not freed
    /\ call.pc = "grow"
    /\ call.added < Needed(call.size)
    /\ FreeFrames = {} \/ g_heap_end + FRAME_SIZE > g_heap_limit
    /\ call' = Idle
    /\ g_bitmap' = g_bitmap \cup {f \in FreeFrames : f = LowestFree}
    /\ UNCHANGED <<reserved, g_stats, pageOf, g_heap_end, block, held>>

\* Out of frames, or at the limit (the frame just taken is freed again):
\* NULL is returned, the pages mapped so far stay mapped, and no block has them.
GrowFails ==
    /\ call.pc = "grow"
    /\ call.added < Needed(call.size)
    /\ FreeFrames = {} \/ g_heap_end + FRAME_SIZE > g_heap_limit
    /\ call' = Idle
    /\ UNCHANGED <<pmm, block, held>>

GrowDone ==
    /\ call.pc = "grow"
    /\ call.added >= Needed(call.size)
    /\ block' =
         IF block[Tail].free
         THEN [block EXCEPT ![Tail].size = @ + call.added]
         ELSE LET nb == Tail + overhead + block[Tail].size
              IN  Put([block EXCEPT ![Tail].next = nb], nb,
                      [size |-> call.added - overhead, free |-> TRUE,
                       next |-> NULL, prev |-> Tail])
    /\ call' = [call EXCEPT !.pc = "scan"]
    /\ UNCHANGED <<pmm, held>>

-----------------------------------------------------------------------------
Kfree(o) ==
    /\ call.pc = "idle"
    /\ held[o] # Nothing
    /\ block' = Release(block, held[o].ptr - overhead)
    /\ held' = [held EXCEPT ![o] = Nothing]
    /\ UNCHANGED <<pmm, call>>

ReallocAlways(o, n) ==                  \* broken: the block is taken to be big enough
    /\ call.pc = "idle"
    /\ held[o] # Nothing
    /\ held' = [held EXCEPT ![o].size = n]
    /\ UNCHANGED <<pmm, block, call>>

\* krealloc to a size the block has room for.
KreallocInPlace(o, n) ==
    /\ call.pc = "idle"
    /\ held[o] # Nothing
    /\ block[held[o].ptr - overhead].size >= n
    /\ held' = [held EXCEPT ![o].size = n]
    /\ UNCHANGED <<pmm, block, call>>

\* krealloc to a larger size: kmalloc first, the old block is still held.
KreallocMove(o, n) ==
    /\ call.pc = "idle"
    /\ held[o] # Nothing
    /\ block[held[o].ptr - overhead].size < n
    /\ call' = [Idle EXCEPT !.pc = "scan", !.owner = o, !.size = n]
    /\ UNCHANGED <<pmm, block, held>>

\* memcpy, then kfree of the old block.
KreallocDone ==
    /\ call.pc = "copy"
    /\ block' = Release(block, held[call.owner].ptr - overhead)
    /\ held' = [held EXCEPT ![call.owner] = [ptr |-> call.new, size |-> call.size]]
    /\ call' = Idle
    /\ UNCHANGED pmm

-----------------------------------------------------------------------------
InCall == ScanHit \/ ScanMiss \/ GrowPage \/ GrowFails \/ GrowDone \/ KreallocDone

Next ==
    \/ BootPage \/ BootDone
    \/ InCall
    \/ \E o \in Owners : Kfree(o)
    \/ \E o \in Owners, n \in Requests :
          Kmalloc(o, n) \/ KreallocInPlace(o, n) \/ KreallocMove(o, n)

Spec == Init /\ [][Next]_vars
=============================================================================
