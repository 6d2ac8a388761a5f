------------------------------ MODULE PhysMem ------------------------------
(***************************************************************************)
(* Physical memory and its mapping, from the boot loader's information to  *)
(* the first pages of the heap: pmm_init (mem/pmm.c), paging_init          *)
(* (mem/paging.c) and the growth of the heap (heap.c), in the order        *)
(* kernel.c calls them.                                                    *)
(*                                                                         *)
(* The boot information is a constant of each behaviour.  Addresses are    *)
(* numbers of some unit: the frame size, the 4 GiB at which a 32-bit one   *)
(* wraps and the borders between them are parameters, so that regions that *)
(* begin inside a frame or lie above 4 GiB are there in small instances.   *)
(***************************************************************************)
EXTENDS Integers, Sequences, FiniteSets, SequencesExt

CONSTANTS
    FRAME_SIZE,         \* PMM_FRAME_SIZE
    GIB4,               \* 2^32
    MAX_PHYS_ADDR,      \* PMM_MAX_PHYS_ADDR
    LOW_TOP,            \* 1 MiB
    Kernel,             \* _kernel_start and _kernel_end
    KHEAP_BASE, KHEAP_PAGES,
    Machines            \* the boot informations

ASSUME LayoutAssumption ==
    /\ FRAME_SIZE \in Nat \ {0} /\ GIB4 \in Nat /\ LOW_TOP \in Nat /\ Kernel \in Nat \X Nat
    /\ MAX_PHYS_ADDR \in Nat /\ MAX_PHYS_ADDR % FRAME_SIZE = 0 /\ MAX_PHYS_ADDR < GIB4
    /\ KHEAP_BASE \in Nat /\ KHEAP_BASE % FRAME_SIZE = 0
    /\ KHEAP_PAGES \in Nat /\ KHEAP_BASE + KHEAP_PAGES * FRAME_SIZE < GIB4

\* A framebuffer is two frames or more smaller than 4 GiB; entries may reach beyond that.
ASSUME MachinesAssumption ==
    \A m \in Machines :
        /\ m.mmap \in Seq([addr : Nat, len : Nat, type : Nat])
        /\ m.basic_top \in 0 .. GIB4 - 1          \* 0: there is no such tag
        /\ m.info \in Nat \X Nat /\ m.modules \in Seq(Nat \X Nat)
        /\ m.fb # <<>> => /\ m.fb \in Nat \X Nat /\ m.fb[1] < GIB4
                          /\ m.fb[2] + 2 * FRAME_SIZE <= GIB4

VARIABLES
    machine,        \* what the boot loader has reported
    pc,             \* how far the boot is
    todo,           \* the ranges still to be freed, then those still to be reserved
    g_bitmap,       \* the frames whose bit is set
    g_stats,        \* total, free and used frames
    g_max_addr,
    page,           \* the page tables: physical page by virtual page
    g_heap_end

vars == <<machine, pc, todo, g_bitmap, g_stats, g_max_addr, page, g_heap_end>>

U32(n) == n % GIB4
AlignDown(n) == n - (n % FRAME_SIZE)
AlignUp(n)   == AlignDown(n + FRAME_SIZE - 1)

\* The frames a range from start up to end touches.
FramesOf(start, end) == start \div FRAME_SIZE .. AlignUp(end) \div FRAME_SIZE - 1

Frames == FramesOf(0, MAX_PHYS_ADDR)

-----------------------------------------------------------------------------
(* pmm_init                                                                *)

Available(e) == e.type = 1              \* MULTIBOOT2_MMAP_TYPE_AVAILABLE

\* The end of memory, from the map's entries and the basic memory information.
Highest ==
    LET tops == {machine.basic_top}
                \cup {IF e.addr + e.len >= GIB4 THEN GIB4 - 1 ELSE e.addr + e.len :
                        e \in {r \in Range(machine.mmap) : Available(r)}}
        top  == CHOOSE t \in tops : \A s \in tops : s <= t
    IN  IF top = 0 \/ top > MAX_PHYS_ADDR THEN MAX_PHYS_ADDR ELSE top

\* Start and end are cut to 32 bits.  Of an entry that is not available nothing is freed.
RangeToFree(e) == IF Available(e) THEN <<U32(e.addr), U32(e.addr + e.len)>> ELSE <<0, 0>>
RangesToFree   == [i \in DOMAIN machine.mmap |-> RangeToFree(machine.mmap[i])]

RangesToReserve ==
    << <<0, LOW_TOP>>, Kernel, machine.info >> \o machine.modules
       \o (IF machine.fb = <<>> THEN <<>>
           ELSE << <<machine.fb[1], U32(machine.fb[1] + machine.fb[2])>> >>)

Unclipped(n) == n                       \* broken: the end is taken as it is
Clip(n) == IF n > g_max_addr THEN g_max_addr ELSE n

\* broken: the frame the range ends in is left out
TouchedWhole(range) ==
    IF range[1] >= range[2] \/ range[1] >= g_max_addr THEN {}
    ELSE range[1] \div FRAME_SIZE .. Clip(range[2]) \div FRAME_SIZE - 1

\* The frames free_range and reserve_range go through.
Touched(range) ==
    IF range[1] >= range[2] \/ range[1] >= g_max_addr THEN {}
    ELSE FramesOf(range[1], Clip(range[2]))

Move(n) == [g_stats EXCEPT !.free = @ + n, !.used = @ - n]

ScanTags ==
    /\ pc = "scan"
    /\ g_max_addr' = AlignDown(Highest)
    /\ LET total == AlignDown(Highest) \div FRAME_SIZE
       IN  g_stats' = [total |-> total, free |-> 0, used |-> total]
    /\ pc' = "free"
    /\ todo' = RangesToFree
    /\ UNCHANGED <<machine, g_bitmap, page, g_heap_end>>

FreeRangeAgain ==                       \* broken: frames that are free already are counted
    /\ pc = "free" /\ todo # <<>>
    /\ g_bitmap' = g_bitmap \ Touched(Head(todo))
    /\ g_stats' = Move(Cardinality(Touched(Head(todo))))
    /\ todo' = Tail(todo)
    /\ UNCHANGED <<machine, pc, g_max_addr, page, g_heap_end>>

FreeRange ==
    /\ pc = "free" /\ todo # <<>>
    /\ g_bitmap' = g_bitmap \ Touched(Head(todo))
    /\ g_stats' = Move(Cardinality(Touched(Head(todo)) \cap g_bitmap))
    /\ todo' = Tail(todo)
    /\ UNCHANGED <<machine, pc, g_max_addr, page, g_heap_end>>

FreeDone ==
    /\ pc = "free" /\ todo = <<>>
    /\ pc' = "reserve"
    /\ todo' = RangesToReserve
    /\ UNCHANGED <<machine, g_bitmap, g_stats, g_max_addr, page, g_heap_end>>

ReserveRange ==
    /\ pc = "reserve" /\ todo # <<>>
    /\ g_bitmap' = g_bitmap \cup Touched(Head(todo))
    /\ g_stats' = Move(-Cardinality(Touched(Head(todo)) \ g_bitmap))
    /\ todo' = Tail(todo)
    /\ UNCHANGED <<machine, pc, g_max_addr, page, g_heap_end>>

-----------------------------------------------------------------------------
(* paging_init and the heap.                                               *)

\* broken: the page that the range ends in is left out
MapWhole(pages) ==
    LET whole == {v \in pages : v + 1 \in pages}
    IN  [v \in DOMAIN page \cup whole |-> IF v \in whole THEN v ELSE page[v]]

MapIdentity(pages) == [v \in DOMAIN page \cup pages |-> IF v \in pages THEN v ELSE page[v]]

\* map_range_identity: up to the limit and, when the console uses it, the framebuffer.
PagingInit ==
    /\ pc = "reserve" /\ todo = <<>>
    /\ LET first == machine.fb[1]
           end   == U32(AlignUp(machine.fb[1] + machine.fb[2]))
       IN  IF machine.fb = <<>> \/ ~machine.fb_used
           THEN pc' = "heap" /\ page' = MapIdentity(FramesOf(0, g_max_addr))
           ELSE IF end < AlignDown(first)
           THEN pc' = "panic" /\ page' = MapIdentity(FramesOf(0, g_max_addr))
           ELSE pc' = "heap" /\ page' = MapIdentity(FramesOf(0, g_max_addr) \cup FramesOf(first, end))
    /\ UNCHANGED <<machine, todo, g_bitmap, g_stats, g_max_addr, g_heap_end>>

FreeFrames == (0 .. g_stats.total - 1) \ g_bitmap

\* heap_init and heap_expand: pmm_alloc_frame, then map_page.
GrowHeap ==
    /\ pc = "heap"
    /\ g_heap_end < KHEAP_BASE + KHEAP_PAGES * FRAME_SIZE
    /\ FreeFrames # {}
    /\ LET frame == CHOOSE f \in FreeFrames : \A g \in FreeFrames : f <= g
           v     == g_heap_end \div FRAME_SIZE
       IN  /\ g_bitmap' = g_bitmap \cup {frame}
           /\ page' = [w \in DOMAIN page \cup {v} |-> IF w = v THEN frame ELSE page[w]]
    /\ g_stats' = Move(-1)
    /\ g_heap_end' = g_heap_end + FRAME_SIZE
    /\ UNCHANGED <<machine, pc, todo, g_max_addr>>

-----------------------------------------------------------------------------
Init ==
    /\ machine \in Machines
    /\ pc = "scan"
    /\ todo = <<>>
    /\ g_bitmap = Frames
    /\ g_stats = [total |-> 0, free |-> 0, used |-> 0]
    /\ g_max_addr = 0
    /\ page = [v \in {} |-> 0]
    /\ g_heap_end = KHEAP_BASE

Next == ScanTags \/ FreeRange \/ FreeDone \/ ReserveRange \/ PagingInit \/ GrowHeap

Spec == Init /\ [][Next]_vars
=============================================================================
