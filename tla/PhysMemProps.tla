---------------------------- MODULE PhysMemProps ----------------------------
(***************************************************************************)
(* What must hold of physical memory and its mapping, PhysMem.tla.         *)
(***************************************************************************)
EXTENDS PhysMem

TypeOK ==
    /\ machine \in Machines
    /\ pc \in {"scan", "free", "reserve", "heap", "panic"}
    /\ g_bitmap \subseteq Frames
    /\ g_stats \in [total : Nat, free : Nat, used : Nat]
    /\ g_max_addr \in 0 .. MAX_PHYS_ADDR
    /\ \A v \in DOMAIN page : v \in 0 .. GIB4 \div FRAME_SIZE - 1 /\ page[v] \in Nat
    /\ g_heap_end \in KHEAP_BASE .. KHEAP_BASE + KHEAP_PAGES * FRAME_SIZE

Booted == pc = "heap"

(***************************************************************************)
(* The counters that meminfo prints agree with the bitmap after every      *)
(* range, however the regions of the map and the reserved ranges overlap.  *)
(***************************************************************************)
StatsExact ==
    /\ g_stats.free = Cardinality(FreeFrames)
    /\ g_stats.free + g_stats.used = g_stats.total

HeapPages  == {v \in 0 .. GIB4 \div FRAME_SIZE - 1 :
                  v >= KHEAP_BASE \div FRAME_SIZE /\ v < g_heap_end \div FRAME_SIZE}
HeapFrames == {page[v] : v \in HeapPages}

(***************************************************************************)
(* docs/memory.md, ranges in use after init: no byte of the low megabyte,  *)
(* the kernel, the boot information, a module or the framebuffer is in a   *)
(* frame that the allocator gives to the heap, and no frame is given twice. *)
(***************************************************************************)
ReservedStayOut ==
    Booted =>
        /\ Cardinality(HeapFrames) = Cardinality(HeapPages)
        /\ \A r \in Range(RangesToReserve), f \in FreeFrames \cup HeapFrames :
              r[1] < r[2] => \A a \in r[1] .. r[2] - 1 : a \div FRAME_SIZE # f

(***************************************************************************)
(* A frame that has no byte of available memory is never given out, when   *)
(* no available region of the map reaches 4 GiB.  (One that does is cut to *)
(* 32 bits and frees other addresses.)                                     *)
(***************************************************************************)
Regions == {e \in Range(machine.mmap) : e.type = 1}

FreeIsMemory ==
    (\A e \in Regions : e.addr + e.len < GIB4) =>
        \A f \in FreeFrames \cup HeapFrames :
            \E e \in Regions, a \in f * FRAME_SIZE .. (f + 1) * FRAME_SIZE - 1 :
                e.addr <= a /\ a < e.addr + e.len

(***************************************************************************)
(* Both ways round: what the heap gets is memory, and nobody else's.       *)
(***************************************************************************)
FramesUsable == ReservedStayOut /\ FreeIsMemory

(***************************************************************************)
(* What is read or written at its physical address stays mapped there      *)
(* while the heap grows, outside of the heap's own range of addresses:     *)
(* all memory up to the allocator's limit with the modules in it, and the  *)
(* framebuffer that the console uses, which mostly lies above.             *)
(***************************************************************************)
ReadInPlace ==
    FramesOf(0, g_max_addr)
        \cup IF machine.fb # <<>> /\ machine.fb_used
             THEN FramesOf(machine.fb[1], machine.fb[1] + machine.fb[2]) ELSE {}

IdentityKept ==
    Booted => \A f \in ReadInPlace \ HeapPages : f \in DOMAIN page /\ page[f] = f
=============================================================================
