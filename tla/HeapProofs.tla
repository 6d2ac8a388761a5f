----------------------------- MODULE HeapProofs -----------------------------
(***************************************************************************)
(* Proofs, for pages of every size, any number of frames and any callers,  *)
(* that the kernel heap keeps what HeapProps.tla says and implements the   *)
(* abstract allocator.                                                     *)
(***************************************************************************)
EXTENDS HeapProps, Numbers, FiniteSetTheorems

-----------------------------------------------------------------------------
(* The inductive invariant.                                                *)

\* The fields of a header, and where the block behind it ends.
Header == [size : Nat, free : BOOLEAN, next : Nat, prev : Nat]
EndIn(f, b) == b + overhead + f[b].size

\* f is a list of blocks that fill the addresses from KHEAP_BASE to top.
Chain(f, top) ==
    /\ f \in [DOMAIN f -> Header]
    /\ DOMAIN f \subseteq Nat
    /\ KHEAP_BASE \in DOMAIN f /\ f[KHEAP_BASE].prev = NULL
    /\ \A b \in DOMAIN f : /\ KHEAP_BASE <= b /\ EndIn(f, b) <= top
                           /\ b % HEAP_ALIGN = 0 /\ f[b].size % HEAP_ALIGN = 0
    /\ \A b \in DOMAIN f : f[b].next = NULL => EndIn(f, b) = top
    /\ \A b \in DOMAIN f : f[b].next # NULL =>
          f[b].next = EndIn(f, b) /\ EndIn(f, b) \in DOMAIN f /\ f[EndIn(f, b)].prev = b
    /\ \A b \in DOMAIN f : b # KHEAP_BASE => f[b].prev \in DOMAIN f /\ f[f[b].prev].next = b
    /\ \A b, c \in DOMAIN f : b < c => EndIn(f, b) <= c

\* No two free neighbours.
FreeApart(f) == \A b \in DOMAIN f : f[b].free /\ f[b].next # NULL => ~f[f[b].next].free

Pcs == {"boot", "idle", "scan", "grow", "copy"}

Types ==
    /\ reserved \in BootBitmaps
    /\ g_bitmap \subseteq Frames
    /\ g_stats \in [free : Nat, used : Nat]
    /\ held \in [Owners -> [ptr : Nat, size : Nat]]
    /\ call \in [pc : Pcs, owner : Owners \cup {NULL}, size : Nat, added : Nat, new : Nat]

\* A call works for an owner on a size that is asked for.
Working ==
    /\ call.pc \in {"scan", "grow", "copy"} => call.owner \in Owners /\ call.size \in Requests
    /\ call.added % HEAP_ALIGN = 0

\* What is mapped is a whole number of pages, each with a frame of its own.
PagesMapped(k) == g_heap_end = KHEAP_BASE + FRAME_SIZE * k

Mapped ==
    \E k \in 0 .. MAX_PAGES : PagesMapped(k) /\ (call.pc = "boot" => k <= INITIAL_PAGES)

Backed ==
    /\ DOMAIN pageOf = {v \in KHEAP_BASE .. g_heap_end - 1 : v % FRAME_SIZE = 0}
    /\ \A v, w \in DOMAIN pageOf : pageOf[v] = pageOf[w] => v = w
    /\ g_bitmap = reserved \cup {pageOf[v] : v \in DOMAIN pageOf}
    /\ reserved \cap {pageOf[v] : v \in DOMAIN pageOf} = {}
    /\ g_stats.used = Cardinality(g_bitmap)
    /\ g_stats.free = Cardinality(FreeFrames)

Full == FreeFrames = {} \/ g_heap_end + FRAME_SIZE > g_heap_limit

\* The bytes mapped by the growth in progress, which no block has yet.
Growth == IF call.pc = "grow" THEN call.added ELSE 0

\* The list reaches as far as pages are mapped, but for those of the growth in
\* progress; it stays behind for good once the heap cannot grow.
Listed ==
    /\ End(Tail) \in Nat
    /\ Chain(block, End(Tail)) /\ FreeApart(block)
    /\ End(Tail) + Growth <= g_heap_end
    /\ End(Tail) + Growth = g_heap_end \/ Full

\* The blocks in use and the pointers, those of the owners and the one a krealloc
\* has got but not handed over yet, go together one by one.
Owned ==
    /\ \A b \in InUse :
          \/ \E o \in Owners : held[o] # Nothing /\ b = held[o].ptr - overhead
          \/ call.pc = "copy" /\ b = call.new - overhead
    /\ \A o \in Owners : held[o] # Nothing =>
          /\ held[o].ptr - overhead \in InUse
          /\ block[held[o].ptr - overhead].size >= held[o].size
          /\ held[o].size \in Requests
          /\ \A q \in Owners \ {o} : held[q].ptr # held[o].ptr
    /\ call.pc = "copy" =>
          /\ held[call.owner] # Nothing
          /\ call.new - overhead \in InUse
          /\ block[call.new - overhead].size >= call.size
          /\ \A o \in Owners : held[o].ptr # call.new

\* Growth begins when nothing fits, and ends with something that does.
Fitting ==
    /\ call.pc = "grow" => Fits(call.size) = {}
    /\ call.pc = "scan" /\ call.added > 0 => Fits(call.size) # {}

IInv ==
    /\ Types /\ Working /\ Mapped /\ Backed
    /\ call.pc = "boot" => DOMAIN block = {} /\ \A o \in Owners : held[o] = Nothing
    /\ call.pc # "boot" => Listed /\ Owned /\ Fitting

-----------------------------------------------------------------------------
(* Sizes.                                                                  *)

LEMMA Layout ==
    /\ FRAME_SIZE \in Nat \ {0} /\ FRAME_SIZE > 16 /\ FRAME_SIZE % 16 = 0
    /\ KHEAP_BASE \in Nat \ {0} /\ MAX_PAGES \in Nat /\ INITIAL_PAGES \in 1 .. MAX_PAGES
    /\ overhead = 16 /\ HEAP_ALIGN = 16 /\ NULL = 0
BY LayoutAssumption DEF overhead, HEAP_ALIGN, NULL

\* Pages begin at aligned addresses.
LEMMA PagesAligned ==
    ASSUME NEW k \in Nat
    PROVE  /\ FRAME_SIZE * k \in Nat /\ (FRAME_SIZE * k) % 16 = 0
           /\ KHEAP_BASE % 16 = 0
<1>1. ASSUME NEW q \in Nat PROVE FRAME_SIZE * q \in Nat /\ (FRAME_SIZE * q) % 16 = 0
  <2> DEFINE m == FRAME_SIZE \div 16
  <2>1. m \in Nat /\ FRAME_SIZE = 16 * m
    BY Layout
  <2>2. FRAME_SIZE * q = 16 * (m * q) /\ m * q \in Nat
    BY <2>1
  <2>3. QED
    BY <2>2, Multiple
<1>2. KHEAP_BASE \div FRAME_SIZE \in Nat /\ KHEAP_BASE = FRAME_SIZE * (KHEAP_BASE \div FRAME_SIZE)
  <2>1. KHEAP_BASE % FRAME_SIZE = 0
    BY LayoutAssumption
  <2>2. QED
    BY <2>1, Layout, Division
<1>3. QED
  BY <1>1, <1>2

\* What kmalloc makes of a size.
LEMMA WantedIs ==
    ASSUME NEW n \in Nat
    PROVE  /\ Wanted(n) \in Nat /\ n <= Wanted(n) /\ Wanted(n) < n + 16
           /\ Wanted(n) % 16 = 0
BY Layout DEF Wanted, RoundUp

LEMMA NeededIs ==
    ASSUME NEW n \in Nat
    PROVE  /\ Needed(n) \in Nat /\ Wanted(n) + 16 <= Needed(n)
<1> DEFINE s == Wanted(n) + overhead + FRAME_SIZE - 1
           d == s \div FRAME_SIZE
<1>1. s \in Nat /\ s = Wanted(n) + 16 + FRAME_SIZE - 1
  BY WantedIs, Layout
<1>2. d \in Nat /\ s % FRAME_SIZE \in 0 .. FRAME_SIZE - 1 /\ s = FRAME_SIZE * d + (s % FRAME_SIZE)
  BY <1>1, Layout, Division
<1>3. Needed(n) = d * FRAME_SIZE /\ d * FRAME_SIZE = FRAME_SIZE * d /\ FRAME_SIZE * d \in Nat
  BY <1>2, Layout, Times DEF Needed, RoundUp
<1> HIDE DEF s, d
<1>4. QED
  BY <1>1, <1>2, <1>3, Layout, WantedIs

-----------------------------------------------------------------------------
(* Lists of blocks.                                                        *)

\* The block without a next one is the last.
LEMMA TailIs ==
    ASSUME NEW f, NEW top \in Nat, Chain(f, top)
    PROVE  LET t == CHOOSE b \in DOMAIN f : f[b].next = NULL
           IN  t \in DOMAIN f /\ f[t].next = NULL /\ EndIn(f, t) = top
<1>1. DOMAIN f \in SUBSET (0 .. top) /\ DOMAIN f # {}
  BY Layout DEF Chain, EndIn, Header
<1>2. PICK m \in DOMAIN f : \A n \in DOMAIN f : m >= n
  BY <1>1, GreatestPosition
<1>3. f[m].next = NULL
  BY <1>2, Layout DEF Chain, EndIn, Header
<1>4. \E b \in DOMAIN f : f[b].next = NULL
  BY <1>3
<1> DEFINE t == CHOOSE b \in DOMAIN f : f[b].next = NULL
<1>5. t \in DOMAIN f /\ f[t].next = NULL
  BY <1>4
<1> HIDE DEF t
<1>6. EndIn(f, t) = top
  BY <1>5 DEF Chain
<1>7. QED
  BY <1>5, <1>6 DEF t

LEMMA SetPrevIs ==
    ASSUME NEW f, f \in [DOMAIN f -> Header], NULL \notin DOMAIN f,
           NEW a \in DOMAIN f \cup {NULL}, NEW p \in Nat
    PROVE  LET g == SetPrev(f, a, p)
           IN  /\ g \in [DOMAIN f -> Header]
               /\ \A x \in DOMAIN f : /\ g[x].size = f[x].size /\ g[x].free = f[x].free
                                      /\ g[x].next = f[x].next
                                      /\ g[x].prev = IF x = a THEN p ELSE f[x].prev
<1>1. CASE a = NULL
  BY <1>1 DEF SetPrev
<1>2. CASE a # NULL
  <2>1. SetPrev(f, a, p) = [f EXCEPT ![a].prev = p] /\ a \in DOMAIN f
    BY <1>2 DEF SetPrev
  <2>2. f[a] \in Header /\ [f[a] EXCEPT !.prev = p] \in Header
    BY <2>1 DEF Header
  <2>3. QED
    BY <2>1, <2>2 DEF Header
<1>3. QED
  BY <1>1, <1>2

\* What becomes of a list when b keeps w bytes and the rest is a new block n.
SplitAt(f, g, b, w, n) ==
    /\ n \notin DOMAIN f /\ DOMAIN g = DOMAIN f \cup {n}
    /\ g \in [DOMAIN g -> Header]
    /\ g[b].size = w /\ g[b].free = f[b].free /\ g[b].next = n /\ g[b].prev = f[b].prev
    /\ g[n].size = f[b].size - w - overhead /\ g[n].free = TRUE
    /\ g[n].next = f[b].next /\ g[n].prev = b
    /\ \A x \in DOMAIN f \ {b} :
          /\ g[x].size = f[x].size /\ g[x].free = f[x].free /\ g[x].next = f[x].next
          /\ g[x].prev = IF x = f[b].next THEN n ELSE f[x].prev

\* Facts about the block b of a list, whatever its neighbours.
LEMMA BlockFacts ==
    ASSUME NEW f, NEW top \in Nat, Chain(f, top), NEW b \in DOMAIN f
    PROVE  /\ b \in Nat /\ b # NULL /\ f[b].size \in Nat /\ f[b] \in Header
           /\ b % 16 = 0 /\ f[b].size % 16 = 0
           /\ EndIn(f, b) = b + 16 + f[b].size /\ EndIn(f, b) \in Nat /\ EndIn(f, b) % 16 = 0
           /\ f[b].next \in DOMAIN f \cup {NULL} /\ f[b].next # b
           /\ NULL \notin DOMAIN f
           /\ \A c \in DOMAIN f : c <= b \/ EndIn(f, b) <= c
<1>1. b \in Nat /\ b # NULL /\ f[b].size \in Nat /\ f[b] \in Header /\ NULL \notin DOMAIN f
  BY Layout DEF Chain, Header
<1>2. b % 16 = 0 /\ f[b].size % 16 = 0
  BY Layout DEF Chain
<1>3. EndIn(f, b) = b + 16 + f[b].size
  BY Layout DEF EndIn
<1>4. EndIn(f, b) \in Nat /\ EndIn(f, b) % 16 = 0 /\ b < EndIn(f, b)
  BY <1>1, <1>2, <1>3
<1>5. f[b].next \in DOMAIN f \cup {NULL} /\ f[b].next # b
  BY <1>1, <1>4 DEF Chain
<1>6. \A c \in DOMAIN f : c <= b \/ EndIn(f, b) <= c
  BY <1>1 DEF Chain
<1>7. QED
  BY <1>1, <1>2, <1>3, <1>4, <1>5, <1>6

LEMMA SplitIs ==
    ASSUME NEW f, NEW top \in Nat, Chain(f, top), NEW b \in DOMAIN f, NEW w \in Nat,
           f[b].size > w + overhead + HEAP_ALIGN
    PROVE  SplitAt(f, Split(f, b, w), b, w, b + overhead + w)
<1> DEFINE n == b + overhead + w
           a == f[b].next
           h == SetPrev(f, a, n)
           e == [size |-> f[b].size - w - overhead, free |-> TRUE, next |-> a, prev |-> b]
           k == [h EXCEPT ![b].size = w, ![b].next = n]
           g == Split(f, b, w)
<1>1. a \in DOMAIN f \cup {NULL} /\ a # b /\ NULL \notin DOMAIN f
      /\ f \in [DOMAIN f -> Header] /\ f[b].size \in Nat /\ b \in Nat
  BY BlockFacts DEF Chain
<1>2. n \in Nat /\ b < n /\ n < EndIn(f, b)
  BY <1>1, BlockFacts, Layout
<1>3. n \notin DOMAIN f
  BY <1>1, <1>2, BlockFacts
<1>4. g = Put(k, n, e)
  <2>1. ~(f[b].size <= w + overhead + HEAP_ALIGN)
    BY <1>1, Layout
  <2>2. QED
    BY <2>1, Zenon DEF Split
<1>5. e \in Header /\ e.size = f[b].size - w - overhead /\ e.free = TRUE /\ e.next = a /\ e.prev = b
  BY <1>1, Layout DEF Header
<1> HIDE DEF n, e, g
<1>6. /\ h \in [DOMAIN f -> Header]
      /\ \A x \in DOMAIN f : /\ h[x].size = f[x].size /\ h[x].free = f[x].free
                             /\ h[x].next = f[x].next
                             /\ h[x].prev = IF x = a THEN n ELSE f[x].prev
  BY <1>1, <1>2, SetPrevIs
<1> HIDE DEF h, a
<1>7. /\ k \in [DOMAIN f -> Header]
      /\ \A x \in DOMAIN f \ {b} : k[x] = h[x]
      /\ k[b].size = w /\ k[b].free = h[b].free /\ k[b].next = n /\ k[b].prev = h[b].prev
  BY <1>1, <1>2, <1>6 DEF Header
<1> HIDE DEF k
<1>8. /\ DOMAIN g = DOMAIN f \cup {n} /\ g[n] = e
      /\ \A x \in DOMAIN f : g[x] = k[x]
      /\ g \in [DOMAIN g -> Header]
  BY <1>3, <1>4, <1>5, <1>7 DEF Put
<1>9. /\ g[b].size = w /\ g[b].free = f[b].free /\ g[b].next = n /\ g[b].prev = f[b].prev
      /\ \A x \in DOMAIN f \ {b} :
            /\ g[x].size = f[x].size /\ g[x].free = f[x].free /\ g[x].next = f[x].next
            /\ g[x].prev = IF x = a THEN n ELSE f[x].prev
  BY <1>1, <1>6, <1>7, <1>8
<1>10. SplitAt(f, g, b, w, n)
  BY <1>3, <1>5, <1>8, <1>9 DEF a, SplitAt
<1>11. QED
  BY <1>10 DEF n, g

LEMMA SplitKeepsChain ==
    ASSUME NEW f, NEW top \in Nat, Chain(f, top), NEW b \in DOMAIN f, NEW w \in Nat,
           NEW g, NEW n, n = b + overhead + w, SplitAt(f, g, b, w, n),
           w % HEAP_ALIGN = 0, f[b].size > w + overhead + HEAP_ALIGN
    PROVE  Chain(g, top)
<1>1. /\ \A x \in DOMAIN f : /\ x \in Nat /\ f[x].size \in Nat /\ x # NULL
                             /\ x % 16 = 0 /\ f[x].size % 16 = 0
      /\ f[b].next # b /\ b # NULL
  BY BlockFacts
<1>2. n \in Nat /\ b < n /\ n < EndIn(f, b) /\ n # NULL /\ n # KHEAP_BASE
      /\ n % 16 = 0 /\ KHEAP_BASE <= n
  <2>1. n \in Nat /\ b < n /\ n < EndIn(f, b)
    BY <1>1, Layout DEF EndIn
  <2>2. n % 16 = 0
    BY <1>1, Layout
  <2>3. KHEAP_BASE <= b
    BY DEF Chain
  <2>4. QED
    BY <2>1, <2>2, <2>3, <1>1, Layout
<1>3. /\ EndIn(g, b) = n /\ EndIn(g, n) = EndIn(f, b)
      /\ \A x \in DOMAIN f \ {b} : EndIn(g, x) = EndIn(f, x)
  BY <1>1, <1>2, Layout DEF EndIn, SplitAt
<1>4. KHEAP_BASE \in DOMAIN g /\ g[KHEAP_BASE].prev = NULL
  <2>1. KHEAP_BASE # f[b].next \/ f[b].next = NULL
    BY <1>1, <1>2, Layout DEF Chain
  <2>2. QED
    BY <1>1, <1>2, <2>1 DEF Chain, SplitAt
<1>5. ASSUME NEW x \in DOMAIN g
      PROVE  /\ KHEAP_BASE <= x /\ EndIn(g, x) <= top
             /\ x % HEAP_ALIGN = 0 /\ g[x].size % HEAP_ALIGN = 0
  <2>1. g[n].size % 16 = 0
    BY <1>1, Layout DEF SplitAt
  <2>2. QED
    BY <2>1, <1>1, <1>2, <1>3, Layout DEF Chain, SplitAt
<1>6. ASSUME NEW x \in DOMAIN g, g[x].next = NULL
      PROVE  EndIn(g, x) = top
  BY <1>1, <1>2, <1>3, <1>6 DEF Chain, SplitAt
<1>7. ASSUME NEW x \in DOMAIN g, g[x].next # NULL
      PROVE  g[x].next = EndIn(g, x) /\ EndIn(g, x) \in DOMAIN g /\ g[EndIn(g, x)].prev = x
  BY <1>1, <1>2, <1>3, <1>7 DEF Chain, SplitAt
<1>8. ASSUME NEW x \in DOMAIN g, x # KHEAP_BASE
      PROVE  g[x].prev \in DOMAIN g /\ g[g[x].prev].next = x
  BY <1>1, <1>2, <1>3, <1>8 DEF Chain, SplitAt
<1>9. ASSUME NEW x \in DOMAIN g, NEW y \in DOMAIN g, x < y
      PROVE  EndIn(g, x) <= y
  <2>1. /\ \A u, v \in DOMAIN f : u < v => EndIn(f, u) <= v
        /\ DOMAIN g = DOMAIN f \cup {n} /\ EndIn(f, b) \in Nat
    BY BlockFacts DEF Chain, SplitAt
  <2>2. CASE x = n
    BY <2>1, <2>2, <1>1, <1>2, <1>3, <1>9
  <2>3. CASE y = n /\ x # n
    <3>1. x = b \/ x < b \/ EndIn(f, b) <= x
      BY <2>1, <2>3, <1>1
    <3>2. x < b => EndIn(f, x) <= b
      BY <2>1, <2>3
    <3>3. x # b => EndIn(f, x) \in Nat
      BY <2>1, <2>3, BlockFacts
    <3>4. QED
      BY <3>1, <3>2, <3>3, <2>1, <2>3, <1>1, <1>2, <1>3, <1>9
  <2>4. CASE x # n /\ y # n
    BY <2>1, <2>4, <1>1, <1>2, <1>3, <1>9
  <2>5. QED
    BY <2>2, <2>3, <2>4
<1>10. DOMAIN g \subseteq Nat /\ g \in [DOMAIN g -> Header]
  BY <1>1, <1>2 DEF SplitAt
<1>11. QED
  BY <1>4, <1>5, <1>6, <1>7, <1>8, <1>9, <1>10 DEF Chain

\* What becomes of a list when b takes over the block n behind it.
Swallowed(f, g, b, n) ==
    /\ DOMAIN g = DOMAIN f \ {n}
    /\ g \in [DOMAIN g -> Header]
    /\ g[b].size = f[b].size + overhead + f[n].size
    /\ g[b].free = f[b].free /\ g[b].next = f[n].next /\ g[b].prev = f[b].prev
    /\ \A x \in DOMAIN g \ {b} :
          /\ g[x].size = f[x].size /\ g[x].free = f[x].free /\ g[x].next = f[x].next
          /\ g[x].prev = IF x = f[n].next THEN b ELSE f[x].prev

LEMMA SwallowIs ==
    ASSUME NEW f, NEW top \in Nat, Chain(f, top), NEW b \in DOMAIN f, NEW n \in DOMAIN f,
           f[b].next = n
    PROVE  Swallowed(f, Swallow(f, b, n), b, n)
<1> DEFINE h == SetPrev(f, f[n].next, b)
           e == [h[b] EXCEPT !.size = @ + overhead + f[n].size, !.next = f[n].next]
           g == Swallow(f, b, n)
<1>1. /\ f \in [DOMAIN f -> Header] /\ NULL \notin DOMAIN f /\ b # n
      /\ f[n].next \in DOMAIN f \cup {NULL} /\ f[n].next # n
      /\ b \in Nat /\ f[b].size \in Nat /\ f[n].size \in Nat
  BY BlockFacts DEF Chain
<1>2. f[n].next # b
  <2>1. f[b].next # NULL => b < n
    BY <1>1, BlockFacts DEF Chain
  <2>2. f[n].next # NULL => n < f[n].next
    BY <1>1, BlockFacts DEF Chain
  <2>3. QED
    BY <1>1, <2>1, <2>2, BlockFacts
<1>3. /\ h \in [DOMAIN f -> Header]
      /\ \A x \in DOMAIN f : /\ h[x].size = f[x].size /\ h[x].free = f[x].free
                             /\ h[x].next = f[x].next
                             /\ h[x].prev = IF x = f[n].next THEN b ELSE f[x].prev
  BY <1>1, SetPrevIs
<1>4. g = [x \in DOMAIN f \ {n} |-> IF x = b THEN e ELSE h[x]]
  BY Zenon DEF Swallow
<1> HIDE DEF h, g
<1>5. /\ e \in Header /\ e.size = f[b].size + overhead + f[n].size
      /\ e.free = f[b].free /\ e.next = f[n].next /\ e.prev = f[b].prev
  <2>1. f[n].next \in Nat /\ f[b].size + overhead + f[n].size \in Nat
    BY <1>1, Layout DEF Header
  <2>2. h[b] \in Header /\ h[b].size = f[b].size /\ h[b].free = f[b].free /\ h[b].prev = f[b].prev
    BY <1>2, <1>3
  <2>3. QED
    BY <2>1, <2>2 DEF Header
<1> HIDE DEF e
<1>6. DOMAIN g = DOMAIN f \ {n} /\ g \in [DOMAIN g -> Header]
      /\ g[b] = e /\ \A x \in DOMAIN g \ {b} : g[x] = h[x]
  BY <1>1, <1>3, <1>4, <1>5
<1>7. Swallowed(f, g, b, n)
  BY <1>3, <1>5, <1>6 DEF Swallowed
<1>8. QED
  BY <1>7 DEF g

LEMMA SwallowKeepsChain ==
    ASSUME NEW f, NEW top \in Nat, Chain(f, top), NEW b \in DOMAIN f, NEW n \in DOMAIN f,
           f[b].next = n, NEW g, Swallowed(f, g, b, n)
    PROVE  Chain(g, top)
<1>1. \A x \in DOMAIN f : /\ x \in Nat /\ f[x].size \in Nat /\ x # NULL
                          /\ x % 16 = 0 /\ f[x].size % 16 = 0
                          /\ f[x].next \in DOMAIN f \cup {NULL}
                          /\ f[x].next # NULL => f[x].next = EndIn(f, x) /\ x < f[x].next
                                                 /\ f[f[x].next].prev = x
  BY BlockFacts DEF Chain
<1>2. n = EndIn(f, b) /\ b < n /\ f[n].prev = b /\ f[n].next # n /\ f[n].next # b
      /\ n # KHEAP_BASE /\ KHEAP_BASE # f[n].next
  <2>1. n = EndIn(f, b) /\ b < n /\ f[n].prev = b /\ f[n].next # n /\ f[n].next # b
    BY <1>1
  <2>2. QED
    BY <2>1, <1>1, Layout DEF Chain
<1>3. /\ EndIn(g, b) = EndIn(f, n) /\ b \in DOMAIN g
      /\ \A x \in DOMAIN g \ {b} : EndIn(g, x) = EndIn(f, x)
      /\ DOMAIN g = DOMAIN f \ {n}
  BY <1>1, <1>2, Layout DEF EndIn, Swallowed
<1>4. KHEAP_BASE \in DOMAIN g /\ g[KHEAP_BASE].prev = NULL
  BY <1>2, <1>3 DEF Chain, Swallowed
<1>5. ASSUME NEW x \in DOMAIN g
      PROVE  /\ KHEAP_BASE <= x /\ EndIn(g, x) <= top
             /\ x % HEAP_ALIGN = 0 /\ g[x].size % HEAP_ALIGN = 0
  <2>1. g[b].size % 16 = 0
    BY <1>1, Layout DEF Swallowed
  <2>2. QED
    BY <2>1, <1>1, <1>2, <1>3, Layout DEF Chain, Swallowed
<1>6. ASSUME NEW x \in DOMAIN g, g[x].next = NULL
      PROVE  EndIn(g, x) = top
  BY <1>1, <1>2, <1>3, <1>6 DEF Chain, Swallowed
<1>7. ASSUME NEW x \in DOMAIN g, g[x].next # NULL
      PROVE  g[x].next = EndIn(g, x) /\ EndIn(g, x) \in DOMAIN g /\ g[EndIn(g, x)].prev = x
  <2>1. CASE x = b
    BY <1>1, <1>2, <1>3, <1>7, <2>1 DEF Swallowed
  <2>2. CASE x # b
    <3>1. f[x].next # NULL /\ g[x].next = f[x].next /\ EndIn(g, x) = f[x].next
      BY <1>1, <1>3, <1>7, <2>2 DEF Swallowed
    <3>2. f[x].next # n
      BY <1>1, <1>2, <1>3, <2>2
    <3>3. f[x].next # f[n].next
      BY <1>1, <1>3, <3>1
    <3>4. f[x].next # b => g[f[x].next].prev = x
      BY <1>1, <1>3, <3>1, <3>2, <3>3 DEF Swallowed
    <3>5. QED
      BY <1>1, <1>3, <3>1, <3>2, <3>4 DEF Swallowed
  <2>3. QED
    BY <2>1, <2>2
<1>8. ASSUME NEW x \in DOMAIN g, x # KHEAP_BASE
      PROVE  g[x].prev \in DOMAIN g /\ g[g[x].prev].next = x
  BY <1>1, <1>2, <1>3, <1>8 DEF Chain, Swallowed
<1>9. ASSUME NEW x \in DOMAIN g, NEW y \in DOMAIN g, x < y
      PROVE  EndIn(g, x) <= y
  <2>1. x = b => n < y
    BY <1>1, <1>2, <1>3, <1>9 DEF Chain
  <2>2. QED
    BY <2>1, <1>3, <1>9 DEF Chain
<1>10. DOMAIN g \subseteq Nat /\ g \in [DOMAIN g -> Header]
  BY <1>1, <1>3 DEF Swallowed
<1>11. QED
  BY <1>4, <1>5, <1>6, <1>7, <1>8, <1>9, <1>10 DEF Chain

-----------------------------------------------------------------------------
(* kfree and the fitting block of kmalloc.                                 *)

UsedIn(f) == {x \in DOMAIN f : ~f[x].free}

\* Free neighbours are found nowhere but in front of b and, when it is so, behind it.
OnlyBefore(f, b) ==
    \A x \in DOMAIN f : f[x].free /\ f[x].next # NULL /\ f[f[x].next].free => f[x].next = b

LEMMA SetFreeKeepsChain ==
    ASSUME NEW f, NEW top \in Nat, Chain(f, top), NEW b \in DOMAIN f, NEW v \in BOOLEAN
    PROVE  LET g == [f EXCEPT ![b].free = v]
           IN  /\ Chain(g, top)
               /\ DOMAIN g = DOMAIN f /\ g[b].free = v
               /\ \A x \in DOMAIN f : /\ g[x].size = f[x].size /\ g[x].next = f[x].next
                                      /\ g[x].prev = f[x].prev
                                      /\ x # b => g[x].free = f[x].free
<1> DEFINE g == [f EXCEPT ![b].free = v]
<1>1. f \in [DOMAIN f -> Header]
  BY DEF Chain
<1>2. /\ DOMAIN g = DOMAIN f /\ g \in [DOMAIN g -> Header] /\ g[b].free = v
      /\ \A x \in DOMAIN f : /\ g[x].size = f[x].size /\ g[x].next = f[x].next
                             /\ g[x].prev = f[x].prev
                             /\ x # b => g[x].free = f[x].free
  BY <1>1 DEF Header
<1> HIDE DEF g
<1>3. \A x \in DOMAIN f : EndIn(g, x) = EndIn(f, x)
  BY <1>2 DEF EndIn
<1>4. \A x \in DOMAIN f : f[x].next # NULL => f[x].next \in DOMAIN f
  BY DEF Chain
<1>5. KHEAP_BASE \in DOMAIN g /\ g[KHEAP_BASE].prev = NULL /\ DOMAIN g \subseteq Nat
  BY <1>2 DEF Chain
<1>6. \A x \in DOMAIN g : /\ KHEAP_BASE <= x /\ EndIn(g, x) <= top
                          /\ x % HEAP_ALIGN = 0 /\ g[x].size % HEAP_ALIGN = 0
  BY <1>2, <1>3 DEF Chain
<1>7. \A x \in DOMAIN g : g[x].next = NULL => EndIn(g, x) = top
  BY <1>2, <1>3 DEF Chain
<1>8. \A x \in DOMAIN g : g[x].next # NULL =>
          g[x].next = EndIn(g, x) /\ EndIn(g, x) \in DOMAIN g /\ g[EndIn(g, x)].prev = x
  BY <1>2, <1>3 DEF Chain
<1>9. \A x \in DOMAIN g : x # KHEAP_BASE => g[x].prev \in DOMAIN g /\ g[g[x].prev].next = x
  BY <1>2 DEF Chain
<1>10. \A x, y \in DOMAIN g : x < y => EndIn(g, x) <= y
  BY <1>2, <1>3 DEF Chain
<1>11. Chain(g, top)
  BY <1>2, <1>5, <1>6, <1>7, <1>8, <1>9, <1>10 DEF Chain
<1>12. QED
  BY <1>2, <1>11 DEF g

LEMMA NextIs ==
    ASSUME NEW f, NEW top \in Nat, Chain(f, top), NEW x \in DOMAIN f, f[x].next # NULL
    PROVE  /\ f[x].next \in DOMAIN f /\ x < f[x].next /\ f[f[x].next].prev = x
           /\ f[x].next # KHEAP_BASE
<1>1. f[x].next = EndIn(f, x) /\ EndIn(f, x) \in DOMAIN f /\ f[EndIn(f, x)].prev = x
  BY DEF Chain
<1>2. x < EndIn(f, x) /\ x # NULL
  BY BlockFacts
<1>3. QED
  BY <1>1, <1>2 DEF Chain

\* The first merge of kfree.
LEMMA MergeNextIs ==
    ASSUME NEW f, NEW top \in Nat, Chain(f, top), NEW b \in DOMAIN f, f[b].free,
           \A x \in DOMAIN f : f[x].free /\ f[x].next # NULL /\ f[f[x].next].free =>
              f[x].next = b \/ x = b
    PROVE  LET g == MergeNext(f, b)
           IN  /\ Chain(g, top) /\ OnlyBefore(g, b)
               /\ b \in DOMAIN g /\ g[b].free /\ g[b].prev = f[b].prev
               /\ UsedIn(g) = UsedIn(f)
               /\ \A x \in UsedIn(f) : g[x].size = f[x].size
<1> DEFINE n == f[b].next
           g == MergeNext(f, b)
<1>1. CASE n = NULL \/ ~f[n].free
  <2>1. g = f
    BY <1>1 DEF MergeNext
  <2>2. OnlyBefore(f, b)
    BY <1>1 DEF OnlyBefore
  <2>3. QED
    BY <2>1, <2>2
<1>2. CASE ~(n = NULL \/ ~f[n].free)
  <2>1. g = Swallow(f, b, n)
    BY <1>2 DEF MergeNext
  <2>2. n \in DOMAIN f /\ f[n].free /\ b < n /\ n # b
    BY <1>2, NextIs, BlockFacts
  <2>3. Swallowed(f, g, b, n)
    BY <2>1, <2>2, SwallowIs
  <2> HIDE DEF g
  <2>4. Chain(g, top)
    BY <2>2, <2>3, SwallowKeepsChain
  <2>5. f[n].next # NULL => /\ f[n].next \in DOMAIN f /\ n < f[n].next
                            /\ f[n].next # b /\ ~f[f[n].next].free
    <3>1. f[n].next # NULL => f[n].next \in DOMAIN f /\ n < f[n].next
      BY <2>2, NextIs
    <3>2. f[n].next # NULL => f[n].next # b
      BY <3>1, <2>2, BlockFacts
    <3>3. QED
      BY <3>1, <3>2, <2>2
  <2>6. DOMAIN g = DOMAIN f \ {n} /\ \A x \in DOMAIN g : g[x].free = f[x].free
    BY <2>3 DEF Swallowed
  <2>7. OnlyBefore(g, b)
    <3> SUFFICES ASSUME NEW x \in DOMAIN g, g[x].free, g[x].next # NULL, g[g[x].next].free
                 PROVE  g[x].next = b
      BY DEF OnlyBefore
    <3>0. g[x].next \in DOMAIN g
      BY <2>4, NextIs
    <3>1. CASE x = b
      BY <3>0, <3>1, <2>3, <2>5, <2>6 DEF Swallowed
    <3>2. CASE x # b
      BY <3>0, <3>2, <2>3, <2>6 DEF Swallowed
    <3>3. QED
      BY <3>1, <3>2
  <2>8. b \in DOMAIN g /\ g[b].free /\ g[b].prev = f[b].prev
    BY <2>2, <2>3, <2>6 DEF Swallowed
  <2>9. UsedIn(g) = UsedIn(f)
    BY <2>2, <2>6 DEF UsedIn
  <2>10. \A x \in UsedIn(f) : g[x].size = f[x].size
    BY <2>2, <2>3 DEF UsedIn, Swallowed
  <2>11. QED
    BY <2>4, <2>7, <2>8, <2>9, <2>10 DEF g
<1>3. QED
  BY <1>1, <1>2

\* kfree takes the block out of use, keeps the others, and merges what is free.
LEMMA ReleaseIs ==
    ASSUME NEW f, NEW top \in Nat, Chain(f, top), FreeApart(f), NEW b \in UsedIn(f)
    PROVE  LET g == Release(f, b)
           IN  /\ Chain(g, top) /\ FreeApart(g)
               /\ UsedIn(g) = UsedIn(f) \ {b}
               /\ \A x \in UsedIn(g) : g[x].size = f[x].size
<1> DEFINE h == [f EXCEPT ![b].free = TRUE]
           k == MergeNext(h, b)
           p == k[b].prev
           g == Release(f, b)
<1>1. b \in DOMAIN f
  BY DEF UsedIn
<1>2. /\ Chain(h, top) /\ DOMAIN h = DOMAIN f /\ h[b].free
      /\ \A x \in DOMAIN f : /\ h[x].size = f[x].size /\ h[x].next = f[x].next
                             /\ x # b => h[x].free = f[x].free
  BY <1>1, SetFreeKeepsChain
<1>3. g = IF p # NULL /\ k[p].free THEN MergeNext(k, p) ELSE k
  BY Zenon DEF Release
<1> HIDE DEF h, g
<1>4. \A x \in DOMAIN h : h[x].free /\ h[x].next # NULL /\ h[h[x].next].free =>
         h[x].next = b \/ x = b
  <2>1. \A x \in DOMAIN f : f[x].next # NULL => f[x].next \in DOMAIN f
    BY NextIs
  <2>2. QED
    BY <2>1, <1>2 DEF FreeApart
<1>5. /\ Chain(k, top) /\ OnlyBefore(k, b)
      /\ b \in DOMAIN k /\ k[b].free
      /\ UsedIn(k) = UsedIn(h)
      /\ \A x \in UsedIn(h) : k[x].size = h[x].size
  BY <1>1, <1>2, <1>4, MergeNextIs
<1>6. UsedIn(h) = UsedIn(f) \ {b}
  BY <1>2 DEF UsedIn
<1>7. \A x \in UsedIn(k) : k[x].size = f[x].size
  BY <1>2, <1>5, <1>6 DEF UsedIn
<1> HIDE DEF k
<1>8. CASE p = NULL \/ ~k[p].free
  <2>1. g = k
    BY <1>3, <1>8
  <2>2. FreeApart(k)
    <3> SUFFICES ASSUME NEW x \in DOMAIN k, k[x].free, k[x].next # NULL, k[k[x].next].free
                 PROVE  FALSE
      BY DEF FreeApart
    <3>1. k[x].next = b /\ k[b].prev = x /\ x # NULL
      BY <1>5, NextIs, BlockFacts DEF OnlyBefore
    <3>2. QED
      BY <3>1, <1>8
  <2>3. QED
    BY <2>1, <2>2, <1>5, <1>6, <1>7 DEF g
<1>9. CASE ~(p = NULL \/ ~k[p].free)
  <2>1. p \in DOMAIN k /\ k[p].next = b /\ k[p].free
    BY <1>5, <1>9 DEF Chain
  <2>2. b # NULL
    BY <1>5, BlockFacts
  <2>3. g = Swallow(k, p, b)
    BY <1>3, <1>5, <1>9, <2>1, <2>2 DEF MergeNext
  <2>4. Swallowed(k, g, p, b)
    BY <2>1, <2>3, <1>5, SwallowIs
  <2>5. Chain(g, top)
    BY <2>1, <2>4, <1>5, SwallowKeepsChain
  <2>6. DOMAIN g = DOMAIN k \ {b} /\ \A x \in DOMAIN g : g[x].free = k[x].free
    BY <2>4 DEF Swallowed
  <2>7. FreeApart(g)
    <3> SUFFICES ASSUME NEW x \in DOMAIN g, g[x].free, g[x].next # NULL, g[g[x].next].free
                 PROVE  FALSE
      BY DEF FreeApart
    <3>1. g[x].next \in DOMAIN g
      BY <2>5, NextIs
    <3>2. CASE x = p
      <4>1. g[x].next = k[b].next
        BY <2>4, <3>2 DEF Swallowed
      <4>2. k[b].next = b
        BY <4>1, <3>1, <2>6, <1>5 DEF OnlyBefore
      <4>3. QED
        BY <4>2, <1>5, BlockFacts
    <3>3. CASE x # p
      BY <3>1, <3>3, <2>4, <2>6, <1>5 DEF Swallowed, OnlyBefore
    <3>4. QED
      BY <3>2, <3>3
  <2>8. UsedIn(g) = UsedIn(k)
    BY <1>5, <2>6 DEF UsedIn
  <2>9. \A x \in UsedIn(g) : g[x].size = k[x].size
    BY <2>1, <2>4, <2>6 DEF UsedIn, Swallowed
  <2>10. QED
    BY <2>5, <2>7, <2>8, <2>9, <1>5, <1>6, <1>7 DEF g
<1>10. QED
  BY <1>8, <1>9

\* kmalloc takes a block that fits out of the free ones, and leaves what is too much.
LEMMA TakeIs ==
    ASSUME NEW f, NEW top \in Nat, Chain(f, top), FreeApart(f),
           NEW b \in DOMAIN f, f[b].free, NEW w \in Nat, w % HEAP_ALIGN = 0, f[b].size >= w
    PROVE  LET g == [Split(f, b, w) EXCEPT ![b].free = FALSE]
           IN  /\ Chain(g, top) /\ FreeApart(g)
               /\ UsedIn(g) = UsedIn(f) \cup {b}
               /\ g[b].size >= w
               /\ \A x \in UsedIn(f) : g[x].size = f[x].size
<1> DEFINE h == Split(f, b, w)
           g == [h EXCEPT ![b].free = FALSE]
           n == b + overhead + w
           a == f[b].next
<1>1. /\ f[b].size \in Nat /\ b \in Nat /\ a \in DOMAIN f \cup {NULL} /\ a # b
      /\ a # NULL => ~f[a].free
  BY BlockFacts DEF FreeApart
<1>2. CASE f[b].size <= w + overhead + HEAP_ALIGN
  <2>1. h = f
    BY <1>2 DEF Split
  <2>2. /\ Chain(g, top) /\ DOMAIN g = DOMAIN f /\ ~g[b].free
        /\ \A x \in DOMAIN f : /\ g[x].size = f[x].size /\ g[x].next = f[x].next
                               /\ x # b => g[x].free = f[x].free
    <3>1. g = [f EXCEPT ![b].free = FALSE]
      BY <2>1
    <3> HIDE DEF g, h
    <3>2. QED
      BY <3>1, SetFreeKeepsChain
  <2> HIDE DEF g, h
  <2>3. FreeApart(g)
    <3>1. \A x \in DOMAIN f : f[x].next # NULL => f[x].next \in DOMAIN f
      BY NextIs
    <3>2. QED
      BY <3>1, <2>2 DEF FreeApart
  <2>4. UsedIn(g) = UsedIn(f) \cup {b} /\ \A x \in UsedIn(f) : g[x].size = f[x].size
    BY <2>2 DEF UsedIn
  <2>5. QED
    BY <2>2, <2>3, <2>4 DEF g, h
<1>3. CASE f[b].size > w + overhead + HEAP_ALIGN
  <2>1. SplitAt(f, h, b, w, n)
    BY <1>3, SplitIs
  <2>2. Chain(h, top)
    BY <1>3, <2>1, SplitKeepsChain
  <2> HIDE DEF h
  <2>3. b \in DOMAIN h /\ n # b /\ DOMAIN h = DOMAIN f \cup {n} /\ n \notin DOMAIN f
    BY <2>1 DEF SplitAt
  <2>4. /\ Chain(g, top) /\ DOMAIN g = DOMAIN h /\ ~g[b].free
        /\ \A x \in DOMAIN h : /\ g[x].size = h[x].size /\ g[x].next = h[x].next
                               /\ x # b => g[x].free = h[x].free
    BY <2>2, <2>3, SetFreeKeepsChain
  <2> HIDE DEF g, n
  <2>5. \A x \in DOMAIN f : f[x].next # NULL => f[x].next \in DOMAIN f
    BY NextIs
  <2>6. \A x \in DOMAIN f \ {b} : g[x].next = f[x].next /\ g[x].free = f[x].free
                                  /\ g[x].size = f[x].size
    BY <2>1, <2>3, <2>4 DEF SplitAt
  <2>7. g[n].next = a /\ g[n].free /\ g[b].size = w
    BY <2>1, <2>3, <2>4 DEF SplitAt
  <2>8. FreeApart(g)
    <3> SUFFICES ASSUME NEW x \in DOMAIN g, g[x].free, g[x].next # NULL, g[g[x].next].free
                 PROVE  FALSE
      BY DEF FreeApart
    <3>1. CASE x = n
      <4>1. a # NULL /\ a \in DOMAIN f \ {b} /\ g[a].free
        BY <3>1, <2>7, <1>1
      <4>2. QED
        BY <4>1, <2>6, <1>1
    <3>2. CASE x \in DOMAIN f \ {b}
      <4>1. f[x].next \in DOMAIN f /\ f[x].next # b
        BY <3>2, <2>4, <2>5, <2>6
      <4>2. QED
        BY <4>1, <3>2, <2>6 DEF FreeApart
    <3>3. QED
      BY <3>1, <3>2, <2>3, <2>4
  <2>9. UsedIn(g) = UsedIn(f) \cup {b}
    BY <2>3, <2>4, <2>6, <2>7 DEF UsedIn
  <2>10. \A x \in UsedIn(f) : g[x].size = f[x].size
    BY <2>6 DEF UsedIn
  <2>11. g[b].size >= w
    BY <2>7
  <2>12. QED
    BY <2>4, <2>8, <2>9, <2>10, <2>11 DEF g, h
<1>4. f[b].size <= w + overhead + HEAP_ALIGN \/ f[b].size > w + overhead + HEAP_ALIGN
  BY <1>1, Layout
<1>5. QED
  BY <1>2, <1>3, <1>4, Zenon

\* What heap_expand makes of the list when m bytes have been mapped behind it.
Extended(f, t, m) ==
    IF f[t].free THEN [f EXCEPT ![t].size = @ + m]
    ELSE LET nb == t + overhead + f[t].size
         IN  Put([f EXCEPT ![t].next = nb], nb,
                 [size |-> m - overhead, free |-> TRUE, next |-> NULL, prev |-> t])

\* The tail, when it is free, grows.
LEMMA WidenIs ==
    ASSUME NEW f, NEW top \in Nat, Chain(f, top), FreeApart(f),
           NEW t \in DOMAIN f, f[t].next = NULL, f[t].free,
           NEW m \in Nat, m % 16 = 0
    PROVE  LET g == Extended(f, t, m)
           IN  /\ Chain(g, top + m) /\ FreeApart(g)
               /\ UsedIn(g) = UsedIn(f)
               /\ \A x \in UsedIn(f) : g[x].size = f[x].size
               /\ t \in DOMAIN g /\ g[t].free /\ g[t].size >= m
<1> DEFINE g == Extended(f, t, m)
<1>1. f \in [DOMAIN f -> Header] /\ t \in Nat /\ f[t].size \in Nat
      /\ EndIn(f, t) = top /\ f[t].size % 16 = 0
  BY BlockFacts DEF Chain
<1>2. /\ DOMAIN g = DOMAIN f /\ g \in [DOMAIN g -> Header] /\ g[t].size = f[t].size + m
      /\ \A x \in DOMAIN f : /\ g[x].free = f[x].free /\ g[x].next = f[x].next
                             /\ g[x].prev = f[x].prev
                             /\ x # t => g[x].size = f[x].size
  <2>1. f[t].size + m \in Nat
    BY <1>1
  <2>2. g = [f EXCEPT ![t].size = @ + m]
    BY DEF Extended
  <2>3. QED
    BY <2>1, <2>2, <1>1 DEF Header
<1> HIDE DEF g
<1>3. EndIn(g, t) = top + m /\ \A x \in DOMAIN f \ {t} : EndIn(g, x) = EndIn(f, x)
  BY <1>1, <1>2, Layout DEF EndIn
<1>4. \A x \in DOMAIN f : x # t => EndIn(f, x) \in Nat /\ EndIn(f, x) <= t /\ x < t
  <2> TAKE x \in DOMAIN f
  <2>1. x # t => EndIn(f, x) <= t \/ top <= x
    BY <1>1, BlockFacts DEF Chain
  <2>2. EndIn(f, x) <= top /\ EndIn(f, x) \in Nat /\ x \in Nat /\ x < EndIn(f, x)
    BY BlockFacts DEF Chain
  <2>3. QED
    BY <2>1, <2>2, <1>1
<1>5. KHEAP_BASE \in DOMAIN g /\ g[KHEAP_BASE].prev = NULL /\ DOMAIN g \subseteq Nat
  BY <1>2 DEF Chain
<1>6. ASSUME NEW x \in DOMAIN g
      PROVE  /\ KHEAP_BASE <= x /\ EndIn(g, x) <= top + m
             /\ x % HEAP_ALIGN = 0 /\ g[x].size % HEAP_ALIGN = 0
  <2>1. KHEAP_BASE <= x /\ EndIn(f, x) <= top /\ x % 16 = 0 /\ f[x].size % 16 = 0
        /\ EndIn(f, x) \in Nat
    BY <1>2, BlockFacts, Layout DEF Chain
  <2>2. g[t].size % 16 = 0
    BY <1>1, <1>2
  <2>3. QED
    BY <2>1, <2>2, <1>2, <1>3, Layout
<1>7. ASSUME NEW x \in DOMAIN g, g[x].next = NULL
      PROVE  EndIn(g, x) = top + m
  <2>1. x = t
    <3>1. x # t => EndIn(f, x) = top
      BY <1>2, <1>7 DEF Chain
    <3>2. t < EndIn(f, t)
      BY BlockFacts
    <3>3. QED
      BY <3>1, <3>2, <1>1, <1>2, <1>4
  <2>2. QED
    BY <2>1, <1>3
<1>8. ASSUME NEW x \in DOMAIN g, g[x].next # NULL
      PROVE  g[x].next = EndIn(g, x) /\ EndIn(g, x) \in DOMAIN g /\ g[EndIn(g, x)].prev = x
  BY <1>2, <1>3, <1>8 DEF Chain
<1>9. ASSUME NEW x \in DOMAIN g, x # KHEAP_BASE
      PROVE  g[x].prev \in DOMAIN g /\ g[g[x].prev].next = x
  BY <1>2, <1>9 DEF Chain
<1>10. ASSUME NEW x \in DOMAIN g, NEW y \in DOMAIN g, x < y
       PROVE  EndIn(g, x) <= y
  <2>1. x # t
    BY <1>1, <1>2, <1>4, <1>5, <1>10
  <2>2. QED
    BY <2>1, <1>2, <1>3, <1>10 DEF Chain
<1>11. Chain(g, top + m)
  BY <1>2, <1>5, <1>6, <1>7, <1>8, <1>9, <1>10 DEF Chain
<1>12. FreeApart(g)
  <2>1. \A x \in DOMAIN f : f[x].next # NULL => f[x].next \in DOMAIN f
    BY NextIs
  <2>2. QED
    BY <2>1, <1>2 DEF FreeApart
<1>13. UsedIn(g) = UsedIn(f) /\ (\A x \in UsedIn(f) : g[x].size = f[x].size)
       /\ t \in DOMAIN g /\ g[t].free
  BY <1>2 DEF UsedIn
<1>14. g[t].size >= m
  BY <1>1, <1>2
<1>15. QED
  BY <1>11, <1>12, <1>13, <1>14 DEF g

\* Behind a tail that is in use comes a new block.
LEMMA LengthenIs ==
    ASSUME NEW f, NEW top \in Nat, Chain(f, top), FreeApart(f),
           NEW t \in DOMAIN f, f[t].next = NULL, ~f[t].free,
           NEW m \in Nat, m % 16 = 0, m >= 16
    PROVE  LET g == Extended(f, t, m)
           IN  /\ Chain(g, top + m) /\ FreeApart(g)
               /\ UsedIn(g) = UsedIn(f)
               /\ \A x \in UsedIn(f) : g[x].size = f[x].size
               /\ top \in DOMAIN g /\ g[top].free /\ g[top].size = m - 16
<1> DEFINE h == [f EXCEPT ![t].next = top]
           e == [size |-> m - overhead, free |-> TRUE, next |-> NULL, prev |-> t]
           g == Extended(f, t, m)
<1>1. f \in [DOMAIN f -> Header] /\ t \in Nat /\ f[t].size \in Nat
      /\ EndIn(f, t) = top /\ t < top /\ t # NULL /\ top # NULL /\ top % 16 = 0
  BY BlockFacts, Layout DEF Chain
<1>2. /\ DOMAIN h = DOMAIN f /\ h \in [DOMAIN h -> Header] /\ h[t].next = top
      /\ \A x \in DOMAIN f : /\ h[x].free = f[x].free /\ h[x].size = f[x].size
                             /\ h[x].prev = f[x].prev
                             /\ x # t => h[x].next = f[x].next
  BY <1>1 DEF Header
<1>3. e \in Header /\ e.size = m - 16 /\ e.free = TRUE /\ e.next = NULL /\ e.prev = t
  <2>1. m - overhead \in Nat /\ m - overhead = m - 16 /\ NULL \in Nat
    BY Layout
  <2>2. QED
    BY <2>1, <1>1 DEF Header
<1>4. g = Put(h, top, e)
  <2>1. t + overhead + f[t].size = top
    BY <1>1 DEF EndIn
  <2>2. QED
    BY <2>1, Zenon DEF Extended
<1> HIDE DEF h, e, g
<1>5. \A x \in DOMAIN f : EndIn(f, x) \in Nat /\ EndIn(f, x) <= top /\ x < top /\ x \in Nat
  <2> TAKE x \in DOMAIN f
  <2>1. EndIn(f, x) <= top /\ EndIn(f, x) \in Nat /\ x \in Nat /\ x < EndIn(f, x)
    BY BlockFacts DEF Chain
  <2>2. QED
    BY <2>1
<1>6. /\ DOMAIN g = DOMAIN f \cup {top} /\ g[top] = e /\ top \notin DOMAIN f
      /\ g \in [DOMAIN g -> Header]
      /\ \A x \in DOMAIN f : g[x] = h[x]
  <2>1. top \notin DOMAIN f
    BY <1>5
  <2>2. QED
    BY <2>1, <1>2, <1>3, <1>4 DEF Put
<1>7. /\ g[t].next = top
      /\ g[top].size = m - 16 /\ g[top].free /\ g[top].next = NULL /\ g[top].prev = t
      /\ \A x \in DOMAIN f : /\ g[x].free = f[x].free /\ g[x].size = f[x].size
                             /\ g[x].prev = f[x].prev
                             /\ x # t => g[x].next = f[x].next
  BY <1>2, <1>3, <1>6
<1>8. EndIn(g, top) = top + m /\ \A x \in DOMAIN f : EndIn(g, x) = EndIn(f, x)
  BY <1>6, <1>7, Layout DEF EndIn
<1>9. KHEAP_BASE \in DOMAIN g /\ g[KHEAP_BASE].prev = NULL /\ DOMAIN g \subseteq Nat
  BY <1>6, <1>7 DEF Chain
<1>10. ASSUME NEW x \in DOMAIN g
      PROVE  /\ KHEAP_BASE <= x /\ EndIn(g, x) <= top + m
             /\ x % HEAP_ALIGN = 0 /\ g[x].size % HEAP_ALIGN = 0
  <2>1. CASE x = top
    <3>1. KHEAP_BASE <= top
      BY <1>5, Layout DEF Chain
    <3>2. (m - 16) % 16 = 0
      OBVIOUS
    <3>3. QED
      BY <2>1, <3>1, <3>2, <1>1, <1>7, <1>8, Layout
  <2>2. CASE x \in DOMAIN f
    <3>1. KHEAP_BASE <= x /\ x % HEAP_ALIGN = 0 /\ f[x].size % HEAP_ALIGN = 0
      BY <2>2 DEF Chain
    <3>2. QED
      BY <2>2, <3>1, <1>5, <1>7, <1>8
  <2>3. QED
    BY <2>1, <2>2, <1>6
<1>11. ASSUME NEW x \in DOMAIN g, g[x].next = NULL
       PROVE  EndIn(g, x) = top + m
  <2>1. CASE x = top
    BY <2>1, <1>8
  <2>2. CASE x \in DOMAIN f
    <3>1. x # t
      BY <1>1, <1>7, <1>11
    <3>2. EndIn(f, x) = top
      BY <2>2, <3>1, <1>7, <1>11 DEF Chain
    <3>3. x <= t /\ t <= x
      BY <2>2, <3>2, <1>1, <1>5, BlockFacts DEF Chain
    <3>4. QED
      BY <2>2, <3>1, <3>3, <1>1, <1>5
  <2>3. QED
    BY <2>1, <2>2, <1>6
<1>12. ASSUME NEW x \in DOMAIN g, g[x].next # NULL
       PROVE  g[x].next = EndIn(g, x) /\ EndIn(g, x) \in DOMAIN g /\ g[EndIn(g, x)].prev = x
  <2>1. x \in DOMAIN f
    BY <1>6, <1>7, <1>12
  <2>2. CASE x = t
    BY <2>2, <1>1, <1>6, <1>7, <1>8
  <2>3. CASE x # t
    BY <2>1, <2>3, <1>6, <1>7, <1>8, <1>12 DEF Chain
  <2>4. QED
    BY <2>2, <2>3
<1>13. ASSUME NEW x \in DOMAIN g, x # KHEAP_BASE
       PROVE  g[x].prev \in DOMAIN g /\ g[g[x].prev].next = x
  <2>1. CASE x = top
    BY <2>1, <1>6, <1>7
  <2>2. CASE x \in DOMAIN f
    <3>1. f[x].prev \in DOMAIN f /\ f[f[x].prev].next = x
      BY <2>2, <1>13 DEF Chain
    <3>2. f[x].prev # t
      BY <2>2, <3>1, BlockFacts
    <3>3. QED
      BY <2>2, <3>1, <3>2, <1>6, <1>7
  <2>3. QED
    BY <2>1, <2>2, <1>6
<1>14. ASSUME NEW x \in DOMAIN g, NEW y \in DOMAIN g, x < y
       PROVE  EndIn(g, x) <= y
  <2>1. x \in DOMAIN f
    BY <1>1, <1>5, <1>6, <1>14
  <2>2. y = top \/ y \in DOMAIN f
    BY <1>6
  <2>3. QED
    BY <2>1, <2>2, <1>5, <1>8, <1>14 DEF Chain
<1>15. Chain(g, top + m)
  BY <1>6, <1>9, <1>10, <1>11, <1>12, <1>13, <1>14 DEF Chain
<1>16. FreeApart(g)
  <2>1. \A x \in DOMAIN f : f[x].next # NULL => f[x].next \in DOMAIN f
    BY NextIs
  <2> SUFFICES ASSUME NEW x \in DOMAIN g, g[x].free, g[x].next # NULL, g[g[x].next].free
               PROVE  FALSE
    BY DEF FreeApart
  <2>2. x \in DOMAIN f /\ x # t
    BY <1>6, <1>7
  <2>3. QED
    BY <2>1, <2>2, <1>7 DEF FreeApart
<1>17. UsedIn(g) = UsedIn(f) /\ (\A x \in UsedIn(f) : g[x].size = f[x].size)
  BY <1>6, <1>7 DEF UsedIn
<1>18. QED
  BY <1>6, <1>7, <1>15, <1>16, <1>17 DEF g

-----------------------------------------------------------------------------
(* Pages and frames.                                                       *)

LEMMA LowestIs ==
    ASSUME g_bitmap \subseteq Frames, FreeFrames # {}
    PROVE  LowestFree \in FreeFrames
<1>1. FreeFrames \in SUBSET Nat
  BY FramesAssumption DEF FreeFrames, Frames
<1>2. \E f \in FreeFrames : \A g \in FreeFrames : f <= g
  BY <1>1, LeastPosition, Zenon
<1>3. QED
  BY <1>2 DEF LowestFree

\* The addresses of pages below the k-th one.
LEMMA PageAddresses ==
    ASSUME NEW k \in Nat, NEW e \in Nat, e = KHEAP_BASE + FRAME_SIZE * k
    PROVE  {v \in KHEAP_BASE .. e + FRAME_SIZE - 1 : v % FRAME_SIZE = 0}
              = {v \in KHEAP_BASE .. e - 1 : v % FRAME_SIZE = 0} \cup {e}
<1> DEFINE q == KHEAP_BASE \div FRAME_SIZE
<1>1. q \in Nat /\ KHEAP_BASE = FRAME_SIZE * q
  <2>1. KHEAP_BASE % FRAME_SIZE = 0
    BY LayoutAssumption
  <2>2. QED
    BY <2>1, Layout, Division
<1>2. e = FRAME_SIZE * (q + k) /\ q + k \in Nat
  BY <1>1, Layout
<1> HIDE DEF q
<1>3. e % FRAME_SIZE = 0
  BY <1>2, Layout, Multiple
<1>4. KHEAP_BASE <= e
  BY Layout, Times
<1>5. ASSUME NEW v \in Nat, e <= v, v < e + FRAME_SIZE, v % FRAME_SIZE = 0
      PROVE  v = e
  <2>1. PICK d \in Nat : v = FRAME_SIZE * d
    BY <1>5, Layout, Division
  <2>2. ~(d < q + k)
    BY <1>2, <1>5, <2>1, Layout, Times
  <2>3. ~(q + k < d)
    BY <1>2, <1>5, <2>1, Layout, Times
  <2>4. d = q + k
    BY <1>2, <2>2, <2>3
  <2>5. QED
    BY <1>2, <2>1, <2>4
<1>6. ASSUME NEW v
      PROVE  v \in {w \in KHEAP_BASE .. e + FRAME_SIZE - 1 : w % FRAME_SIZE = 0}
                <=> v \in {w \in KHEAP_BASE .. e - 1 : w % FRAME_SIZE = 0} \cup {e}
  <2>1. v \in KHEAP_BASE .. e + FRAME_SIZE - 1 => v \in Nat
    BY Layout
  <2>2. QED
    BY <2>1, <1>3, <1>4, <1>5, Layout
<1>7. QED
  BY <1>6

LEMMA MapNextPageKeeps ==
    ASSUME Types, Backed, NEW k \in Nat, PagesMapped(k), MapNextPage
    PROVE  /\ Backed' /\ PagesMapped(k + 1)'
           /\ g_heap_end' = g_heap_end + FRAME_SIZE
           /\ g_bitmap' \subseteq Frames /\ g_stats' \in [free : Nat, used : Nat]
<1> DEFINE f == LowestFree
           pages == {pageOf[v] : v \in DOMAIN pageOf}
<1>1. f \in FreeFrames /\ f \in Frames /\ f \notin g_bitmap
  BY LowestIs DEF MapNextPage, Types, FreeFrames
<1>2. /\ g_bitmap' = g_bitmap \cup {f} /\ reserved' = reserved
      /\ g_stats' = [free |-> g_stats.free - 1, used |-> g_stats.used + 1]
      /\ pageOf' = Put(pageOf, g_heap_end, f)
      /\ g_heap_end' = g_heap_end + FRAME_SIZE
  BY DEF MapNextPage
<1> HIDE DEF f
<1>3. g_heap_end \in Nat /\ PagesMapped(k + 1)'
  BY <1>2, Layout, Times DEF PagesMapped
<1>4. DOMAIN pageOf' = DOMAIN pageOf \cup {g_heap_end}
  BY <1>2 DEF Put
<1>5. pageOf'[g_heap_end] = f /\ \A v \in DOMAIN pageOf : pageOf'[v] = pageOf[v]
  <2>1. g_heap_end \notin DOMAIN pageOf
    BY <1>3, Layout DEF Backed
  <2>2. QED
    BY <1>2, <2>1 DEF Put
<1>6. DOMAIN pageOf' = {v \in KHEAP_BASE .. g_heap_end' - 1 : v % FRAME_SIZE = 0}
  <2>1. DOMAIN pageOf = {v \in KHEAP_BASE .. g_heap_end - 1 : v % FRAME_SIZE = 0}
    BY DEF Backed
  <2>2. {v \in KHEAP_BASE .. g_heap_end + FRAME_SIZE - 1 : v % FRAME_SIZE = 0}
           = DOMAIN pageOf \cup {g_heap_end}
    BY <2>1, <1>3, PageAddresses DEF PagesMapped
  <2>3. g_heap_end' - 1 = g_heap_end + FRAME_SIZE - 1
    BY <1>2, <1>3, Layout
  <2>4. QED
    BY <2>2, <2>3, <1>4
<1>7. f \notin pages /\ f \notin reserved
  BY <1>1 DEF Backed
<1>8. {pageOf'[v] : v \in DOMAIN pageOf'} = pages \cup {f}
  BY <1>4, <1>5
<1>9. \A v, w \in DOMAIN pageOf' : pageOf'[v] = pageOf'[w] => v = w
  BY <1>4, <1>5, <1>7 DEF Backed
<1>10. /\ g_bitmap' = reserved' \cup {pageOf'[v] : v \in DOMAIN pageOf'}
       /\ reserved' \cap {pageOf'[v] : v \in DOMAIN pageOf'} = {}
  BY <1>2, <1>7, <1>8 DEF Backed
<1>11. g_bitmap' \subseteq Frames /\ FreeFrames' = FreeFrames \ {f}
  BY <1>1, <1>2 DEF Types, FreeFrames
<1>12. IsFiniteSet(Frames)
  BY FramesAssumption, FS_Interval DEF Frames
<1>13. /\ IsFiniteSet(g_bitmap) /\ IsFiniteSet(FreeFrames)
       /\ Cardinality(FreeFrames) \in Nat
  BY <1>12, FS_Subset, FS_CardinalityType DEF Types, FreeFrames
<1>14. Cardinality(g_bitmap') = Cardinality(g_bitmap) + 1
  BY <1>1, <1>2, <1>13, FS_AddElement
<1>15. Cardinality(FreeFrames') = Cardinality(FreeFrames) - 1
  BY <1>1, <1>11, <1>13, FS_RemoveElement
<1>16. Cardinality(FreeFrames') \in Nat
  BY <1>11, <1>13, FS_RemoveElement, FS_CardinalityType
<1>17. /\ g_stats'.used = Cardinality(g_bitmap') /\ g_stats'.free = Cardinality(FreeFrames')
       /\ g_stats' \in [free : Nat, used : Nat]
  <2>1. g_stats.used \in Nat /\ g_stats.used = Cardinality(g_bitmap)
        /\ g_stats.free = Cardinality(FreeFrames)
    BY DEF Types, Backed
  <2>2. QED
    BY <2>1, <1>2, <1>14, <1>15, <1>16
<1>18. QED
  BY <1>2, <1>3, <1>6, <1>9, <1>10, <1>11, <1>17 DEF Backed

-----------------------------------------------------------------------------
(* The initial state, and each step.                                       *)

LEMMA InitIInv == Init => IInv
<1> SUFFICES ASSUME Init PROVE IInv
  OBVIOUS
<1> USE DEF Init
<1>1. call = [Idle EXCEPT !.pc = "boot"]
  OBVIOUS
<1>2. /\ call.pc = "boot" /\ call.added = 0
      /\ call \in [pc : Pcs, owner : Owners \cup {NULL}, size : Nat, added : Nat, new : Nat]
  BY <1>1, Layout DEF Idle, Pcs
<1>3. IsFiniteSet(Frames) /\ reserved \subseteq Frames
  BY FramesAssumption, FS_Interval DEF Frames
<1>4. Cardinality(reserved) \in Nat /\ Cardinality(Frames \ reserved) \in Nat
  BY <1>3, FS_Subset, FS_CardinalityType
<1>5. Types
  <2>1. Nothing \in [ptr : Nat, size : Nat]
    BY Layout DEF Nothing
  <2>2. QED
    BY <1>2, <1>3, <1>4, <2>1 DEF Types
<1>6. Working
  BY <1>2, Layout DEF Working
<1>7. Mapped
  <2>1. 0 \in 0 .. MAX_PAGES /\ 0 <= INITIAL_PAGES /\ PagesMapped(0)
    BY Layout DEF PagesMapped
  <2>2. QED
    BY <2>1 DEF Mapped
<1>8. Backed
  <2>1. {v \in KHEAP_BASE .. g_heap_end - 1 : v % FRAME_SIZE = 0} = {}
    BY Layout
  <2>2. DOMAIN pageOf = {}
    OBVIOUS
  <2>3. QED
    BY <2>1, <2>2 DEF Backed, FreeFrames
<1>9. DOMAIN block = {} /\ \A o \in Owners : held[o] = Nothing
  OBVIOUS
<1>10. QED
  BY <1>2, <1>5, <1>6, <1>7, <1>8, <1>9 DEF IInv

\* The end of what is mapped, and the limit.
LEMMA EndIs ==
    ASSUME Mapped
    PROVE  /\ g_heap_end \in Nat /\ g_heap_limit \in Nat /\ KHEAP_BASE <= g_heap_end
           /\ g_heap_end <= g_heap_limit
<1>1. PICK k \in 0 .. MAX_PAGES : PagesMapped(k)
  BY DEF Mapped
<1>2. FRAME_SIZE * k \in Nat /\ FRAME_SIZE * MAX_PAGES \in Nat
      /\ FRAME_SIZE * k <= FRAME_SIZE * MAX_PAGES
      /\ MAX_PAGES * FRAME_SIZE = FRAME_SIZE * MAX_PAGES
  BY <1>1, Layout, Times
<1>3. QED
  BY <1>1, <1>2, Layout DEF PagesMapped, g_heap_limit

\* A step that takes no frame.
LEMMA MemoryKept ==
    ASSUME Mapped, Backed, UNCHANGED pmm, call'.pc # "boot"
    PROVE  Mapped' /\ Backed' /\ (Full => Full')
<1>1. UNCHANGED <<reserved, g_bitmap, g_stats, pageOf, g_heap_end>>
  BY DEF pmm
<1>2. PICK k \in 0 .. MAX_PAGES : PagesMapped(k)
  BY DEF Mapped
<1>3. Mapped'
  BY <1>1, <1>2 DEF Mapped, PagesMapped
<1>4. Backed' /\ (Full => Full')
  BY <1>1 DEF Backed, Full, FreeFrames
<1>5. QED
  BY <1>3, <1>4

LEMMA BootPageKeeps == IInv /\ BootPage => IInv'
<1> SUFFICES ASSUME IInv, BootPage PROVE IInv'
  OBVIOUS
<1>1. /\ call.pc = "boot" /\ MapNextPage /\ block' = block /\ held' = held /\ call' = call
      /\ g_heap_end < KHEAP_BASE + INITIAL_PAGES * FRAME_SIZE
  BY DEF BootPage
<1>2. PICK k \in 0 .. MAX_PAGES : PagesMapped(k) /\ k <= INITIAL_PAGES
  BY <1>1 DEF IInv, Mapped
<1>3. /\ Backed' /\ PagesMapped(k + 1)'
      /\ g_bitmap' \subseteq Frames /\ g_stats' \in [free : Nat, used : Nat]
  BY <1>1, <1>2, MapNextPageKeeps DEF IInv
<1>4. k < INITIAL_PAGES
  <2>1. FRAME_SIZE * k < FRAME_SIZE * INITIAL_PAGES
    <3>1. FRAME_SIZE * k \in Nat /\ FRAME_SIZE * INITIAL_PAGES \in Nat
          /\ INITIAL_PAGES * FRAME_SIZE = FRAME_SIZE * INITIAL_PAGES
      BY <1>2, Layout, Times
    <3>2. QED
      BY <3>1, <1>1, <1>2, Layout DEF PagesMapped
  <2>2. QED
    BY <2>1, <1>2, Layout, Times
<1>5. Mapped'
  <2>1. k + 1 \in 0 .. MAX_PAGES /\ k + 1 <= INITIAL_PAGES
    BY <1>2, <1>4, Layout
  <2>2. QED
    BY <2>1, <1>3 DEF Mapped
<1>6. Types' /\ Working'
  BY <1>1, <1>3 DEF IInv, Types, Working, MapNextPage
<1>7. QED
  BY <1>1, <1>3, <1>5, <1>6 DEF IInv

LEMMA BootDoneKeeps == IInv /\ BootDone => IInv'
<1> SUFFICES ASSUME IInv, BootDone PROVE IInv'
  OBVIOUS
<1> DEFINE e == [size |-> g_heap_end - KHEAP_BASE - overhead, free |-> TRUE,
                 next |-> NULL, prev |-> NULL]
<1>1. /\ call.pc = "boot" /\ UNCHANGED <<reserved, g_bitmap, g_stats, pageOf, g_heap_end, held>>
      /\ g_heap_end = KHEAP_BASE + INITIAL_PAGES * FRAME_SIZE
      /\ block' = Put(block, KHEAP_BASE, e) /\ call' = Idle
  BY DEF BootDone, pmm
<1>2. /\ FRAME_SIZE * INITIAL_PAGES \in Nat
      /\ INITIAL_PAGES * FRAME_SIZE = FRAME_SIZE * INITIAL_PAGES
      /\ FRAME_SIZE <= FRAME_SIZE * INITIAL_PAGES
      /\ (FRAME_SIZE * INITIAL_PAGES) % 16 = 0 /\ KHEAP_BASE % 16 = 0
  <2>1. INITIAL_PAGES \in Nat /\ 1 <= INITIAL_PAGES /\ FRAME_SIZE * 1 = FRAME_SIZE
    BY Layout
  <2>2. FRAME_SIZE * INITIAL_PAGES \in Nat /\ FRAME_SIZE * 1 <= FRAME_SIZE * INITIAL_PAGES
    BY <2>1, Layout, Times
  <2>3. (FRAME_SIZE * INITIAL_PAGES) % 16 = 0 /\ KHEAP_BASE % 16 = 0
    BY <2>1, PagesAligned
  <2>4. QED
    BY <2>1, <2>2, <2>3, Layout
<1>3. /\ e \in Header /\ e.size = FRAME_SIZE * INITIAL_PAGES - 16 /\ e.next = NULL /\ e.prev = NULL
      /\ e.size % 16 = 0
  BY <1>1, <1>2, Layout DEF Header
<1>4. DOMAIN block = {} /\ \A o \in Owners : held[o] = Nothing
  BY <1>1 DEF IInv
<1> HIDE DEF e
<1>5. DOMAIN block' = {KHEAP_BASE} /\ block'[KHEAP_BASE] = e /\ block' \in [DOMAIN block' -> Header]
  BY <1>1, <1>3, <1>4 DEF Put
<1>6. EndIn(block', KHEAP_BASE) = g_heap_end
  BY <1>1, <1>2, <1>3, <1>5, Layout DEF EndIn
<1>7. g_heap_end \in Nat /\ KHEAP_BASE \in Nat
  BY <1>1, <1>2, Layout
<1>8. Chain(block', g_heap_end)
  BY <1>2, <1>3, <1>5, <1>6, <1>7, Layout DEF Chain
<1>9. End(Tail)' = g_heap_end
  BY <1>7, <1>8, TailIs DEF End, Tail, EndIn
<1>10. FreeApart(block')
  BY <1>3, <1>5 DEF FreeApart
<1>11. call'.pc = "idle" /\ call'.added = 0
       /\ call' \in [pc : Pcs, owner : Owners \cup {NULL}, size : Nat, added : Nat, new : Nat]
  BY <1>1, Layout DEF Idle, Pcs
<1>12. Listed'
  BY <1>1, <1>7, <1>8, <1>9, <1>10, <1>11 DEF Listed, Growth
<1>13. Owned'
  <2>1. InUse' = {}
    BY <1>5 DEF InUse, e
  <2>2. QED
    BY <2>1, <1>1, <1>4, <1>11 DEF Owned
<1>14. Fitting'
  BY <1>11 DEF Fitting
<1>15. Types' /\ Working' /\ Mapped' /\ Backed'
  <2>1. Mapped' /\ Backed'
    BY <1>1, <1>11, MemoryKept DEF IInv, pmm
  <2>2. Types' /\ Working'
    BY <1>1, <1>11, Layout DEF IInv, Types, Working
  <2>3. QED
    BY <2>1, <2>2
<1>16. QED
  BY <1>11, <1>12, <1>13, <1>14, <1>15 DEF IInv

\* A call that begins, or goes on to another place, and no more than that.
LEMMA OnlyTheCall ==
    ASSUME IInv, call.pc # "boot", UNCHANGED <<pmm, block, held>>,
           call' \in [pc : Pcs \ {"boot", "copy"}, owner : Owners \cup {NULL},
                      size : Nat, added : Nat, new : Nat],
           call.pc # "copy", Working',
           Growth' = Growth \/ (Growth' = 0 /\ Full), Fitting'
    PROVE  IInv'
<1>1. block' = block /\ held' = held /\ UNCHANGED <<reserved, g_bitmap, g_stats, g_heap_end>>
  BY DEF pmm
<1>2. call'.pc \in Pcs \ {"boot", "copy"}
  OBVIOUS
<1>3. Mapped' /\ Backed' /\ (Full => Full')
  BY <1>2, MemoryKept DEF IInv
<1>4. Types'
  BY <1>1 DEF IInv, Types
<1>5. Listed'
  <2>1. End(Tail)' = End(Tail)
    BY <1>1 DEF End, Tail
  <2>2. Growth \in Nat /\ g_heap_end \in Nat
    BY EndIs, Layout DEF IInv, Types, Growth
  <2>3. QED
    BY <1>1, <1>3, <2>1, <2>2 DEF IInv, Listed
<1>6. Owned'
  BY <1>1, <1>2 DEF IInv, Owned, InUse
<1>7. QED
  BY <1>2, <1>3, <1>4, <1>5, <1>6 DEF IInv

LEMMA KmallocKeeps ==
    ASSUME IInv, NEW o \in Owners, NEW n \in Requests, Kmalloc(o, n)
    PROVE  IInv'
<1>1. /\ call.pc = "idle" /\ UNCHANGED <<pmm, block, held>>
      /\ call' = [Idle EXCEPT !.pc = "scan", !.owner = o, !.size = n]
  BY DEF Kmalloc
<1>2. /\ call'.pc = "scan" /\ call'.owner = o /\ call'.size = n /\ call'.added = 0
      /\ call' \in [pc : Pcs \ {"boot", "copy"}, owner : Owners \cup {NULL},
                    size : Nat, added : Nat, new : Nat]
  BY <1>1, Layout, RequestsAssumption DEF Idle, Pcs
<1>3. Working' /\ Fitting' /\ Growth' = 0 /\ Growth = 0
  BY <1>1, <1>2, Layout DEF Working, Fitting, Growth
<1>4. QED
  BY <1>1, <1>2, <1>3, OnlyTheCall

LEMMA KreallocMoveKeeps ==
    ASSUME IInv, NEW o \in Owners, NEW n \in Requests, KreallocMove(o, n)
    PROVE  IInv'
<1>1. /\ call.pc = "idle" /\ UNCHANGED <<pmm, block, held>>
      /\ call' = [Idle EXCEPT !.pc = "scan", !.owner = o, !.size = n]
  BY DEF KreallocMove
<1>2. /\ call'.pc = "scan" /\ call'.owner = o /\ call'.size = n /\ call'.added = 0
      /\ call' \in [pc : Pcs \ {"boot", "copy"}, owner : Owners \cup {NULL},
                    size : Nat, added : Nat, new : Nat]
  BY <1>1, Layout, RequestsAssumption DEF Idle, Pcs
<1>3. Working' /\ Fitting' /\ Growth' = 0 /\ Growth = 0
  BY <1>1, <1>2, Layout DEF Working, Fitting, Growth
<1>4. QED
  BY <1>1, <1>2, <1>3, OnlyTheCall

LEMMA ScanMissKeeps == IInv /\ ScanMiss => IInv'
<1> SUFFICES ASSUME IInv, ScanMiss PROVE IInv'
  OBVIOUS
<1>1. /\ call.pc = "scan" /\ Fits(call.size) = {} /\ UNCHANGED <<pmm, block, held>>
      /\ call' = [call EXCEPT !.pc = "grow", !.added = 0]
  BY DEF ScanMiss
<1>2. /\ call'.pc = "grow" /\ call'.owner = call.owner /\ call'.size = call.size /\ call'.added = 0
      /\ call' \in [pc : Pcs \ {"boot", "copy"}, owner : Owners \cup {NULL},
                    size : Nat, added : Nat, new : Nat]
  BY <1>1 DEF IInv, Types, Pcs
<1>3. Working' /\ Growth' = 0 /\ Growth = 0
  BY <1>1, <1>2, Layout DEF IInv, Working, Growth
<1>4. Fitting'
  BY <1>1, <1>2 DEF Fitting, Fits
<1>5. QED
  BY <1>1, <1>2, <1>3, <1>4, OnlyTheCall

LEMMA GrowFailsKeeps == IInv /\ GrowFails => IInv'
<1> SUFFICES ASSUME IInv, GrowFails PROVE IInv'
  OBVIOUS
<1>1. /\ call.pc = "grow" /\ Full /\ UNCHANGED <<pmm, block, held>> /\ call' = Idle
  BY DEF GrowFails, Full
<1>2. /\ call'.pc = "idle" /\ call'.added = 0
      /\ call' \in [pc : Pcs \ {"boot", "copy"}, owner : Owners \cup {NULL},
                    size : Nat, added : Nat, new : Nat]
  BY <1>1, Layout DEF Idle, Pcs
<1>3. Working' /\ Fitting' /\ Growth' = 0
  BY <1>2, Layout DEF Working, Fitting, Growth
<1>4. QED
  BY <1>1, <1>2, <1>3, OnlyTheCall

LEMMA GrowPageKeeps == IInv /\ GrowPage => IInv'
<1> SUFFICES ASSUME IInv, GrowPage PROVE IInv'
  OBVIOUS
<1>1. /\ call.pc = "grow" /\ MapNextPage /\ block' = block /\ held' = held
      /\ g_heap_end + FRAME_SIZE <= g_heap_limit
      /\ call' = [call EXCEPT !.added = @ + FRAME_SIZE]
  BY DEF GrowPage
<1>2. /\ call'.pc = "grow" /\ call'.owner = call.owner /\ call'.size = call.size
      /\ call'.added = call.added + FRAME_SIZE
      /\ call' \in [pc : Pcs, owner : Owners \cup {NULL}, size : Nat, added : Nat, new : Nat]
      /\ call.added \in Nat
  BY <1>1, Layout DEF IInv, Types
<1>3. PICK k \in 0 .. MAX_PAGES : PagesMapped(k)
  BY DEF IInv, Mapped
<1>4. /\ Backed' /\ PagesMapped(k + 1)' /\ g_heap_end' = g_heap_end + FRAME_SIZE
      /\ g_bitmap' \subseteq Frames /\ g_stats' \in [free : Nat, used : Nat]
  BY <1>1, <1>3, MapNextPageKeeps DEF IInv
<1>5. Mapped'
  <2>1. k < MAX_PAGES
    <3>1. FRAME_SIZE * k \in Nat /\ FRAME_SIZE * MAX_PAGES \in Nat
          /\ MAX_PAGES * FRAME_SIZE = FRAME_SIZE * MAX_PAGES
      BY <1>3, Layout, Times
    <3>2. FRAME_SIZE * k < FRAME_SIZE * MAX_PAGES
      BY <3>1, <1>1, <1>3, Layout DEF PagesMapped, g_heap_limit
    <3>3. QED
      BY <3>2, <1>3, Layout, Times
  <2>2. k + 1 \in 0 .. MAX_PAGES
    BY <2>1, <1>3, Layout
  <2>3. QED
    BY <2>2, <1>2, <1>4 DEF Mapped
<1>6. Types' /\ Working'
  <2>1. reserved' = reserved
    BY <1>1 DEF MapNextPage
  <2>2. call'.added % HEAP_ALIGN = 0
    <3>1. call.added % 16 = 0
      BY Layout DEF IInv, Working
    <3>2. QED
      BY <3>1, <1>2, Layout
  <2>3. QED
    BY <2>1, <2>2, <1>1, <1>2, <1>4 DEF IInv, Types, Working
<1>7. Listed'
  <2>1. ~Full
    BY <1>1, EndIs, Layout DEF IInv, Full, MapNextPage
  <2>2. End(Tail)' = End(Tail) /\ End(Tail) \in Nat /\ g_heap_end \in Nat
    BY <1>1, EndIs DEF End, Tail, IInv, Listed
  <2>3. Growth' = Growth + FRAME_SIZE /\ Growth \in Nat
    BY <1>1, <1>2 DEF Growth
  <2>4. End(Tail) + Growth = g_heap_end
    BY <1>1, <2>1 DEF IInv, Listed
  <2>5. End(Tail)' + Growth' = g_heap_end'
    BY <2>2, <2>3, <2>4, <1>4, Layout
  <2>6. g_heap_end' \in Nat
    BY <2>2, <1>4, Layout
  <2>7. QED
    BY <1>1, <2>2, <2>5, <2>6 DEF IInv, Listed
<1>8. Owned'
  BY <1>1, <1>2 DEF IInv, Owned, InUse
<1>9. Fitting'
  BY <1>1, <1>2 DEF IInv, Fitting, Fits
<1>10. QED
  BY <1>1, <1>2, <1>4, <1>5, <1>6, <1>7, <1>8, <1>9 DEF IInv

\* A step whose list reaches as far as the one before, with memory left as it is.
LEMMA ListKept ==
    ASSUME IInv, call.pc # "boot", UNCHANGED pmm, call'.pc # "boot", Growth' = Growth,
           Chain(block', End(Tail)), FreeApart(block')
    PROVE  Listed'
<1>1. End(Tail) \in Nat
  BY DEF IInv, Listed
<1>2. End(Tail)' = End(Tail)
  BY <1>1, TailIs DEF End, Tail, EndIn
<1>3. Full => Full'
  BY MemoryKept DEF IInv
<1>4. g_heap_end' = g_heap_end
  BY DEF pmm
<1>5. QED
  BY <1>1, <1>2, <1>3, <1>4 DEF IInv, Listed

\* The block that the first fit finds.
LEMMA FirstFitIs ==
    ASSUME IInv, call.pc # "boot", NEW n, Fits(n) # {}
    PROVE  FirstFit(n) \in Fits(n)
<1>1. Fits(n) \in SUBSET Nat
  BY DEF IInv, Listed, Chain, Fits
<1>2. \E b \in Fits(n) : \A c \in Fits(n) : b <= c
  BY <1>1, LeastPosition, Zenon
<1>3. QED
  BY <1>2 DEF FirstFit

\* Where the header of a pointer is.
LEMMA HeaderIs ==
    ASSUME IInv, call.pc # "boot", NEW b \in DOMAIN block
    PROVE  /\ b \in Nat /\ b > 0 /\ b + overhead \in Nat /\ b + overhead # NULL
           /\ (b + overhead) - overhead = b /\ b % 16 = 0 /\ (b + overhead) % 16 = 0
           /\ block[b].size \in Nat /\ block[b].size % 16 = 0
<1>1. End(Tail) \in Nat /\ Chain(block, End(Tail))
  BY DEF IInv, Listed
<1>2. b \in Nat /\ b # NULL /\ b % 16 = 0 /\ block[b].size \in Nat /\ block[b].size % 16 = 0
  BY <1>1, BlockFacts
<1>3. b > 0
  BY <1>2, Layout
<1>4. (b + 16) % 16 = 0
  BY <1>2
<1>5. overhead = 16 /\ NULL = 0
  BY Layout
<1>6. b + overhead = b + 16 /\ b + overhead # NULL /\ (b + overhead) - overhead = b
  BY <1>2, <1>3, <1>5
<1>7. QED
  BY <1>2, <1>3, <1>4, <1>6

LEMMA ScanHitKeeps == IInv /\ ScanHit => IInv'
<1> SUFFICES ASSUME IInv, ScanHit PROVE IInv'
  OBVIOUS
<1> DEFINE b == FirstFit(call.size)
           p == b + overhead
           o == call.owner
           w == Wanted(call.size)
<1>1. /\ call.pc = "scan" /\ Fits(call.size) # {} /\ UNCHANGED pmm
      /\ block' = [Split(block, b, w) EXCEPT ![b].free = FALSE]
      /\ \/ /\ held[o] = Nothing
            /\ held' = [held EXCEPT ![o] = [ptr |-> p, size |-> call.size]]
            /\ call' = Idle
         \/ /\ held[o] # Nothing
            /\ call' = [call EXCEPT !.pc = "copy", !.new = p]
            /\ held' = held
  BY DEF ScanHit
<1>2. /\ o \in Owners /\ call.size \in Requests /\ call.size \in Nat
      /\ held \in [Owners -> [ptr : Nat, size : Nat]]
  BY <1>1 DEF IInv, Types, Working
<1>3. b \in DOMAIN block /\ block[b].free /\ block[b].size >= w
  BY <1>1, FirstFitIs DEF Fits
<1>4. w \in Nat /\ w >= call.size /\ w % HEAP_ALIGN = 0
  BY <1>2, WantedIs, Layout
<1> HIDE DEF b, w, o
<1>5. b \in Nat /\ p \in Nat /\ p - overhead = b /\ p # NULL /\ block[b].size \in Nat
  <2>1. call.pc # "boot"
    BY <1>1
  <2>2. /\ b \in Nat /\ b + overhead \in Nat /\ b + overhead # NULL
        /\ (b + overhead) - overhead = b /\ block[b].size \in Nat
    BY <2>1, <1>3, HeaderIs
  <2>3. QED
    BY <2>2
<1>6. /\ Chain(block', End(Tail)) /\ FreeApart(block')
      /\ InUse' = InUse \cup {b}
      /\ block'[b].size >= w
      /\ \A x \in InUse : block'[x].size = block[x].size
  <2> DEFINE g == [Split(block, b, w) EXCEPT ![b].free = FALSE]
  <2>1. End(Tail) \in Nat /\ Chain(block, End(Tail)) /\ FreeApart(block)
    BY <1>1 DEF IInv, Listed
  <2>2. block' = g
    BY <1>1
  <2>3. /\ Chain(g, End(Tail)) /\ FreeApart(g)
        /\ UsedIn(g) = UsedIn(block) \cup {b}
        /\ g[b].size >= w
        /\ \A x \in UsedIn(block) : g[x].size = block[x].size
    BY <2>1, <1>3, <1>4, TakeIs
  <2> HIDE DEF g
  <2>4. InUse = UsedIn(block) /\ InUse' = UsedIn(g)
    BY <2>2 DEF InUse, UsedIn
  <2>5. QED
    BY <2>2, <2>3, <2>4
<1> HIDE DEF p
<1>7. /\ \A x \in InUse : \E q \in Owners : held[q] # Nothing /\ x = held[q].ptr - overhead
      /\ \A q \in Owners : held[q] # Nothing => held[q].ptr - overhead \in InUse /\ held[q].ptr # p
      /\ \A q \in Owners : held[q].ptr # p
  <2>1. b \notin InUse
    BY <1>3 DEF InUse
  <2>2. Owned
    BY <1>1 DEF IInv
  <2>3. Nothing.ptr = NULL
    BY DEF Nothing
  <2>4. QED
    BY <2>1, <2>2, <2>3, <1>1, <1>5 DEF Owned
<1>8. block'[b].size >= call.size
  <2>1. block'[b].size \in Nat
    BY <1>6, BlockFacts DEF IInv, Listed, Chain, InUse, Header
  <2>2. QED
    BY <2>1, <1>2, <1>4, <1>6
<1>9. CASE held[o] = Nothing
  <2>1. held' = [held EXCEPT ![o] = [ptr |-> p, size |-> call.size]] /\ call' = Idle
    BY <1>1, <1>9
  <2>2. /\ call'.pc = "idle" /\ call'.added = 0
        /\ call' \in [pc : Pcs, owner : Owners \cup {NULL}, size : Nat, added : Nat, new : Nat]
    BY <2>1, Layout DEF Idle, Pcs
  <2>3. /\ held'[o] = [ptr |-> p, size |-> call.size] /\ held'[o] # Nothing
        /\ \A q \in Owners \ {o} : held'[q] = held[q]
        /\ held' \in [Owners -> [ptr : Nat, size : Nat]]
    BY <2>1, <1>2, <1>5 DEF Nothing
  <2>4. Owned'
    <3>1. \A x \in InUse' : \E q \in Owners : held'[q] # Nothing /\ x = held'[q].ptr - overhead
      <4> SUFFICES ASSUME NEW x \in InUse'
                   PROVE  \E q \in Owners : held'[q] # Nothing /\ x = held'[q].ptr - overhead
        OBVIOUS
      <4>1. CASE x = b
        BY <4>1, <2>3, <1>2, <1>5
      <4>2. CASE x # b
        <5>1. PICK q \in Owners : held[q] # Nothing /\ x = held[q].ptr - overhead
          BY <4>2, <1>6, <1>7
        <5>2. q # o
          BY <5>1, <1>9
        <5>3. QED
          BY <5>1, <5>2, <2>3
      <4>3. QED
        BY <4>1, <4>2
    <3>2. ASSUME NEW q \in Owners, held'[q] # Nothing
          PROVE  /\ held'[q].ptr - overhead \in InUse'
                 /\ block'[held'[q].ptr - overhead].size >= held'[q].size
                 /\ held'[q].size \in Requests
                 /\ \A r \in Owners \ {q} : held'[r].ptr # held'[q].ptr
      <4>1. CASE q = o
        BY <4>1, <2>3, <1>2, <1>5, <1>6, <1>7, <1>8
      <4>2. CASE q # o
        <5>1. held'[q] = held[q]
          BY <4>2, <2>3
        <5>2. /\ held[q].ptr - overhead \in InUse
              /\ block[held[q].ptr - overhead].size >= held[q].size
              /\ held[q].size \in Requests
              /\ \A r \in Owners \ {q} : held[r].ptr # held[q].ptr
          BY <3>2, <5>1, <1>1 DEF IInv, Owned
        <5>3. QED
          BY <4>2, <5>1, <5>2, <2>3, <1>6, <1>7
      <4>3. QED
        BY <4>1, <4>2
    <3>3. QED
      BY <3>1, <3>2, <2>2 DEF Owned
  <2>5. Growth' = Growth /\ Fitting' /\ Working'
    BY <1>1, <2>2, Layout DEF Growth, Fitting, Working
  <2>6. Listed' /\ Mapped' /\ Backed'
    BY <1>1, <1>6, <2>2, <2>5, ListKept, MemoryKept DEF IInv
  <2>7. Types'
    BY <1>1, <2>2, <2>3 DEF IInv, Types, pmm
  <2>8. QED
    BY <2>2, <2>4, <2>5, <2>6, <2>7 DEF IInv
<1>10. CASE held[o] # Nothing
  <2>1. call' = [call EXCEPT !.pc = "copy", !.new = p] /\ held' = held
    BY <1>1, <1>10
  <2>2. /\ call'.pc = "copy" /\ call'.new = p /\ call'.owner = o /\ call'.size = call.size
        /\ call'.added = call.added
        /\ call' \in [pc : Pcs, owner : Owners \cup {NULL}, size : Nat, added : Nat, new : Nat]
    BY <2>1, <1>5 DEF IInv, Types, Pcs, o
  <2>3. Owned'
    <3>1. \A x \in InUse' :
             \/ \E q \in Owners : held'[q] # Nothing /\ x = held'[q].ptr - overhead
             \/ call'.pc = "copy" /\ x = call'.new - overhead
      BY <2>1, <2>2, <1>5, <1>6, <1>7
    <3>2. ASSUME NEW q \in Owners, held'[q] # Nothing
          PROVE  /\ held'[q].ptr - overhead \in InUse'
                 /\ block'[held'[q].ptr - overhead].size >= held'[q].size
                 /\ held'[q].size \in Requests
                 /\ \A r \in Owners \ {q} : held'[r].ptr # held'[q].ptr
      <4>1. /\ held[q].ptr - overhead \in InUse
            /\ block[held[q].ptr - overhead].size >= held[q].size
            /\ held[q].size \in Requests
            /\ \A r \in Owners \ {q} : held[r].ptr # held[q].ptr
        BY <3>2, <2>1, <1>1 DEF IInv, Owned
      <4>2. QED
        BY <4>1, <2>1, <1>6
    <3>3. /\ held'[call'.owner] # Nothing
          /\ call'.new - overhead \in InUse'
          /\ block'[call'.new - overhead].size >= call'.size
          /\ \A q \in Owners : held'[q].ptr # call'.new
      BY <2>1, <2>2, <1>5, <1>6, <1>7, <1>8, <1>10
    <3>4. QED
      BY <3>1, <3>2, <3>3 DEF Owned
  <2>4. Growth' = Growth /\ Fitting' /\ Working'
    BY <1>1, <1>2, <2>2 DEF IInv, Growth, Fitting, Working
  <2>5. Listed' /\ Mapped' /\ Backed'
    BY <1>1, <1>6, <2>2, <2>4, ListKept, MemoryKept DEF IInv
  <2>6. Types'
    BY <1>1, <2>1, <2>2 DEF IInv, Types, pmm
  <2>7. QED
    BY <2>2, <2>3, <2>4, <2>5, <2>6 DEF IInv
<1>11. QED
  BY <1>9, <1>10

LEMMA GrowDoneKeeps == IInv /\ GrowDone => IInv'
<1> SUFFICES ASSUME IInv, GrowDone PROVE IInv'
  OBVIOUS
<1> DEFINE m == call.added
<1>1. /\ call.pc = "grow" /\ m >= Needed(call.size) /\ UNCHANGED pmm /\ held' = held
      /\ block' = Extended(block, Tail, m)
      /\ call' = [call EXCEPT !.pc = "scan"]
  BY DEF GrowDone, Extended
<1>2. /\ m \in Nat /\ m % 16 = 0 /\ call.size \in Nat /\ call.owner \in Owners
      /\ call.size \in Requests
  BY <1>1, Layout DEF IInv, Types, Working
<1>3. /\ Needed(call.size) \in Nat /\ Wanted(call.size) \in Nat /\ m >= 16
      /\ m >= Wanted(call.size) + 16
  BY <1>1, <1>2, NeededIs, WantedIs
<1>4. /\ call'.pc = "scan" /\ call'.owner = call.owner /\ call'.size = call.size
      /\ call'.added = m
      /\ call' \in [pc : Pcs, owner : Owners \cup {NULL}, size : Nat, added : Nat, new : Nat]
  BY <1>1 DEF IInv, Types, Pcs
<1> DEFINE top == End(Tail)
<1>5. top \in Nat /\ Chain(block, top) /\ FreeApart(block)
  BY <1>1 DEF IInv, Listed
<1>6. Tail \in DOMAIN block /\ block[Tail].next = NULL
  BY <1>5, TailIs DEF Tail
<1> HIDE DEF m, top
<1>7. /\ Chain(block', top + m) /\ FreeApart(block')
      /\ UsedIn(block') = UsedIn(block)
      /\ \A x \in UsedIn(block) : block'[x].size = block[x].size
      /\ \E x \in DOMAIN block' : block'[x].free /\ block'[x].size >= Wanted(call.size)
  <2>1. CASE block[Tail].free
    <3>1. /\ Chain(block', top + m) /\ FreeApart(block')
          /\ UsedIn(block') = UsedIn(block)
          /\ \A x \in UsedIn(block) : block'[x].size = block[x].size
          /\ Tail \in DOMAIN block' /\ block'[Tail].free /\ block'[Tail].size >= m
      BY <2>1, <1>1, <1>2, <1>5, <1>6, WidenIs
    <3>2. block'[Tail].size \in Nat
      BY <3>1 DEF Chain, Header
    <3>3. QED
      BY <3>1, <3>2, <1>2, <1>3
  <2>2. CASE ~block[Tail].free
    <3>1. /\ Chain(block', top + m) /\ FreeApart(block')
          /\ UsedIn(block') = UsedIn(block)
          /\ \A x \in UsedIn(block) : block'[x].size = block[x].size
          /\ top \in DOMAIN block' /\ block'[top].free /\ block'[top].size = m - 16
      BY <1>1, <2>2, <1>2, <1>3, <1>5, <1>6, LengthenIs
    <3>2. QED
      BY <3>1, <1>2, <1>3
  <2>3. QED
    BY <2>1, <2>2
<1>8. Listed'
  <2>1. top + m \in Nat /\ End(Tail)' = top + m
    BY <1>2, <1>5, <1>7, TailIs DEF End, Tail, EndIn
  <2>2. Growth = m /\ Growth' = 0
    BY <1>1, <1>4 DEF Growth, m
  <2>3. g_heap_end' = g_heap_end /\ (Full => Full')
    BY <1>1, <1>4, MemoryKept DEF IInv, pmm
  <2>4. QED
    BY <1>1, <1>7, <2>1, <2>2, <2>3 DEF IInv, Listed, top
<1>9. Owned'
  BY <1>1, <1>4, <1>7 DEF IInv, Owned, InUse, UsedIn
<1>10. Fitting'
  BY <1>4, <1>7 DEF Fitting, Fits
<1>11. Types' /\ Working'
  BY <1>1, <1>2, <1>4 DEF IInv, Types, Working, pmm
<1>12. Mapped' /\ Backed'
  BY <1>1, <1>4, MemoryKept DEF IInv
<1>13. QED
  BY <1>4, <1>8, <1>9, <1>10, <1>11, <1>12 DEF IInv

\* kfree of the block b, which nobody is to hold afterwards.
LEMMA ReleasedIs ==
    ASSUME IInv, call.pc # "boot", NEW b \in InUse, block' = Release(block, b),
           UNCHANGED pmm, call'.pc # "boot", Growth' = Growth
    PROVE  /\ Listed' /\ Mapped' /\ Backed' /\ InUse' = InUse \ {b}
           /\ \A x \in InUse' : block'[x].size = block[x].size
<1> DEFINE g == Release(block, b)
<1>1. End(Tail) \in Nat /\ Chain(block, End(Tail)) /\ FreeApart(block) /\ InUse = UsedIn(block)
  BY DEF IInv, Listed, InUse, UsedIn
<1>2. b \in UsedIn(block)
  BY <1>1
<1>3. /\ Chain(g, End(Tail)) /\ FreeApart(g)
      /\ UsedIn(g) = UsedIn(block) \ {b}
      /\ \A x \in UsedIn(g) : g[x].size = block[x].size
  BY <1>1, <1>2, ReleaseIs
<1>4. block' = g
  OBVIOUS
<1> HIDE DEF g
<1>5. InUse' = UsedIn(g)
  BY <1>4 DEF InUse, UsedIn
<1>6. Listed'
  BY <1>3, <1>4, ListKept
<1>7. Mapped' /\ Backed'
  BY MemoryKept DEF IInv
<1>8. QED
  BY <1>1, <1>3, <1>4, <1>5, <1>6, <1>7

\* What the pointer of an owner is good for.
LEMMA PointerIs ==
    ASSUME IInv, call.pc # "boot", NEW o \in Owners, held[o] # Nothing
    PROVE  /\ held[o].ptr - overhead \in InUse /\ held[o].ptr - overhead \in DOMAIN block
           /\ held[o].ptr \in Nat /\ held[o].ptr # NULL
           /\ block[held[o].ptr - overhead].size >= held[o].size
           /\ held[o].size \in Requests
           /\ \A q \in Owners \ {o} : held[q].ptr # held[o].ptr
<1>1. Owned /\ held[o].ptr \in Nat
  BY DEF IInv, Types
<1>2. held[o].ptr - overhead \in InUse /\ held[o].ptr - overhead \in DOMAIN block
  BY <1>1 DEF Owned, InUse
<1>3. held[o].ptr # NULL
  <2>1. held[o].ptr - overhead \in Nat /\ held[o].ptr - overhead > 0
    BY <1>2, HeaderIs
  <2>2. QED
    BY <1>1, <2>1, Layout
<1>4. QED
  BY <1>1, <1>2, <1>3 DEF Owned

LEMMA KfreeKeeps ==
    ASSUME IInv, NEW o \in Owners, Kfree(o)
    PROVE  IInv'
<1> DEFINE b == held[o].ptr - overhead
<1>1. /\ call.pc = "idle" /\ held[o] # Nothing /\ block' = Release(block, b)
      /\ held' = [held EXCEPT ![o] = Nothing] /\ UNCHANGED pmm /\ call' = call
  BY DEF Kfree
<1>2. /\ b \in InUse /\ held[o].ptr \in Nat
      /\ \A q \in Owners \ {o} : held[q].ptr # held[o].ptr
  BY <1>1, PointerIs
<1> HIDE DEF b
<1>3. Growth' = Growth /\ call'.pc # "boot" /\ call.pc # "boot"
  BY <1>1 DEF Growth
<1>4. /\ Listed' /\ Mapped' /\ Backed' /\ InUse' = InUse \ {b}
      /\ \A x \in InUse' : block'[x].size = block[x].size
  BY <1>1, <1>2, <1>3, ReleasedIs
<1>5. held \in [Owners -> [ptr : Nat, size : Nat]] /\ Nothing \in [ptr : Nat, size : Nat]
  BY Layout DEF IInv, Types, Nothing
<1>6. /\ held'[o] = Nothing /\ \A q \in Owners \ {o} : held'[q] = held[q]
      /\ held' \in [Owners -> [ptr : Nat, size : Nat]]
  BY <1>1, <1>5
<1>7. Owned'
  <2>1. ASSUME NEW x \in InUse'
        PROVE  \E q \in Owners : held'[q] # Nothing /\ x = held'[q].ptr - overhead
    <3>1. PICK q \in Owners : held[q] # Nothing /\ x = held[q].ptr - overhead
      BY <1>1, <1>4 DEF IInv, Owned
    <3>2. q # o
      BY <3>1, <1>4 DEF b
    <3>3. QED
      BY <3>1, <3>2, <1>6
  <2>2. ASSUME NEW q \in Owners, held'[q] # Nothing
        PROVE  /\ held'[q].ptr - overhead \in InUse'
               /\ block'[held'[q].ptr - overhead].size >= held'[q].size
               /\ held'[q].size \in Requests
               /\ \A r \in Owners \ {q} : held'[r].ptr # held'[q].ptr
    <3>1. q # o /\ held'[q] = held[q]
      BY <2>2, <1>6
    <3>2. /\ held[q].ptr - overhead \in InUse /\ held[q].ptr \in Nat /\ held[q].ptr # NULL
          /\ block[held[q].ptr - overhead].size >= held[q].size
          /\ held[q].size \in Requests
          /\ \A r \in Owners \ {q} : held[r].ptr # held[q].ptr
      BY <2>2, <3>1, <1>3, PointerIs
    <3>3. held[q].ptr - overhead # b
      BY <3>1, <3>2, <1>2, Layout DEF b
    <3>4. \A r \in Owners \ {q} : held'[r].ptr # held[q].ptr
      <4>1. Nothing.ptr = NULL
        BY DEF Nothing
      <4>2. QED
        BY <4>1, <3>2, <1>6
    <3>5. QED
      BY <3>1, <3>2, <3>3, <3>4, <1>4
  <2>3. QED
    BY <2>1, <2>2, <1>1 DEF Owned
<1>8. Fitting' /\ Working' /\ Types'
  BY <1>1, <1>6 DEF IInv, Types, Working, Fitting, pmm
<1>9. QED
  BY <1>3, <1>4, <1>7, <1>8 DEF IInv

LEMMA KreallocInPlaceKeeps ==
    ASSUME IInv, NEW o \in Owners, NEW n \in Requests, KreallocInPlace(o, n)
    PROVE  IInv'
<1>1. /\ call.pc = "idle" /\ held[o] # Nothing /\ block[held[o].ptr - overhead].size >= n
      /\ held' = [held EXCEPT ![o].size = n] /\ UNCHANGED <<pmm, block, call>>
  BY DEF KreallocInPlace
<1>2. n \in Nat /\ n # 0
  BY RequestsAssumption
<1>3. held \in [Owners -> [ptr : Nat, size : Nat]]
  BY DEF IInv, Types
<1>4. /\ held'[o].ptr = held[o].ptr /\ held'[o].size = n /\ held'[o] # Nothing
      /\ \A q \in Owners \ {o} : held'[q] = held[q]
      /\ \A q \in Owners : held'[q].ptr = held[q].ptr
      /\ held' \in [Owners -> [ptr : Nat, size : Nat]]
  BY <1>1, <1>2, <1>3 DEF Nothing
<1>5. Owned'
  <2>1. InUse' = InUse /\ block' = block /\ call'.pc = "idle"
    BY <1>1 DEF InUse
  <2>2. Owned
    BY <1>1 DEF IInv
  <2>3. \A x \in InUse' : \E q \in Owners : held'[q] # Nothing /\ x = held'[q].ptr - overhead
    BY <2>1, <2>2, <1>1, <1>4 DEF Owned
  <2>4. ASSUME NEW q \in Owners, held'[q] # Nothing
        PROVE  /\ held'[q].ptr - overhead \in InUse'
               /\ block'[held'[q].ptr - overhead].size >= held'[q].size
               /\ held'[q].size \in Requests
               /\ \A r \in Owners \ {q} : held'[r].ptr # held'[q].ptr
    <3>1. held[q] # Nothing
      BY <2>4, <1>1, <1>4
    <3>2. /\ held[q].ptr - overhead \in InUse
          /\ block[held[q].ptr - overhead].size >= held[q].size
          /\ held[q].size \in Requests
          /\ \A r \in Owners \ {q} : held[r].ptr # held[q].ptr
      BY <3>1, <2>2 DEF Owned
    <3>3. QED
      BY <3>2, <2>1, <1>1, <1>4
  <2>5. QED
    BY <2>1, <2>3, <2>4 DEF Owned
<1>6. Listed' /\ Mapped' /\ Backed'
  <2>1. Growth' = Growth /\ call'.pc # "boot" /\ call.pc # "boot" /\ block' = block
    BY <1>1 DEF Growth
  <2>2. Chain(block, End(Tail)) /\ FreeApart(block)
    BY <1>1 DEF IInv, Listed
  <2>3. QED
    BY <2>1, <2>2, <1>1, ListKept, MemoryKept DEF IInv
<1>7. Types' /\ Working' /\ Fitting'
  BY <1>1, <1>4 DEF IInv, Types, Working, Fitting, pmm
<1>8. QED
  BY <1>1, <1>5, <1>6, <1>7 DEF IInv

LEMMA KreallocDoneKeeps == IInv /\ KreallocDone => IInv'
<1> SUFFICES ASSUME IInv, KreallocDone PROVE IInv'
  OBVIOUS
<1> DEFINE o == call.owner
           b == held[o].ptr - overhead
           p == call.new
<1>1. /\ call.pc = "copy" /\ block' = Release(block, b) /\ UNCHANGED pmm /\ call' = Idle
      /\ held' = [held EXCEPT ![o] = [ptr |-> p, size |-> call.size]]
  BY DEF KreallocDone
<1>2. /\ o \in Owners /\ p \in Nat /\ call.size \in Requests /\ call.size \in Nat
      /\ held \in [Owners -> [ptr : Nat, size : Nat]]
  BY <1>1 DEF IInv, Types, Working
<1>3. /\ held[o] # Nothing /\ p - overhead \in InUse
      /\ block[p - overhead].size >= call.size
      /\ \A q \in Owners : held[q].ptr # p
  BY <1>1 DEF IInv, Owned
<1>4. /\ b \in InUse /\ held[o].ptr \in Nat
      /\ \A q \in Owners \ {o} : held[q].ptr # held[o].ptr
  BY <1>1, <1>2, <1>3, PointerIs
<1>5. b # p - overhead
  BY <1>2, <1>3, <1>4, Layout
<1> HIDE DEF b, o, p
<1>6. call'.pc = "idle" /\ call'.added = 0 /\ Growth' = Growth /\ call.pc # "boot"
      /\ call' \in [pc : Pcs, owner : Owners \cup {NULL}, size : Nat, added : Nat, new : Nat]
  BY <1>1, Layout DEF Growth, Idle, Pcs
<1>7. /\ Listed' /\ Mapped' /\ Backed' /\ InUse' = InUse \ {b}
      /\ \A x \in InUse' : block'[x].size = block[x].size
  BY <1>1, <1>4, <1>6, ReleasedIs
<1>8. p # NULL
  <2>1. p - overhead \in DOMAIN block
    BY <1>3 DEF InUse
  <2>2. p - overhead \in Nat /\ p - overhead > 0
    BY <2>1, <1>6, HeaderIs
  <2>3. QED
    BY <2>2, <1>2, Layout
<1>9. /\ held'[o] = [ptr |-> p, size |-> call.size] /\ held'[o] # Nothing
      /\ \A q \in Owners \ {o} : held'[q] = held[q]
      /\ held' \in [Owners -> [ptr : Nat, size : Nat]]
  BY <1>1, <1>2, <1>8 DEF Nothing
<1>10. Owned'
  <2>1. ASSUME NEW x \in InUse'
        PROVE  \E q \in Owners : held'[q] # Nothing /\ x = held'[q].ptr - overhead
    <3>1. CASE x = p - overhead
      BY <3>1, <1>2, <1>9
    <3>2. CASE x # p - overhead
      <4>1. PICK q \in Owners : held[q] # Nothing /\ x = held[q].ptr - overhead
        BY <3>2, <1>1, <1>7 DEF IInv, Owned, p
      <4>2. q # o
        BY <4>1, <1>7 DEF b
      <4>3. QED
        BY <4>1, <4>2, <1>9
    <3>3. QED
      BY <3>1, <3>2
  <2>2. ASSUME NEW q \in Owners, held'[q] # Nothing
        PROVE  /\ held'[q].ptr - overhead \in InUse'
               /\ block'[held'[q].ptr - overhead].size >= held'[q].size
               /\ held'[q].size \in Requests
               /\ \A r \in Owners \ {q} : held'[r].ptr # held'[q].ptr
    <3>1. CASE q = o
      <4>1. p - overhead \in InUse' /\ block'[p - overhead].size = block[p - overhead].size
        BY <1>3, <1>5, <1>7
      <4>2. QED
        BY <3>1, <4>1, <1>2, <1>3, <1>9
    <3>2. CASE q # o
      <4>1. held'[q] = held[q]
        BY <3>2, <1>9
      <4>2. /\ held[q].ptr - overhead \in InUse /\ held[q].ptr \in Nat
            /\ block[held[q].ptr - overhead].size >= held[q].size
            /\ held[q].size \in Requests
            /\ \A r \in Owners \ {q} : held[r].ptr # held[q].ptr
        BY <2>2, <4>1, <1>6, PointerIs
      <4>3. held[q].ptr - overhead # b
        BY <3>2, <4>2, <1>4, Layout DEF b
      <4>4. \A r \in Owners \ {q} : held'[r].ptr # held[q].ptr
        BY <4>2, <1>3, <1>9
      <4>5. QED
        BY <4>1, <4>2, <4>3, <4>4, <1>7
    <3>3. QED
      BY <3>1, <3>2
  <2>3. QED
    BY <2>1, <2>2, <1>6 DEF Owned
<1>11. Fitting' /\ Working'
  BY <1>6, Layout DEF Working, Fitting
<1>12. Types'
  BY <1>1, <1>6, <1>9 DEF IInv, Types, pmm
<1>13. QED
  BY <1>6, <1>7, <1>10, <1>11, <1>12 DEF IInv

LEMMA StutterKeeps == IInv /\ UNCHANGED vars => IInv'
<1> SUFFICES ASSUME IInv, UNCHANGED vars PROVE IInv'
  OBVIOUS
<1> USE DEF vars, pmm
<1>1. Types' /\ Working' /\ Mapped' /\ Backed'
  BY DEF IInv, Types, Working, Mapped, PagesMapped, Backed, FreeFrames
<1>2. Listed => Listed'
  BY DEF Listed, End, Tail, Growth, Full, FreeFrames
<1>3. Owned => Owned'
  BY DEF Owned, InUse
<1>4. Fitting => Fitting'
  BY DEF Fitting, Fits
<1>5. QED
  BY <1>1, <1>2, <1>3, <1>4 DEF IInv

LEMMA InductiveStep == IInv /\ [Next]_vars => IInv'
<1> SUFFICES ASSUME IInv, [Next]_vars PROVE IInv'
  OBVIOUS
<1>1. CASE BootPage
  BY <1>1, BootPageKeeps
<1>2. CASE BootDone
  BY <1>2, BootDoneKeeps
<1>3. CASE InCall
  BY <1>3, ScanHitKeeps, ScanMissKeeps, GrowPageKeeps, GrowFailsKeeps, GrowDoneKeeps,
     KreallocDoneKeeps DEF InCall
<1>4. CASE \E o \in Owners : Kfree(o)
  BY <1>4, KfreeKeeps
<1>5. CASE \E o \in Owners, n \in Requests :
              Kmalloc(o, n) \/ KreallocInPlace(o, n) \/ KreallocMove(o, n)
  BY <1>5, KmallocKeeps, KreallocInPlaceKeeps, KreallocMoveKeeps
<1>6. CASE UNCHANGED vars
  BY <1>6, StutterKeeps
<1>7. QED
  BY <1>1, <1>2, <1>3, <1>4, <1>5, <1>6 DEF Next

-----------------------------------------------------------------------------
(* The theorems.                                                           *)

\* In every state the program reaches, the blocks fill the heap up to what is
\* mapped, the callers hold the blocks in use, and the pages have their frames.
THEOREM Invariance == Spec => []IInv
BY InitIInv, InductiveStep, PTL DEF Spec

\* Every address in a header, every frame and every counter has its type; no header
\* and no mapped page lies outside the heap.
THEOREM TypeCorrect == Spec => []TypeOK
<1>1. IInv => TypeOK
  <2> SUFFICES ASSUME IInv PROVE TypeOK
    OBVIOUS
  <2>1. /\ g_heap_end \in Nat /\ g_heap_limit \in Nat /\ KHEAP_BASE \in Nat
        /\ KHEAP_BASE <= g_heap_end /\ g_heap_end <= g_heap_limit
    BY EndIs, Layout DEF IInv
  <2>2. g_heap_end \in Addresses
    BY <2>1 DEF Addresses
  <2>3. DOMAIN pageOf \subseteq Addresses /\ \A v \in DOMAIN pageOf : pageOf[v] \in Frames
    <3>1. DOMAIN pageOf = {v \in KHEAP_BASE .. g_heap_end - 1 : v % FRAME_SIZE = 0}
          /\ g_bitmap = reserved \cup {pageOf[v] : v \in DOMAIN pageOf}
          /\ g_bitmap \subseteq Frames
      BY DEF IInv, Backed, Types
    <3>2. DOMAIN pageOf \subseteq Addresses
      BY <3>1, <2>1 DEF Addresses
    <3>3. QED
      BY <3>1, <3>2
  <2>4. DOMAIN block \subseteq Addresses /\ \A b \in DOMAIN block : block[b] \in Header
    <3>1. CASE call.pc = "boot"
      BY <3>1 DEF IInv
    <3>2. CASE call.pc # "boot"
      <4>1. /\ Chain(block, End(Tail)) /\ End(Tail) \in Nat
            /\ End(Tail) + Growth <= g_heap_end /\ Growth \in Nat
        BY <3>2, Layout DEF IInv, Listed, Growth, Types
      <4>2. ASSUME NEW b \in DOMAIN block
            PROVE  b \in Addresses /\ block[b] \in Header
        <5>1. /\ b \in Nat /\ KHEAP_BASE <= b /\ block[b] \in Header
              /\ EndIn(block, b) <= End(Tail) /\ b < EndIn(block, b) /\ EndIn(block, b) \in Nat
          BY <4>1, BlockFacts DEF Chain
        <5>2. QED
          BY <5>1, <4>1, <2>1 DEF Addresses
      <4>3. QED
        BY <4>2
    <3>3. QED
      BY <3>1, <3>2
  <2>5. QED
    BY <2>2, <2>3, <2>4 DEF IInv, Types, TypeOK, Header, Pcs
<1>2. QED
  BY <1>1, Invariance, PTL

\* Whatever is split, merged and grown, the blocks lie one behind the other without
\* gaps, linked in both directions, and no two free blocks are neighbours.
THEOREM WellLinkedAlways == Spec => []WellLinked
<1>1. IInv => WellLinked
  <2> SUFFICES ASSUME IInv, call.pc # "boot"
               PROVE  /\ KHEAP_BASE \in DOMAIN block /\ block[KHEAP_BASE].prev = NULL
                      /\ \A b \in DOMAIN block : Linked(b) /\ Coalesced(b)
                      /\ \A b, c \in DOMAIN block : b < c => End(b) <= c
    BY DEF WellLinked
  <2>1. /\ Chain(block, End(Tail)) /\ End(Tail) \in Nat /\ FreeApart(block)
        /\ End(Tail) + Growth <= g_heap_end /\ Growth \in Nat /\ g_heap_end \in Nat
    BY EndIs, Layout DEF IInv, Listed, Growth, Types
  <2>2. \A b : End(b) = EndIn(block, b)
    BY DEF End, EndIn
  <2>3. ASSUME NEW b \in DOMAIN block PROVE Linked(b) /\ Coalesced(b)
    <3>1. EndIn(block, b) \in Nat /\ EndIn(block, b) <= End(Tail)
      BY <2>1, BlockFacts DEF Chain
    <3>2. End(b) <= g_heap_end
      BY <3>1, <2>1, <2>2
    <3>3. Linked(b)
      BY <3>2, <2>1, <2>2 DEF Linked, Chain
    <3>4. QED
      BY <3>3, <2>1 DEF Coalesced, FreeApart
  <2>4. QED
    BY <2>1, <2>2, <2>3 DEF Chain
<1>2. QED
  BY <1>1, Invariance, PTL

\* kmalloc, kfree and krealloc neither leak a block nor give one out twice, and each
\* owner's block is aligned and has the room it asked for.
THEOREM AccountedAlways == Spec => []Accounted
<1>1. IInv => Accounted
  <2> SUFFICES ASSUME IInv PROVE Accounted
    OBVIOUS
  <2> DEFINE owned == {held[o].ptr - overhead : o \in {q \in Owners : held[q] # Nothing}}
             moving == IF call.pc = "copy" THEN {call.new - overhead} ELSE {}
  <2>1. CASE call.pc = "boot"
    <3>1. InUse = {} /\ owned = {} /\ moving = {} /\ \A o \in Owners : held[o] = Nothing
      BY <2>1 DEF IInv, InUse
    <3>2. QED
      BY <3>1 DEF Accounted
  <2>2. CASE call.pc # "boot"
    <3>1. Owned
      BY <2>2 DEF IInv
    <3>2. owned \cup moving \subseteq InUse
      BY <3>1 DEF Owned
    <3>3. InUse \subseteq owned \cup moving
      BY <3>1 DEF Owned
    <3>4. ASSUME NEW o \in Owners, held[o] # Nothing
          PROVE  /\ block[held[o].ptr - overhead].size >= held[o].size
                 /\ held[o].ptr % HEAP_ALIGN = 0
                 /\ \A q \in Owners \ {o} : held[q].ptr # held[o].ptr
      <4> DEFINE b == held[o].ptr - overhead
      <4>1. /\ b \in DOMAIN block /\ held[o].ptr \in Nat
            /\ block[b].size >= held[o].size
            /\ \A q \in Owners \ {o} : held[q].ptr # held[o].ptr
        BY <2>2, <3>4, PointerIs
      <4>2. held[o].ptr = b + overhead
        BY <4>1, Layout
      <4> HIDE DEF b
      <4>3. (b + overhead) % 16 = 0
        BY <4>1, <2>2, HeaderIs
      <4>4. held[o].ptr % HEAP_ALIGN = 0
        BY <4>2, <4>3, Layout
      <4>5. QED
        BY <4>1, <4>4 DEF b
    <3>5. InUse = owned \cup moving
      BY <3>2, <3>3
    <3>6. QED
      BY <3>4, <3>5 DEF Accounted
  <2>3. QED
    BY <2>1, <2>2
<1>2. QED
  BY <1>1, Invariance, PTL

\* Every mapped page has a frame of its own, meminfo's counters agree with the bitmap,
\* and growth that fails half way loses no frame: it leaves pages behind the last
\* block only when the heap cannot grow any more.
THEOREM FramesAccountedAlways == Spec => []FramesAccounted
<1>1. IInv => FramesAccounted
  <2> SUFFICES ASSUME IInv PROVE FramesAccounted
    OBVIOUS
  <2>1. ASSUME call.pc = "idle", Stranded # 0
        PROVE  Full
    <3>1. /\ End(Tail) \in Nat /\ Growth = 0
          /\ End(Tail) + Growth = g_heap_end \/ Full
      BY <2>1 DEF IInv, Listed, Growth
    <3>2. g_heap_end \in Nat
      BY EndIs DEF IInv
    <3>3. QED
      BY <3>1, <3>2, <2>1 DEF Stranded
  <2>2. StrandedOnlyWhenFull
    BY <2>1 DEF StrandedOnlyWhenFull, Full
  <2>3. QED
    BY <2>2 DEF IInv, Backed, FramesAccounted
<1>2. QED
  BY <1>1, Invariance, PTL

\* The scan that follows growth finds a fit: kmalloc's retry, with interrupts
\* disabled, is made at most once.
THEOREM RetryFitsAlways == Spec => []RetryFits
<1>1. IInv => RetryFits
  BY DEF IInv, Fitting, RetryFits
<1>2. QED
  BY <1>1, Invariance, PTL

\* A kmalloc or krealloc that returns NULL has changed no block and nobody's memory,
\* and no free block had the room.
THEOREM FailsCleanlyAlways == Spec => FailsCleanly
<1> DEFINE Clean == ReturnsNull =>
                      /\ block' = block
                      /\ \A b \in DOMAIN block : block[b].free => block[b].size < call.size
<1>1. IInv /\ [Next]_vars => [Clean]_vars
  <2> SUFFICES ASSUME IInv, [Next]_vars, ReturnsNull
               PROVE  /\ block' = block
                      /\ \A b \in DOMAIN block : block[b].free => block[b].size < call.size
    OBVIOUS
  <2>1. call.pc \in {"scan", "grow"} /\ call'.pc = "idle" /\ held' = held
    BY DEF ReturnsNull
  <2>2. ~ScanHit
    <3> SUFFICES ASSUME ScanHit PROVE FALSE
      OBVIOUS
    <3> DEFINE b == FirstFit(call.size)
    <3>1. /\ call.pc = "scan" /\ b \in DOMAIN block
          /\ call.owner \in Owners /\ held \in [Owners -> [ptr : Nat, size : Nat]]
      BY FirstFitIs DEF ScanHit, Fits, IInv, Types, Working
    <3>2. b + overhead # NULL
      BY <3>1, HeaderIs
    <3>3. held[call.owner] = Nothing => held'[call.owner].ptr = b + overhead
      BY <3>1 DEF ScanHit
    <3>4. held[call.owner] # Nothing => call'.pc = "copy"
      <4>1. call \in [pc : Pcs, owner : Owners \cup {NULL}, size : Nat, added : Nat, new : Nat]
        BY DEF IInv, Types
      <4>2. held[call.owner] # Nothing => call' = [call EXCEPT !.pc = "copy", !.new = b + overhead]
        BY DEF ScanHit
      <4>3. QED
        BY <4>1, <4>2
    <3>5. QED
      BY <2>1, <3>2, <3>3, <3>4 DEF Nothing
  <2>3. ~ScanMiss /\ ~GrowPage /\ ~GrowDone
    <3>1. call \in [pc : Pcs, owner : Owners \cup {NULL}, size : Nat, added : Nat, new : Nat]
      BY DEF IInv, Types
    <3>2. QED
      BY <2>1, <3>1 DEF ScanMiss, GrowPage, GrowDone
  <2>4. GrowFails
    BY <2>1, <2>2, <2>3 DEF Next, InCall, BootPage, BootDone, KreallocDone, Kfree, Kmalloc,
       KreallocInPlace, KreallocMove, vars
  <2>5. Fits(call.size) = {} /\ call.pc = "grow" /\ block' = block /\ call.size \in Nat
    BY <2>4 DEF GrowFails, IInv, Fitting, Types
  <2>6. ASSUME NEW b \in DOMAIN block, block[b].free
        PROVE  block[b].size < call.size
    <3>1. block[b].size \in Nat /\ block[b].size % 16 = 0
      BY <2>5, HeaderIs
    <3>2. ~(block[b].size >= Wanted(call.size))
      BY <2>5, <2>6 DEF Fits
    <3>3. /\ Wanted(call.size) \in Nat /\ Wanted(call.size) % 16 = 0
          /\ Wanted(call.size) < call.size + 16
      BY <2>5, WantedIs
    <3>4. QED
      BY <3>1, <3>2, <3>3, <2>5
  <2>7. QED
    BY <2>5, <2>6
<1>2. QED
  BY <1>1, Invariance, PTL DEF Spec, FailsCleanly

\* Memory of g and of h in different blocks does not overlap, and lies inside the list.
LEMMA MemoryIs ==
    ASSUME NEW f, NEW top \in Nat, Chain(f, top),
           NEW g \in [ptr : Nat, size : Nat], g.ptr - overhead \in DOMAIN f,
           f[g.ptr - overhead].size >= g.size
    PROVE  /\ KHEAP_BASE <= g.ptr /\ g.ptr + g.size <= top
           /\ \A h \in [ptr : Nat, size : Nat] :
                 /\ h.ptr - overhead \in DOMAIN f /\ f[h.ptr - overhead].size >= h.size
                 /\ h.ptr # g.ptr
                 => A!Apart(g, h)
<1> DEFINE b == g.ptr - overhead
<1>1. /\ b \in Nat /\ f[b].size \in Nat /\ EndIn(f, b) = g.ptr + f[b].size
      /\ KHEAP_BASE <= b /\ EndIn(f, b) <= top
  BY BlockFacts, Layout DEF Chain
<1>2. KHEAP_BASE <= g.ptr /\ g.ptr + g.size <= EndIn(f, b)
  BY <1>1, Layout
<1>3. ASSUME NEW h \in [ptr : Nat, size : Nat], h.ptr - overhead \in DOMAIN f,
             f[h.ptr - overhead].size >= h.size, h.ptr # g.ptr
      PROVE  A!Apart(g, h)
  <2> DEFINE c == h.ptr - overhead
  <2>1. c \in Nat /\ f[c].size \in Nat /\ EndIn(f, c) = h.ptr + f[c].size
    BY <1>3, BlockFacts, Layout
  <2>2. h.ptr + h.size <= EndIn(f, c)
    BY <2>1, <1>3
  <2>3. (b < c => EndIn(f, b) <= c) /\ (c < b => EndIn(f, c) <= b)
    BY <1>3 DEF Chain
  <2>4. b # c /\ c <= h.ptr /\ b <= g.ptr
    BY <1>1, <2>1, <1>3, Layout
  <2> HIDE DEF b, c
  <2>5. g.ptr + g.size <= h.ptr \/ h.ptr + h.size <= g.ptr
    BY <1>1, <1>2, <2>1, <2>2, <2>3, <2>4
  <2>6. QED
    BY <2>5 DEF A!Apart
<1>4. QED
  BY <1>1, <1>2, <1>3

\* The end of the list is not behind the limit of the heap.
LEMMA ListInside ==
    ASSUME IInv, call.pc # "boot"
    PROVE  /\ End(Tail) \in Nat /\ Chain(block, End(Tail)) /\ End(Tail) <= g_heap_limit
           /\ g_heap_end <= g_heap_limit /\ g_heap_end \in Nat /\ g_heap_limit \in Nat
<1>1. g_heap_end \in Nat /\ g_heap_limit \in Nat /\ g_heap_end <= g_heap_limit
  BY EndIs DEF IInv
<1>2. End(Tail) \in Nat /\ Chain(block, End(Tail)) /\ End(Tail) + Growth <= g_heap_end
  BY DEF IInv, Listed
<1>3. Growth \in Nat
  BY Layout DEF IInv, Types, Growth
<1>4. QED
  BY <1>1, <1>2, <1>3

\* What the caller gets from a step that leaves the list in order does not overlap
\* what the others hold.
LEMMA GivenIs ==
    ASSUME IInv, IInv', call.pc # "boot", call'.pc # "boot", UNCHANGED pmm,
           NEW o \in Owners, held'[o] # Nothing,
           NEW S \in SUBSET Owners, o \in S => held[o] = Nothing,
           held' = [held EXCEPT ![o] = held'[o]]
    PROVE  A!Give(o, held'[o], S)
<1> DEFINE g == held'[o]
           top == End(Tail)'
<1>1. /\ top \in Nat /\ Chain(block', top) /\ g \in [ptr : Nat, size : Nat]
      /\ top + Growth' <= g_heap_end' /\ Growth' \in Nat
  BY Layout DEF IInv, Types, Listed, Growth
<1>2. /\ g.ptr - overhead \in DOMAIN block' /\ block'[g.ptr - overhead].size >= g.size
      /\ g.size \in Requests /\ \A q \in Owners \ {o} : held'[q].ptr # g.ptr
  BY DEF IInv, Owned, InUse
<1>3. top <= g_heap_limit /\ g_heap_limit \in Nat
  <2>1. g_heap_end' = g_heap_end /\ g_heap_end <= g_heap_limit
        /\ g_heap_end \in Nat /\ g_heap_limit \in Nat
    BY ListInside DEF pmm
  <2>2. QED
    BY <2>1, <1>1
<1>4. KHEAP_BASE <= g.ptr /\ g.ptr + g.size - 1 <= g_heap_limit - 1
  <2> HIDE DEF g, top
  <2>1. KHEAP_BASE <= g.ptr /\ g.ptr + g.size <= top
    BY <1>1, <1>2, MemoryIs
  <2>2. QED
    BY <2>1, <1>1, <1>3
<1>5. ASSUME NEW q \in S, held[q] # Nothing
      PROVE  A!Apart(g, held[q])
  <2>1. q # o /\ q \in Owners /\ held'[q] = held[q]
    <3>1. q # o
      BY <1>5
    <3>2. held \in [Owners -> [ptr : Nat, size : Nat]]
      BY DEF IInv, Types
    <3>3. QED
      BY <3>1, <3>2
  <2>2. /\ held[q] \in [ptr : Nat, size : Nat]
        /\ held[q].ptr - overhead \in DOMAIN block'
        /\ block'[held[q].ptr - overhead].size >= held[q].size
        /\ held[q].ptr # g.ptr
    BY <1>5, <2>1, <1>2 DEF IInv, Types, Owned, InUse
  <2> HIDE DEF g, top
  <2>3. QED
    BY <2>2, <1>1, <1>2, MemoryIs
<1>6. QED
  BY <1>2, <1>4, <1>5 DEF A!Give, A!Nothing, A!NULL, Nothing, NULL

\* The kernel heap implements the abstract allocator: kmalloc is Alloc, kfree is Free,
\* krealloc is Resize, and what the heap does inside is not seen by the callers.
THEOREM Refinement == Spec => ImplementsAllocator
<1>1. Init => A!Init
  BY DEF Init, A!Init, A!Nothing, A!NULL, Nothing, NULL
<1>2. IInv /\ IInv' /\ [Next]_vars => [A!Next]_held
  <2> SUFFICES ASSUME IInv, IInv', Next, held' # held
               PROVE  A!Next
    BY DEF vars
  <2>0. Nothing = A!Nothing
    BY DEF A!Nothing, A!NULL, Nothing, NULL
  <2>1. held \in [Owners -> [ptr : Nat, size : Nat]]
    BY DEF IInv, Types
  <2>2. CASE ScanHit
    <3> DEFINE o == call.owner
    <3>1. call.pc = "scan" /\ o \in Owners
      BY <2>2 DEF ScanHit, IInv, Working
    <3>2. /\ held[o] = Nothing /\ call' = Idle /\ UNCHANGED pmm
          /\ \E g : held' = [held EXCEPT ![o] = g]
      BY <2>2 DEF ScanHit
    <3>3. held' = [held EXCEPT ![o] = held'[o]] /\ held'[o] # Nothing
      BY <3>1, <3>2, <2>1
    <3>4. call'.pc # "boot" /\ call.pc # "boot"
      BY <3>1, <3>2 DEF Idle
    <3>5. A!Give(o, held'[o], Owners)
      BY <3>1, <3>2, <3>3, <3>4, GivenIs
    <3>6. A!Alloc(o)
      BY <3>2, <3>5, <2>0 DEF A!Alloc
    <3>7. QED
      BY <3>1, <3>6 DEF A!Next
  <2>3. CASE KreallocDone
    <3> DEFINE o == call.owner
               g == [ptr |-> call.new, size |-> call.size]
    <3>1. /\ call.pc = "copy" /\ held' = [held EXCEPT ![o] = g]
      BY <2>3 DEF KreallocDone
    <3>2. /\ o \in Owners /\ call.size \in Requests /\ g \in [ptr : Nat, size : Nat]
          /\ held'[o] = g
      BY <3>1, <2>1 DEF IInv, Working, Types
    <3>3. /\ held[o] # Nothing /\ call.new - overhead \in DOMAIN block
          /\ block[call.new - overhead].size >= call.size
          /\ \A q \in Owners : held[q].ptr # call.new
      BY <3>1 DEF IInv, Owned, InUse
    <3>4. End(Tail) \in Nat /\ Chain(block, End(Tail)) /\ End(Tail) <= g_heap_limit
          /\ g_heap_limit \in Nat
      BY <3>1, ListInside
    <3>5. g.ptr - overhead \in DOMAIN block /\ block[g.ptr - overhead].size >= g.size
          /\ g.size \in Requests /\ \A q \in Owners : held[q].ptr # g.ptr
      BY <3>2, <3>3
    <3> HIDE DEF g, o
    <3>6. KHEAP_BASE <= g.ptr /\ g.ptr + g.size - 1 <= g_heap_limit - 1
      <4>1. KHEAP_BASE <= g.ptr /\ g.ptr + g.size <= End(Tail)
        BY <3>2, <3>4, <3>5, MemoryIs
      <4>2. QED
        BY <4>1, <3>2, <3>4
    <3>7. ASSUME NEW q \in Owners, held[q] # Nothing
          PROVE  A!Apart(g, held[q])
      <4>1. /\ held[q] \in [ptr : Nat, size : Nat] /\ held[q].ptr - overhead \in DOMAIN block
            /\ block[held[q].ptr - overhead].size >= held[q].size
        BY <3>1, <3>7, <2>1, PointerIs
      <4>2. QED
        BY <4>1, <3>2, <3>4, <3>5, MemoryIs
    <3>8. A!Give(o, held'[o], Owners)
      BY <3>1, <3>2, <3>5, <3>6, <3>7, <2>0 DEF A!Give
    <3>9. A!Resize(o)
      <4>1. held'[o].ptr # held[o].ptr
        BY <3>2, <3>5
      <4>2. QED
        BY <4>1, <3>3, <3>8, <2>0 DEF A!Resize
    <3>10. QED
      BY <3>2, <3>9 DEF A!Next
  <2>4. ASSUME NEW o \in Owners, Kfree(o)
        PROVE  A!Next
    <3>1. A!Free(o)
      BY <2>4, <2>0 DEF Kfree, A!Free
    <3>2. QED
      BY <3>1 DEF A!Next
  <2>5. ASSUME NEW o \in Owners, NEW n \in Requests, KreallocInPlace(o, n)
        PROVE  A!Next
    <3>1. /\ call.pc = "idle" /\ held[o] # Nothing /\ held' = [held EXCEPT ![o].size = n]
          /\ call' = call /\ UNCHANGED pmm
      BY <2>5 DEF KreallocInPlace
    <3>2. /\ held' = [held EXCEPT ![o] = held'[o]] /\ held'[o].ptr = held[o].ptr
          /\ held'[o].size = n
      BY <3>1, <2>1
    <3>3. held'[o] # Nothing
      BY <3>2, RequestsAssumption DEF Nothing
    <3>4. A!Give(o, held'[o], Owners \ {o})
      BY <3>1, <3>2, <3>3, GivenIs
    <3>5. A!Resize(o)
      BY <3>1, <3>2, <3>4, <2>0 DEF A!Resize
    <3>6. QED
      BY <3>5 DEF A!Next
  <2>6. QED
    BY <2>2, <2>3, <2>4, <2>5 DEF Next, InCall, BootPage, BootDone, ScanMiss, GrowPage,
       GrowFails, GrowDone, Kmalloc, KreallocMove
<1>3. QED
  BY <1>1, <1>2, Invariance, PTL DEF Spec, ImplementsAllocator, A!Spec
=============================================================================
