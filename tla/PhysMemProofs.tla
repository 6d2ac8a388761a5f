--------------------------- MODULE PhysMemProofs ---------------------------
(***************************************************************************)
(* Proofs, for every memory map, layout and size of frame, that physical   *)
(* memory is handed out as PhysMemProps says.                              *)
(***************************************************************************)
EXTENDS PhysMemProps, Numbers, FiniteSetTheorems, SequenceTheorems

F == FRAME_SIZE

-----------------------------------------------------------------------------
(* Frames and ranges.                                                      *)

LEMMA Layout ==
    /\ F \in Nat \ {0} /\ GIB4 \in Nat /\ GIB4 > 0 /\ LOW_TOP \in Nat
    /\ MAX_PHYS_ADDR \in Nat /\ MAX_PHYS_ADDR < GIB4
    /\ KHEAP_BASE \in Nat /\ KHEAP_PAGES \in Nat
    /\ KHEAP_BASE + KHEAP_PAGES * F \in Nat /\ KHEAP_BASE + KHEAP_PAGES * F < GIB4
BY LayoutAssumption DEF F

LEMMA Cut ==
    ASSUME NEW n \in Nat
    PROVE  U32(n) \in Nat /\ U32(n) < GIB4 /\ (n < GIB4 => U32(n) = n)
BY Layout DEF U32

LEMMA Down ==
    ASSUME NEW n \in Nat
    PROVE  /\ AlignDown(n) = F * (n \div F) /\ AlignDown(n) \in Nat
           /\ AlignDown(n) <= n /\ n < AlignDown(n) + F
           /\ AlignDown(n) \div F = n \div F /\ AlignDown(n) % F = 0
<1> DEFINE d == n \div F
           r == n % F
           m == F * d
<1>1. d \in Nat /\ r \in 0 .. F - 1 /\ n = m + r
  BY Layout, Division
<1>2. m \in Nat /\ m \div F = d /\ m % F = 0
  BY <1>1, Layout, Times, Multiple
<1>3. AlignDown(n) = n - r
  BY DEF AlignDown, F
<1> HIDE DEF d, r, m
<1>4. AlignDown(n) = m
  BY <1>1, <1>2, <1>3, Layout
<1>5. m <= n /\ n < m + F
  BY <1>1, <1>2, Layout
<1>6. QED
  BY <1>2, <1>4, <1>5 DEF d, m

LEMMA Up ==
    ASSUME NEW n \in Nat
    PROVE  /\ AlignUp(n) \in Nat /\ n <= AlignUp(n) /\ AlignUp(n) < n + F
           /\ AlignUp(n) \div F = (n + F - 1) \div F /\ AlignUp(n) % F = 0
<1>1. n + F - 1 \in Nat /\ n + FRAME_SIZE - 1 = n + F - 1
  BY Layout DEF F
<1>2. AlignUp(n) = AlignDown(n + F - 1)
  BY <1>1 DEF AlignUp
<1>3. AlignUp(n) \in Nat /\ AlignUp(n) <= n + F - 1 /\ n + F - 1 < AlignUp(n) + F
  BY <1>1, <1>2, Down
<1>4. AlignUp(n) \div F = (n + F - 1) \div F /\ AlignUp(n) % F = 0
  BY <1>1, <1>2, Down
<1>5. n <= AlignUp(n) /\ AlignUp(n) < n + F
  BY <1>3, Layout
<1>6. QED
  BY <1>3, <1>4, <1>5

\* The frames of a range are those that end behind its start and start before its end.
LEMMA InFrames ==
    ASSUME NEW s \in Nat, NEW e \in Nat
    PROVE  FramesOf(s, e) = {f \in Nat : s < F * f + F /\ F * f < e}
<1>1. s \div F \in Nat /\ (e + F - 1) \div F \in Nat /\ e + F - 1 \in Nat
  BY Layout, Division
<1>2. FramesOf(s, e) = s \div F .. ((e + F - 1) \div F) - 1
  BY Up DEF FramesOf, F
<1>3. ASSUME NEW f \in Nat
      PROVE  s \div F <= f <=> s < F * f + F
  <2>1. f + 1 <= s \div F <=> F * (f + 1) <= s
    BY Layout, Quotient
  <2>2. F * (f + 1) = F * f + F /\ F * f \in Nat
    BY Layout, Times
  <2>3. QED
    BY <1>1, <2>1, <2>2, Layout
<1>4. ASSUME NEW f \in Nat
      PROVE  f <= ((e + F - 1) \div F) - 1 <=> F * f < e
  <2>1. f + 1 <= (e + F - 1) \div F <=> F * (f + 1) <= e + F - 1
    BY <1>1, Layout, Quotient
  <2>2. F * (f + 1) = F * f + F /\ F * f \in Nat
    BY Layout, Times
  <2>3. QED
    BY <1>1, <2>1, <2>2, Layout
<1>5. ASSUME NEW f
      PROVE  f \in FramesOf(s, e) <=> f \in {g \in Nat : s < F * g + F /\ F * g < e}
  <2>1. f \in FramesOf(s, e) => f \in Nat
    BY <1>1, <1>2
  <2>2. f \in Nat => (f \in FramesOf(s, e) <=> s \div F <= f /\ f <= ((e + F - 1) \div F) - 1)
    BY <1>1, <1>2
  <2>3. QED
    BY <2>1, <2>2, <1>3, <1>4
<1>6. QED
  BY <1>5

\* An address lies in the frame it is in.
LEMMA FrameOfAddress ==
    ASSUME NEW a \in Nat, NEW f \in Nat
    PROVE  a \div F = f <=> F * f <= a /\ a < F * f + F
<1>1. a \div F \in Nat /\ F * f \in Nat /\ F * (f + 1) = F * f + F
  BY Layout, Division, Times
<1>2. f <= a \div F <=> F * f <= a
  BY Layout, Quotient
<1>3. f + 1 <= a \div F <=> F * (f + 1) <= a
  BY Layout, Quotient
<1>4. QED
  BY <1>1, <1>2, <1>3, Layout

-----------------------------------------------------------------------------
(* The frames below the allocator's limit, and those a range touches.      *)

Pool == 0 .. g_stats.total - 1

\* The limit is a whole number of frames.
MemoryEnd == g_stats.total \in Nat /\ g_max_addr = F * g_stats.total

LEMMA PoolIsManaged ==
    ASSUME MemoryEnd, g_max_addr <= MAX_PHYS_ADDR
    PROVE  /\ Pool \subseteq Frames
           /\ IsFiniteSet(Pool)
           /\ \A f \in Nat : f \in Pool <=> F * f < g_max_addr
           /\ \A f \in Pool : F * f + F <= g_max_addr
<1>1. Frames = {f \in Nat : F * f < MAX_PHYS_ADDR}
  <2>1. \A f \in Nat : 0 < F * f + F
    BY Layout, Times
  <2>2. QED
    BY <2>1, Layout, InFrames DEF Frames
<1>2. ASSUME NEW f \in Nat PROVE f \in Pool <=> F * f < g_max_addr
  BY Layout, Times DEF MemoryEnd, Pool
<1>3. ASSUME NEW f \in Pool PROVE F * f + F <= g_max_addr
  BY Layout, Times DEF MemoryEnd, Pool
<1>4. Pool \subseteq Frames
  <2>1. ASSUME NEW f \in Pool PROVE f \in Frames
    <3>1. f \in Nat
      BY DEF Pool, MemoryEnd
    <3>2. F * f \in Nat /\ F * f < g_max_addr
      BY <3>1, <1>2, Layout, Times
    <3>3. g_max_addr \in Nat
      BY Layout, Times DEF MemoryEnd
    <3>4. QED
      BY <3>1, <3>2, <3>3, <1>1, Layout
  <2>2. QED
    BY <2>1
<1>5. IsFiniteSet(Pool)
  BY FS_Interval DEF Pool, MemoryEnd
<1>6. QED
  BY <1>2, <1>3, <1>4, <1>5

LEMMA TouchedFrames ==
    ASSUME MemoryEnd, g_max_addr <= MAX_PHYS_ADDR, NEW r \in Nat \X Nat
    PROVE  Touched(r) = {f \in Pool : r[1] < r[2] /\ r[1] < F * f + F /\ F * f < r[2]}
<1>1. g_max_addr \in Nat
  BY Layout, Times DEF MemoryEnd
<1>2. CASE r[1] >= r[2]
  <2>1. Touched(r) = {}
    BY <1>2 DEF Touched
  <2>2. QED
    BY <1>2, <2>1
<1>3. CASE r[1] < r[2] /\ r[1] >= g_max_addr
  <2>1. Touched(r) = {}
    BY <1>3 DEF Touched
  <2>2. \A f \in Pool : ~ (r[1] < F * f + F)
    <3>1. ASSUME NEW f \in Pool PROVE F * f + F <= r[1]
      <4>1. F * f + F <= g_max_addr
        BY PoolIsManaged
      <4>2. f \in Nat
        BY DEF Pool, MemoryEnd
      <4>3. F * f \in Nat
        BY <4>2, Layout, Times
      <4>4. QED
        BY <4>1, <4>3, <1>1, <1>3, Layout
    <3>2. ASSUME NEW f \in Pool PROVE F * f \in Nat
      BY Layout, Times DEF Pool, MemoryEnd
    <3>3. QED
      BY <3>1, <3>2, Layout
  <2>3. QED
    BY <2>1, <2>2
<1>4. CASE r[1] < r[2] /\ r[1] < g_max_addr
  <2>1. Clip(r[2]) \in Nat /\ Touched(r) = FramesOf(r[1], Clip(r[2]))
    BY <1>1, <1>4 DEF Touched, Clip
  <2>2. Touched(r) = {f \in Nat : r[1] < F * f + F /\ F * f < Clip(r[2])}
    BY <2>1, InFrames
  <2>3. ASSUME NEW f \in Nat
        PROVE  F * f < Clip(r[2]) <=> F * f < r[2] /\ F * f < g_max_addr
    <3>1. F * f \in Nat
      BY Layout, Times
    <3>2. QED
      BY <3>1, <1>1 DEF Clip
  <2>4. \A f \in Nat : f \in Pool <=> F * f < g_max_addr
    BY PoolIsManaged
  <2>5. \A f \in Pool : f \in Nat
    BY DEF Pool, MemoryEnd
  <2>6. QED
    BY <2>2, <2>3, <2>4, <2>5, <1>4
<1>5. QED
  BY <1>1, <1>2, <1>3, <1>4

\* A range touches the frames that one of its addresses is in, and no others.
LEMMA TouchedAddresses ==
    ASSUME MemoryEnd, g_max_addr <= MAX_PHYS_ADDR, NEW r \in Nat \X Nat, NEW f \in Pool
    PROVE  f \in Touched(r) <=> \E a \in Nat : r[1] <= a /\ a < r[2] /\ a \div F = f
<1>1. f \in Nat /\ F * f \in Nat
  BY Layout, Times DEF Pool, MemoryEnd
<1>2. f \in Touched(r) <=> r[1] < r[2] /\ r[1] < F * f + F /\ F * f < r[2]
  BY TouchedFrames
<1>3. \A a \in Nat : a \div F = f <=> F * f <= a /\ a < F * f + F
  BY <1>1, FrameOfAddress
<1>4. ASSUME f \in Touched(r)
      PROVE  \E a \in Nat : r[1] <= a /\ a < r[2] /\ a \div F = f
  <2>1. CASE F * f <= r[1]
    BY <1>2, <1>3, <1>4, <2>1
  <2>2. CASE r[1] < F * f
    <3>1. (F * f) \div F = f
      BY <1>1, <1>3, Layout
    <3>2. QED
      BY <1>1, <1>2, <1>4, <2>2, <3>1
  <2>3. QED
    BY <2>1, <2>2, <1>1
<1>5. ASSUME NEW a \in Nat, r[1] <= a, a < r[2], a \div F = f
      PROVE  f \in Touched(r)
  <2>1. F * f <= a /\ a < F * f + F
    BY <1>3, <1>5
  <2>2. QED
    BY <1>1, <1>2, <1>5, <2>1, Layout
<1>6. QED
  BY <1>4, <1>5

-----------------------------------------------------------------------------
(* The counters.                                                           *)

Counters == [total : Nat, free : Nat, used : Nat]

LEMMA Freeing ==
    ASSUME g_stats \in Counters, StatsExact, NEW T \in SUBSET Pool,
           g_bitmap' = g_bitmap \ T, g_stats' = Move(Cardinality(T \cap g_bitmap))
    PROVE  /\ g_stats' \in Counters /\ g_stats'.total = g_stats.total
           /\ StatsExact' /\ FreeFrames' = FreeFrames \cup T
<1> DEFINE N == T \cap g_bitmap
<1>1. IsFiniteSet(Pool)
  BY FS_Interval DEF Pool, Counters
<1>2. IsFiniteSet(FreeFrames) /\ IsFiniteSet(N) /\ FreeFrames \cup N \subseteq Pool
  <2>1. FreeFrames \in SUBSET Pool /\ N \in SUBSET Pool
    BY DEF FreeFrames, Pool
  <2>2. QED
    BY <1>1, <2>1, FS_Subset
<1>3. Cardinality(N) \in Nat
  BY <1>2, FS_CardinalityType
<1>4. g_stats' = [total |-> g_stats.total, free |-> g_stats.free + Cardinality(N),
                  used |-> g_stats.used - Cardinality(N)]
  BY DEF Move, Counters
<1>5. FreeFrames' = FreeFrames \cup N /\ FreeFrames' = FreeFrames \cup T
  <2>1. FreeFrames = Pool \ g_bitmap /\ FreeFrames' = Pool \ g_bitmap'
    BY <1>4 DEF FreeFrames, Pool
  <2>2. QED
    BY <2>1, Zenon
<1>6. Cardinality(FreeFrames \cup N) = Cardinality(FreeFrames) + Cardinality(N)
  <2>1. FreeFrames \cap N = {}
    BY DEF FreeFrames
  <2>2. Cardinality(FreeFrames \cap N) = 0
    BY <2>1, FS_EmptySet, Zenon
  <2>3. Cardinality(FreeFrames \cup N)
          = Cardinality(FreeFrames) + Cardinality(N) - Cardinality(FreeFrames \cap N)
    BY <1>2, FS_Union
  <2>4. Cardinality(FreeFrames) \in Nat
    BY <1>2, FS_CardinalityType
  <2> HIDE DEF N
  <2>5. QED
    BY <2>2, <2>3, <2>4, <1>3
<1>7. Cardinality(FreeFrames \cup N) <= g_stats.total
  <2>1. Cardinality(Pool) = g_stats.total
    BY FS_Interval DEF Pool, Counters
  <2>2. FreeFrames \cup N \in SUBSET Pool
    BY <1>2
  <2>3. QED
    BY <2>1, <2>2, <1>1, FS_Subset
<1> HIDE DEF N
<1>8. /\ g_stats.free = Cardinality(FreeFrames) /\ g_stats.free + g_stats.used = g_stats.total
      /\ g_stats.free \in Nat /\ g_stats.used \in Nat /\ g_stats.total \in Nat
  BY DEF StatsExact, Counters
<1>9. g_stats.used - Cardinality(N) \in Nat
  BY <1>3, <1>6, <1>7, <1>8
<1>10. g_stats' \in Counters
  BY <1>3, <1>4, <1>8, <1>9 DEF Counters
<1>11. StatsExact'
  BY <1>3, <1>4, <1>5, <1>6, <1>8 DEF StatsExact
<1>12. QED
  BY <1>4, <1>5, <1>10, <1>11

LEMMA Taking ==
    ASSUME g_stats \in Counters, StatsExact, NEW T,
           g_bitmap' = g_bitmap \cup T, g_stats' = Move(-Cardinality(T \ g_bitmap)),
           T \in SUBSET Pool
    PROVE  /\ g_stats' \in Counters /\ g_stats'.total = g_stats.total
           /\ StatsExact' /\ FreeFrames' = FreeFrames \ T
<1> DEFINE N == T \ g_bitmap
<1>1. IsFiniteSet(FreeFrames)
  <2>1. IsFiniteSet(Pool)
    BY FS_Interval DEF Pool, Counters
  <2>2. FreeFrames \in SUBSET Pool
    BY DEF Pool, FreeFrames
  <2>3. QED
    BY <2>1, <2>2, FS_Subset
<1>2. N \in SUBSET FreeFrames
  BY DEF FreeFrames, Pool
<1>3. IsFiniteSet(N) /\ Cardinality(N) \in Nat /\ Cardinality(N) <= Cardinality(FreeFrames)
  BY <1>1, <1>2, FS_Subset, FS_CardinalityType
<1>4. Cardinality(FreeFrames \ N) = Cardinality(FreeFrames) - Cardinality(N)
  <2>1. FreeFrames \cap N = N
    BY <1>2
  <2>2. QED
    BY <1>1, <2>1, FS_Difference
<1>5. g_stats' = [total |-> g_stats.total, free |-> g_stats.free + (-Cardinality(N)),
                  used |-> g_stats.used - (-Cardinality(N))]
  BY DEF Move, Counters
<1>6. FreeFrames' = FreeFrames \ N /\ FreeFrames' = FreeFrames \ T
  <2>1. FreeFrames = Pool \ g_bitmap /\ FreeFrames' = Pool \ g_bitmap'
    BY <1>5 DEF FreeFrames, Pool
  <2>2. QED
    BY <2>1, Zenon
<1> HIDE DEF N
<1>7. /\ g_stats.free = Cardinality(FreeFrames) /\ g_stats.free + g_stats.used = g_stats.total
      /\ g_stats.free \in Nat /\ g_stats.used \in Nat /\ g_stats.total \in Nat
  BY DEF StatsExact, Counters
<1>8. g_stats' \in Counters
  BY <1>3, <1>5, <1>7 DEF Counters
<1>9. StatsExact'
  BY <1>3, <1>4, <1>5, <1>6, <1>7 DEF StatsExact
<1>10. QED
  BY <1>5, <1>6, <1>8, <1>9

-----------------------------------------------------------------------------
(* What the boot loader reports.                                           *)

Region == [addr : Nat, len : Nat, type : Nat]

LEMMA Reported ==
    ASSUME machine \in Machines
    PROVE  /\ machine.mmap \in Seq(Region)
           /\ \A e \in Range(machine.mmap) : e \in Region
           /\ machine.basic_top \in 0 .. GIB4 - 1
           /\ machine.info \in Nat \X Nat /\ machine.modules \in Seq(Nat \X Nat)
           /\ machine.fb # <<>> => /\ machine.fb \in Nat \X Nat /\ machine.fb[1] < GIB4
                                   /\ machine.fb[2] + 2 * F <= GIB4
<1>1. machine.mmap \in Seq(Region)
  BY MachinesAssumption DEF Region
<1>2. \A e \in Range(machine.mmap) : e \in Region
  <2>1. DOMAIN machine.mmap = 1 .. Len(machine.mmap)
    BY <1>1, LenProperties
  <2>2. \A i \in 1 .. Len(machine.mmap) : machine.mmap[i] \in Region
    BY <1>1, ElementOfSeq
  <2>3. QED
    BY <2>1, <2>2 DEF Range
<1>3. QED
  BY <1>1, <1>2, MachinesAssumption DEF F

LEMMA HighestInRange ==
    ASSUME machine \in Machines
    PROVE  Highest \in 0 .. MAX_PHYS_ADDR
<1> DEFINE End(e) == IF e.addr + e.len >= GIB4 THEN GIB4 - 1 ELSE e.addr + e.len
           tops   == {machine.basic_top}
                         \cup {End(e) : e \in {r \in Range(machine.mmap) : Available(r)}}
           top    == CHOOSE t \in tops : \A s \in tops : s <= t
<1>1. tops \in SUBSET (0 .. GIB4 - 1)
  <2>1. \A e \in Region : End(e) \in 0 .. GIB4 - 1
    BY Layout DEF Region
  <2> HIDE DEF End
  <2>2. machine.basic_top \in 0 .. GIB4 - 1 /\ \A e \in Range(machine.mmap) : e \in Region
    BY Reported
  <2>3. QED
    BY <2>1, <2>2, Zenon
<1>2. \E t \in tops : \A s \in tops : t >= s
  <2>1. GIB4 - 1 \in Nat /\ tops # {}
    BY Layout
  <2> HIDE DEF tops
  <2>2. QED
    BY <2>1, <1>1, GreatestPosition
<1>3. top \in 0 .. GIB4 - 1
  <2> HIDE DEF tops
  <2>1. \E t \in tops : \A s \in tops : s <= t
    BY <1>1, <1>2
  <2>2. top \in tops
    BY <2>1, Zenon
  <2>3. QED
    BY <1>1, <2>2
<1>4. Highest = IF top = 0 \/ top > MAX_PHYS_ADDR THEN MAX_PHYS_ADDR ELSE top
  BY DEF Highest
<1> HIDE DEF top
<1>5. QED
  BY <1>3, <1>4, Layout

LEMMA HeadAndTail ==
    ASSUME NEW X, NEW s \in Seq(X), s # <<>>
    PROVE  /\ Head(s) \in X /\ Tail(s) \in Seq(X)
           /\ Range(s) \subseteq {Head(s)} \cup Range(Tail(s))
           /\ Head(s) \in Range(s) /\ Range(Tail(s)) \subseteq Range(s)
<1>1. /\ Head(s) \in X /\ Tail(s) \in Seq(X) /\ Len(Tail(s)) = Len(s) - 1
      /\ \A i \in 1 .. Len(Tail(s)) : Tail(s)[i] = s[i + 1]
  BY HeadTailProperties
<1>2. /\ Len(s) \in Nat /\ Len(s) > 0 /\ DOMAIN s = 1 .. Len(s)
      /\ DOMAIN Tail(s) = 1 .. Len(Tail(s))
  BY <1>1, LenProperties, EmptySeq
<1>3. Head(s) = s[1] /\ 1 \in DOMAIN s
  BY <1>2 DEF Head
<1>4. \A i \in DOMAIN s : i # 1 => i - 1 \in DOMAIN Tail(s) /\ Tail(s)[i - 1] = s[i]
  BY <1>1, <1>2
<1>5. \A i \in DOMAIN Tail(s) : i + 1 \in DOMAIN s /\ Tail(s)[i] = s[i + 1]
  BY <1>1, <1>2
<1>6. Range(s) \subseteq {Head(s)} \cup Range(Tail(s))
  <2>1. ASSUME NEW i \in DOMAIN s PROVE s[i] = Head(s) \/ s[i] \in Range(Tail(s))
    BY <1>3, <1>4 DEF Range
  <2>2. QED
    BY <2>1 DEF Range
<1>7. Head(s) \in Range(s) /\ Range(Tail(s)) \subseteq Range(s)
  BY <1>3, <1>5 DEF Range
<1>8. QED
  BY <1>1, <1>6, <1>7

LEMMA RangesFreed ==
    ASSUME machine \in Machines
    PROVE  /\ RangesToFree \in Seq(Nat \X Nat)
           /\ \A r \in Range(RangesToFree) : r = <<0, 0>> \/ \E e \in Regions : r = RangeToFree(e)
<1> DEFINE n == Len(machine.mmap)
<1>1. n \in Nat /\ DOMAIN machine.mmap = 1 .. n
  BY Reported, LenProperties
<1>2. \A i \in 1 .. n : machine.mmap[i] \in Region /\ machine.mmap[i] \in Range(machine.mmap)
  BY <1>1, Reported DEF Range
<1>3. \A e \in Region : RangeToFree(e) \in Nat \X Nat
  <2>1. ASSUME NEW e \in Region PROVE U32(e.addr) \in Nat /\ U32(e.addr + e.len) \in Nat
    <3>1. e.addr \in Nat /\ e.addr + e.len \in Nat
      BY DEF Region
    <3>2. QED
      BY <3>1, Cut
  <2>2. QED
    BY <2>1 DEF RangeToFree
<1>4. RangesToFree = [i \in 1 .. n |-> RangeToFree(machine.mmap[i])]
  BY <1>1 DEF RangesToFree
<1>5. RangesToFree \in [1 .. n -> Nat \X Nat]
  BY <1>2, <1>3, <1>4
<1>6. RangesToFree \in Seq(Nat \X Nat)
  BY <1>1, <1>5, SeqDef
<1>7. ASSUME NEW r \in Range(RangesToFree)
      PROVE  r = <<0, 0>> \/ \E e \in Regions : r = RangeToFree(e)
  <2>1. PICK i \in 1 .. n : r = RangeToFree(machine.mmap[i])
    BY <1>4 DEF Range
  <2>2. CASE Available(machine.mmap[i])
    BY <1>2, <2>1, <2>2 DEF Regions, Available
  <2>3. CASE ~Available(machine.mmap[i])
    BY <2>1, <2>3 DEF RangeToFree
  <2>4. QED
    BY <2>2, <2>3
<1>8. QED
  BY <1>6, <1>7

LEMMA RangesReserved ==
    ASSUME machine \in Machines
    PROVE  /\ RangesToReserve \in Seq(Nat \X Nat)
           /\ \A r \in Range(RangesToReserve) : r \in Nat \X Nat
<1> DEFINE fixed == << <<0, LOW_TOP>>, Kernel, machine.info >>
           last  == IF machine.fb = <<>> THEN <<>>
                    ELSE << <<machine.fb[1], U32(machine.fb[1] + machine.fb[2])>> >>
<1>1. fixed \in Seq(Nat \X Nat)
  BY Reported, LayoutAssumption
<1>2. last \in Seq(Nat \X Nat)
  <2>1. CASE machine.fb = <<>>
    BY <2>1, EmptySeq
  <2>2. CASE machine.fb # <<>>
    <3>1. machine.fb[1] \in Nat /\ machine.fb[1] + machine.fb[2] \in Nat
      BY <2>2, Reported
    <3>2. <<machine.fb[1], U32(machine.fb[1] + machine.fb[2])>> \in Nat \X Nat
      BY <3>1, Cut
    <3>3. QED
      BY <2>2, <3>2
  <2>3. QED
    BY <2>1, <2>2
<1>3. RangesToReserve = (fixed \o machine.modules) \o last
  BY DEF RangesToReserve
<1> HIDE DEF fixed, last
<1>4. fixed \o machine.modules \in Seq(Nat \X Nat)
  BY <1>1, Reported, ConcatProperties
<1>5. RangesToReserve \in Seq(Nat \X Nat)
  BY <1>2, <1>3, <1>4, ConcatProperties
<1>6. \A r \in Range(RangesToReserve) : r \in Nat \X Nat
  <2>1. DOMAIN RangesToReserve = 1 .. Len(RangesToReserve)
    BY <1>5, LenProperties
  <2>2. \A i \in 1 .. Len(RangesToReserve) : RangesToReserve[i] \in Nat \X Nat
    BY <1>5, ElementOfSeq
  <2>3. QED
    BY <2>1, <2>2 DEF Range
<1>7. QED
  BY <1>5, <1>6

-----------------------------------------------------------------------------
(* The inductive invariant.                                                *)

Phases ==
    /\ todo \in Seq(Nat \X Nat)
    /\ pc = "free" => Range(todo) \subseteq Range(RangesToFree)
    /\ pc \in {"heap", "panic"} => todo = <<>>
    /\ pc \in {"scan", "free", "reserve"} => DOMAIN page = {}
    /\ pc # "heap" => g_heap_end = KHEAP_BASE
    /\ pc = "scan" => g_bitmap = Frames /\ g_stats.total = 0

\* The heap's pages have frames of their own, taken from the pool.
HeapPlaced ==
    /\ g_heap_end % F = 0
    /\ HeapPages \subseteq DOMAIN page
    /\ HeapFrames \subseteq Pool /\ HeapFrames \subseteq g_bitmap
    /\ Cardinality(HeapFrames) = Cardinality(HeapPages)

Given == FreeFrames \cup HeapFrames

\* What is or was free is touched by an available region,
FreedFromMap == \A f \in Given : \E e \in Regions : f \in Touched(RangeToFree(e))

\* and by no range in use, unless its turn is still to come.
ReservedSoFar ==
    pc \in {"reserve", "heap"} =>
        \A r \in Range(RangesToReserve) : r \in Range(todo) \/ Touched(r) \cap Given = {}

IInv ==
    /\ TypeOK /\ MemoryEnd /\ StatsExact
    /\ Phases /\ HeapPlaced /\ FreedFromMap /\ ReservedSoFar /\ IdentityKept

-----------------------------------------------------------------------------
(* Facts the steps share.                                                  *)

LEMMA HeapIsEmpty ==
    ASSUME g_heap_end = KHEAP_BASE
    PROVE  HeapPages = {} /\ HeapFrames = {}
<1>1. KHEAP_BASE \div FRAME_SIZE \in Nat
  BY Layout, Division DEF F
<1>2. HeapPages = {}
  BY <1>1 DEF HeapPages
<1>3. QED
  BY <1>2 DEF HeapFrames

LEMMA HeapIsEmptyNext ==
    ASSUME g_heap_end' = KHEAP_BASE
    PROVE  HeapPages' = {} /\ HeapFrames' = {}
<1>1. KHEAP_BASE \div FRAME_SIZE \in Nat
  BY Layout, Division DEF F
<1>2. HeapPages' = {}
  BY <1>1 DEF HeapPages
<1>3. QED
  BY <1>2 DEF HeapFrames

LEMMA HeapPlacedNext ==
    ASSUME g_heap_end' = KHEAP_BASE
    PROVE  HeapPlaced'
<1>1. HeapPages' = {} /\ HeapFrames' = {}
  BY HeapIsEmptyNext
<1>2. KHEAP_BASE % F = 0
  BY LayoutAssumption DEF F
<1>3. QED
  BY <1>1, <1>2 DEF HeapPlaced

LEMMA StaysFixed ==
    ASSUME machine' = machine, g_max_addr' = g_max_addr, g_stats'.total = g_stats.total
    PROVE  /\ \A r : Touched(r)' = Touched(r)
           /\ Regions' = Regions /\ RangesToFree' = RangesToFree
           /\ RangesToReserve' = RangesToReserve /\ ReadInPlace' = ReadInPlace
           /\ Pool' = Pool /\ (MemoryEnd => MemoryEnd')
<1>1. \A r : Touched(r)' = Touched(r)
  BY DEF Touched, Clip
<1>2. Regions' = Regions /\ RangesToFree' = RangesToFree
  BY DEF Regions, RangesToFree
<1>3. RangesToReserve' = RangesToReserve /\ ReadInPlace' = ReadInPlace
  BY DEF RangesToReserve, ReadInPlace
<1>4. Pool' = Pool /\ (MemoryEnd => MemoryEnd')
  BY DEF Pool, MemoryEnd
<1>5. QED
  BY <1>1, <1>2, <1>3, <1>4

LEMMA NothingLeft ==
    Range(<<>>) = {}
BY DEF Range

LEMMA InitInv == Init => IInv
<1> SUFFICES ASSUME Init PROVE IInv
  OBVIOUS
<1> USE DEF Init
<1>1. HeapPages = {} /\ HeapFrames = {}
  BY HeapIsEmpty
<1>2. g_stats = [total |-> 0, free |-> 0, used |-> 0] /\ FreeFrames = {} /\ DOMAIN page = {}
  BY DEF FreeFrames
<1>3. TypeOK
  <2>1. KHEAP_BASE <= KHEAP_BASE + KHEAP_PAGES * FRAME_SIZE
    BY Layout DEF F
  <2>2. g_heap_end \in KHEAP_BASE .. KHEAP_BASE + KHEAP_PAGES * FRAME_SIZE
    BY <2>1, Layout DEF F
  <2>3. QED
    BY <1>2, <2>2, Layout DEF TypeOK
<1>4. MemoryEnd
  BY <1>2, Layout DEF MemoryEnd
<1>5. StatsExact
  BY <1>2, FS_EmptySet DEF StatsExact
<1>6. Phases
  BY <1>2, EmptySeq DEF Phases
<1>7. HeapPlaced
  BY <1>1, LayoutAssumption DEF HeapPlaced, F
<1>8. FreedFromMap /\ ReservedSoFar /\ IdentityKept
  BY <1>1, <1>2 DEF FreedFromMap, ReservedSoFar, IdentityKept, Given, Booted
<1>9. QED
  BY <1>3, <1>4, <1>5, <1>6, <1>7, <1>8 DEF IInv

-----------------------------------------------------------------------------
(* Each step keeps the invariant.                                          *)

LEMMA ScanTagsInv == IInv /\ ScanTags => IInv'
<1> SUFFICES ASSUME IInv, ScanTags PROVE IInv'
  OBVIOUS
<1> USE DEF ScanTags
<1> DEFINE total == Highest \div F
<1>1. Highest \in Nat /\ Highest <= MAX_PHYS_ADDR /\ total \in Nat
  BY HighestInRange, Layout, Division DEF IInv, TypeOK
<1>2. /\ g_max_addr' = F * total
      /\ g_max_addr' \in Nat /\ g_max_addr' <= MAX_PHYS_ADDR
      /\ AlignDown(Highest) \div FRAME_SIZE = total
  <2>1. /\ AlignDown(Highest) = F * total /\ AlignDown(Highest) \in Nat
        /\ AlignDown(Highest) <= Highest /\ AlignDown(Highest) \div F = total
    BY <1>1, Down
  <2>2. AlignDown(Highest) <= MAX_PHYS_ADDR
    BY <1>1, <2>1, Layout
  <2>3. QED
    BY <2>1, <2>2 DEF F
<1> HIDE DEF total
<1>3. g_stats' = [total |-> total, free |-> 0, used |-> total]
  BY <1>2
<1>4. FreeFrames' = {}
  <2>1. g_bitmap' = {f \in Nat : 0 < F * f + F /\ F * f < MAX_PHYS_ADDR}
    BY Layout, InFrames DEF IInv, Phases, Frames
  <2>2. ASSUME NEW f \in 0 .. total - 1 PROVE f \in g_bitmap'
    <3>1. F * f \in Nat /\ F * f < F * total
      BY <1>1, Layout, Times
    <3>2. QED
      BY <1>1, <1>2, <2>1, <3>1, Layout
  <2>3. QED
    BY <1>3, <2>2 DEF FreeFrames
<1>5. pc' = "free" /\ todo' = RangesToFree /\ machine' = machine /\ page' = page
      /\ g_bitmap' = g_bitmap /\ g_heap_end' = g_heap_end /\ g_heap_end = KHEAP_BASE
      /\ DOMAIN page = {}
  BY DEF IInv, Phases
<1>6. HeapPages' = {} /\ HeapFrames' = {}
  BY <1>5, HeapIsEmptyNext
<1>7. TypeOK'
  BY <1>1, <1>2, <1>3, <1>5 DEF IInv, TypeOK
<1>8. MemoryEnd'
  BY <1>1, <1>2, <1>3 DEF MemoryEnd
<1>9. StatsExact'
  BY <1>1, <1>3, <1>4, FS_EmptySet DEF StatsExact
<1>10. Phases'
  <2>1. RangesToFree' = RangesToFree
    BY <1>5 DEF RangesToFree
  <2>2. RangesToFree \in Seq(Nat \X Nat)
    BY RangesFreed DEF IInv, TypeOK
  <2>3. QED
    BY <1>5, <2>1, <2>2 DEF Phases
<1>11. HeapPlaced'
  BY <1>5, HeapPlacedNext
<1>12. FreedFromMap' /\ ReservedSoFar' /\ IdentityKept'
  BY <1>4, <1>5, <1>6 DEF FreedFromMap, ReservedSoFar, IdentityKept, Given, Booted
<1>13. QED
  BY <1>7, <1>8, <1>9, <1>10, <1>11, <1>12 DEF IInv

LEMMA FreeRangeInv == IInv /\ FreeRange => IInv'
<1> SUFFICES ASSUME IInv, FreeRange PROVE IInv'
  OBVIOUS
<1> DEFINE r == Head(todo)
           T == Touched(r)
<1>1. /\ pc = "free" /\ todo # <<>>
      /\ g_bitmap' = g_bitmap \ T /\ g_stats' = Move(Cardinality(T \cap g_bitmap))
      /\ todo' = Tail(todo)
      /\ machine' = machine /\ pc' = pc /\ g_max_addr' = g_max_addr
      /\ page' = page /\ g_heap_end' = g_heap_end /\ g_heap_end = KHEAP_BASE
      /\ DOMAIN page = {}
  BY DEF FreeRange, IInv, Phases
<1>2. /\ r \in Nat \X Nat /\ r \in Range(RangesToFree)
      /\ Tail(todo) \in Seq(Nat \X Nat) /\ Range(Tail(todo)) \subseteq Range(RangesToFree)
  BY <1>1, HeadAndTail DEF IInv, Phases
<1>3. g_max_addr \in Nat /\ g_max_addr <= MAX_PHYS_ADDR
  BY Layout DEF IInv, TypeOK
<1>4. T \in SUBSET Pool /\ (r = <<0, 0>> => T = {})
  <2>1. T = {f \in Pool : r[1] < r[2] /\ r[1] < F * f + F /\ F * f < r[2]}
    BY <1>2, <1>3, TouchedFrames DEF IInv
  <2>2. QED
    BY <2>1
<1> HIDE DEF T
<1>5. /\ g_stats' \in Counters /\ g_stats'.total = g_stats.total
      /\ StatsExact' /\ FreeFrames' = FreeFrames \cup T
  BY <1>1, <1>4, Freeing DEF IInv, TypeOK, Counters
<1>6. HeapPages' = {} /\ HeapFrames' = {}
  BY <1>1, HeapIsEmptyNext
<1>7. TypeOK'
  BY <1>1, <1>5 DEF IInv, TypeOK, Counters
<1>8. MemoryEnd'
  BY <1>1, <1>5, StaysFixed DEF IInv
<1>9. Phases'
  <2>1. RangesToFree' = RangesToFree
    BY <1>1, <1>5, StaysFixed
  <2>2. QED
    BY <1>1, <1>2, <2>1 DEF Phases
<1>10. HeapPlaced'
  BY <1>1, HeapPlacedNext
<1>11. FreedFromMap'
  <2>1. Given' \subseteq Given \cup T
    BY <1>5, <1>6 DEF Given
  <2>2. \A f \in T : \E e \in Regions : f \in Touched(RangeToFree(e))
    <3>1. T # {} => \E e \in Regions : r = RangeToFree(e)
      BY <1>2, <1>4, RangesFreed DEF IInv, TypeOK
    <3>2. QED
      BY <3>1 DEF T
  <2>3. /\ Regions' = Regions /\ \A q : Touched(q)' = Touched(q)
    BY <1>1, <1>5, StaysFixed
  <2>4. \A f \in Given' : \E e \in Regions : f \in Touched(RangeToFree(e))
    BY <2>1, <2>2 DEF IInv, FreedFromMap
  <2>5. ASSUME NEW f \in Given' PROVE \E e \in Regions' : f \in Touched(RangeToFree(e))'
    BY <2>3, <2>4
  <2>6. QED
    BY <2>5 DEF FreedFromMap
<1>12. ReservedSoFar' /\ IdentityKept'
  BY <1>1 DEF ReservedSoFar, IdentityKept, Booted
<1>13. QED
  BY <1>5, <1>7, <1>8, <1>9, <1>10, <1>11, <1>12 DEF IInv

LEMMA FreeDoneInv == IInv /\ FreeDone => IInv'
<1> SUFFICES ASSUME IInv, FreeDone PROVE IInv'
  OBVIOUS
<1>1. /\ pc = "free" /\ pc' = "reserve" /\ todo' = RangesToReserve
      /\ UNCHANGED <<machine, g_bitmap, g_stats, g_max_addr, page, g_heap_end>>
      /\ g_heap_end = KHEAP_BASE /\ DOMAIN page = {}
  BY DEF FreeDone, IInv, Phases
<1>2. /\ \A r : Touched(r)' = Touched(r) /\ Regions' = Regions
      /\ RangesToReserve' = RangesToReserve /\ MemoryEnd'
  BY <1>1, StaysFixed DEF IInv
<1>3. Given' = Given /\ StatsExact'
  BY <1>1 DEF Given, FreeFrames, HeapFrames, HeapPages, IInv, StatsExact
<1>4. TypeOK'
  BY <1>1 DEF IInv, TypeOK
<1>5. Phases'
  BY <1>1, RangesReserved DEF IInv, TypeOK, Phases
<1>6. HeapPlaced'
  BY <1>1, HeapPlacedNext
<1>7. FreedFromMap'
  <2>1. ASSUME NEW f \in Given' PROVE \E e \in Regions' : f \in Touched(RangeToFree(e))'
    BY <1>2, <1>3 DEF IInv, FreedFromMap
  <2>2. QED
    BY <2>1 DEF FreedFromMap
<1>8. ReservedSoFar' /\ IdentityKept'
  BY <1>1, <1>2 DEF ReservedSoFar, IdentityKept, Booted
<1>9. QED
  BY <1>2, <1>3, <1>4, <1>5, <1>6, <1>7, <1>8 DEF IInv

LEMMA ReserveRangeInv == IInv /\ ReserveRange => IInv'
<1> SUFFICES ASSUME IInv, ReserveRange PROVE IInv'
  OBVIOUS
<1> DEFINE r == Head(todo)
           T == Touched(r)
<1>1. /\ pc = "reserve" /\ todo # <<>>
      /\ g_bitmap' = g_bitmap \cup T /\ g_stats' = Move(-Cardinality(T \ g_bitmap))
      /\ todo' = Tail(todo)
      /\ machine' = machine /\ pc' = pc /\ g_max_addr' = g_max_addr
      /\ page' = page /\ g_heap_end' = g_heap_end /\ g_heap_end = KHEAP_BASE
      /\ DOMAIN page = {}
  BY DEF ReserveRange, IInv, Phases
<1>2. /\ r \in Nat \X Nat /\ Tail(todo) \in Seq(Nat \X Nat)
      /\ Range(todo) \subseteq {r} \cup Range(Tail(todo))
  BY <1>1, HeadAndTail DEF IInv, Phases
<1>3. g_max_addr \in Nat /\ g_max_addr <= MAX_PHYS_ADDR
  BY Layout DEF IInv, TypeOK
<1>4. T \in SUBSET Pool /\ Pool \subseteq Frames
  <2>1. T = {f \in Pool : r[1] < r[2] /\ r[1] < F * f + F /\ F * f < r[2]}
    BY <1>2, <1>3, TouchedFrames DEF IInv
  <2>2. QED
    BY <2>1, <1>3, PoolIsManaged DEF IInv
<1> HIDE DEF T
<1>5. /\ g_stats' \in Counters /\ g_stats'.total = g_stats.total
      /\ StatsExact' /\ FreeFrames' = FreeFrames \ T
  BY <1>1, <1>4, Taking DEF IInv, TypeOK, Counters
<1>6. HeapPages' = {} /\ HeapFrames' = {}
  BY <1>1, HeapIsEmptyNext
<1>7. TypeOK'
  BY <1>1, <1>4, <1>5 DEF IInv, TypeOK, Counters
<1>8. /\ MemoryEnd' /\ Regions' = Regions /\ \A q : Touched(q)' = Touched(q)
      /\ RangesToReserve' = RangesToReserve
  BY <1>1, <1>5, StaysFixed DEF IInv
<1>9. Phases'
  BY <1>1, <1>2 DEF Phases
<1>10. HeapPlaced'
  BY <1>1, HeapPlacedNext
<1>11. Given' \subseteq Given /\ Given' \cap T = {}
  BY <1>5, <1>6 DEF Given
<1>12. FreedFromMap'
  <2>1. ASSUME NEW f \in Given' PROVE \E e \in Regions' : f \in Touched(RangeToFree(e))'
    BY <1>8, <1>11 DEF IInv, FreedFromMap
  <2>2. QED
    BY <2>1 DEF FreedFromMap
<1>13. ReservedSoFar'
  <2>1. ASSUME NEW q \in Range(RangesToReserve)
        PROVE  q \in Range(todo') \/ Touched(q) \cap Given' = {}
    <3>1. CASE q \in Range(todo)
      BY <3>1, <1>1, <1>2, <1>11 DEF T
    <3>2. CASE Touched(q) \cap Given = {}
      BY <3>2, <1>11
    <3>3. QED
      BY <3>1, <3>2, <1>1 DEF IInv, ReservedSoFar
  <2>2. QED
    BY <2>1, <1>8 DEF ReservedSoFar
<1>14. IdentityKept'
  BY <1>1 DEF IdentityKept, Booted
<1>15. QED
  BY <1>5, <1>7, <1>8, <1>9, <1>10, <1>12, <1>13, <1>14 DEF IInv

-----------------------------------------------------------------------------
(* Paging.                                                                 *)

\* A frame that ends at or before a 32-bit address has a page number.
LEMMA PageNumber ==
    ASSUME NEW f \in Nat, F * f + F <= GIB4
    PROVE  f \in 0 .. GIB4 \div FRAME_SIZE - 1
<1>1. F * (f + 1) <= GIB4
  BY Layout, Times
<1>2. GIB4 \div F \in Nat
  BY Layout, Division
<1>3. f + 1 <= GIB4 \div F
  BY <1>1, Layout, Quotient
<1>4. QED
  BY <1>2, <1>3 DEF F

\* Below an end that is a whole number of frames, whole frames lie.
LEMMA WholeFrames ==
    ASSUME NEW s \in Nat, NEW e \in Nat, e % F = 0, e <= GIB4, NEW f \in FramesOf(s, e)
    PROVE  f \in 0 .. GIB4 \div FRAME_SIZE - 1
<1> DEFINE d == e \div F
<1>1. d \in Nat /\ e = F * d
  <2>1. d \in Nat /\ e = F * d + (e % F)
    BY Layout, Division
  <2> HIDE DEF d
  <2>2. F * d \in Nat
    BY <2>1, Layout, Times
  <2>3. QED
    BY <2>1, <2>2
<1>2. f \in Nat /\ F * f < e
  BY InFrames
<1> HIDE DEF d
<1>3. F * f + F <= e /\ F * f \in Nat
  BY <1>1, <1>2, Layout, Times
<1>4. F * f + F <= GIB4
  BY <1>3, Layout
<1>5. QED
  BY <1>2, <1>4, PageNumber

\* A framebuffer whose end is past 4 GiB, rounded up, ends in the panic.
LEMMA NoWrap ==
    ASSUME machine \in Machines, machine.fb # <<>>,
           ~(U32(AlignUp(machine.fb[1] + machine.fb[2])) < AlignDown(machine.fb[1]))
    PROVE  /\ machine.fb[1] \in Nat /\ machine.fb[1] + machine.fb[2] \in Nat
           /\ U32(AlignUp(machine.fb[1] + machine.fb[2])) = AlignUp(machine.fb[1] + machine.fb[2])
<1> DEFINE a == machine.fb[1]
           b == machine.fb[2]
           u == AlignUp(a + b)
           d == AlignDown(a)
<1>1. a \in Nat /\ b \in Nat /\ a < GIB4 /\ b + 2 * F <= GIB4 /\ a + b \in Nat
  BY Reported
<1>2. u \in Nat /\ u < a + b + F /\ d \in Nat /\ a < d + F
  BY <1>1, Up, Down
<1>3. ~(U32(u) < d)
  OBVIOUS
<1> HIDE DEF a, b, u, d
<1>4. ASSUME u >= GIB4 PROVE FALSE
  <2>1. u - GIB4 \in Nat /\ u - GIB4 < GIB4 /\ u - GIB4 < d
    BY <1>1, <1>2, <1>4, Layout
  <2>2. U32(u) = u - GIB4
    BY <1>2, <2>1, Layout DEF U32
  <2>3. QED
    BY <1>3, <2>1, <2>2
<1>5. U32(u) = u
  BY <1>2, <1>4, Layout, Cut
<1>6. QED
  BY <1>1, <1>5 DEF a, b, u

LEMMA PagingInitInv == IInv /\ PagingInit => IInv'
<1> SUFFICES ASSUME IInv, PagingInit PROVE IInv'
  OBVIOUS
<1> DEFINE first == machine.fb[1]
           end   == U32(AlignUp(machine.fb[1] + machine.fb[2]))
           low   == FramesOf(0, g_max_addr)
<1>1. /\ pc = "reserve" /\ todo = <<>>
      /\ UNCHANGED <<machine, todo, g_bitmap, g_stats, g_max_addr, g_heap_end>>
      /\ g_heap_end = KHEAP_BASE /\ DOMAIN page = {}
  BY DEF PagingInit, IInv, Phases
<1>2. PICK pages :
        /\ page' = MapIdentity(pages) /\ pc' \in {"heap", "panic"}
        /\ \A f \in pages : f \in 0 .. GIB4 \div FRAME_SIZE - 1
        /\ pc' = "heap" => ReadInPlace \subseteq pages
  <2>1. g_max_addr \in Nat /\ g_max_addr <= GIB4 /\ g_max_addr % F = 0
    <3>1. g_max_addr \in Nat /\ g_max_addr <= GIB4
      BY Layout DEF IInv, TypeOK
    <3>2. g_max_addr % F = 0
      BY Layout, Multiple DEF IInv, MemoryEnd
    <3>3. QED
      BY <3>1, <3>2
  <2>2. \A f \in low : f \in 0 .. GIB4 \div FRAME_SIZE - 1
    BY <2>1, WholeFrames
  <2>3. CASE machine.fb = <<>> \/ ~machine.fb_used
    <3>1. pc' = "heap" /\ page' = MapIdentity(low)
      BY <2>3 DEF PagingInit
    <3>2. ReadInPlace = low
      BY <2>3 DEF ReadInPlace
    <3>3. QED
      BY <2>2, <3>1, <3>2
  <2>4. CASE ~(machine.fb = <<>> \/ ~machine.fb_used) /\ end < AlignDown(first)
    <3>1. pc' = "panic" /\ page' = MapIdentity(low)
      BY <2>4 DEF PagingInit
    <3>2. QED
      BY <2>2, <3>1
  <2>5. CASE ~(machine.fb = <<>> \/ ~machine.fb_used) /\ ~(end < AlignDown(first))
    <3>1. pc' = "heap" /\ page' = MapIdentity(low \cup FramesOf(first, end))
      BY <2>5 DEF PagingInit
    <3> DEFINE stop == machine.fb[1] + machine.fb[2]
    <3>2. first \in Nat /\ stop \in Nat /\ end = AlignUp(stop)
      BY <2>5, NoWrap DEF IInv, TypeOK
    <3>3. AlignUp(stop) \in Nat /\ stop <= AlignUp(stop) /\ AlignUp(stop) % F = 0
      BY <3>2, Up
    <3>4. end < GIB4
      BY <3>2, <3>3, Cut
    <3>5. ReadInPlace = low \cup FramesOf(first, stop)
      BY <2>5 DEF ReadInPlace
    <3> HIDE DEF first, end, stop
    <3>6. \A f \in FramesOf(first, end) : f \in 0 .. GIB4 \div FRAME_SIZE - 1
      BY <3>2, <3>3, <3>4, Layout, WholeFrames
    <3>7. FramesOf(first, stop) \subseteq FramesOf(first, end)
      <4>1. /\ FramesOf(first, stop) = {f \in Nat : first < F * f + F /\ F * f < stop}
            /\ FramesOf(first, end) = {f \in Nat : first < F * f + F /\ F * f < end}
        BY <3>2, <3>3, InFrames
      <4>2. \A f \in Nat : F * f \in Nat
        BY Layout, Times
      <4>3. \A f \in Nat : F * f < stop => F * f < end
        BY <4>2, <3>2, <3>3
      <4>4. QED
        BY <4>1, <4>3
    <3>8. QED
      BY <2>2, <3>1, <3>5, <3>6, <3>7
  <2>6. QED
    BY <2>3, <2>4, <2>5
<1>3. DOMAIN page' = pages /\ \A v \in pages : page'[v] = v
  BY <1>1, <1>2 DEF MapIdentity
<1>4. HeapPages' = {} /\ HeapFrames' = {} /\ HeapFrames = {}
  BY <1>1, HeapIsEmpty, HeapIsEmptyNext
<1>5. /\ \A r : Touched(r)' = Touched(r) /\ Regions' = Regions
      /\ RangesToReserve' = RangesToReserve /\ MemoryEnd' /\ ReadInPlace' = ReadInPlace
  BY <1>1, StaysFixed DEF IInv
<1>6. Given' = Given /\ StatsExact'
  BY <1>1, <1>4 DEF Given, FreeFrames, IInv, StatsExact
<1>7. TypeOK'
  <2>1. \A v \in DOMAIN page' : v \in 0 .. GIB4 \div FRAME_SIZE - 1 /\ page'[v] \in Nat
    <3>1. GIB4 \div FRAME_SIZE \in Nat
      BY Layout, Division DEF F
    <3>2. QED
      BY <1>2, <1>3, <3>1
  <2>2. QED
    BY <1>1, <1>2, <2>1 DEF IInv, TypeOK
<1>8. Phases'
  BY <1>1, <1>2 DEF Phases, IInv
<1>9. HeapPlaced'
  BY <1>1, HeapPlacedNext
<1>10. FreedFromMap'
  <2>1. ASSUME NEW f \in Given' PROVE \E e \in Regions' : f \in Touched(RangeToFree(e))'
    BY <1>5, <1>6 DEF IInv, FreedFromMap
  <2>2. QED
    BY <2>1 DEF FreedFromMap
<1>11. ReservedSoFar'
  BY <1>1, <1>5, <1>6 DEF IInv, ReservedSoFar
<1>12. IdentityKept'
  BY <1>2, <1>3, <1>4, <1>5 DEF IdentityKept, Booted
<1>13. QED
  BY <1>5, <1>6, <1>7, <1>8, <1>9, <1>10, <1>11, <1>12 DEF IInv

-----------------------------------------------------------------------------
(* The heap.                                                               *)

LEMMA HeapEnd ==
    ASSUME g_heap_end \in Nat, KHEAP_BASE <= g_heap_end, g_heap_end % F = 0,
           g_heap_end < KHEAP_BASE + KHEAP_PAGES * F
    PROVE  /\ g_heap_end \div F \in 0 .. GIB4 \div FRAME_SIZE - 1
           /\ KHEAP_BASE \div F <= g_heap_end \div F
           /\ (g_heap_end + F) \div F = (g_heap_end \div F) + 1
           /\ (g_heap_end + F) % F = 0
           /\ g_heap_end + F <= KHEAP_BASE + KHEAP_PAGES * F
<1> DEFINE e == g_heap_end \div F
           k == KHEAP_BASE \div F
<1>1. e \in Nat /\ g_heap_end = F * e /\ k \in Nat
  BY Layout, Division
<1>2. KHEAP_BASE = F * k
  BY Layout, LayoutAssumption, Division DEF F
<1> HIDE DEF e, k
<1>3. k <= e
  BY <1>1, <1>2, Layout, Times
<1>4. F * (e + 1) = g_heap_end + F
  BY <1>1, Layout, Times
<1>5. (g_heap_end + F) \div F = e + 1 /\ (g_heap_end + F) % F = 0
  <2>1. (F * (e + 1)) \div F = e + 1 /\ (F * (e + 1)) % F = 0
    BY <1>1, Layout, Multiple
  <2>2. QED
    BY <1>4, <2>1
<1>6. F * (k + KHEAP_PAGES) = KHEAP_BASE + KHEAP_PAGES * F
  BY <1>1, <1>2, Layout
<1>7. F * e + F <= F * (k + KHEAP_PAGES)
  <2>1. F * e < F * (k + KHEAP_PAGES) /\ k + KHEAP_PAGES \in Nat
    BY <1>1, <1>6, Layout
  <2>2. QED
    BY <1>1, <2>1, Layout, Times
<1>8. g_heap_end + F <= KHEAP_BASE + KHEAP_PAGES * F
  BY <1>1, <1>6, <1>7
<1>9. F * e + F <= GIB4
  BY <1>1, <1>8, Layout
<1>10. e \in 0 .. GIB4 \div FRAME_SIZE - 1
  BY <1>1, <1>9, PageNumber
<1>11. QED
  BY <1>3, <1>5, <1>8, <1>10 DEF e, k

LEMMA GrowHeapInv == IInv /\ GrowHeap => IInv'
<1> SUFFICES ASSUME IInv, GrowHeap PROVE IInv'
  OBVIOUS
<1> DEFINE frame == CHOOSE f \in FreeFrames : \A g \in FreeFrames : f <= g
           v     == g_heap_end \div F
<1>1. /\ pc = "heap" /\ g_heap_end < KHEAP_BASE + KHEAP_PAGES * F /\ FreeFrames # {}
      /\ g_bitmap' = g_bitmap \cup {frame}
      /\ page' = [w \in DOMAIN page \cup {v} |-> IF w = v THEN frame ELSE page[w]]
      /\ g_stats' = Move(-1) /\ g_heap_end' = g_heap_end + F
      /\ UNCHANGED <<machine, pc, todo, g_max_addr>>
  BY DEF GrowHeap, F
<1>2. frame \in FreeFrames
  <2>1. FreeFrames \in SUBSET Nat
    BY DEF FreeFrames, IInv, TypeOK
  <2>2. \E f \in FreeFrames : \A g \in FreeFrames : f <= g
    BY <1>1, <2>1, LeastPosition, Zenon
  <2>3. QED
    BY <2>2, Zenon
<1> HIDE DEF frame, v
<1>3. frame \in Pool /\ frame \notin g_bitmap /\ frame \notin HeapFrames /\ frame \in Frames
  <2>1. g_max_addr <= MAX_PHYS_ADDR
    BY Layout DEF IInv, TypeOK
  <2>2. Pool \subseteq Frames
    BY <2>1, PoolIsManaged DEF IInv
  <2>3. QED
    BY <1>2, <2>2 DEF FreeFrames, Pool, IInv, HeapPlaced
<1>4. /\ g_stats' \in Counters /\ g_stats'.total = g_stats.total
      /\ StatsExact' /\ FreeFrames' = FreeFrames \ {frame}
  <2>1. Cardinality({frame} \ g_bitmap) = 1
    <3>1. {frame} \ g_bitmap = {frame}
      BY <1>3
    <3>2. QED
      BY <3>1, FS_Singleton, Zenon
  <2>2. g_stats' = Move(-Cardinality({frame} \ g_bitmap))
    BY <1>1, <2>1
  <2>3. QED
    BY <1>1, <1>3, <2>2, Taking DEF IInv, TypeOK, Counters
<1>5. /\ v \in 0 .. GIB4 \div FRAME_SIZE - 1 /\ KHEAP_BASE \div F <= v
      /\ g_heap_end' \div F = v + 1 /\ g_heap_end' % F = 0
      /\ g_heap_end' \in KHEAP_BASE .. KHEAP_BASE + KHEAP_PAGES * FRAME_SIZE
  <2>1. /\ g_heap_end \in Nat /\ KHEAP_BASE <= g_heap_end /\ g_heap_end % F = 0
    BY Layout DEF IInv, TypeOK, HeapPlaced
  <2>2. /\ v \in 0 .. GIB4 \div FRAME_SIZE - 1 /\ KHEAP_BASE \div F <= v
        /\ g_heap_end' \div F = v + 1 /\ g_heap_end' % F = 0
        /\ g_heap_end + F <= KHEAP_BASE + KHEAP_PAGES * F
    BY <1>1, <2>1, HeapEnd DEF v
  <2>3. g_heap_end' \in KHEAP_BASE .. KHEAP_BASE + KHEAP_PAGES * FRAME_SIZE
    BY <1>1, <2>1, <2>2, Layout DEF F
  <2>4. QED
    BY <2>2, <2>3
<1>6. HeapPages' = HeapPages \cup {v} /\ v \notin HeapPages
  <2>1. g_heap_end \div FRAME_SIZE = v /\ g_heap_end' \div FRAME_SIZE = v + 1
    BY <1>5 DEF F, v
  <2>2. KHEAP_BASE \div FRAME_SIZE \in Nat /\ KHEAP_BASE \div FRAME_SIZE <= v
    BY <1>5, Layout, Division DEF F
  <2>3. v \in Nat
    BY <1>5
  <2>4. QED
    BY <1>5, <2>1, <2>2, <2>3 DEF HeapPages
<1>7. HeapFrames' = HeapFrames \cup {frame}
  <2>1. \A w \in HeapPages : page'[w] = page[w]
    BY <1>1, <1>6 DEF IInv, HeapPlaced
  <2>2. page'[v] = frame
    BY <1>1
  <2>3. QED
    BY <1>6, <2>1, <2>2 DEF HeapFrames
<1>8. Given' = Given
  BY <1>2, <1>4, <1>7 DEF Given
<1>9. /\ \A r : Touched(r)' = Touched(r) /\ Regions' = Regions /\ Pool' = Pool
      /\ RangesToReserve' = RangesToReserve /\ MemoryEnd' /\ ReadInPlace' = ReadInPlace
  BY <1>1, <1>4, StaysFixed DEF IInv
<1>10. TypeOK'
  <2>1. \A w \in DOMAIN page' : w \in 0 .. GIB4 \div FRAME_SIZE - 1 /\ page'[w] \in Nat
    <3>1. frame \in Nat
      BY <1>3 DEF Pool, IInv, MemoryEnd
    <3>2. QED
      BY <1>1, <1>5, <3>1 DEF IInv, TypeOK
  <2>2. QED
    BY <1>1, <1>3, <1>4, <1>5, <2>1 DEF IInv, TypeOK, Counters
<1>11. Phases'
  BY <1>1 DEF Phases, IInv
<1>12. HeapPlaced'
  <2>1. IsFiniteSet(HeapPages)
    <3>1. GIB4 \div FRAME_SIZE - 1 \in Int
      BY Layout, Division DEF F
    <3>2. IsFiniteSet(0 .. GIB4 \div FRAME_SIZE - 1)
      BY <3>1, FS_Interval
    <3>3. HeapPages \in SUBSET (0 .. GIB4 \div FRAME_SIZE - 1)
      BY DEF HeapPages
    <3>4. QED
      BY <3>2, <3>3, FS_Subset
  <2>2. IsFiniteSet(HeapFrames)
    <3>1. IsFiniteSet(Pool) /\ HeapFrames \in SUBSET Pool
      BY FS_Interval DEF Pool, IInv, MemoryEnd, HeapPlaced
    <3>2. QED
      BY <3>1, FS_Subset
  <2>3. /\ Cardinality(HeapPages') = Cardinality(HeapPages) + 1
        /\ Cardinality(HeapFrames') = Cardinality(HeapFrames) + 1
    BY <2>1, <2>2, <1>3, <1>6, <1>7, FS_AddElement
  <2>4. HeapFrames' \subseteq Pool' /\ HeapFrames' \subseteq g_bitmap'
    BY <1>1, <1>3, <1>7, <1>9 DEF IInv, HeapPlaced
  <2>5. HeapPages' \subseteq DOMAIN page'
    BY <1>1, <1>6 DEF IInv, HeapPlaced
  <2>6. QED
    BY <1>5, <2>3, <2>4, <2>5 DEF IInv, HeapPlaced
<1>13. FreedFromMap'
  <2>1. ASSUME NEW f \in Given' PROVE \E e \in Regions' : f \in Touched(RangeToFree(e))'
    BY <1>8, <1>9 DEF IInv, FreedFromMap
  <2>2. QED
    BY <2>1 DEF FreedFromMap
<1>14. ReservedSoFar'
  BY <1>1, <1>8, <1>9 DEF IInv, ReservedSoFar
<1>15. IdentityKept'
  <2>1. \A f \in ReadInPlace \ HeapPages' : f \in DOMAIN page /\ page[f] = f /\ f # v
    BY <1>1, <1>6 DEF IInv, IdentityKept, Booted
  <2>2. \A f \in ReadInPlace' \ HeapPages' : f \in DOMAIN page' /\ page'[f] = f
    BY <1>1, <1>9, <2>1
  <2>3. QED
    BY <2>2 DEF IdentityKept
<1>16. QED
  BY <1>4, <1>9, <1>10, <1>11, <1>12, <1>13, <1>14, <1>15 DEF IInv

-----------------------------------------------------------------------------
(* The theorems.                                                           *)

LEMMA NextInv == IInv /\ [Next]_vars => IInv'
<1> SUFFICES ASSUME IInv, [Next]_vars PROVE IInv'
  OBVIOUS
<1>1. CASE ScanTags
  BY <1>1, ScanTagsInv
<1>2. CASE FreeRange
  BY <1>2, FreeRangeInv
<1>3. CASE FreeDone
  BY <1>3, FreeDoneInv
<1>4. CASE ReserveRange
  BY <1>4, ReserveRangeInv
<1>5. CASE PagingInit
  BY <1>5, PagingInitInv
<1>6. CASE GrowHeap
  BY <1>6, GrowHeapInv
<1>7. CASE UNCHANGED vars
  <2>1. UNCHANGED <<machine, pc, todo, g_bitmap, g_stats, g_max_addr, page, g_heap_end>>
    BY <1>7 DEF vars
  <2>2. /\ \A r : Touched(r)' = Touched(r) /\ Regions' = Regions /\ Pool' = Pool
        /\ RangesToFree' = RangesToFree /\ RangesToReserve' = RangesToReserve
        /\ MemoryEnd' /\ ReadInPlace' = ReadInPlace
    BY <2>1, StaysFixed DEF IInv
  <2>3. FreeFrames' = FreeFrames /\ HeapPages' = HeapPages /\ HeapFrames' = HeapFrames
    BY <2>1 DEF FreeFrames, HeapPages, HeapFrames
  <2>4. TypeOK' /\ StatsExact' /\ Phases'
    BY <2>1, <2>2, <2>3 DEF IInv, TypeOK, StatsExact, Phases
  <2>5. HeapPlaced' /\ Given' = Given /\ IdentityKept'
    BY <2>1, <2>2, <2>3 DEF IInv, HeapPlaced, Given, IdentityKept, Booted
  <2>6. ReservedSoFar'
    BY <2>1, <2>2, <2>5 DEF IInv, ReservedSoFar
  <2>7. FreedFromMap'
    <3>1. ASSUME NEW f \in Given' PROVE \E e \in Regions' : f \in Touched(RangeToFree(e))'
      BY <2>2, <2>5 DEF IInv, FreedFromMap
    <3>2. QED
      BY <3>1 DEF FreedFromMap
  <2>8. QED
    BY <2>2, <2>4, <2>5, <2>6, <2>7 DEF IInv
<1>8. QED
  BY <1>1, <1>2, <1>3, <1>4, <1>5, <1>6, <1>7 DEF Next

(***************************************************************************)
(* The inductive invariant holds: what is free or was given to the heap is *)
(* touched by available regions only, and by no range that pmm_init has    *)
(* reserved so far; the heap's pages have frames of their own.             *)
(***************************************************************************)
THEOREM Invariance == Spec => []IInv
<1>1. Init => IInv
  BY InitInv
<1>2. IInv /\ [Next]_vars => IInv'
  BY NextInv
<1>3. QED
  BY <1>1, <1>2, PTL DEF Spec

(***************************************************************************)
(* Every number stays in its range, and every page below 4 GiB.            *)
(***************************************************************************)
THEOREM TypeCorrect == Spec => []TypeOK
<1>1. IInv => TypeOK
  BY DEF IInv
<1>2. QED
  BY <1>1, Invariance, PTL

(***************************************************************************)
(* The counters of pmm_get_stats agree with the bitmap, whatever the       *)
(* regions and the reserved ranges have in common.                         *)
(***************************************************************************)
THEOREM CountersAgree == Spec => []StatsExact
<1>1. IInv => StatsExact
  BY DEF IInv
<1>2. QED
  BY <1>1, Invariance, PTL

LEMMA ReservedKept == IInv => ReservedStayOut
<1> SUFFICES ASSUME IInv, Booted PROVE
        /\ Cardinality(HeapFrames) = Cardinality(HeapPages)
        /\ \A r \in Range(RangesToReserve), f \in FreeFrames \cup HeapFrames :
              r[1] < r[2] => \A a \in r[1] .. r[2] - 1 : a \div FRAME_SIZE # f
  BY DEF ReservedStayOut
<1>1. Cardinality(HeapFrames) = Cardinality(HeapPages)
  BY DEF IInv, HeapPlaced
<1>2. ASSUME NEW r \in Range(RangesToReserve), NEW f \in Given,
             NEW a \in r[1] .. r[2] - 1, a \div FRAME_SIZE = f
      PROVE  FALSE
  <2>1. f \in Pool /\ f \notin Touched(r)
    <3>1. todo = <<>> /\ Range(todo) = {}
      BY NothingLeft DEF IInv, Phases, Booted
    <3>2. Touched(r) \cap Given = {}
      BY <3>1 DEF IInv, ReservedSoFar, Booted
    <3>3. QED
      BY <3>2 DEF Given, FreeFrames, Pool, IInv, HeapPlaced
  <2>2. r \in Nat \X Nat /\ a \in Nat /\ r[1] <= a /\ a < r[2]
    BY RangesReserved DEF IInv, TypeOK
  <2>3. g_max_addr <= MAX_PHYS_ADDR /\ MemoryEnd
    BY Layout DEF IInv, TypeOK
  <2>4. a \div F = f
    BY <1>2 DEF F
  <2>5. f \in Touched(r)
    BY <2>1, <2>2, <2>3, <2>4, TouchedAddresses
  <2>6. QED
    BY <2>1, <2>5
<1>3. QED
  BY <1>1, <1>2 DEF Given

LEMMA FreeKept == IInv => FreeIsMemory
<1> SUFFICES ASSUME IInv, \A e \in Regions : e.addr + e.len < GIB4,
                    NEW f \in FreeFrames \cup HeapFrames
             PROVE  \E e \in Regions, a \in f * FRAME_SIZE .. (f + 1) * FRAME_SIZE - 1 :
                        e.addr <= a /\ a < e.addr + e.len
  BY DEF FreeIsMemory
<1>1. PICK e \in Regions : f \in Touched(RangeToFree(e))
  BY DEF IInv, FreedFromMap, Given
<1>2. e \in Region /\ Available(e) /\ e.addr \in Nat /\ e.len \in Nat
  BY Reported DEF IInv, TypeOK, Regions, Available, Region
<1>3. RangeToFree(e) = <<e.addr, e.addr + e.len>>
  <2>1. e.addr + e.len \in Nat /\ e.addr + e.len < GIB4 /\ e.addr < GIB4
    BY <1>2, Layout
  <2>2. U32(e.addr) = e.addr /\ U32(e.addr + e.len) = e.addr + e.len
    BY <1>2, <2>1, Cut
  <2>3. QED
    BY <1>2, <2>2 DEF RangeToFree
<1>4. f \in Pool /\ f \in Nat
  BY DEF IInv, HeapPlaced, FreeFrames, Pool, MemoryEnd
<1>5. PICK a \in Nat : e.addr <= a /\ a < e.addr + e.len /\ a \div F = f
  <2>1. <<e.addr, e.addr + e.len>> \in Nat \X Nat
    BY <1>2
  <2>2. g_max_addr <= MAX_PHYS_ADDR /\ MemoryEnd
    BY Layout DEF IInv, TypeOK
  <2>3. \E a \in Nat : /\ <<e.addr, e.addr + e.len>>[1] <= a
                       /\ a < <<e.addr, e.addr + e.len>>[2] /\ a \div F = f
    BY <1>1, <1>3, <1>4, <2>1, <2>2, TouchedAddresses
  <2>4. QED
    BY <2>3
<1>6. a \in f * FRAME_SIZE .. (f + 1) * FRAME_SIZE - 1
  <2>1. F * f <= a /\ a < F * f + F
    BY <1>4, <1>5, FrameOfAddress
  <2>2. F * f = f * F /\ F * f + F = (f + 1) * F /\ F * f \in Nat
    BY <1>4, Layout
  <2>3. QED
    BY <2>1, <2>2, Layout DEF F
<1>7. QED
  BY <1>5, <1>6

(***************************************************************************)
(* Once the machine has booted, no frame that is free or in the heap holds *)
(* a byte of a reserved range, no two heap pages share a frame, and each   *)
(* of those frames has memory in it when no region is cut to 32 bits.      *)
(***************************************************************************)
THEOREM UsableFrames == Spec => []FramesUsable
<1>1. IInv => FramesUsable
  BY ReservedKept, FreeKept DEF FramesUsable
<1>2. QED
  BY <1>1, Invariance, PTL

(***************************************************************************)
(* Outside the heap's own pages, memory and the framebuffer in use stay    *)
(* mapped at their physical addresses while the heap grows.                *)
(***************************************************************************)
THEOREM StaysInPlace == Spec => []IdentityKept
<1>1. IInv => IdentityKept
  BY DEF IInv
<1>2. QED
  BY <1>1, Invariance, PTL
=============================================================================
