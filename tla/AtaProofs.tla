------------------------------ MODULE AtaProofs ------------------------------
(***************************************************************************)
(* Proofs, for machines with disks of every size and calls of every        *)
(* length, that the ATA driver is as AtaProps.tla says: the types, and     *)
(* that its calls are those of a DiskService, whenever the drives answer.  *)
(***************************************************************************)
EXTENDS AtaProps, Numbers

-----------------------------------------------------------------------------
(* The inductive invariant.                                                *)

\* What is known of every drive, whatever has been asked of it.
Data == Blocks \cup {Report(size) : size \in 0 .. ADDRESSES - 1}

DriveStates ==
    [phase : Phases, op : Ops, at : Nat, left : Nat, data : Data, err : BOOLEAN]

Still(d) == d \in {Resting, [Resting EXCEPT !.err = TRUE]}
Quiet(p) == Still(drive[p])

Sound(d) ==
    /\ d \in DriveStates
    /\ d.phase = "idle" => Still(d)
    /\ d.phase \in {"busy", "sends", "wants"} => ~d.err

Devices == [pos : Position, sector_count : Nat \ {0}]

DisksTyped ==
    /\ machine \in Machines
    /\ DOMAIN media = Position
    /\ \A p \in Position : media[p] \in [1 .. machine[p].size -> Blocks]

DrivesTyped == DOMAIN drive = Position /\ \A p \in Position : Sound(drive[p])

RegsTyped ==
    /\ regs \in [Channel -> [sel : Position, mode : {"chs", "lba"}, address : Nat, count : Nat]]
    /\ \A c \in Channel : ChannelOf(Selected(c)) = c

DevicesTyped ==
    /\ g_blockdevs \in Seq(Devices) /\ Len(g_blockdevs) <= BLOCKDEV_MAX
    /\ \A dev \in DOMAIN g_blockdevs :
          machine[g_blockdevs[dev].pos].size = g_blockdevs[dev].sector_count

Typed ==
    /\ DisksTyped /\ DrivesTyped /\ RegsTyped /\ errors \in 0 .. MAX_ERRORS
    /\ DevicesTyped /\ reply \in Replies /\ late \subseteq Channel

DetectCalls == [pc : DetectPcs, index : Position]
IOCalls ==
    [pc : CallPcs, op : {"read", "write"}, dev : Nat, lba : 0 .. UINT - 1,
     values : Seq(Blocks), s : Nat]

\* Where a call has come to in its loop over the sectors.
InLoop(c) ==
    /\ Len(c.values) \in 1 .. MAX_COUNT
    /\ c.pc \in {"params", "command"} => c.s = 0
    /\ c.pc \in {"poll", "transfer"} => c.s < Len(c.values)
    /\ c.pc \in {"return", "flush", "flushed"} => c.s = Len(c.values)
    /\ c.pc = "return" => c.op = "read"
    /\ c.pc \in {"flush", "flushed"} => c.op = "write"

Looping ==
    call \in IOCalls =>
        /\ call.dev \in DOMAIN g_blockdevs /\ InLoop(call)
        /\ Admits(call.dev, call.lba, Count)
        /\ call.op = "write" => call.lba + Count <= Dev.sector_count

Control ==
    /\ call \in {Idle} \cup DetectCalls \cup IOCalls
    /\ Looping

\* The drive at p while it is asked what it is.
Identifying(p) ==
    \/ /\ drive[p].phase \in {"accepted", "busy", "sends"} /\ ~drive[p].err
       /\ drive[p].op = "identify" /\ drive[p].left = 0
       /\ drive[p].phase = "sends" => drive[p].data = Report(machine[p].size)
    \/ machine[p] = Atapi /\ drive[p] = [Resting EXCEPT !.err = TRUE]

\* The boot asks one drive after the other.
Asking ==
    call \in DetectCalls =>
        /\ late = {}
        /\ \A p \in Position : p < call.index => Quiet(p)
        /\ \A p \in Position : p > call.index => drive[p] = Resting
        /\ call.pc \in {"select", "identify"} => drive[call.index] = Resting
        /\ call.pc # "select" => Selected(DetectedOn) = call.index /\ regs[DetectedOn].count = 0
        /\ call.pc \in {"busy", "signature", "data"} => machine[call.index] # Absent
        /\ call.pc \in {"probe", "busy", "signature", "data"} =>
              IF machine[call.index] = Absent THEN Quiet(call.index) ELSE Identifying(call.index)

-----------------------------------------------------------------------------
InCall   == call \in IOCalls
First    == Place(Dev.pos, "chs", call.lba % ADDRESSES)
Size     == machine[Dev.pos].size
Here     == drive[Dev.pos]

\* The first k blocks of the call are the first k sectors from First on.
Moved(k) ==
    \A i \in 1 .. k : First + i <= Size /\ media[Dev.pos][First + i] = call.values[i]

\* The drive works on the block the call waits for.
OnBlock(phases) ==
    /\ Here.phase \in phases /\ Here.op = call.op
    /\ Here.at = First + call.s /\ Here.left = Count - call.s
    /\ Moved(call.s)
    /\ Here.phase \in {"sends", "wants"} => Here.at < Size
    /\ Here.phase = "sends" => call.op = "read" /\ Here.data = media[Dev.pos][Here.at + 1]
    /\ Here.phase = "wants" => call.op = "write"

\* It writes the block that was given last.
Storing ==
    /\ Here.phase \in {"accepted", "busy"} /\ Here.op = "store" /\ call.op = "write"
    /\ call.s >= 1 /\ Here.at = First + call.s - 1 /\ Here.at < Size
    /\ Here.left = Count - call.s + 1 /\ Here.data = call.values[call.s]
    /\ Moved(call.s - 1)

\* It has refused, or failed to find, the block.
Refused ==
    /\ Here = [Resting EXCEPT !.err = TRUE]
    /\ errors > 0 \/ First + call.s >= Size

\* All has been written, but for an error in the last block.
AllOut ==
    /\ Moved(Count - 1) /\ First + Count <= Size
    /\ errors > 0 \/ Moved(Count)

Serving ==
    /\ call.pc # "params" => Selected(Chan) = Dev.pos
    /\ call.pc \in {"params", "command"} => Quiet(Dev.pos)
    /\ call.pc = "command" =>
          regs[Chan] = [sel |-> Dev.pos, mode |-> "chs", address |-> call.lba % ADDRESSES, count |-> Count]
    /\ call.pc = "poll" =>
          OnBlock({"accepted", "busy", "sends", "wants"}) \/ Storing \/ Refused
    /\ call.pc = "transfer" => OnBlock({"sends", "wants"})
    /\ call.pc = "return" => Quiet(Dev.pos) /\ Moved(Count)
    /\ call.pc \in {"flush", "flushed"} =>
          \/ Storing
          \/ AllOut /\ Quiet(Dev.pos) /\ (Here.err => errors > 0)
          \/ AllOut /\ call.pc = "flushed" /\ Here.op = "flush" /\ Here.phase \in {"accepted", "busy"}

Plain(d) == d.op # "identify" /\ d.data \in Blocks

\* Outside the channels that were given up, just the drive of the call works.
Alone ==
    call \notin DetectCalls =>
        /\ \A p \in Position : Plain(drive[p])
        /\ \A p \in Position :
              ChannelOf(p) \notin late /\ ~(InCall /\ p = Dev.pos) => Quiet(p)
        /\ InCall /\ Chan \notin late => Serving

IInv == Typed /\ Control /\ Asking /\ Alone

-----------------------------------------------------------------------------
(* Addresses and places.                                                   *)

LEMMA Sizes ==
    /\ ADDRESSES \in Nat \ {0} /\ SECTOR_NUMBERS \in Nat \ {0}
    /\ CYLINDER_NUMBERS \in Nat \ {0} /\ HEAD_NUMBERS \in Nat \ {0}
    /\ SECTOR_NUMBERS * CYLINDER_NUMBERS \in Nat \ {0}
<1> DEFINE a == SECTOR_NUMBERS
           b == CYLINDER_NUMBERS
           c == HEAD_NUMBERS
<1>1. a \in Nat \ {0} /\ b \in Nat \ {0} /\ c \in Nat \ {0}
  BY DrivesAssumption
<1>2. ADDRESSES = (c * b) * a
  BY DEF ADDRESSES
<1> HIDE DEF a, b, c
<1>3. \A x, y \in Nat \ {0} : x * y \in Nat \ {0}
  OBVIOUS
<1>4. a * b \in Nat \ {0} /\ c * b \in Nat \ {0}
  BY <1>1, <1>3
<1>5. (c * b) * a \in Nat \ {0}
  BY <1>1, <1>3, <1>4
<1>6. QED
  BY <1>1, <1>2, <1>4, <1>5 DEF a, b, c

\* What each drive is like.
LEMMA DriveIs ==
    ASSUME machine \in Machines, NEW p \in Position
    PROVE  /\ machine[p].size \in 0 .. ADDRESSES - 1
           /\ machine[p].heads \in Nat \ {0} /\ machine[p].sectors \in Nat \ {0}
           /\ machine[p] \in {Absent, Atapi} => machine[p].size = 0
           /\ Atapi # Absent
<1>1. machine[p] \in Drive
  BY DrivesAssumption
<1>2. /\ Absent = [kind |-> "absent", size |-> 0, heads |-> 1, sectors |-> 1]
      /\ Atapi = [kind |-> "atapi", size |-> 0, heads |-> 1, sectors |-> 1]
  BY DEF Absent, Atapi, Disk
<1>3. CASE machine[p] \in {Absent, Atapi}
  BY <1>2, <1>3, Sizes
<1>4. CASE \E size \in 0 .. ADDRESSES - 1, heads \in 1 .. HEAD_NUMBERS,
              sectors \in 1 .. SECTOR_NUMBERS - 1 : machine[p] = Disk(size, heads, sectors)
  <2>1. PICK size \in 0 .. ADDRESSES - 1, heads \in 1 .. HEAD_NUMBERS,
             sectors \in 1 .. SECTOR_NUMBERS - 1 : machine[p] = Disk(size, heads, sectors)
    BY <1>4
  <2>2. machine[p] = [kind |-> "disk", size |-> size, heads |-> heads, sectors |-> sectors]
    BY <2>1 DEF Disk
  <2>3. QED
    BY <1>2, <2>2, Sizes
<1>5. QED
  BY <1>1, <1>3, <1>4 DEF Drive

LEMMA Parts ==
    ASSUME NEW n \in Nat, NEW F \in Nat \ {0}
    PROVE  n \div F \in Nat /\ n % F \in Nat /\ n % F < F
BY Division

\* An address names a sector of the disk or none.
LEMMA PlaceIs ==
    ASSUME machine \in Machines, NEW p \in Position, NEW mode, NEW address \in Nat
    PROVE  Place(p, mode, address) \in 0 .. machine[p].size
<1> DEFINE S == SECTOR_NUMBERS
           C == CYLINDER_NUMBERS
           sector == address % S
           cylinder == (address \div S) % C
           head == address \div (S * C)
           m == machine[p]
           track == cylinder * m.heads + head
           before == track * m.sectors
<1>1. /\ S \in Nat \ {0} /\ C \in Nat \ {0} /\ S * C \in Nat \ {0}
      /\ m.size \in Nat /\ m.heads \in Nat /\ m.sectors \in Nat
  BY Sizes, DriveIs
<1> HIDE DEF S, C
<1>2. sector \in Nat /\ cylinder \in Nat /\ head \in Nat
  BY <1>1, Parts
<1>3. Place(p, mode, address) =
        IF mode = "lba" /\ address < m.size THEN address
        ELSE IF mode = "chs" /\ sector \in 1 .. m.sectors /\ head < m.heads
                /\ before + sector - 1 < m.size
        THEN before + sector - 1
        ELSE m.size
  BY DEF Place, S, C
<1> HIDE DEF sector, cylinder, head, m
<1>4. before \in Nat
  <2>1. \A x, y \in Nat : x * y \in Nat
    OBVIOUS
  <2>2. track \in Nat
    BY <1>1, <1>2, <2>1
  <2>3. QED
    BY <1>1, <2>1, <2>2
<1> HIDE DEF before
<1>5. Place(p, mode, address) \in 0 .. m.size
  <2> DEFINE n == before + sector - 1
  <2>1. CASE mode = "chs" /\ sector \in 1 .. m.sectors /\ n < m.size
    BY <1>1, <1>2, <1>3, <1>4, <2>1
  <2>2. CASE ~ (mode = "chs" /\ sector \in 1 .. m.sectors /\ n < m.size)
    BY <1>1, <1>3, <2>2
  <2>3. QED
    BY <2>1, <2>2
<1>6. QED
  BY <1>5 DEF m

\* An address from which on the sum has wrapped names none.
LEMMA NoneAtTheEnd ==
    ASSUME machine \in Machines, NEW p \in Position, NEW lba \in 0 .. UINT - 1,
           NEW count \in 1 .. MAX_COUNT, lba + count >= UINT
    PROVE  Place(p, "chs", lba % ADDRESSES) = machine[p].size
<1> DEFINE A == ADDRESSES
           a == lba % A
           q == lba \div A
           n == UINT \div A
<1>1. A \in Nat \ {0} /\ UINT \in Nat \ {0} /\ UINT % A = 0 /\ MAX_COUNT \in Nat /\ MAX_COUNT <= A
  BY Sizes, DriverAssumption, WrapAssumption
<1> HIDE DEF A
<1>2. lba \in Nat /\ q \in Nat /\ a \in 0 .. A - 1 /\ lba = A * q + a
  <2>1. lba \in Nat
    BY <1>1
  <2>2. QED
    BY <1>1, <2>1, Division
<1>3. n \in Nat /\ UINT = A * n
  BY <1>1, Division
<1> HIDE DEF a, q, n
<1>4. q < n
  BY <1>1, <1>2, <1>3, Times
<1>5. A * q + A <= UINT
  BY <1>1, <1>2, <1>3, <1>4, Times
<1>6. A * q \in Nat
  BY <1>1, <1>2, Times
<1>7. a \in A - MAX_COUNT .. A - 1
  BY <1>1, <1>2, <1>5, <1>6
<1>8. \/ a % SECTOR_NUMBERS \notin 1 .. machine[p].sectors
      \/ a \div (SECTOR_NUMBERS * CYLINDER_NUMBERS) >= machine[p].heads
  BY <1>7, WrapAssumption DEF A
<1>9. a \div (SECTOR_NUMBERS * CYLINDER_NUMBERS) \in Nat /\ machine[p].heads \in Nat
  <2> DEFINE t == SECTOR_NUMBERS * CYLINDER_NUMBERS
  <2>1. t \in Nat \ {0} /\ a \in Nat
    BY <1>1, <1>2, Sizes
  <2> HIDE DEF t
  <2>2. a \div t \in Nat
    BY <2>1, Parts
  <2>3. QED
    BY <2>2, DriveIs DEF t
<1>10. QED
  BY <1>8, <1>9 DEF Place, a, A

\* The drives of one machine never meet another's registers.
LEMMA Channels ==
    /\ \A p \in Position : ChannelOf(p) \in Channel
    /\ 0 \in Position /\ Position = {0, 1, 2, 3} /\ \A p \in Position : p \in Nat
BY DEF ChannelOf, Position, Channel

-----------------------------------------------------------------------------
(* Drives at rest, and one that changes.                                   *)

LEMMA AtRest ==
    /\ Junk \in Blocks
    /\ \A err \in BOOLEAN :
          LET d == [Resting EXCEPT !.err = err]
          IN  /\ Still(d) /\ Sound(d) /\ d.phase = "idle" /\ d.op = "none" /\ d.data = Junk
              /\ d.err = err /\ d = [Resting EXCEPT !.err = d.err]
    /\ Resting = [Resting EXCEPT !.err = FALSE]
<1>1. Junk \in Blocks
  BY DEF Blocks
<1>2. ASSUME NEW err \in BOOLEAN
      PROVE  LET d == [Resting EXCEPT !.err = err]
             IN  /\ Still(d) /\ Sound(d) /\ d.phase = "idle" /\ d.op = "none" /\ d.data = Junk
                 /\ d.err = err /\ d = [Resting EXCEPT !.err = d.err]
  <2>1. [Resting EXCEPT !.err = err] =
          [phase |-> "idle", op |-> "none", at |-> 0, left |-> 0, data |-> Junk, err |-> err]
    BY DEF Resting
  <2>2. Still([Resting EXCEPT !.err = err])
    BY <2>1 DEF Still, Resting
  <2>3. [Resting EXCEPT !.err = err] \in DriveStates
    BY <1>1, <2>1 DEF DriveStates, Phases, Ops, Data
  <2>4. QED
    BY <2>1, <2>2, <2>3 DEF Sound
<1>3. Resting = [Resting EXCEPT !.err = FALSE]
  <2> DEFINE d == [phase |-> "idle", op |-> "none", at |-> 0, left |-> 0, data |-> Junk, err |-> FALSE]
  <2>1. Resting = d
    BY Zenon DEF Resting
  <2>2. d = [d EXCEPT !.err = d.err]
    OBVIOUS
  <2>3. d.err = FALSE
    OBVIOUS
  <2> HIDE DEF d
  <2>4. QED
    BY <2>1, <2>2, <2>3, Zenon
<1>4. QED
  BY <1>1, <1>2, <1>3

\* What it means that a drive rests.
LEMMA Rests ==
    ASSUME NEW d, Still(d)
    PROVE  /\ Sound(d) /\ d.phase = "idle" /\ d.op = "none" /\ d.data = Junk /\ d.data \in Blocks
           /\ d.err \in BOOLEAN /\ d = [Resting EXCEPT !.err = d.err]
<1>1. \E err \in BOOLEAN : d = [Resting EXCEPT !.err = err]
  BY AtRest DEF Still
<1>2. QED
  BY <1>1, AtRest

LEMMA OneDrive ==
    ASSUME DrivesTyped, NEW p \in Position, NEW d, Sound(d), drive' = [drive EXCEPT ![p] = d]
    PROVE  DrivesTyped' /\ drive'[p] = d /\ \A q \in Position : q # p => drive'[q] = drive[q]
<1>1. drive'[p] = d /\ DOMAIN drive' = Position /\ \A q \in Position : q # p => drive'[q] = drive[q]
  BY DEF DrivesTyped
<1>2. QED
  BY <1>1 DEF DrivesTyped

\* The three kinds of calls.
LEMMA Kinds ==
    /\ \A c \in DetectCalls : c.pc \in DetectPcs /\ c.index \in Position /\ DOMAIN c = {"pc", "index"}
                              /\ c = [pc |-> c.pc, index |-> c.index]
    /\ \A c \in IOCalls : c.pc \in CallPcs /\ "op" \in DOMAIN c /\ c.op \in {"read", "write"}
    /\ Idle.pc = "idle" /\ Idle \notin DetectCalls \cup IOCalls /\ "op" \notin DOMAIN Idle
    /\ DetectCalls \cap IOCalls = {} /\ \A c \in DetectCalls : "op" \notin DOMAIN c
<1>1. \A c \in DetectCalls : c.pc \in DetectPcs /\ c.index \in Position /\ DOMAIN c = {"pc", "index"}
                             /\ c = [pc |-> c.pc, index |-> c.index]
  BY DEF DetectCalls
<1>2. \A c \in IOCalls : c.pc \in CallPcs /\ "op" \in DOMAIN c /\ c.op \in {"read", "write"}
  BY DEF IOCalls
<1>3. Idle.pc = "idle" /\ "op" \notin DOMAIN Idle
  BY DEF Idle
<1>4. QED
  BY <1>1, <1>2, <1>3 DEF DetectPcs, CallPcs

\* When a call is over and all drives rest.
LEMMA AllRest ==
    ASSUME call' = Idle, \A p \in Position : Still(drive'[p])
    PROVE  Control' /\ Asking' /\ Alone'
<1>1. call' \notin DetectCalls /\ call' \notin IOCalls
  BY Kinds
<1>2. \A p \in Position : Plain(drive'[p])
  BY Rests DEF Plain
<1>3. Control' /\ Asking'
  BY <1>1 DEF Control, Looping, Asking
<1>4. Alone'
  BY <1>1, <1>2 DEF Alone, Quiet, InCall
<1>5. QED
  BY <1>3, <1>4

LEMMA Onwards ==
    ASSUME call \in DetectCalls, Asking, NextPosition, late' = late,
           \A p \in Position : p < call.index => drive'[p] = drive[p],
           Still(drive'[call.index]),
           \A p \in Position : p > call.index => drive'[p] = drive[p]
    PROVE  Control' /\ Asking' /\ Alone'
<1>1. /\ call.index \in Position /\ late = {}
      /\ \A p \in Position : p < call.index => Still(drive[p])
      /\ \A p \in Position : p > call.index => drive[p] = Resting
  BY Kinds DEF Asking, Quiet
<1>2. \A p \in Position : p < call.index \/ p = call.index \/ p > call.index
  BY <1>1, Channels
<1>3. CASE call.index = 3
  <2>1. call' = Idle
    BY <1>3 DEF NextPosition
  <2>2. \A p \in Position : ~ (p > call.index)
    BY <1>3, Channels
  <2>3. \A p \in Position : Still(drive'[p])
    BY <1>1, <1>2, <2>2
  <2>4. QED
    BY <2>1, <2>3, AllRest
<1>4. CASE call.index # 3
  <2> DEFINE i == call.index + 1
  <2>1. call' = [pc |-> "select", index |-> i] /\ i \in Position
    BY <1>1, <1>4, Channels DEF NextPosition, Detecting
  <2>2. call' \in DetectCalls /\ call'.pc = "select" /\ call'.index = i
    BY <2>1 DEF DetectCalls, DetectPcs
  <2>3. call' \notin IOCalls
    BY <2>2, Kinds
  <2>4. \A p \in Position : p < i => Still(drive'[p])
    <3>1. \A p \in Position : p < i => p < call.index \/ p = call.index
      BY <1>1, Channels
    <3>2. QED
      BY <1>1, <3>1
  <2>5. \A p \in Position : p >= i => drive'[p] = Resting
    <3>1. \A p \in Position : p >= i => p > call.index
      BY <1>1, Channels
    <3>2. QED
      BY <1>1, <3>1
  <2>6. drive'[i] = Resting /\ \A p \in Position : p > i => drive'[p] = Resting
    BY <2>1, <2>5, Channels
  <2> HIDE DEF i
  <2>7. Control' /\ Alone'
    BY <2>2, <2>3 DEF Control, Looping, Alone
  <2>8. Asking'
    BY <1>1, <2>2, <2>4, <2>6 DEF Asking, Quiet
  <2>9. QED
    BY <2>7, <2>8
<1>5. QED
  BY <1>3, <1>4

-----------------------------------------------------------------------------
(* What the accesses to the registers and the data port do.                *)

LEMMA SameDisks == DisksTyped /\ UNCHANGED <<machine, media>> => DisksTyped'
BY DEF DisksTyped

LEMMA SameDrives == DrivesTyped /\ UNCHANGED drive => DrivesTyped'
BY DEF DrivesTyped

LEMMA SameRegs == RegsTyped /\ UNCHANGED regs => RegsTyped'
BY DEF RegsTyped, Selected

LEMMA SameDevices == DevicesTyped /\ UNCHANGED <<machine, g_blockdevs>> => DevicesTyped'
BY DEF DevicesTyped

LEMMA SelectedIs ==
    ASSUME Typed, NEW c \in Channel
    PROVE  /\ Selected(c) \in Position /\ ChannelOf(Selected(c)) = c
           /\ regs[c].count \in Nat /\ regs[c].address \in Nat
           /\ Sound(drive[Selected(c)])
BY DEF Typed, RegsTyped, DrivesTyped, Selected

LEMMA RegistersAre ==
    ASSUME Typed, NEW c \in Channel, NEW p \in Position, ChannelOf(p) = c,
           NEW mode \in {"chs", "lba"}, NEW address \in Nat, NEW count \in Nat,
           SetRegisters(c, p, mode, address, count)
    PROVE  /\ RegsTyped'
           /\ Listens(c) =>
                 regs'[c] = [sel |-> p, mode |-> mode, address |-> address, count |-> count]
           /\ \A e \in Channel : e # c => regs'[e] = regs[e]
<1> DEFINE r == [sel |-> p, mode |-> mode, address |-> address, count |-> count]
           R == [sel : Position, mode : {"chs", "lba"}, address : Nat, count : Nat]
<1>1. regs \in [Channel -> R] /\ \A e \in Channel : ChannelOf(regs[e].sel) = e
  BY DEF Typed, RegsTyped, Selected
<1>2. r \in R /\ r.sel = p
  OBVIOUS
<1>3. regs' = IF Listens(c) THEN [regs EXCEPT ![c] = r] ELSE regs
  BY DEF SetRegisters
<1> HIDE DEF r, R
<1>4. /\ regs' \in [Channel -> R] /\ \A e \in Channel : ChannelOf(regs'[e].sel) = e
      /\ Listens(c) => regs'[c] = r /\ \A e \in Channel : e # c => regs'[e] = regs[e]
      /\ ~ Listens(c) => regs' = regs
  BY <1>1, <1>2, <1>3
<1>5. QED
  BY <1>4 DEF RegsTyped, Selected, r, R

Commanded(c, op) ==
    [drive[Selected(c)] EXCEPT !.phase = "accepted", !.op = op, !.left = regs[c].count,
         !.at = Place(Selected(c), regs[c].mode, regs[c].address)]

LEMMA CommandIs ==
    ASSUME Typed, NEW c \in Channel, NEW op \in Ops, Command(c, op)
    PROVE  LET p == Selected(c)
               d == Commanded(c, op)
           IN  /\ DrivesTyped' /\ \A q \in Position : q # p => drive'[q] = drive[q]
               /\ IF machine[p] # Absent /\ Listens(c) THEN drive'[p] = d ELSE drive' = drive
               /\ d.phase = "accepted" /\ d.op = op /\ d.left = regs[c].count
               /\ d.at = Place(p, regs[c].mode, regs[c].address)
               /\ d.err = drive[p].err /\ d.data = drive[p].data
<1> DEFINE p == Selected(c)
           d == Commanded(c, op)
           at == Place(p, regs[c].mode, regs[c].address)
<1>1. p \in Position /\ regs[c].count \in Nat /\ regs[c].address \in Nat /\ Sound(drive[p])
  BY SelectedIs
<1>2. at \in Nat
  <2>1. machine \in Machines
    BY DEF Typed, DisksTyped
  <2>2. at \in 0 .. machine[p].size /\ machine[p].size \in 0 .. ADDRESSES - 1
    BY <1>1, <2>1, PlaceIs, DriveIs
  <2> HIDE DEF at
  <2>3. QED
    BY <2>2, Sizes
<1>3. /\ d.phase = "accepted" /\ d.op = op /\ d.left = regs[c].count /\ d.at = at
      /\ d.err = drive[p].err /\ d.data = drive[p].data /\ d \in DriveStates
  <2> HIDE DEF at
  <2>1. drive[p] \in DriveStates
    BY <1>1 DEF Sound
  <2>2. d = [drive[p] EXCEPT !.phase = "accepted", !.op = op, !.left = regs[c].count, !.at = at]
    BY DEF Commanded, at
  <2> HIDE DEF p, d
  <2>3. QED
    BY <1>1, <1>2, <2>1, <2>2 DEF DriveStates, Phases
<1>4. Sound(d)
  BY <1>3 DEF Sound
<1>5. drive' = IF machine[p] # Absent /\ Listens(c) THEN [drive EXCEPT ![p] = d] ELSE drive
  BY DEF Command, Commanded
<1>6. DrivesTyped
  BY DEF Typed
<1> HIDE DEF p, d, at
<1>7. CASE machine[p] # Absent /\ Listens(c)
  <2>1. drive' = [drive EXCEPT ![p] = d]
    BY <1>5, <1>7
  <2>2. DrivesTyped' /\ drive'[p] = d /\ \A q \in Position : q # p => drive'[q] = drive[q]
    BY <1>1, <1>4, <1>6, <2>1, OneDrive
  <2>3. QED
    BY <1>3, <1>7, <2>2 DEF p, d, at
<1>8. CASE ~ (machine[p] # Absent /\ Listens(c))
  <2>1. drive' = drive
    BY <1>5, <1>8
  <2>2. DrivesTyped'
    BY <1>6, <2>1, SameDrives
  <2>3. QED
    BY <1>3, <1>8, <2>1, <2>2 DEF p, d, at
<1>9. QED
  BY <1>7, <1>8

\* The next sector of a read begins, or the read is over.
Onto(d) == [d EXCEPT !.phase = "accepted", !.data = Junk, !.at = d.at + 1, !.left = d.left - 1]

LEMMA TakeDataIs ==
    ASSUME Typed, NEW c \in Channel, TakeData(c)
    PROVE  LET p == Selected(c)
               d == Onto(drive[p])
           IN  /\ DrivesTyped' /\ \A q \in Position : q # p => drive'[q] = drive[q]
               /\ drive[p].phase # "sends" => drive' = drive
               /\ drive[p].phase = "sends" /\ drive[p].left <= 1 => drive'[p] = Resting
               /\ drive[p].phase = "sends" /\ ~ (drive[p].left <= 1) => drive'[p] = d
               /\ d.phase = "accepted" /\ d.op = drive[p].op /\ d.err = drive[p].err
               /\ d.at = drive[p].at + 1 /\ d.left = drive[p].left - 1 /\ d.data = Junk
<1> DEFINE p == Selected(c)
           d == Onto(drive[p])
<1>1. p \in Position /\ Sound(drive[p]) /\ drive[p] \in DriveStates /\ DrivesTyped
  BY SelectedIs DEF Sound, Typed
<1>2. Junk \in Data
  BY AtRest DEF Data
<1>3. /\ d.phase = "accepted" /\ d.op = drive[p].op /\ d.err = drive[p].err
      /\ d.at = drive[p].at + 1 /\ d.left = drive[p].left - 1 /\ d.data = Junk
      /\ ~ (drive[p].left <= 1) => d \in DriveStates
  <2> HIDE DEF p
  <2> DEFINE at == drive[p].at + 1
             left == drive[p].left - 1
  <2>1. /\ drive[p].at \in Nat /\ drive[p].left \in Nat
        /\ at \in Nat /\ (~ (drive[p].left <= 1) => left \in Nat)
    BY <1>1 DEF DriveStates
  <2>2. d = [drive[p] EXCEPT !.phase = "accepted", !.data = Junk, !.at = at, !.left = left]
    BY DEF Onto
  <2> HIDE DEF d, at, left
  <2>3. /\ d.phase = "accepted" /\ d.op = drive[p].op /\ d.err = drive[p].err
        /\ d.at = at /\ d.left = left /\ d.data = Junk
    BY <1>1, <2>2 DEF DriveStates
  <2>4. left \in Nat => d \in DriveStates
    BY <1>1, <1>2, <2>1, <2>2 DEF DriveStates, Phases
  <2>5. QED
    BY <2>1, <2>3, <2>4 DEF at, left
<1>4. ~ (drive[p].left <= 1) => Sound(d)
  BY <1>3 DEF Sound
<1>5. CASE drive[p].phase # "sends"
  <2>1. drive' = drive
    BY <1>5 DEF TakeData
  <2>2. QED
    BY <1>1, <1>3, <1>5, <2>1, SameDrives
<1>6. CASE drive[p].phase = "sends" /\ drive[p].left <= 1
  <2>1. drive' = [drive EXCEPT ![p] = Resting]
    BY <1>6, AtRest DEF TakeData, Rest
  <2>2. Sound(Resting)
    BY AtRest
  <2>3. DrivesTyped' /\ drive'[p] = Resting /\ \A q \in Position : q # p => drive'[q] = drive[q]
    BY <1>1, <2>1, <2>2, OneDrive
  <2>4. QED
    BY <1>3, <1>6, <2>3
<1>7. CASE drive[p].phase = "sends" /\ ~ (drive[p].left <= 1)
  <2>1. drive' = [drive EXCEPT ![p] = d]
    BY <1>7 DEF TakeData, Onto
  <2> HIDE DEF d
  <2>2. DrivesTyped' /\ drive'[p] = d /\ \A q \in Position : q # p => drive'[q] = drive[q]
    BY <1>1, <1>4, <1>7, <2>1, OneDrive
  <2>3. QED
    BY <1>3, <1>7, <2>2 DEF d
<1>8. QED
  BY <1>5, <1>6, <1>7

Given(d, value) == [d EXCEPT !.phase = "accepted", !.op = "store", !.data = value]

LEMMA GiveDataIs ==
    ASSUME Typed, NEW c \in Channel, NEW value \in Blocks, GiveData(c, value)
    PROVE  LET p == Selected(c)
               d == Given(drive[p], value)
           IN  /\ DrivesTyped' /\ \A q \in Position : q # p => drive'[q] = drive[q]
               /\ IF drive[p].phase = "wants" THEN drive'[p] = d ELSE drive' = drive
               /\ d.phase = "accepted" /\ d.op = "store" /\ d.err = drive[p].err
               /\ d.at = drive[p].at /\ d.left = drive[p].left /\ d.data = value
<1> DEFINE p == Selected(c)
           d == Given(drive[p], value)
<1>1. p \in Position /\ Sound(drive[p]) /\ drive[p] \in DriveStates /\ DrivesTyped
  BY SelectedIs DEF Sound, Typed
<1>2. value \in Data
  BY DEF Data
<1>3. /\ d.phase = "accepted" /\ d.op = "store" /\ d.err = drive[p].err
      /\ d.at = drive[p].at /\ d.left = drive[p].left /\ d.data = value /\ d \in DriveStates
  <2> HIDE DEF p
  <2>1. QED
    BY <1>1, <1>2 DEF DriveStates, Phases, Ops, Given
<1>4. Sound(d)
  BY <1>3 DEF Sound
<1>5. CASE drive[p].phase # "wants"
  <2>1. drive' = drive
    BY <1>5 DEF GiveData
  <2>2. QED
    BY <1>1, <1>3, <1>5, <2>1, SameDrives
<1>6. CASE drive[p].phase = "wants"
  <2>1. drive' = [drive EXCEPT ![p] = d]
    BY <1>6 DEF GiveData, Given
  <2> HIDE DEF d
  <2>2. DrivesTyped' /\ drive'[p] = d /\ \A q \in Position : q # p => drive'[q] = drive[q]
    BY <1>1, <1>4, <2>1, OneDrive
  <2>3. QED
    BY <1>3, <1>6, <2>2 DEF d
<1>7. QED
  BY <1>5, <1>6

-----------------------------------------------------------------------------
(* The boot keeps the invariant.                                           *)

LEMMA Boot ==
    ASSUME IInv, call.pc \in DetectPcs
    PROVE  /\ call \in DetectCalls /\ call.index \in Position /\ DetectedOn \in Channel
           /\ Asking /\ Typed /\ late = {}
           /\ \A p \in Position : p < call.index \/ p = call.index \/ p > call.index
<1>1. call \in {Idle} \cup DetectCalls \cup IOCalls
  BY DEF IInv, Control
<1>2. call \in DetectCalls
  BY <1>1, Kinds DEF DetectPcs, CallPcs
<1>3. call.index \in Position
  BY <1>2, Kinds
<1>4. QED
  BY <1>2, <1>3, Channels DEF IInv, DetectedOn, Asking

LEMMA GotoDetect ==
    ASSUME call \in DetectCalls, NEW pc \in DetectPcs, Goto(pc)
    PROVE  /\ call' \in DetectCalls /\ call'.pc = pc /\ call'.index = call.index
           /\ Control' /\ Alone'
<1>1. call' \in DetectCalls /\ call'.pc = pc /\ call'.index = call.index
  BY DEF DetectCalls, Goto
<1>2. call' \notin IOCalls
  BY <1>1, Kinds
<1>3. QED
  BY <1>1, <1>2 DEF Control, Looping, Alone

LEMMA SelectKeeps == IInv /\ Select => IInv'
<1> SUFFICES ASSUME IInv, Select PROVE IInv'
  OBVIOUS
<1>a. call.pc = "select"
  BY DEF Select, At
<1>b. call.index \in Position /\ DetectedOn \in Channel
  BY <1>a, Boot DEF DetectPcs
<1>0. PICK i \in Position, c \in Channel : i = call.index /\ c = DetectedOn
  BY <1>b
<1>1. call.pc = "select" /\ SetRegisters(c, i, "lba", 0, 0) /\ Goto("identify")
  BY <1>0 DEF Select, At
<1>2. UNCHANGED <<machine, media, drive, errors, g_blockdevs, reply, late>>
  BY DEF Select
<1>3. /\ call \in DetectCalls /\ i \in Position /\ c \in Channel /\ Asking /\ Typed /\ late = {}
      /\ \A p \in Position : p < i \/ p = i \/ p > i
  BY <1>0, <1>1, Boot DEF DetectPcs
<1>4. /\ call' \in DetectCalls /\ call'.pc = "identify" /\ call'.index = i
      /\ Control' /\ Alone'
  BY <1>0, <1>1, <1>3, GotoDetect DEF DetectPcs
<1>5. /\ \A p \in Position : p < i => Quiet(p)
      /\ \A p \in Position : p > i => drive[p] = Resting
      /\ drive[i] = Resting
  BY <1>0, <1>1, <1>3 DEF Asking
<1>6. \A p \in Position : Quiet(p)
  BY <1>0, <1>3, <1>5, AtRest DEF Quiet
<1>7. ChannelOf(i) = c
  BY <1>0 DEF DetectedOn
<1>8. Listens(c)
  BY <1>0, <1>3, <1>6, SelectedIs, Rests DEF Listens, Quiet
<1>9. RegsTyped' /\ regs'[c] = [sel |-> i, mode |-> "lba", address |-> 0, count |-> 0]
  BY <1>0, <1>1, <1>3, <1>7, <1>8, RegistersAre
<1>10. Typed'
  <2>1. DisksTyped' /\ DrivesTyped' /\ DevicesTyped'
    BY <1>0, <1>2, <1>3, SameDisks, SameDrives, SameDevices DEF Typed
  <2>2. QED
    BY <1>0, <1>2, <1>3, <1>9, <2>1 DEF Typed
<1>11. Asking'
  <2>1. DetectedOn' = c
    BY <1>0, <1>4 DEF DetectedOn
  <2>2. regs'[c].sel = i /\ regs'[c].count = 0
    BY <1>0, <1>9
  <2>3. \A p \in Position : Quiet(p) => Quiet(p)'
    BY <1>0, <1>2 DEF Quiet
  <2>4. QED
    BY <1>0, <1>2, <1>3, <1>4, <1>5, <2>1, <2>2, <2>3 DEF Asking, Selected
<1>12. QED
  BY <1>0, <1>4, <1>10, <1>11 DEF IInv

LEMMA IdentifyKeeps == IInv /\ Identify => IInv'
<1> SUFFICES ASSUME IInv, Identify PROVE IInv'
  OBVIOUS
<1>a. call.pc = "identify"
  BY DEF Identify, At
<1>b. call.index \in Position /\ DetectedOn \in Channel
  BY <1>a, Boot DEF DetectPcs
<1>0. PICK i \in Position, c \in Channel : i = call.index /\ c = DetectedOn
  BY <1>b
<1>1. call.pc = "identify" /\ Command(c, "identify") /\ Goto("probe")
  BY <1>0 DEF Identify, At
<1>2. UNCHANGED <<machine, media, regs, errors, g_blockdevs, reply, late>>
  BY DEF Identify
<1>3. /\ call \in DetectCalls /\ i \in Position /\ c \in Channel /\ Asking /\ Typed /\ late = {}
  BY <1>0, <1>1, Boot DEF DetectPcs
<1>4. /\ call' \in DetectCalls /\ call'.pc = "probe" /\ call'.index = i
      /\ Control' /\ Alone'
  BY <1>0, <1>1, <1>3, GotoDetect DEF DetectPcs
<1>5. /\ \A p \in Position : p < i => Quiet(p)
      /\ \A p \in Position : p > i => drive[p] = Resting
      /\ drive[i] = Resting /\ Selected(c) = i /\ regs[c].count = 0
  BY <1>0, <1>1, <1>3 DEF Asking
<1>6. drive[i].phase = "idle" /\ drive[i].err = FALSE /\ Still(drive[i])
  BY <1>0, <1>5, AtRest
<1>7. Listens(c)
  BY <1>0, <1>5, <1>6 DEF Listens
<1> DEFINE d == Commanded(c, "identify")
<1>8. /\ DrivesTyped' /\ \A q \in Position : q # i => drive'[q] = drive[q]
      /\ IF machine[i] # Absent THEN drive'[i] = d ELSE drive' = drive
      /\ d.phase = "accepted" /\ d.op = "identify" /\ d.left = 0 /\ d.err = FALSE
  BY <1>0, <1>1, <1>3, <1>5, <1>6, <1>7, CommandIs DEF Ops
<1>9. Typed'
  <2>1. DisksTyped' /\ RegsTyped' /\ DevicesTyped'
    BY <1>0, <1>2, <1>3, SameDisks, SameRegs, SameDevices DEF Typed
  <2>2. QED
    BY <1>0, <1>2, <1>3, <1>8, <2>1 DEF Typed
<1>10. Asking'
  <2>1. DetectedOn' = c
    BY <1>0, <1>4 DEF DetectedOn
  <2>2. regs'[c].sel = i /\ regs'[c].count = 0
    BY <1>0, <1>2, <1>5 DEF Selected
  <2>3. \A p \in Position : p < i => Quiet(p)'
    BY <1>0, <1>3, <1>5, <1>8, Channels DEF Quiet
  <2>4. \A p \in Position : p > i => drive'[p] = Resting
    BY <1>0, <1>3, <1>5, <1>8, Channels
  <2>5. IF machine'[i] = Absent THEN Quiet(i)' ELSE Identifying(i)'
    <3> HIDE DEF d
    <3>1. QED
      BY <1>0, <1>2, <1>6, <1>8 DEF Quiet, Identifying
  <2>6. QED
    BY <1>0, <1>2, <1>3, <1>4, <2>1, <2>2, <2>3, <2>4, <2>5 DEF Asking, Selected
<1>11. QED
  BY <1>0, <1>4, <1>9, <1>10 DEF IInv

\* A look at the status register alone.
LEMMA Looks ==
    ASSUME IInv, call.pc \in {"probe", "busy", "signature"},
           NEW pc \in {"busy", "signature", "data"}, Goto(pc),
           machine[call.index] # Absent,
           UNCHANGED <<hardware, g_blockdevs, reply, late>>
    PROVE  IInv'
<1>b. call.index \in Position /\ DetectedOn \in Channel
  BY Boot DEF DetectPcs
<1>0. PICK i \in Position, c \in Channel : i = call.index /\ c = DetectedOn
  BY <1>b
<1>1. /\ call \in DetectCalls /\ i \in Position /\ c \in Channel /\ Asking /\ Typed /\ late = {}
  BY <1>0, Boot DEF DetectPcs
<1>2. /\ call' \in DetectCalls /\ call'.pc = pc /\ call'.index = i
      /\ Control' /\ Alone'
  BY <1>0, <1>1, GotoDetect DEF DetectPcs
<1>3. /\ \A p \in Position : p < i => Quiet(p)
      /\ \A p \in Position : p > i => drive[p] = Resting
      /\ Selected(c) = i /\ regs[c].count = 0 /\ Identifying(i)
  BY <1>0, <1>1 DEF Asking
<1>4. UNCHANGED <<machine, media, drive, regs, errors>>
  BY DEF hardware
<1>5. Typed'
  <2>1. DisksTyped' /\ RegsTyped' /\ DevicesTyped' /\ DrivesTyped'
    BY <1>0, <1>1, <1>4, SameDisks, SameRegs, SameDevices, SameDrives DEF Typed
  <2>2. QED
    BY <1>0, <1>1, <1>4, <2>1 DEF Typed
<1>6. Asking'
  <2>1. DetectedOn' = c
    BY <1>0, <1>2 DEF DetectedOn
  <2>2. regs'[c].sel = i /\ regs'[c].count = 0
    BY <1>0, <1>3, <1>4 DEF Selected
  <2>3. \A p \in Position : p < i => Quiet(p)'
    BY <1>0, <1>3, <1>4 DEF Quiet
  <2>4. Identifying(i)'
    BY <1>0, <1>3, <1>4 DEF Identifying
  <2>5. QED
    BY <1>0, <1>1, <1>2, <1>3, <1>4, <2>1, <2>2, <2>3, <2>4 DEF Asking, Selected
<1>7. QED
  BY <1>0, <1>2, <1>5, <1>6 DEF IInv

\* The next position is looked at when the drive of this one rests.
LEMMA Leaves ==
    ASSUME IInv, call.pc \in DetectPcs, Quiet(call.index), NextPosition,
           UNCHANGED <<hardware, g_blockdevs, reply, late>>
    PROVE  IInv'
<1>1. call \in DetectCalls /\ call.index \in Position /\ Asking /\ Typed
  BY Boot
<1>2. UNCHANGED <<machine, media, drive, regs, errors>>
  BY DEF hardware
<1>3. Still(drive'[call.index])
  BY <1>2 DEF Quiet
<1>4. Control' /\ Asking' /\ Alone'
  BY <1>1, <1>2, <1>3, Onwards
<1>5. DisksTyped' /\ RegsTyped' /\ DevicesTyped' /\ DrivesTyped'
  BY <1>1, <1>2, SameDisks, SameRegs, SameDevices, SameDrives DEF Typed
<1>6. Typed'
  BY <1>1, <1>2, <1>5 DEF Typed
<1>7. QED
  BY <1>4, <1>6 DEF IInv

LEMMA ProbeKeeps == IInv /\ Probe => IInv'
<1> SUFFICES ASSUME IInv, Probe PROVE IInv'
  OBVIOUS
<1>1. /\ call.pc = "probe" /\ UNCHANGED <<hardware, g_blockdevs, reply, late>>
      /\ IF Status(DetectedOn) = {} THEN NextPosition
         ELSE Goto(IF "BSY" \in Status(DetectedOn) THEN "busy" ELSE "signature")
  BY DEF Probe, At
<1>2. Selected(DetectedOn) = call.index /\ (machine[call.index] = Absent => Quiet(call.index))
  BY <1>1, Boot DEF Asking, DetectPcs
<1>3. Status(DetectedOn) = {} <=> machine[call.index] = Absent
  BY <1>2 DEF Status
<1>4. CASE Status(DetectedOn) = {}
  BY <1>1, <1>2, <1>3, <1>4, Leaves DEF DetectPcs
<1>5. CASE Status(DetectedOn) # {}
  <2> DEFINE pc == IF "BSY" \in Status(DetectedOn) THEN "busy" ELSE "signature"
  <2>1. pc \in {"busy", "signature", "data"} /\ Goto(pc)
    BY <1>1, <1>5
  <2> HIDE DEF pc
  <2>2. QED
    BY <1>1, <1>3, <1>5, <2>1, Looks
<1>6. QED
  BY <1>4, <1>5

LEMMA NotBusyKeeps == IInv /\ NotBusy => IInv'
<1> SUFFICES ASSUME IInv, NotBusy PROVE IInv'
  OBVIOUS
<1>1. call.pc = "busy" /\ Goto("signature") /\ UNCHANGED <<hardware, g_blockdevs, reply, late>>
  BY DEF NotBusy, At
<1>2. machine[call.index] # Absent
  BY <1>1, Boot DEF Asking, DetectPcs
<1>3. QED
  BY <1>1, <1>2, Looks

LEMMA SignatureKeeps == IInv /\ Signature => IInv'
<1> SUFFICES ASSUME IInv, Signature PROVE IInv'
  OBVIOUS
<1>1. /\ call.pc = "signature" /\ UNCHANGED <<hardware, g_blockdevs, reply, late>>
      /\ IF machine[call.index] = Atapi /\ drive[call.index].err THEN NextPosition ELSE Goto("data")
  BY DEF Signature, At
<1>2. machine[call.index] # Absent /\ Identifying(call.index)
  BY <1>1, Boot DEF Asking, DetectPcs
<1>3. CASE machine[call.index] = Atapi /\ drive[call.index].err
  <2>1. Quiet(call.index)
    BY <1>2, <1>3 DEF Identifying, Quiet, Still
  <2>2. QED
    BY <1>1, <1>3, <2>1, Leaves DEF DetectPcs
<1>4. CASE ~ (machine[call.index] = Atapi /\ drive[call.index].err)
  <2>1. Goto("data")
    BY <1>1, <1>4
  <2>2. QED
    BY <1>1, <1>2, <2>1, Looks
<1>5. QED
  BY <1>3, <1>4

LEMMA IdentifyFailsKeeps == IInv /\ IdentifyFails => IInv'
<1> SUFFICES ASSUME IInv, IdentifyFails PROVE IInv'
  OBVIOUS
<1>1. /\ call.pc = "data" /\ UNCHANGED <<hardware, g_blockdevs, reply, late>>
      /\ "ERR" \in Status(DetectedOn) /\ NextPosition
  BY DEF IdentifyFails, At
<1>2. /\ machine[call.index] # Absent /\ Identifying(call.index)
      /\ Selected(DetectedOn) = call.index
  BY <1>1, Boot DEF Asking, DetectPcs
<1>3. drive[call.index].err
  BY <1>1, <1>2 DEF Status
<1>4. Quiet(call.index)
  BY <1>2, <1>3 DEF Identifying, Quiet, Still
<1>5. QED
  BY <1>1, <1>4, Leaves DEF DetectPcs

LEMMA RegisterKeeps == IInv /\ Register => IInv'
<1> SUFFICES ASSUME IInv, Register PROVE IInv'
  OBVIOUS
<1> DEFINE i == call.index
           c == DetectedOn
           dev == NewDevice(i, Offered(c)[2])
<1>1. /\ call.pc = "data" /\ "DRQ" \in Status(c) /\ TakeData(c)
      /\ BlockRegister(dev) /\ NextPosition
      /\ UNCHANGED <<machine, media, regs, errors, reply, late>>
  BY DEF Register, At
<1>2. /\ call \in DetectCalls /\ i \in Position /\ c \in Channel /\ Asking /\ Typed /\ late = {}
      /\ \A p \in Position : p < i \/ p = i \/ p > i
  BY <1>1, Boot DEF DetectPcs
<1>3. machine[i] # Absent /\ Identifying(i) /\ Selected(c) = i
  BY <1>1, <1>2 DEF Asking
<1>4. drive[i].phase \in {"sends", "wants"}
  BY <1>1, <1>3 DEF Status
<1>5. drive[i].phase = "sends" /\ drive[i].left = 0 /\ drive[i].data = Report(machine[i].size)
  BY <1>3, <1>4, AtRest DEF Identifying
<1>6. Offered(c)[2] = machine[i].size
  BY <1>3, <1>5 DEF Offered, Report
<1>7. DrivesTyped' /\ drive'[i] = Resting /\ \A q \in Position : q # i => drive'[q] = drive[q]
  BY <1>1, <1>2, <1>3, <1>5, TakeDataIs
<1>8. Control' /\ Asking' /\ Alone'
  <2>1. Still(drive'[i])
    BY <1>7, AtRest
  <2>2. /\ \A p \in Position : p < i => drive'[p] = drive[p]
        /\ \A p \in Position : p > i => drive'[p] = drive[p]
    BY <1>2, <1>7, Channels
  <2>3. QED
    BY <1>1, <1>2, <2>1, <2>2, Onwards
<1>9. DevicesTyped'
  <2>1. dev = [pos |-> i, sector_count |-> machine[i].size]
    BY <1>6 DEF NewDevice
  <2>2. machine[i].size \in Nat /\ DevicesTyped /\ BLOCKDEV_MAX \in Nat
    <3>1. machine \in Machines /\ DevicesTyped
      BY <1>2 DEF Typed, DisksTyped
    <3>2. QED
      BY <1>2, <3>1, DriveIs, Sizes, DriverAssumption
  <2>3. CASE dev.sector_count > 0 /\ Len(g_blockdevs) < BLOCKDEV_MAX
    <3>1. dev \in Devices /\ machine[dev.pos].size = dev.sector_count
      BY <1>2, <2>1, <2>2, <2>3 DEF Devices
    <3>2. g_blockdevs' = Append(g_blockdevs, dev)
      BY <1>1, <2>3 DEF BlockRegister
    <3> HIDE DEF dev
    <3>3. /\ g_blockdevs' \in Seq(Devices) /\ Len(g_blockdevs') = Len(g_blockdevs) + 1
          /\ \A k \in DOMAIN g_blockdevs' :
                IF k = Len(g_blockdevs) + 1 THEN g_blockdevs'[k] = dev
                ELSE k \in DOMAIN g_blockdevs /\ g_blockdevs'[k] = g_blockdevs[k]
      BY <2>2, <3>1, <3>2 DEF DevicesTyped
    <3>4. Len(g_blockdevs') <= BLOCKDEV_MAX
      BY <2>2, <2>3, <3>3 DEF DevicesTyped
    <3>5. QED
      BY <1>1, <2>2, <3>1, <3>3, <3>4 DEF DevicesTyped
  <2>4. CASE ~ (dev.sector_count > 0 /\ Len(g_blockdevs) < BLOCKDEV_MAX)
    <3>1. g_blockdevs' = g_blockdevs
      BY <1>1, <2>4 DEF BlockRegister
    <3>2. QED
      BY <1>1, <2>2, <3>1, SameDevices
  <2>5. QED
    BY <2>3, <2>4
<1>10. DisksTyped' /\ RegsTyped'
  BY <1>1, <1>2, SameDisks, SameRegs DEF Typed
<1>11. Typed'
  BY <1>1, <1>2, <1>7, <1>9, <1>10 DEF Typed
<1>12. QED
  BY <1>8, <1>11 DEF IInv

-----------------------------------------------------------------------------
(* The calls of the driver keep the invariant.                             *)

LEMMA InIO ==
    ASSUME IInv, call.pc \in CallPcs
    PROVE  /\ call \in IOCalls /\ InCall /\ InLoop(call) /\ Typed
           /\ call.op \in {"read", "write"} /\ call.lba \in 0 .. UINT - 1 /\ call.s \in Nat
           /\ call.values \in Seq(Blocks) /\ Count \in 1 .. MAX_COUNT /\ Count \in Nat
           /\ call.dev \in DOMAIN g_blockdevs /\ Dev \in Devices
           /\ Dev.pos \in Position /\ Chan \in Channel /\ machine[Dev.pos] # Absent
           /\ Size \in Nat \ {0} /\ Size = Dev.sector_count /\ First \in 0 .. Size
           /\ \A p \in Position : Plain(drive[p])
           /\ \A p \in Position : ChannelOf(p) \notin late /\ p # Dev.pos => Quiet(p)
           /\ Chan \notin late => Serving
<1>1. call \in {Idle} \cup DetectCalls \cup IOCalls /\ Looping /\ Typed /\ Alone
  BY DEF IInv, Control
<1>2. call \in IOCalls /\ call \notin DetectCalls /\ InCall
  BY <1>1, Kinds DEF DetectPcs, CallPcs, InCall
<1>3. /\ InLoop(call) /\ call.dev \in DOMAIN g_blockdevs
      /\ call.op \in {"read", "write"} /\ call.lba \in 0 .. UINT - 1 /\ call.s \in Nat
      /\ call.values \in Seq(Blocks) /\ Count \in 1 .. MAX_COUNT
  BY <1>1, <1>2 DEF Looping, InLoop, IOCalls, Count
<1>4. Count \in Nat
  BY <1>3, DriverAssumption
<1>5. Dev \in Devices /\ machine[Dev.pos].size = Dev.sector_count
  BY <1>1, <1>3 DEF Dev, Typed, DevicesTyped
<1>6. Dev.pos \in Position /\ Dev.sector_count \in Nat \ {0} /\ Chan \in Channel
  BY <1>5, Channels DEF Devices, Chan
<1>7. Size \in Nat \ {0} /\ Size = Dev.sector_count
  BY <1>5, <1>6 DEF Size
<1>8. machine \in Machines
  BY <1>1 DEF Typed, DisksTyped
<1>9. machine[Dev.pos] # Absent
  BY <1>6, <1>7, <1>8, DriveIs DEF Size
<1>10. First \in 0 .. Size
  <2>1. call.lba \in Nat /\ call.lba % ADDRESSES \in Nat
    <3>1. call.lba \in Nat
      BY <1>3, DriverAssumption
    <3>2. QED
      BY <3>1, Sizes, Parts
  <2>2. QED
    BY <1>6, <1>8, <2>1, PlaceIs DEF First, Size
<1>11. /\ \A p \in Position : Plain(drive[p])
       /\ \A p \in Position : ChannelOf(p) \notin late /\ p # Dev.pos => Quiet(p)
       /\ Chan \notin late => Serving
  BY <1>1, <1>2 DEF Alone
<1>12. QED
  BY <1>1, <1>2, <1>3, <1>4, <1>5, <1>6, <1>7, <1>9, <1>10, <1>11

\* What stays of a call from step to step.
SameCall ==
    /\ call' \in IOCalls /\ call'.op = call.op /\ call'.dev = call.dev /\ call'.lba = call.lba
    /\ Len(call'.values) = Len(call.values)
    /\ UNCHANGED <<machine, g_blockdevs>>

LEMMA SameCallIs ==
    ASSUME SameCall
    PROVE  /\ InCall' /\ Dev' = Dev /\ Chan' = Chan /\ Count' = Count
           /\ Size' = Size /\ First' = First
<1>1. Dev' = Dev
  BY DEF SameCall, Dev
<1>2. Chan' = Chan /\ Count' = Count /\ Size' = Size /\ InCall'
  BY <1>1 DEF SameCall, Chan, Count, Size, InCall
<1>3. First' = First
  BY <1>1 DEF SameCall, First, Place
<1>4. QED
  BY <1>1, <1>2, <1>3

LEMMA CallGoesOn ==
    ASSUME IInv, call.pc \in CallPcs, SameCall, InLoop(call'), Typed', late' = late,
           \A p \in Position : Plain(drive'[p]),
           \A p \in Position : ChannelOf(p) # Chan => drive'[p] = drive[p],
           Chan \notin late =>
              /\ Serving'
              /\ \A p \in Position : p # Dev.pos => drive'[p] = drive[p]
    PROVE  IInv'
<1>1. /\ call \in IOCalls /\ call.dev \in DOMAIN g_blockdevs /\ Chan \in Channel
      /\ \A p \in Position : ChannelOf(p) \notin late /\ p # Dev.pos => Quiet(p)
  BY InIO
<1>2. /\ InCall' /\ Dev' = Dev /\ Chan' = Chan /\ Count' = Count
  BY SameCallIs
<1>3. call' \in IOCalls /\ call' \notin DetectCalls
  BY Kinds DEF SameCall
<1>4. /\ Admits(call.dev, call.lba, Count)
      /\ call.op = "write" => call.lba + Count <= Dev.sector_count
  BY <1>1 DEF IInv, Control, Looping
<1>5. Control'
  <2>1. Admits(call.dev, call.lba, Count)'
    BY <1>2, <1>4 DEF Admits, SameCall
  <2>2. QED
    BY <1>1, <1>2, <1>3, <1>4, <2>1 DEF Control, Looping, SameCall
<1>6. Asking'
  BY <1>3 DEF Asking
<1>7. Alone'
  <2>1. ASSUME NEW p \in Position, ChannelOf(p) \notin late, p # Dev.pos
        PROVE  Quiet(p)'
    <3>1. drive'[p] = drive[p]
      BY <2>1
    <3>2. QED
      BY <1>1, <2>1, <3>1 DEF Quiet
  <2>2. QED
    BY <1>2, <1>3, <2>1 DEF Alone
<1>8. QED
  BY <1>5, <1>6, <1>7 DEF IInv

LEMMA CallEnds ==
    ASSUME IInv, call.pc \in CallPcs, call' = Idle, UNCHANGED <<hardware, g_blockdevs>>,
           late' \in {late, late \cup {Chan}}, Chan \notin late' => Quiet(Dev.pos),
           reply' \in Replies
    PROVE  IInv'
<1>1. /\ Typed /\ Chan \in Channel
      /\ \A p \in Position : Plain(drive[p])
      /\ \A p \in Position : ChannelOf(p) \notin late /\ p # Dev.pos => Quiet(p)
  BY InIO
<1>2. UNCHANGED <<machine, media, drive, regs, errors>>
  BY DEF hardware
<1>3. Typed'
  <2>1. DisksTyped' /\ RegsTyped' /\ DevicesTyped' /\ DrivesTyped'
    BY <1>1, <1>2, SameDisks, SameRegs, SameDevices, SameDrives DEF Typed
  <2>2. QED
    BY <1>1, <1>2, <2>1 DEF Typed
<1>4. call' \notin DetectCalls /\ call' \notin IOCalls
  BY Kinds
<1>5. ASSUME NEW p \in Position, ChannelOf(p) \notin late' PROVE Quiet(p)'
  <2>1. Quiet(p)
    <3>1. CASE p = Dev.pos
      BY <1>5, <3>1 DEF Chan
    <3>2. CASE p # Dev.pos
      BY <1>1, <1>5, <3>2
    <3>3. QED
      BY <3>1, <3>2
  <2>2. QED
    BY <1>2, <2>1 DEF Quiet
<1>6. Control' /\ Asking' /\ Alone'
  BY <1>1, <1>2, <1>4, <1>5 DEF Control, Looping, Asking, Alone, InCall
<1>7. QED
  BY <1>3, <1>6 DEF IInv

LEMMA GotoCall ==
    ASSUME call \in IOCalls, NEW pc \in CallPcs, Goto(pc), UNCHANGED <<machine, g_blockdevs>>
    PROVE  /\ SameCall /\ call'.pc = pc /\ call'.s = call.s /\ call'.values = call.values
<1>1. /\ call' \in IOCalls /\ call'.pc = pc /\ call'.s = call.s /\ call'.values = call.values
      /\ call'.op = call.op /\ call'.dev = call.dev /\ call'.lba = call.lba
  BY DEF IOCalls, Goto
<1>2. QED
  BY <1>1 DEF SameCall

\* A call begins, or is refused for its bounds.
LEMMA RequestKeeps ==
    ASSUME IInv, NEW op \in {"read", "write"}, NEW dev \in DOMAIN g_blockdevs,
           NEW lba \in 0 .. UINT - 1, NEW values \in Seq(Blocks), Len(values) \in 1 .. MAX_COUNT,
           op = "write" => lba + Len(values) < UINT,
           Request(op, dev, lba, values)
    PROVE  IInv'
<1>1. /\ call.pc = "idle" /\ UNCHANGED <<hardware, g_blockdevs, late>>
      /\ IF Admits(dev, lba, Len(values))
         THEN call' = [pc |-> "params", op |-> op, dev |-> dev, lba |-> lba,
                       values |-> values, s |-> 0] /\ UNCHANGED reply
         ELSE call' = Idle /\ reply' = Failed
  BY DEF Request, At
<1>2. Typed /\ Control /\ Alone
  BY DEF IInv
<1>3. call \notin DetectCalls /\ call \notin IOCalls
  BY <1>1, Kinds DEF DetectPcs, CallPcs
<1>4. /\ \A p \in Position : Plain(drive[p])
      /\ \A p \in Position : ChannelOf(p) \notin late => Quiet(p)
  BY <1>2, <1>3 DEF Alone, InCall
<1>5. UNCHANGED <<machine, media, drive, regs, errors>>
  BY <1>1 DEF hardware
<1>6. reply' \in Replies
  <2>1. Failed \in Replies
    <3>1. <<>> \in [1 .. 0 -> Blocks] /\ 0 \in 0 .. MAX_COUNT
      BY DriverAssumption
    <3>2. QED
      BY <3>1 DEF Failed, Replies
  <2>2. QED
    BY <1>1, <1>2, <2>1 DEF Typed
<1>7. Typed'
  <2>1. DisksTyped' /\ RegsTyped' /\ DevicesTyped' /\ DrivesTyped'
    BY <1>1, <1>2, <1>5, SameDisks, SameRegs, SameDevices, SameDrives DEF Typed
  <2>2. QED
    BY <1>1, <1>2, <1>5, <1>6, <2>1 DEF Typed
<1>8. \A p \in Position : ChannelOf(p) \notin late => Quiet(p)'
  BY <1>4, <1>5 DEF Quiet
<1>9. CASE ~ Admits(dev, lba, Len(values))
  <2>1. call' = Idle
    BY <1>1, <1>9
  <2>2. call' \notin DetectCalls /\ call' \notin IOCalls
    BY <2>1, Kinds
  <2>3. Control' /\ Asking' /\ Alone'
    BY <1>1, <1>4, <1>5, <1>8, <2>1, <2>2 DEF Control, Looping, Asking, Alone, InCall
  <2>4. QED
    BY <1>7, <2>3 DEF IInv
<1>10. CASE Admits(dev, lba, Len(values))
  <2>1. call' = [pc |-> "params", op |-> op, dev |-> dev, lba |-> lba, values |-> values, s |-> 0]
    BY <1>1, <1>10
  <2>2. dev \in Nat
    BY <1>2 DEF Typed, DevicesTyped
  <2>3. /\ call' \in IOCalls /\ call'.pc = "params" /\ call'.op = op /\ call'.dev = dev
        /\ call'.lba = lba /\ call'.values = values /\ call'.s = 0
    BY <2>1, <2>2 DEF IOCalls, CallPcs
  <2>4. call' \notin DetectCalls
    BY <2>3, Kinds
  <2>5. Count' = Len(values) /\ Dev' = g_blockdevs[dev]
    BY <1>1, <2>3 DEF Count, Dev
  <2>6. Admits(call.dev, call.lba, Count)'
    BY <1>1, <1>10, <2>3, <2>5 DEF Admits
  <2>7. op = "write" => lba + Len(values) <= Dev'.sector_count
    <3>1. g_blockdevs[dev] \in Devices
      BY <1>2 DEF Typed, DevicesTyped
    <3>2. g_blockdevs[dev].sector_count \in Nat
      BY <3>1 DEF Devices
    <3>3. lba \in Nat /\ Len(values) \in Nat /\ UINT \in Nat
      BY DriverAssumption
    <3>4. lba + Len(values) < UINT => (lba + Len(values)) % UINT = lba + Len(values)
      BY <3>3
    <3>5. QED
      BY <1>10, <2>5, <3>2, <3>3, <3>4 DEF Admits
  <2>8. InLoop(call')
    BY <2>3 DEF InLoop
  <2>9. Control'
    BY <1>1, <2>3, <2>5, <2>6, <2>7, <2>8 DEF Control, Looping
  <2>10. Serving' \/ Chan' \in late
    <3>1. Dev'.pos \in Position
      <4>1. g_blockdevs[dev] \in Devices
        BY <1>2 DEF Typed, DevicesTyped
      <4>2. QED
        BY <2>5, <4>1 DEF Devices
    <3>2. Chan' \notin late => Quiet(Dev.pos)'
      BY <1>8, <3>1 DEF Chan, Quiet
    <3>3. QED
      BY <2>3, <3>2 DEF Serving
  <2>11. Asking' /\ Alone'
    BY <1>1, <1>4, <1>5, <1>8, <2>4, <2>10 DEF Asking, Alone
  <2>12. QED
    BY <1>7, <2>9, <2>11 DEF IInv
<1>11. QED
  BY <1>9, <1>10

-----------------------------------------------------------------------------
(* The steps of a call.                                                    *)

LEMMA ParamsKeeps == IInv /\ Params => IInv'
<1> SUFFICES ASSUME IInv, Params PROVE IInv'
  OBVIOUS
<1>1. /\ call.pc = "params" /\ Goto("command")
      /\ SetRegisters(Chan, Dev.pos, "chs", call.lba % ADDRESSES, Count)
      /\ UNCHANGED <<machine, media, drive, errors, g_blockdevs, reply, late>>
  BY DEF Params, At
<1>2. /\ call \in IOCalls /\ InLoop(call) /\ Typed /\ Dev.pos \in Position /\ Chan \in Channel
      /\ Count \in Nat /\ call.lba \in 0 .. UINT - 1 /\ ChannelOf(Dev.pos) = Chan
      /\ \A p \in Position : Plain(drive[p])
      /\ \A p \in Position : ChannelOf(p) \notin late /\ p # Dev.pos => Quiet(p)
      /\ Chan \notin late => Serving
  BY <1>1, InIO DEF CallPcs, Chan
<1>3. SameCall /\ call'.pc = "command" /\ call'.s = call.s /\ call'.values = call.values
  BY <1>1, <1>2, GotoCall DEF CallPcs
<1>4. call.lba % ADDRESSES \in Nat
  <2>1. call.lba \in Nat
    BY <1>2, DriverAssumption
  <2>2. QED
    BY <2>1, Sizes, Parts
<1>5. /\ RegsTyped'
      /\ Listens(Chan) =>
            regs'[Chan] = [sel |-> Dev.pos, mode |-> "chs", address |-> call.lba % ADDRESSES,
                           count |-> Count]
  <2> DEFINE a == call.lba % ADDRESSES
  <2> HIDE DEF a
  <2>1. QED
    BY <1>1, <1>2, <1>4, RegistersAre DEF a
<1>6. Typed'
  <2>1. DisksTyped' /\ DevicesTyped' /\ DrivesTyped'
    BY <1>1, <1>2, SameDisks, SameDevices, SameDrives DEF Typed
  <2>2. QED
    BY <1>1, <1>2, <1>5, <2>1 DEF Typed
<1>7. InLoop(call')
  BY <1>1, <1>2, <1>3 DEF InLoop
<1>8. ASSUME Chan \notin late PROVE Serving'
  <2>1. Serving /\ Quiet(Dev.pos)
    BY <1>1, <1>2, <1>8 DEF Serving
  <2>2. Quiet(Selected(Chan))
    BY <1>2, <1>8, <2>1, SelectedIs
  <2>3. Listens(Chan)
    BY <2>2, Rests DEF Listens, Quiet
  <2>4. Dev' = Dev /\ Chan' = Chan /\ Count' = Count /\ call'.lba = call.lba
    BY <1>3, SameCallIs DEF SameCall
  <2>5. Quiet(Dev.pos)'
    BY <1>1, <2>1, <2>4 DEF Quiet
  <2>6. QED
    BY <1>3, <1>5, <2>3, <2>4, <2>5 DEF Serving, Selected
<1>9. QED
  BY <1>1, <1>2, <1>3, <1>6, <1>7, <1>8, CallGoesOn DEF CallPcs

LEMMA IssueCommandKeeps == IInv /\ IssueCommand => IInv'
<1> SUFFICES ASSUME IInv, IssueCommand PROVE IInv'
  OBVIOUS
<1>1. /\ call.pc = "command" /\ Goto("poll") /\ Command(Chan, call.op)
      /\ UNCHANGED <<machine, media, regs, errors, g_blockdevs, reply, late>>
  BY DEF IssueCommand, At
<1>2. /\ call \in IOCalls /\ InLoop(call) /\ Typed /\ Dev.pos \in Position /\ Chan \in Channel
      /\ Count \in Nat \ {0} /\ call.op \in {"read", "write"} /\ machine[Dev.pos] # Absent
      /\ First \in 0 .. Size /\ Size \in Nat
      /\ \A p \in Position : Plain(drive[p])
      /\ Chan \notin late => Serving
  BY <1>1, InIO DEF CallPcs
<1>3. SameCall /\ call'.pc = "poll" /\ call'.s = call.s /\ call'.values = call.values
  BY <1>1, <1>2, GotoCall DEF CallPcs
<1> DEFINE d == Commanded(Chan, call.op)
<1>4. /\ Selected(Chan) \in Position /\ ChannelOf(Selected(Chan)) = Chan
  BY <1>2, SelectedIs
<1>5. LET p == Selected(Chan)
      IN  /\ DrivesTyped' /\ \A q \in Position : q # p => drive'[q] = drive[q]
          /\ IF machine[p] # Absent /\ Listens(Chan) THEN drive'[p] = d ELSE drive' = drive
          /\ d.phase = "accepted" /\ d.op = call.op /\ d.left = regs[Chan].count
          /\ d.at = Place(p, regs[Chan].mode, regs[Chan].address)
          /\ d.err = drive[p].err /\ d.data = drive[p].data
  BY <1>1, <1>2, CommandIs DEF Ops
<1> HIDE DEF d
<1>6. \A p \in Position : Plain(drive'[p])
  BY <1>2, <1>4, <1>5 DEF Plain
<1>7. \A p \in Position : ChannelOf(p) # Chan => drive'[p] = drive[p]
  BY <1>4, <1>5
<1>8. Typed'
  <2>1. DisksTyped' /\ DevicesTyped' /\ RegsTyped'
    BY <1>1, <1>2, SameDisks, SameDevices, SameRegs DEF Typed
  <2>2. QED
    BY <1>1, <1>2, <1>5, <2>1 DEF Typed
<1>9. InLoop(call')
  BY <1>1, <1>2, <1>3 DEF InLoop, Count
<1>10. ASSUME Chan \notin late
       PROVE  Serving' /\ \A p \in Position : p # Dev.pos => drive'[p] = drive[p]
  <2>1. /\ Quiet(Dev.pos) /\ Selected(Chan) = Dev.pos /\ call.s = 0
        /\ regs[Chan] = [sel |-> Dev.pos, mode |-> "chs", address |-> call.lba % ADDRESSES,
                         count |-> Count]
    BY <1>1, <1>2, <1>10 DEF Serving, InLoop
  <2>2. Listens(Chan)
    BY <2>1, Rests DEF Listens, Quiet
  <2>3. /\ drive'[Dev.pos] = d /\ d.phase = "accepted" /\ d.op = call.op
        /\ d.left = Count /\ d.at = First
    BY <1>2, <1>5, <2>1, <2>2 DEF First
  <2>4. /\ Dev' = Dev /\ Chan' = Chan /\ Count' = Count /\ Size' = Size /\ First' = First
        /\ call'.op = call.op
    BY <1>3, SameCallIs DEF SameCall
  <2>5. Moved(0)'
    BY DEF Moved
  <2>6. OnBlock({"accepted", "busy", "sends", "wants"})'
    BY <1>2, <1>3, <2>1, <2>3, <2>4, <2>5 DEF OnBlock, Here
  <2>7. Selected(Chan)' = Dev.pos
    BY <1>1, <2>1, <2>4 DEF Selected
  <2>8. QED
    BY <1>3, <1>5, <2>1, <2>4, <2>6, <2>7 DEF Serving
<1>11. QED
  BY <1>1, <1>3, <1>6, <1>7, <1>8, <1>9, <1>10, CallGoesOn DEF CallPcs

\* What a poll sees, once the drive shows that it is busy when it is.
LEMMA SeenIs ==
    ASSUME IInv, Polling, Chan \notin late, Settled(Chan)
    PROVE  /\ "BSY" \in Status(Chan) <=> Here.phase = "busy"
           /\ "BSY" \in Status(Chan) => Status(Chan) = {"BSY"}
           /\ "ERR" \in Status(Chan) <=> Here.phase # "busy" /\ Here.err
           /\ Here.phase # "busy" /\ call.pc = "poll" =>
                 IF Here.err THEN Refused ELSE OnBlock({"sends", "wants"})
           /\ Here.phase # "busy" /\ call.pc = "flushed" =>
                 AllOut /\ Quiet(Dev.pos) /\ (Here.err => errors > 0)
<1>1. call.pc \in {"poll", "flushed"}
  BY DEF Polling, At
<1>2. Serving /\ machine[Dev.pos] # Absent /\ Dev.pos \in Position /\ Typed
  BY <1>1, InIO DEF CallPcs
<1>3. Selected(Chan) = Dev.pos
  BY <1>1, <1>2 DEF Serving
<1>4. Here.phase # "accepted" /\ Sound(Here)
  BY <1>2, <1>3 DEF Settled, Here, Typed, DrivesTyped
<1>5. Here.err \in BOOLEAN /\ (Here.phase \in {"busy", "sends", "wants"} => ~ Here.err)
  BY <1>4 DEF Sound, DriveStates
<1>6. /\ "BSY" \in Status(Chan) <=> Here.phase = "busy"
      /\ "BSY" \in Status(Chan) => Status(Chan) = {"BSY"}
      /\ "ERR" \in Status(Chan) <=> Here.phase # "busy" /\ Here.err
  BY <1>2, <1>3 DEF Status, Here
<1>7. ASSUME Here.phase # "busy", call.pc = "poll"
      PROVE  IF Here.err THEN Refused ELSE OnBlock({"sends", "wants"})
  <2>1. OnBlock({"accepted", "busy", "sends", "wants"}) \/ Storing \/ Refused
    BY <1>2, <1>7 DEF Serving
  <2>2. ~ Storing
    BY <1>4, <1>7 DEF Storing
  <2>3. CASE OnBlock({"accepted", "busy", "sends", "wants"})
    BY <1>4, <1>5, <1>7, <2>3 DEF OnBlock
  <2>4. CASE Refused
    <3>1. Here.err
      BY <2>4, AtRest DEF Refused
    <3>2. QED
      BY <2>4, <3>1
  <2>5. QED
    BY <2>1, <2>2, <2>3, <2>4
<1>8. ASSUME Here.phase # "busy", call.pc = "flushed"
      PROVE  AllOut /\ Quiet(Dev.pos) /\ (Here.err => errors > 0)
  BY <1>2, <1>4, <1>8 DEF Serving, Storing
<1>9. QED
  BY <1>6, <1>7, <1>8

LEMMA PollReadyKeeps == IInv /\ PollReady => IInv'
<1> SUFFICES ASSUME IInv, PollReady PROVE IInv'
  OBVIOUS
<1>1. /\ Polling /\ Settled(Chan) /\ "ERR" \notin Status(Chan)
      /\ "DRQ" \in Status(Chan) \/ "DRDY" \in Status(Chan)
      /\ IF call.pc = "poll" THEN Goto("transfer") /\ UNCHANGED reply ELSE Return(Success(<<>>))
      /\ UNCHANGED <<hardware, g_blockdevs, late>>
  BY DEF PollReady, Sees, At
<1>2. call.pc \in {"poll", "flushed"}
  BY <1>1 DEF Polling, At
<1>3. /\ call \in IOCalls /\ InLoop(call) /\ Typed /\ Dev.pos \in Position
      /\ \A p \in Position : Plain(drive[p])
      /\ Chan \notin late => Serving
  BY <1>2, InIO DEF CallPcs
<1>4. UNCHANGED <<machine, media, drive, regs, errors>>
  BY <1>1 DEF hardware
<1>5. Chan \notin late => Here.phase # "busy" /\ ~ Here.err
  <2>1. "BSY" \in Status(Chan) /\ Chan \notin late => Status(Chan) = {"BSY"}
    BY <1>1, SeenIs
  <2>2. Chan \notin late => "BSY" \notin Status(Chan)
    BY <1>1, <2>1
  <2>3. QED
    BY <1>1, <2>2, SeenIs
<1>6. CASE call.pc = "poll"
  <2>1. SameCall /\ call'.pc = "transfer" /\ call'.s = call.s /\ call'.values = call.values
    BY <1>1, <1>3, <1>4, <1>6, GotoCall DEF CallPcs
  <2>2. InLoop(call')
    BY <1>3, <1>6, <2>1 DEF InLoop
  <2>3. Typed'
    <3>1. DisksTyped' /\ DevicesTyped' /\ RegsTyped' /\ DrivesTyped'
      BY <1>1, <1>3, <1>4, SameDisks, SameDevices, SameRegs, SameDrives DEF Typed
    <3>2. QED
      BY <1>1, <1>3, <1>4, <1>6, <3>1 DEF Typed
  <2>4. ASSUME Chan \notin late PROVE Serving'
    <3>1. OnBlock({"sends", "wants"}) /\ Selected(Chan) = Dev.pos
      BY <1>1, <1>3, <1>5, <1>6, <2>4, SeenIs DEF Serving
    <3>2. /\ Dev' = Dev /\ Chan' = Chan /\ Count' = Count /\ Size' = Size /\ First' = First
          /\ call'.op = call.op
      BY <2>1, SameCallIs DEF SameCall
    <3>3. OnBlock({"sends", "wants"})'
      BY <1>4, <2>1, <3>1, <3>2 DEF OnBlock, Moved, Here
    <3>4. Selected(Chan)' = Dev.pos
      BY <1>4, <3>1, <3>2 DEF Selected
    <3>5. QED
      BY <2>1, <3>2, <3>3, <3>4 DEF Serving
  <2>5. QED
    BY <1>1, <1>3, <1>4, <1>6, <2>1, <2>2, <2>3, <2>4, CallGoesOn DEF CallPcs
<1>7. CASE call.pc = "flushed"
  <2>1. call' = Idle /\ reply' = Success(<<>>)
    BY <1>1, <1>7 DEF Return
  <2>2. Chan \notin late => Quiet(Dev.pos)
    BY <1>1, <1>5, <1>7, SeenIs
  <2>3. reply' \in Replies
    <3>1. <<>> \in [1 .. 0 -> Blocks] /\ 0 \in 0 .. MAX_COUNT
      BY DriverAssumption
    <3>2. QED
      BY <2>1, <3>1 DEF Success, Replies
  <2>4. QED
    BY <1>1, <1>7, <2>1, <2>2, <2>3, CallEnds DEF CallPcs
<1>8. QED
  BY <1>2, <1>6, <1>7

LEMMA FailedReply == Failed \in Replies
<1>1. <<>> \in [1 .. 0 -> Blocks] /\ 0 \in 0 .. MAX_COUNT
  BY DriverAssumption
<1>2. QED
  BY <1>1 DEF Failed, Replies

LEMMA PollErrorKeeps == IInv /\ PollError => IInv'
<1> SUFFICES ASSUME IInv, PollError PROVE IInv'
  OBVIOUS
<1>1. /\ Polling /\ Settled(Chan) /\ "ERR" \in Status(Chan)
      /\ call' = Idle /\ reply' = Failed /\ UNCHANGED <<hardware, g_blockdevs, late>>
  BY DEF PollError, Sees, Return
<1>2. call.pc \in {"poll", "flushed"}
  BY <1>1 DEF Polling, At
<1>3. ASSUME Chan \notin late PROVE Quiet(Dev.pos)
  <2>1. Here.phase # "busy" /\ Here.err
    BY <1>1, <1>3, SeenIs
  <2>2. CASE call.pc = "poll"
    BY <1>1, <1>3, <2>1, <2>2, SeenIs, AtRest DEF Refused, Quiet, Here
  <2>3. CASE call.pc = "flushed"
    BY <1>1, <1>3, <2>1, <2>3, SeenIs
  <2>4. QED
    BY <1>2, <2>2, <2>3
<1>4. QED
  BY <1>1, <1>2, <1>3, FailedReply, CallEnds DEF CallPcs

LEMMA PollGivesUpKeeps == IInv /\ PollGivesUp => IInv'
<1> SUFFICES ASSUME IInv, PollGivesUp PROVE IInv'
  OBVIOUS
<1>1. /\ Polling /\ call' = Idle /\ reply' = Failed /\ late' = late \cup {Chan}
      /\ UNCHANGED <<hardware, g_blockdevs>>
  BY DEF PollGivesUp, Sees, Return
<1>2. call.pc \in {"poll", "flushed"}
  BY <1>1 DEF Polling, At
<1>3. QED
  BY <1>1, <1>2, FailedReply, CallEnds DEF CallPcs

LEMMA ReadDoneKeeps == IInv /\ ReadDone => IInv'
<1> SUFFICES ASSUME IInv, ReadDone PROVE IInv'
  OBVIOUS
<1>1. /\ call.pc = "return" /\ call' = Idle /\ reply' = Success(call.values)
      /\ UNCHANGED <<hardware, g_blockdevs, late>>
  BY DEF ReadDone, Return, At
<1>2. /\ call.values \in Seq(Blocks) /\ Count \in 1 .. MAX_COUNT /\ Count \in Nat
      /\ Chan \notin late => Serving
  BY <1>1, InIO DEF CallPcs
<1>3. Chan \notin late => Quiet(Dev.pos)
  BY <1>1, <1>2 DEF Serving
<1>4. reply' \in Replies
  <2>1. call.values \in [1 .. Count -> Blocks] /\ Count \in 0 .. MAX_COUNT
    BY <1>2 DEF Count
  <2>2. QED
    BY <1>1, <2>1 DEF Success, Replies
<1>5. QED
  BY <1>1, <1>3, <1>4, CallEnds DEF CallPcs

LEMMA TransferInKeeps == IInv /\ TransferIn => IInv'
<1> SUFFICES ASSUME IInv, TransferIn PROVE IInv'
  OBVIOUS
<1> DEFINE block == Offered(Chan)
<1>1. /\ call.pc = "transfer" /\ call.op = "read" /\ TakeData(Chan)
      /\ call' = [call EXCEPT !.pc = Loop("return"), !.s = @ + 1, !.values[call.s + 1] = block]
      /\ UNCHANGED <<machine, media, regs, errors, g_blockdevs, reply, late>>
  BY DEF TransferIn, At
<1>2. /\ call \in IOCalls /\ InLoop(call) /\ Typed /\ Dev.pos \in Position /\ Chan \in Channel
      /\ Count \in Nat \ {0} /\ call.s \in Nat /\ call.values \in Seq(Blocks)
      /\ First \in 0 .. Size /\ Size \in Nat
      /\ \A p \in Position : Plain(drive[p])
      /\ Chan \notin late => Serving
  BY <1>1, InIO DEF CallPcs
<1>s. PICK s \in Nat : s = call.s
  BY <1>2
<1>3. s + 1 \in 1 .. Count /\ Count = Len(call.values)
  BY <1>1, <1>2, <1>s DEF InLoop, Count
<1>4. Selected(Chan) \in Position /\ ChannelOf(Selected(Chan)) = Chan
  BY <1>2, SelectedIs
<1>5. block \in Blocks
  BY <1>2, <1>4, AtRest DEF Offered, Plain
<1> HIDE DEF block
<1> DEFINE values == [call.values EXCEPT ![s + 1] = block]
           pc == Loop("return")
<1>6. /\ values \in Seq(Blocks) /\ Len(values) = Count /\ values[s + 1] = block
      /\ \A i \in 1 .. s : values[i] = call.values[i]
  BY <1>2, <1>3, <1>5
<1>7. pc \in CallPcs /\ (pc = "poll" <=> s + 1 < Count) /\ (pc # "poll" => pc = "return")
  BY <1>s DEF Loop, CallPcs
<1>8. /\ call' = [call EXCEPT !.pc = pc, !.s = s + 1, !.values = values]
  BY <1>1, <1>2, <1>s DEF IOCalls
<1> HIDE DEF values, pc
<1>9. /\ call' \in IOCalls /\ call'.pc = pc /\ call'.s = s + 1 /\ call'.values = values
      /\ call'.op = call.op /\ call'.dev = call.dev /\ call'.lba = call.lba
  <2>1. s + 1 \in Nat
    OBVIOUS
  <2>2. QED
    BY <1>2, <1>6, <1>7, <1>8, <2>1 DEF IOCalls
<1>10. SameCall
  BY <1>1, <1>3, <1>6, <1>9 DEF SameCall
<1>11. InLoop(call')
  BY <1>1, <1>2, <1>3, <1>6, <1>7, <1>9 DEF InLoop
<1> DEFINE p == Selected(Chan)
           d == Onto(drive[p])
<1>12. /\ DrivesTyped' /\ \A q \in Position : q # p => drive'[q] = drive[q]
       /\ drive[p].phase # "sends" => drive' = drive
       /\ drive[p].phase = "sends" /\ drive[p].left <= 1 => drive'[p] = Resting
       /\ drive[p].phase = "sends" /\ ~ (drive[p].left <= 1) => drive'[p] = d
       /\ d.phase = "accepted" /\ d.op = drive[p].op /\ d.err = drive[p].err
       /\ d.at = drive[p].at + 1 /\ d.left = drive[p].left - 1 /\ d.data = Junk
  BY <1>1, <1>2, TakeDataIs
<1> HIDE DEF d
<1>13. \A q \in Position : Plain(drive'[q])
  <2>1. Plain(Resting)
    BY AtRest DEF Plain
  <2>2. Plain(d)
    BY <1>2, <1>4, <1>12, AtRest DEF Plain
  <2>3. QED
    BY <1>2, <1>4, <1>12, <2>1, <2>2
<1>14. \A q \in Position : ChannelOf(q) # Chan => drive'[q] = drive[q]
  BY <1>4, <1>12
<1>15. Typed'
  <2>1. DisksTyped' /\ DevicesTyped' /\ RegsTyped'
    BY <1>1, <1>2, SameDisks, SameDevices, SameRegs DEF Typed
  <2>2. QED
    BY <1>1, <1>2, <1>12, <2>1 DEF Typed
<1>16. ASSUME Chan \notin late
       PROVE  Serving' /\ \A q \in Position : q # Dev.pos => drive'[q] = drive[q]
  <2>1. p = Dev.pos /\ OnBlock({"sends", "wants"})
    BY <1>1, <1>2, <1>16 DEF Serving
  <2>2. /\ drive[p].phase = "sends" /\ drive[p].at = First + s /\ drive[p].left = Count - s
        /\ Moved(s) /\ drive[p].at < Size /\ drive[p].data = media[p][First + s + 1]
        /\ drive[p].op = "read"
    BY <1>1, <1>s, <2>1 DEF OnBlock, Here
  <2>3. block = media[Dev.pos][First + s + 1]
    BY <2>1, <2>2 DEF Offered, block
  <2>4. /\ Dev' = Dev /\ Chan' = Chan /\ Count' = Count /\ Size' = Size /\ First' = First
    BY <1>10, SameCallIs
  <2> HIDE DEF p
  <2>5. Moved(s + 1)'
    <3>1. ASSUME NEW i \in 1 .. s + 1
          PROVE  First + i <= Size /\ media[Dev.pos][First + i] = values[i]
      <4>1. CASE i = s + 1
        <5>1. First + s + 1 = First + i
          BY <1>2, <4>1
        <5>2. QED
          BY <1>2, <1>6, <2>2, <2>3, <4>1, <5>1
      <4>2. CASE i # s + 1
        <5>1. i \in 1 .. s
          BY <1>2, <4>2
        <5>2. QED
          BY <1>6, <2>2, <5>1 DEF Moved
      <4>3. QED
        BY <4>1, <4>2
    <3>2. QED
      BY <1>1, <1>9, <2>4, <3>1 DEF Moved
  <2>6. CASE s + 1 < Count
    <3>1. pc = "poll" /\ drive'[p] = d
      BY <1>2, <1>7, <1>12, <2>2, <2>6
    <3>2. /\ d.at = First + (s + 1) /\ d.left = Count - (s + 1)
      BY <1>2, <1>12, <2>2
    <3>3. OnBlock({"accepted", "busy", "sends", "wants"})'
      BY <1>1, <1>9, <1>12, <2>1, <2>2, <2>4, <2>5, <3>1, <3>2 DEF OnBlock, Here
    <3>4. Selected(Chan)' = Dev.pos
      BY <1>1, <2>1, <2>4 DEF Selected, p
    <3>5. QED
      BY <1>9, <1>12, <2>1, <2>4, <3>1, <3>3, <3>4 DEF Serving
  <2>7. CASE ~ (s + 1 < Count)
    <3>1. s + 1 = Count /\ pc = "return" /\ drive'[p] = Resting
      BY <1>2, <1>3, <1>7, <1>12, <2>2, <2>7
    <3>2. Quiet(Dev.pos)' /\ Moved(Count)'
      BY <2>1, <2>4, <2>5, <3>1, AtRest DEF Quiet
    <3>3. Selected(Chan)' = Dev.pos
      BY <1>1, <2>1, <2>4 DEF Selected, p
    <3>4. QED
      BY <1>9, <1>12, <2>1, <2>4, <3>1, <3>2, <3>3 DEF Serving
  <2>8. QED
    BY <2>6, <2>7
<1>17. QED
  BY <1>1, <1>10, <1>11, <1>13, <1>14, <1>15, <1>16, CallGoesOn DEF CallPcs

LEMMA TransferOutKeeps == IInv /\ TransferOut => IInv'
<1> SUFFICES ASSUME IInv, TransferOut PROVE IInv'
  OBVIOUS
<1> DEFINE block == call.values[call.s + 1]
           pc == Loop("flush")
<1>1. /\ call.pc = "transfer" /\ call.op = "write" /\ GiveData(Chan, block)
      /\ call' = [call EXCEPT !.pc = pc, !.s = @ + 1]
      /\ UNCHANGED <<machine, media, regs, errors, g_blockdevs, reply, late>>
  BY DEF TransferOut, At
<1>2. /\ call \in IOCalls /\ InLoop(call) /\ Typed /\ Dev.pos \in Position /\ Chan \in Channel
      /\ Count \in Nat \ {0} /\ call.s \in Nat /\ call.values \in Seq(Blocks)
      /\ First \in 0 .. Size /\ Size \in Nat
      /\ \A p \in Position : Plain(drive[p])
      /\ Chan \notin late => Serving
  BY <1>1, InIO DEF CallPcs
<1>s. PICK s \in Nat : s = call.s
  BY <1>2
<1>3. s + 1 \in 1 .. Count /\ Count = Len(call.values)
  BY <1>1, <1>2, <1>s DEF InLoop, Count
<1>4. Selected(Chan) \in Position /\ ChannelOf(Selected(Chan)) = Chan
  BY <1>2, SelectedIs
<1>5. block \in Blocks
  BY <1>2, <1>3, <1>s
<1>6. pc \in CallPcs /\ (pc = "poll" <=> s + 1 < Count) /\ (pc # "poll" => pc = "flush")
  BY <1>s DEF Loop, CallPcs
<1> HIDE DEF pc
<1>7. /\ call' \in IOCalls /\ call'.pc = pc /\ call'.s = s + 1 /\ call'.values = call.values
      /\ call'.op = call.op /\ call'.dev = call.dev /\ call'.lba = call.lba
  <2>1. call' = [call EXCEPT !.pc = pc, !.s = s + 1]
    BY <1>1, <1>2, <1>s DEF IOCalls
  <2>2. s + 1 \in Nat
    OBVIOUS
  <2>3. QED
    BY <1>2, <1>6, <2>1, <2>2 DEF IOCalls
<1>8. SameCall
  BY <1>1, <1>7 DEF SameCall
<1>9. InLoop(call')
  BY <1>1, <1>2, <1>3, <1>6, <1>7 DEF InLoop
<1> HIDE DEF block
<1> DEFINE p == Selected(Chan)
           d == Given(drive[p], block)
<1>10. /\ DrivesTyped' /\ \A q \in Position : q # p => drive'[q] = drive[q]
       /\ IF drive[p].phase = "wants" THEN drive'[p] = d ELSE drive' = drive
       /\ d.phase = "accepted" /\ d.op = "store" /\ d.err = drive[p].err
       /\ d.at = drive[p].at /\ d.left = drive[p].left /\ d.data = block
  BY <1>1, <1>2, <1>5, GiveDataIs
<1> HIDE DEF d
<1>11. \A q \in Position : Plain(drive'[q])
  BY <1>2, <1>4, <1>5, <1>10 DEF Plain
<1>12. \A q \in Position : ChannelOf(q) # Chan => drive'[q] = drive[q]
  BY <1>4, <1>10
<1>13. Typed'
  <2>1. DisksTyped' /\ DevicesTyped' /\ RegsTyped'
    BY <1>1, <1>2, SameDisks, SameDevices, SameRegs DEF Typed
  <2>2. QED
    BY <1>1, <1>2, <1>10, <2>1 DEF Typed
<1>14. ASSUME Chan \notin late
       PROVE  Serving' /\ \A q \in Position : q # Dev.pos => drive'[q] = drive[q]
  <2>1. p = Dev.pos /\ OnBlock({"sends", "wants"})
    BY <1>1, <1>2, <1>14 DEF Serving
  <2>2. /\ drive[p].phase = "wants" /\ drive[p].at = First + s /\ drive[p].left = Count - s
        /\ Moved(s) /\ drive[p].at < Size
    BY <1>1, <1>s, <2>1 DEF OnBlock, Here
  <2>3. /\ Dev' = Dev /\ Chan' = Chan /\ Count' = Count /\ Size' = Size /\ First' = First
    BY <1>8, SameCallIs
  <2> HIDE DEF p
  <2>4. /\ drive'[p] = d /\ d.at = First + (s + 1) - 1 /\ d.left = Count - (s + 1) + 1
        /\ (s + 1) - 1 = s /\ s + 1 >= 1
    BY <1>2, <1>10, <2>2
  <2>5. Moved(s)'
    BY <1>1, <1>7, <2>2, <2>3 DEF Moved
  <2>6. Storing'
    BY <1>1, <1>7, <1>10, <1>s, <2>1, <2>2, <2>3, <2>4, <2>5 DEF block, Storing, Here
  <2>7. Selected(Chan)' = Dev.pos
    BY <1>1, <2>1, <2>3 DEF Selected, p
  <2>8. QED
    BY <1>6, <1>7, <1>10, <2>1, <2>3, <2>6, <2>7 DEF Serving
<1>15. QED
  BY <1>1, <1>8, <1>9, <1>11, <1>12, <1>13, <1>14, CallGoesOn DEF CallPcs

LEMMA FlushKeeps == IInv /\ Flush => IInv'
<1> SUFFICES ASSUME IInv, Flush PROVE IInv'
  OBVIOUS
<1>1. /\ call.pc = "flush" /\ Settled(Chan) /\ Goto("flushed") /\ Command(Chan, "flush")
      /\ UNCHANGED <<machine, media, regs, errors, g_blockdevs, reply, late>>
  BY DEF Flush, At
<1>2. /\ call \in IOCalls /\ InLoop(call) /\ Typed /\ Dev.pos \in Position /\ Chan \in Channel
      /\ machine[Dev.pos] # Absent
      /\ \A p \in Position : Plain(drive[p])
      /\ Chan \notin late => Serving
  BY <1>1, InIO DEF CallPcs
<1>3. SameCall /\ call'.pc = "flushed" /\ call'.s = call.s /\ call'.values = call.values
  BY <1>1, <1>2, GotoCall DEF CallPcs
<1> DEFINE d == Commanded(Chan, "flush")
<1>4. /\ Selected(Chan) \in Position /\ ChannelOf(Selected(Chan)) = Chan
  BY <1>2, SelectedIs
<1>5. LET p == Selected(Chan)
      IN  /\ DrivesTyped' /\ \A q \in Position : q # p => drive'[q] = drive[q]
          /\ IF machine[p] # Absent /\ Listens(Chan) THEN drive'[p] = d ELSE drive' = drive
          /\ d.phase = "accepted" /\ d.op = "flush" /\ d.err = drive[p].err
          /\ d.data = drive[p].data
  BY <1>1, <1>2, CommandIs DEF Ops
<1> HIDE DEF d
<1>6. \A p \in Position : Plain(drive'[p])
  BY <1>2, <1>4, <1>5 DEF Plain
<1>7. \A p \in Position : ChannelOf(p) # Chan => drive'[p] = drive[p]
  BY <1>4, <1>5
<1>8. Typed'
  <2>1. DisksTyped' /\ DevicesTyped' /\ RegsTyped'
    BY <1>1, <1>2, SameDisks, SameDevices, SameRegs DEF Typed
  <2>2. QED
    BY <1>1, <1>2, <1>5, <2>1 DEF Typed
<1>9. InLoop(call')
  BY <1>1, <1>2, <1>3 DEF InLoop, SameCall
<1>10. ASSUME Chan \notin late
       PROVE  Serving' /\ \A p \in Position : p # Dev.pos => drive'[p] = drive[p]
  <2>1. Selected(Chan) = Dev.pos /\ (Storing \/ (AllOut /\ Quiet(Dev.pos)))
    <3>1. Serving /\ call.pc = "flush"
      BY <1>1, <1>2, <1>10
    <3>2. QED
      BY <3>1 DEF Serving
  <2>2. /\ Dev' = Dev /\ Chan' = Chan /\ Count' = Count /\ Size' = Size /\ First' = First
        /\ call'.op = call.op
    BY <1>3, SameCallIs DEF SameCall
  <2>3. Selected(Chan)' = Dev.pos
    BY <1>1, <2>1, <2>2 DEF Selected
  <2>4. CASE Storing
    <3>1. Here.phase = "busy"
      BY <1>1, <2>1, <2>4 DEF Storing, Settled, Here
    <3>2. drive' = drive
      BY <1>2, <1>5, <2>1, <3>1 DEF Listens, Here
    <3>3. Storing'
      BY <1>1, <1>3, <2>2, <2>4, <3>2 DEF Storing, Here, Moved
    <3>4. QED
      BY <1>3, <2>2, <2>3, <3>2, <3>3 DEF Serving
  <2>5. CASE AllOut /\ Quiet(Dev.pos)
    <3>1. Listens(Chan)
      BY <2>1, <2>5, Rests DEF Listens, Quiet
    <3>2. drive'[Dev.pos] = d /\ \A q \in Position : q # Dev.pos => drive'[q] = drive[q]
      BY <1>2, <1>5, <2>1, <3>1
    <3>3. AllOut'
      BY <1>1, <1>3, <2>2, <2>5 DEF AllOut, Moved
    <3>4. Here'.op = "flush" /\ Here'.phase = "accepted"
      BY <1>5, <2>2, <3>2 DEF Here
    <3>5. QED
      BY <1>3, <2>2, <2>3, <3>2, <3>3, <3>4 DEF Serving
  <2>6. QED
    BY <2>1, <2>4, <2>5
<1>11. QED
  BY <1>1, <1>3, <1>6, <1>7, <1>8, <1>9, <1>10, CallGoesOn DEF CallPcs

-----------------------------------------------------------------------------
(* The drives keep the invariant.                                          *)

\* Whose drive it is that does not rest.
LEMMA Working ==
    ASSUME IInv, NEW p \in Position, drive[p].phase # "idle"
    PROVE  /\ Typed /\ Sound(drive[p]) /\ ~ Quiet(p)
           /\ call \in DetectCalls =>
                 /\ p = call.index /\ Identifying(p) /\ drive[p].op = "identify"
                 /\ call.pc \notin {"select", "identify"} /\ machine[p] # Absent
           /\ call \notin DetectCalls =>
                 /\ \A q \in Position : Plain(drive[q])
                 /\ ChannelOf(p) \in late \/ (InCall /\ p = Dev.pos)
<1>1. Typed /\ Asking /\ Alone /\ Sound(drive[p])
  BY DEF IInv, Typed, DrivesTyped
<1>2. ~ Quiet(p)
  BY Rests DEF Quiet
<1>3. ASSUME call \in DetectCalls
      PROVE  /\ p = call.index /\ Identifying(p) /\ drive[p].op = "identify"
             /\ call.pc \notin {"select", "identify"} /\ machine[p] # Absent
  <2>1. call.index \in Position /\ call.pc \in DetectPcs
    BY <1>3, Kinds
  <2>2. drive[p] # Resting
    BY AtRest
  <2>3. p = call.index
    <3>1. ~ (p < call.index) /\ ~ (p > call.index)
      BY <1>1, <1>2, <1>3, <2>2 DEF Asking
    <3>2. QED
      BY <2>1, <3>1, Channels
  <2>4. call.pc \in {"probe", "busy", "signature", "data"}
    BY <1>1, <1>3, <2>1, <2>2, <2>3 DEF Asking, DetectPcs
  <2>5. machine[p] # Absent /\ Identifying(p)
    BY <1>1, <1>2, <1>3, <2>3, <2>4 DEF Asking
  <2>6. drive[p].op = "identify"
    BY <2>5, AtRest DEF Identifying
  <2>7. QED
    BY <2>3, <2>4, <2>5, <2>6
<1>4. ASSUME call \notin DetectCalls
      PROVE  /\ \A q \in Position : Plain(drive[q])
             /\ ChannelOf(p) \in late \/ (InCall /\ p = Dev.pos)
  BY <1>1, <1>2, <1>4 DEF Alone
<1>5. QED
  BY <1>1, <1>2, <1>3, <1>4

\* The call does not see what other drives do.
LEMMA ServingStays ==
    ASSUME Serving, errors' \in Nat, errors \in Nat, errors' >= errors,
           UNCHANGED <<machine, regs, call, g_blockdevs>>,
           drive'[Dev.pos] = drive[Dev.pos], media'[Dev.pos] = media[Dev.pos]
    PROVE  Serving'
<1>1. Dev' = Dev /\ Chan' = Chan /\ Count' = Count
  BY DEF Dev, Chan, Count
<1>2. Size' = Size /\ First' = First /\ Here' = Here /\ Selected(Chan)' = Selected(Chan)
  BY <1>1 DEF Size, First, Here, Place, Selected
<1>3. /\ Moved(call.s)' <=> Moved(call.s)
      /\ Moved(call.s - 1)' <=> Moved(call.s - 1)
      /\ Moved(Count)' <=> Moved(Count)
      /\ Moved(Count - 1)' <=> Moved(Count - 1)
  BY <1>1, <1>2 DEF Moved
<1>4. ASSUME NEW phases, OnBlock(phases) PROVE OnBlock(phases)'
  BY <1>1, <1>2, <1>3, <1>4 DEF OnBlock
<1>5. Storing => Storing'
  BY <1>1, <1>2, <1>3 DEF Storing
<1>6. Refused => Refused'
  BY <1>1, <1>2 DEF Refused
<1>7. AllOut => AllOut'
  BY <1>1, <1>2, <1>3 DEF AllOut
<1>8. Quiet(Dev.pos) => Quiet(Dev.pos)'
  BY <1>1 DEF Quiet
<1>9. QED
  BY <1>1, <1>2, <1>3, <1>4, <1>5, <1>6, <1>7, <1>8 DEF Serving

\* One drive goes on: it must be where the call, if there is one, expects it.
LEMMA DriveMoves ==
    ASSUME IInv, NEW p \in Position, NEW d, Sound(d), drive[p].phase # "idle",
           drive' = [drive EXCEPT ![p] = d],
           UNCHANGED <<machine, regs, software>>, DisksTyped',
           errors' \in 0 .. MAX_ERRORS, errors' >= errors,
           \A q \in Position : q # p => media'[q] = media[q],
           call \in DetectCalls => Identifying(p)',
           call \notin DetectCalls => Plain(d),
           InCall /\ p = Dev.pos /\ Chan \notin late => Serving'
    PROVE  IInv'
<1>1. /\ Typed /\ Control /\ Asking /\ Alone /\ DrivesTyped
      /\ UNCHANGED <<g_blockdevs, call, reply, late>>
  BY DEF IInv, Typed, software
<1>2. DrivesTyped' /\ drive'[p] = d /\ \A q \in Position : q # p => drive'[q] = drive[q]
  BY <1>1, OneDrive
<1>3. Typed'
  <2>1. RegsTyped' /\ DevicesTyped'
    BY <1>1, SameRegs, SameDevices DEF Typed
  <2>2. QED
    BY <1>1, <1>2, <2>1 DEF Typed
<1>4. Dev' = Dev /\ Chan' = Chan /\ Count' = Count /\ InCall' = InCall
  BY <1>1 DEF Dev, Chan, Count, InCall
<1>5. Control'
  BY <1>1, <1>4 DEF Control, Looping, Admits
<1>6. Asking'
  <2>1. SUFFICES ASSUME call \in DetectCalls PROVE Asking'
    BY <1>1 DEF Asking
  <2>2. /\ p = call.index /\ call.pc \notin {"select", "identify"} /\ machine[p] # Absent
        /\ Identifying(p)'
    BY <2>1, Working
  <2>3. \A q \in Position : q # call.index => drive'[q] = drive[q]
    BY <1>2, <2>2
  <2>4. \A q \in Position : (q < call.index \/ q > call.index) => q # call.index
    <3>1. call.index \in Position
      BY <2>1, Kinds
    <3>2. QED
      BY <3>1, Channels
  <2>5. /\ \A q \in Position : q < call.index => Quiet(q)'
        /\ \A q \in Position : q > call.index => drive'[q] = Resting
    BY <1>1, <2>1, <2>3, <2>4 DEF Asking, Quiet
  <2>6. /\ late = {}
        /\ call.pc # "select" => Selected(DetectedOn) = call.index /\ regs[DetectedOn].count = 0
    BY <1>1, <2>1 DEF Asking
  <2>7. DetectedOn' = DetectedOn /\ Selected(DetectedOn)' = Selected(DetectedOn)
    BY <1>1 DEF DetectedOn, Selected
  <2>8. Identifying(call.index)'
    BY <1>1, <2>2 DEF Identifying
  <2>9. QED
    BY <1>1, <2>2, <2>5, <2>6, <2>7, <2>8 DEF Asking
<1>7. Alone'
  <2>1. SUFFICES ASSUME call \notin DetectCalls PROVE Alone'
    BY <1>1 DEF Alone
  <2>2. \A q \in Position : Plain(drive[q])
    BY <1>1, <2>1 DEF Alone
  <2>3. \A q \in Position : Plain(drive'[q])
    BY <1>2, <2>1, <2>2
  <2>4. ASSUME NEW q \in Position, ChannelOf(q) \notin late, ~ (InCall /\ q = Dev.pos)
        PROVE  Quiet(q)'
    <3>1. q # p
      BY <2>1, <2>4, Working
    <3>2. Quiet(q) /\ drive'[q] = drive[q]
      BY <1>1, <1>2, <2>1, <2>4, <3>1 DEF Alone
    <3>3. QED
      BY <3>2 DEF Quiet
  <2>5. ASSUME InCall, Chan \notin late
        PROVE  Serving'
    <3>1. CASE p = Dev.pos
      BY <2>5, <3>1
    <3>2. CASE p # Dev.pos
      <4>1. Dev.pos \in Position /\ Serving
        <5>1. call.pc \in CallPcs
          BY <2>5, Kinds DEF InCall
        <5>2. QED
          BY <2>5, <5>1, InIO
      <4>2. drive'[Dev.pos] = drive[Dev.pos] /\ media'[Dev.pos] = media[Dev.pos]
        BY <1>2, <3>2, <4>1
      <4>3. errors \in Nat /\ errors' \in Nat
        BY <1>1, DrivesAssumption DEF Typed
      <4>4. QED
        BY <1>1, <4>1, <4>2, <4>3, ServingStays
    <3>3. QED
      BY <3>1, <3>2
  <2>6. QED
    BY <1>1, <1>4, <2>1, <2>3, <2>4, <2>5 DEF Alone
<1>8. QED
  BY <1>3, <1>5, <1>6, <1>7 DEF IInv

\* What the drive of a call is doing while it works.
LEMMA Served ==
    ASSUME IInv, InCall, Chan \notin late, Here.phase \in {"accepted", "busy"}
    PROVE  /\ call.pc \in {"poll", "flush", "flushed"} /\ Selected(Chan) = Dev.pos
           /\ call.s \in Nat /\ Count \in Nat /\ First \in Nat /\ Size \in Nat
           /\ InLoop(call) /\ call.op \in {"read", "write"}
           /\ \/ call.pc = "poll" /\ OnBlock({"accepted", "busy", "sends", "wants"})
              \/ Storing
              \/ call.pc = "flushed" /\ AllOut /\ Here.op = "flush"
<1>1. call.pc \in CallPcs
  BY Kinds DEF InCall
<1>2. /\ Serving /\ InLoop(call) /\ call.op \in {"read", "write"}
      /\ call.s \in Nat /\ Count \in Nat /\ First \in 0 .. Size /\ Size \in Nat
  BY <1>1, InIO
<1>3. ~ Quiet(Dev.pos)
  BY Rests DEF Quiet, Here
<1>4. Here # [Resting EXCEPT !.err = TRUE]
  BY AtRest
<1>5. call.pc # "transfer"
  BY <1>2 DEF Serving, OnBlock
<1>6. call.pc \in {"poll", "flush", "flushed"}
  BY <1>1, <1>2, <1>3, <1>5 DEF Serving, CallPcs
<1>7. Selected(Chan) = Dev.pos
  BY <1>2, <1>6 DEF Serving
<1>8. \/ call.pc = "poll" /\ OnBlock({"accepted", "busy", "sends", "wants"})
      \/ Storing
      \/ call.pc = "flushed" /\ AllOut /\ Here.op = "flush"
  BY <1>2, <1>3, <1>4, <1>6 DEF Serving, Refused
<1>9. QED
  BY <1>2, <1>6, <1>7, <1>8

\* What the call has and does not change with a step of its drive.
LEMMA StaysCalled ==
    ASSUME InCall, UNCHANGED <<machine, regs, software>>
    PROVE  /\ call' = call /\ Dev' = Dev /\ Chan' = Chan /\ Count' = Count
           /\ Size' = Size /\ First' = First /\ Selected(Chan)' = Selected(Chan)
<1>1. SameCall /\ call' = call
  BY DEF SameCall, InCall, software
<1>2. QED
  BY <1>1, SameCallIs DEF Selected

LEMMA NoticeKeeps ==
    ASSUME IInv, NEW p \in Position, Notice(p), UNCHANGED software
    PROVE  IInv'
<1> DEFINE d == [drive[p] EXCEPT !.phase = "busy", !.err = FALSE]
<1>1. /\ drive[p].phase = "accepted" /\ drive' = [drive EXCEPT ![p] = d]
      /\ UNCHANGED <<machine, media, regs, errors>>
  BY DEF Notice
<1>2. /\ Typed /\ Sound(drive[p])
      /\ call \in DetectCalls => Identifying(p)
      /\ call \notin DetectCalls => Plain(drive[p])
  BY <1>1, Working
<1>3. /\ Sound(d) /\ d.phase = "busy" /\ d.op = drive[p].op /\ d.at = drive[p].at /\ ~ d.err
      /\ d.left = drive[p].left /\ d.data = drive[p].data
  BY <1>2 DEF Sound, DriveStates, Phases
<1> HIDE DEF d
<1>4. drive'[p] = d
  BY <1>1, <1>2, <1>3, OneDrive DEF Typed
<1>5. call \in DetectCalls => Identifying(p)'
  BY <1>1, <1>2, <1>3, <1>4, AtRest DEF Identifying
<1>6. call \notin DetectCalls => Plain(d)
  BY <1>2, <1>3 DEF Plain
<1>7. ASSUME InCall, p = Dev.pos, Chan \notin late PROVE Serving'
  <2>1. Here.phase = "accepted" /\ Here'.phase = "busy"
    BY <1>1, <1>3, <1>4, <1>7, StaysCalled DEF Here
  <2>2. /\ Dev' = Dev /\ Chan' = Chan /\ Count' = Count /\ Size' = Size /\ First' = First
        /\ Selected(Chan)' = Selected(Chan) /\ call' = call
    BY <1>1, <1>7, StaysCalled
  <2>3. /\ Here'.op = Here.op /\ Here'.at = Here.at /\ Here'.left = Here.left
        /\ Here'.data = Here.data
    BY <1>3, <1>4, <1>7, <2>2 DEF Here
  <2>5. /\ call.pc \in {"poll", "flush", "flushed"} /\ Selected(Chan) = Dev.pos
        /\ \/ call.pc = "poll" /\ OnBlock({"accepted", "busy", "sends", "wants"})
           \/ Storing
           \/ call.pc = "flushed" /\ AllOut /\ Here.op = "flush"
    BY <1>7, <2>1, Served
  <2>6. CASE call.pc = "poll" /\ OnBlock({"accepted", "busy", "sends", "wants"})
    <3>1. OnBlock({"accepted", "busy", "sends", "wants"})'
      BY <1>1, <2>1, <2>2, <2>3, <2>6 DEF OnBlock, Moved
    <3>2. QED
      BY <2>2, <2>5, <2>6, <3>1 DEF Serving
  <2>7. CASE Storing
    <3>1. Storing'
      BY <1>1, <2>1, <2>2, <2>3, <2>7 DEF Storing, Moved
    <3>2. QED
      BY <2>2, <2>5, <3>1 DEF Serving
  <2>8. CASE call.pc = "flushed" /\ AllOut /\ Here.op = "flush"
    <3>1. AllOut'
      BY <1>1, <2>2, <2>8 DEF AllOut, Moved
    <3>2. QED
      BY <2>1, <2>2, <2>3, <2>5, <2>8, <3>1 DEF Serving
  <2>9. QED
    BY <2>5, <2>6, <2>7, <2>8
<1>8. DisksTyped' /\ errors' \in 0 .. MAX_ERRORS /\ errors' >= errors
  BY <1>1, <1>2, SameDisks, DrivesAssumption DEF Typed
<1>9. QED
  BY <1>1, <1>3, <1>5, <1>6, <1>7, <1>8, DriveMoves

LEMMA IdentifyFinishes ==
    ASSUME IInv, NEW p \in Position, Works(p, "identify"),
           IF machine[p] = Atapi THEN Rest(p, TRUE) ELSE Sends(p, Report(machine[p].size)),
           UNCHANGED <<machine, media, regs, errors, software>>
    PROVE  IInv'
<1>1. drive[p].phase = "busy" /\ drive[p].op = "identify"
  BY DEF Works
<1>2. /\ Typed /\ Sound(drive[p]) /\ ~ drive[p].err
      /\ call \in DetectCalls => Identifying(p)
      /\ call \notin DetectCalls => Plain(drive[p])
  BY <1>1, Working DEF Sound
<1>3. call \in DetectCalls /\ Identifying(p) /\ ~ InCall
  BY <1>1, <1>2, Kinds DEF Plain, InCall
<1>4. DisksTyped' /\ errors' \in 0 .. MAX_ERRORS /\ errors' >= errors
  BY <1>2, SameDisks, DrivesAssumption DEF Typed
<1>5. CASE machine[p] = Atapi
  <2> DEFINE d == [Resting EXCEPT !.err = TRUE]
  <2>1. drive' = [drive EXCEPT ![p] = d] /\ Sound(d)
    BY <1>5, AtRest DEF Rest
  <2> HIDE DEF d
  <2>2. drive'[p] = d
    BY <1>2, <2>1, OneDrive DEF Typed
  <2>3. Identifying(p)'
    BY <1>5, <2>2 DEF Identifying, d
  <2>4. QED
    BY <1>1, <1>3, <1>4, <2>1, <2>3, DriveMoves
<1>6. CASE machine[p] # Atapi
  <2> DEFINE r == Report(machine[p].size)
             d == [drive[p] EXCEPT !.phase = "sends", !.data = r]
  <2>1. r \in Data
    <3>1. machine[p].size \in 0 .. ADDRESSES - 1
      BY <1>2, DriveIs DEF Typed, DisksTyped
    <3>2. QED
      BY <3>1 DEF Data
  <2>2. drive' = [drive EXCEPT ![p] = d]
    BY <1>6 DEF Sends
  <2> HIDE DEF r
  <2>3. /\ Sound(d) /\ d.phase = "sends" /\ d.op = "identify" /\ d.left = drive[p].left
        /\ ~ d.err /\ d.data = r
    BY <1>1, <1>2, <2>1 DEF Sound, DriveStates, Phases
  <2> HIDE DEF d
  <2>4. drive'[p] = d
    BY <1>2, <2>2, <2>3, OneDrive DEF Typed
  <2>5. drive[p].left = 0
    BY <1>1, <1>3, AtRest DEF Identifying
  <2>6. Identifying(p)'
    BY <2>3, <2>4, <2>5 DEF Identifying, r
  <2>7. QED
    BY <1>1, <1>3, <1>4, <2>2, <2>3, <2>6, DriveMoves
<1>7. QED
  BY <1>5, <1>6

\* A drive that does what a call has asked for.
LEMMA WorksFor ==
    ASSUME IInv, NEW p \in Position, NEW op \in {"read", "write", "store", "flush"}, Works(p, op)
    PROVE  /\ drive[p].phase = "busy" /\ drive[p].op = op
           /\ Typed /\ Sound(drive[p]) /\ drive[p] \in DriveStates /\ ~ drive[p].err
           /\ call \notin DetectCalls /\ Plain(drive[p])
           /\ machine[p].size \in Nat /\ media[p] \in [1 .. machine[p].size -> Blocks]
<1>1. drive[p].phase = "busy" /\ drive[p].op = op
  BY DEF Works
<1>2. /\ Typed /\ Sound(drive[p]) /\ drive[p] \in DriveStates /\ ~ drive[p].err
      /\ call \notin DetectCalls
  BY <1>1, Working DEF Sound
<1>3. Plain(drive[p])
  BY <1>1, <1>2, Working
<1>4. machine[p].size \in Nat /\ media[p] \in [1 .. machine[p].size -> Blocks]
  BY <1>2, DriveIs, Sizes DEF Typed, DisksTyped
<1>5. QED
  BY <1>1, <1>2, <1>3, <1>4

\* A read or a write that the drive refuses, or a failure: it rests with the error
\* shown, and the call is bound to see it, or to have been in its last block.
LEMMA RefusalKeeps ==
    ASSUME IInv, NEW p \in Position, NEW op \in {"read", "write", "store", "flush"}, Works(p, op),
           Rest(p, TRUE), UNCHANGED <<machine, media, regs, software>>,
           errors' \in 0 .. MAX_ERRORS, errors' >= errors,
           errors' > 0 \/ (op \in {"read", "write"} /\ ~ InRange(p))
    PROVE  IInv'
<1> DEFINE d == [Resting EXCEPT !.err = TRUE]
<1>1. /\ drive[p].phase = "busy" /\ drive[p].op = op /\ Typed /\ Sound(drive[p])
      /\ call \notin DetectCalls /\ drive[p] \in DriveStates
  BY WorksFor
<1>2. drive' = [drive EXCEPT ![p] = d] /\ Sound(d) /\ Still(d) /\ d.op = "none" /\ d.data = Junk
  BY AtRest DEF Rest
<1> HIDE DEF d
<1>3. drive'[p] = d
  BY <1>1, <1>2, OneDrive DEF Typed
<1>4. Plain(d)
  BY <1>2, AtRest DEF Plain
<1>5. DisksTyped'
  BY <1>1, SameDisks DEF Typed
<1>6. ASSUME InCall, p = Dev.pos, Chan \notin late PROVE Serving'
  <2>1. Here.phase = "busy" /\ Here.op = op /\ Here.at = drive[p].at
    BY <1>1, <1>6 DEF Here
  <2>2. /\ Dev' = Dev /\ Chan' = Chan /\ Count' = Count /\ Size' = Size /\ First' = First
        /\ Selected(Chan)' = Selected(Chan) /\ call' = call
    BY <1>6, StaysCalled
  <2>3. Here' = d /\ Quiet(Dev.pos)'
    BY <1>2, <1>3, <1>6, <2>2 DEF Here, Quiet
  <2>4. /\ call.pc \in {"poll", "flush", "flushed"} /\ Selected(Chan) = Dev.pos
        /\ call.s \in Nat /\ Count \in Nat /\ First \in Nat /\ Size \in Nat
        /\ InLoop(call) /\ call.op \in {"read", "write"}
        /\ \/ call.pc = "poll" /\ OnBlock({"accepted", "busy", "sends", "wants"})
           \/ Storing
           \/ call.pc = "flushed" /\ AllOut /\ Here.op = "flush"
    BY <1>6, <2>1, Served
  <2>5. CASE call.pc = "poll"
    <3>1. Here.at = First + call.s \/ Storing
      BY <2>4, <2>5 DEF OnBlock
    <3>2. errors' > 0 \/ First + call.s >= Size
      <4>1. CASE errors' > 0
        BY <4>1
      <4>2. CASE op \in {"read", "write"} /\ ~ InRange(p)
        <5>1. Here.at = First + call.s
          BY <2>1, <3>1, <4>2 DEF Storing
        <5>2. ~ (Here.at < Size)
          BY <1>6, <4>2 DEF InRange, Here, Size
        <5>3. QED
          BY <2>4, <5>1, <5>2
      <4>3. QED
        BY <4>1, <4>2
    <3>3. Refused'
      BY <2>2, <2>3, <3>2 DEF Refused, d
    <3>4. QED
      BY <2>2, <2>4, <2>5, <3>3 DEF Serving
  <2>6. CASE call.pc \in {"flush", "flushed"}
    <3>1. call.s = Count
      BY <2>4, <2>6 DEF InLoop, Count
    <3>2. errors' > 0
      <4>1. op \notin {"read", "write"}
        BY <2>1, <2>4, <2>6 DEF Storing
      <4>2. QED
        BY <4>1
    <3>3. Moved(Count - 1) /\ First + Count <= Size
      <4>1. CASE Storing
        BY <2>4, <3>1, <4>1 DEF Storing
      <4>2. CASE AllOut
        BY <4>2 DEF AllOut
      <4>3. QED
        BY <2>4, <2>6, <4>1, <4>2
    <3>4. AllOut'
      BY <2>2, <3>2, <3>3 DEF AllOut, Moved
    <3>5. QED
      BY <2>2, <2>3, <2>4, <2>6, <3>2, <3>4 DEF Serving
  <2>7. QED
    BY <2>4, <2>5, <2>6
<1>7. QED
  BY <1>1, <1>2, <1>4, <1>5, <1>6, DriveMoves

LEMMA ErrKeeps ==
    ASSUME IInv, NEW p \in Position, Err(p), UNCHANGED software
    PROVE  IInv'
<1>1. PICK op \in {"read", "write", "store", "flush"} : Works(p, op)
  BY DEF Err
<1>2. errors \in 0 .. MAX_ERRORS /\ MAX_ERRORS \in Nat
  BY DrivesAssumption DEF IInv, Typed
<1>3. /\ Rest(p, TRUE) /\ UNCHANGED <<machine, media, regs>>
      /\ errors < MAX_ERRORS /\ errors' = errors + 1
  BY DEF Err
<1>4. errors' \in 0 .. MAX_ERRORS /\ errors' >= errors /\ errors' > 0
  BY <1>2, <1>3
<1>5. QED
  BY <1>1, <1>3, <1>4, RefusalKeeps

\* A read has the sector, or a write wants it.
LEMMA BlockIsThere ==
    ASSUME IInv, NEW p \in Position, NEW op \in {"read", "write"}, Works(p, op), InRange(p),
           NEW phase \in {"sends", "wants"}, NEW data \in Blocks,
           phase = "sends" => op = "read" /\ data = media[p][drive[p].at + 1],
           phase = "wants" => op = "write",
           drive' = [drive EXCEPT ![p] = [drive[p] EXCEPT !.phase = phase, !.data = data]],
           UNCHANGED <<machine, media, regs, errors, software>>
    PROVE  IInv'
<1> DEFINE d == [drive[p] EXCEPT !.phase = phase, !.data = data]
<1>1. /\ drive[p].phase = "busy" /\ drive[p].op = op /\ Typed /\ Sound(drive[p])
      /\ call \notin DetectCalls /\ drive[p] \in DriveStates /\ ~ drive[p].err
  BY WorksFor
<1>2. /\ Sound(d) /\ d.phase = phase /\ d.op = op /\ d.data = data
      /\ d.at = drive[p].at /\ d.left = drive[p].left
  BY <1>1 DEF Sound, DriveStates, Phases, Data
<1> HIDE DEF d
<1>3. drive' = [drive EXCEPT ![p] = d]
  BY DEF d
<1>4. drive'[p] = d
  BY <1>1, <1>2, <1>3, OneDrive DEF Typed
<1>5. Plain(d)
  BY <1>2 DEF Plain
<1>6. DisksTyped' /\ errors' \in 0 .. MAX_ERRORS /\ errors' >= errors
  BY <1>1, SameDisks, DrivesAssumption DEF Typed
<1>7. ASSUME InCall, p = Dev.pos, Chan \notin late PROVE Serving'
  <2>1. Here.phase = "busy" /\ Here.op = op /\ Here.at = drive[p].at /\ Here.left = drive[p].left
    BY <1>1, <1>7 DEF Here
  <2>2. /\ Dev' = Dev /\ Chan' = Chan /\ Count' = Count /\ Size' = Size /\ First' = First
        /\ Selected(Chan)' = Selected(Chan) /\ call' = call
    BY <1>7, StaysCalled
  <2>3. Here' = d
    BY <1>4, <1>7, <2>2 DEF Here
  <2>4. /\ call.pc \in {"poll", "flush", "flushed"} /\ Selected(Chan) = Dev.pos
        /\ \/ call.pc = "poll" /\ OnBlock({"accepted", "busy", "sends", "wants"})
           \/ Storing
           \/ call.pc = "flushed" /\ AllOut /\ Here.op = "flush"
    BY <1>7, <2>1, Served
  <2>5. call.pc = "poll" /\ OnBlock({"accepted", "busy", "sends", "wants"})
    BY <2>1, <2>4 DEF Storing
  <2>6. Here.at < Size
    BY <1>7 DEF InRange, Here, Size
  <2>7. OnBlock({"accepted", "busy", "sends", "wants"})'
    BY <1>2, <1>7, <2>1, <2>2, <2>3, <2>5, <2>6 DEF OnBlock, Moved, Here
  <2>8. QED
    BY <2>2, <2>4, <2>5, <2>7 DEF Serving
<1>8. QED
  BY <1>1, <1>2, <1>3, <1>5, <1>6, <1>7, DriveMoves

LEMMA ReadFinishes ==
    ASSUME IInv, NEW p \in Position, Works(p, "read"),
           IF InRange(p) THEN Sends(p, media[p][drive[p].at + 1]) ELSE Rest(p, TRUE),
           UNCHANGED <<machine, media, regs, errors, software>>
    PROVE  IInv'
<1>1. CASE InRange(p)
  <2> DEFINE data == media[p][drive[p].at + 1]
  <2>1. data \in Blocks
    <3>1. /\ media[p] \in [1 .. machine[p].size -> Blocks] /\ machine[p].size \in Nat
          /\ drive[p] \in DriveStates
      BY WorksFor
    <3>2. drive[p].at + 1 \in 1 .. machine[p].size
      BY <1>1, <3>1 DEF InRange, DriveStates
    <3>3. QED
      BY <3>1, <3>2
  <2> HIDE DEF data
  <2>2. drive' = [drive EXCEPT ![p] = [drive[p] EXCEPT !.phase = "sends", !.data = data]]
    BY <1>1 DEF Sends, data
  <2>3. QED
    BY <1>1, <2>1, <2>2, BlockIsThere DEF data
<1>2. CASE ~ InRange(p)
  <2>1. errors' \in 0 .. MAX_ERRORS /\ errors' >= errors
    BY DrivesAssumption DEF IInv, Typed
  <2>2. QED
    BY <1>2, <2>1, RefusalKeeps
<1>3. QED
  BY <1>1, <1>2

LEMMA WriteFinishes ==
    ASSUME IInv, NEW p \in Position, Works(p, "write"),
           IF InRange(p) THEN drive' = [drive EXCEPT ![p].phase = "wants"] ELSE Rest(p, TRUE),
           UNCHANGED <<machine, media, regs, errors, software>>
    PROVE  IInv'
<1>1. CASE InRange(p)
  <2> DEFINE data == drive[p].data
  <2>1. data \in Blocks /\ drive[p] \in DriveStates
    BY WorksFor DEF Plain
  <2>2. drive' = [drive EXCEPT ![p] = [drive[p] EXCEPT !.phase = "wants", !.data = data]]
    <3>1. [drive[p] EXCEPT !.phase = "wants"] = [drive[p] EXCEPT !.phase = "wants", !.data = data]
      BY <2>1 DEF DriveStates
    <3>2. QED
      BY <1>1, <3>1
  <2> HIDE DEF data
  <2>3. QED
    BY <1>1, <2>1, <2>2, BlockIsThere
<1>2. CASE ~ InRange(p)
  <2>1. errors' \in 0 .. MAX_ERRORS /\ errors' >= errors
    BY DrivesAssumption DEF IInv, Typed
  <2>2. QED
    BY <1>2, <2>1, RefusalKeeps
<1>3. QED
  BY <1>1, <1>2

LEMMA OnePlace ==
    ASSUME NEW S, NEW B, NEW f \in [S -> B], NEW x, NEW v \in B
    PROVE  /\ [f EXCEPT ![x] = v] \in [S -> B]
           /\ \A i \in S : [f EXCEPT ![x] = v][i] = IF i = x THEN v ELSE f[i]
OBVIOUS

LEMMA NextBlock ==
    ASSUME NEW at, NEW left
    PROVE  [Resting EXCEPT !.phase = "busy", !.op = "write", !.at = at, !.left = left]
             = [phase |-> "busy", op |-> "write", at |-> at, left |-> left,
                data |-> Junk, err |-> FALSE]
<1> DEFINE r == [Resting EXCEPT !.phase = "busy", !.op = "write", !.at = at, !.left = left]
           F == {"phase", "op", "at", "left", "data", "err"}
<1>1. /\ DOMAIN Resting = F /\ Resting = [f \in F |-> Resting[f]]
      /\ Resting.data = Junk /\ Resting.err = FALSE
  BY DEF Resting
<1>2. /\ DOMAIN r = F /\ r = [f \in F |-> r[f]]
      /\ r.phase = "busy" /\ r.op = "write" /\ r.at = at /\ r.left = left
      /\ r.data = Junk /\ r.err = FALSE
  BY <1>1
<1> HIDE DEF r
<1>3. r = [phase |-> r.phase, op |-> r.op, at |-> r.at, left |-> r.left, data |-> r.data, err |-> r.err]
  BY <1>2
<1>4. QED
  BY <1>2, <1>3, Zenon DEF r

\* The block that was given last is written: the next is wanted, or all is done.
LEMMA StoreFinishes ==
    ASSUME IInv, NEW p \in Position, Works(p, "store"),
           media' = [media EXCEPT ![p][drive[p].at + 1] = drive[p].data],
           IF drive[p].left <= 1 THEN Rest(p, FALSE)
           ELSE drive' = [drive EXCEPT ![p] = [Resting EXCEPT
                              !.phase = "busy", !.op = "write",
                              !.at = drive[p].at + 1, !.left = drive[p].left - 1]],
           UNCHANGED <<machine, regs, errors, software>>
    PROVE  IInv'
<1> DEFINE data == drive[p].data
           at == drive[p].at
           left == drive[p].left
           next == [phase |-> "busy", op |-> "write", at |-> at + 1, left |-> left - 1,
                    data |-> Junk, err |-> FALSE]
           d == IF left <= 1 THEN Resting ELSE next
<1>1. /\ drive[p].phase = "busy" /\ drive[p].op = "store" /\ Typed /\ Sound(drive[p])
      /\ call \notin DetectCalls /\ drive[p] \in DriveStates /\ data \in Blocks
      /\ machine[p].size \in Nat /\ media[p] \in [1 .. machine[p].size -> Blocks]
  BY WorksFor DEF Plain
<1>2. at \in Nat /\ left \in Nat
  BY <1>1 DEF DriveStates
<1>3. Sound(d) /\ Plain(d)
  <2>1. Sound(Resting) /\ Plain(Resting) /\ Junk \in Blocks
    BY AtRest DEF Plain
  <2>2. CASE ~ (left <= 1)
    <3>1. at + 1 \in Nat /\ left - 1 \in Nat
      BY <1>2, <2>2
    <3>2. next \in DriveStates
      BY <2>1, <3>1 DEF DriveStates, Phases, Ops, Data
    <3>3. QED
      BY <2>1, <2>2, <3>2 DEF Sound, Plain
  <2>3. QED
    BY <2>1, <2>2
<1>4. drive' = [drive EXCEPT ![p] = d]
  <2>1. CASE left <= 1
    BY <2>1, AtRest DEF Rest
  <2>2. CASE ~ (left <= 1)
    <3>1. [Resting EXCEPT !.phase = "busy", !.op = "write", !.at = at + 1, !.left = left - 1] = next
      BY NextBlock
    <3>2. QED
      BY <2>2, <3>1
  <2>3. QED
    BY <2>1, <2>2
<1> HIDE DEF d
<1>5. drive'[p] = d
  BY <1>1, <1>3, <1>4, OneDrive DEF Typed
<1>6. /\ DOMAIN media' = Position /\ media'[p] \in [1 .. machine[p].size -> Blocks]
      /\ \A q \in Position : q # p => media'[q] = media[q]
      /\ \A i \in 1 .. machine[p].size :
            media'[p][i] = IF i = at + 1 THEN data ELSE media[p][i]
  <2>1. DOMAIN media = Position
    BY <1>1 DEF Typed, DisksTyped
  <2>2. media' = [media EXCEPT ![p] = [media[p] EXCEPT ![at + 1] = data]]
    OBVIOUS
  <2>3. media'[p] = [media[p] EXCEPT ![at + 1] = data]
    BY <2>1, <2>2
  <2> HIDE DEF data, at
  <2>4. /\ media'[p] \in [1 .. machine[p].size -> Blocks]
        /\ \A i \in 1 .. machine[p].size :
              media'[p][i] = IF i = at + 1 THEN data ELSE media[p][i]
    BY <1>1, <2>3, OnePlace
  <2>5. QED
    BY <2>1, <2>2, <2>4
<1>7. DisksTyped' /\ errors' \in 0 .. MAX_ERRORS /\ errors' >= errors
  <2>1. DisksTyped /\ errors \in 0 .. MAX_ERRORS
    BY <1>1 DEF Typed
  <2>2. DisksTyped'
    BY <1>6, <2>1 DEF DisksTyped
  <2>3. QED
    BY <2>1, <2>2, DrivesAssumption
<1>8. ASSUME InCall, p = Dev.pos, Chan \notin late PROVE Serving'
  <2>1. Here.phase = "busy" /\ Here.op = "store" /\ Here.at = at /\ Here.left = left /\ Here.data = data
    BY <1>1, <1>8 DEF Here
  <2>2. /\ Dev' = Dev /\ Chan' = Chan /\ Count' = Count /\ Size' = Size /\ First' = First
        /\ Selected(Chan)' = Selected(Chan) /\ call' = call
    BY <1>8, StaysCalled
  <2>3. Here' = d
    BY <1>5, <1>8, <2>2 DEF Here
  <2>4. /\ call.pc \in {"poll", "flush", "flushed"} /\ Selected(Chan) = Dev.pos
        /\ call.s \in Nat /\ Count \in Nat /\ First \in Nat /\ Size \in Nat /\ InLoop(call)
        /\ call.op \in {"read", "write"}
        /\ \/ call.pc = "poll" /\ OnBlock({"accepted", "busy", "sends", "wants"})
           \/ Storing
           \/ call.pc = "flushed" /\ AllOut /\ Here.op = "flush"
    BY <1>8, <2>1, Served
  <2>5. Storing
    BY <2>1, <2>4 DEF OnBlock
  <2>6. PICK s \in Nat : s = call.s
    BY <2>4
  <2>7. /\ s >= 1 /\ at + 1 = First + s /\ at < Size /\ left = Count - s + 1
        /\ data = call.values[s] /\ Moved(s - 1) /\ call.op = "write"
    BY <1>2, <2>1, <2>4, <2>5, <2>6 DEF Storing
  <2>8. /\ \A i \in 1 .. s - 1 : First + i <= Size /\ media[p][First + i] = call.values[i]
        /\ First + s <= Size
    BY <1>2, <1>8, <2>4, <2>7 DEF Moved
  <2> HIDE DEF data, at, left
  <2>9. Moved(s)'
    <3>1. ASSUME NEW i \in 1 .. s
          PROVE  First + i <= Size /\ media'[p][First + i] = call.values[i]
      <4>1. First + i \in 1 .. machine[p].size
        BY <1>8, <2>4, <2>8 DEF Size
      <4>2. CASE i = s
        BY <1>6, <2>4, <2>7, <2>8, <4>1, <4>2
      <4>3. CASE i # s
        <5>1. i \in 1 .. s - 1 /\ First + i # at + 1
          BY <2>4, <2>7, <4>3
        <5>2. QED
          BY <1>6, <2>8, <4>1, <5>1
      <4>4. QED
        BY <4>2, <4>3
    <3>2. QED
      BY <1>8, <2>2, <3>1 DEF Moved
  <2>10. CASE left <= 1
    <3>1. s = Count /\ call.pc \in {"flush", "flushed"}
      <4>1. /\ call.pc = "poll" => s < Count
            /\ call.pc # "poll" => s = Count /\ call.pc \in {"flush", "flushed"}
        BY <2>4, <2>6 DEF InLoop, Count
      <4>2. ~ (s < Count)
        BY <2>4, <2>7, <2>10
      <4>3. QED
        BY <4>1, <4>2
    <3>2. d = Resting
      BY <2>10 DEF d
    <3>3. Quiet(Dev.pos)' /\ ~ Here'.err
      BY <1>5, <1>8, <2>2, <2>3, <3>2, AtRest DEF Quiet
    <3>4. Moved(Count)' /\ Moved(Count - 1)'
      BY <2>2, <2>4, <2>9, <3>1 DEF Moved
    <3>5. AllOut'
      BY <2>2, <2>8, <3>1, <3>4 DEF AllOut
    <3>6. QED
      BY <2>2, <2>4, <3>1, <3>3, <3>5 DEF Serving
  <2>11. CASE ~ (left <= 1)
    <3>1. call.pc = "poll" /\ s < Count
      BY <2>4, <2>6, <2>7, <2>11 DEF InLoop, Count
    <3>2. d.phase = "busy" /\ d.op = "write" /\ d.at = First + s /\ d.left = Count - s
      BY <2>4, <2>7, <2>11 DEF d, at, left
    <3>3. OnBlock({"accepted", "busy", "sends", "wants"})'
      BY <2>2, <2>3, <2>6, <2>7, <2>9, <3>2 DEF OnBlock
    <3>4. QED
      BY <2>2, <2>4, <3>1, <3>3 DEF Serving
  <2>12. QED
    BY <2>10, <2>11
<1>9. QED
  BY <1>1, <1>3, <1>4, <1>6, <1>7, <1>8, DriveMoves

LEMMA FlushFinishes ==
    ASSUME IInv, NEW p \in Position, Works(p, "flush"), Rest(p, FALSE),
           UNCHANGED <<machine, media, regs, errors, software>>
    PROVE  IInv'
<1>1. /\ drive[p].phase = "busy" /\ drive[p].op = "flush" /\ Typed /\ Sound(drive[p])
      /\ call \notin DetectCalls
  BY WorksFor
<1>2. drive' = [drive EXCEPT ![p] = Resting] /\ Sound(Resting) /\ Plain(Resting)
  BY AtRest DEF Rest, Plain
<1>3. drive'[p] = Resting
  BY <1>1, <1>2, OneDrive DEF Typed
<1>4. DisksTyped' /\ errors' \in 0 .. MAX_ERRORS /\ errors' >= errors
  BY <1>1, SameDisks, DrivesAssumption DEF Typed
<1>5. ASSUME InCall, p = Dev.pos, Chan \notin late PROVE Serving'
  <2>1. Here.phase = "busy" /\ Here.op = "flush"
    BY <1>1, <1>5 DEF Here
  <2>2. /\ Dev' = Dev /\ Chan' = Chan /\ Count' = Count /\ Size' = Size /\ First' = First
        /\ Selected(Chan)' = Selected(Chan) /\ call' = call
    BY <1>5, StaysCalled
  <2>3. Quiet(Dev.pos)' /\ ~ Here'.err
    BY <1>3, <1>5, <2>2, AtRest DEF Quiet, Here
  <2>4. /\ call.pc \in {"poll", "flush", "flushed"} /\ Selected(Chan) = Dev.pos
        /\ call.op \in {"read", "write"}
        /\ \/ call.pc = "poll" /\ OnBlock({"accepted", "busy", "sends", "wants"})
           \/ Storing
           \/ call.pc = "flushed" /\ AllOut /\ Here.op = "flush"
    BY <1>5, <2>1, Served
  <2>5. call.pc = "flushed" /\ AllOut
    BY <2>1, <2>4 DEF Storing, OnBlock
  <2>6. AllOut'
    BY <1>4, <2>2, <2>5 DEF AllOut, Moved
  <2>7. QED
    BY <2>2, <2>3, <2>4, <2>5, <2>6 DEF Serving
<1>6. QED
  BY <1>1, <1>2, <1>4, <1>5, DriveMoves

LEMMA FinishKeeps ==
    ASSUME IInv, NEW p \in Position, Finish(p), UNCHANGED software
    PROVE  IInv'
<1>1. UNCHANGED <<machine, regs, errors>>
  BY DEF Finish
<1>2. CASE /\ Works(p, "identify")
           /\ IF machine[p] = Atapi THEN Rest(p, TRUE) ELSE Sends(p, Report(machine[p].size))
           /\ UNCHANGED media
  BY <1>1, <1>2, IdentifyFinishes
<1>3. CASE /\ Works(p, "read")
           /\ IF InRange(p) THEN Sends(p, media[p][drive[p].at + 1]) ELSE Rest(p, TRUE)
           /\ UNCHANGED media
  BY <1>1, <1>3, ReadFinishes
<1>4. CASE /\ Works(p, "write")
           /\ IF InRange(p) THEN drive' = [drive EXCEPT ![p].phase = "wants"] ELSE Rest(p, TRUE)
           /\ UNCHANGED media
  BY <1>1, <1>4, WriteFinishes
<1>5. CASE /\ Works(p, "store")
           /\ media' = [media EXCEPT ![p][drive[p].at + 1] = drive[p].data]
           /\ IF drive[p].left <= 1 THEN Rest(p, FALSE)
              ELSE drive' = [drive EXCEPT ![p] = [Resting EXCEPT
                                 !.phase = "busy", !.op = "write",
                                 !.at = drive[p].at + 1, !.left = drive[p].left - 1]]
  BY <1>1, <1>5, StoreFinishes
<1>6. CASE Works(p, "flush") /\ Rest(p, FALSE) /\ UNCHANGED media
  BY <1>1, <1>6, FlushFinishes
<1>7. QED
  BY <1>2, <1>3, <1>4, <1>5, <1>6 DEF Finish

-----------------------------------------------------------------------------
(* The invariant holds, and with it the types.                             *)

LEMMA InitIsIInv == Init => IInv
<1> SUFFICES ASSUME Init PROVE IInv
  OBVIOUS
<1>1. /\ machine \in Machines
      /\ media = [p \in Position |-> [s \in 1 .. machine[p].size |-> Original(p, s - 1)]]
      /\ drive = [p \in Position |-> Resting]
      /\ regs = [c \in Channel |-> [sel |-> 2 * c, mode |-> "chs", address |-> 0, count |-> 0]]
      /\ errors = 0 /\ g_blockdevs = <<>> /\ call = Detecting(0, "select")
      /\ reply = Failed /\ late = {}
  BY DEF Init, DrivesInit
<1>2. DisksTyped
  <2>1. ASSUME NEW p \in Position
        PROVE  media[p] \in [1 .. machine[p].size -> Blocks]
    <3>1. machine[p].size \in 0 .. ADDRESSES - 1 /\ ADDRESSES \in Nat
      BY <1>1, DriveIs, Sizes
    <3>2. \A s \in 1 .. machine[p].size : s - 1 \in 0 .. ADDRESSES - 1
      BY <3>1
    <3>3. \A s \in 1 .. machine[p].size : Original(p, s - 1) \in Blocks
      BY <3>2 DEF Blocks
    <3>4. QED
      BY <1>1, <3>3
  <2>2. QED
    BY <1>1, <2>1 DEF DisksTyped
<1>3. DrivesTyped /\ \A p \in Position : drive[p] = Resting
  BY <1>1, AtRest DEF DrivesTyped
<1>4. RegsTyped
  <2>1. \A c \in Channel : 2 * c \in Position /\ ChannelOf(2 * c) = c
    BY DEF Channel, Position, ChannelOf
  <2>2. QED
    BY <1>1, <2>1 DEF RegsTyped, Selected
<1>5. DevicesTyped
  BY <1>1, DriverAssumption DEF DevicesTyped
<1>6. Typed
  BY <1>1, <1>2, <1>3, <1>4, <1>5, FailedReply, DrivesAssumption DEF Typed
<1>7. call = [pc |-> "select", index |-> 0] /\ 0 \in Position
  BY <1>1, Channels DEF Detecting
<1>8. call \in DetectCalls /\ call \notin IOCalls /\ call.pc = "select" /\ call.index = 0
  BY <1>7, Kinds DEF DetectCalls, DetectPcs
<1>9. \A p \in Position : ~ (p < 0)
  BY Channels
<1>10. Control /\ Asking /\ Alone
  <2>1. Control /\ Alone
    BY <1>8 DEF Control, Looping, Alone
  <2>2. late = {} /\ call.index \in Position
    BY <1>1, <1>7, <1>8
  <2>3. Asking
    BY <1>3, <1>8, <1>9, <2>2 DEF Asking
  <2>4. QED
    BY <2>1, <2>3
<1>11. QED
  BY <1>6, <1>10 DEF IInv

LEMMA StutterKeeps == IInv /\ UNCHANGED vars => IInv'
<1> SUFFICES ASSUME IInv, UNCHANGED vars PROVE IInv'
  OBVIOUS
<1>1. /\ Typed /\ Control /\ Asking /\ Alone
      /\ UNCHANGED <<machine, media, drive, regs, errors, g_blockdevs, call, reply, late>>
  BY DEF IInv, vars, hardware, software
<1>2. Typed'
  <2>1. DisksTyped' /\ DrivesTyped' /\ RegsTyped' /\ DevicesTyped'
    BY <1>1, SameDisks, SameDrives, SameRegs, SameDevices DEF Typed
  <2>2. QED
    BY <1>1, <2>1 DEF Typed
<1>3. Dev' = Dev /\ Chan' = Chan /\ Count' = Count /\ InCall' = InCall
  BY <1>1 DEF Dev, Chan, Count, InCall
<1>4. Control'
  BY <1>1, <1>3 DEF Control, Looping, Admits
<1>5. Asking'
  BY <1>1 DEF Asking, Quiet, Identifying, DetectedOn, Selected
<1>6. Serving => Serving'
  <2>1. errors \in Nat
    BY <1>1, DrivesAssumption DEF Typed
  <2>2. QED
    BY <1>1, <2>1, ServingStays
<1>7. Alone'
  BY <1>1, <1>3, <1>6 DEF Alone, Quiet
<1>8. QED
  BY <1>2, <1>4, <1>5, <1>7 DEF IInv

LEMMA CallsKeep == IInv /\ Calls => IInv'
<1> SUFFICES ASSUME IInv, Calls PROVE IInv'
  OBVIOUS
<1>1. PICK dev \in DOMAIN g_blockdevs, lba \in 0 .. UINT - 1, count \in 1 .. MAX_COUNT :
         \/ Read(dev, lba, count)
         \/ \E values \in [1 .. count -> Written] : Write(dev, lba, values)
  BY DEF Calls
<1>2. count \in Nat
  BY DriverAssumption
<1>3. CASE Read(dev, lba, count)
  <2>1. Blanks(count) \in Seq(Blocks) /\ Len(Blanks(count)) = count
    BY <1>2, AtRest DEF Blanks
  <2>2. QED
    BY <1>3, <2>1, RequestKeeps DEF Read
<1>4. ASSUME NEW values \in [1 .. count -> Written], Write(dev, lba, values)
      PROVE  IInv'
  <2>1. values \in Seq(Blocks) /\ Len(values) = count
    BY <1>2 DEF Blocks
  <2>2. QED
    BY <1>4, <2>1, RequestKeeps DEF Write
<1>5. QED
  BY <1>1, <1>3, <1>4

LEMMA NextKeeps == IInv /\ [Next]_vars => IInv'
<1> SUFFICES ASSUME IInv, [Next]_vars PROVE IInv'
  OBVIOUS
<1>1. CASE Detect
  BY <1>1, SelectKeeps, IdentifyKeeps, ProbeKeeps, NotBusyKeeps, SignatureKeeps,
     IdentifyFailsKeeps, RegisterKeeps DEF Detect
<1>2. CASE Calls
  BY <1>2, CallsKeep
<1>3. CASE Transfer
  BY <1>3, ParamsKeeps, IssueCommandKeeps, PollReadyKeeps, PollErrorKeeps, PollGivesUpKeeps,
     TransferInKeeps, ReadDoneKeeps, TransferOutKeeps, FlushKeeps DEF Transfer
<1>4. CASE DriveStep /\ UNCHANGED software
  BY <1>4, NoticeKeeps, FinishKeeps, ErrKeeps DEF DriveStep
<1>5. CASE UNCHANGED vars
  BY <1>5, StutterKeeps
<1>6. QED
  BY <1>1, <1>2, <1>3, <1>4, <1>5 DEF Next

\* Whatever the drives do and however late, the call and its drive stay together as
\* IInv says, and the other drives of its channel rest.
THEOREM Invariance == Spec => []IInv
<1>1. Init => IInv
  BY InitIsIInv
<1>2. IInv /\ [Next]_vars => IInv'
  BY NextKeeps
<1>3. QED
  BY <1>1, <1>2, PTL DEF Spec

LEMMA IInvIsTypeOK == IInv => TypeOK
<1> SUFFICES ASSUME IInv PROVE TypeOK
  OBVIOUS
<1>1. Typed /\ Control
  BY DEF IInv
<1>2. \A p \in Position :
         /\ media[p] \in [1 .. machine[p].size -> Blocks]
         /\ drive[p].phase \in Phases /\ drive[p].op \in Ops /\ drive[p].err \in BOOLEAN
  BY <1>1 DEF Typed, DisksTyped, DrivesTyped, Sound, DriveStates
<1>3. \/ call = Idle
      \/ call.pc \in DetectPcs /\ call.index \in Position
      \/ /\ call.pc \in CallPcs /\ call.dev \in DOMAIN g_blockdevs
         /\ call.pc = "transfer" => call.s < Count
         /\ call.values \in [1 .. Count -> Blocks]
  <2>1. CASE call \in IOCalls
    <3>1. /\ call.pc \in CallPcs /\ call.dev \in DOMAIN g_blockdevs /\ InLoop(call)
          /\ call.values \in Seq(Blocks)
      BY <1>1, <2>1, Kinds DEF Control, Looping, IOCalls
    <3>2. call.pc = "transfer" => call.s < Count
      BY <3>1 DEF InLoop, Count
    <3>3. call.values \in [1 .. Count -> Blocks]
      BY <3>1 DEF Count
    <3>4. QED
      BY <3>1, <3>2, <3>3
  <2>2. CASE call \in DetectCalls
    BY <2>2, Kinds
  <2>3. QED
    BY <1>1, <2>1, <2>2 DEF Control
<1>4. QED
  BY <1>1, <1>2, <1>3 DEF TypeOK, Typed, DisksTyped, RegsTyped, DevicesTyped

\* The driver and the drives keep to their types: a call moves no block to or from
\* behind its caller's buffer, and the registers of a channel select its own drives.
THEOREM TypeCorrect == Spec => []TypeOK
<1>1. Spec => []IInv
  BY Invariance
<1>2. IInv => TypeOK
  BY IInvIsTypeOK
<1>3. QED
  BY <1>1, <1>2, PTL

-----------------------------------------------------------------------------
(* The calls of the driver as calls of a disk service.                     *)

Where == [i \in 1 .. Count |-> Addressed(i)]
Asked == IF "op" \in DOMAIN call
         THEN [op    |-> call.op,
               where |-> [i \in 1 .. Count |-> Addressed(i)],
               what  |-> IF call.op = "write" THEN call.values ELSE <<>>]
         ELSE [op |-> "none", where |-> <<>>, what |-> <<>>]
Astray == SectorsOf(late)

\* The steps of the service, in the driver's terms.
LEMMA ServiceSteps ==
    /\ D!Init <=> Asked = D!Nothing /\ reply = Failed /\ errors = 0 /\ Astray = {}
    /\ UNCHANGED D!vars <=>
          Content' = Content /\ Asked' = Asked /\ reply' = reply /\ errors' = errors /\ Astray' = Astray
    /\ D!Begin <=>
          /\ Asked = D!Nothing /\ Asked' # D!Nothing
          /\ Content' = Content /\ reply' = reply /\ errors' = errors /\ Astray' = Astray
    /\ D!Refuse <=>
          /\ Asked = D!Nothing /\ reply' = Failed
          /\ Content' = Content /\ Asked' = Asked /\ errors' = errors /\ Astray' = Astray
    /\ D!Store <=> \E i \in DOMAIN Asked.where :
          /\ Asked.op = "write" /\ Asked.where[i] \in DOMAIN Content
          /\ Content' = [Content EXCEPT ![Asked.where[i]] = Asked.what[i]]
          /\ Asked' = Asked /\ reply' = reply /\ errors' = errors /\ Astray' = Astray
<1>1. D!Init <=> Asked = D!Nothing /\ reply = Failed /\ errors = 0 /\ Astray = {}
  BY Zenon DEF D!Init, D!Failed, Failed, Asked, Astray
<1>2. UNCHANGED D!vars <=>
        Content' = Content /\ Asked' = Asked /\ reply' = reply /\ errors' = errors /\ Astray' = Astray
  BY DEF D!vars, Asked, Astray
<1>3. D!Begin <=>
        /\ Asked = D!Nothing /\ Asked' # D!Nothing
        /\ Content' = Content /\ reply' = reply /\ errors' = errors /\ Astray' = Astray
  BY DEF D!Begin, Asked, Astray
<1>4. D!Refuse <=>
        /\ Asked = D!Nothing /\ reply' = Failed
        /\ Content' = Content /\ Asked' = Asked /\ errors' = errors /\ Astray' = Astray
  BY DEF D!Refuse, D!Failed, Failed, Asked, Astray
<1>5. D!Store <=> \E i \in DOMAIN Asked.where :
        /\ Asked.op = "write" /\ Asked.where[i] \in DOMAIN Content
        /\ Content' = [Content EXCEPT ![Asked.where[i]] = Asked.what[i]]
        /\ Asked' = Asked /\ reply' = reply /\ errors' = errors /\ Astray' = Astray
  BY DEF D!Store, Asked, Astray
<1>6. QED
  BY <1>1, <1>2, <1>3, <1>4, <1>5

LEMMA ServiceReturns ==
    /\ D!Answer <=>
          /\ Asked # D!Nothing /\ Asked' = D!Nothing
          /\ \A i \in DOMAIN Asked.where : Asked.where[i] \in DOMAIN Content
          /\ \/ /\ Asked.op = "read"
                /\ reply' = Success([i \in DOMAIN Asked.where |-> Content[Asked.where[i]]])
             \/ /\ Asked.op = "write" /\ reply' = Success(<<>>)
                /\ \A i \in DOMAIN Asked.where :
                      \/ Content[Asked.where[i]] = Asked.what[i]
                      \/ i = Len(Asked.where) /\ errors > 0
          /\ Content' = Content /\ errors' = errors /\ Astray' = Astray
    /\ D!Fail <=>
          /\ Asked # D!Nothing /\ Asked' = D!Nothing
          /\ errors > 0 \/ ~ \A i \in DOMAIN Asked.where : Asked.where[i] \in DOMAIN Content
          /\ reply' = Failed
          /\ Content' = Content /\ errors' = errors /\ Astray' = Astray
    /\ D!Error <=>
          /\ errors' = errors + 1
          /\ Content' = Content /\ Asked' = Asked /\ reply' = reply /\ Astray' = Astray
    /\ D!GiveUp <=>
          /\ Asked # D!Nothing /\ Asked' = D!Nothing /\ reply' = Failed
          /\ Astray \subseteq Astray'
          /\ \A i \in DOMAIN Asked.where : Asked.where[i] \in Astray'
          /\ Content' = Content /\ errors' = errors
    /\ D!Stray <=>
          /\ DOMAIN Content' = DOMAIN Content
          /\ \A x \in DOMAIN Content \ Astray : Content'[x] = Content[x]
          /\ Asked' = Asked /\ reply' = reply /\ errors' = errors /\ Astray' = Astray
    /\ D!StrayReply <=>
          /\ Asked # D!Nothing /\ Asked' = D!Nothing
          /\ \E i \in DOMAIN Asked.where : Asked.where[i] \in Astray
          /\ Content' = Content /\ errors' = errors /\ Astray' = Astray
<1>1. D!Answer <=>
        /\ Asked # D!Nothing /\ Asked' = D!Nothing
        /\ \A i \in DOMAIN Asked.where : Asked.where[i] \in DOMAIN Content
        /\ \/ /\ Asked.op = "read"
              /\ reply' = Success([i \in DOMAIN Asked.where |-> Content[Asked.where[i]]])
           \/ /\ Asked.op = "write" /\ reply' = Success(<<>>)
              /\ \A i \in DOMAIN Asked.where :
                    \/ Content[Asked.where[i]] = Asked.what[i]
                    \/ i = Len(Asked.where) /\ errors > 0
        /\ Content' = Content /\ errors' = errors /\ Astray' = Astray
  BY DEF D!Answer, D!Exists, D!Holds, D!Success, Success, Asked, Astray
<1>2. D!Fail <=>
        /\ Asked # D!Nothing /\ Asked' = D!Nothing
        /\ errors > 0 \/ ~ \A i \in DOMAIN Asked.where : Asked.where[i] \in DOMAIN Content
        /\ reply' = Failed
        /\ Content' = Content /\ errors' = errors /\ Astray' = Astray
  BY DEF D!Fail, D!Exists, D!Failed, Failed, Asked, Astray
<1>3. D!Error <=>
        /\ errors' = errors + 1
        /\ Content' = Content /\ Asked' = Asked /\ reply' = reply /\ Astray' = Astray
  BY DEF D!Error, Asked, Astray
<1>4. D!GiveUp <=>
        /\ Asked # D!Nothing /\ Asked' = D!Nothing /\ reply' = Failed
        /\ Astray \subseteq Astray'
        /\ \A i \in DOMAIN Asked.where : Asked.where[i] \in Astray'
        /\ Content' = Content /\ errors' = errors
  BY DEF D!GiveUp, D!Failed, Failed, Asked, Astray
<1>5. D!Stray <=>
        /\ DOMAIN Content' = DOMAIN Content
        /\ \A x \in DOMAIN Content \ Astray : Content'[x] = Content[x]
        /\ Asked' = Asked /\ reply' = reply /\ errors' = errors /\ Astray' = Astray
  BY DEF D!Stray, Asked, Astray
<1>6. D!StrayReply <=>
        /\ Asked # D!Nothing /\ Asked' = D!Nothing
        /\ \E i \in DOMAIN Asked.where : Asked.where[i] \in Astray
        /\ Content' = Content /\ errors' = errors /\ Astray' = Astray
  BY DEF D!StrayReply, D!InDoubt, Asked, Astray
<1>7. QED
  BY <1>1, <1>2, <1>3, <1>4, <1>5, <1>6

-----------------------------------------------------------------------------
(* Sectors, and what a call asks of them.                                  *)

LEMMA ContentIs ==
    ASSUME machine \in Machines
    PROVE  /\ DOMAIN Content = {x \in Position \X (0 .. ADDRESSES + MAX_COUNT) :
                                   x[2] < machine[x[1]].size}
           /\ \A x \in DOMAIN Content : Content[x] = media[x[1]][x[2] + 1]
           /\ Content = [x \in DOMAIN Content |-> Content[x]]
           /\ \A p \in Position : \A n : <<p, n>> \in DOMAIN Content <=> n \in 0 .. machine[p].size - 1
<1> DEFINE S == {x \in SectorsOf(Channel) : x[2] < machine[x[1]].size}
           T == {x \in Position \X (0 .. ADDRESSES + MAX_COUNT) : x[2] < machine[x[1]].size}
<1>1. S = T
  BY Channels DEF SectorsOf
<1>2. Content = [x \in T |-> media[x[1]][x[2] + 1]]
  BY <1>1 DEF Content
<1>3. \A p \in Position : \A n : <<p, n>> \in T <=> n \in 0 .. machine[p].size - 1
  <2>1. SUFFICES ASSUME NEW p \in Position, NEW n
                 PROVE  <<p, n>> \in T <=> n \in 0 .. machine[p].size - 1
    OBVIOUS
  <2>2. /\ machine[p].size \in 0 .. ADDRESSES - 1 /\ ADDRESSES \in Nat
        /\ MAX_COUNT \in Nat
    BY DriveIs, Sizes, DriverAssumption
  <2>3. QED
    BY <2>2
<1> HIDE DEF T
<1>4. QED
  BY <1>2, <1>3 DEF T

LEMMA ContentStays ==
    ASSUME UNCHANGED <<machine, media>>
    PROVE  Content' = Content
BY DEF Content

\* What a call asks for, and that it is nothing without one.
LEMMA AskedIs ==
    /\ "op" \notin DOMAIN call => Asked = D!Nothing
    /\ call \in IOCalls =>
          /\ Asked # D!Nothing /\ Asked.op = call.op /\ Asked.where = Where
          /\ call.op = "write" => Asked.what = call.values
<1>1. "op" \notin DOMAIN call => Asked = D!Nothing
  BY DEF Asked, D!Nothing
<1>2. ASSUME call \in IOCalls
      PROVE  /\ Asked # D!Nothing /\ Asked.op = call.op /\ Asked.where = Where
             /\ call.op = "write" => Asked.what = call.values
  <2>1. "op" \in DOMAIN call /\ call.op \in {"read", "write"}
    BY <1>2, Kinds
  <2>2. Asked = [op |-> call.op, where |-> Where,
                 what |-> IF call.op = "write" THEN call.values ELSE <<>>]
    BY <2>1 DEF Asked, Where
  <2>3. D!Nothing.op = "none"
    BY DEF D!Nothing
  <2>4. QED
    BY <2>1, <2>2, <2>3
<1>3. QED
  BY <1>1, <1>2

\* The same after a step in which the call goes on.
LEMMA AskedStays ==
    ASSUME call \in IOCalls, SameCall, call.op = "write" => call'.values = call.values
    PROVE  Asked' = Asked
<1>1. /\ Dev' = Dev /\ Count' = Count /\ call' \in IOCalls
      /\ call'.op = call.op /\ call'.lba = call.lba /\ machine' = machine
  BY SameCallIs DEF SameCall
<1>2. "op" \in DOMAIN call /\ "op" \in DOMAIN call'
  BY <1>1, Kinds
<1>3. \A i : Addressed(i)' = Addressed(i)
  BY <1>1 DEF Addressed, Place
<1>4. Where' = Where
  BY <1>1, <1>3 DEF Where
<1>5. /\ Asked = [op |-> call.op, where |-> Where,
                  what |-> IF call.op = "write" THEN call.values ELSE <<>>]
      /\ Asked' = [op |-> call'.op, where |-> Where',
                   what |-> IF call'.op = "write" THEN call'.values ELSE <<>>]
  BY <1>2 DEF Asked, Where
<1>6. QED
  BY <1>1, <1>4, <1>5

\* The i-th sector of a call: where the drive puts it, or none at all.
LEMMA AddressedIs ==
    ASSUME IInv, call.pc \in CallPcs, NEW i \in 1 .. Count
    PROVE  /\ First + i <= Size =>
                 /\ Addressed(i) = <<Dev.pos, First + i - 1>> /\ Addressed(i) \in DOMAIN Content
                 /\ Content[Addressed(i)] = media[Dev.pos][First + i]
           /\ ~ (First + i <= Size) => Addressed(i) \notin DOMAIN Content
           /\ Addressed(i) \in Position \X (0 .. ADDRESSES + MAX_COUNT)
           /\ Addressed(i)[1] = Dev.pos
<1>1. /\ Typed /\ call.lba \in 0 .. UINT - 1 /\ Count \in 1 .. MAX_COUNT /\ Dev.pos \in Position
      /\ Size \in Nat \ {0} /\ Size = Dev.sector_count /\ First \in 0 .. Size
      /\ call \in IOCalls
  BY InIO
<1>2. /\ machine \in Machines /\ ADDRESSES \in Nat /\ MAX_COUNT \in Nat /\ UINT \in Nat \ {0}
      /\ Count \in Nat /\ i \in Nat /\ call.lba \in Nat
  BY <1>1, Sizes, DriverAssumption DEF Typed, DisksTyped
<1>3. Size \in 0 .. ADDRESSES - 1
  BY <1>1, <1>2, DriveIs DEF Size
<1>4. Addressed(i) = IF call.lba + i <= Size THEN <<Dev.pos, First + i - 1>>
                     ELSE <<Dev.pos, ADDRESSES>>
  BY <1>1 DEF Addressed, First
<1>5. First + i <= Size => call.lba + i <= Size
  <2>1. Admits(call.dev, call.lba, Count) /\ (call.op = "write" => call.lba + Count <= Size)
    BY <1>1 DEF IInv, Control, Looping
  <2>2. (call.lba + Count) % UINT <= Size
    BY <1>1, <2>1 DEF Admits, Dev
  <2>3. CASE call.lba + Count < UINT
    <3>1. (call.lba + Count) % UINT = call.lba + Count
      BY <1>2, <2>3
    <3>2. QED
      BY <1>2, <1>3, <2>2, <3>1
  <2>4. CASE call.lba + Count >= UINT
    <3>1. First = Size
      BY <1>1, <1>2, <2>4, NoneAtTheEnd DEF First, Size
    <3>2. QED
      BY <1>2, <1>3, <3>1
  <2>5. QED
    BY <1>2, <2>3, <2>4
<1>6. ASSUME First + i <= Size
      PROVE  /\ Addressed(i) = <<Dev.pos, First + i - 1>> /\ Addressed(i) \in DOMAIN Content
             /\ Content[Addressed(i)] = media[Dev.pos][First + i]
  <2>1. Addressed(i) = <<Dev.pos, First + i - 1>>
    BY <1>4, <1>5, <1>6
  <2>2. First + i - 1 \in 0 .. Size - 1 /\ (First + i - 1) + 1 = First + i
    BY <1>1, <1>2, <1>6
  <2>3. Addressed(i) \in DOMAIN Content
    BY <1>1, <1>2, <2>1, <2>2, ContentIs DEF Size
  <2>4. QED
    BY <1>2, <2>1, <2>2, <2>3, ContentIs
<1>7. ASSUME ~ (First + i <= Size) PROVE Addressed(i) \notin DOMAIN Content
  <2>1. First + i - 1 \notin 0 .. Size - 1 /\ ADDRESSES \notin 0 .. Size - 1
    BY <1>1, <1>2, <1>3, <1>7
  <2>2. <<Dev.pos, First + i - 1>> \notin DOMAIN Content /\ <<Dev.pos, ADDRESSES>> \notin DOMAIN Content
    BY <1>1, <1>2, <2>1, ContentIs DEF Size
  <2>3. QED
    BY <1>4, <2>2
<1>8. Addressed(i) \in Position \X (0 .. ADDRESSES + MAX_COUNT) /\ Addressed(i)[1] = Dev.pos
  <2>1. First + i - 1 \in 0 .. ADDRESSES + MAX_COUNT /\ ADDRESSES \in 0 .. ADDRESSES + MAX_COUNT
    BY <1>1, <1>2, <1>3
  <2>2. QED
    BY <1>1, <1>4, <2>1
<1>9. QED
  BY <1>6, <1>7, <1>8

\* A call in progress asks for something, and on a channel that was given up it is
\* in doubt.
LEMMA CallAsks ==
    ASSUME IInv, call.pc \in CallPcs
    PROVE  /\ call \in IOCalls /\ Asked # D!Nothing /\ Asked.op = call.op
           /\ Asked.where = Where /\ DOMAIN Where = 1 .. Count /\ Len(Where) = Count
           /\ \A i \in 1 .. Count : Where[i] = Addressed(i)
           /\ call.op = "write" => Asked.what = call.values
           /\ Count \in Nat \ {0}
           /\ \A L : Chan \in L => \A i \in 1 .. Count : Where[i] \in SectorsOf(L)
<1>1. call \in IOCalls /\ Count \in Nat \ {0}
  BY InIO
<1>2. /\ DOMAIN Where = 1 .. Count /\ Len(Where) = Count
      /\ \A i \in 1 .. Count : Where[i] = Addressed(i)
  BY <1>1 DEF Where
<1>3. \A L : Chan \in L => \A i \in 1 .. Count : Where[i] \in SectorsOf(L)
  BY <1>2, AddressedIs DEF SectorsOf, Chan
<1>4. QED
  BY <1>1, <1>2, <1>3, AskedIs

-----------------------------------------------------------------------------
(* Every step of the driver and the drives is one of the service.          *)

\* While a drive is looked for, or between calls, nothing is asked for.
LEMMA BootIsStutter ==
    ASSUME "op" \notin DOMAIN call, "op" \notin DOMAIN call',
           UNCHANGED <<machine, media, reply, errors, late>>
    PROVE  UNCHANGED D!vars
<1>1. Asked' = D!Nothing /\ Asked = D!Nothing
  BY DEF Asked, D!Nothing
<1>2. Content' = Content /\ Astray' = Astray
  BY ContentStays DEF Astray, SectorsOf
<1>3. QED
  BY <1>1, <1>2, ServiceSteps

LEMMA DetectIsStutter == IInv /\ Detect => UNCHANGED D!vars
<1> SUFFICES ASSUME IInv, Detect PROVE UNCHANGED D!vars
  OBVIOUS
<1>1. /\ call.pc \in DetectPcs
      /\ UNCHANGED <<machine, media, reply, errors, late>>
      /\ NextPosition \/ \E pc \in DetectPcs : Goto(pc)
  BY DEF Detect, Select, Identify, Probe, NotBusy, Signature, IdentifyFails, Register,
         At, DetectPcs, hardware
<1>2. call \in DetectCalls
  BY <1>1, Boot
<1>3. call' \in DetectCalls \/ call' = Idle
  <2>1. CASE NextPosition
    <3>1. CASE call.index = 3
      BY <2>1, <3>1 DEF NextPosition
    <3>2. CASE call.index # 3
      <4>1. call.index + 1 \in Position
        BY <1>2, <3>2, Kinds, Channels
      <4>2. QED
        BY <2>1, <3>2, <4>1 DEF NextPosition, Detecting, DetectCalls, DetectPcs
    <3>3. QED
      BY <3>1, <3>2
  <2>2. CASE \E pc \in DetectPcs : Goto(pc)
    BY <1>2, <2>2, GotoDetect
  <2>3. QED
    BY <1>1, <2>1, <2>2
<1>4. QED
  BY <1>1, <1>2, <1>3, Kinds, BootIsStutter

\* A call begins, or is refused.
LEMMA CallsAreService == IInv /\ IInv' /\ Calls => D!Begin \/ D!Refuse
<1> SUFFICES ASSUME IInv, IInv', Calls PROVE D!Begin \/ D!Refuse
  OBVIOUS
<1>1. PICK dev \in DOMAIN g_blockdevs, lba \in 0 .. UINT - 1, op \in {"read", "write"} :
         \E values : Request(op, dev, lba, values)
  BY DEF Calls, Read, Write
<1>2. PICK values : Request(op, dev, lba, values)
  BY <1>1
<1>3. /\ call.pc = "idle" /\ UNCHANGED <<hardware, g_blockdevs, late>>
      /\ \/ /\ call' = [pc |-> "params", op |-> op, dev |-> dev, lba |-> lba,
                        values |-> values, s |-> 0]
            /\ UNCHANGED reply
         \/ call' = Idle /\ reply' = Failed
  BY <1>2 DEF Request, At
<1>4. Asked = D!Nothing
  <2>1. call = Idle
    BY <1>3, Kinds DEF IInv, Control, DetectPcs, CallPcs
  <2>2. QED
    BY <2>1, Kinds, AskedIs
<1>5. Content' = Content /\ errors' = errors /\ Astray' = Astray
  BY <1>3, ContentStays DEF hardware, Astray, SectorsOf
<1>6. CASE /\ call' = [pc |-> "params", op |-> op, dev |-> dev, lba |-> lba,
                       values |-> values, s |-> 0]
           /\ UNCHANGED reply
  <2>1. "op" \in DOMAIN call' /\ call'.op = op
    BY <1>6
  <2>2. Asked'.op = op
    BY <2>1 DEF Asked
  <2>3. Asked' # D!Nothing
    BY <2>2 DEF D!Nothing
  <2>4. QED
    BY <1>4, <1>5, <1>6, <2>3, ServiceSteps
<1>7. CASE call' = Idle /\ reply' = Failed
  <2>1. Asked' = D!Nothing
    BY <1>7, Kinds DEF Asked, D!Nothing
  <2>2. QED
    BY <1>4, <1>5, <1>7, <2>1, ServiceSteps
<1>8. QED
  BY <1>3, <1>6, <1>7

\* A call goes on.
LEMMA GoingOnIsStutter ==
    ASSUME IInv, call.pc \in CallPcs, SameCall, call.op = "write" => call'.values = call.values,
           UNCHANGED <<machine, media, reply, errors, late>>
    PROVE  UNCHANGED D!vars
<1>1. Asked' = Asked
  BY InIO, AskedStays
<1>2. Content' = Content /\ Astray' = Astray
  BY ContentStays DEF Astray, SectorsOf
<1>3. QED
  BY <1>1, <1>2, ServiceSteps

\* A call returns on a channel of which nothing is promised, or as it should.
LEMMA ReturnIsService ==
    ASSUME IInv, call.pc \in CallPcs, call' = Idle, UNCHANGED <<machine, media, errors, late>>,
           Chan \notin late =>
              \/ /\ reply' = Failed
                 /\ errors > 0 \/ \E i \in 1 .. Count : ~ (First + i <= Size)
              \/ /\ call.op = "read" /\ reply' = Success(call.values) /\ Moved(Count)
              \/ /\ call.op = "write" /\ reply' = Success(<<>>) /\ AllOut
    PROVE  D!Answer \/ D!Fail \/ D!StrayReply
<1>1. /\ Asked # D!Nothing /\ Asked.op = call.op
      /\ Asked.where = Where /\ DOMAIN Where = 1 .. Count /\ Len(Where) = Count
      /\ \A i \in 1 .. Count : Where[i] = Addressed(i)
      /\ call.op = "write" => Asked.what = call.values
      /\ Count \in Nat \ {0} /\ call.values \in Seq(Blocks) /\ First \in Nat /\ Size \in Nat
  BY CallAsks, InIO
<1>2. Asked' = D!Nothing /\ Content' = Content /\ errors' = errors /\ Astray' = Astray
  BY Kinds, ContentStays DEF Asked, D!Nothing, Astray, SectorsOf
<1>3. CASE Chan \in late
  <2>1. 1 \in DOMAIN Asked.where /\ Asked.where[1] \in Astray
    BY <1>1, <1>3, CallAsks DEF Astray
  <2>2. QED
    BY <1>1, <1>2, <2>1, ServiceReturns
<1>4. CASE reply' = Failed /\ (errors > 0 \/ \E i \in 1 .. Count : ~ (First + i <= Size))
  <2>1. errors > 0 \/ ~ \A i \in DOMAIN Asked.where : Asked.where[i] \in DOMAIN Content
    BY <1>1, <1>4, AddressedIs
  <2>2. QED
    BY <1>1, <1>2, <1>4, <2>1, ServiceReturns
<1>5. CASE call.op = "read" /\ reply' = Success(call.values) /\ Moved(Count)
  <2>1. \A i \in 1 .. Count : First + i <= Size /\ media[Dev.pos][First + i] = call.values[i]
    BY <1>5 DEF Moved
  <2>2. \A i \in 1 .. Count : Where[i] \in DOMAIN Content /\ Content[Where[i]] = call.values[i]
    BY <1>1, <2>1, AddressedIs
  <2>3. call.values = [i \in 1 .. Count |-> call.values[i]]
    BY <1>1 DEF Count
  <2>4. [i \in DOMAIN Asked.where |-> Content[Asked.where[i]]] = call.values
    BY <1>1, <2>2, <2>3
  <2>5. QED
    BY <1>1, <1>2, <1>5, <2>2, <2>4, ServiceReturns
<1>6. CASE call.op = "write" /\ reply' = Success(<<>>) /\ AllOut
  <2>1. /\ \A i \in 1 .. Count - 1 : media[Dev.pos][First + i] = call.values[i]
        /\ First + Count <= Size
        /\ errors > 0 \/ media[Dev.pos][First + Count] = call.values[Count]
    BY <1>1, <1>6 DEF AllOut, Moved
  <2>2. \A i \in 1 .. Count : First + i <= Size /\ (i # Count => i \in 1 .. Count - 1)
    BY <1>1, <2>1
  <2>3. \A i \in 1 .. Count :
           /\ Where[i] \in DOMAIN Content
           /\ Content[Where[i]] = call.values[i] \/ (i = Count /\ errors > 0)
    BY <1>1, <2>1, <2>2, AddressedIs
  <2>4. QED
    BY <1>1, <1>2, <1>6, <2>3, ServiceReturns
<1>7. QED
  BY <1>3, <1>4, <1>5, <1>6

LEMMA PollReadyIsService ==
    IInv /\ PollReady => UNCHANGED D!vars \/ D!Answer \/ D!Fail \/ D!StrayReply
<1> SUFFICES ASSUME IInv, PollReady
             PROVE  UNCHANGED D!vars \/ D!Answer \/ D!Fail \/ D!StrayReply
  OBVIOUS
<1>1. /\ Polling /\ Settled(Chan) /\ "ERR" \notin Status(Chan)
      /\ "DRQ" \in Status(Chan) \/ "DRDY" \in Status(Chan)
      /\ IF call.pc = "poll" THEN Goto("transfer") /\ UNCHANGED reply ELSE Return(Success(<<>>))
      /\ UNCHANGED <<machine, media, errors, g_blockdevs, late>>
  BY DEF PollReady, Sees, At, hardware
<1>2. call.pc \in {"poll", "flushed"} /\ call \in IOCalls /\ InLoop(call)
  <2>1. call.pc \in {"poll", "flushed"}
    BY <1>1 DEF Polling, At
  <2>2. QED
    BY <2>1, InIO DEF CallPcs
<1>3. CASE call.pc = "poll"
  <2>1. SameCall /\ call'.values = call.values
    BY <1>1, <1>2, <1>3, GotoCall DEF CallPcs
  <2>2. QED
    BY <1>1, <1>2, <1>3, <2>1, GoingOnIsStutter DEF CallPcs
<1>4. CASE call.pc = "flushed"
  <2>1. call' = Idle /\ reply' = Success(<<>>) /\ call.op = "write"
    BY <1>1, <1>2, <1>4 DEF Return, InLoop
  <2>2. ASSUME Chan \notin late PROVE AllOut
    <3>1. "BSY" \in Status(Chan) => Status(Chan) = {"BSY"}
      BY <1>1, <2>2, SeenIs
    <3>2. "BSY" \notin Status(Chan)
      BY <1>1, <3>1
    <3>3. QED
      BY <1>1, <1>4, <2>2, <3>2, SeenIs
  <2>3. QED
    BY <1>1, <1>2, <1>4, <2>1, <2>2, ReturnIsService DEF CallPcs
<1>5. QED
  BY <1>2, <1>3, <1>4

LEMMA PollErrorIsService == IInv /\ PollError => D!Answer \/ D!Fail \/ D!StrayReply
<1> SUFFICES ASSUME IInv, PollError PROVE D!Answer \/ D!Fail \/ D!StrayReply
  OBVIOUS
<1>1. /\ Polling /\ Settled(Chan) /\ "ERR" \in Status(Chan)
      /\ call' = Idle /\ reply' = Failed /\ UNCHANGED <<machine, media, errors, late>>
  BY DEF PollError, Sees, Return, hardware
<1>2. call.pc \in {"poll", "flushed"}
  BY <1>1 DEF Polling, At
<1>3. /\ InLoop(call) /\ call.s \in Nat /\ Count \in Nat /\ First \in Nat /\ Size \in Nat
  BY <1>2, InIO DEF CallPcs
<1>4. ASSUME Chan \notin late PROVE errors > 0 \/ \E i \in 1 .. Count : ~ (First + i <= Size)
  <2>1. Here.phase # "busy" /\ Here.err
    BY <1>1, <1>4, SeenIs
  <2>2. CASE call.pc = "poll"
    <3>1. errors > 0 \/ First + call.s >= Size
      BY <1>1, <1>4, <2>1, <2>2, SeenIs DEF Refused
    <3>2. call.s < Count
      BY <1>3, <2>2 DEF InLoop, Count
    <3>3. call.s + 1 \in 1 .. Count /\ (First + call.s >= Size => ~ (First + (call.s + 1) <= Size))
      BY <1>3, <3>2
    <3>4. QED
      BY <3>1, <3>3
  <2>3. CASE call.pc = "flushed"
    BY <1>1, <1>4, <2>1, <2>3, SeenIs
  <2>4. QED
    BY <1>2, <2>2, <2>3
<1>5. QED
  BY <1>1, <1>2, <1>4, ReturnIsService DEF CallPcs

LEMMA PollGivesUpIsService == IInv /\ PollGivesUp => D!GiveUp
<1> SUFFICES ASSUME IInv, PollGivesUp PROVE D!GiveUp
  OBVIOUS
<1>1. /\ Polling /\ call' = Idle /\ reply' = Failed /\ late' = late \cup {Chan}
      /\ UNCHANGED <<machine, media, errors>>
  BY DEF PollGivesUp, Sees, Return, hardware
<1>2. call.pc \in CallPcs
  BY <1>1 DEF Polling, At, CallPcs
<1>3. Asked' = D!Nothing /\ Content' = Content
  BY <1>1, Kinds, ContentStays DEF Asked, D!Nothing
<1>4. Astray' = SectorsOf(late \cup {Chan}) /\ Astray \subseteq Astray'
  BY <1>1 DEF Astray, SectorsOf
<1>5. Asked # D!Nothing /\ \A i \in DOMAIN Asked.where : Asked.where[i] \in Astray'
  BY <1>2, <1>4, CallAsks
<1>6. QED
  BY <1>1, <1>3, <1>4, <1>5, ServiceReturns

LEMMA ReadDoneIsService == IInv /\ ReadDone => D!Answer \/ D!Fail \/ D!StrayReply
<1> SUFFICES ASSUME IInv, ReadDone PROVE D!Answer \/ D!Fail \/ D!StrayReply
  OBVIOUS
<1>1. /\ call.pc = "return" /\ call' = Idle /\ reply' = Success(call.values)
      /\ UNCHANGED <<machine, media, errors, late>>
  BY DEF ReadDone, Return, At, hardware
<1>2. call.op = "read" /\ (Chan \notin late => Moved(Count))
  BY <1>1, InIO DEF CallPcs, InLoop, Serving
<1>3. QED
  BY <1>1, <1>2, ReturnIsService DEF CallPcs

\* The registers, the command, the blocks in between and the flush are the driver's own.
LEMMA MovesAreStutter ==
    IInv /\ (Params \/ IssueCommand \/ TransferIn \/ TransferOut \/ Flush) => UNCHANGED D!vars
<1> SUFFICES ASSUME IInv, Params \/ IssueCommand \/ TransferIn \/ TransferOut \/ Flush
             PROVE  UNCHANGED D!vars
  OBVIOUS
<1>1. call.pc \in CallPcs /\ UNCHANGED <<machine, media, errors, g_blockdevs, reply, late>>
  BY DEF Params, IssueCommand, TransferIn, TransferOut, Flush, At, CallPcs
<1>2. /\ call \in IOCalls /\ InLoop(call) /\ call.s \in Nat /\ call.values \in Seq(Blocks)
      /\ Chan \in Channel /\ Typed /\ \A p \in Position : Plain(drive[p])
  BY <1>1, InIO
<1>3. CASE Params \/ IssueCommand \/ Flush
  <2>1. PICK pc \in CallPcs : Goto(pc)
    BY <1>3 DEF Params, IssueCommand, Flush, CallPcs
  <2>2. SameCall /\ call'.values = call.values
    BY <1>1, <1>2, <2>1, GotoCall
  <2>3. QED
    BY <1>1, <2>2, GoingOnIsStutter
<1>4. CASE TransferOut
  <2>1. call' = [call EXCEPT !.pc = Loop("flush"), !.s = @ + 1]
    BY <1>4 DEF TransferOut
  <2>2. Loop("flush") \in CallPcs /\ call.s + 1 \in Nat
    BY <1>2 DEF Loop, CallPcs
  <2>3. call' \in IOCalls /\ call'.values = call.values /\ call'.op = call.op
        /\ call'.dev = call.dev /\ call'.lba = call.lba
    BY <1>2, <2>1, <2>2 DEF IOCalls
  <2>4. QED
    BY <1>1, <2>3, GoingOnIsStutter DEF SameCall
<1>5. CASE TransferIn
  <2> DEFINE block == Offered(Chan)
             values == [call.values EXCEPT ![call.s + 1] = block]
  <2>1. call.op = "read" /\ call.pc = "transfer"
        /\ call' = [call EXCEPT !.pc = Loop("return"), !.s = @ + 1, !.values[call.s + 1] = block]
    BY <1>5 DEF TransferIn, At
  <2>2. Loop("return") \in CallPcs /\ call.s + 1 \in Nat
    BY <1>2 DEF Loop, CallPcs
  <2>3. block \in Blocks
    BY <1>2, SelectedIs, AtRest DEF Offered, Plain
  <2> HIDE DEF block
  <2>4. values \in Seq(Blocks) /\ Len(values) = Len(call.values)
    <3>1. call.s + 1 \in 1 .. Len(call.values)
      BY <1>2, <2>1 DEF InLoop
    <3>2. PICK i \in 1 .. Len(call.values) : i = call.s + 1
      BY <3>1
    <3>3. [call.values EXCEPT ![i] = block] \in Seq(Blocks)
          /\ Len([call.values EXCEPT ![i] = block]) = Len(call.values)
      BY <1>2, <2>3
    <3>4. QED
      BY <3>2, <3>3
  <2>5. call' = [call EXCEPT !.pc = Loop("return"), !.s = call.s + 1, !.values = values]
    BY <1>2, <2>1 DEF IOCalls
  <2> HIDE DEF values
  <2>6. call' \in IOCalls /\ call'.values = values /\ call'.op = call.op
        /\ call'.dev = call.dev /\ call'.lba = call.lba
    BY <1>2, <2>2, <2>4, <2>5 DEF IOCalls
  <2>7. QED
    BY <1>1, <2>1, <2>4, <2>6, GoingOnIsStutter DEF SameCall
<1>6. QED
  BY <1>3, <1>4, <1>5

\* A drive that writes a block does so for the call, or late, for one given up.
LEMMA StoreIsService ==
    ASSUME IInv, IInv', NEW p \in Position, Works(p, "store"),
           media' = [media EXCEPT ![p][drive[p].at + 1] = drive[p].data],
           UNCHANGED <<machine, errors, software>>
    PROVE  D!Store \/ D!Stray
<1> DEFINE data == drive[p].data
           at == drive[p].at
<1>1. /\ Typed /\ machine \in Machines /\ Typed' /\ call \notin DetectCalls
      /\ drive[p].phase = "busy" /\ drive[p].op = "store" /\ at \in Nat
      /\ UNCHANGED <<call, reply, late, g_blockdevs>>
      /\ DOMAIN media = Position
      /\ machine[p].size \in Nat /\ media[p] \in [1 .. machine[p].size -> Blocks] /\ data \in Blocks
  BY WorksFor DEF IInv, Typed, DisksTyped, software, DriveStates, Plain
<1>2. /\ DOMAIN Content' = DOMAIN Content
      /\ \A x \in DOMAIN Content : Content[x] = media[x[1]][x[2] + 1] /\ Content'[x] = media'[x[1]][x[2] + 1]
      /\ Content' = [x \in DOMAIN Content |-> Content'[x]]
      /\ Content = [x \in DOMAIN Content |-> Content[x]]
  <2>1. Content' = [x \in DOMAIN Content |-> media'[x[1]][x[2] + 1]]
    BY <1>1 DEF Content
  <2>2. QED
    BY <1>1, <2>1, ContentIs
<1>3. \A x \in DOMAIN Content :
         Content'[x] = IF x = <<p, at>> THEN data ELSE Content[x]
  <2>1. SUFFICES ASSUME NEW x \in DOMAIN Content
                 PROVE  media'[x[1]][x[2] + 1] = IF x = <<p, at>> THEN data ELSE media[x[1]][x[2] + 1]
    BY <1>2
  <2>2. PICK q \in Position, n \in 0 .. ADDRESSES + MAX_COUNT : x = <<q, n>> /\ n < machine[q].size
    BY <1>1, ContentIs
  <2>3. n \in Nat
    BY Sizes, DriverAssumption
  <2>4. CASE q # p
    BY <1>1, <2>2, <2>4
  <2>5. CASE q = p
    <3>1. media'[p] = [media[p] EXCEPT ![at + 1] = data]
      BY <1>1
    <3>2. n + 1 \in 1 .. machine[p].size /\ (n + 1 = at + 1 <=> n = at)
      BY <1>1, <2>2, <2>3, <2>5
    <3> HIDE DEF data, at
    <3>3. media'[p][n + 1] = IF n + 1 = at + 1 THEN data ELSE media[p][n + 1]
      BY <1>1, <3>1, <3>2, OnePlace
    <3>4. x[1] = p /\ x[2] = n /\ (x = <<p, at>> <=> n = at)
      BY <2>2, <2>5
    <3>5. QED
      BY <3>2, <3>3, <3>4
  <2>6. QED
    BY <2>4, <2>5
<1> HIDE DEF data, at
<1>4. reply' = reply /\ errors' = errors /\ Astray' = Astray
  BY <1>1 DEF Astray, SectorsOf
<1>5. Asked' = Asked
  <2>1. \A i : Addressed(i)' = Addressed(i)
    BY <1>1 DEF Addressed, Place, Dev
  <2>2. QED
    BY <1>1, <2>1 DEF Asked, Count
<1>6. CASE ChannelOf(p) \in late
  <2>1. ASSUME NEW x \in DOMAIN Content \ Astray PROVE Content'[x] = Content[x]
    <3>1. x \in Position \X (0 .. ADDRESSES + MAX_COUNT)
      BY <1>1, ContentIs
    <3>2. x[1] # p
      BY <1>6, <2>1, <3>1 DEF Astray, SectorsOf
    <3>3. x # <<p, at>>
      BY <3>2
    <3>4. QED
      BY <1>3, <3>3
  <2>2. QED
    BY <1>2, <1>4, <1>5, <2>1, ServiceReturns
<1>7. CASE ChannelOf(p) \notin late
  <2>1. InCall /\ p = Dev.pos /\ Chan \notin late
    BY <1>1, <1>7, Working DEF Chan
  <2>2. Here.phase = "busy" /\ Here.op = "store" /\ Here.at = at /\ Here.data = data
    BY <1>1, <2>1 DEF Here, at, data
  <2>3. /\ Storing /\ InLoop(call) /\ call.s \in Nat /\ Count \in Nat /\ First \in Nat
        /\ Size \in Nat /\ call.pc \in CallPcs
    BY <2>1, <2>2, Served DEF OnBlock, CallPcs
  <2>4. PICK s \in Nat : s = call.s
    BY <2>3
  <2>5. /\ s >= 1 /\ at = First + s - 1 /\ at < Size /\ data = call.values[s] /\ call.op = "write"
        /\ s <= Count
    <3>1. s >= 1 /\ at = First + s - 1 /\ at < Size /\ data = call.values[s] /\ call.op = "write"
      BY <2>2, <2>3, <2>4 DEF Storing
    <3>2. s <= Count
      BY <2>3, <2>4 DEF InLoop, Count, CallPcs
    <3>3. QED
      BY <3>1, <3>2
  <2>6. s \in 1 .. Count /\ First + s <= Size
    BY <2>3, <2>5
  <2>7. /\ s \in DOMAIN Asked.where /\ Asked.op = "write" /\ Asked.where[s] = <<p, at>>
        /\ Asked.where[s] \in DOMAIN Content /\ Asked.what[s] = data
    BY <2>1, <2>3, <2>5, <2>6, CallAsks, AddressedIs
  <2>8. Content' = [Content EXCEPT ![<<p, at>>] = data]
    BY <1>2, <1>3
  <2>9. QED
    BY <1>4, <1>5, <2>7, <2>8, ServiceSteps
<1>8. QED
  BY <1>6, <1>7

LEMMA DrivesAreService ==
    IInv /\ IInv' /\ DriveStep /\ UNCHANGED software =>
        UNCHANGED D!vars \/ D!Store \/ D!Error \/ D!Stray
<1> SUFFICES ASSUME IInv, IInv', DriveStep, UNCHANGED software
             PROVE  UNCHANGED D!vars \/ D!Store \/ D!Error \/ D!Stray
  OBVIOUS
<1>1. PICK p \in Position : Notice(p) \/ Finish(p) \/ Err(p)
  BY DEF DriveStep
<1>2. UNCHANGED <<machine, g_blockdevs, call, reply, late>>
  BY <1>1 DEF Notice, Finish, Err, software
<1>3. Asked' = Asked /\ Astray' = Astray
  <2>1. \A i : Addressed(i)' = Addressed(i)
    BY <1>2 DEF Addressed, Place, Dev
  <2>2. QED
    BY <1>2, <2>1 DEF Asked, Count, Astray, SectorsOf
<1>4. CASE UNCHANGED media /\ UNCHANGED errors
  BY <1>2, <1>3, <1>4, ContentStays, ServiceSteps
<1>5. CASE Err(p)
  BY <1>2, <1>3, <1>5, ContentStays, ServiceReturns DEF Err
<1>6. CASE Notice(p)
  BY <1>4, <1>6 DEF Notice
<1>7. CASE Finish(p)
  <2>1. UNCHANGED errors
    BY <1>7 DEF Finish
  <2>2. UNCHANGED media \/ (/\ Works(p, "store")
                            /\ media' = [media EXCEPT ![p][drive[p].at + 1] = drive[p].data])
    BY <1>7 DEF Finish
  <2>3. QED
    BY <1>2, <1>4, <2>1, <2>2, StoreIsService
<1>8. QED
  BY <1>1, <1>5, <1>6, <1>7

LEMMA StepsAreService == IInv /\ IInv' /\ [Next]_vars => [D!Next]_(D!vars)
<1> SUFFICES ASSUME IInv, IInv', [Next]_vars PROVE D!Next \/ UNCHANGED D!vars
  OBVIOUS
<1>1. CASE Detect
  BY <1>1, DetectIsStutter
<1>2. CASE Calls
  BY <1>2, CallsAreService DEF D!Next
<1>3. CASE Transfer
  BY <1>3, PollReadyIsService, PollErrorIsService, PollGivesUpIsService, ReadDoneIsService,
     MovesAreStutter DEF Transfer, D!Next
<1>4. CASE DriveStep /\ UNCHANGED software
  BY <1>4, DrivesAreService DEF D!Next
<1>5. CASE UNCHANGED vars
  <2>1. UNCHANGED <<machine, media, errors, g_blockdevs, call, reply, late>>
    BY <1>5 DEF vars, hardware, software
  <2>2. \A i : Addressed(i)' = Addressed(i)
    BY <2>1 DEF Addressed, Place, Dev
  <2>3. Asked' = Asked /\ Astray' = Astray
    BY <2>1, <2>2 DEF Asked, Count, Astray, SectorsOf
  <2>4. QED
    BY <2>1, <2>3, ContentStays, ServiceSteps
<1>6. QED
  BY <1>1, <1>2, <1>3, <1>4, <1>5 DEF Next

\* A call gets the sectors that its address names to the drive, for disks and calls
\* of every size: a read shows what they hold, a write reaches them and no other, and
\* a call fails for a reason.  Excepted are the channels on which a poll has given up,
\* and the last sector of a write, whose error nobody looks for.
THEOREM CallsAreServed == Spec => ImplementsDiskService
<1>1. Init => D!Init
  <2>1. SUFFICES ASSUME Init PROVE Asked = D!Nothing /\ reply = Failed /\ errors = 0 /\ Astray = {}
    BY ServiceSteps
  <2>2. "op" \notin DOMAIN call
    BY <2>1 DEF Init, Detecting
  <2>3. Asked = D!Nothing
    BY <2>2, AskedIs
  <2>4. QED
    BY <2>1, <2>3 DEF Init, DrivesInit, Astray, SectorsOf
<1>2. IInv /\ IInv' /\ [Next]_vars => [D!Next]_(D!vars)
  BY StepsAreService
<1>3. Spec => []IInv
  BY Invariance
<1>4. QED
  BY <1>1, <1>2, <1>3, PTL DEF Spec, ImplementsDiskService, D!Spec
=============================================================================
