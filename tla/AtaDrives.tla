------------------------------ MODULE AtaDrives ------------------------------
(***************************************************************************)
(* What drivers/ata_pio.c talks to: two channels with up to two drives     *)
(* each, which share the registers of their channel.  This is hardware,    *)
(* modelled from how the driver uses it and from what the ATA protocol     *)
(* promises to a host that keeps to it.                                    *)
(*                                                                         *)
(* A drive takes a command only when it is idle; whatever is written to    *)
(* its registers otherwise is lost.  It may take up to 400 ns until it     *)
(* shows that it is busy, and it takes any time to finish its work.        *)
(***************************************************************************)
EXTENDS Integers, Sequences

CONSTANTS
    Machines,           \* [Position -> Drive]: the machines looked at
    SECTOR_NUMBERS,     \* 256: values of the sector number register
    CYLINDER_NUMBERS,   \* 65536: of the two cylinder registers
    HEAD_NUMBERS,       \* 16: of the four bits in the device/head register
    Written,            \* blocks that may be written to a sector
    MAX_ERRORS          \* bound: sectors that the drives fail to read or write

Position == 0 .. 3                      \* master and slave of either channel
Channel  == {0, 1}
ChannelOf(p) == p \div 2

\* Addresses are written as one number: head, cylinder, sector number.
ADDRESSES == HEAD_NUMBERS * CYLINDER_NUMBERS * SECTOR_NUMBERS

\* A drive that is no disk answers IDENTIFY with an error and a signature.
Disk(size, heads, sectors) ==
    [kind |-> "disk", size |-> size, heads |-> heads, sectors |-> sectors]
Atapi  == [Disk(0, 1, 1) EXCEPT !.kind = "atapi"]
Absent == [Disk(0, 1, 1) EXCEPT !.kind = "absent"]
Drive  ==
    {Disk(size, heads, sectors) :
        size \in 0 .. ADDRESSES - 1, heads \in 1 .. HEAD_NUMBERS, sectors \in 1 .. SECTOR_NUMBERS - 1}
    \cup {Atapi, Absent}

ASSUME DrivesAssumption ==
    /\ {SECTOR_NUMBERS, CYLINDER_NUMBERS, HEAD_NUMBERS} \subseteq Nat \ {0}
    /\ MAX_ERRORS \in Nat
    /\ Machines \subseteq [Position -> Drive]

\* A block of data: what a sector held at first, what IDENTIFY reports, or what
\* the data port yields when there is nothing.
Original(p, s) == <<"old", p, s>>
Report(size)   == <<"size", size, 0>>
Junk           == <<"junk", 0, 0>>

VARIABLES
    machine,
    media,      \* the contents of each disk
    drive,      \* [phase, op, at, left, data, err]: what each drive is doing
    regs,       \* [sel, mode, address, count]: the registers of each channel
    errors      \* history: sectors failed so far

hardware == <<machine, media, drive, regs, errors>>

Ops    == {"none", "identify", "read", "write", "store", "flush"}
Phases == {"idle",          \* waits for a command
           "accepted",      \* will be busy within 400 ns
           "busy",
           "sends",         \* has data for the host
           "wants"}         \* waits for data from the host

Resting == [phase |-> "idle", op |-> "none", at |-> 0, left |-> 0, data |-> Junk, err |-> FALSE]
Rest(p, err) == drive' = [drive EXCEPT ![p] = [Resting EXCEPT !.err = err]]

DrivesInit ==
    /\ machine \in Machines
    /\ media = [p \in Position |-> [s \in 1 .. machine[p].size |-> Original(p, s - 1)]]
    /\ drive = [p \in Position |-> Resting]
    /\ regs = [c \in Channel |-> [sel |-> 2 * c, mode |-> "chs", address |-> 0, count |-> 0]]
    /\ errors = 0

-----------------------------------------------------------------------------
(* The side of the host.                                                   *)

Selected(c) == regs[c].sel

\* The status register, as the set of its bits; nobody drives it for an absent drive.
Status(c) ==
    LET d == drive[Selected(c)]
    IN  IF machine[Selected(c)] = Absent THEN {}
        ELSE IF d.phase = "busy" THEN {"BSY"}
        ELSE {"DRDY"} \cup (IF d.err THEN {"ERR"} ELSE {})
                      \cup (IF d.phase \in {"sends", "wants"} THEN {"DRQ"} ELSE {})

\* 400 ns after a command or a block of data.
Settled(c) == drive[Selected(c)].phase # "accepted"

Listens(c) == machine[Selected(c)] = Absent \/ drive[Selected(c)].phase = "idle"

SetRegisters(c, p, mode, address, count) ==
    regs' = IF Listens(c)
            THEN [regs EXCEPT ![c] = [sel |-> p, mode |-> mode, address |-> address, count |-> count]]
            ELSE regs

\* The sector that an address names to a drive: the number itself when bit 6 of
\* the device/head register is set, else cylinder, head and sector, and sectors
\* are numbered from 1.  The size stands for no sector.
Place(p, mode, address) ==
    LET sector   == address % SECTOR_NUMBERS
        cylinder == (address \div SECTOR_NUMBERS) % CYLINDER_NUMBERS
        head     == address \div (SECTOR_NUMBERS * CYLINDER_NUMBERS)
        m        == machine[p]
        place    == (cylinder * m.heads + head) * m.sectors + sector - 1
    IN  IF mode = "lba" /\ address < m.size THEN address
        ELSE IF mode = "chs" /\ sector \in 1 .. m.sectors /\ head < m.heads /\ place < m.size
        THEN place
        ELSE m.size

Command(c, op) ==
    drive' = IF machine[Selected(c)] # Absent /\ Listens(c)
             THEN [drive EXCEPT ![Selected(c)] =
                     [@ EXCEPT !.phase = "accepted", !.op = op, !.left = regs[c].count,
                               !.at = Place(Selected(c), regs[c].mode, regs[c].address)]]
             ELSE drive

\* One block from the data port, and one to it.
Offered(c) == IF drive[Selected(c)].phase = "sends" THEN drive[Selected(c)].data ELSE Junk

TakeData(c) ==
    LET p == Selected(c)  d == drive[p]
    IN  IF d.phase # "sends" THEN UNCHANGED drive
        ELSE IF d.left <= 1 THEN Rest(p, FALSE)
        ELSE drive' = [drive EXCEPT ![p] = [d EXCEPT !.phase = "accepted", !.data = Junk,
                                                     !.at = d.at + 1, !.left = d.left - 1]]

GiveData(c, value) ==
    LET p == Selected(c)
    IN  drive' = IF drive[p].phase # "wants" THEN drive
                 ELSE [drive EXCEPT ![p] = [@ EXCEPT !.phase = "accepted", !.op = "store",
                                                     !.data = value]]

-----------------------------------------------------------------------------
(* The side of the drive.                                                  *)

Notice(p) ==
    /\ drive[p].phase = "accepted"
    /\ drive' = [drive EXCEPT ![p] = [@ EXCEPT !.phase = "busy", !.err = FALSE]]
    /\ UNCHANGED <<machine, media, regs, errors>>

Works(p, op) == drive[p].phase = "busy" /\ drive[p].op = op

\* The drive has the sector it works on.
InRange(p) == drive[p].at < machine[p].size

Sends(p, data) == drive' = [drive EXCEPT ![p] = [@ EXCEPT !.phase = "sends", !.data = data]]

Finish(p) ==
    /\ \/ /\ Works(p, "identify")
          /\ IF machine[p] = Atapi THEN Rest(p, TRUE) ELSE Sends(p, Report(machine[p].size))
          /\ UNCHANGED media
       \/ /\ Works(p, "read")
          /\ IF InRange(p) THEN Sends(p, media[p][drive[p].at + 1]) ELSE Rest(p, TRUE)
          /\ UNCHANGED media
       \/ /\ Works(p, "write")
          /\ IF InRange(p) THEN drive' = [drive EXCEPT ![p].phase = "wants"] ELSE Rest(p, TRUE)
          /\ UNCHANGED media
       \/ /\ Works(p, "store")
          /\ media' = [media EXCEPT ![p][drive[p].at + 1] = drive[p].data]
          /\ IF drive[p].left <= 1 THEN Rest(p, FALSE)
             ELSE drive' = [drive EXCEPT ![p] = [Resting EXCEPT
                                !.phase = "busy", !.op = "write",
                                !.at = drive[p].at + 1, !.left = drive[p].left - 1]]
       \/ /\ Works(p, "flush")
          /\ Rest(p, FALSE)
          /\ UNCHANGED media
    /\ UNCHANGED <<machine, regs, errors>>

\* A sector that cannot be read or written, or a cache that cannot be flushed.
Err(p) ==
    /\ errors < MAX_ERRORS
    /\ \E op \in {"read", "write", "store", "flush"} : Works(p, op)
    /\ Rest(p, TRUE)
    /\ errors' = errors + 1
    /\ UNCHANGED <<machine, media, regs>>

DriveStep == \E p \in Position : Notice(p) \/ Finish(p) \/ Err(p)
=============================================================================
