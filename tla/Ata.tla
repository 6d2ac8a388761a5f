--------------------------------- MODULE Ata ---------------------------------
(***************************************************************************)
(* The ATA driver, drivers/ata_pio.c, with the registry of block devices   *)
(* it fills at boot (block/blockdev.c) and the calls that the disk command *)
(* and FAT32 make through it.  The driver polls with interrupts disabled,  *)
(* so it has the CPU to itself, but the drives do not wait for it: a step  *)
(* is one access to the registers or one block of data.                    *)
(***************************************************************************)
EXTENDS AtaDrives

CONSTANTS
    BLOCKDEV_MAX,
    UINT,           \* 2^32: where unsigned int wraps
    MAX_COUNT       \* bound: sectors in a call; 255 in the driver, its callers pass 1

ASSUME DriverAssumption ==
    /\ BLOCKDEV_MAX \in Nat \ {0} /\ MAX_COUNT \in Nat \ {0}
    /\ UINT \in Nat \ {0} /\ UINT % ADDRESSES = 0

\* A sum that wraps passes the bound check (see Admits), but such a call begins among
\* the last addresses.  The sector numbers of these are beyond what a track has: ATA
\* drives have up to 63 sectors on one, and the callers pass one sector, whose number
\* is then 255.
ASSUME WrapAssumption ==
    /\ MAX_COUNT <= ADDRESSES
    /\ \A m \in Machines, p \in Position, a \in ADDRESSES - MAX_COUNT .. ADDRESSES - 1 :
          \/ a % SECTOR_NUMBERS \notin 1 .. m[p].sectors
          \/ a \div (SECTOR_NUMBERS * CYLINDER_NUMBERS) >= m[p].heads

VARIABLES
    g_blockdevs,    \* [pos, sector_count] by number: "hd0" is the first
    call,           \* the function in progress and its local variables
    reply,          \* [ok, data]: what the last call returned
    late            \* history: channels on which a poll has given up

software == <<g_blockdevs, call, reply, late>>
vars == <<hardware, software>>

At(pc) == call.pc = pc
Idle == [pc |-> "idle"]
Failed == [ok |-> FALSE, data |-> <<>>]
Success(data) == [ok |-> TRUE, data |-> data]
Detecting(index, pc) == [pc |-> pc, index |-> index]

-----------------------------------------------------------------------------
(* ata_pio_discover: detect_one for each position.                         *)

\* The next position, or the end of the boot's part in this.
NextPosition ==
    call' = IF call.index = 3 THEN Idle ELSE Detecting(call.index + 1, "select")

DetectedOn == ChannelOf(call.index)

Goto(pc) == call' = [call EXCEPT !.pc = pc]

Select ==
    /\ At("select")
    /\ SetRegisters(DetectedOn, call.index, "lba", 0, 0)
    /\ Goto("identify")
    /\ UNCHANGED <<machine, media, drive, errors, g_blockdevs, reply, late>>

Identify ==
    /\ At("identify")
    /\ Command(DetectedOn, "identify")
    /\ Goto("probe")
    /\ UNCHANGED <<machine, media, regs, errors, g_blockdevs, reply, late>>

ProbeAny ==                             \* broken: a status of 0 is not looked for
    /\ At("probe")
    /\ Goto(IF "BSY" \in Status(DetectedOn) THEN "busy" ELSE "signature")
    /\ UNCHANGED <<hardware, g_blockdevs, reply, late>>

\* The status is read at once, while the drive may still show the one before.
Probe ==
    /\ At("probe")
    /\ IF Status(DetectedOn) = {} THEN NextPosition
       ELSE Goto(IF "BSY" \in Status(DetectedOn) THEN "busy" ELSE "signature")
    /\ UNCHANGED <<hardware, g_blockdevs, reply, late>>

\* Waits for BSY to end, without a bound.
NotBusy ==
    /\ At("busy") /\ "BSY" \notin Status(DetectedOn)
    /\ Goto("signature")
    /\ UNCHANGED <<hardware, g_blockdevs, reply, late>>

\* The cylinder registers: a drive that is no disk has put its signature there,
\* unless it has not come to that yet.
Signature ==
    /\ At("signature")
    /\ IF machine[call.index] = Atapi /\ drive[call.index].err THEN NextPosition
       ELSE Goto("data")
    /\ UNCHANGED <<hardware, g_blockdevs, reply, late>>

IdentifyFails ==
    /\ At("data")
    /\ "ERR" \in Status(DetectedOn) /\ "DRQ" \notin Status(DetectedOn)
    /\ NextPosition
    /\ UNCHANGED <<hardware, g_blockdevs, reply, late>>

NewDevice(index, sectors) == [pos |-> index, sector_count |-> sectors]

BlockRegister(dev) ==
    g_blockdevs' = IF dev.sector_count > 0 /\ Len(g_blockdevs) < BLOCKDEV_MAX
                   THEN Append(g_blockdevs, dev)
                   ELSE g_blockdevs

\* Waits for DRQ, without a bound, and takes what IDENTIFY reports.
Register ==
    /\ At("data")
    /\ "DRQ" \in Status(DetectedOn)
    /\ TakeData(DetectedOn)
    /\ BlockRegister(NewDevice(call.index, Offered(DetectedOn)[2]))
    /\ NextPosition
    /\ UNCHANGED <<machine, media, regs, errors, reply, late>>

-----------------------------------------------------------------------------
(* ata_pio_read and ata_pio_write.                                         *)

\* The bound check: the sum wraps.
Admits(dev, lba, count) == (lba + count) % UINT <= g_blockdevs[dev].sector_count

\* The disk command asks for the address that is typed, FAT32 for those of its volume.
Request(op, dev, lba, values) ==
    LET count == Len(values)
    IN  /\ At("idle")
        /\ IF Admits(dev, lba, count)
           THEN call' = [pc |-> "params", op |-> op, dev |-> dev, lba |-> lba,
                         values |-> values, s |-> 0] /\ UNCHANGED reply
           ELSE call' = Idle /\ reply' = Failed
        /\ UNCHANGED <<hardware, g_blockdevs, late>>

Blanks(n) == [i \in 1 .. n |-> Junk]

Read(dev, lba, count) == Request("read", dev, lba, Blanks(count))

Write(dev, lba, values) == lba + Len(values) < UINT /\ Request("write", dev, lba, values)

Dev   == g_blockdevs[call.dev]
Chan  == ChannelOf(Dev.pos)
Count == Len(call.values)

Return(r) == call' = Idle /\ reply' = r

\* Bit 6 of the device/head register stays 0, unlike in ata_identify.
Params ==
    /\ At("params")
    /\ SetRegisters(Chan, Dev.pos, "chs", call.lba % ADDRESSES, Count)
    /\ Goto("command")
    /\ UNCHANGED <<machine, media, drive, errors, g_blockdevs, reply, late>>

IssueCommand ==
    /\ At("command")
    /\ Command(Chan, call.op)
    /\ Goto("poll")
    /\ UNCHANGED <<machine, media, regs, errors, g_blockdevs, reply, late>>

Polling == At("poll") \/ At("flushed")

NoDelay(status) == Polling /\ status = Status(Chan)     \* broken: polls at once

\* ata_poll_ready reads this status after the delay.
Sees(status) == Polling /\ Settled(Chan) /\ status = Status(Chan)

PollReady ==
    \E status \in SUBSET {"DRDY", "DRQ", "ERR"} :
        /\ Sees(status)
        /\ "ERR" \notin status /\ ("DRQ" \in status \/ "DRDY" \in status)
        /\ IF At("poll") THEN Goto("transfer") /\ UNCHANGED reply ELSE Return(Success(<<>>))
        /\ UNCHANGED <<hardware, g_blockdevs, late>>

PollError ==
    \E status \in SUBSET {"DRDY", "DRQ", "ERR"} :
        /\ Sees(status) /\ "ERR" \in status
        /\ Return(Failed)
        /\ UNCHANGED <<hardware, g_blockdevs, late>>

\* A million times the drive has been busy.
PollGivesUp ==
    /\ \E status \in {{}, {"BSY"}} : Sees(status)
    /\ Return(Failed)
    /\ late' = late \cup {Chan}
    /\ UNCHANGED <<hardware, g_blockdevs>>

OneTooMany(pc) == IF call.s <= Count THEN "poll" ELSE pc    \* broken: s <= count

\* The loop over the sectors of the call, and where it goes on afterwards.
Loop(pc) == IF call.s + 1 < Count THEN "poll" ELSE pc

TransferIn ==
    /\ At("transfer") /\ call.op = "read"
    /\ TakeData(Chan)
    /\ call' = [call EXCEPT !.pc = Loop("return"), !.s = @ + 1, !.values[call.s + 1] = Offered(Chan)]
    /\ UNCHANGED <<machine, media, regs, errors, g_blockdevs, reply, late>>

ReadDone ==
    /\ At("return")
    /\ Return(Success(call.values))
    /\ UNCHANGED <<hardware, g_blockdevs, late>>

TransferOut ==
    /\ At("transfer") /\ call.op = "write"
    /\ GiveData(Chan, call.values[call.s + 1])
    /\ call' = [call EXCEPT !.pc = Loop("flush"), !.s = @ + 1]
    /\ UNCHANGED <<machine, media, regs, errors, g_blockdevs, reply, late>>

\* Only the delay lies between the last block and the flush: BSY is not waited for.
Flush ==
    /\ At("flush") /\ Settled(Chan)
    /\ Command(Chan, "flush")
    /\ Goto("flushed")
    /\ UNCHANGED <<machine, media, regs, errors, g_blockdevs, reply, late>>

-----------------------------------------------------------------------------
Init ==
    /\ DrivesInit
    /\ g_blockdevs = <<>> /\ call = Detecting(0, "select")
    /\ reply = Failed /\ late = {}

Detect == Select \/ Identify \/ Probe \/ NotBusy \/ Signature \/ IdentifyFails \/ Register

Transfer ==
    \/ Params \/ IssueCommand \/ PollReady \/ PollError \/ PollGivesUp
    \/ TransferIn \/ ReadDone \/ TransferOut \/ Flush

Calls ==
    \E dev \in DOMAIN g_blockdevs, lba \in 0 .. UINT - 1, count \in 1 .. MAX_COUNT :
        \/ Read(dev, lba, count)
        \/ \E values \in [1 .. count -> Written] : Write(dev, lba, values)

Next == Detect \/ Calls \/ Transfer \/ (DriveStep /\ UNCHANGED software)

\* The CPU executes the driver, and a drive shows within 400 ns that it is busy.
\* While drives are looked for, those that are there also finish; later that is
\* not taken for granted.
Booting == "index" \in DOMAIN call

Fairness ==
    /\ WF_vars(Detect \/ Transfer)
    /\ WF_vars(\E p \in Position : Notice(p) /\ UNCHANGED software)
    /\ WF_vars(Booting /\ DriveStep /\ UNCHANGED software)

Spec == Init /\ [][Next]_vars /\ Fairness
=============================================================================
