------------------------------ MODULE AtaProps ------------------------------
(***************************************************************************)
(* What must hold of the ATA driver, Ata.tla.                              *)
(***************************************************************************)
EXTENDS Ata

Blocks == Written \cup {Junk} \cup {Original(p, s) : p \in Position, s \in 0 .. ADDRESSES - 1}
Replies == [ok : BOOLEAN, data : UNION {[1 .. n -> Blocks] : n \in 0 .. MAX_COUNT}]

DetectPcs == {"select", "identify", "probe", "busy", "signature", "data"}
CallPcs   == {"params", "command", "poll", "transfer", "return", "flush", "flushed"}

TypeOK ==
    /\ machine \in Machines
    /\ \A p \in Position :
          /\ media[p] \in [1 .. machine[p].size -> Blocks]
          /\ drive[p].phase \in Phases /\ drive[p].op \in Ops /\ drive[p].err \in BOOLEAN
    /\ \A c \in Channel : ChannelOf(Selected(c)) = c
    /\ errors \in 0 .. MAX_ERRORS
    /\ Len(g_blockdevs) <= BLOCKDEV_MAX
    /\ \/ call = Idle
       \/ call.pc \in DetectPcs /\ call.index \in Position
       \/ /\ call.pc \in CallPcs /\ call.dev \in DOMAIN g_blockdevs
          \* no block is moved to or from behind the caller's buffer
          /\ call.pc = "transfer" => call.s < Count
          /\ call.values \in [1 .. Count -> Blocks]
    /\ reply \in Replies
    /\ late \subseteq Channel

(***************************************************************************)
(* Detection and every call return: the boot with whatever drives there    *)
(* are, as long as those that are there answer; later calls even when a    *)
(* drive does not answer at all (ata_poll_ready counts its polls).         *)
(***************************************************************************)
DriverReturns == []<>At("idle")

-----------------------------------------------------------------------------
(***************************************************************************)
(* Through two drives that share one set of registers, a call gets what it *)
(* addresses: reads show the sectors that the address names to the drive,  *)
(* writes reach them and no other, calls fail for a reason, and no call    *)
(* reaches a sector from beyond the end that IDENTIFY reported.  Two       *)
(* things are excepted.  After a poll has given up, the drive answers      *)
(* late, to the next call on its channel: nothing is promised of that      *)
(* channel any more.  And an error in the last sector of a write may be    *)
(* lost (see Flush).                                                       *)
(***************************************************************************)
SectorsOf(channels) ==
    {x \in Position \X (0 .. ADDRESSES + MAX_COUNT) : ChannelOf(x[1]) \in channels}

Content ==
    LET sectors == {x \in SectorsOf(Channel) : x[2] < machine[x[1]].size}
    IN  [x \in sectors |-> media[x[1]][x[2] + 1]]

Addressed(i) ==
    IF call.lba + i <= Dev.sector_count
    THEN <<Dev.pos, Place(Dev.pos, "chs", call.lba % ADDRESSES) + i - 1>>
    ELSE <<Dev.pos, ADDRESSES>>

D == INSTANCE DiskService WITH
        content <- Content,
        request <- IF "op" \in DOMAIN call
                   THEN [op    |-> call.op,
                         where |-> [i \in 1 .. Count |-> Addressed(i)],
                         what  |-> IF call.op = "write" THEN call.values ELSE <<>>]
                   ELSE [op |-> "none", where |-> <<>>, what |-> <<>>],
        astray  <- SectorsOf(late)

ImplementsDiskService == D!Spec

-----------------------------------------------------------------------------
(***************************************************************************)
(* "disk read <name> <lba> <count>" is a sector-wise read (README.md:284)  *)
(* and shows the requested sector (README.md:317): with drives that work,  *)
(* a read of sectors the disk has returns what these sectors hold.  The    *)
(* code leaves the drive in cylinder/head/sector mode and so asks for      *)
(* another sector, or for one that does not exist.                         *)
(***************************************************************************)
Requested == [i \in 1 .. Count |-> media[Dev.pos][call.lba + i]]

ReadsRequested ==
    [][ /\ errors = 0 /\ late' = {}
        /\ "op" \in DOMAIN call /\ call' = Idle
        /\ call.op = "read" /\ call.lba + Count <= Dev.sector_count
        => reply' = Success(Requested) ]_vars
=============================================================================
