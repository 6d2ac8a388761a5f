------------------------------- MODULE Fat32 -------------------------------
(***************************************************************************)
(* The FAT32 volume of RoninOS: fs/fat32.c under the shell command fat32   *)
(* (apps/app_fat32.c), on one block device (drivers/ata_pio.c).            *)
(*                                                                         *)
(* Every write of a sector is a step, because a command may end after any  *)
(* of them: the device reports an error, or the power is cut.  Reads are   *)
(* taken together with the step they lead to; commands run one at a time,  *)
(* from the keyboard's interrupt handler, so nothing changes in between    *)
(* and the copy of the root directory a command holds is the one on disk.  *)
(* A file is one cluster, a cluster one sector, as fat32_format lays them  *)
(* out; names are the 8.3 names make_name83 turns the typed ones into.     *)
(***************************************************************************)
EXTENDS Integers, FiniteSets

CONSTANTS
    Names, Texts,
    NoText,         \* what an unwritten sector holds
    SLOTS,          \* entries of the root directory: 512 / 32
    CLUSTERS,       \* fs->total_clusters
    PER_SECTOR,     \* FAT entries in a sector: 512 / 4
    OldFat,         \* clusters that the FAT on the disk shows used before any format
    DEVICE_LOST,    \* the compiler reuses the stack that fs->dev still points into
    DISK_ERRORS,    \* the device may fail, or the power be cut
    MAX_FAULTS      \* bound on how often one of the two happens inside a command

ROOT    == 2                        \* fs->root_cluster
Cluster == ROOT .. CLUSTERS + 1
Slot    == 1 .. SLOTS

ASSUME LayoutAssumption ==
    /\ SLOTS \in Nat \ {0} /\ CLUSTERS \in Nat \ {0, 1}
    /\ PER_SECTOR \in Nat /\ PER_SECTOR > ROOT
ASSUME OldFatAssumption == OldFat \subseteq Cluster
ASSUME TextsAssumption == NoText \notin Texts
ASSUME FaultsAssumption ==
    DEVICE_LOST \in BOOLEAN /\ DISK_ERRORS \in BOOLEAN /\ MAX_FAULTS \in Nat

VARIABLES
    boot,       \* sector 0 holds a boot sector that fat32_mount accepts
    fat,        \* the two copies of the FAT: the clusters with an entry other than 0
    dir,        \* the sector of the root directory
    data,       \* the sectors of the other clusters
    g_selected, \* a device is selected
    call,       \* the command in progress and its local variables
    formatted,  \* history: the last fat32_format ran to its end
    left,       \* history: the clusters that the FAT then showed used
    faults      \* history: number of commands cut short or misled so far

disk == <<boot, fat, dir, data>>
made == <<formatted, left>>
vars == <<disk, g_selected, call, made, faults>>

\* First byte 0x00, first byte 0xE5, and anything else.
End     == [kind |-> "end"]
Deleted == [kind |-> "deleted"]
Garbage == [kind |-> "garbage"]
File(n, c) == [kind |-> "file", name |-> n, cluster |-> c]

Idle(outcome) == [pc |-> "idle", op |-> "none", outcome |-> outcome]

-----------------------------------------------------------------------------
(* The root directory.                                                     *)

\* The scans stop at the first end mark.
BreakAtDeleted(s) ==                    \* broken: break instead of continue at 0xE5
    dir[s].kind = "file" /\ \A r \in 1 .. s : dir[r] \notin {End, Deleted}
InUse(s) == dir[s].kind = "file" /\ \A r \in 1 .. s : dir[r] # End

Least(S) == CHOOSE x \in S : \A y \in S : x <= y

SlotsOf(n) == {s \in Slot : InUse(s) /\ dir[s].name = n}
FreeSlots  == {s \in Slot : dir[s] \in {End, Deleted}}

\* What "fat32 cat" prints of n, and what "fat32 ls" lists.
Listed == {n \in Names : SlotsOf(n) # {}}
Cat(n) == data[dir[Least(SlotsOf(n))].cluster]

-----------------------------------------------------------------------------
(* The file allocation table.                                              *)

\* The clusters whose entries share a sector of the FAT with c's.
SectorOf(c) == {d \in Cluster : d \div PER_SECTOR = c \div PER_SECTOR}

\* broken: the scan's bound has one too many
OneClusterTooFar == {c \in 2 .. CLUSTERS + 2 : c \notin fat[0]}
FreeClusters == {c \in Cluster : c \notin fat[0]}

\* The sector of c in copy k becomes the one that shows the clusters in S used.
WriteFat(k, c, S) ==
    /\ fat' = [fat EXCEPT ![k] = (@ \ SectorOf(c)) \cup (S \cap SectorOf(c))]
    /\ UNCHANGED <<boot, dir, data>>

-----------------------------------------------------------------------------
Init ==
    /\ boot = FALSE
    /\ fat = [k \in {0, 1} |-> OldFat]
    /\ dir = [s \in Slot |-> End]
    /\ data = [c \in Cluster |-> NoText]
    /\ g_selected = FALSE
    /\ call = Idle("none")
    /\ formatted = FALSE /\ left = {}
    /\ faults = 0

-----------------------------------------------------------------------------
(* The sector writes of a command, as the command reaches them.            *)

At(pc) == call.pc = pc

FormatNoRoot(k) ==                      \* broken: the root's entry is not set
    fat' = [fat EXCEPT ![k] = @ \ SectorOf(ROOT)] /\ UNCHANGED <<boot, dir, data>>

\* Only the first sector of each copy is written.
FormatFat(k) == WriteFat(k, ROOT, {ROOT})

WriteFormat ==
    \/ At("boot") /\ boot' = TRUE /\ UNCHANGED <<fat, dir, data>>
    \/ At("info") /\ UNCHANGED disk     \* FSInfo and the backups, which nobody reads
    \/ At("format0") /\ FormatFat(0)
    \/ At("format1") /\ FormatFat(1)
    \/ /\ At("root")
       /\ dir' = [s \in Slot |-> End]
       /\ UNCHANGED <<boot, fat, data>>

NoSecondCopy ==                         \* broken: fat_set stops after the first copy
    \/ At("free0") /\ WriteFat(0, call.cluster, fat[0] \ {call.cluster})
    \/ At("take0") /\ WriteFat(0, call.cluster, fat[0] \cup {call.cluster})
    \/ (At("free1") \/ At("take1")) /\ UNCHANGED disk

\* fat_set, to 0 or to FAT32_EOC: the sector read from copy 0 goes to both.
SetFat ==
    \/ At("free0") /\ WriteFat(0, call.cluster, fat[0] \ {call.cluster})
    \/ At("take0") /\ WriteFat(0, call.cluster, fat[0] \cup {call.cluster})
    \/ (At("free1") \/ At("take1")) /\ WriteFat(1, call.cluster, fat[0])

\* Were the cluster the root's, the text would land in the directory, and be
\* read as up to four entries: a command line has 127 characters at most.
WriteFile ==
    \/ /\ At("entry")
       /\ dir' = [dir EXCEPT ![call.slot] = File(call.name, call.cluster)]
       /\ UNCHANGED <<boot, fat, data>>
    \/ /\ At("data")
       /\ IF call.cluster = ROOT
          THEN /\ \E n \in 0 .. 4 : dir' = [s \in Slot |-> IF s <= n THEN Garbage ELSE End]
               /\ UNCHANGED data
          ELSE /\ data' = [data EXCEPT ![call.cluster] = call.text]
               /\ UNCHANGED dir
       /\ UNCHANGED <<boot, fat>>

MarkAsEnd ==                            \* broken: 0x00 instead of 0xE5
    /\ At("mark")
    /\ dir' = [dir EXCEPT ![call.slot] = End]
    /\ UNCHANGED <<boot, fat, data>>
MarkDeleted ==
    /\ At("mark")
    /\ dir' = [dir EXCEPT ![call.slot] = Deleted]
    /\ UNCHANGED <<boot, fat, data>>

SectorWrite == WriteFormat \/ SetFat \/ WriteFile \/ MarkDeleted

\* Where the command goes on after the write at pc; "idle" when that was the last.
After ==
    [boot |-> "info", info |-> "format0", format0 |-> "format1", format1 |-> "root",
     root |-> "idle",
     free0 |-> "free1", free1 |-> IF call.op = "write" THEN "alloc" ELSE "mark",
     take0 |-> "take1", take1 |-> "entry", entry |-> "data", data |-> "idle",
     mark |-> "idle"]

\* The write succeeds and the command goes on.
Proceed ==
    /\ SectorWrite
    /\ LET next == After[call.pc]
       IN  call' = IF next = "idle" THEN Idle("ok") ELSE [call EXCEPT !.pc = next]
    /\ formatted' = (formatted \/ At("root"))
    /\ left' = IF At("root") THEN fat[0] ELSE left
    /\ UNCHANGED <<g_selected, faults>>

-----------------------------------------------------------------------------
(* What may go wrong with an access to the device.                         *)

\* ensure_mounted leaves fs->dev pointing to a variable of its own, dead frame;
\* an access through it fails when the frame has been overwritten since.
Dangling == DEVICE_LOST /\ call.op # "format"

CanFail == faults < MAX_FAULTS /\ (DISK_ERRORS \/ Dangling)

Fail ==
    /\ call' = Idle("failed")
    /\ UNCHANGED <<g_selected, made>>

\* A write is reported as failed; the sector may have been written nevertheless,
\* when what fails is the cache flush behind it.
WriteFails ==
    /\ CanFail
    /\ call.pc \in DOMAIN After
    /\ Fail
    /\ faults' = faults + 1
    /\ (DISK_ERRORS /\ SectorWrite) \/ UNCHANGED disk

PowerCut ==
    /\ DISK_ERRORS
    /\ call.pc # "idle" => faults < MAX_FAULTS
    /\ faults' = IF At("idle") THEN faults ELSE faults + 1
    /\ call' = Idle("none")
    /\ g_selected' = FALSE
    /\ UNCHANGED <<disk, made>>

-----------------------------------------------------------------------------
(* The commands.  They all but select and format mount the volume first,   *)
(* which reads sector 0; when that fails nothing changes.                  *)

Select ==
    /\ At("idle")
    /\ g_selected' = TRUE
    /\ UNCHANGED <<disk, call, made, faults>>

\* "fat32 format --yes" with a device selected before, or selecting the one it names.
Format ==
    /\ At("idle")
    /\ call' = [pc |-> "boot", op |-> "format"]
    /\ g_selected' = TRUE
    /\ formatted' = FALSE /\ left' = {}
    /\ UNCHANGED <<disk, faults>>

Mounted == At("idle") /\ g_selected /\ boot

Write(n, t) ==
    /\ Mounted
    /\ call' = [pc |-> "find", op |-> "write", name |-> n, text |-> t]
    /\ UNCHANGED <<disk, g_selected, made, faults>>

Remove(n) ==
    /\ Mounted
    /\ call' = [pc |-> "find", op |-> "remove", name |-> n]
    /\ UNCHANGED <<disk, g_selected, made, faults>>

Local(pc, s, c) ==
    [op |-> call.op, name |-> call.name, pc |-> pc, slot |-> s, cluster |-> c,
     text |-> IF call.op = "write" THEN call.text ELSE NoText]

KeepOldCluster ==                       \* broken: the cluster of the old text is not freed
    /\ At("find")
    /\ SlotsOf(call.name) # {}
    /\ LET s == Least(SlotsOf(call.name))
       IN  call' = Local(IF call.op = "write" THEN "alloc" ELSE "free0", s, dir[s].cluster)
    /\ UNCHANGED <<disk, g_selected, made, faults>>

\* find_root_entry finds the name; its cluster is freed first.
Find ==
    /\ At("find")
    /\ SlotsOf(call.name) # {}
    /\ LET s == Least(SlotsOf(call.name))
       IN  call' = Local("free0", s, dir[s].cluster)
    /\ UNCHANGED <<disk, g_selected, made, faults>>

NotFound ==
    /\ At("find")
    /\ IF call.op = "write" /\ FreeSlots # {}
       THEN call' = Local("alloc", Least(FreeSlots), ROOT)
       ELSE call' = Idle("failed")
    /\ UNCHANGED <<disk, g_selected, made>>

\* The directory has no such name, or find_root_entry could not read it: its
\* callers cannot tell.
FindMisses ==
    /\ NotFound
    /\ \/ SlotsOf(call.name) = {} /\ UNCHANGED faults
       \/ SlotsOf(call.name) # {} /\ CanFail /\ faults' = faults + 1

\* Reading the directory for the entry's contents.
FindFails ==
    /\ At("find")
    /\ CanFail
    /\ Fail
    /\ faults' = faults + 1
    /\ UNCHANGED disk

\* alloc_cluster takes the first cluster it sees free; one whose FAT entry
\* cannot be read counts as used.
Alloc ==
    /\ At("alloc")
    /\ \E c \in FreeClusters :
          /\ call' = [call EXCEPT !.pc = "take0", !.cluster = c]
          /\ \/ c = Least(FreeClusters) /\ UNCHANGED faults
             \/ c # Least(FreeClusters) /\ CanFail /\ faults' = faults + 1
    /\ UNCHANGED <<disk, g_selected, made>>

AllocFails ==
    /\ At("alloc")
    /\ \/ FreeClusters = {} /\ UNCHANGED faults
       \/ FreeClusters # {} /\ CanFail /\ faults' = faults + 1
    /\ Fail
    /\ UNCHANGED disk

-----------------------------------------------------------------------------
Next ==
    \/ Select \/ Format
    \/ \E n \in Names : Remove(n) \/ \E t \in Texts : Write(n, t)
    \/ Find \/ FindMisses \/ FindFails
    \/ Alloc \/ AllocFails
    \/ Proceed \/ WriteFails \/ PowerCut

Spec == Init /\ [][Next]_vars
=============================================================================
