----------------------------- MODULE Fat32Props -----------------------------
(***************************************************************************)
(* What must hold of the FAT32 volume of Fat32.tla.                        *)
(***************************************************************************)
EXTENDS Fat32

FormatPcs == {"boot", "info", "format0", "format1", "root"}
WritePcs  == {"free0", "free1", "alloc", "take0", "take1", "entry", "data"}
RemovePcs == {"free0", "free1", "mark"}

Entries == {End, Deleted, Garbage} \cup {File(n, c) : n \in Names, c \in Cluster}

Calls ==
    {Idle(o) : o \in {"none", "ok", "failed"}}
       \cup [pc : FormatPcs, op : {"format"}]
       \cup [pc : {"find"}, op : {"write"}, name : Names, text : Texts]
       \cup [pc : {"find"}, op : {"remove"}, name : Names]
       \cup [pc : WritePcs, op : {"write"}, name : Names, text : Texts,
             slot : Slot, cluster : Cluster]
       \cup [pc : RemovePcs, op : {"remove"}, name : Names, text : {NoText},
             slot : Slot, cluster : Cluster]

TypeOK ==
    /\ boot \in BOOLEAN
    /\ fat \in [{0, 1} -> SUBSET Cluster]
    /\ dir \in [Slot -> Entries]
    /\ data \in [Cluster -> Texts \cup {NoText}]
    /\ g_selected \in BOOLEAN
    /\ call \in Calls
    /\ formatted \in BOOLEAN /\ left \subseteq Cluster
    /\ faults \in 0 .. MAX_FAULTS

Files    == {s \in Slot : dir[s].kind = "file"}
Between  == formatted /\ At("idle")
Pointed  == {dir[s].cluster : s \in Files}

(***************************************************************************)
(* The root directory is a cluster like any other to the FAT.  Once a      *)
(* volume is formatted it stays marked used and no file ever gets it:      *)
(* fat32_write_file would overwrite the directory with a text.             *)
(***************************************************************************)
RootSafe ==
    formatted => /\ ROOT \in fat[0] \cap fat[1]
                 /\ ROOT \notin Pointed
                 /\ \A s \in Slot : dir[s] # Garbage

(***************************************************************************)
(* The scans of the directory end at the first 0x00.  No order of writes   *)
(* and removals, cut short or not, leaves an entry behind one.             *)
(***************************************************************************)
NothingHidden ==
    formatted => \A s \in Files : InUse(s)

(***************************************************************************)
(* Each command cut short, by the device or the power, costs at most one   *)
(* cluster nobody points to and one file whose cluster is free or another  *)
(* file's too, or else one name that is there twice, and later commands    *)
(* never make more of the damage.  Without faults there is none.  Clusters *)
(* that the last format left used in the sectors of the FAT it does not    *)
(* write are not counted: FormatFreesAll is about them.                    *)
(***************************************************************************)
Lost       == Cardinality(fat[0] \ (Pointed \cup left \cup {ROOT}))
Unowned    == Cardinality(Files) - Cardinality(Pointed \cap fat[0])
Duplicates == Cardinality(Files) - Cardinality({dir[s].name : s \in Files})

DamageBounded ==
    Between => /\ Lost + Duplicates <= faults
               /\ Unowned + Duplicates <= faults

(***************************************************************************)
(* The second copy of the FAT differs from the first in at most one entry  *)
(* per command cut short.                                                  *)
(***************************************************************************)
CopiesAgree ==
    Between => Cardinality((fat[0] \ fat[1]) \cup (fat[1] \ fat[0])) <= faults

\* The command in progress reports failure in this step.
Reports(op) == ~At("idle") /\ call.op = op /\ call'.pc = "idle" /\ call'.outcome = "failed"

(***************************************************************************)
(* README.md: "write" creates new files or overwrites existing contents.   *)
(* On a formatted, healthy disk it fails only when the root directory has  *)
(* no entry left for a new name or the disk no cluster.                    *)
(***************************************************************************)
WriteSucceeds ==
    [][Reports("write") =>
          \/ FreeSlots = {} /\ SlotsOf(call.name) = {}
          \/ \A c \in Cluster : c \in fat[0]]_vars

(***************************************************************************)
(* fat32_format writes to FSInfo that every cluster but the root's is      *)
(* free: after a format that is what the FAT says.                         *)
(***************************************************************************)
FormatFreesAll ==
    [][formatted' /\ ~formatted => fat' = [k \in {0, 1} |-> {ROOT}]]_vars

-----------------------------------------------------------------------------
(***************************************************************************)
(* Until the first fault the volume implements FileStore: the steps of a   *)
(* command are seen by nobody, a text is replaced with its directory       *)
(* entry, and no other text is touched.                                    *)
(***************************************************************************)
Contents(n) ==
    IF ~formatted \/ faults > 0 THEN NoText
    ELSE IF At("data") /\ call.name = n THEN call.text
    ELSE IF n \in Listed THEN Cat(n) ELSE NoText

F == INSTANCE FileStore WITH
        ready <- formatted /\ faults = 0,
        files <- [n \in Names |-> Contents(n)]

ImplementsFileStore == F!Spec
=============================================================================
