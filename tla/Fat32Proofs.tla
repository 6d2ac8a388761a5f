---------------------------- MODULE Fat32Proofs ----------------------------
(***************************************************************************)
(* Proofs, for disks and directories of every size and any number of       *)
(* faults, of what Fat32Props.tla says: about the root directory first,    *)
(* then what the faults can have cost (how far the copies of the FAT       *)
(* differ, how many clusters and files are damaged), and that without a    *)
(* fault the commands implement a store of named texts.                    *)
(*                                                                         *)
(* The cost has to be counted while a command is on its way, when its own  *)
(* file is half made or half gone.  The second inductive invariant sets    *)
(* that file apart and counts the others.                                  *)
(***************************************************************************)
EXTENDS Fat32Props, WellFoundedInduction, FiniteSetTheorems, TLAPS

-----------------------------------------------------------------------------
(* The inductive invariant.                                                *)

\* The local variables of a command that works on a slot of the directory.
FileCalls ==
    [pc : WritePcs, op : {"write"}, name : Names, text : Texts,
     slot : Slot, cluster : Cluster]
       \cup [pc : RemovePcs, op : {"remove"}, name : Names, text : {NoText},
             slot : Slot, cluster : Cluster]

\* No entry stands behind an end mark.
EndMarksLast == \A r, s \in Slot : r < s /\ dir[r] = End => dir[s] = End

\* The root's cluster is used, and by no file.
RootDir ==
    /\ ROOT \in fat[0] /\ ROOT \in fat[1]
    /\ \A s \in Slot : dir[s] # Garbage
    /\ \A s \in Slot : dir[s].kind = "file" => dir[s].cluster # ROOT
    /\ EndMarksLast

\* While a format is on its way: what it has done to the root's entries so far.
Formatting ==
    /\ call.pc \in FormatPcs => ~formatted
    /\ At("format1") => ROOT \in fat[0]
    /\ At("root") => ROOT \in fat[0] /\ ROOT \in fat[1]

\* The command in progress does not work on the root's cluster, nor on a slot
\* behind an end mark.
Aimed ==
    /\ call.pc \in WritePcs \cup RemovePcs =>
          \A r \in Slot : r < call.slot => dir[r] # End
    /\ call.pc \in (WritePcs \cup RemovePcs) \ {"alloc", "mark"} => call.cluster # ROOT

IInv == TypeOK /\ Formatting /\ (formatted => RootDir /\ Aimed)

-----------------------------------------------------------------------------
(* The kinds of entries and of calls.                                      *)

LEMMA Kinds ==
    /\ End.kind = "end" /\ Deleted.kind = "deleted" /\ Garbage.kind = "garbage"
    /\ \A n, c : /\ File(n, c).kind = "file"
                 /\ File(n, c).name = n
                 /\ File(n, c).cluster = c
  BY DEF End, Deleted, Garbage, File

LEMMA Distinct ==
    /\ End # Deleted /\ End # Garbage /\ Deleted # Garbage
    /\ \A n, c : File(n, c) # End /\ File(n, c) # Deleted /\ File(n, c) # Garbage
<1>1. "end" # "deleted" /\ "end" # "garbage" /\ "deleted" # "garbage"
      /\ "file" # "end" /\ "file" # "deleted" /\ "file" # "garbage"
  OBVIOUS
<1>2. QED
  BY <1>1, Kinds, Zenon

LEMMA EntryOf ==
    ASSUME TypeOK, NEW s \in Slot, dir[s].kind = "file"
    PROVE  dir[s].name \in Names /\ dir[s].cluster \in Cluster
<1>1. dir[s] \in {End, Deleted, Garbage} \cup {File(n, c) : n \in Names, c \in Cluster}
  BY DEF TypeOK, Entries
<1>2. dir[s] \notin {End, Deleted, Garbage}
  BY Kinds
<1>3. PICK n \in Names, c \in Cluster : dir[s] = File(n, c)
  BY <1>1, <1>2
<1>4. QED
  BY <1>3, Kinds

LEMMA RootIsCluster == ROOT \in Cluster
  BY LayoutAssumption DEF ROOT, Cluster

\* Which of the shapes a call has follows from its pc.
LEMMA CallShapes ==
    ASSUME TypeOK
    PROVE  /\ \/ call \in {Idle(o) : o \in {"none", "ok", "failed"}}
              \/ call \in [pc : FormatPcs, op : {"format"}]
              \/ call \in [pc : {"find"}, op : {"write"}, name : Names, text : Texts]
              \/ call \in [pc : {"find"}, op : {"remove"}, name : Names]
              \/ call \in FileCalls
           /\ call.pc = "idle" => call \in {Idle(o) : o \in {"none", "ok", "failed"}}
           /\ call.pc \in FormatPcs => call \in [pc : FormatPcs, op : {"format"}]
           /\ call.pc = "find" =>
                 /\ call.op \in {"write", "remove"}
                 /\ call.name \in Names
                 /\ call.op = "write" => call.text \in Texts
           /\ call.pc \in WritePcs \cup RemovePcs => call \in FileCalls
<1>1. \/ call \in {Idle(o) : o \in {"none", "ok", "failed"}}
      \/ call \in [pc : FormatPcs, op : {"format"}]
      \/ call \in [pc : {"find"}, op : {"write"}, name : Names, text : Texts]
      \/ call \in [pc : {"find"}, op : {"remove"}, name : Names]
      \/ call \in FileCalls
  BY Zenon DEF TypeOK, Calls, FileCalls
<1>2. CASE call \in {Idle(o) : o \in {"none", "ok", "failed"}}
  <2>1. call.pc = "idle"
    BY <1>2 DEF Idle
  <2>2. QED
    BY <1>2, <2>1 DEF FormatPcs, WritePcs, RemovePcs
<1>3. CASE call \in [pc : FormatPcs, op : {"format"}]
  BY <1>3 DEF FormatPcs, WritePcs, RemovePcs
<1>4. CASE call \in [pc : {"find"}, op : {"write"}, name : Names, text : Texts]
  BY <1>4 DEF FormatPcs, WritePcs, RemovePcs
<1>5. CASE call \in [pc : {"find"}, op : {"remove"}, name : Names]
  BY <1>5 DEF FormatPcs, WritePcs, RemovePcs
<1>6. CASE call \in FileCalls
  BY <1>6 DEF FileCalls, FormatPcs, WritePcs, RemovePcs
<1>7. QED
  BY <1>1, <1>2, <1>3, <1>4, <1>5, <1>6

\* What Calls holds, stated shape by shape.
LEMMA ShapesAreCalls ==
    /\ \A o \in {"none", "ok", "failed"} : Idle(o) \in Calls
    /\ [pc : FormatPcs, op : {"format"}] \subseteq Calls
    /\ [pc : {"find"}, op : {"write"}, name : Names, text : Texts] \subseteq Calls
    /\ [pc : {"find"}, op : {"remove"}, name : Names] \subseteq Calls
    /\ FileCalls \subseteq Calls
  BY Zenon DEF Calls, FileCalls

-----------------------------------------------------------------------------
(* The first of some numbers.                                              *)

LEMMA LeastIs ==
    ASSUME NEW S \in SUBSET Nat, S # {}
    PROVE  Least(S) \in S /\ \A y \in S : Least(S) <= y
<1> DEFINE R == OpToRel(<, Nat)
<1>1. \A x, y \in Nat : x < y => <<x, y>> \in R
  BY Zenon DEF OpToRel
<1>2. IsWellFoundedOn(R, Nat)
  BY NatLessThanWellFounded, Zenon
<1> HIDE DEF R
<1>3. PICK m \in S : \A n \in S : ~ (<<n, m>> \in R)
  BY <1>2, WFMin
<1>4. ASSUME NEW n \in S PROVE m <= n
  <2>1. n \in Nat /\ m \in Nat
    OBVIOUS
  <2>2. ~ (n < m)
    BY <1>1, <1>3, <2>1, Zenon
  <2>3. QED
    BY <2>1, <2>2
<1>5. QED
  BY <1>3, <1>4, Zenon DEF Least

-----------------------------------------------------------------------------
(* The writes of sectors keep the directory sound.                         *)

LEMMA WriteFatEffect ==
    ASSUME TypeOK, NEW k \in {0, 1}, NEW c \in Cluster, NEW S, WriteFat(k, c, S)
    PROVE  /\ fat' \in [{0, 1} -> SUBSET Cluster]
           /\ ROOT \in fat[k] /\ ROOT \in S => ROOT \in fat'[k]
           /\ c = ROOT /\ ROOT \in S => ROOT \in fat'[k]
           /\ \A j \in {0, 1} \ {k} : fat'[j] = fat[j]
<1> DEFINE used == (fat[k] \ SectorOf(c)) \cup (S \cap SectorOf(c))
<1>1. fat \in [{0, 1} -> SUBSET Cluster] /\ fat' = [fat EXCEPT ![k] = used]
  BY DEF TypeOK, WriteFat
<1>2. SectorOf(c) \subseteq Cluster
  BY DEF SectorOf
<1>3. c \in SectorOf(c)
  BY DEF SectorOf
<1>4. used \in SUBSET Cluster
  BY <1>1, <1>2
<1>5. fat'[k] = used /\ \A j \in {0, 1} \ {k} : fat'[j] = fat[j]
  BY <1>1
<1>6. fat' \in [{0, 1} -> SUBSET Cluster]
  BY <1>1, <1>4
<1>7. ROOT \in fat[k] /\ ROOT \in S => ROOT \in used
  OBVIOUS
<1>8. c = ROOT /\ ROOT \in S => ROOT \in used
  BY <1>3
<1>9. QED
  BY <1>5, <1>6, <1>7, <1>8

DiskOK ==
    /\ boot \in BOOLEAN
    /\ fat \in [{0, 1} -> SUBSET Cluster]
    /\ dir \in [Slot -> Entries]
    /\ data \in [Cluster -> Texts \cup {NoText}]

\* What a write leaves on the disk; At("root") is where a format ends.
Written == DiskOK' /\ (formatted \/ At("root") => RootDir')

LEMMA FormatWrites == IInv /\ WriteFormat => Written
<1> SUFFICES ASSUME IInv, WriteFormat PROVE Written
  OBVIOUS
<1>1. call.pc \in FormatPcs => ~formatted
  BY DEF IInv, Formatting
<1>2. TypeOK
  BY DEF IInv
<1>3. CASE At("boot") /\ boot' = TRUE /\ UNCHANGED <<fat, dir, data>>
  BY <1>1, <1>2, <1>3 DEF At, FormatPcs, Written, DiskOK, TypeOK
<1>4. CASE At("info") /\ UNCHANGED disk
  BY <1>1, <1>2, <1>4 DEF At, FormatPcs, Written, DiskOK, TypeOK, disk
<1>5. ASSUME NEW k \in {0, 1}, FormatFat(k), call.pc \in {"format0", "format1"}
      PROVE  Written
  <2>1. fat' \in [{0, 1} -> SUBSET Cluster]
    BY <1>2, <1>5, WriteFatEffect, RootIsCluster DEF FormatFat
  <2>2. QED
    BY <1>1, <1>2, <1>5, <2>1
    DEF At, FormatPcs, Written, DiskOK, TypeOK, FormatFat, WriteFat
<1>6. CASE At("root") /\ dir' = [s \in Slot |-> End] /\ UNCHANGED <<boot, fat, data>>
  <2>1. DiskOK'
    BY <1>2, <1>6 DEF DiskOK, TypeOK, Entries
  <2>2. ROOT \in fat'[0] /\ ROOT \in fat'[1]
    BY <1>6 DEF IInv, Formatting
  <2>3. \A s \in Slot : dir'[s] = End
    BY <1>6
  <2>4. RootDir'
    BY <2>2, <2>3, Kinds, Distinct DEF RootDir, EndMarksLast
  <2>5. QED
    BY <2>1, <2>4 DEF Written
<1>7. QED
  BY <1>3, <1>4, <1>5, <1>6 DEF WriteFormat, At

LEMMA FatWrites == IInv /\ SetFat => Written
<1> SUFFICES ASSUME IInv, SetFat PROVE Written
  OBVIOUS
<1>1. TypeOK /\ call.pc \in {"free0", "free1", "take0", "take1"}
  BY DEF IInv, SetFat, At
<1>2. call \in FileCalls
  BY <1>1, CallShapes DEF WritePcs, RemovePcs
<1>3. call.cluster \in Cluster
  BY <1>2 DEF FileCalls
<1>4. PICK k \in {0, 1}, S \in SUBSET Cluster :
         /\ WriteFat(k, call.cluster, S)
         /\ formatted /\ ROOT \in fat[0] /\ call.cluster # ROOT => ROOT \in S
  <2>1. fat[0] \in SUBSET Cluster
    BY <1>1 DEF TypeOK
  <2>2. fat[0] \ {call.cluster} \in SUBSET Cluster
        /\ fat[0] \cup {call.cluster} \in SUBSET Cluster
    BY <1>3, <2>1
  <2>3. QED
    BY <2>1, <2>2 DEF SetFat
<1>5. /\ fat' \in [{0, 1} -> SUBSET Cluster]
      /\ ROOT \in fat[k] /\ ROOT \in S => ROOT \in fat'[k]
      /\ \A j \in {0, 1} \ {k} : fat'[j] = fat[j]
  BY <1>1, <1>3, <1>4, WriteFatEffect
<1>6. UNCHANGED <<boot, dir, data>>
  BY <1>4 DEF WriteFat
<1>7. DiskOK'
  BY <1>1, <1>5, <1>6 DEF DiskOK, TypeOK
<1>8. ~At("root")
  BY <1>1 DEF At
<1>9. ASSUME formatted PROVE RootDir'
  <2>1. RootDir /\ call.cluster # ROOT
    BY <1>1, <1>9 DEF IInv, Aimed, WritePcs, RemovePcs
  <2>2. ROOT \in S
    BY <1>4, <1>9, <2>1 DEF RootDir
  <2>3. ROOT \in fat'[0] /\ ROOT \in fat'[1]
    BY <1>5, <2>1, <2>2 DEF RootDir
  <2>4. QED
    BY <1>6, <2>1, <2>3 DEF RootDir, EndMarksLast
<1>10. QED
  BY <1>7, <1>8, <1>9 DEF Written

\* A slot that is not behind an end mark gets an entry of another kind.
LEMMA SlotChange ==
    ASSUME TypeOK, NEW s \in Slot, NEW e \in Entries, e # End, e # Garbage,
           e.kind = "file" => e.cluster # ROOT,
           dir' = [dir EXCEPT ![s] = e], UNCHANGED <<boot, fat, data>>,
           \A r \in Slot : r < s => dir[r] # End
    PROVE  DiskOK' /\ (RootDir => RootDir')
<1>1. \A r \in Slot : dir'[r] = IF r = s THEN e ELSE dir[r]
  BY DEF TypeOK
<1>2. DiskOK'
  BY DEF DiskOK, TypeOK
<1>3. ASSUME EndMarksLast PROVE EndMarksLast'
  <2> SUFFICES ASSUME NEW q \in Slot, NEW r \in Slot, q < r, dir'[q] = End
               PROVE  dir'[r] = End
    BY DEF EndMarksLast
  <2>1. q # s /\ dir[q] = End
    BY <1>1
  <2>2. dir[r] = End
    BY <1>3, <2>1 DEF EndMarksLast
  <2>3. ~(q < s)
    BY <2>1
  <2>4. r # s
    BY <2>1, <2>3 DEF Slot
  <2>5. QED
    BY <1>1, <2>2, <2>4
<1>4. QED
  BY <1>1, <1>2, <1>3 DEF RootDir

LEMMA FileWrites == IInv /\ WriteFile => Written
<1> SUFFICES ASSUME IInv, WriteFile PROVE Written
  OBVIOUS
<1>1. TypeOK /\ call.pc \in {"entry", "data"}
  BY DEF IInv, WriteFile, At
<1>2. call \in FileCalls
  BY <1>1, CallShapes DEF WritePcs, RemovePcs
<1>3. call.cluster \in Cluster /\ call.slot \in Slot /\ call.name \in Names
      /\ call.text \in Texts
  BY <1>1, <1>2 DEF FileCalls, RemovePcs
<1>4. formatted => RootDir /\ call.cluster # ROOT
                   /\ \A r \in Slot : r < call.slot => dir[r] # End
  BY <1>1 DEF IInv, Aimed, WritePcs, RemovePcs
<1>5. CASE At("entry") /\ dir' = [dir EXCEPT ![call.slot] = File(call.name, call.cluster)]
           /\ UNCHANGED <<boot, fat, data>>
  <2>1. File(call.name, call.cluster) \in Entries
    BY <1>3 DEF Entries
  <2>2. DiskOK'
    BY <1>1, <1>3, <1>5, <2>1 DEF DiskOK, TypeOK
  <2>3. ASSUME formatted PROVE RootDir'
    <3> DEFINE e == File(call.name, call.cluster)
    <3>1. e # End /\ e # Garbage /\ e.cluster = call.cluster
      BY Distinct, Kinds, Zenon
    <3>2. e \in Entries /\ dir' = [dir EXCEPT ![call.slot] = e]
      BY <1>5, <2>1
    <3> HIDE DEF e
    <3>3. RootDir => RootDir'
      BY <1>1, <1>3, <1>4, <1>5, <2>3, <3>1, <3>2, SlotChange
    <3>4. QED
      BY <1>4, <2>3, <3>3
  <2>4. QED
    BY <1>5, <2>2, <2>3 DEF Written, At
<1>6. CASE At("data") /\ call.cluster = ROOT /\ UNCHANGED data /\ UNCHANGED <<boot, fat>>
           /\ \E n \in 0 .. 4 : dir' = [s \in Slot |-> IF s <= n THEN Garbage ELSE End]
  <2>1. DiskOK'
    BY <1>1, <1>6 DEF DiskOK, TypeOK, Entries
  <2>2. QED
    BY <1>4, <1>6, <2>1 DEF Written, At
<1>7. CASE At("data") /\ data' = [data EXCEPT ![call.cluster] = call.text]
           /\ UNCHANGED dir /\ UNCHANGED <<boot, fat>>
  <2>1. DiskOK'
    BY <1>1, <1>3, <1>7 DEF DiskOK, TypeOK
  <2>2. formatted => RootDir'
    BY <1>4, <1>7 DEF RootDir, EndMarksLast
  <2>3. QED
    BY <1>7, <2>1, <2>2 DEF Written, At
<1>8. QED
  BY <1>5, <1>6, <1>7 DEF WriteFile

LEMMA MarkWrites == IInv /\ MarkDeleted => Written
<1> SUFFICES ASSUME IInv, MarkDeleted PROVE Written
  OBVIOUS
<1>1. TypeOK /\ call.pc = "mark"
  BY DEF IInv, MarkDeleted, At
<1>2. call.slot \in Slot
  BY <1>1, CallShapes DEF FileCalls, WritePcs, RemovePcs
<1>3. Deleted \in Entries
  BY DEF Entries
<1>4. DiskOK'
  BY <1>1, <1>2, <1>3 DEF DiskOK, TypeOK, MarkDeleted
<1>5. ASSUME formatted PROVE RootDir'
  <2>1. RootDir /\ \A r \in Slot : r < call.slot => dir[r] # End
    BY <1>1, <1>5 DEF IInv, Aimed, WritePcs, RemovePcs
  <2>2. Deleted.kind # "file"
    BY Kinds
  <2>3. QED
    BY <1>1, <1>2, <1>3, <2>1, <2>2, SlotChange, Distinct DEF MarkDeleted
<1>6. QED
  BY <1>1, <1>4, <1>5 DEF Written, At

LEMMA SectorWrites == IInv /\ SectorWrite => Written
  BY FormatWrites, FatWrites, FileWrites, MarkWrites DEF SectorWrite

-----------------------------------------------------------------------------
(* The steps.                                                              *)

\* A command ends, whether it succeeded or not.
LEMMA EndStep ==
    ASSUME DiskOK', formatted' => RootDir', NEW o \in {"none", "ok", "failed"},
           call' = Idle(o), formatted' \in BOOLEAN, left' \subseteq Cluster,
           g_selected' \in BOOLEAN, faults' \in 0 .. MAX_FAULTS
    PROVE  IInv'
<1>1. call' \in Calls
  BY ShapesAreCalls, Zenon
<1>2. TypeOK'
  BY <1>1 DEF TypeOK, DiskOK
<1>3. call'.pc = "idle"
  BY DEF Idle
<1>4. Formatting' /\ Aimed'
  BY <1>3 DEF Formatting, Aimed, At, FormatPcs, WritePcs, RemovePcs
<1>5. QED
  BY <1>2, <1>4 DEF IInv

\* A command goes on, or begins, without having written.
LEMMA QuietStep ==
    ASSUME IInv, UNCHANGED <<disk, made>>, call' \in Calls,
           g_selected' \in BOOLEAN, faults' \in 0 .. MAX_FAULTS,
           call'.pc \notin FormatPcs, formatted => Aimed'
    PROVE  IInv'
<1>1. TypeOK'
  BY DEF IInv, TypeOK, disk, made
<1>2. Formatting'
  BY DEF Formatting, At, FormatPcs
<1>3. RootDir => RootDir'
  BY DEF RootDir, EndMarksLast, disk
<1>4. QED
  BY <1>1, <1>2, <1>3 DEF IInv, made

LEMMA Quiet == IInv /\ UNCHANGED disk => DiskOK' /\ (formatted => RootDir')
  BY DEF IInv, TypeOK, DiskOK, RootDir, EndMarksLast, disk

LEMMA FaultCounted == IInv /\ CanFail => faults + 1 \in 0 .. MAX_FAULTS
  BY FaultsAssumption DEF IInv, TypeOK, CanFail

LEMMA AfterIs ==
    /\ After["boot"] = "info" /\ After["info"] = "format0"
    /\ After["format0"] = "format1" /\ After["format1"] = "root"
    /\ After["root"] = "idle" /\ After["free0"] = "free1"
    /\ After["free1"] = IF call.op = "write" THEN "alloc" ELSE "mark"
    /\ After["take0"] = "take1" /\ After["take1"] = "entry"
    /\ After["entry"] = "data" /\ After["data"] = "idle" /\ After["mark"] = "idle"
  BY DEF After

LEMMA ProceedStep == IInv /\ Proceed => IInv'
<1> SUFFICES ASSUME IInv, Proceed PROVE IInv'
  OBVIOUS
<1>1. DiskOK' /\ (formatted' => RootDir') /\ formatted' = (formatted \/ At("root"))
      /\ UNCHANGED <<g_selected, faults>>
  BY SectorWrites DEF Proceed, Written
<1>2. /\ TypeOK /\ g_selected' \in BOOLEAN /\ faults' \in 0 .. MAX_FAULTS
      /\ formatted' \in BOOLEAN /\ left' \subseteq Cluster
  BY <1>1 DEF IInv, TypeOK, Proceed
<1> DEFINE next == After[call.pc]
<1>3. call' = IF next = "idle" THEN Idle("ok") ELSE [call EXCEPT !.pc = next]
  BY DEF Proceed
<1>4. CASE next = "idle"
  BY <1>1, <1>2, <1>3, <1>4, EndStep
<1>5. CASE call.pc \in FormatPcs /\ next # "idle"
  <2>1. call \in [pc : FormatPcs, op : {"format"}] /\ ~formatted
    BY <1>2, <1>5, CallShapes DEF IInv, Formatting
  <2>2. \/ call.pc = "boot" /\ next = "info"
        \/ call.pc = "info" /\ next = "format0"
        \/ call.pc = "format0" /\ next = "format1"
        \/ call.pc = "format1" /\ next = "root"
    BY <1>5, AfterIs DEF FormatPcs
  <2>3. call' = [call EXCEPT !.pc = next] /\ next \in FormatPcs
    BY <1>3, <1>5, <2>2 DEF FormatPcs
  <2>4. call' \in [pc : FormatPcs, op : {"format"}] /\ call'.pc = next
    <3> HIDE DEF next
    <3>1. QED
      BY <2>1, <2>3
  <2>5. call' \in Calls
    BY <2>4, ShapesAreCalls, Zenon
  <2>6. TypeOK'
    BY <1>1, <1>2, <2>5 DEF TypeOK, DiskOK
  <2>7. ~formatted'
    BY <1>1, <2>1, <2>2 DEF At
  <2>8. ASSUME next = "format1" PROVE ROOT \in fat'[0]
    <3>1. WriteFat(0, ROOT, {ROOT})
      BY <2>2, <2>8
      DEF Proceed, SectorWrite, WriteFormat, SetFat, WriteFile, MarkDeleted, At, FormatFat
    <3>2. QED
      BY <1>2, <3>1, WriteFatEffect, RootIsCluster
  <2>9. ASSUME next = "root" PROVE ROOT \in fat'[0] /\ ROOT \in fat'[1]
    <3>1. WriteFat(1, ROOT, {ROOT})
      BY <2>2, <2>9
      DEF Proceed, SectorWrite, WriteFormat, SetFat, WriteFile, MarkDeleted, At, FormatFat
    <3>2. ROOT \in fat[0]
      BY <2>2, <2>9 DEF IInv, Formatting, At
    <3>3. ROOT \in fat'[1] /\ fat'[0] = fat[0]
      BY <1>2, <3>1, WriteFatEffect, RootIsCluster
    <3>4. QED
      BY <3>2, <3>3
  <2>10. Formatting'
    BY <2>4, <2>7, <2>8, <2>9 DEF Formatting, At
  <2>11. QED
    BY <2>6, <2>7, <2>10 DEF IInv
<1>6. CASE call.pc \notin FormatPcs /\ next # "idle"
  <2>1. call.pc \in {"free0", "free1", "take0", "take1", "entry"}
    <3>1. call.pc \in {"free0", "free1", "take0", "take1", "entry", "data", "mark"}
      BY <1>6
      DEF Proceed, SectorWrite, WriteFormat, SetFat, WriteFile, MarkDeleted, At, FormatPcs
    <3>2. QED
      BY <1>6, <3>1, AfterIs
  <2>2. call \in FileCalls
    BY <1>2, <2>1, CallShapes DEF WritePcs, RemovePcs
  <2>3. /\ call.op = "write" => next \in WritePcs
        /\ call.op = "remove" => next \in RemovePcs
        /\ next \notin {"alloc", "mark"} => call.pc \notin {"alloc", "mark"}
    BY <2>1, <2>2, AfterIs DEF FileCalls, WritePcs, RemovePcs
  <2>4. call' = [call EXCEPT !.pc = next]
    BY <1>3, <1>6
  <2>5. /\ call' \in FileCalls /\ call'.pc = next
        /\ call'.slot = call.slot /\ call'.cluster = call.cluster
    <3> HIDE DEF next
    <3>1. QED
      BY <2>2, <2>3, <2>4 DEF FileCalls
  <2>6. call' \in Calls
    BY <2>5, ShapesAreCalls, Zenon
  <2>7. TypeOK'
    BY <1>1, <1>2, <2>6 DEF TypeOK, DiskOK
  <2>8. next \notin FormatPcs /\ formatted' = formatted
    <3>1. next \notin FormatPcs /\ ~At("root")
      BY <2>1, AfterIs DEF FormatPcs, At
    <3>2. QED
      BY <1>1, <1>2, <3>1, Zenon DEF TypeOK
  <2>9. Formatting'
    BY <2>5, <2>8 DEF Formatting, FormatPcs, At
  <2>10. ASSUME formatted PROVE Aimed'
    <3>1. Aimed
      BY <2>10 DEF IInv
    <3>2. call.cluster # ROOT /\ \A r \in Slot : r < call.slot => dir[r] # End
      BY <2>1, <3>1 DEF Aimed, WritePcs, RemovePcs
    <3>3. \A r \in Slot : r # call.slot => dir'[r] = dir[r]
      <4>1. CASE call.pc = "entry"
        BY <1>2, <4>1
        DEF Proceed, SectorWrite, WriteFormat, SetFat, WriteFile, MarkDeleted, At, TypeOK
      <4>2. CASE call.pc # "entry"
        BY <2>1, <4>2
        DEF Proceed, SectorWrite, WriteFormat, SetFat, WriteFile, MarkDeleted, At, WriteFat
      <4>3. QED
        BY <4>1, <4>2
    <3>4. \A r \in Slot : r < call.slot => r # call.slot
      BY <2>2 DEF FileCalls, Slot
    <3>5. QED
      BY <2>5, <3>2, <3>3, <3>4 DEF Aimed
  <2>11. QED
    BY <1>1, <2>7, <2>8, <2>9, <2>10 DEF IInv
<1>7. QED
  BY <1>4, <1>5, <1>6

LEMMA WriteFailsStep == IInv /\ WriteFails => IInv'
<1> SUFFICES ASSUME IInv, WriteFails PROVE IInv'
  OBVIOUS
<1>1. DiskOK' /\ (formatted => RootDir')
  BY SectorWrites, Quiet DEF WriteFails, Written
<1>2. faults' \in 0 .. MAX_FAULTS
  BY FaultCounted DEF WriteFails
<1>3. call' = Idle("failed") /\ UNCHANGED <<g_selected, formatted, left>>
  BY DEF WriteFails, Fail, made
<1>4. g_selected' \in BOOLEAN /\ formatted' \in BOOLEAN /\ left' \subseteq Cluster
  BY <1>3 DEF IInv, TypeOK
<1>5. QED
  BY <1>1, <1>2, <1>3, <1>4, EndStep

LEMMA PowerCutStep == IInv /\ PowerCut => IInv'
<1> SUFFICES ASSUME IInv, PowerCut PROVE IInv'
  OBVIOUS
<1>1. DiskOK' /\ (formatted => RootDir')
  BY Quiet DEF PowerCut
<1>2. faults' \in 0 .. MAX_FAULTS
  <2>1. faults \in 0 .. MAX_FAULTS
    BY DEF IInv, TypeOK
  <2>2. \/ faults' = faults
        \/ faults < MAX_FAULTS /\ faults' = faults + 1
    BY DEF PowerCut, At
  <2>3. QED
    BY <2>1, <2>2, FaultsAssumption
<1>3. call' = Idle("none") /\ g_selected' = FALSE /\ formatted' = formatted /\ left' = left
  BY DEF PowerCut, made
<1>4. formatted' \in BOOLEAN /\ left' \subseteq Cluster
  BY <1>3 DEF IInv, TypeOK
<1>5. QED
  BY <1>1, <1>2, <1>3, <1>4, EndStep

LEMMA CommandSteps ==
    ASSUME IInv, Select \/ Format \/ \E n \in Names : Remove(n) \/ \E t \in Texts : Write(n, t)
    PROVE  IInv'
<1>1. TypeOK /\ At("idle") /\ UNCHANGED <<disk, faults>> /\ g_selected' \in BOOLEAN
  BY DEF IInv, TypeOK, Select, Format, Remove, Write, Mounted
<1>2. faults' \in 0 .. MAX_FAULTS
  BY <1>1 DEF TypeOK
<1>3. CASE Select
  <2>1. call' \in Calls /\ call'.pc = "idle"
    BY <1>1, <1>3 DEF Select, TypeOK, At
  <2>2. Aimed'
    BY <2>1 DEF Aimed, WritePcs, RemovePcs
  <2>3. QED
    BY <1>1, <1>2, <1>3, <2>1, <2>2, QuietStep DEF Select, FormatPcs
<1>4. CASE Format
  <2>1. call' \in [pc : FormatPcs, op : {"format"}] /\ call'.pc = "boot" /\ formatted' = FALSE
        /\ left' = {}
    BY <1>4 DEF Format, FormatPcs
  <2>2. call' \in Calls
    BY <2>1, ShapesAreCalls, Zenon
  <2>3. TypeOK'
    BY <1>1, <1>2, <2>1, <2>2 DEF TypeOK, disk
  <2>4. Formatting'
    BY <2>1 DEF Formatting, At
  <2>5. QED
    BY <2>1, <2>3, <2>4 DEF IInv
<1>5. ASSUME NEW n \in Names, Remove(n) \/ \E t \in Texts : Write(n, t)
      PROVE  IInv'
  <2>1. /\ \/ call' \in [pc : {"find"}, op : {"write"}, name : Names, text : Texts]
           \/ call' \in [pc : {"find"}, op : {"remove"}, name : Names]
        /\ call'.pc = "find" /\ UNCHANGED made
    BY <1>5 DEF Remove, Write
  <2>2. call' \in Calls
    BY <2>1, ShapesAreCalls, Zenon
  <2>3. Aimed'
    BY <2>1 DEF Aimed, WritePcs, RemovePcs
  <2>4. QED
    BY <1>1, <1>2, <2>1, <2>2, <2>3, QuietStep DEF FormatPcs
<1>6. QED
  BY <1>3, <1>4, <1>5

\* The call record with which a search of the directory ends.
LEMMA LocalIsCall ==
    ASSUME TypeOK, At("find"), NEW s \in Slot, NEW c \in Cluster, NEW pc,
           call.op = "write" => pc \in WritePcs, call.op = "remove" => pc \in RemovePcs
    PROVE  /\ Local(pc, s, c) \in Calls
           /\ Local(pc, s, c).pc = pc /\ Local(pc, s, c).slot = s
           /\ Local(pc, s, c).cluster = c
<1>1. /\ call.op \in {"write", "remove"} /\ call.name \in Names
      /\ call.op = "write" => call.text \in Texts
  BY CallShapes DEF At
<1>2. Local(pc, s, c) \in FileCalls
  BY <1>1 DEF Local, FileCalls
<1>3. Local(pc, s, c) \in Calls
  BY <1>2, ShapesAreCalls, Zenon
<1>4. QED
  BY <1>3 DEF Local

LEMMA FindStep == IInv /\ Find => IInv'
<1> SUFFICES ASSUME IInv, Find PROVE IInv'
  OBVIOUS
<1> DEFINE s == Least(SlotsOf(call.name))
<1>1. TypeOK /\ At("find") /\ UNCHANGED <<disk, g_selected, made, faults>>
      /\ call' = Local("free0", s, dir[s].cluster)
  BY DEF IInv, Find
<1>2. s \in SlotsOf(call.name)
  BY LeastIs DEF SlotsOf, Slot, Find
<1> HIDE DEF s
<1>3. s \in Slot /\ dir[s].kind = "file" /\ \A r \in 1 .. s : dir[r] # End
  BY <1>2 DEF SlotsOf, InUse
<1>4. dir[s].cluster \in Cluster
  BY <1>1, <1>3, EntryOf
<1>5. call' \in Calls /\ call'.pc = "free0" /\ call'.slot = s /\ call'.cluster = dir[s].cluster
  BY <1>1, <1>3, <1>4, LocalIsCall DEF WritePcs, RemovePcs
<1>6. ASSUME formatted PROVE Aimed'
  <2>1. dir[s].cluster # ROOT
    BY <1>3, <1>6 DEF IInv, RootDir
  <2>2. \A r \in Slot : r < s => dir[r] # End
    BY <1>3 DEF Slot
  <2>3. QED
    BY <1>1, <1>5, <2>1, <2>2 DEF Aimed, disk
<1>7. g_selected' \in BOOLEAN /\ faults' \in 0 .. MAX_FAULTS
  BY <1>1 DEF TypeOK
<1>8. QED
  BY <1>1, <1>5, <1>6, <1>7, QuietStep DEF FormatPcs

LEMMA FindMissesStep == IInv /\ FindMisses => IInv'
<1> SUFFICES ASSUME IInv, FindMisses PROVE IInv'
  OBVIOUS
<1>1. TypeOK /\ At("find") /\ UNCHANGED <<disk, g_selected, made>>
  BY DEF IInv, FindMisses, NotFound
<1>2. faults' \in 0 .. MAX_FAULTS
  BY <1>1, FaultCounted DEF FindMisses, TypeOK
<1>3. g_selected' \in BOOLEAN /\ formatted' \in BOOLEAN /\ left' \subseteq Cluster
      /\ formatted' = formatted
  BY <1>1 DEF TypeOK, made
<1>4. CASE call' = Idle("failed")
  <2>1. DiskOK' /\ (formatted => RootDir')
    BY <1>1, Quiet
  <2>2. QED
    BY <1>1, <1>2, <1>3, <1>4, <2>1, EndStep
<1>5. CASE call.op = "write" /\ FreeSlots # {} /\ call' = Local("alloc", Least(FreeSlots), ROOT)
  <2> DEFINE s == Least(FreeSlots)
  <2>1. s \in FreeSlots /\ \A r \in FreeSlots : s <= r
    BY <1>5, LeastIs DEF FreeSlots, Slot
  <2> HIDE DEF s
  <2>2. s \in Slot
    BY <2>1 DEF FreeSlots
  <2>3. call' = Local("alloc", s, ROOT)
    BY <1>5 DEF s
  <2>4. call' \in Calls /\ call'.pc = "alloc" /\ call'.slot = s
    BY <1>1, <1>5, <2>2, <2>3, LocalIsCall, RootIsCluster DEF WritePcs
  <2>5. \A r \in Slot : r < s => dir[r] # End
    <3> SUFFICES ASSUME NEW r \in Slot, r < s, dir[r] = End PROVE FALSE
      OBVIOUS
    <3>1. r \in FreeSlots
      BY DEF FreeSlots
    <3>2. s <= r
      BY <2>1, <3>1
    <3>3. QED
      BY <2>2, <3>2 DEF Slot
  <2>6. Aimed'
    BY <1>1, <2>4, <2>5 DEF Aimed, disk
  <2>7. QED
    BY <1>1, <1>2, <1>3, <2>4, <2>6, QuietStep DEF FormatPcs
<1>6. QED
  BY <1>4, <1>5 DEF FindMisses, NotFound

LEMMA FailSteps == IInv /\ (FindFails \/ AllocFails) => IInv'
<1> SUFFICES ASSUME IInv, FindFails \/ AllocFails PROVE IInv'
  OBVIOUS
<1>1. /\ call' = Idle("failed") /\ UNCHANGED <<g_selected, formatted, left>>
      /\ UNCHANGED disk
      /\ \/ faults' = faults
         \/ CanFail /\ faults' = faults + 1
  BY DEF FindFails, AllocFails, Fail, made
<1>2. /\ g_selected' \in BOOLEAN /\ formatted' \in BOOLEAN /\ left' \subseteq Cluster
      /\ faults' \in 0 .. MAX_FAULTS
  BY <1>1, FaultCounted DEF IInv, TypeOK
<1>3. DiskOK' /\ (formatted => RootDir')
  BY <1>1, Quiet
<1>4. QED
  BY <1>1, <1>2, <1>3, EndStep

LEMMA AllocStep == IInv /\ Alloc => IInv'
<1> SUFFICES ASSUME IInv, Alloc PROVE IInv'
  OBVIOUS
<1>1. PICK c \in FreeClusters :
         /\ call' = [call EXCEPT !.pc = "take0", !.cluster = c]
         /\ \/ faults' = faults
            \/ CanFail /\ faults' = faults + 1
  BY DEF Alloc
<1>2. TypeOK /\ At("alloc") /\ UNCHANGED <<disk, g_selected, made>>
  BY DEF IInv, Alloc
<1>3. /\ g_selected' \in BOOLEAN /\ faults' \in 0 .. MAX_FAULTS
  BY <1>1, <1>2, FaultCounted DEF TypeOK
<1>4. c \in Cluster /\ c \notin fat[0]
  BY DEF FreeClusters
<1>5. call \in FileCalls /\ call.op = "write"
  BY <1>2, CallShapes DEF At, FileCalls, WritePcs, RemovePcs
<1>6. /\ call' \in FileCalls /\ call'.pc = "take0"
      /\ call'.slot = call.slot /\ call'.cluster = c
  BY <1>1, <1>4, <1>5 DEF FileCalls, WritePcs
<1>7. call' \in Calls
  BY <1>6, ShapesAreCalls, Zenon
<1>8. ASSUME formatted PROVE Aimed'
  <2>1. c # ROOT
    BY <1>4, <1>8 DEF IInv, RootDir
  <2>2. \A r \in Slot : r < call.slot => dir[r] # End
    BY <1>2, <1>8 DEF IInv, Aimed, At, WritePcs
  <2>3. QED
    BY <1>2, <1>6, <2>1, <2>2 DEF Aimed, disk
<1>9. QED
  BY <1>2, <1>3, <1>6, <1>7, <1>8, QuietStep DEF FormatPcs

LEMMA StutterStep == IInv /\ UNCHANGED vars => IInv'
  BY DEF IInv, TypeOK, Formatting, RootDir, EndMarksLast, Aimed, At, vars, disk, made

-----------------------------------------------------------------------------
(* The invariant, and what follows from it.                                *)

LEMMA InitInv == Init => IInv
<1> SUFFICES ASSUME Init PROVE IInv
  OBVIOUS
<1>1. End \in Entries
  BY DEF Entries
<1>2. call \in Calls
  BY ShapesAreCalls, Zenon DEF Init
<1>3. TypeOK
  <2>1. boot \in BOOLEAN /\ g_selected \in BOOLEAN /\ formatted \in BOOLEAN
        /\ left \subseteq Cluster
    BY DEF Init
  <2>2. fat \in [{0, 1} -> SUBSET Cluster]
    BY OldFatAssumption DEF Init
  <2>3. dir \in [Slot -> Entries]
    BY <1>1 DEF Init
  <2>4. data \in [Cluster -> Texts \cup {NoText}]
    BY DEF Init
  <2>5. faults \in 0 .. MAX_FAULTS
    BY FaultsAssumption DEF Init
  <2>6. QED
    BY <1>2, <2>1, <2>2, <2>3, <2>4, <2>5, Zenon DEF TypeOK
<1>4. Formatting
  BY DEF Init, Formatting, At, Idle, FormatPcs
<1>5. QED
  BY <1>3, <1>4 DEF IInv, Init

LEMMA NextInv == IInv /\ [Next]_vars => IInv'
<1> SUFFICES ASSUME IInv, [Next]_vars PROVE IInv'
  OBVIOUS
<1>1. CASE Select \/ Format \/ \E n \in Names : Remove(n) \/ \E t \in Texts : Write(n, t)
  BY <1>1, CommandSteps
<1>2. CASE Find
  BY <1>2, FindStep
<1>3. CASE FindMisses
  BY <1>3, FindMissesStep
<1>4. CASE FindFails \/ AllocFails
  BY <1>4, FailSteps
<1>5. CASE Alloc
  BY <1>5, AllocStep
<1>6. CASE Proceed
  BY <1>6, ProceedStep
<1>7. CASE WriteFails
  BY <1>7, WriteFailsStep
<1>8. CASE PowerCut
  BY <1>8, PowerCutStep
<1>9. CASE UNCHANGED vars
  BY <1>9, StutterStep
<1>10. QED
  BY <1>1, <1>2, <1>3, <1>4, <1>5, <1>6, <1>7, <1>8, <1>9 DEF Next

(***************************************************************************)
(* The inductive invariant holds in every reachable state of fs/fat32.c's  *)
(* commands, whatever fails and whenever the power is cut.                 *)
(***************************************************************************)
THEOREM Invariance == Spec => []IInv
<1>1. Init => IInv
  BY InitInv
<1>2. IInv /\ [Next]_vars => IInv'
  BY NextInv
<1>3. QED
  BY <1>1, <1>2, PTL DEF Spec

(***************************************************************************)
(* Every variable, sector and command of Fat32.tla has its type.           *)
(***************************************************************************)
THEOREM TypeCorrect == Spec => []TypeOK
<1>1. IInv => TypeOK
  BY DEF IInv
<1>2. QED
  BY <1>1, Invariance, PTL

(***************************************************************************)
(* No file of a formatted volume ever gets the root directory's cluster,   *)
(* so fat32_write_file never overwrites the directory with a text.         *)
(***************************************************************************)
THEOREM RootIsSafe == Spec => []RootSafe
<1>1. IInv => RootSafe
  <2> SUFFICES ASSUME IInv, formatted PROVE RootSafe
    BY DEF RootSafe
  <2>1. RootDir
    BY DEF IInv
  <2>2. \A s \in Files : dir[s].cluster # ROOT
    BY <2>1 DEF RootDir, Files
  <2>3. QED
    BY <2>1, <2>2 DEF RootSafe, RootDir, Pointed
<1>2. QED
  BY <1>1, Invariance, PTL

LEMMA Reached == IInv => NothingHidden
<1> SUFFICES ASSUME IInv, formatted, NEW s \in Files PROVE InUse(s)
  BY DEF NothingHidden
<1>1. s \in Slot /\ dir[s].kind = "file" /\ EndMarksLast
  BY DEF IInv, RootDir, Files
<1>2. dir[s] # End
  BY <1>1, Kinds
<1>3. \A r \in 1 .. s : r \in Slot /\ (r = s \/ r < s)
  BY <1>1, LayoutAssumption DEF Slot
<1>4. \A r \in 1 .. s : dir[r] # End
  BY <1>1, <1>2, <1>3 DEF EndMarksLast
<1>5. QED
  BY <1>1, <1>4 DEF InUse

(***************************************************************************)
(* No entry of a formatted volume is ever out of the reach of the scans    *)
(* of find_root_entry and fat32_list_root, which end at the first 0x00.    *)
(***************************************************************************)
THEOREM EveryFileIsFound == Spec => []NothingHidden
  BY Invariance, Reached, PTL

-----------------------------------------------------------------------------
(* The second inductive invariant: what the faults so far can have cost.   *)

\* Where the copies of the FAT differ, but for the entry that a command has set in
\* the first one only.
Differing == (fat[0] \ fat[1]) \cup (fat[1] \ fat[0])
HalfSet   == IF call.pc \in {"free1", "take1"} THEN {call.cluster} ELSE {}
Uneven    == Differing \ HalfSet

\* A format makes the first sectors of the copies equal, and leaves the others.
Copies ==
    /\ Cardinality(Uneven \ SectorOf(ROOT)) <= faults
    /\ formatted => Cardinality(Uneven) <= faults
    /\ At("format1") => fat[0] \cap SectorOf(ROOT) = {ROOT}
    /\ At("root") => \A k \in {0, 1} : fat[k] \cap SectorOf(ROOT) = {ROOT}

\* The files but the one at s, their clusters and their names.
Others(s)     == Files \ {s}
ClustersOf(S) == {dir[r].cluster : r \in S}
NamesOf(S)    == {dir[r].name : r \in S}

\* What the damage comes to when the command has ended, which gives the slot s the
\* name n and the cluster c, or frees both.
LostBut(s, c)     == Cardinality((fat[0] \ {c}) \ (ClustersOf(Others(s)) \cup left \cup {ROOT}))
UnownedBut(s, c)  == Cardinality(Others(s))
                        - Cardinality(ClustersOf(Others(s)) \cap (fat[0] \ {c}))
DoubledBut(s, n)  == (Cardinality(Others(s)) + 1) - Cardinality(NamesOf(Others(s)) \cup {n})

Bounded(s, n, c, f) ==
    /\ LostBut(s, c) + DoubledBut(s, n) <= f
    /\ UnownedBut(s, c) + DoubledBut(s, n) <= f

Settled(f) == Lost + Duplicates <= f /\ Unowned + Duplicates <= f

FilePcs == WritePcs \cup RemovePcs

\* The entry of a command's slot has its name; the cluster is freed, then there is
\* none, then there is a new one.
Underway ==
    /\ Bounded(call.slot, call.name, call.cluster, faults)
    /\ call.slot \in Files => dir[call.slot].name = call.name
    /\ call.op = "remove" => call.slot \in Files
    /\ call.pc = "alloc" /\ call.cluster = ROOT => call.slot \notin Files
    /\ call.pc \in {"free1", "alloc", "mark"} => call.cluster \notin fat[0] \/ call.cluster = ROOT
    /\ call.pc \in {"take1", "entry", "data"} => call.cluster \in fat[0]
    /\ call.pc = "data" => call.slot \in Files /\ dir[call.slot].cluster = call.cluster

Accounts ==
    formatted => /\ call.pc \in {"idle", "find"} => Settled(faults)
                 /\ call.pc \in FilePcs => Underway


-----------------------------------------------------------------------------
(* Counting.                                                               *)

LEMMA Subsets ==
    ASSUME NEW S, IsFiniteSet(S), NEW T, T \subseteq S
    PROVE  IsFiniteSet(T) /\ Cardinality(S) \in Nat /\ Cardinality(T) \in Nat
           /\ Cardinality(T) <= Cardinality(S)
  BY FS_Subset, FS_CardinalityType

LEMMA OneMore ==
    ASSUME NEW S, IsFiniteSet(S), NEW x, NEW T, T \subseteq S \cup {x}
    PROVE  IsFiniteSet(T) /\ Cardinality(S) \in Nat /\ Cardinality(T) \in Nat
           /\ Cardinality(T) <= Cardinality(S) + 1
<1>1. IsFiniteSet(S \cup {x}) /\ Cardinality(S) \in Nat
      /\ Cardinality(S \cup {x}) = IF x \in S THEN Cardinality(S) ELSE Cardinality(S) + 1
  BY FS_AddElement, FS_CardinalityType
<1>2. IsFiniteSet(T) /\ Cardinality(T) \in Nat /\ Cardinality(T) <= Cardinality(S \cup {x})
  BY <1>1, Subsets, Zenon
<1>3. QED
  BY <1>1, <1>2

LEMMA ImageCount ==
    ASSUME NEW S, IsFiniteSet(S), NEW g
    PROVE  LET T == {g[r] : r \in S}
           IN  /\ IsFiniteSet(T) /\ Cardinality(T) <= Cardinality(S)
               /\ Cardinality(T) = Cardinality(S) =>
                     \A q, r \in S : g[q] = g[r] => q = r
<1> DEFINE T == {g[r] : r \in S}
           h == [r \in S |-> g[r]]
<1>1. h \in Surjection(S, T)
  <2>1. h \in [S -> T]
    OBVIOUS
  <2>2. \A t \in T : \E s \in S : h[s] = t
    OBVIOUS
  <2>3. QED
    BY <2>1, <2>2 DEF Surjection
<1> HIDE DEF T
<1>2. IsFiniteSet(T) /\ Cardinality(T) <= Cardinality(S)
      /\ (Cardinality(T) = Cardinality(S) => h \in Injection(S, T))
  <2> HIDE DEF h
  <2>1. QED
    BY <1>1, FS_Surjection
<1>3. h \in Injection(S, T) => \A q, r \in S : g[q] = g[r] => q = r
  BY DEF Injection, IsInjective
<1>4. QED
  BY <1>2, <1>3 DEF T

LEMMA Finiteness ==
    TypeOK => /\ IsFiniteSet(Cluster) /\ IsFiniteSet(Slot)
              /\ \A S \in SUBSET Files :
                    /\ IsFiniteSet(S) /\ Cardinality(S) \in Nat
                    /\ IsFiniteSet(NamesOf(S)) /\ Cardinality(NamesOf(S)) \in Nat
                    /\ Cardinality(NamesOf(S)) <= Cardinality(S)
                    /\ IsFiniteSet(ClustersOf(S)) /\ Cardinality(ClustersOf(S)) \in Nat
                    /\ ClustersOf(S) \subseteq Cluster /\ NamesOf(S) \subseteq Names
                    /\ Cardinality(ClustersOf(S)) <= Cardinality(S)
<1> SUFFICES ASSUME TypeOK PROVE
              /\ IsFiniteSet(Cluster) /\ IsFiniteSet(Slot)
              /\ \A S \in SUBSET Files :
                    /\ IsFiniteSet(S) /\ Cardinality(S) \in Nat
                    /\ IsFiniteSet(NamesOf(S)) /\ Cardinality(NamesOf(S)) \in Nat
                    /\ Cardinality(NamesOf(S)) <= Cardinality(S)
                    /\ IsFiniteSet(ClustersOf(S)) /\ Cardinality(ClustersOf(S)) \in Nat
                    /\ ClustersOf(S) \subseteq Cluster /\ NamesOf(S) \subseteq Names
                    /\ Cardinality(ClustersOf(S)) <= Cardinality(S)
  OBVIOUS
<1>1. IsFiniteSet(Cluster)
  BY FS_Interval, LayoutAssumption DEF Cluster, ROOT
<1>2. IsFiniteSet(Slot)
  BY FS_Interval, LayoutAssumption DEF Slot
<1>3. ASSUME NEW S \in SUBSET Files
      PROVE  /\ IsFiniteSet(S) /\ Cardinality(S) \in Nat
             /\ IsFiniteSet(NamesOf(S)) /\ Cardinality(NamesOf(S)) \in Nat
             /\ Cardinality(NamesOf(S)) <= Cardinality(S)
             /\ IsFiniteSet(ClustersOf(S)) /\ Cardinality(ClustersOf(S)) \in Nat
             /\ ClustersOf(S) \subseteq Cluster /\ NamesOf(S) \subseteq Names
             /\ Cardinality(ClustersOf(S)) <= Cardinality(S)
  <2>1. S \subseteq Slot /\ \A r \in S : dir[r].kind = "file"
    BY DEF Files
  <2>2. IsFiniteSet(S) /\ Cardinality(S) \in Nat
    BY <1>2, <2>1, Subsets
  <2>3. IsFiniteSet(NamesOf(S)) /\ Cardinality(NamesOf(S)) <= Cardinality(S)
    <3> DEFINE g == [r \in S |-> dir[r].name]
    <3>1. NamesOf(S) = {g[r] : r \in S}
      BY DEF NamesOf
    <3> HIDE DEF g
    <3>2. QED
      BY <2>2, <3>1, ImageCount
  <2>4. IsFiniteSet(ClustersOf(S)) /\ Cardinality(ClustersOf(S)) <= Cardinality(S)
    <3> DEFINE g == [r \in S |-> dir[r].cluster]
    <3>1. ClustersOf(S) = {g[r] : r \in S}
      BY DEF ClustersOf
    <3> HIDE DEF g
    <3>2. QED
      BY <2>2, <3>1, ImageCount
  <2>5. ClustersOf(S) \subseteq Cluster /\ NamesOf(S) \subseteq Names
    BY <2>1, EntryOf DEF ClustersOf, NamesOf
  <2>6. QED
    BY <2>2, <2>3, <2>4, <2>5, FS_CardinalityType
<1>4. QED
  BY <1>1, <1>2, <1>3

-----------------------------------------------------------------------------
(* The damage, told with and without the file a command works on.          *)

LEMMA Apart ==
    \A s \in Slot : TypeOK =>
       /\ IsFiniteSet(Others(s)) /\ Cardinality(Others(s)) \in Nat
       /\ Others(s) \subseteq Files
       /\ s \in Files =>
             /\ Cardinality(Files) = Cardinality(Others(s)) + 1
             /\ NamesOf(Files) = NamesOf(Others(s)) \cup {dir[s].name}
             /\ Pointed = ClustersOf(Others(s)) \cup {dir[s].cluster}
       /\ s \notin Files => Others(s) = Files
       /\ Pointed = ClustersOf(Files)
       /\ NamesOf(Files) = {dir[r].name : r \in Files}
<1> SUFFICES ASSUME TypeOK, NEW s \in Slot PROVE
       /\ IsFiniteSet(Others(s)) /\ Cardinality(Others(s)) \in Nat
       /\ Others(s) \subseteq Files
       /\ s \in Files =>
             /\ Cardinality(Files) = Cardinality(Others(s)) + 1
             /\ NamesOf(Files) = NamesOf(Others(s)) \cup {dir[s].name}
             /\ Pointed = ClustersOf(Others(s)) \cup {dir[s].cluster}
       /\ s \notin Files => Others(s) = Files
       /\ Pointed = ClustersOf(Files)
       /\ NamesOf(Files) = {dir[r].name : r \in Files}
  OBVIOUS
<1>1. Others(s) \subseteq Files /\ (s \notin Files => Others(s) = Files)
  BY DEF Others
<1>2. IsFiniteSet(Others(s)) /\ Cardinality(Others(s)) \in Nat
  BY <1>1, Finiteness
<1>3. Pointed = ClustersOf(Files) /\ NamesOf(Files) = {dir[r].name : r \in Files}
  BY DEF Pointed, ClustersOf, NamesOf
<1>4. ASSUME s \in Files
      PROVE  /\ Cardinality(Files) = Cardinality(Others(s)) + 1
             /\ NamesOf(Files) = NamesOf(Others(s)) \cup {dir[s].name}
             /\ Pointed = ClustersOf(Others(s)) \cup {dir[s].cluster}
  <2>1. Files = Others(s) \cup {s} /\ s \notin Others(s)
    BY <1>4 DEF Others
  <2>2. Cardinality(Files) = Cardinality(Others(s)) + 1
    BY <1>2, <2>1, FS_AddElement, Zenon
  <2>3. NamesOf(Files) = NamesOf(Others(s)) \cup {dir[s].name}
    BY <2>1 DEF NamesOf
  <2>4. Pointed = ClustersOf(Others(s)) \cup {dir[s].cluster}
    BY <2>1 DEF Pointed, ClustersOf
  <2>5. QED
    BY <2>2, <2>3, <2>4
<1>5. QED
  BY <1>1, <1>2, <1>3, <1>4

\* The sets that the damage counts are finite.
LEMMA Countable ==
    TypeOK =>
       /\ IsFiniteSet(fat[0]) /\ fat[0] \subseteq Cluster
       /\ Duplicates \in Int /\ Duplicates >= 0
       /\ Lost \in Nat /\ Unowned \in Int
       /\ IsFiniteSet(fat[0] \ (Pointed \cup left \cup {ROOT}))
       /\ IsFiniteSet(Pointed \cap fat[0])
       /\ Cardinality(Files) \in Nat /\ Cardinality(Pointed \cap fat[0]) \in Nat
<1> SUFFICES ASSUME TypeOK PROVE
       /\ IsFiniteSet(fat[0]) /\ fat[0] \subseteq Cluster
       /\ Duplicates \in Int /\ Duplicates >= 0
       /\ Lost \in Nat /\ Unowned \in Int
       /\ IsFiniteSet(fat[0] \ (Pointed \cup left \cup {ROOT}))
       /\ IsFiniteSet(Pointed \cap fat[0])
       /\ Cardinality(Files) \in Nat /\ Cardinality(Pointed \cap fat[0]) \in Nat
  OBVIOUS
<1>1. fat[0] \subseteq Cluster
  BY DEF TypeOK
<1>2. IsFiniteSet(fat[0])
  BY <1>1, Finiteness, Subsets
<1>3. \A T \in SUBSET fat[0] : IsFiniteSet(T) /\ Cardinality(T) \in Nat
  BY <1>2, Subsets
<1>4. Cardinality(Files) \in Nat
  BY Finiteness
<1>5. Duplicates \in Int /\ Duplicates >= 0
  <2>1. NamesOf(Files) = {dir[r].name : r \in Files}
    BY DEF NamesOf
  <2>2. Cardinality(NamesOf(Files)) \in Nat /\ Cardinality(NamesOf(Files)) <= Cardinality(Files)
    BY Finiteness
  <2>3. QED
    BY <1>4, <2>1, <2>2 DEF Duplicates
<1>6. /\ fat[0] \ (Pointed \cup left \cup {ROOT}) \in SUBSET fat[0]
      /\ Pointed \cap fat[0] \in SUBSET fat[0]
  OBVIOUS
<1>7. QED
  BY <1>1, <1>2, <1>3, <1>4, <1>5, <1>6 DEF Lost, Unowned

\* find_root_entry has found the name: its file is set apart.
LEMMA SetApart ==
    \A s \in Slot, f \in Nat :
       TypeOK /\ s \in Files /\ Settled(f) => Bounded(s, dir[s].name, dir[s].cluster, f)
<1> SUFFICES ASSUME NEW s \in Slot, NEW f \in Nat, TypeOK, s \in Files, Settled(f)
             PROVE  Bounded(s, dir[s].name, dir[s].cluster, f)
  OBVIOUS
<1> DEFINE c == dir[s].cluster
           C == ClustersOf(Others(s))
<1>1. DoubledBut(s, dir[s].name) = Duplicates
  <2>1. /\ Cardinality(Files) = Cardinality(Others(s)) + 1
        /\ {dir[r].name : r \in Files} = NamesOf(Others(s)) \cup {dir[s].name}
    BY Apart
  <2>2. QED
    BY <2>1, Zenon DEF DoubledBut, Duplicates
<1>2. LostBut(s, c) = Lost
  <2>1. (fat[0] \ {c}) \ (C \cup left \cup {ROOT}) = fat[0] \ (Pointed \cup left \cup {ROOT})
    BY Apart
  <2>2. QED
    BY <2>1 DEF LostBut, Lost
<1>3. UnownedBut(s, c) <= Unowned /\ UnownedBut(s, c) \in Int
  <2>1. IsFiniteSet(C \cap (fat[0] \ {c}))
    <3>1. C \cap (fat[0] \ {c}) \subseteq fat[0]
      OBVIOUS
    <3>2. QED
      BY <3>1, Countable, Subsets
  <2>2. Pointed \cap fat[0] \subseteq (C \cap (fat[0] \ {c})) \cup {c}
    BY Apart
  <2>3. Cardinality(Pointed \cap fat[0]) <= Cardinality(C \cap (fat[0] \ {c})) + 1
        /\ Cardinality(C \cap (fat[0] \ {c})) \in Nat
        /\ Cardinality(Pointed \cap fat[0]) \in Nat
    <3> DEFINE S == C \cap (fat[0] \ {c})
               T == Pointed \cap fat[0]
    <3>1. IsFiniteSet(S) /\ T \subseteq S \cup {c}
      BY <2>1, <2>2
    <3> HIDE DEF S, T, c
    <3>2. Cardinality(T) <= Cardinality(S) + 1 /\ Cardinality(S) \in Nat /\ Cardinality(T) \in Nat
      BY <3>1, OneMore
    <3>3. QED
      BY <3>2 DEF S, T
  <2>4. Cardinality(Files) = Cardinality(Others(s)) + 1 /\ Cardinality(Others(s)) \in Nat
    BY Apart
  <2> DEFINE a == Cardinality(Files)
             b == Cardinality(Others(s))
             p == Cardinality(Pointed \cap fat[0])
             q == Cardinality(C \cap (fat[0] \ {c}))
  <2>5. UnownedBut(s, c) = b - q /\ Unowned = a - p
    BY DEF UnownedBut, Unowned
  <2>6. a = b + 1 /\ b \in Nat /\ p <= q + 1 /\ q \in Nat /\ p \in Nat
    BY <2>3, <2>4
  <2> HIDE DEF a, b, p, q
  <2>7. QED
    BY <2>5, <2>6
<1>4. Lost \in Nat /\ Unowned \in Int /\ Duplicates \in Int
  BY Countable
<1>5. QED
  BY <1>1, <1>2, <1>3, <1>4 DEF Bounded, Settled

\* What the bounds on the damage count is finite.
LEMMA CountableBut ==
    \A s \in Slot, n \in Names, c \in Cluster :
       TypeOK =>
          LET N == NamesOf(Others(s))
              C == ClustersOf(Others(s))
          IN  /\ IsFiniteSet(N) /\ Cardinality(N) \in Nat /\ Cardinality(N) <= Cardinality(Others(s))
              /\ Cardinality(N \cup {n}) \in Nat
              /\ Cardinality(N \cup {n}) <= Cardinality(N) + 1
              /\ n \notin N => Cardinality(N \cup {n}) = Cardinality(N) + 1
              /\ IsFiniteSet(C \cap (fat[0] \ {c})) /\ Cardinality(C \cap (fat[0] \ {c})) \in Nat
              /\ IsFiniteSet((fat[0] \ {c}) \ (C \cup left \cup {ROOT}))
              /\ DoubledBut(s, n) \in Nat /\ LostBut(s, c) \in Nat /\ UnownedBut(s, c) \in Nat
<1> SUFFICES ASSUME NEW s \in Slot, NEW n \in Names, NEW c \in Cluster, TypeOK
             PROVE LET N == NamesOf(Others(s))
                       C == ClustersOf(Others(s))
                   IN  /\ IsFiniteSet(N) /\ Cardinality(N) \in Nat /\ Cardinality(N) <= Cardinality(Others(s))
                       /\ Cardinality(N \cup {n}) \in Nat
                       /\ Cardinality(N \cup {n}) <= Cardinality(N) + 1
                       /\ n \notin N => Cardinality(N \cup {n}) = Cardinality(N) + 1
                       /\ IsFiniteSet(C \cap (fat[0] \ {c})) /\ Cardinality(C \cap (fat[0] \ {c})) \in Nat
                       /\ IsFiniteSet((fat[0] \ {c}) \ (C \cup left \cup {ROOT}))
                       /\ DoubledBut(s, n) \in Nat /\ LostBut(s, c) \in Nat /\ UnownedBut(s, c) \in Nat
  OBVIOUS
<1> DEFINE N == NamesOf(Others(s))
           C == ClustersOf(Others(s))
<1>1. /\ IsFiniteSet(N) /\ Cardinality(N) \in Nat /\ Cardinality(N) <= Cardinality(Others(s))
      /\ IsFiniteSet(C) /\ Cardinality(C) \in Nat /\ Cardinality(C) <= Cardinality(Others(s))
      /\ Cardinality(Others(s)) \in Nat
  <2>1. Others(s) \in SUBSET Files
    BY DEF Others
  <2>2. QED
    BY <2>1, Finiteness
<1> HIDE DEF N, C
<1>2. /\ Cardinality(N \cup {n}) \in Nat
      /\ Cardinality(N \cup {n}) <= Cardinality(N) + 1
      /\ n \notin N => Cardinality(N \cup {n}) = Cardinality(N) + 1
  <2>1. Cardinality(N \cup {n}) = IF n \in N THEN Cardinality(N) ELSE Cardinality(N) + 1
    BY <1>1, FS_AddElement, Zenon
  <2>2. QED
    BY <1>1, <2>1
<1>3. IsFiniteSet(C \cap (fat[0] \ {c})) /\ Cardinality(C \cap (fat[0] \ {c})) \in Nat
      /\ Cardinality(C \cap (fat[0] \ {c})) <= Cardinality(C)
  <2>1. C \cap (fat[0] \ {c}) \subseteq C
    OBVIOUS
  <2>2. QED
    BY <1>1, <2>1, Subsets
<1>4. IsFiniteSet((fat[0] \ {c}) \ (C \cup left \cup {ROOT}))
      /\ Cardinality((fat[0] \ {c}) \ (C \cup left \cup {ROOT})) \in Nat
  <2>1. (fat[0] \ {c}) \ (C \cup left \cup {ROOT}) \subseteq fat[0]
    OBVIOUS
  <2>2. IsFiniteSet(fat[0])
    BY Countable
  <2>3. QED
    BY <2>1, <2>2, Subsets
<1>5. /\ DoubledBut(s, n) = (Cardinality(Others(s)) + 1) - Cardinality(N \cup {n})
      /\ UnownedBut(s, c) = Cardinality(Others(s)) - Cardinality(C \cap (fat[0] \ {c}))
      /\ LostBut(s, c) = Cardinality((fat[0] \ {c}) \ (C \cup left \cup {ROOT}))
  BY Zenon DEF DoubledBut, UnownedBut, LostBut, N, C
<1>6. DoubledBut(s, n) \in Nat
  BY <1>1, <1>2, <1>5
<1>7. UnownedBut(s, c) \in Nat
  BY <1>1, <1>3, <1>5
<1>8. QED
  BY <1>1, <1>2, <1>3, <1>4, <1>5, <1>6, <1>7 DEF N, C

\* The entry is on the disk, with a cluster that is used: the file is one of the
\* others again.
LEMMA PutBack ==
    \A s \in Slot, n \in Names, c \in Cluster, f \in Nat :
       TypeOK /\ s \in Files /\ dir[s].name = n /\ dir[s].cluster = c /\ c \in fat[0]
          /\ Bounded(s, n, c, f) => Settled(f)
<1> SUFFICES ASSUME NEW s \in Slot, NEW n \in Names, NEW c \in Cluster, NEW f \in Nat,
                    TypeOK, s \in Files, dir[s].name = n, dir[s].cluster = c, c \in fat[0],
                    Bounded(s, n, c, f)
             PROVE  Settled(f)
  OBVIOUS
<1> DEFINE C == ClustersOf(Others(s))
<1>1. DoubledBut(s, n) = Duplicates
  <2>1. /\ Cardinality(Files) = Cardinality(Others(s)) + 1
        /\ {dir[r].name : r \in Files} = NamesOf(Others(s)) \cup {n}
    BY Apart
  <2>2. QED
    BY <2>1, Zenon DEF DoubledBut, Duplicates
<1>2. LostBut(s, c) = Lost
  <2>1. (fat[0] \ {c}) \ (C \cup left \cup {ROOT}) = fat[0] \ (Pointed \cup left \cup {ROOT})
    BY Apart
  <2>2. QED
    BY <2>1 DEF LostBut, Lost
<1>3. UnownedBut(s, c) = Unowned
  <2> DEFINE S == C \cap (fat[0] \ {c})
             T == Pointed \cap fat[0]
  <2>1. IsFiniteSet(S) /\ T = S \cup {c} /\ c \notin S
    BY CountableBut, Apart
  <2>2. Cardinality(T) = Cardinality(S) + 1 /\ Cardinality(S) \in Nat
    <3> HIDE DEF S, T
    <3>1. QED
      BY <2>1, FS_AddElement, FS_CardinalityType
  <2>3. Cardinality(Files) = Cardinality(Others(s)) + 1 /\ Cardinality(Others(s)) \in Nat
    BY Apart
  <2>4. UnownedBut(s, c) = Cardinality(Others(s)) - Cardinality(S)
        /\ Unowned = Cardinality(Files) - Cardinality(T)
    BY DEF UnownedBut, Unowned
  <2> HIDE DEF S, T
  <2>5. QED
    BY <2>2, <2>3, <2>4
<1>4. QED
  BY <1>1, <1>2, <1>3 DEF Bounded, Settled

\* The entry is gone, and its cluster free: the others are all there is.
LEMMA Gone ==
    \A s \in Slot, n \in Names, c \in Cluster, f \in Nat :
       TypeOK /\ s \notin Files /\ (c \notin fat[0] \/ c = ROOT) /\ Bounded(s, n, c, f)
          => Settled(f)
<1> SUFFICES ASSUME NEW s \in Slot, NEW n \in Names, NEW c \in Cluster, NEW f \in Nat,
                    TypeOK, s \notin Files, c \notin fat[0] \/ c = ROOT, Bounded(s, n, c, f)
             PROVE  Settled(f)
  OBVIOUS
<1> DEFINE N == NamesOf(Files)
           C == ClustersOf(Files)
           S == C \cap (fat[0] \ {c})
           T == C \cap fat[0]
<1>1. Others(s) = Files /\ Pointed = C /\ N = {dir[r].name : r \in Files}
  BY Apart
<1>2. Lost = LostBut(s, c)
  <2>1. (fat[0] \ {c}) \ (C \cup left \cup {ROOT}) = fat[0] \ (C \cup left \cup {ROOT})
    OBVIOUS
  <2>2. QED
    BY <1>1, <2>1 DEF LostBut, Lost
<1>3. Duplicates <= DoubledBut(s, n) /\ Duplicates \in Int /\ DoubledBut(s, n) \in Nat
  <2>1. Cardinality(N \cup {n}) <= Cardinality(N) + 1 /\ Cardinality(N \cup {n}) \in Nat
        /\ Cardinality(N) \in Nat /\ DoubledBut(s, n) \in Nat
    BY <1>1, CountableBut
  <2>2. Cardinality(Files) \in Nat
    BY Finiteness
  <2>3. DoubledBut(s, n) = (Cardinality(Files) + 1) - Cardinality(N \cup {n})
        /\ Duplicates = Cardinality(Files) - Cardinality(N)
    BY <1>1, Zenon DEF DoubledBut, Duplicates
  <2> HIDE DEF N
  <2>4. QED
    BY <2>1, <2>2, <2>3
<1>4. Unowned <= UnownedBut(s, c) /\ Unowned \in Int /\ UnownedBut(s, c) \in Nat
  <2>1. IsFiniteSet(T) /\ S \subseteq T
    BY <1>1, Countable
  <2>2. Cardinality(S) <= Cardinality(T) /\ Cardinality(S) \in Nat /\ Cardinality(T) \in Nat
    <3> HIDE DEF S, T
    <3>1. QED
      BY <2>1, Subsets
  <2>3. Cardinality(Files) \in Nat /\ UnownedBut(s, c) \in Nat
    BY Finiteness, CountableBut
  <2>4. UnownedBut(s, c) = Cardinality(Files) - Cardinality(S)
        /\ Unowned = Cardinality(Files) - Cardinality(T)
    BY <1>1, Zenon DEF UnownedBut, Unowned
  <2> HIDE DEF S, T
  <2>5. QED
    BY <2>2, <2>3, <2>4
<1>5. Lost \in Nat
  BY Countable
<1> HIDE DEF N, C, S, T
<1>6. QED
  BY <1>2, <1>3, <1>4, <1>5 DEF Bounded, Settled

\* A command that ends anywhere leaves at most one more cluster that nobody points
\* to, and one more file whose cluster is not its own.
LEMMA CutShort ==
    \A s \in Slot, n \in Names, c \in Cluster, f \in Nat :
       TypeOK /\ (s \in Files => dir[s].name = n) /\ Bounded(s, n, c, f) => Settled(f + 1)
<1> SUFFICES ASSUME NEW s \in Slot, NEW n \in Names, NEW c \in Cluster, NEW f \in Nat,
                    TypeOK, s \in Files => dir[s].name = n, Bounded(s, n, c, f)
             PROVE  Settled(f + 1)
  OBVIOUS
<1> DEFINE N == NamesOf(Others(s))
           C == ClustersOf(Others(s))
           S == C \cap (fat[0] \ {c})
           T == Pointed \cap fat[0]
           K == (fat[0] \ {c}) \ (C \cup left \cup {ROOT})
           L == fat[0] \ (Pointed \cup left \cup {ROOT})
<1>1. Lost <= LostBut(s, c) + 1 /\ Lost \in Nat /\ LostBut(s, c) \in Nat
  <2>1. C \subseteq Pointed
    BY Apart
  <2>2. IsFiniteSet(K) /\ L \subseteq K \cup {c}
    BY <2>1, CountableBut
  <2>3. Lost = Cardinality(L) /\ LostBut(s, c) = Cardinality(K)
    BY Zenon DEF Lost, LostBut
  <2> HIDE DEF K, L
  <2>4. QED
    BY <2>2, <2>3, OneMore
<1>2. Duplicates <= DoubledBut(s, n) /\ Duplicates \in Int /\ DoubledBut(s, n) \in Nat
  <2>1. CASE s \in Files
    <3>1. /\ Cardinality(Files) = Cardinality(Others(s)) + 1
          /\ {dir[r].name : r \in Files} = NamesOf(Others(s)) \cup {n}
      BY <2>1, Apart
    <3>2. DoubledBut(s, n) = Duplicates
      BY <3>1, Zenon DEF DoubledBut, Duplicates
    <3>3. DoubledBut(s, n) \in Nat
      BY CountableBut, Zenon
    <3>4. QED
      BY <3>2, <3>3
  <2>2. CASE s \notin Files
    <3>1. Others(s) = Files /\ N = {dir[r].name : r \in Files}
      BY <2>2, Apart
    <3>2. Cardinality(N \cup {n}) <= Cardinality(N) + 1 /\ Cardinality(N \cup {n}) \in Nat
          /\ Cardinality(N) \in Nat /\ DoubledBut(s, n) \in Nat
      BY CountableBut
    <3>3. Cardinality(Files) \in Nat
      BY Finiteness
    <3>4. DoubledBut(s, n) = (Cardinality(Files) + 1) - Cardinality(N \cup {n})
          /\ Duplicates = Cardinality(Files) - Cardinality(N)
      BY <3>1, Zenon DEF DoubledBut, Duplicates
    <3> HIDE DEF N
    <3>5. QED
      BY <3>2, <3>3, <3>4
  <2>3. QED
    BY <2>1, <2>2
<1>3. Unowned <= UnownedBut(s, c) + 1 /\ Unowned \in Int /\ UnownedBut(s, c) \in Nat
  <2>1. IsFiniteSet(T) /\ S \subseteq T
    BY Apart, Countable
  <2>2. Cardinality(S) <= Cardinality(T) /\ Cardinality(S) \in Nat /\ Cardinality(T) \in Nat
    <3> HIDE DEF S, T
    <3>1. QED
      BY <2>1, Subsets
  <2>3. Cardinality(Files) <= Cardinality(Others(s)) + 1 /\ Cardinality(Files) \in Nat
        /\ Cardinality(Others(s)) \in Nat /\ UnownedBut(s, c) \in Nat
    <3>1. Cardinality(Others(s)) \in Nat /\ Cardinality(Files) \in Nat
      BY Apart, Countable, Zenon
    <3>2. UnownedBut(s, c) \in Nat
      BY CountableBut, Zenon
    <3>3. Cardinality(Files) = Cardinality(Others(s)) + 1 \/ Others(s) = Files
      BY Apart, Zenon
    <3>4. QED
      BY <3>1, <3>2, <3>3
  <2>4. UnownedBut(s, c) = Cardinality(Others(s)) - Cardinality(S)
        /\ Unowned = Cardinality(Files) - Cardinality(T)
    BY Zenon DEF UnownedBut, Unowned
  <2> HIDE DEF S, T
  <2>5. QED
    BY <2>2, <2>3, <2>4
<1> HIDE DEF N, C, S, T, K, L
<1>4. QED
  BY <1>1, <1>2, <1>3 DEF Bounded, Settled

\* alloc_cluster gives the file a cluster that was free, in place of one that is.
LEMMA NewCluster ==
    \A s \in Slot, n \in Names, c, d \in Cluster, f \in Nat :
       TypeOK /\ (c \notin fat[0] \/ c = ROOT) /\ d \notin fat[0] /\ Bounded(s, n, c, f)
          => Bounded(s, n, d, f)
<1> SUFFICES ASSUME NEW s \in Slot, NEW n \in Names, NEW c \in Cluster, NEW d \in Cluster,
                    NEW f \in Nat,
                    TypeOK, c \notin fat[0] \/ c = ROOT, d \notin fat[0], Bounded(s, n, c, f)
             PROVE  Bounded(s, n, d, f)
  OBVIOUS
<1> DEFINE C == ClustersOf(Others(s))
           S == C \cap (fat[0] \ {c})
           T == C \cap (fat[0] \ {d})
<1>1. LostBut(s, d) = LostBut(s, c)
  <2>1. (fat[0] \ {c}) \ (C \cup left \cup {ROOT}) = (fat[0] \ {d}) \ (C \cup left \cup {ROOT})
    OBVIOUS
  <2>2. QED
    BY <2>1 DEF LostBut
<1>2. UnownedBut(s, d) <= UnownedBut(s, c) /\ UnownedBut(s, c) \in Nat /\ UnownedBut(s, d) \in Nat
  <2>1. IsFiniteSet(T) /\ S \subseteq T
    BY CountableBut
  <2>2. Cardinality(S) <= Cardinality(T) /\ Cardinality(S) \in Nat /\ Cardinality(T) \in Nat
    <3> HIDE DEF S, T
    <3>1. QED
      BY <2>1, Subsets
  <2>3. Cardinality(Others(s)) \in Nat /\ UnownedBut(s, c) \in Nat /\ UnownedBut(s, d) \in Nat
    BY Apart, CountableBut
  <2>4. UnownedBut(s, c) = Cardinality(Others(s)) - Cardinality(S)
        /\ UnownedBut(s, d) = Cardinality(Others(s)) - Cardinality(T)
    BY Zenon DEF UnownedBut
  <2> HIDE DEF S, T
  <2>5. QED
    BY <2>2, <2>3, <2>4
<1>3. LostBut(s, c) \in Nat /\ DoubledBut(s, n) \in Nat
  BY CountableBut
<1>4. QED
  BY <1>1, <1>2, <1>3 DEF Bounded

\* A new name gets a slot that is free, and has no cluster yet; when the name was
\* there, and misread, it is there twice in the end.
LEMMA NewName ==
    \A s \in Slot, n \in Names, f \in Nat :
       TypeOK /\ s \notin Files /\ ROOT \notin Pointed /\ Settled(f)
          => /\ Bounded(s, n, ROOT, f + 1)
             /\ n \notin NamesOf(Files) => Bounded(s, n, ROOT, f)
<1> SUFFICES ASSUME NEW s \in Slot, NEW n \in Names, NEW f \in Nat,
                    TypeOK, s \notin Files, ROOT \notin Pointed, Settled(f)
             PROVE  /\ Bounded(s, n, ROOT, f + 1)
                    /\ n \notin NamesOf(Files) => Bounded(s, n, ROOT, f)
  OBVIOUS
<1> DEFINE N == NamesOf(Files)
           C == ClustersOf(Files)
<1>1. Others(s) = Files /\ Pointed = C /\ N = {dir[r].name : r \in Files}
  BY Apart
<1>2. LostBut(s, ROOT) = Lost
  <2>1. (fat[0] \ {ROOT}) \ (C \cup left \cup {ROOT}) = fat[0] \ (C \cup left \cup {ROOT})
    OBVIOUS
  <2>2. QED
    BY <1>1, <2>1 DEF LostBut, Lost
<1>3. UnownedBut(s, ROOT) = Unowned
  <2>1. C \cap (fat[0] \ {ROOT}) = C \cap fat[0]
    BY <1>1
  <2>2. QED
    BY <1>1, <2>1 DEF UnownedBut, Unowned
<1>4. /\ DoubledBut(s, n) \in Nat /\ Duplicates \in Int
      /\ DoubledBut(s, n) <= Duplicates + 1
      /\ n \notin N => DoubledBut(s, n) = Duplicates
  <2>1. /\ Cardinality(N \cup {n}) \in Nat /\ Cardinality(N) \in Nat
        /\ n \notin N => Cardinality(N \cup {n}) = Cardinality(N) + 1
        /\ DoubledBut(s, n) \in Nat
    BY <1>1, CountableBut, RootIsCluster
  <2>2. Cardinality(N) <= Cardinality(N \cup {n})
    <3>1. N \subseteq N \cup {n} /\ IsFiniteSet(N)
      BY Finiteness
    <3> HIDE DEF N
    <3>2. IsFiniteSet(N \cup {n})
      BY <3>1, FS_AddElement, Zenon
    <3>3. QED
      BY <3>1, <3>2, Subsets
  <2>3. Cardinality(Files) \in Nat
    BY Finiteness
  <2>4. DoubledBut(s, n) = (Cardinality(Files) + 1) - Cardinality(N \cup {n})
        /\ Duplicates = Cardinality(Files) - Cardinality(N)
    BY <1>1, Zenon DEF DoubledBut, Duplicates
  <2> HIDE DEF N
  <2>5. QED
    BY <2>1, <2>2, <2>3, <2>4
<1>5. Lost \in Nat /\ Unowned \in Int
  BY Countable
<1> HIDE DEF N, C
<1>6. QED
  BY <1>2, <1>3, <1>4, <1>5 DEF Bounded, Settled, N

\* Nothing of this changes as long as the other files and the other clusters do not.
LEMMA OthersSame ==
    ASSUME NEW s \in Slot, NEW n \in Names, NEW c \in Cluster, NEW f \in Nat,
           Bounded(s, n, c, f), Files' \ {s} = Files \ {s},
           \A r \in Files \ {s} : dir'[r] = dir[r],
           fat'[0] \ {c} = fat[0] \ {c}, left' = left
    PROVE  Bounded(s, n, c, f)'
<1>1. Others(s)' = Others(s)
  BY DEF Others
<1>2. ClustersOf(Others(s))' = ClustersOf(Others(s))
  BY <1>1 DEF ClustersOf, Others
<1>3. NamesOf(Others(s))' = NamesOf(Others(s))
  BY <1>1 DEF NamesOf, Others
<1>4. LostBut(s, c)' = LostBut(s, c) /\ UnownedBut(s, c)' = UnownedBut(s, c)
      /\ DoubledBut(s, n)' = DoubledBut(s, n)
  BY <1>1, <1>2, <1>3 DEF LostBut, UnownedBut, DoubledBut
<1>5. QED
  BY <1>4 DEF Bounded

-----------------------------------------------------------------------------
(* What the sector writes of a command on a file do.                       *)

LEMMA FileCallTypes ==
    TypeOK /\ call.pc \in FilePcs =>
       /\ call \in FileCalls /\ call.op \in {"write", "remove"}
       /\ call.slot \in Slot /\ call.name \in Names /\ call.cluster \in Cluster
       /\ call.op = "remove" => call.pc \in RemovePcs
       /\ call.op = "write" => call.pc \in WritePcs
       /\ faults \in Nat
<1> SUFFICES ASSUME TypeOK, call.pc \in FilePcs PROVE
       /\ call \in FileCalls /\ call.op \in {"write", "remove"}
       /\ call.slot \in Slot /\ call.name \in Names /\ call.cluster \in Cluster
       /\ call.op = "remove" => call.pc \in RemovePcs
       /\ call.op = "write" => call.pc \in WritePcs
       /\ faults \in Nat
  OBVIOUS
<1>1. call \in FileCalls
  BY CallShapes DEF FilePcs
<1>2. faults \in Nat
  BY DEF TypeOK
<1>3. QED
  BY <1>1, <1>2 DEF FileCalls

LEMMA FatEffect ==
    ASSUME TypeOK, NEW k \in {0, 1}, NEW c \in Cluster, NEW S, WriteFat(k, c, S)
    PROVE  /\ fat'[k] = (fat[k] \ SectorOf(c)) \cup (S \cap SectorOf(c))
           /\ \A j \in {0, 1} \ {k} : fat'[j] = fat[j]
           /\ dir' = dir
           /\ c \in SectorOf(c)
<1>1. fat \in [{0, 1} -> SUBSET Cluster]
  BY DEF TypeOK
<1>2. c \in SectorOf(c)
  BY DEF SectorOf
<1>3. QED
  BY <1>1, <1>2 DEF WriteFat

LEMMA FileEffects ==
    ASSUME TypeOK, call.pc \in FilePcs, SectorWrite, call.pc = "data" => call.cluster # ROOT
    PROVE  LET s == call.slot
               c == call.cluster
           IN  /\ call.pc = "free0" => fat'[0] = fat[0] \ {c} /\ dir' = dir
               /\ call.pc = "take0" => fat'[0] = fat[0] \cup {c} /\ dir' = dir
               /\ call.pc \in {"free1", "take1", "data"} => fat'[0] = fat[0] /\ dir' = dir
               /\ call.pc = "entry" => fat' = fat /\ dir' = [dir EXCEPT ![s] = File(call.name, c)]
               /\ call.pc = "mark" => fat' = fat /\ dir' = [dir EXCEPT ![s] = Deleted]
               /\ call.pc \in {"free0", "take0", "free1", "take1", "entry", "data", "mark"}
<1> DEFINE s == call.slot
           c == call.cluster
<1>1. c \in Cluster /\ s \in Slot
  BY FileCallTypes
<1>2. /\ call.pc = "free0" => WriteFat(0, c, fat[0] \ {c})
      /\ call.pc = "take0" => WriteFat(0, c, fat[0] \cup {c})
      /\ call.pc \in {"free1", "take1"} => WriteFat(1, c, fat[0])
      /\ call.pc = "data" => dir' = dir /\ fat' = fat
      /\ call.pc = "entry" => fat' = fat /\ dir' = [dir EXCEPT ![s] = File(call.name, c)]
      /\ call.pc = "mark" => fat' = fat /\ dir' = [dir EXCEPT ![s] = Deleted]
      /\ call.pc \in {"free0", "take0", "free1", "take1", "entry", "data", "mark"}
  BY DEF SectorWrite, WriteFormat, SetFat, WriteFile, MarkDeleted, At, FilePcs, WritePcs, RemovePcs
<1>3. ASSUME call.pc = "free0" PROVE fat'[0] = fat[0] \ {c} /\ dir' = dir
  <2>1. /\ fat'[0] = (fat[0] \ SectorOf(c)) \cup ((fat[0] \ {c}) \cap SectorOf(c))
        /\ dir' = dir /\ c \in SectorOf(c)
    BY <1>1, <1>2, <1>3, FatEffect
  <2>2. QED
    BY <2>1
<1>4. ASSUME call.pc = "take0" PROVE fat'[0] = fat[0] \cup {c} /\ dir' = dir
  <2>1. /\ fat'[0] = (fat[0] \ SectorOf(c)) \cup ((fat[0] \cup {c}) \cap SectorOf(c))
        /\ dir' = dir /\ c \in SectorOf(c)
    BY <1>1, <1>2, <1>4, FatEffect
  <2>2. QED
    BY <2>1
<1>5. ASSUME call.pc \in {"free1", "take1"} PROVE fat'[0] = fat[0] /\ dir' = dir
  BY <1>1, <1>2, <1>5, FatEffect
<1>6. QED
  BY <1>2, <1>3, <1>4, <1>5

\* Whatever a command has written, or not, the others are as they were, and the
\* entry of its slot has its name.
LEMMA FileWriteBounded ==
    ASSUME IInv, formatted, Underway, call.pc \in FilePcs,
           SectorWrite \/ UNCHANGED disk, left' = left,
           NEW s \in Slot, NEW n \in Names, NEW c \in Cluster, NEW f \in Nat,
           s = call.slot, n = call.name, c = call.cluster, f = faults
    PROVE  Bounded(s, n, c, f)' /\ (s \in Files => dir[s].name = n)'
<1>1. TypeOK /\ Bounded(s, n, c, f) /\ (s \in Files => dir[s].name = n)
  BY DEF IInv, Underway
<1>2. call.pc = "data" => c # ROOT
  BY DEF IInv, Aimed, WritePcs, RemovePcs
<1>3. CASE UNCHANGED disk
  <2>1. Files' = Files /\ dir' = dir /\ fat' = fat
    BY <1>3 DEF disk, Files
  <2>2. QED
    BY <1>1, <2>1, OthersSame
<1>4. CASE SectorWrite
  <2>1. fat'[0] \ {c} = fat[0] \ {c}
    BY <1>1, <1>2, <1>4, FileEffects
  <2>2. \/ dir' = dir
        \/ dir' = [dir EXCEPT ![s] = File(n, c)]
        \/ dir' = [dir EXCEPT ![s] = Deleted]
    BY <1>1, <1>2, <1>4, FileEffects
  <2>3. dir \in [Slot -> Entries]
    BY <1>1 DEF TypeOK
  <2>4. /\ \A r \in Slot \ {s} : dir'[r] = dir[r]
        /\ dir'[s] \in {dir[s], File(n, c), Deleted}
    BY <2>2, <2>3
  <2>5. Files' \ {s} = Files \ {s}
    BY <2>4 DEF Files
  <2>6. Bounded(s, n, c, f)'
    BY <1>1, <2>1, <2>4, <2>5, OthersSame DEF Files
  <2>7. (s \in Files => dir[s].name = n)'
    BY <1>1, <2>4, Kinds DEF Files
  <2>8. QED
    BY <2>6, <2>7
<1>5. QED
  BY <1>3, <1>4

-----------------------------------------------------------------------------
(* The accounts are kept by every step.                                    *)

LEMMA SettledMore == \A f \in Nat : TypeOK /\ Settled(f) => Settled(f + 1)
<1> SUFFICES ASSUME NEW f \in Nat, TypeOK, Settled(f) PROVE Settled(f + 1)
  OBVIOUS
<1>1. Lost \in Nat /\ Duplicates \in Int /\ Unowned \in Int
  BY Countable
<1>2. QED
  BY <1>1 DEF Settled

LEMMA SettledSame ==
    ASSUME NEW f \in Nat, Settled(f), UNCHANGED disk, left' = left
    PROVE  Settled(f)'
<1>1. Files' = Files /\ Pointed' = Pointed /\ dir' = dir /\ fat' = fat
  BY DEF disk, Files, Pointed
<1>2. Lost' = Lost /\ Unowned' = Unowned /\ Duplicates' = Duplicates
  BY <1>1 DEF Lost, Unowned, Duplicates
<1>3. QED
  BY <1>2 DEF Settled

LEMMA NoDamage ==
    TypeOK /\ Files = {} /\ left = fat[0] => Settled(faults)
<1> SUFFICES ASSUME TypeOK, Files = {}, left = fat[0] PROVE Settled(faults)
  OBVIOUS
<1>1. /\ fat[0] \ (Pointed \cup left \cup {ROOT}) = {}
      /\ {dir[s].name : s \in Files} = {} /\ Pointed \cap fat[0] = {}
  BY DEF Pointed
<1>2. Lost = 0 /\ Duplicates = 0 /\ Unowned = 0
  BY <1>1, FS_EmptySet DEF Lost, Duplicates, Unowned
<1>3. faults \in Nat
  BY DEF TypeOK
<1>4. QED
  BY <1>2, <1>3 DEF Settled

\* The same facts in the state after a step.
LEMMA CutShortAfter ==
    (\A s \in Slot, n \in Names, c \in Cluster, f \in Nat :
       TypeOK /\ (s \in Files => dir[s].name = n) /\ Bounded(s, n, c, f) => Settled(f + 1))'
  BY CutShort, PTL

LEMMA PutBackAfter ==
    (\A s \in Slot, n \in Names, c \in Cluster, f \in Nat :
       TypeOK /\ s \in Files /\ dir[s].name = n /\ dir[s].cluster = c /\ c \in fat[0]
          /\ Bounded(s, n, c, f) => Settled(f))'
  BY PutBack, PTL

LEMMA GoneAfter ==
    (\A s \in Slot, n \in Names, c \in Cluster, f \in Nat :
       TypeOK /\ s \notin Files /\ (c \notin fat[0] \/ c = ROOT) /\ Bounded(s, n, c, f)
          => Settled(f))'
  BY Gone, PTL

LEMMA NoDamageAfter == (TypeOK /\ Files = {} /\ left = fat[0] => Settled(faults))'
  BY NoDamage, PTL

LEMMA BoundedCall ==
    \A s, n, c, f :
       s = call.slot /\ n = call.name /\ c = call.cluster /\ f = faults /\ Bounded(s, n, c, f)
          => Bounded(call.slot, call.name, call.cluster, faults)
  OBVIOUS

LEMMA BoundedCallAfter ==
    (\A s, n, c, f :
       s = call.slot /\ n = call.name /\ c = call.cluster /\ f = faults /\ Bounded(s, n, c, f)
          => Bounded(call.slot, call.name, call.cluster, faults))'
  BY BoundedCall, PTL

LEMMA SettledNow == \A f : f = faults /\ Settled(f) => Settled(faults)
  OBVIOUS

LEMMA SettledAfter == (\A f : f = faults /\ Settled(f) => Settled(faults))'
  BY SettledNow, PTL

\* A command ends by a fault.
LEMMA CutAccounts ==
    ASSUME IInv, IInv', Accounts, formatted, UNCHANGED made, faults' = faults + 1,
           SectorWrite \/ UNCHANGED disk, call.pc \in {"idle", "find"} => UNCHANGED disk,
           call.pc \in {"idle", "find"} \cup FilePcs, call'.pc = "idle"
    PROVE  Accounts'
<1>1. TypeOK /\ TypeOK' /\ left' = left /\ faults \in Nat
  BY DEF IInv, TypeOK, made
<1>2. Settled(faults)'
  <2>1. PICK f \in Nat : f = faults
    BY <1>1
  <2>2. CASE call.pc \in {"idle", "find"}
    <3>1. Settled(f + 1)
      BY <1>1, <2>1, <2>2, SettledMore DEF Accounts
    <3>2. Settled(f + 1)'
      BY <1>1, <2>2, <3>1, SettledSame
    <3>3. QED
      BY <2>1, <3>2, SettledAfter
  <2>3. CASE call.pc \in FilePcs
    <3>1. PICK s \in Slot, n \in Names, c \in Cluster :
             s = call.slot /\ n = call.name /\ c = call.cluster
      BY <1>1, <2>3, FileCallTypes
    <3>2. Underway
      BY <2>3 DEF Accounts
    <3>3. Bounded(s, n, c, f)' /\ (s \in Files => dir[s].name = n)'
      BY <1>1, <2>1, <2>3, <3>1, <3>2, FileWriteBounded
    <3>4. Settled(f + 1)'
      BY <1>1, <3>3, CutShortAfter
    <3>5. QED
      BY <2>1, <3>4, SettledAfter
  <2>4. QED
    BY <2>2, <2>3
<1>3. call'.pc \notin FilePcs
  BY DEF FilePcs, WritePcs, RemovePcs
<1>4. QED
  BY <1>2, <1>3 DEF Accounts

LEMMA PcKinds ==
    TypeOK => call.pc \in {"idle", "find"} \cup FormatPcs \cup FilePcs
  BY CallShapes DEF FilePcs, FileCalls, Idle

\* Nothing but the command changes, and it works on no file before or after.
LEMMA QuietAccounts ==
    ASSUME IInv, Accounts, UNCHANGED <<disk, made, faults>>, call.pc \in {"idle", "find"},
           call'.pc \in {"idle", "find"}
    PROVE  Accounts'
<1>1. CASE ~formatted
  BY <1>1 DEF Accounts, made
<1>2. CASE formatted
  <2>1. PICK f \in Nat : f = faults
    BY DEF IInv, TypeOK
  <2>2. Settled(f)
    BY <1>2, <2>1 DEF Accounts
  <2>3. Settled(f)'
    BY <2>2, SettledSame DEF made
  <2>4. Settled(faults)'
    BY <2>1, <2>3, SettledAfter
  <2>5. QED
    BY <2>4 DEF Accounts, FilePcs, WritePcs, RemovePcs
<1>3. QED
  BY <1>1, <1>2

LEMMA FindAccounts == IInv /\ IInv' /\ Accounts /\ Find => Accounts'
<1> SUFFICES ASSUME IInv, IInv', Accounts, Find, formatted PROVE Accounts'
  BY DEF Accounts, Find, made
<1>1. TypeOK /\ At("find") /\ UNCHANGED <<disk, made, faults>>
  BY DEF IInv, Find
<1>2. call.op \in {"write", "remove"} /\ call.name \in Names
  BY <1>1, CallShapes DEF At
<1>3. Least(SlotsOf(call.name)) \in SlotsOf(call.name)
  <2>1. SlotsOf(call.name) \in SUBSET Nat /\ SlotsOf(call.name) # {}
    BY LayoutAssumption DEF Find, SlotsOf, Slot
  <2>2. QED
    BY <2>1, LeastIs
<1>4. PICK s \in Slot : s = Least(SlotsOf(call.name)) /\ s \in Files /\ dir[s].name = call.name
  BY <1>3 DEF SlotsOf, InUse, Files
<1>5. call' = Local("free0", s, dir[s].cluster)
  BY <1>4 DEF Find
<1>6. /\ call'.pc = "free0" /\ call'.slot = s /\ call'.name = call.name
      /\ call'.cluster = dir[s].cluster /\ call'.op = call.op
  BY <1>5 DEF Local
<1>7. PICK c \in Cluster, n \in Names, f \in Nat :
         c = dir[s].cluster /\ n = call.name /\ f = faults
  BY <1>1, <1>2, <1>4, EntryOf DEF Files, TypeOK
<1>8. Settled(f)
  BY <1>1, <1>7 DEF Accounts, At
<1>9. Bounded(s, n, c, f)
  BY <1>1, <1>4, <1>7, <1>8, SetApart
<1>10. Files' = Files /\ dir' = dir /\ fat' = fat /\ left' = left /\ faults' = faults
  BY <1>1 DEF disk, made, Files
<1>11. Bounded(s, n, c, f)'
  BY <1>9, <1>10, OthersSame
<1>12. Bounded(call.slot, call.name, call.cluster, faults)'
  BY <1>6, <1>7, <1>10, <1>11, BoundedCallAfter
<1>13. Underway'
  BY <1>4, <1>6, <1>10, <1>12 DEF Underway
<1>14. QED
  BY <1>6, <1>13 DEF Accounts

LEMMA FindMissesAccounts == IInv /\ IInv' /\ Accounts /\ FindMisses => Accounts'
<1> SUFFICES ASSUME IInv, IInv', Accounts, FindMisses, formatted PROVE Accounts'
  BY DEF Accounts, FindMisses, NotFound, made
<1>1. TypeOK /\ At("find") /\ UNCHANGED <<disk, made>> /\ call.pc = "find" /\ left' = left
  BY DEF IInv, FindMisses, NotFound, At, made
<1>2. call.op \in {"write", "remove"} /\ call.name \in Names
  BY <1>1, CallShapes
<1>3. CASE call' = Idle("failed")
  <2>1. call'.pc = "idle"
    BY <1>3 DEF Idle
  <2>2. CASE faults' = faults
    BY <1>1, <2>1, <2>2, QuietAccounts
  <2>3. CASE faults' = faults + 1
    BY <1>1, <2>1, <2>3, CutAccounts
  <2>4. QED
    BY <2>2, <2>3 DEF FindMisses
<1>4. CASE call.op = "write" /\ FreeSlots # {} /\ call' = Local("alloc", Least(FreeSlots), ROOT)
  <2>1. PICK s \in Slot : s = Least(FreeSlots) /\ dir[s] \in {End, Deleted}
    <3>1. FreeSlots \in SUBSET Nat /\ FreeSlots # {}
      BY <1>4, LayoutAssumption DEF FreeSlots, Slot
    <3>2. Least(FreeSlots) \in FreeSlots
      BY <3>1, LeastIs
    <3>3. QED
      BY <3>2 DEF FreeSlots
  <2>2. s \notin Files
    BY <2>1, Kinds DEF Files
  <2>3. /\ call'.pc = "alloc" /\ call'.slot = s /\ call'.name = call.name
        /\ call'.cluster = ROOT /\ call'.op = "write"
    BY <1>4, <2>1 DEF Local
  <2>4. PICK n \in Names, f \in Nat : n = call.name /\ f = faults
    BY <1>1, <1>2 DEF TypeOK
  <2>5. Settled(f)
    BY <1>1, <2>4 DEF Accounts
  <2>6. ROOT \notin Pointed
    BY DEF IInv, RootDir, Pointed, Files
  <2>7. /\ Bounded(s, n, ROOT, f + 1)
        /\ n \notin NamesOf(Files) => Bounded(s, n, ROOT, f)
    BY <1>1, <2>2, <2>5, <2>6, NewName
  <2>8. SlotsOf(n) = {} => n \notin NamesOf(Files)
    BY Reached DEF NothingHidden, NamesOf, SlotsOf, Files
  <2>9. PICK g \in Nat : g = faults' /\ Bounded(s, n, ROOT, g)
    BY <2>4, <2>7, <2>8 DEF FindMisses
  <2>10. Files' = Files /\ dir' = dir /\ fat' = fat
    BY <1>1 DEF disk, Files
  <2>11. Bounded(s, n, ROOT, g)'
    BY <1>1, <2>9, <2>10, OthersSame, RootIsCluster
  <2>12. Bounded(call.slot, call.name, call.cluster, faults)'
    <3>1. ROOT' = ROOT
      BY DEF ROOT
    <3>2. QED
      BY <2>3, <2>4, <2>9, <2>11, <3>1, BoundedCallAfter
  <2>13. Underway'
    BY <2>2, <2>3, <2>10, <2>12 DEF Underway
  <2>14. QED
    BY <2>3, <2>13 DEF Accounts
<1>5. QED
  BY <1>3, <1>4 DEF FindMisses, NotFound

LEMMA FailAccounts ==
    IInv /\ IInv' /\ Accounts /\ (FindFails \/ WriteFails \/ PowerCut) => Accounts'
<1> SUFFICES ASSUME IInv, IInv', Accounts, FindFails \/ WriteFails \/ PowerCut, formatted
             PROVE  Accounts'
  BY DEF Accounts, FindFails, WriteFails, PowerCut, Fail, made
<1>1. UNCHANGED made /\ call'.pc = "idle"
  BY DEF FindFails, WriteFails, PowerCut, Fail, Idle
<1>2. call.pc \in {"idle", "find"} \cup FilePcs
  BY PcKinds DEF IInv, Formatting
<1>3. CASE FindFails
  BY <1>1, <1>2, <1>3, CutAccounts DEF FindFails, At
<1>4. CASE WriteFails
  <2>1. call.pc \notin {"idle", "find"}
    BY <1>4 DEF WriteFails, After
  <2>2. QED
    BY <1>1, <1>2, <1>4, <2>1, CutAccounts DEF WriteFails
<1>5. CASE PowerCut /\ ~At("idle")
  BY <1>1, <1>2, <1>5, CutAccounts DEF PowerCut
<1>6. CASE PowerCut /\ At("idle")
  BY <1>1, <1>6, QuietAccounts DEF PowerCut, At
<1>7. QED
  BY <1>3, <1>4, <1>5, <1>6

LEMMA AllocFailsAccounts == IInv /\ IInv' /\ Accounts /\ AllocFails => Accounts'
<1> SUFFICES ASSUME IInv, IInv', Accounts, AllocFails, formatted PROVE Accounts'
  BY DEF Accounts, AllocFails, Fail, made
<1>1. TypeOK /\ TypeOK' /\ UNCHANGED <<disk, made>> /\ call.pc = "alloc" /\ call'.pc = "idle"
      /\ left' = left
  BY DEF IInv, AllocFails, Fail, At, Idle, made
<1>2. call.pc \in FilePcs
  BY <1>1 DEF FilePcs, WritePcs
<1>3. CASE faults' = faults + 1
  BY <1>1, <1>2, <1>3, CutAccounts
<1>4. CASE FreeClusters = {} /\ faults' = faults
  <2>1. PICK s \in Slot, n \in Names, c \in Cluster, f \in Nat :
           s = call.slot /\ n = call.name /\ c = call.cluster /\ f = faults
    BY <1>1, <1>2, FileCallTypes
  <2>2. Underway
    BY <1>2 DEF Accounts
  <2>3. c = ROOT /\ s \notin Files
    BY <1>1, <1>4, <2>1, <2>2 DEF Underway, FreeClusters
  <2>4. Bounded(s, n, c, f)'
    BY <1>1, <1>2, <2>1, <2>2, FileWriteBounded
  <2>5. s \notin Files'
    BY <1>1, <2>3 DEF disk, Files
  <2>6. Settled(f)'
    BY <1>1, <2>3, <2>4, <2>5, GoneAfter DEF ROOT
  <2>7. Settled(faults)'
    BY <1>4, <2>1, <2>6, SettledAfter
  <2>8. QED
    BY <1>1, <2>7 DEF Accounts, FilePcs, WritePcs, RemovePcs
<1>5. QED
  BY <1>3, <1>4 DEF AllocFails

LEMMA AllocAccounts == IInv /\ IInv' /\ Accounts /\ Alloc => Accounts'
<1> SUFFICES ASSUME IInv, IInv', Accounts, Alloc, formatted PROVE Accounts'
  BY DEF Accounts, Alloc, made
<1>1. TypeOK /\ UNCHANGED <<disk, made>> /\ call.pc = "alloc" /\ left' = left
  BY DEF IInv, Alloc, At, made
<1>2. call.pc \in FilePcs
  BY <1>1 DEF FilePcs, WritePcs
<1>3. Underway
  BY <1>2 DEF Accounts
<1>4. PICK d \in FreeClusters :
         /\ call' = [call EXCEPT !.pc = "take0", !.cluster = d]
         /\ faults' \in {faults, faults + 1}
  BY DEF Alloc
<1>5. d \in Cluster /\ d \notin fat[0]
  BY DEF FreeClusters
<1>6. PICK s \in Slot, n \in Names, c \in Cluster, f \in Nat :
         s = call.slot /\ n = call.name /\ c = call.cluster /\ f = faults
  BY <1>1, <1>2, FileCallTypes
<1>7. Bounded(s, n, c, f) /\ (c \notin fat[0] \/ c = ROOT)
  BY <1>1, <1>3, <1>6 DEF Underway
<1>8. Bounded(s, n, d, f)
  BY <1>1, <1>5, <1>7, NewCluster
<1>9. PICK g \in Nat : g = faults' /\ Bounded(s, n, d, g)
  <2>1. Bounded(s, n, d, f + 1)
    <3>1. DoubledBut(s, n) \in Nat /\ LostBut(s, d) \in Nat /\ UnownedBut(s, d) \in Nat
      BY <1>1, <1>5, CountableBut, Zenon
    <3>2. QED
      BY <1>8, <3>1 DEF Bounded
  <2>2. QED
    BY <1>4, <1>6, <1>8, <2>1
<1>10. Files' = Files /\ dir' = dir /\ fat' = fat
  BY <1>1 DEF disk, Files
<1>11. Bounded(s, n, d, g)'
  BY <1>1, <1>5, <1>9, <1>10, OthersSame
<1>12. call \in FileCalls /\ call.op = "write"
  BY <1>1, <1>2, FileCallTypes DEF RemovePcs
<1>13. /\ call'.pc = "take0" /\ call'.slot = s /\ call'.name = n /\ call'.cluster = d
       /\ call'.op = "write"
  BY <1>4, <1>6, <1>12 DEF FileCalls
<1>14. Bounded(call.slot, call.name, call.cluster, faults)'
  BY <1>9, <1>11, <1>13, BoundedCallAfter
<1>15. Underway'
  BY <1>3, <1>6, <1>10, <1>13, <1>14 DEF Underway
<1>16. QED
  BY <1>13, <1>15 DEF Accounts

LEMMA FileProceedAccounts ==
    ASSUME IInv, IInv', Accounts, Proceed, formatted, call.pc \in FilePcs
    PROVE  Accounts'
<1>1. TypeOK /\ TypeOK' /\ Underway /\ SectorWrite /\ faults' = faults
  BY DEF IInv, Accounts, Proceed
<1>2. formatted' /\ left' = left
  BY DEF Proceed, At, FilePcs, WritePcs, RemovePcs
<1>3. PICK s \in Slot, n \in Names, c \in Cluster, f \in Nat :
         s = call.slot /\ n = call.name /\ c = call.cluster /\ f = faults
  BY <1>1, FileCallTypes
<1>4. /\ call \in FileCalls /\ call.op \in {"write", "remove"}
      /\ call.op = "remove" => call.pc \in RemovePcs
      /\ call.op = "write" => call.pc \in WritePcs
  BY <1>1, FileCallTypes
<1>5. call.pc \notin {"alloc", "mark"} => c # ROOT
  BY <1>3 DEF IInv, Aimed, FilePcs
<1>6. Bounded(s, n, c, f)' /\ (s \in Files => dir[s].name = n)'
  BY <1>1, <1>2, <1>3, FileWriteBounded
<1>7. /\ call.pc = "free0" => fat'[0] = fat[0] \ {c} /\ dir' = dir
      /\ call.pc = "take0" => fat'[0] = fat[0] \cup {c} /\ dir' = dir
      /\ call.pc \in {"free1", "take1", "data"} => fat'[0] = fat[0] /\ dir' = dir
      /\ call.pc = "entry" => fat' = fat /\ dir' = [dir EXCEPT ![s] = File(n, c)]
      /\ call.pc = "mark" => fat' = fat /\ dir' = [dir EXCEPT ![s] = Deleted]
      /\ call.pc \in {"free0", "take0", "free1", "take1", "entry", "data", "mark"}
  BY <1>1, <1>3, <1>5, FileEffects
<1>8. dir' = dir => Files' = Files
  BY DEF Files
<1>9. CASE call.pc = "data"
  <2>1. s \in Files' /\ dir'[s].cluster = c /\ c \in fat'[0]
    BY <1>1, <1>3, <1>7, <1>8, <1>9 DEF Underway
  <2>2. Settled(f)'
    BY <1>1, <1>6, <2>1, PutBackAfter
  <2>3. Settled(faults)'
    BY <1>1, <1>3, <2>2, SettledAfter
  <2>4. call'.pc = "idle"
    BY <1>9, AfterIs DEF Proceed, Idle
  <2>5. QED
    BY <2>3, <2>4 DEF Accounts, FilePcs, WritePcs, RemovePcs
<1>10. CASE call.pc = "mark"
  <2>1. dir'[s] = Deleted /\ fat' = fat
    BY <1>1, <1>7, <1>10 DEF TypeOK
  <2>2. s \notin Files' /\ (c \notin fat'[0] \/ c = ROOT)
    BY <1>1, <1>3, <1>10, <2>1, Kinds DEF Underway, Files
  <2>3. Settled(f)'
    BY <1>1, <1>6, <2>2, GoneAfter DEF ROOT
  <2>4. Settled(faults)'
    BY <1>1, <1>3, <2>3, SettledAfter
  <2>5. call'.pc = "idle"
    BY <1>10, AfterIs DEF Proceed, Idle
  <2>6. QED
    BY <2>4, <2>5 DEF Accounts, FilePcs, WritePcs, RemovePcs
<1>11. CASE call.pc \in {"free0", "free1", "take0", "take1", "entry"}
  <2> DEFINE next == After[call.pc]
  <2>1. /\ call.pc = "free0" => next = "free1"
        /\ call.pc = "free1" => next = IF call.op = "write" THEN "alloc" ELSE "mark"
        /\ call.pc = "take0" => next = "take1" /\ call.op = "write"
        /\ call.pc = "take1" => next = "entry" /\ call.op = "write"
        /\ call.pc = "entry" => next = "data" /\ call.op = "write"
    BY <1>4, AfterIs DEF RemovePcs
  <2>2. call' = [call EXCEPT !.pc = next]
    BY <1>11, <2>1 DEF Proceed
  <2> HIDE DEF next
  <2>3. /\ call'.pc = next /\ call'.slot = s /\ call'.name = n /\ call'.cluster = c
        /\ call'.op = call.op
    BY <1>3, <1>4, <2>2 DEF FileCalls
  <2>4. Bounded(call.slot, call.name, call.cluster, faults)'
    BY <1>1, <1>3, <1>6, <2>3, BoundedCallAfter
  <2>5. (call.slot \in Files => dir[call.slot].name = call.name)'
    BY <1>6, <2>3
  <2>6. CASE call.pc # "entry"
    <3>1. dir' = dir /\ Files' = Files
      BY <1>7, <1>8, <1>11, <2>6
    <3>2. (call.op = "remove" => call.slot \in Files)'
      BY <1>1, <1>3, <2>3, <3>1 DEF Underway
    <3>3. call'.pc \in {"free1", "alloc", "mark", "take1", "entry"}
      BY <1>11, <2>1, <2>3, <2>6
    <3>4. call'.pc \in {"free1", "alloc", "mark"} => c \notin fat'[0]
      BY <1>1, <1>3, <1>5, <1>7, <1>11, <2>1, <2>3, <2>6 DEF Underway
    <3>5. call'.pc \in {"take1", "entry"} => c \in fat'[0]
      BY <1>1, <1>3, <1>5, <1>7, <1>11, <2>1, <2>3, <2>6 DEF Underway
    <3>6. c # ROOT' 
      BY <1>5, <1>11 DEF ROOT
    <3>7. Underway'
      BY <2>3, <2>4, <2>5, <3>2, <3>3, <3>4, <3>5, <3>6 DEF Underway
    <3>8. QED
      BY <3>3, <3>7 DEF Accounts
  <2>7. CASE call.pc = "entry"
    <3>1. call'.pc = "data" /\ call'.op = "write"
      BY <2>1, <2>3, <2>7
    <3>2. fat' = fat /\ dir'[s] = File(n, c)
      BY <1>1, <1>7, <2>7 DEF TypeOK
    <3>3. s \in Files' /\ dir'[s].cluster = c
      BY <3>2, Kinds DEF Files
    <3>4. c \in fat'[0]
      BY <1>1, <1>3, <2>7, <3>2 DEF Underway
    <3>5. Underway'
      BY <2>3, <2>4, <2>5, <3>1, <3>3, <3>4 DEF Underway
    <3>6. QED
      BY <3>1, <3>5 DEF Accounts
  <2>8. QED
    BY <2>6, <2>7
<1>12. QED
  BY <1>7, <1>9, <1>10, <1>11

\* The end of a format: there are no files, and what is used is what it left.
LEMMA FormatProceedAccounts ==
    ASSUME IInv, IInv', Proceed, call.pc \notin FilePcs
    PROVE  Accounts'
<1>1. TypeOK /\ TypeOK' /\ SectorWrite
  BY DEF IInv, Proceed
<1>2. call.pc \in FormatPcs
  BY <1>1 DEF SectorWrite, WriteFormat, SetFat, WriteFile, MarkDeleted, At,
              FormatPcs, FilePcs, WritePcs, RemovePcs
<1>3. ~formatted
  BY <1>2 DEF IInv, Formatting
<1>4. CASE call.pc # "root"
  BY <1>3, <1>4 DEF Proceed, Accounts, At
<1>5. CASE call.pc = "root"
  <2>1. left' = fat[0] /\ call'.pc = "idle"
    BY <1>5, AfterIs DEF Proceed, At, Idle
  <2>2. dir' = [s \in Slot |-> End] /\ fat' = fat
    BY <1>1, <1>5 DEF SectorWrite, WriteFormat, SetFat, WriteFile, MarkDeleted, At
  <2>3. Files' = {}
    BY <2>2, Kinds DEF Files
  <2>4. Settled(faults)'
    BY <1>1, <2>1, <2>2, <2>3, NoDamageAfter
  <2>5. QED
    BY <2>1, <2>4 DEF Accounts, FilePcs, WritePcs, RemovePcs
<1>6. QED
  BY <1>4, <1>5

LEMMA ProceedAccounts == IInv /\ IInv' /\ Accounts /\ Proceed => Accounts'
<1> SUFFICES ASSUME IInv, IInv', Accounts, Proceed PROVE Accounts'
  OBVIOUS
<1>1. CASE call.pc \in FilePcs /\ formatted
  BY <1>1, FileProceedAccounts
<1>2. CASE call.pc \in FilePcs /\ ~formatted
  <2>1. ~formatted'
    BY <1>2 DEF Proceed, At, FilePcs, WritePcs, RemovePcs
  <2>2. QED
    BY <2>1 DEF Accounts
<1>3. CASE call.pc \notin FilePcs
  BY <1>3, FormatProceedAccounts
<1>4. QED
  BY <1>1, <1>2, <1>3

LEMMA StutterAccounts == Accounts /\ UNCHANGED vars => Accounts'
<1> SUFFICES ASSUME Accounts, UNCHANGED vars PROVE Accounts'
  OBVIOUS
<1>1. /\ fat' = fat /\ dir' = dir /\ call' = call /\ formatted' = formatted
      /\ left' = left /\ faults' = faults
  BY DEF vars, disk, made
<1>2. QED
  BY <1>1 DEF Accounts, Settled, Lost, Unowned, Duplicates, Pointed, Files, Underway, Bounded,
              LostBut, UnownedBut, DoubledBut, Others, ClustersOf, NamesOf

LEMMA NextAccounts == IInv /\ IInv' /\ Accounts /\ [Next]_vars => Accounts'
<1> SUFFICES ASSUME IInv, IInv', Accounts, [Next]_vars PROVE Accounts'
  OBVIOUS
<1>1. CASE Select \/ \E n \in Names : Remove(n) \/ \E t \in Texts : Write(n, t)
  <2>1. UNCHANGED <<disk, made, faults>> /\ At("idle")
    BY <1>1 DEF Select, Remove, Write, Mounted
  <2>2. call'.pc \in {"idle", "find"}
    BY <1>1 DEF Select, Remove, Write, Mounted, At
  <2>3. QED
    BY <2>1, <2>2, QuietAccounts DEF At
<1>2. CASE Format
  BY <1>2 DEF Format, Accounts
<1>3. CASE Find
  BY <1>3, FindAccounts
<1>4. CASE FindMisses
  BY <1>4, FindMissesAccounts
<1>5. CASE FindFails \/ WriteFails \/ PowerCut
  BY <1>5, FailAccounts
<1>6. CASE Alloc
  BY <1>6, AllocAccounts
<1>7. CASE AllocFails
  BY <1>7, AllocFailsAccounts
<1>8. CASE Proceed
  BY <1>8, ProceedAccounts
<1>9. CASE UNCHANGED vars
  BY <1>9, StutterAccounts
<1>10. QED
  BY <1>1, <1>2, <1>3, <1>4, <1>5, <1>6, <1>7, <1>8, <1>9 DEF Next

-----------------------------------------------------------------------------
(* The copies of the FAT.                                                  *)

LEMMA UnevenFinite ==
    TypeOK => /\ IsFiniteSet(Uneven) /\ Cardinality(Uneven) \in Nat
              /\ IsFiniteSet(Uneven \ SectorOf(ROOT))
              /\ Cardinality(Uneven \ SectorOf(ROOT)) \in Nat
<1> SUFFICES ASSUME TypeOK
             PROVE  /\ IsFiniteSet(Uneven) /\ Cardinality(Uneven) \in Nat
                    /\ IsFiniteSet(Uneven \ SectorOf(ROOT))
                    /\ Cardinality(Uneven \ SectorOf(ROOT)) \in Nat
  OBVIOUS
<1>1. Uneven \subseteq Cluster /\ Uneven \ SectorOf(ROOT) \subseteq Cluster
  BY DEF Uneven, Differing, TypeOK
<1>2. QED
  BY <1>1, Finiteness, Subsets

\* The copies get more alike, or one cluster more unlike with a fault.
LEMMA UnevenCount ==
    ASSUME IInv, IInv', Copies, formatted' => formatted, NEW x,
           \/ Uneven' \subseteq Uneven /\ faults' \in {faults, faults + 1}
           \/ Uneven' \subseteq Uneven \cup {x} /\ faults' = faults + 1
    PROVE  /\ Cardinality(Uneven' \ SectorOf(ROOT)) <= faults'
           /\ formatted' => Cardinality(Uneven') <= faults'
<1>1. faults \in Nat /\ faults' \in Nat
  BY DEF IInv, TypeOK
<1>2. IsFiniteSet(Uneven)
  <2>1. Uneven \subseteq Cluster
    BY DEF Uneven, Differing, IInv, TypeOK
  <2>2. QED
    BY <2>1, Finiteness, Subsets DEF IInv
<1>3. ASSUME NEW S, IsFiniteSet(S), Cardinality(S) <= faults, NEW T,
             \/ T \subseteq S /\ faults' \in {faults, faults + 1}
             \/ T \subseteq S \cup {x} /\ faults' = faults + 1
      PROVE  Cardinality(T) <= faults'
  <2>1. CASE T \subseteq S /\ faults' \in {faults, faults + 1}
    <3>1. Cardinality(T) <= Cardinality(S) /\ Cardinality(T) \in Nat /\ Cardinality(S) \in Nat
      BY <1>3, <2>1, Subsets
    <3>2. QED
      BY <1>1, <1>3, <2>1, <3>1
  <2>2. CASE T \subseteq S \cup {x} /\ faults' = faults + 1
    <3>1. Cardinality(T) <= Cardinality(S) + 1 /\ Cardinality(T) \in Nat /\ Cardinality(S) \in Nat
      BY <1>3, <2>2, OneMore
    <3>2. QED
      BY <1>1, <1>3, <2>2, <3>1
  <2>3. QED
    BY <1>3, <2>1, <2>2
<1>4. Cardinality(Uneven' \ SectorOf(ROOT)) <= faults'
  <2>1. IsFiniteSet(Uneven \ SectorOf(ROOT)) /\ Cardinality(Uneven \ SectorOf(ROOT)) <= faults
    <3>1. Uneven \ SectorOf(ROOT) \subseteq Uneven
      OBVIOUS
    <3>2. QED
      BY <1>2, <3>1, Subsets DEF Copies
  <2>2. \/ Uneven' \ SectorOf(ROOT) \subseteq Uneven \ SectorOf(ROOT)
           /\ faults' \in {faults, faults + 1}
        \/ Uneven' \ SectorOf(ROOT) \subseteq (Uneven \ SectorOf(ROOT)) \cup {x}
           /\ faults' = faults + 1
    OBVIOUS
  <2>3. QED
    BY <1>3, <2>1, <2>2
<1>5. ASSUME formatted' PROVE Cardinality(Uneven') <= faults'
  BY <1>2, <1>3, <1>5 DEF Copies
<1>6. QED
  BY <1>4, <1>5

LEMMA CopiesFromCount ==
    ASSUME /\ Cardinality(Uneven' \ SectorOf(ROOT)) <= faults'
           /\ formatted' => Cardinality(Uneven') <= faults',
           call'.pc \notin {"format1", "root"}
    PROVE  Copies'
<1>1. (Uneven \ SectorOf(ROOT))' = Uneven' \ SectorOf(ROOT)
  BY DEF SectorOf, ROOT, Cluster
<1>2. QED
  BY <1>1 DEF Copies, At

\* A step that writes nothing and ends or begins no work on a half-set entry.
LEMMA QuietCopies ==
    ASSUME IInv, IInv', Copies, UNCHANGED disk, formatted' => formatted,
           call'.pc \notin {"format1", "root", "free1", "take1"},
           \/ faults' = faults + 1
           \/ faults' = faults /\ call.pc \notin {"free1", "take1"}
    PROVE  Copies'
<1>1. Differing' = Differing /\ HalfSet' = {}
  BY DEF Differing, HalfSet, disk
<1>2. call.pc \notin {"free1", "take1"} => HalfSet = {}
  BY DEF HalfSet
<1>3. HalfSet \subseteq {call.cluster}
  BY DEF HalfSet
<1>4. \/ Uneven' \subseteq Uneven /\ faults' \in {faults, faults + 1}
      \/ Uneven' \subseteq Uneven \cup {call.cluster} /\ faults' = faults + 1
  BY <1>1, <1>2, <1>3 DEF Uneven
<1>5. QED
  BY <1>4, UnevenCount, CopiesFromCount

\* What a sector write of a command on a file does to the copies.
LEMMA FileWriteCopies ==
    ASSUME TypeOK, call.pc \in FilePcs, SectorWrite
    PROVE  LET c == call.cluster
           IN  /\ Differing' \subseteq Differing \cup {c}
               /\ call.pc \in {"free1", "take1"} => Differing' \subseteq Differing \ {c}
               /\ call.pc \notin {"free0", "take0"} => Differing' \subseteq Differing
               /\ call.pc \in {"free0", "take0", "free1", "take1", "entry", "data", "mark"}
<1> DEFINE c == call.cluster
<1>1. c \in Cluster
  BY FileCallTypes
<1>2. /\ call.pc = "free0" => WriteFat(0, c, fat[0] \ {c})
      /\ call.pc = "take0" => WriteFat(0, c, fat[0] \cup {c})
      /\ call.pc \in {"free1", "take1"} => WriteFat(1, c, fat[0])
      /\ call.pc \in {"data", "entry", "mark"} => fat' = fat
      /\ call.pc \in {"free0", "take0", "free1", "take1", "entry", "data", "mark"}
  BY DEF SectorWrite, WriteFormat, SetFat, WriteFile, MarkDeleted, At, FilePcs, WritePcs, RemovePcs
<1>3. CASE call.pc \in {"free0", "take0"}
  <2>1. PICK S \in {fat[0] \ {c}, fat[0] \cup {c}} : WriteFat(0, c, S)
    BY <1>2, <1>3
  <2>2. /\ fat'[0] = (fat[0] \ SectorOf(c)) \cup (S \cap SectorOf(c))
        /\ fat'[1] = fat[1] /\ c \in SectorOf(c)
    BY <1>1, <2>1, FatEffect
  <2>3. fat'[0] \ {c} = fat[0] \ {c}
    BY <2>1, <2>2
  <2>4. QED
    BY <1>3, <2>2, <2>3 DEF Differing
<1>4. CASE call.pc \in {"free1", "take1"}
  <2>1. /\ fat'[1] = (fat[1] \ SectorOf(c)) \cup (fat[0] \cap SectorOf(c))
        /\ fat'[0] = fat[0] /\ c \in SectorOf(c)
    BY <1>1, <1>2, <1>4, FatEffect
  <2>2. QED
    BY <1>4, <2>1 DEF Differing
<1>5. CASE call.pc \in {"data", "entry", "mark"}
  BY <1>2, <1>5 DEF Differing
<1>6. QED
  BY <1>2, <1>3, <1>4, <1>5

\* A format writes the root's sector of either copy.
LEMMA FormatWriteCopies ==
    ASSUME TypeOK, call.pc \in FormatPcs, SectorWrite, call'.pc \in FormatPcs \cup {"idle"}
    PROVE  /\ Uneven' \ SectorOf(ROOT) = Uneven \ SectorOf(ROOT)
           /\ call.pc = "format0" => fat'[0] \cap SectorOf(ROOT) = {ROOT}
           /\ call.pc = "format1" => /\ fat'[0] = fat[0]
                                     /\ fat'[1] \cap SectorOf(ROOT) = {ROOT}
           /\ call.pc = "root" => fat' = fat
<1>1. /\ call.pc = "format0" => WriteFat(0, ROOT, {ROOT})
      /\ call.pc = "format1" => WriteFat(1, ROOT, {ROOT})
      /\ call.pc \in {"boot", "info", "root"} => fat' = fat
      /\ call.pc \in {"boot", "info", "format0", "format1", "root"}
  BY DEF SectorWrite, WriteFormat, SetFat, WriteFile, MarkDeleted, At, FormatPcs, FormatFat, disk
<1>2. Uneven = Differing /\ Uneven' = Differing'
  BY DEF Uneven, HalfSet, FormatPcs
<1>3. CASE call.pc \in {"boot", "info", "root"}
  BY <1>1, <1>2, <1>3 DEF Differing
<1>4. CASE call.pc = "format0"
  <2>1. /\ fat'[0] = (fat[0] \ SectorOf(ROOT)) \cup ({ROOT} \cap SectorOf(ROOT))
        /\ fat'[1] = fat[1] /\ ROOT \in SectorOf(ROOT)
    BY <1>1, <1>4, FatEffect, RootIsCluster
  <2>2. QED
    BY <1>2, <1>4, <2>1 DEF Differing
<1>5. CASE call.pc = "format1"
  <2>1. /\ fat'[1] = (fat[1] \ SectorOf(ROOT)) \cup ({ROOT} \cap SectorOf(ROOT))
        /\ fat'[0] = fat[0] /\ ROOT \in SectorOf(ROOT)
    BY <1>1, <1>5, FatEffect, RootIsCluster
  <2>2. QED
    BY <1>2, <1>5, <2>1 DEF Differing
<1>6. QED
  BY <1>1, <1>3, <1>4, <1>5

LEMMA WriteFailsCopies ==
    ASSUME IInv, IInv', Copies, WriteFails PROVE Copies'
<1>1. /\ TypeOK /\ faults' = faults + 1 /\ formatted' = formatted /\ call'.pc = "idle"
  BY DEF IInv, WriteFails, Fail, made, Idle
<1>2. CASE UNCHANGED disk
  BY <1>1, <1>2, QuietCopies
<1>3. CASE SectorWrite /\ call.pc \in FilePcs
  <2>1. HalfSet' = {} /\ HalfSet \subseteq {call.cluster}
    BY <1>1 DEF HalfSet
  <2>2. Differing' \subseteq Differing \cup {call.cluster}
    BY <1>1, <1>3, FileWriteCopies
  <2>3. Uneven' \subseteq Uneven \cup {call.cluster}
    BY <2>1, <2>2 DEF Uneven
  <2>4. QED
    BY <1>1, <2>3, UnevenCount, CopiesFromCount
<1>4. CASE SectorWrite /\ call.pc \notin FilePcs
  <2>1. call.pc \in FormatPcs
    BY <1>4 DEF SectorWrite, WriteFormat, SetFat, WriteFile, MarkDeleted, At,
                FormatPcs, FilePcs, WritePcs, RemovePcs
  <2>2. ~formatted
    BY <2>1 DEF IInv, Formatting
  <2>3. Uneven' \ SectorOf(ROOT) = Uneven \ SectorOf(ROOT)
    BY <1>1, <1>4, <2>1, FormatWriteCopies
  <2>4. faults \in Nat /\ Cardinality(Uneven \ SectorOf(ROOT)) <= faults
    BY <1>1 DEF Copies, TypeOK
  <2>5. Cardinality(Uneven' \ SectorOf(ROOT)) <= faults'
    <3>1. Cardinality(Uneven \ SectorOf(ROOT)) \in Nat
      BY <1>1, UnevenFinite
    <3>2. QED
      BY <1>1, <2>3, <2>4, <3>1
  <2>6. QED
    BY <1>1, <2>2, <2>5, CopiesFromCount
<1>5. QED
  BY <1>2, <1>3, <1>4 DEF WriteFails

LEMMA FileProceedCopies ==
    ASSUME IInv, IInv', Copies, Proceed, call.pc \in FilePcs PROVE Copies'
<1>1. /\ TypeOK /\ SectorWrite /\ faults' = faults /\ (formatted' => formatted)
  BY DEF IInv, TypeOK, Proceed, At, FilePcs, WritePcs, RemovePcs
<1> DEFINE c == call.cluster
           next == After[call.pc]
<1>2. /\ Differing' \subseteq Differing \cup {c}
      /\ call.pc \in {"free1", "take1"} => Differing' \subseteq Differing \ {c}
      /\ call.pc \notin {"free0", "take0"} => Differing' \subseteq Differing
      /\ call.pc \in {"free0", "take0", "free1", "take1", "entry", "data", "mark"}
  BY <1>1, FileWriteCopies
<1>3. call \in FileCalls
  BY <1>1, FileCallTypes
<1>4. /\ call'.pc = next
      /\ next # "idle" => call'.cluster = c
      /\ next \in {"free1", "take1"} <=> call.pc \in {"free0", "take0"}
      /\ next \notin {"format1", "root"}
  <2>1. /\ next \in {"free1", "take1"} <=> call.pc \in {"free0", "take0"}
        /\ next \notin {"format1", "root"}
    BY <1>2, AfterIs
  <2>2. call' = IF next = "idle" THEN Idle("ok") ELSE [call EXCEPT !.pc = next]
    BY DEF Proceed
  <2> HIDE DEF next
  <2>3. call'.pc = next /\ (next # "idle" => call'.cluster = c)
    BY <1>3, <2>2 DEF FileCalls, Idle
  <2>4. QED
    BY <2>1, <2>3
<1> HIDE DEF next
<1>5. Uneven' \subseteq Uneven
  <2>1. CASE call.pc \in {"free0", "take0"}
    <3>1. HalfSet' = {c} /\ HalfSet = {}
      BY <1>4, <2>1 DEF HalfSet
    <3>2. QED
      BY <1>2, <3>1 DEF Uneven
  <2>2. CASE call.pc \in {"free1", "take1"}
    <3>1. HalfSet = {c}
      BY <2>2 DEF HalfSet
    <3>2. QED
      BY <1>2, <2>2, <3>1 DEF Uneven
  <2>3. CASE call.pc \notin {"free0", "take0", "free1", "take1"}
    <3>1. HalfSet = {}
      BY <2>3 DEF HalfSet
    <3>2. QED
      BY <1>2, <2>3, <3>1 DEF Uneven
  <2>4. QED
    BY <2>1, <2>2, <2>3
<1>6. QED
  BY <1>1, <1>4, <1>5, UnevenCount, CopiesFromCount

LEMMA FormatProceedCopies ==
    ASSUME IInv, IInv', Copies, Proceed, call.pc \notin FilePcs PROVE Copies'
<1>1. /\ TypeOK /\ SectorWrite /\ faults' = faults /\ faults \in Nat
      /\ Cardinality(Uneven \ SectorOf(ROOT)) <= faults
  BY DEF IInv, TypeOK, Proceed, Copies
<1>2. call.pc \in FormatPcs
  BY <1>1 DEF SectorWrite, WriteFormat, SetFat, WriteFile, MarkDeleted, At,
              FormatPcs, FilePcs, WritePcs, RemovePcs
<1>3. ~formatted
  BY <1>2 DEF IInv, Formatting
<1>4. call'.pc = After[call.pc]
  <2>1. call \in [pc : FormatPcs, op : {"format"}]
    BY <1>1, <1>2, CallShapes
  <2> DEFINE next == After[call.pc]
  <2>2. call' = IF next = "idle" THEN Idle("ok") ELSE [call EXCEPT !.pc = next]
    BY DEF Proceed
  <2> HIDE DEF next
  <2>3. call'.pc = next
    BY <2>1, <2>2 DEF Idle
  <2>4. QED
    BY <2>3 DEF next
<1>5. /\ call.pc \in {"boot", "info", "format0", "format1", "root"}
      /\ call'.pc = "format1" <=> call.pc = "format0"
      /\ call'.pc = "root" <=> call.pc = "format1"
      /\ call'.pc \in FormatPcs \cup {"idle"}
  BY <1>2, <1>4, AfterIs DEF FormatPcs
<1>6. /\ Uneven' \ SectorOf(ROOT) = Uneven \ SectorOf(ROOT)
      /\ call.pc = "format0" => fat'[0] \cap SectorOf(ROOT) = {ROOT}
      /\ call.pc = "format1" => /\ fat'[0] = fat[0]
                                /\ fat'[1] \cap SectorOf(ROOT) = {ROOT}
      /\ call.pc = "root" => fat' = fat
  BY <1>1, <1>2, <1>5, FormatWriteCopies
<1>7. Cardinality(Uneven' \ SectorOf(ROOT)) <= faults'
  BY <1>1, <1>6
<1>8. ASSUME formatted' PROVE Cardinality(Uneven') <= faults'
  <2>1. call.pc = "root"
    BY <1>3, <1>8 DEF Proceed, At
  <2>2. \A k \in {0, 1} : fat'[k] \cap SectorOf(ROOT) = {ROOT}
    BY <1>6, <2>1 DEF Copies, At
  <2>3. Uneven' \cap SectorOf(ROOT) = {}
    BY <2>2 DEF Uneven, Differing
  <2>4. Uneven' = Uneven' \ SectorOf(ROOT)
    BY <2>3
  <2>5. QED
    BY <1>7, <2>4
<1>9. SectorOf(ROOT)' = SectorOf(ROOT) /\ ROOT' = ROOT
  BY DEF SectorOf, ROOT, Cluster
<1>10. (At("format1") => fat[0] \cap SectorOf(ROOT) = {ROOT})'
  BY <1>5, <1>6, <1>9 DEF At
<1>11. (At("root") => \A k \in {0, 1} : fat[k] \cap SectorOf(ROOT) = {ROOT})'
  <2> SUFFICES ASSUME At("root")', NEW k \in {0, 1}
               PROVE  fat'[k] \cap SectorOf(ROOT) = {ROOT}
    BY <1>9
  <2>1. call.pc = "format1"
    BY <1>5 DEF At
  <2>2. fat[0] \cap SectorOf(ROOT) = {ROOT}
    BY <2>1 DEF Copies, At
  <2>3. QED
    BY <1>6, <2>1, <2>2
<1>12. (Cardinality(Uneven \ SectorOf(ROOT)) <= faults)'
  BY <1>7, <1>9
<1>13. QED
  BY <1>8, <1>10, <1>11, <1>12 DEF Copies

LEMMA NextCopies == IInv /\ IInv' /\ Copies /\ [Next]_vars => Copies'
<1> SUFFICES ASSUME IInv, IInv', Copies, [Next]_vars PROVE Copies'
  OBVIOUS
<1>1. CASE Select \/ Format \/ \E n \in Names : Remove(n) \/ \E t \in Texts : Write(n, t)
  <2>1. /\ UNCHANGED disk /\ faults' = faults /\ (formatted' => formatted)
        /\ call.pc = "idle" /\ call'.pc \in {"idle", "boot", "find"}
    BY <1>1 DEF Select, Format, Remove, Write, Mounted, At, made
  <2>2. QED
    BY <2>1, QuietCopies
<1>2. CASE Find \/ FindMisses \/ FindFails \/ Alloc \/ AllocFails
  <2>1. /\ UNCHANGED disk /\ formatted' = formatted /\ call.pc \in {"find", "alloc"}
        /\ faults' \in {faults, faults + 1}
    BY <1>2 DEF Find, FindMisses, NotFound, FindFails, Alloc, AllocFails, Fail, At, made
  <2>2. call'.pc \in {"idle", "free0", "alloc", "take0"}
    <3>1. CASE Alloc
      <4>1. call \in FileCalls
        BY <3>1, CallShapes DEF Alloc, At, WritePcs, IInv
      <4>2. QED
        BY <3>1, <4>1 DEF Alloc, FileCalls
    <3>2. CASE Find \/ FindMisses \/ FindFails \/ AllocFails
      BY <3>2 DEF Find, FindMisses, NotFound, FindFails, AllocFails, Fail, Local, Idle
    <3>3. QED
      BY <1>2, <3>1, <3>2
  <2>3. QED
    BY <2>1, <2>2, QuietCopies
<1>3. CASE Proceed
  BY <1>3, FileProceedCopies, FormatProceedCopies
<1>4. CASE WriteFails
  BY <1>4, WriteFailsCopies
<1>5. CASE PowerCut
  <2>1. /\ UNCHANGED disk /\ formatted' = formatted /\ call'.pc = "idle"
        /\ faults' = IF call.pc = "idle" THEN faults ELSE faults + 1
    BY <1>5 DEF PowerCut, At, made, Idle
  <2>2. QED
    BY <2>1, QuietCopies
<1>6. CASE UNCHANGED vars
  <2>1. fat' = fat /\ call' = call /\ formatted' = formatted /\ faults' = faults
    BY <1>6 DEF vars, disk, made
  <2>2. QED
    BY <2>1 DEF Copies, Uneven, HalfSet, Differing, At, SectorOf, ROOT, Cluster
<1>7. QED
  BY <1>1, <1>2, <1>3, <1>4, <1>5, <1>6 DEF Next

-----------------------------------------------------------------------------
(* The damage is bounded, and so are the differences.                      *)

DInv == IInv /\ Copies /\ Accounts

LEMMA InitDamage == Init => DInv
<1> SUFFICES ASSUME Init PROVE DInv
  OBVIOUS
<1>1. ~formatted /\ call.pc = "idle" /\ faults = 0 /\ fat[0] = fat[1]
  BY DEF Init, Idle
<1>2. Uneven = {} /\ Uneven \ SectorOf(ROOT) = {}
  BY <1>1 DEF Uneven, Differing
<1>3. Copies
  BY <1>1, <1>2, FS_EmptySet DEF Copies, At
<1>4. QED
  BY <1>1, <1>3, InitInv DEF DInv, Accounts

(***************************************************************************)
(* The stronger invariant: it follows the damage through every step of a   *)
(* command, and of one that is cut short.                                  *)
(***************************************************************************)
THEOREM DamageInvariance == Spec => []DInv
<1>1. Init => DInv
  BY InitDamage
<1>2. DInv /\ [Next]_vars => DInv'
  BY NextInv, NextCopies, NextAccounts DEF DInv
<1>3. QED
  BY <1>1, <1>2, PTL DEF Spec

(***************************************************************************)
(* However many commands are cut short, each costs a volume at most one    *)
(* cluster nobody points to and one file whose cluster is not its own, or  *)
(* one name that is there twice.                                           *)
(***************************************************************************)
THEOREM DamageIsBounded == Spec => []DamageBounded
<1>1. DInv => DamageBounded
  BY DEF DInv, Accounts, Settled, DamageBounded, Between, At
<1>2. QED
  BY <1>1, DamageInvariance, PTL

(***************************************************************************)
(* Each command cut short leaves the copies of the FAT different in at     *)
(* most one entry more; fat_set never makes more of it.                    *)
(***************************************************************************)
THEOREM CopiesAlwaysAgree == Spec => []CopiesAgree
<1>1. DInv => CopiesAgree
  <2> SUFFICES ASSUME DInv, Between PROVE CopiesAgree
    BY DEF CopiesAgree
  <2>1. Uneven = (fat[0] \ fat[1]) \cup (fat[1] \ fat[0])
    BY DEF Between, At, Uneven, HalfSet, Differing
  <2>2. QED
    BY <2>1 DEF DInv, Copies, Between, CopiesAgree
<1>2. QED
  BY <1>1, DamageInvariance, PTL

-----------------------------------------------------------------------------
(* Without a fault: every name is there once, and has its cluster alone.   *)

Live == formatted /\ faults = 0

LEMMA AllApart ==
    ASSUME TypeOK, Settled(0)
    PROVE  \A q, r \in Files : dir[q].name = dir[r].name => q = r
<1> DEFINE N == {dir[r].name : r \in Files}
<1>1. Lost \in Nat /\ Duplicates \in Int /\ Duplicates >= 0
  BY Countable
<1>2. Duplicates = 0
  BY <1>1 DEF Settled
<1>3. IsFiniteSet(Files) /\ Cardinality(Files) \in Nat
  BY Finiteness
<1>4. Cardinality(N) \in Nat /\ N = NamesOf(Files)
  BY Finiteness DEF NamesOf
<1>5. Duplicates = Cardinality(Files) - Cardinality(N)
  BY DEF Duplicates
<1>6. Cardinality(N) = Cardinality(Files)
  <2> HIDE DEF N
  <2>1. QED
    BY <1>2, <1>3, <1>4, <1>5
<1> DEFINE g == [r \in Files |-> dir[r].name]
<1>7. N = {g[r] : r \in Files}
  OBVIOUS
<1>8. \A q, r \in Files : g[q] = g[r] => q = r
  <2> HIDE DEF g, N
  <2>1. QED
    BY <1>3, <1>6, <1>7, ImageCount
<1>9. QED
  BY <1>8

LEMMA OthersApart ==
    ASSUME TypeOK, NEW s \in Slot, NEW n \in Names, NEW c \in Cluster, Bounded(s, n, c, 0)
    PROVE  /\ \A q, r \in Others(s) : dir[q].name = dir[r].name => q = r
           /\ \A r \in Others(s) : dir[r].name # n /\ dir[r].cluster # c
<1> DEFINE S == Others(s)
           N == NamesOf(S)
           C == ClustersOf(S)
           U == C \cap (fat[0] \ {c})
<1>1. LostBut(s, c) \in Nat /\ DoubledBut(s, n) \in Nat /\ UnownedBut(s, c) \in Nat
  BY CountableBut, Zenon
<1>2. DoubledBut(s, n) = 0 /\ UnownedBut(s, c) = 0
  BY <1>1 DEF Bounded
<1>3. IsFiniteSet(S) /\ Cardinality(S) \in Nat /\ S \subseteq Files
  BY Apart
<1>4. /\ IsFiniteSet(N) /\ Cardinality(N) \in Nat /\ Cardinality(N) <= Cardinality(S)
      /\ Cardinality(N \cup {n}) \in Nat
      /\ Cardinality(N \cup {n}) <= Cardinality(N) + 1
  BY CountableBut
<1>5. /\ IsFiniteSet(C) /\ Cardinality(C) \in Nat /\ Cardinality(C) <= Cardinality(S)
  BY <1>3, Finiteness
<1>6. DoubledBut(s, n) = (Cardinality(S) + 1) - Cardinality(N \cup {n})
      /\ UnownedBut(s, c) = Cardinality(S) - Cardinality(U)
  BY Zenon DEF DoubledBut, UnownedBut
<1>7. U \subseteq C
  OBVIOUS
<1> DEFINE g == [r \in S |-> dir[r].name]
<1>8. N = {g[r] : r \in S} /\ C = {dir[r].cluster : r \in S} /\ N = {dir[r].name : r \in S}
  BY DEF NamesOf, ClustersOf
<1> HIDE DEF S, N, C, U, g
<1>9. Cardinality(N) = Cardinality(S) /\ Cardinality(N \cup {n}) = Cardinality(N) + 1
  BY <1>2, <1>3, <1>4, <1>6
<1>10. n \notin N
  <2> SUFFICES ASSUME n \in N PROVE FALSE
    OBVIOUS
  <2>1. N \cup {n} = N
    OBVIOUS
  <2>2. Cardinality(N \cup {n}) = Cardinality(N)
    BY <2>1, Zenon
  <2>3. QED
    BY <1>4, <1>9, <2>2
<1>11. \A q, r \in S : g[q] = g[r] => q = r
  BY <1>3, <1>8, <1>9, ImageCount
<1>12. U = C
  <2>1. Cardinality(U) <= Cardinality(C) /\ Cardinality(U) \in Nat
    BY <1>5, <1>7, Subsets
  <2>2. Cardinality(U) = Cardinality(C)
    BY <1>2, <1>3, <1>5, <1>6, <2>1
  <2>3. QED
    BY <1>5, <1>7, <2>2, FS_Subset
<1>13. c \notin C
  BY <1>12 DEF U
<1>14. QED
  BY <1>8, <1>10, <1>11, <1>13 DEF S, g

\* Every name is there once, and the file a command works on has its cluster alone.
LEMMA LiveFiles ==
    DInv /\ Live =>
       /\ \A q, r \in Files : dir[q].name = dir[r].name => q = r
       /\ call.pc \in FilePcs =>
             /\ \A r \in Files \ {call.slot} :
                   dir[r].name # call.name /\ dir[r].cluster # call.cluster
             /\ call.slot \in Files => dir[call.slot].name = call.name
<1> SUFFICES ASSUME DInv, Live
             PROVE  /\ \A q, r \in Files : dir[q].name = dir[r].name => q = r
                    /\ call.pc \in FilePcs =>
                          /\ \A r \in Files \ {call.slot} :
                                dir[r].name # call.name /\ dir[r].cluster # call.cluster
                          /\ call.slot \in Files => dir[call.slot].name = call.name
  OBVIOUS
<1>1. TypeOK /\ formatted /\ faults = 0 /\ IInv /\ Accounts
  BY DEF DInv, IInv, Live
<1>2. CASE call.pc \in FilePcs
  <2>1. PICK s \in Slot, n \in Names, c \in Cluster :
           s = call.slot /\ n = call.name /\ c = call.cluster
    BY <1>1, <1>2, FileCallTypes
  <2>2. Bounded(s, n, c, 0) /\ (s \in Files => dir[s].name = n)
    BY <1>1, <1>2, <2>1 DEF Accounts, Underway
  <2>3. /\ \A q, r \in Others(s) : dir[q].name = dir[r].name => q = r
        /\ \A r \in Others(s) : dir[r].name # n /\ dir[r].cluster # c
    BY <1>1, <2>2, OthersApart
  <2>4. QED
    BY <2>1, <2>2, <2>3 DEF Others
<1>3. CASE call.pc \notin FilePcs
  <2>1. call.pc \in {"idle", "find"}
    BY <1>1, <1>3, PcKinds DEF IInv, Formatting
  <2>2. Settled(0)
    BY <1>1, <2>1 DEF Accounts
  <2>3. QED
    BY <1>1, <1>3, <2>2, AllApart
<1>4. QED
  BY <1>2, <1>3

\* What the store holds under a name, told by the file that has it.
LEMMA ContentsIs ==
    \A n \in Names :
       DInv /\ Live =>
          /\ call.pc = "data" /\ call.name = n => Contents(n) = call.text
          /\ ~(call.pc = "data" /\ call.name = n) =>
                /\ \A s \in Files : dir[s].name = n => Contents(n) = data[dir[s].cluster]
                /\ (\A s \in Files : dir[s].name # n) => Contents(n) = NoText
<1> SUFFICES ASSUME NEW n \in Names, DInv, Live
             PROVE  /\ call.pc = "data" /\ call.name = n => Contents(n) = call.text
                    /\ ~(call.pc = "data" /\ call.name = n) =>
                          /\ \A s \in Files : dir[s].name = n =>
                                                Contents(n) = data[dir[s].cluster]
                          /\ (\A s \in Files : dir[s].name # n) => Contents(n) = NoText
  OBVIOUS
<1>1. formatted /\ ~(faults > 0) /\ \A s \in Files : InUse(s)
  BY Reached DEF Live, DInv, NothingHidden
<1>2. SlotsOf(n) = {s \in Files : dir[s].name = n}
  BY <1>1 DEF SlotsOf, InUse, Files
<1>3. CASE call.pc = "data" /\ call.name = n
  BY <1>1, <1>3 DEF Contents, At
<1>4. CASE ~(call.pc = "data" /\ call.name = n)
  <2>1. Contents(n) = IF SlotsOf(n) # {} THEN data[dir[Least(SlotsOf(n))].cluster] ELSE NoText
    BY <1>1, <1>4 DEF Contents, At, Listed, Cat
  <2>2. ASSUME NEW s \in Files, dir[s].name = n PROVE Contents(n) = data[dir[s].cluster]
    <3>1. SlotsOf(n) = {s}
      BY <1>2, <2>2, LiveFiles
    <3>2. Least(SlotsOf(n)) \in SlotsOf(n)
      <4>1. s \in Nat
        BY LayoutAssumption DEF Files, Slot
      <4>2. QED
        BY <3>1, <4>1, LeastIs
    <3>3. Least(SlotsOf(n)) = s /\ SlotsOf(n) # {}
      BY <3>1, <3>2
    <3>4. QED
      BY <2>1, <3>3
  <2>3. ASSUME \A s \in Files : dir[s].name # n PROVE Contents(n) = NoText
    BY <1>2, <2>1, <2>3
  <2>4. QED
    BY <1>4, <2>2, <2>3
<1>5. QED
  BY <1>3, <1>4

LEMMA ContentsAfter ==
    (\A n \in Names :
       DInv /\ Live =>
          /\ call.pc = "data" /\ call.name = n => Contents(n) = call.text
          /\ ~(call.pc = "data" /\ call.name = n) =>
                /\ \A s \in Files : dir[s].name = n => Contents(n) = data[dir[s].cluster]
                /\ (\A s \in Files : dir[s].name # n) => Contents(n) = NoText)'
  BY ContentsIs, PTL

-----------------------------------------------------------------------------
(* The refinement.                                                         *)

Kept == [n \in Names |-> Contents(n)]

\* A step that changes neither the directory nor a text.
LEMMA SameStore ==
    ASSUME Live, Live', dir' = dir, data' = data, call.pc # "data", call'.pc # "data"
    PROVE  Kept' = Kept
<1>1. /\ formatted /\ ~(faults > 0) /\ formatted' /\ ~(faults' > 0)
  BY DEF Live
<1>2. ASSUME NEW n \in Names PROVE Contents(n)' = Contents(n)
  <2>1. SlotsOf(n)' = SlotsOf(n)
    BY DEF SlotsOf, InUse
  <2>2. Cat(n)' = Cat(n) /\ (n \in Listed <=> n \in Listed')
    BY <2>1 DEF Cat, Listed
  <2>3. QED
    BY <1>1, <2>2 DEF Contents, At
<1>3. QED
  BY <1>2 DEF Kept

\* A command on the name m does not touch what is stored under another name.
LEMMA OtherNames ==
    ASSUME DInv, DInv', Live, Live',
           NEW m \in Names, NEW n \in Names \ {m}, NEW s \in Slot,
           s \in Files => dir[s].name = m, s \in Files' => dir'[s].name = m,
           \A r \in Slot \ {s} : dir'[r] = dir[r],
           \A r \in Files \ {s} : data'[dir[r].cluster] = data[dir[r].cluster],
           call.pc = "data" => call.name = m, call'.pc = "data" => call'.name = m
    PROVE  Contents(n)' = Contents(n)
<1>1. Files \subseteq Slot /\ \A r \in Slot \ {s} : r \in Files' <=> r \in Files
  BY DEF Files
<1>2. Files' \subseteq Slot
  BY DEF Files
<1>3. CASE \E r \in Files : dir[r].name = n
  <2>1. PICK r \in Files : dir[r].name = n
    BY <1>3
  <2>2. r # s /\ r \in Files' /\ dir'[r] = dir[r]
    BY <1>1, <2>1
  <2>3. Contents(n) = data[dir[r].cluster]
    BY <2>1, ContentsIs
  <2>4. Contents(n)' = data'[dir'[r].cluster]
    BY <2>1, <2>2, ContentsAfter
  <2>5. QED
    BY <2>2, <2>3, <2>4
<1>4. CASE \A r \in Files : dir[r].name # n
  <2>1. \A r \in Files' : dir'[r].name # n
    BY <1>1, <1>2, <1>4
  <2>2. Contents(n) = NoText
    BY <1>4, ContentsIs
  <2>3. Contents(n)' = NoText
    BY <2>1, ContentsAfter
  <2>4. QED
    BY <2>2, <2>3
<1>5. QED
  BY <1>3, <1>4

\* The new entry is written: the new text is there with it.
LEMMA EntryStore ==
    ASSUME DInv, DInv', Live, Live', Proceed, call.pc = "entry"
    PROVE  \E m \in Names, t \in Texts : Kept' = [Kept EXCEPT ![m] = t]
<1>1. TypeOK /\ SectorWrite /\ call.pc \in FilePcs
  BY DEF DInv, IInv, Proceed, FilePcs, WritePcs
<1>2. call \in FileCalls /\ call.op = "write"
  BY <1>1, FileCallTypes DEF RemovePcs
<1>3. PICK m \in Names, t \in Texts, s \in Slot, c \in Cluster :
         m = call.name /\ t = call.text /\ s = call.slot /\ c = call.cluster
  BY <1>2 DEF FileCalls
<1>4. /\ dir' = [dir EXCEPT ![s] = File(m, c)] /\ data' = data
  BY <1>1, <1>3 DEF SectorWrite, WriteFormat, SetFat, WriteFile, MarkDeleted, At
<1>5. call'.pc = "data" /\ call'.name = m /\ call'.text = t
  BY <1>2, <1>3, AfterIs DEF Proceed, FileCalls
<1>6. \A r \in Slot : dir'[r] = IF r = s THEN File(m, c) ELSE dir[r]
  BY <1>1, <1>4 DEF TypeOK
<1>7. Contents(m)' = t
  BY <1>5, ContentsAfter
<1>8. s \in Files => dir[s].name = m
  BY <1>1, <1>3, LiveFiles
<1>9. dir'[s].name = m /\ \A r \in Slot \ {s} : dir'[r] = dir[r]
  BY <1>6, Kinds
<1>10. ASSUME NEW n \in Names \ {m} PROVE Contents(n)' = Contents(n)
  BY <1>4, <1>5, <1>8, <1>9, OtherNames
<1>11. QED
  BY <1>7, <1>10 DEF Kept

\* The text is written where the entry points to already.
LEMMA DataStore ==
    ASSUME DInv, DInv', Live, Live', Proceed, call.pc = "data"
    PROVE  Kept' = Kept
<1>1. TypeOK /\ SectorWrite /\ call.pc \in FilePcs
  BY DEF DInv, IInv, Proceed, FilePcs, WritePcs
<1>2. call \in FileCalls /\ call.op = "write"
  BY <1>1, FileCallTypes DEF RemovePcs
<1>3. PICK m \in Names, t \in Texts, s \in Slot, c \in Cluster :
         m = call.name /\ t = call.text /\ s = call.slot /\ c = call.cluster
  BY <1>2 DEF FileCalls
<1>4. c # ROOT
  BY <1>3 DEF DInv, IInv, Aimed, WritePcs, Live
<1>5. dir' = dir /\ data' = [data EXCEPT ![c] = t]
  BY <1>1, <1>3, <1>4 DEF SectorWrite, WriteFormat, SetFat, WriteFile, MarkDeleted, At
<1>6. call'.pc = "idle"
  BY AfterIs DEF Proceed, Idle
<1>7. s \in Files /\ dir[s].cluster = c
  BY <1>1, <1>3 DEF DInv, Accounts, Underway, Live
<1>8. /\ dir[s].name = m
      /\ \A r \in Files \ {s} : dir[r].cluster # c
  BY <1>1, <1>3, <1>7, LiveFiles
<1>9. data'[c] = t /\ \A d \in Cluster \ {c} : data'[d] = data[d]
  BY <1>1, <1>5 DEF TypeOK
<1>10. \A r \in Files \ {s} : data'[dir[r].cluster] = data[dir[r].cluster]
  BY <1>1, <1>8, <1>9, EntryOf DEF Files
<1>11. Contents(m) = t
  BY <1>3, ContentsIs
<1>12. Contents(m)' = t
  <2>1. s \in Files' /\ dir'[s].name = m /\ data'[dir'[s].cluster] = t
    BY <1>5, <1>7, <1>8, <1>9 DEF Files
  <2>2. QED
    BY <1>6, <2>1, ContentsAfter
<1>13. ASSUME NEW n \in Names \ {m} PROVE Contents(n)' = Contents(n)
  BY <1>3, <1>5, <1>6, <1>8, <1>10, OtherNames
<1>14. \A n \in Names : Contents(n)' = Contents(n)
  BY <1>11, <1>12, <1>13
<1>15. QED
  BY <1>14 DEF Kept

\* The entry is marked deleted: the name is gone.
LEMMA MarkStore ==
    ASSUME DInv, DInv', Live, Live', Proceed, call.pc = "mark"
    PROVE  \E m \in Names : Kept' = [Kept EXCEPT ![m] = NoText]
<1>1. TypeOK /\ SectorWrite /\ call.pc \in FilePcs
  BY DEF DInv, IInv, Proceed, FilePcs, RemovePcs
<1>2. call \in FileCalls
  BY <1>1, FileCallTypes
<1>3. PICK m \in Names, s \in Slot : m = call.name /\ s = call.slot
  BY <1>2 DEF FileCalls
<1>4. dir' = [dir EXCEPT ![s] = Deleted] /\ data' = data
  BY <1>1, <1>3 DEF SectorWrite, WriteFormat, SetFat, WriteFile, MarkDeleted, At
<1>5. call'.pc = "idle"
  BY AfterIs DEF Proceed, Idle
<1>6. \A r \in Slot : dir'[r] = IF r = s THEN Deleted ELSE dir[r]
  BY <1>1, <1>4 DEF TypeOK
<1>7. /\ s \in Files => dir[s].name = m
      /\ \A r \in Files \ {s} : dir[r].name # m
  BY <1>1, <1>3, LiveFiles
<1>8. s \notin Files' /\ Files' = Files \ {s} /\ \A r \in Slot \ {s} : dir'[r] = dir[r]
  BY <1>6, Kinds DEF Files
<1>9. Contents(m)' = NoText
  <2>1. \A r \in Files' : dir'[r].name # m
    BY <1>7, <1>8 DEF Files
  <2>2. QED
    BY <1>5, <2>1, ContentsAfter
<1>10. ASSUME NEW n \in Names \ {m} PROVE Contents(n)' = Contents(n)
  BY <1>4, <1>5, <1>7, <1>8, OtherNames
<1>11. QED
  BY <1>9, <1>10 DEF Kept

\* A format ends: there is nothing on the volume.
LEMMA RootStore ==
    ASSUME DInv, DInv', ~Live, Live', Proceed
    PROVE  Kept' = Kept
<1>1. call.pc = "root" /\ ~formatted
  BY DEF Proceed, Live, At
<1>2. \A n \in Names : Contents(n) = NoText
  BY <1>1 DEF Contents
<1>3. call'.pc = "idle"
  BY <1>1, AfterIs DEF Proceed, Idle
<1>4. dir' = [s \in Slot |-> End]
  BY <1>1 DEF Proceed, SectorWrite, WriteFormat, SetFat, WriteFile, MarkDeleted, At
<1>5. Files' = {}
  BY <1>4, Kinds DEF Files
<1>6. \A n \in Names : Contents(n)' = NoText
  BY <1>3, <1>5, ContentsAfter
<1>7. QED
  BY <1>2, <1>6 DEF Kept

\* Only three of the sector writes can be seen.
LEMMA SeenSteps ==
    ASSUME DInv, DInv', Live, Live', Next
    PROVE  \/ Proceed /\ call.pc \in {"entry", "data", "mark"}
           \/ dir' = dir /\ data' = data /\ call.pc # "data" /\ call'.pc # "data"
<1>1. TypeOK /\ formatted /\ faults = 0 /\ faults' = 0
  BY DEF DInv, IInv, Live
<1>2. CASE Select \/ Format \/ \E n \in Names : Remove(n) \/ \E t \in Texts : Write(n, t)
  BY <1>2 DEF Select, Format, Remove, Write, Mounted, At, disk
<1>3. CASE Find \/ FindMisses \/ FindFails \/ AllocFails
  BY <1>3 DEF Find, FindMisses, NotFound, FindFails, AllocFails, Fail, Local, Idle, At, disk
<1>4. CASE Alloc
  <2>1. call \in FileCalls
    BY <1>1, <1>4, CallShapes DEF Alloc, At, WritePcs
  <2>2. QED
    BY <1>4, <2>1 DEF Alloc, FileCalls, At, disk
<1>5. CASE WriteFails
  BY <1>1, <1>5 DEF WriteFails
<1>6. CASE PowerCut
  BY <1>1, <1>6 DEF PowerCut, At, Idle, disk
<1>7. CASE Proceed /\ call.pc \notin {"entry", "data", "mark"}
  <2>1. SectorWrite /\ call.pc \notin FormatPcs
    BY <1>1, <1>7 DEF Proceed, DInv, IInv, Formatting
  <2>2. call.pc \in {"free0", "free1", "take0", "take1"} /\ dir' = dir /\ data' = data
    BY <1>7, <2>1 DEF SectorWrite, WriteFormat, SetFat, WriteFile, MarkDeleted, At,
                      FormatPcs, WriteFat, disk
  <2>3. call \in FileCalls
    BY <1>1, <2>2, CallShapes DEF WritePcs, RemovePcs
  <2> DEFINE next == After[call.pc]
  <2>4. next \in {"free1", "alloc", "mark", "take1", "entry"}
    BY <2>2, AfterIs
  <2>5. call' = [call EXCEPT !.pc = next]
    BY <1>7, <2>4 DEF Proceed
  <2> HIDE DEF next
  <2>6. call'.pc = next
    BY <2>3, <2>5 DEF FileCalls
  <2>7. QED
    BY <2>2, <2>4, <2>6
<1>8. QED
  BY <1>2, <1>3, <1>4, <1>5, <1>6, <1>7 DEF Next

\* A step after which the volume is not formatted, or has seen a fault.
LEMMA LoseStep == DInv' /\ ~Live' => F!Lose
<1> SUFFICES ASSUME DInv', ~Live' PROVE F!Lose
  OBVIOUS
<1>1. faults' \in Nat
  BY DEF DInv, IInv, TypeOK
<1>2. ~formatted' \/ faults' > 0
  BY <1>1 DEF Live
<1>3. \A n \in Names : Contents(n)' = NoText
  BY <1>2 DEF Contents
<1>4. [n \in Names |-> Contents(n)]' = F!Empty
  BY <1>3 DEF F!Empty
<1>5. (formatted /\ faults = 0)' = FALSE
  BY DEF Live
<1>6. QED
  BY <1>4, <1>5 DEF F!Lose

LEMMA FaultsStep == Next => faults' \in {faults, faults + 1}
<1> SUFFICES ASSUME Next PROVE faults' \in {faults, faults + 1}
  OBVIOUS
<1>1. CASE Select \/ Format \/ \E n \in Names : Remove(n) \/ \E t \in Texts : Write(n, t)
  BY <1>1 DEF Select, Format, Remove, Write
<1>2. CASE Find \/ FindMisses \/ FindFails \/ Alloc \/ AllocFails
  BY <1>2 DEF Find, FindMisses, FindFails, Alloc, AllocFails
<1>3. CASE Proceed \/ WriteFails \/ PowerCut
  BY <1>3 DEF Proceed, WriteFails, PowerCut
<1>4. QED
  BY <1>1, <1>2, <1>3 DEF Next

LEMMA RefineStep == DInv /\ DInv' /\ [Next]_vars => [F!Next]_(F!vars)
<1> SUFFICES ASSUME DInv, DInv', [Next]_vars PROVE [F!Next]_(F!vars)
  OBVIOUS
<1>1. CASE ~Live'
  BY <1>1, LoseStep DEF F!Next
<1>2. CASE UNCHANGED vars
  <2>1. /\ formatted' = formatted /\ faults' = faults /\ call' = call
        /\ dir' = dir /\ data' = data
    BY <1>2 DEF vars, disk, made
  <2>2. [n \in Names |-> Contents(n)]' = [n \in Names |-> Contents(n)]
    BY <2>1 DEF Contents, At, Listed, Cat, SlotsOf, InUse
  <2>3. QED
    BY <2>1, <2>2 DEF F!vars
<1>3. CASE Next /\ Live' /\ ~Live
  <2>1. faults \in Nat /\ faults' \in {faults, faults + 1} /\ faults' = 0 /\ formatted'
    <3>1. faults' \in {faults, faults + 1}
      BY <1>3, FaultsStep
    <3>2. QED
      BY <1>3, <3>1 DEF DInv, IInv, TypeOK, Live
  <2>2. faults = 0
    BY <2>1
  <2>3. ~formatted
    BY <1>3, <2>2 DEF Live
  <2>4. Proceed
    BY <1>3, <2>1, <2>3
    DEF Next, Select, Format, Remove, Write, Find, FindMisses, NotFound, FindFails, Alloc,
        AllocFails, WriteFails, PowerCut, Fail, made
  <2>5. Kept' = Kept
    BY <1>3, <2>4, RootStore
  <2>6. ~(formatted /\ faults = 0) /\ (formatted /\ faults = 0)' = TRUE
    BY <1>3, <2>3 DEF Live
  <2>7. F!EndFormat
    BY <2>5, <2>6 DEF F!EndFormat, Kept
  <2>8. QED
    BY <2>7 DEF F!Next
<1>4. CASE Next /\ Live' /\ Live
  <2>1. (formatted /\ faults = 0)' = (formatted /\ faults = 0) /\ (formatted /\ faults = 0)
    BY <1>4 DEF Live
  <2>2. CASE Proceed /\ call.pc = "entry"
    <3>1. PICK m \in Names, t \in Texts : Kept' = [Kept EXCEPT ![m] = t]
      BY <1>4, <2>2, EntryStore
    <3>2. F!Put(m, t)
      BY <2>1, <3>1 DEF F!Put, Kept
    <3>3. QED
      BY <3>2 DEF F!Next
  <2>3. CASE Proceed /\ call.pc = "mark"
    <3>1. PICK m \in Names : Kept' = [Kept EXCEPT ![m] = NoText]
      BY <1>4, <2>3, MarkStore
    <3>2. CASE Kept[m] # NoText
      <4>1. F!Remove(m)
        BY <2>1, <3>1, <3>2 DEF F!Remove, Kept
      <4>2. QED
        BY <4>1 DEF F!Next
    <3>3. CASE Kept[m] = NoText
      <4>1. Kept' = Kept
        BY <3>1, <3>3 DEF Kept
      <4>2. QED
        BY <2>1, <4>1 DEF F!vars, Kept
    <3>4. QED
      BY <3>2, <3>3
  <2>4. ASSUME Kept' = Kept PROVE [F!Next]_(F!vars)
    BY <2>1, <2>4 DEF F!vars, Kept
  <2>5. CASE Proceed /\ call.pc = "data"
    BY <1>4, <2>4, <2>5, DataStore
  <2>6. CASE dir' = dir /\ data' = data /\ call.pc # "data" /\ call'.pc # "data"
    BY <1>4, <2>4, <2>6, SameStore
  <2>7. QED
    BY <1>4, <2>2, <2>3, <2>5, <2>6, SeenSteps
<1>5. QED
  BY <1>1, <1>2, <1>3, <1>4

LEMMA RefineInit == Init => F!Init
<1> SUFFICES ASSUME Init PROVE F!Init
  OBVIOUS
<1>1. ~formatted
  BY DEF Init
<1>2. [n \in Names |-> Contents(n)] = F!Empty
  BY <1>1 DEF Contents, F!Empty
<1>3. (formatted /\ faults = 0) = FALSE
  BY <1>1
<1>4. QED
  BY <1>2, <1>3 DEF F!Init

(***************************************************************************)
(* Until the first fault, the sector writes of fat32.c's commands do what  *)
(* FileStore promises: texts are replaced and removed as a whole, and no   *)
(* command touches another name's.                                         *)
(***************************************************************************)
THEOREM Refinement == Spec => ImplementsFileStore
<1>1. Init => F!Init
  BY RefineInit
<1>2. DInv /\ DInv' /\ [Next]_vars => [F!Next]_(F!vars)
  BY RefineStep
<1>3. QED
  BY <1>1, <1>2, DamageInvariance, PTL DEF Spec, ImplementsFileStore, F!Spec
=============================================================================
