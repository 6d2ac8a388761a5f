------------------------------- MODULE Initrd -------------------------------
(***************************************************************************)
(* The file system of boot modules, fs/initrd.c: read-only, one directory, *)
(* filled once at boot from the tags the boot loader passes.               *)
(*                                                                         *)
(* A tag is [module, base, data]: whether it is a module's, what follows   *)
(* the last "/" in the first word of its command line, and its bytes.      *)
(***************************************************************************)
EXTENDS SequencesExt

CONSTANTS
    INITRD_MAX_FILES,
    First31,        \* of a name, what fits INITRD_MAX_NAME with its 0
    ModuleNames,    \* "module0", "module1", ...
    Boots           \* what boot loaders pass: sequences of tags

ASSUME InitrdAssumption == INITRD_MAX_FILES \in Nat

VARIABLES
    tags,           \* the boot information
    g_initrd        \* the files, [name, data]

NoBase == "no basename"

\* basename_from_cmdline
BaseName(tag, idx) == IF tag.base = NoBase THEN ModuleNames[idx + 1] ELSE First31[tag.base]

File(tag, idx) == [name |-> BaseName(tag, idx), data |-> tag.data]

LoadOverLast(read, tag) ==              \* broken: a full table takes it as its last file
    IF ~tag.module THEN read
    ELSE [idx   |-> read.idx + 1,
          files |-> Append(IF read.idx < INITRD_MAX_FILES THEN read.files ELSE Front(read.files),
                           File(tag, read.idx))]

\* Modules that find no room are left out, and counted.
Load(read, tag) ==
    IF ~tag.module THEN read
    ELSE [idx   |-> read.idx + 1,
          files |-> IF Len(read.files) < INITRD_MAX_FILES
                    THEN Append(read.files, File(tag, read.idx)) ELSE read.files]

\* initrd_mount_from_multiboot
InitrdInit ==
    /\ tags \in Boots
    /\ g_initrd = FoldLeft(Load, [idx |-> 0, files |-> <<>>], tags).files

\* initrd_lookup: the first file of that name, or 0.
InitrdFind(name) == SelectInSeq(g_initrd, LAMBDA file : file.name = name)
=============================================================================
