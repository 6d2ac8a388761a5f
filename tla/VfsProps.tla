------------------------------ MODULE VfsProps ------------------------------
(***************************************************************************)
(* What must hold of the file systems behind the shell, Vfs.tla.           *)
(***************************************************************************)
EXTENDS Vfs

Texts == Seq(UNION {Range(t) : t \in Words})

TypeOK ==
    /\ g_nodes \in [Node -> [used : BOOLEAN, is_dir : BOOLEAN, name : Names \cup {NoName},
                             parent : Node \cup {NULL}, first_child : Node \cup {NULL},
                             next_sibling : Node \cup {NULL}, text : Texts]]
    \* data[size] = 0 is written behind the text
    /\ \A i \in Node : Len(g_nodes[i].text) < RAMFS_MAX_CONTENT
    /\ g_cwd \in Seq(PathNames)
    /\ tags \in Boots /\ Len(g_initrd) <= INITRD_MAX_FILES

(***************************************************************************)
(* The list of the root's children has every used node once and no other,  *)
(* with different names, and it ends: whatever was created, removed or     *)
(* refused half way, no node is lost and none is on the list twice.        *)
(***************************************************************************)
TableIntact ==
    LET used == {i \in Node \ {Root} : g_nodes[i].used}
    IN  /\ g_nodes[Root].used
        /\ Range(Children(Root)) = used
        /\ Len(Children(Root)) = Cardinality(used)
        /\ \A i \in used : /\ g_nodes[i].parent = Root
                           /\ Find(Root, g_nodes[i].name) = i

(***************************************************************************)
(* Wherever the user has gone to, which is always a directory, cat shows   *)
(* each boot module whole under its name in /initrd: a module that has     *)
(* come among the first INITRD_MAX_FILES, with a name that no module       *)
(* before it has and that the VFS does not cut.                            *)
(*                                                                         *)
(* A longer name ls shows and cat does not find, or it shows the file      *)
(* named by the beginning: the VFS keeps less of a name than the initrd.   *)
(***************************************************************************)
Number(i) == Cardinality({j \in 1 .. i : tags[j].module})    \* of modules so far
ModuleName(i) == BaseName(tags[i], Number(i) - 1)

ServedModules ==
    {i \in DOMAIN tags :
        /\ tags[i].module
        /\ Number(i) <= INITRD_MAX_FILES /\ First23[ModuleName(i)] = ModuleName(i)
        /\ \A j \in 1 .. i - 1 : tags[j].module => ModuleName(j) # ModuleName(i)}

ToInitrd(name) ==
    [absolute |-> FALSE, segs |-> [i \in DOMAIN g_cwd |-> Up] \o <<InitrdName, name>>]

ModulesServed ==
    /\ Resolve(g_cwd).is_dir
    /\ \A i \in ServedModules :
          LET path == Normalize(ToInitrd(ModuleName(i)))
          IN  CanOpen(path) /\ CatOutput(path) = tags[i].data

(***************************************************************************)
(* "fs mv" copies the text and then removes the source, also when the copy *)
(* was refused or cut.  Between two names of which the new one is not a    *)
(* directory's, the text that goes from one name is there under the other. *)
(* (With one name twice the file goes; a directory swallows it.)           *)
(***************************************************************************)
Files == {g_nodes[i].name : i \in {j \in Range(Children(Root)) : IsFile(j)}}
Text(n) == g_nodes[Find(Root, n)].text

MoveKeepsText ==
    [][\A a \in Files \ Files', b \in Names :
          FsMove(a, b) /\ a # b /\ (Find(Root, b) = NULL \/ b \in Files) =>
             b \in Files' /\ Text(b)' = Text(a)]_vars

-----------------------------------------------------------------------------
(***************************************************************************)
(* The fs commands treat the table as a map from names to texts, with room *)
(* for one name less than it has nodes.                                    *)
(***************************************************************************)
Directory == [k \in {0} |-> 0]      \* not a sequence, so no text

Entries ==
    LET used  == Range(Children(Root))
        At(n) == CHOOSE i \in used : g_nodes[i].name = n
    IN  [n \in {g_nodes[i].name : i \in used} |->
            IF IsFile(At(n)) THEN g_nodes[At(n)].text ELSE Directory]

N == INSTANCE NamedTexts WITH
        LIMIT   <- RAMFS_MAX_NODES - 1,
        LENGTH  <- RAMFS_MAX_CONTENT - 1,
        entries <- Entries

ImplementsNamedTexts == N!Spec

-----------------------------------------------------------------------------
(***************************************************************************)
(* README.md: RAMFS is mounted as the root file system "/" via the VFS,    *)
(* and cat shows a file through the VFS.  So a file that fs has written is *)
(* the file that cat shows under its name.                                 *)
(***************************************************************************)
FilesAreReached ==
    \A i \in Range(Children(Root)) : IsFile(i) =>
        LET path == <<g_nodes[i].name>>
        IN  CanOpen(path) /\ CatOutput(path) = g_nodes[i].text
=============================================================================
