-------------------------------- MODULE Vfs --------------------------------
(***************************************************************************)
(* The virtual file system, fs/vfs.c, over the two file systems kmain      *)
(* mounts: RamFs at "/" and the boot modules of fs/initrd.c at "/initrd".  *)
(*                                                                         *)
(* A path is the sequence of its names and whether it begins with "/"; a   *)
(* normalized one is the sequence alone.  Of the commands that go through  *)
(* the VFS, cd changes the working directory; ls and cat only read, and    *)
(* cat closes the descriptor it opens before it ends, so between commands  *)
(* the descriptor table is empty.  Paths are taken to have 16 names and    *)
(* VFS_MAX_PATH characters at most.                                        *)
(***************************************************************************)
EXTENDS RamFs, Initrd

CONSTANTS
    PathNames,  \* the names in paths and of modules
    First23,    \* of a name, what fits VFS_MAX_NAME with its 0
    CHUNK,      \* the size of cat's buffer
    Paths       \* the paths typed: [absolute : BOOLEAN, segs : Seq(PathNames \cup {Up})]

Up == ".."

ASSUME CutsAssumption ==
    /\ CHUNK \in Nat \ {0} /\ Names \subseteq PathNames
    /\ \A n \in PathNames :
          /\ First23[n] \in PathNames \ LongNames /\ First23[First23[n]] = First23[n]
          /\ First31[n] \in PathNames /\ First23[First31[n]] = First23[n]
          /\ First23[n] = n => First31[n] = n
    /\ LongNames = {n \in Names : First23[n] # n}
ASSUME PathsAssumption ==
    /\ Up \notin PathNames
    /\ \A p \in Paths : p.absolute \in BOOLEAN /\ p.segs \in Seq(PathNames \cup {Up})
ASSUME BootsAssumption ==
    /\ ModuleNames \in Seq(PathNames) /\ NoBase \notin PathNames
    /\ \A boot \in Boots :
          /\ boot \in Seq(Range(boot))
          /\ Cardinality({i \in DOMAIN boot : boot[i].module}) <= Len(ModuleNames)
          /\ \A tag \in Range(boot) :
                /\ tag.module \in BOOLEAN /\ tag.base \in PathNames \cup {NoBase}
                /\ tag.data \in Seq(Range(tag.data))

VARIABLE g_cwd

vars == <<g_nodes, tags, g_initrd, g_cwd>>

\* g_mounts after kmain; the mount point "/" is the empty sequence.
Mounts == {<<>>, <<InitrdName>>}

-----------------------------------------------------------------------------
(* From a path to a node.                                                  *)

\* normalize_path, which cuts long names
Normalize(p) ==
    LET Step(path, seg) ==
          IF seg # Up THEN Append(path, First23[seg])
          ELSE IF path = <<>> THEN path ELSE Front(path)
    IN  FoldLeft(Step, IF p.absolute THEN <<>> ELSE g_cwd, p.segs)

\* starts_with: behind the characters of the mount point the path has to end
\* or to go on with a "/".  For "/" that excludes all that lie below it.
StartsWith(path, m) == IF m = <<>> THEN path = <<>> ELSE IsPrefix(m, path)

NotFound == [mount |-> "none", is_dir |-> FALSE, node |-> NULL]

\* resolve_on_mount, with fs_lookup and with initrd_lookup.
RamFsLookup(names) ==
    LET Step(at, n) ==
          IF at = NULL \/ ~g_nodes[at].is_dir THEN NULL ELSE Find(at, n)
        i == FoldLeft(Step, Root, names)
    IN  IF i = NULL THEN NotFound
        ELSE [mount |-> "ramfs", is_dir |-> g_nodes[i].is_dir, node |-> i]

InitrdLookup(names) ==
    IF names = <<>> THEN [mount |-> "initrd", is_dir |-> TRUE, node |-> Root]
    ELSE IF Len(names) = 1 /\ InitrdFind(names[1]) > 0
    THEN [mount |-> "initrd", is_dir |-> FALSE, node |-> InitrdFind(names[1])]
    ELSE NotFound

\* find_mount prefers the longest mount point.
Resolve(path) ==
    LET found == {m \in Mounts : StartsWith(path, m)}
        mount == CHOOSE m \in found : \A other \in found : Len(m) >= Len(other)
        names == SubSeq(path, Len(mount) + 1, Len(path))
    IN  IF found = {} THEN NotFound
        ELSE IF mount = <<>> THEN RamFsLookup(names) ELSE InitrdLookup(names)

Exists(path) == Resolve(path) # NotFound

\* vfs_open without VFS_O_CREATE, which nobody passes
CanOpen(path) == Exists(path) /\ ~Resolve(path).is_dir

\* fs_read and initrd_read, from where the descriptor has got to
Read(data, pos) ==
    IF pos >= Len(data) THEN <<>>
    ELSE SubSeq(data, pos + 1, IF Len(data) - pos > CHUNK THEN pos + CHUNK ELSE Len(data))

\* vfs_read: at is the descriptor's node, pos its position.
VfsRead(at, pos) ==
    Read(IF at.mount = "ramfs" THEN g_nodes[at.node].text ELSE g_initrd[at.node].data, pos)

\* What app_cat_main prints, reading until there is no more.
CatOutput(path) ==
    LET from[pos \in Nat] ==
          LET chunk == VfsRead(Resolve(path), pos)
          IN  IF chunk = <<>> THEN <<>> ELSE chunk \o from[pos + Len(chunk)]
    IN  from[0]

-----------------------------------------------------------------------------
\* vfs_chdir
Chdir(p) ==
    /\ Resolve(Normalize(p)).is_dir
    /\ g_cwd' = Normalize(p)
    /\ UNCHANGED <<g_nodes, tags, g_initrd>>

Init == RamFsInit /\ InitrdInit /\ g_cwd = <<>>

Next ==
    \/ Fs /\ UNCHANGED <<tags, g_initrd, g_cwd>>
    \/ \E p \in Paths : Chdir(p)

Spec == Init /\ [][Next]_vars
=============================================================================
