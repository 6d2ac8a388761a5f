------------------------------- MODULE RamFs -------------------------------
(***************************************************************************)
(* The RAM file system, fs/ramfs.c, under the shell command fs             *)
(* (apps/app_fs.c), which works on the children of the root directory and  *)
(* past the virtual file system.                                           *)
(*                                                                         *)
(* g_nodes is the node table with its indices as the links, so that a list *)
(* that lost or doubled a node is a state of the model.  A command runs to *)
(* its end inside one keyboard interrupt: it is one step.                  *)
(***************************************************************************)
EXTENDS Integers, SequencesExt

CONSTANTS
    Names,              \* what the user types as a file name, never empty
    LongNames,          \* those of RAMFS_MAX_NAME characters and more
    InitrdName,         \* "initrd"
    Words,              \* the texts typed, as sequences of characters
    RAMFS_MAX_NODES,
    RAMFS_MAX_CONTENT

ASSUME NamesAssumption ==
    LongNames \subseteq Names /\ InitrdName \in Names \ LongNames
ASSUME SizesAssumption ==
    RAMFS_MAX_NODES \in Nat /\ RAMFS_MAX_NODES > 1 /\ RAMFS_MAX_CONTENT \in Nat \ {0}
ASSUME WordsAssumption == \A t \in Words : t \in Seq(Range(t))

VARIABLE g_nodes

Node   == 0 .. RAMFS_MAX_NODES - 1
Root   == 0
NULL   == -1            \* no node
NoName == "no name"     \* the empty string

Cleared == [used |-> FALSE, is_dir |-> FALSE, parent |-> 0, first_child |-> 0,
            next_sibling |-> 0, name |-> NoName, text |-> <<>>]
Fresh   == [Cleared EXCEPT !.used = TRUE, !.parent = NULL, !.first_child = NULL,
                           !.next_sibling = NULL]

-----------------------------------------------------------------------------
(* The list of children.                                                   *)

Unused == {i \in Node : ~g_nodes[i].used}

Lowest(S) == CHOOSE i \in S : \A j \in S : i <= j

\* The children of d in the order of the list, as fs_readdir goes through it.
Children(d) ==
    LET after == [i \in Node \cup {NULL} |-> IF i = NULL THEN NULL ELSE g_nodes[i].next_sibling]
        walk[k \in Node] == IF k = 0 THEN g_nodes[d].first_child ELSE after[walk[k - 1]]
    IN  [k \in 1 .. Cardinality({k \in Node : walk[k] # NULL}) |-> walk[k - 1]]

\* node_find_child
Find(d, n) ==
    LET children == Children(d)
        k == SelectInSeq(children, LAMBDA i : g_nodes[i].name = n)
    IN  IF k = 0 THEN NULL ELSE children[k]

IsFile(i) == i # NULL /\ ~g_nodes[i].is_dir

CreateUnlinked(d, n, dir) ==            \* broken: the list behind the new head is lost
    IF Unused = {} \/ n \in LongNames THEN g_nodes
    ELSE [g_nodes EXCEPT ![Lowest(Unused)] = [Fresh EXCEPT !.is_dir = dir, !.parent = d, !.name = n],
                         ![d].first_child = Lowest(Unused)]

\* node_create_child for a name that is not there: the new node becomes the
\* head of the list.  A long name is found out after the node was taken.
Create(d, n, dir) ==
    IF Unused = {} THEN g_nodes
    ELSE LET i == Lowest(Unused)
         IN  IF n \in LongNames THEN [g_nodes EXCEPT ![i] = [Fresh EXCEPT !.used = FALSE]]
             ELSE [g_nodes EXCEPT
                      ![i] = [Fresh EXCEPT !.is_dir = dir, !.parent = d, !.name = n,
                                           !.next_sibling = g_nodes[d].first_child],
                      ![d].first_child = i]

\* ramfs_remove: whoever pointed to i, root or sibling, points behind it.
Unlink(nodes, i) ==
    LET next == nodes[i].next_sibling
    IN  [j \in Node |->
            IF j = i THEN Cleared
            ELSE IF nodes[j].used /\ nodes[j].next_sibling = i
            THEN [nodes[j] EXCEPT !.next_sibling = next]
            ELSE IF j = Root /\ nodes[j].first_child = i
            THEN [nodes[j] EXCEPT !.first_child = next]
            ELSE nodes[j]]

-----------------------------------------------------------------------------
(* ramfs_write                                                             *)

CutTooLate(text) ==                     \* broken: no room for the 0 behind the text
    IF Len(text) > RAMFS_MAX_CONTENT THEN SubSeq(text, 1, RAMFS_MAX_CONTENT) ELSE text
Cut(text) ==
    IF Len(text) >= RAMFS_MAX_CONTENT THEN SubSeq(text, 1, RAMFS_MAX_CONTENT - 1) ELSE text

Touched(n) == IF Find(Root, n) # NULL THEN g_nodes ELSE Create(Root, n, FALSE)

\* What ramfs_touch does not refuse.
CanHave(n) == Find(Root, n) # NULL \/ (n \notin LongNames /\ Unused # {})

\* The node n has after the touch.
NodeOf(n) == IF Find(Root, n) # NULL THEN Find(Root, n) ELSE Lowest(Unused)

\* The table after ramfs_write.  A directory's node takes the text as well.
Written(n, text, append) ==
    IF ~CanHave(n) THEN Touched(n)
    ELSE [Touched(n) EXCEPT ![NodeOf(n)].text = Cut(IF append THEN @ \o text ELSE text)]

-----------------------------------------------------------------------------
(* The commands.                                                           *)

TouchEmpties(n) ==                      \* broken: a file that exists loses its text
    g_nodes' = IF CanHave(n) THEN [Touched(n) EXCEPT ![NodeOf(n)].text = <<>>] ELSE Touched(n)

FsTouch(n)     == g_nodes' = Touched(n)
FsWrite(n, t)  == g_nodes' = Written(n, t, FALSE)
FsAppend(n, t) == g_nodes' = Written(n, t, TRUE)

FsRemove(n) ==
    /\ Find(Root, n) # NULL
    /\ g_nodes' = Unlink(g_nodes, Find(Root, n))

\* The source is a file, or "source file not found".
FsCopy(a, b) ==
    /\ IsFile(Find(Root, a))
    /\ g_nodes' = Written(b, g_nodes[Find(Root, a)].text, FALSE)

FsMoveAnyway(a, b) ==                   \* broken: the source goes even without a copy
    /\ IsFile(Find(Root, a))
    /\ g_nodes' = Unlink(Written(b, g_nodes[Find(Root, a)].text, FALSE), Find(Root, a))

\* ramfs_remove looks the source up again: that finds the copy when the two
\* names are one.
FsMove(a, b) ==
    /\ IsFile(Find(Root, a))
    /\ LET copied == Written(b, g_nodes[Find(Root, a)].text, FALSE)
       IN  g_nodes' = IF CanHave(b) THEN Unlink(copied, Find(Root, a)) ELSE copied

Fs ==
    \/ \E n \in Names : FsTouch(n) \/ FsRemove(n)
    \/ \E n \in Names, t \in Words : FsWrite(n, t) \/ FsAppend(n, t)
    \/ \E a, b \in Names : FsCopy(a, b) \/ FsMove(a, b)

\* ramfs_init, and the directory kmain makes with vfs_mkdir.
RamFsInit ==
    g_nodes = [i \in Node |->
        IF i = Root
        THEN [Cleared EXCEPT !.used = TRUE, !.is_dir = TRUE, !.first_child = 1,
                             !.next_sibling = NULL]
        ELSE IF i = 1
        THEN [Fresh EXCEPT !.is_dir = TRUE, !.parent = Root, !.name = InitrdName]
        ELSE Cleared]
=============================================================================
