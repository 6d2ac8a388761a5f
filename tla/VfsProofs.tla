----------------------------- MODULE VfsProofs -----------------------------
(***************************************************************************)
(* Proofs, for tables, texts and boot modules of every size and number,    *)
(* that the file systems behind the shell keep what VfsProps.tla says, and *)
(* that the fs commands implement a map from names to texts.               *)
(***************************************************************************)
EXTENDS VfsProps, Numbers, SequenceTheorems, FiniteSetTheorems

-----------------------------------------------------------------------------
(* Children and Find of any table of nodes.                                *)

ChildrenIn(nodes) ==
    LET after == [i \in Node \cup {NULL} |-> IF i = NULL THEN NULL ELSE nodes[i].next_sibling]
        walk[k \in Node] == IF k = 0 THEN nodes[Root].first_child ELSE after[walk[k - 1]]
    IN  [k \in 1 .. Cardinality({k \in Node : walk[k] # NULL}) |-> walk[k - 1]]

FindIn(nodes, n) ==
    LET children == ChildrenIn(nodes)
        k == SelectInSeq(children, LAMBDA i : nodes[i].name = n)
    IN  IF k = 0 THEN NULL ELSE children[k]

Used(nodes)  == {i \in Node \ {Root} : nodes[i].used}
NamesOf(nodes) == {nodes[i].name : i \in Used(nodes)}

\* list has the n children of the root in the order of their links.
Linked(nodes, n, list) ==
    /\ n \in Nat /\ list \in [1 .. n -> Node \ {Root}]
    /\ \A j, k \in 1 .. n : list[j] = list[k] => j = k
    /\ n = 0 => nodes[Root].first_child = NULL
    /\ n > 0 => nodes[Root].first_child = list[1]
    /\ \A k \in 1 .. n - 1 : nodes[list[k]].next_sibling = list[k + 1]
    /\ n > 0 => nodes[list[n]].next_sibling = NULL
    /\ Used(nodes) = {list[k] : k \in 1 .. n}

Distinct(nodes) == \A i, j \in Used(nodes) : nodes[i].name = nodes[j].name => i = j

\* The list and its search as the commands see them.
LEMMA ChildrenAre ==
    /\ Children(Root) = ChildrenIn(g_nodes)
    /\ \A n : Find(Root, n) = FindIn(g_nodes, n)
<1>1. Children(Root) = ChildrenIn(g_nodes)
  BY Zenon DEF Children, ChildrenIn
<1>2. QED
  BY <1>1, Zenon DEF Find, FindIn

\* And after a step.
LEMMA ChildrenAreNext ==
    /\ Children(Root)' = ChildrenIn(g_nodes')
    /\ \A n : Find(Root, n)' = FindIn(g_nodes', n)
<1>1. Children(Root)' = ChildrenIn(g_nodes')
  BY DEF Children, ChildrenIn
<1>2. ASSUME NEW n PROVE Find(Root, n)' = FindIn(g_nodes', n)
  BY DEF Find, FindIn, Children, ChildrenIn, SelectInSeq
<1>3. QED
  BY <1>1, <1>2, Zenon

\* The positions of a list without repetition in the table are no more than that.
LEMMA ListFits ==
    ASSUME NEW nodes, NEW n, NEW list, Linked(nodes, n, list)
    PROVE  /\ n = Cardinality(Used(nodes)) /\ IsFiniteSet(Used(nodes))
           /\ n <= RAMFS_MAX_NODES - 1
<1>1. list \in Bijection(1 .. n, Used(nodes))
  <2>1. list \in [1 .. n -> Used(nodes)]
    BY DEF Linked
  <2>2. IsInjective(list)
    BY <2>1 DEF Linked, IsInjective
  <2>3. \A i \in Used(nodes) : \E k \in 1 .. n : list[k] = i
    BY DEF Linked
  <2>4. QED
    BY <2>1, <2>2, <2>3 DEF Bijection, Injection, Surjection
<1>2. IsFiniteSet(1 .. n) /\ Cardinality(1 .. n) = n
  <2>1. n \in Nat
    BY DEF Linked
  <2>2. QED
    BY <2>1, FS_Interval
<1>3. IsFiniteSet(Used(nodes)) /\ Cardinality(Used(nodes)) = n
  BY <1>1, <1>2, FS_Bijection DEF ExistsBijection
<1>4. IsFiniteSet(Node \ {Root}) /\ Cardinality(Node \ {Root}) = RAMFS_MAX_NODES - 1
  <2>1. Node \ {Root} = 1 .. RAMFS_MAX_NODES - 1
    BY SizesAssumption DEF Node, Root
  <2>2. 1 \in Int /\ RAMFS_MAX_NODES - 1 \in Int /\ ~ (1 > RAMFS_MAX_NODES - 1)
    BY SizesAssumption
  <2>3. /\ IsFiniteSet(1 .. RAMFS_MAX_NODES - 1)
        /\ Cardinality(1 .. RAMFS_MAX_NODES - 1) = RAMFS_MAX_NODES - 1 - 1 + 1
    BY <2>2, FS_Interval
  <2>4. RAMFS_MAX_NODES - 1 - 1 + 1 = RAMFS_MAX_NODES - 1
    BY SizesAssumption
  <2>5. QED
    BY <2>1, <2>3, <2>4, Zenon
<1>5. Cardinality(Used(nodes)) <= Cardinality(Node \ {Root})
  <2>1. Used(nodes) \subseteq Node \ {Root}
    BY DEF Used
  <2>2. QED
    BY <2>1, <1>4, FS_Subset
<1>6. QED
  BY <1>3, <1>4, <1>5

\* ChildrenIn follows the links.
LEMMA Walked ==
    ASSUME NEW nodes, NEW n, NEW list, Linked(nodes, n, list)
    PROVE  ChildrenIn(nodes) = list
<1> DEFINE after == [i \in Node \cup {NULL} |-> IF i = NULL THEN NULL ELSE nodes[i].next_sibling]
           Is(w) == w = [k \in Node |-> IF k = 0 THEN nodes[Root].first_child ELSE after[w[k - 1]]]
           walk == CHOOSE w : Is(w)
           seen == [k \in Node |-> IF k < n THEN list[k + 1] ELSE NULL]
<1>1. ChildrenIn(nodes) = [k \in 1 .. Cardinality({k \in Node : walk[k] # NULL}) |-> walk[k - 1]]
  BY Zenon DEF ChildrenIn
<1>2. /\ n \in Nat /\ n <= RAMFS_MAX_NODES - 1 /\ RAMFS_MAX_NODES \in Nat
      /\ list \in [1 .. n -> Node \ {Root}] /\ NULL \notin Node
  <2>1. n <= RAMFS_MAX_NODES - 1
    BY ListFits
  <2>2. NULL \notin Node
    BY SizesAssumption DEF Node, NULL
  <2>3. QED
    BY <2>1, <2>2, SizesAssumption DEF Linked
<1>3. Is(seen)
  <2>1. ASSUME NEW k \in Node
        PROVE  seen[k] = IF k = 0 THEN nodes[Root].first_child ELSE after[seen[k - 1]]
    <3>1. CASE k = 0
      BY <3>1, <1>2 DEF Linked, Node
    <3>2. CASE k # 0
      <4>1. k - 1 \in Node /\ k \in Nat \ {0}
        BY <1>2, <3>2 DEF Node
      <4>2. CASE k < n
        BY <1>2, <3>2, <4>1, <4>2 DEF Linked, Node
      <4>3. CASE k = n
        BY <1>2, <3>2, <4>1, <4>3 DEF Linked, Node
      <4>4. CASE k > n
        BY <1>2, <3>2, <4>1, <4>4
      <4>5. QED
        BY <1>2, <4>1, <4>2, <4>3, <4>4
    <3>3. QED
      BY <3>1, <3>2
  <2>2. seen = [k \in Node |-> seen[k]]
    OBVIOUS
  <2> HIDE DEF seen, after
  <2>3. QED
    BY <2>1, <2>2, Zenon
<1>4. Is(walk)
  BY <1>3, Zenon
<1> HIDE DEF walk
<1>5. \A k \in Node : walk[k] = seen[k]
  <2> DEFINE Bad == {k \in Node : walk[k] # seen[k]}
  <2>1. ASSUME Bad # {} PROVE FALSE
    <3>1. Bad \in SUBSET Nat
      BY DEF Node
    <3>2. PICK m \in Bad : \A k \in Bad : m <= k
      BY <2>1, <3>1, LeastPosition
    <3>3. m # 0
      <4>1. 0 \in Node
        BY <1>2, <3>2 DEF Node
      <4>2. walk[0] = nodes[Root].first_child /\ seen[0] = nodes[Root].first_child
        BY <1>3, <1>4, <4>1, Zenon
      <4>3. QED
        BY <3>2, <4>2
    <3>4. m \in Node /\ m - 1 \in Node /\ ~ (m <= m - 1)
      BY <1>2, <3>2, <3>3 DEF Node
    <3>5. walk[m - 1] = seen[m - 1]
      BY <3>2, <3>4
    <3>6. walk[m] = after[walk[m - 1]] /\ seen[m] = after[seen[m - 1]]
      <4> HIDE DEF seen, after
      <4>1. QED
        BY <1>3, <1>4, <3>3, <3>4, Zenon
    <3>7. QED
      BY <3>2, <3>5, <3>6
  <2>2. QED
    BY <2>1
<1>6. {k \in Node : walk[k] # NULL} = 0 .. n - 1
  <2>1. \A k \in Node : walk[k] # NULL <=> k < n
    BY <1>2, <1>5 DEF Node
  <2>2. QED
    BY <1>2, <2>1 DEF Node
<1>7. Cardinality(0 .. n - 1) = n
  <2>1. 0 \in Int /\ n - 1 \in Int
    BY <1>2
  <2>2. Cardinality(0 .. n - 1) = IF 0 > n - 1 THEN 0 ELSE n - 1 - 0 + 1
    BY <2>1, FS_Interval
  <2>3. QED
    BY <1>2, <2>2
<1>8. ChildrenIn(nodes) = [k \in 1 .. n |-> walk[k - 1]]
  BY <1>1, <1>6, <1>7
<1>9. \A k \in 1 .. n : walk[k - 1] = list[k]
  <2>1. ASSUME NEW k \in 1 .. n PROVE walk[k - 1] = list[k]
    <3>1. k - 1 \in Node /\ k - 1 < n /\ (k - 1) + 1 = k
      BY <1>2 DEF Node
    <3>2. seen[k - 1] = list[(k - 1) + 1]
      BY <3>1
    <3>3. QED
      BY <1>5, <3>1, <3>2
  <2>2. QED
    BY <2>1
<1>10. QED
  BY <1>2, <1>8, <1>9

\* What is found, in a table whose list is whole and whose names are distinct.
LEMMA Found ==
    ASSUME NEW nodes, NEW n, NEW list, Linked(nodes, n, list), Distinct(nodes)
    PROVE  /\ Range(ChildrenIn(nodes)) = Used(nodes)
           /\ Len(ChildrenIn(nodes)) = Cardinality(Used(nodes))
           /\ \A i \in Used(nodes) : FindIn(nodes, nodes[i].name) = i
           /\ \A m : m \notin NamesOf(nodes) => FindIn(nodes, m) = NULL
<1>1. ChildrenIn(nodes) = list /\ n = Cardinality(Used(nodes))
  BY Walked, ListFits
<1>2. /\ n \in Nat /\ list \in [1 .. n -> Node \ {Root}] /\ DOMAIN list = 1 .. n
      /\ Used(nodes) = {list[k] : k \in 1 .. n}
  BY DEF Linked
<1>3. Len(list) = n
  BY <1>2
<1>4. Range(list) = Used(nodes)
  BY <1>2 DEF Range
<1>5. ASSUME NEW m
      PROVE  FindIn(nodes, m) = LET K == {k \in 1 .. n : nodes[list[k]].name = m}
                                    j == IF K # {} THEN Min(K) ELSE 0
                                IN  IF j = 0 THEN NULL ELSE list[j]
  BY <1>1, <1>3, Zenon DEF FindIn, SelectInSeq
<1>6. ASSUME NEW i \in Used(nodes) PROVE FindIn(nodes, nodes[i].name) = i
  <2>1. PICK k \in 1 .. n : i = list[k]
    BY <1>2
  <2>2. {j \in 1 .. n : nodes[list[j]].name = nodes[i].name} = {k}
    <3>1. ASSUME NEW j \in 1 .. n, nodes[list[j]].name = nodes[i].name PROVE j = k
      <4>1. list[j] \in Used(nodes)
        BY <1>2
      <4>2. list[j] = i
        BY <3>1, <4>1 DEF Distinct
      <4>3. QED
        BY <2>1, <4>2 DEF Linked
    <3>2. QED
      BY <2>1, <3>1
  <2>3. Min({k}) = k
    <3>1. \A x : x \in {k} /\ (\A y \in {k} : x <= y) => x = k
      OBVIOUS
    <3>2. k \in {k} /\ (\A y \in {k} : k <= y)
      OBVIOUS
    <3>3. QED
      BY <3>1, <3>2, Zenon DEF Min
  <2>4. {k} # {} /\ k # 0
    OBVIOUS
  <2>5. QED
    BY <1>5, <2>1, <2>2, <2>3, <2>4
<1>7. ASSUME NEW m, m \notin NamesOf(nodes) PROVE FindIn(nodes, m) = NULL
  <2>1. {k \in 1 .. n : nodes[list[k]].name = m} = {}
    BY <1>2, <1>7 DEF NamesOf
  <2>2. QED
    BY <1>5, <2>1
<1>8. QED
  BY <1>1, <1>3, <1>4, <1>6, <1>7

-----------------------------------------------------------------------------
(* A table that is whole, and the entries it stands for.                   *)

NodeRecord == [used : BOOLEAN, is_dir : BOOLEAN, name : Names \cup {NoName},
               parent : Node \cup {NULL}, first_child : Node \cup {NULL},
               next_sibling : Node \cup {NULL}, text : Texts]

Typed(nodes) ==
    /\ nodes \in [Node -> NodeRecord]
    /\ \A i \in Node : Len(nodes[i].text) < RAMFS_MAX_CONTENT

Rooted(nodes) ==
    /\ nodes[Root].used /\ nodes[Root].is_dir /\ nodes[Root].next_sibling = NULL
    /\ \A i \in Used(nodes) : nodes[i].parent = Root /\ nodes[i].name \in Names

Intact(nodes) ==
    /\ Typed(nodes) /\ Rooted(nodes) /\ Distinct(nodes)
    /\ \E n, list : Linked(nodes, n, list)

Shown(nodes, i) == IF nodes[i].is_dir THEN Directory ELSE nodes[i].text

EntriesOf(nodes) ==
    [m \in NamesOf(nodes) |-> Shown(nodes, CHOOSE i \in Used(nodes) : nodes[i].name = m)]

\* The entries of an intact table: one for each node's name, with what the node shows.
LEMMA EntriesAre ==
    ASSUME NEW nodes, Distinct(nodes)
    PROVE  /\ DOMAIN EntriesOf(nodes) = NamesOf(nodes)
           /\ \A i \in Used(nodes) : /\ nodes[i].name \in NamesOf(nodes)
                                     /\ EntriesOf(nodes)[nodes[i].name] = Shown(nodes, i)
<1>1. ASSUME NEW i \in Used(nodes)
      PROVE  /\ nodes[i].name \in NamesOf(nodes)
             /\ EntriesOf(nodes)[nodes[i].name] = Shown(nodes, i)
  <2>1. nodes[i].name \in NamesOf(nodes)
    BY DEF NamesOf
  <2>2. (CHOOSE j \in Used(nodes) : nodes[j].name = nodes[i].name) = i
    BY Zenon DEF Distinct
  <2>3. QED
    BY <2>1, <2>2 DEF EntriesOf
<1>2. QED
  BY <1>1 DEF EntriesOf

\* Two maps with these entries are one.
LEMMA EntriesOnly ==
    ASSUME NEW nodes, Distinct(nodes), NEW D, NEW e, e = [m \in D |-> e[m]],
           D = NamesOf(nodes), \A i \in Used(nodes) : e[nodes[i].name] = Shown(nodes, i)
    PROVE  EntriesOf(nodes) = e
<1>1. EntriesOf(nodes) = [m \in D |-> EntriesOf(nodes)[m]]
  BY DEF EntriesOf
<1>2. ASSUME NEW m \in D PROVE EntriesOf(nodes)[m] = e[m]
  <2>1. PICK i \in Used(nodes) : m = nodes[i].name
    BY DEF NamesOf
  <2>2. QED
    BY <2>1, EntriesAre
<1>3. QED
  BY <1>1, <1>2, Zenon

\* The nodes but the root, and what is not among the used ones.
LEMMA RootIsNode == Root \in Node /\ Node \subseteq Nat /\ NULL \notin Node /\ 1 \in Node
BY SizesAssumption DEF Root, Node, NULL

\* The used nodes are some of the nodes.
LEMMA UsedIn ==
    ASSUME NEW nodes, NEW i \in Used(nodes)
    PROVE  i \in Node /\ i # Root /\ nodes[i].used
BY DEF Used

\* An empty text fits.
LEMMA EmptyText == <<>> \in Texts /\ Len(<<>>) < RAMFS_MAX_CONTENT
BY SizesAssumption DEF Texts

\* A node as it is cleared, and as it is taken.
LEMMA FreshIs ==
    /\ Cleared \in NodeRecord /\ ~ Cleared.used /\ Cleared.text = <<>> /\ ~ Cleared.is_dir
    /\ Fresh \in NodeRecord /\ Fresh.used /\ ~ Fresh.is_dir /\ Fresh.text = <<>>
<1>1. Cleared \in NodeRecord /\ ~ Cleared.used /\ Cleared.text = <<>> /\ ~ Cleared.is_dir
  BY EmptyText, RootIsNode DEF Cleared, NodeRecord, Root
<1>2. Fresh \in NodeRecord /\ Fresh.used /\ ~ Fresh.is_dir /\ Fresh.text = <<>>
  BY <1>1 DEF Fresh, NodeRecord
<1>3. QED
  BY <1>1, <1>2

\* The list of another table whose used nodes have the same links.
LEMMA SameLinks ==
    ASSUME NEW nodes, NEW new, NEW n, NEW list, Linked(nodes, n, list),
           Used(new) = Used(nodes), new[Root].first_child = nodes[Root].first_child,
           \A j \in Used(nodes) : new[j].next_sibling = nodes[j].next_sibling
    PROVE  Linked(new, n, list)
<1>1. \A k \in 1 .. n : new[list[k]].next_sibling = nodes[list[k]].next_sibling
  BY DEF Linked
<1>2. n \in Nat
  BY DEF Linked
<1>3. \A k \in 1 .. n - 1 : new[list[k]].next_sibling = list[k + 1]
  <2>1. ASSUME NEW k \in 1 .. n - 1 PROVE new[list[k]].next_sibling = list[k + 1]
    <3>1. k \in 1 .. n
      BY <1>2
    <3>2. nodes[list[k]].next_sibling = list[k + 1]
      BY Zenon DEF Linked
    <3>3. QED
      BY <1>1, <3>1, <3>2
  <2>2. QED
    BY <2>1
<1>4. n > 0 => new[list[n]].next_sibling = NULL
  <2>1. ASSUME n > 0 PROVE new[list[n]].next_sibling = NULL
    <3>1. n \in 1 .. n
      BY <1>2, <2>1
    <3>2. nodes[list[n]].next_sibling = NULL
      BY <2>1, Zenon DEF Linked
    <3>3. QED
      BY <1>1, <3>1, <3>2
  <2>2. QED
    BY <2>1
<1>5. QED
  BY <1>3, <1>4, Zenon DEF Linked

\* The links of a list, one by one.
LEMMA LinksAre ==
    ASSUME NEW nodes, NEW n, NEW list, Linked(nodes, n, list)
    PROVE  /\ n \in Nat /\ list \in [1 .. n -> Node \ {Root}]
           /\ \A k \in 1 .. n : list[k] \in Used(nodes)
           /\ \A j \in Used(nodes) : \E k \in 1 .. n : j = list[k]
           /\ \A k \in 1 .. n : nodes[list[k]].next_sibling = IF k = n THEN NULL ELSE list[k + 1]
           /\ nodes[Root].first_child = IF n = 0 THEN NULL ELSE list[1]
<1>1. n \in Nat /\ list \in [1 .. n -> Node \ {Root}] /\ Used(nodes) = {list[k] : k \in 1 .. n}
  BY Zenon DEF Linked
<1>2. ASSUME NEW k \in 1 .. n
      PROVE  nodes[list[k]].next_sibling = IF k = n THEN NULL ELSE list[k + 1]
  <2>1. CASE k = n
    <3>1. n > 0
      BY <1>1, <2>1
    <3>2. nodes[list[n]].next_sibling = NULL
      BY <3>1, Zenon DEF Linked
    <3>3. QED
      BY <2>1, <3>2
  <2>2. CASE k # n
    <3>1. k \in 1 .. n - 1
      BY <1>1, <2>2
    <3>2. nodes[list[k]].next_sibling = list[k + 1]
      BY <3>1, Zenon DEF Linked
    <3>3. QED
      BY <2>2, <3>2
  <2>3. QED
    BY <2>1, <2>2
<1>3. nodes[Root].first_child = IF n = 0 THEN NULL ELSE list[1]
  <2>1. n = 0 \/ n > 0
    BY <1>1
  <2>2. QED
    BY <2>1, Zenon DEF Linked
<1>4. QED
  BY <1>1, <1>2, <1>3

\* And a list is linked when they are.
LEMMA LinkedWhen ==
    ASSUME NEW nodes, NEW n \in Nat, NEW list \in [1 .. n -> Node \ {Root}],
           \A j, k \in 1 .. n : list[j] = list[k] => j = k,
           \A k \in 1 .. n : list[k] \in Used(nodes),
           \A j \in Used(nodes) : \E k \in 1 .. n : j = list[k],
           \A k \in 1 .. n : nodes[list[k]].next_sibling = IF k = n THEN NULL ELSE list[k + 1],
           nodes[Root].first_child = IF n = 0 THEN NULL ELSE list[1]
    PROVE  Linked(nodes, n, list)
<1>1. Used(nodes) = {list[k] : k \in 1 .. n}
  OBVIOUS
<1>2. \A k \in 1 .. n - 1 : nodes[list[k]].next_sibling = list[k + 1]
  <2>1. \A k \in 1 .. n - 1 : k \in 1 .. n /\ k # n
    OBVIOUS
  <2>2. QED
    BY <2>1
<1>3. n > 0 => n \in 1 .. n /\ n # 0
  OBVIOUS
<1>4. n > 0 => nodes[list[n]].next_sibling = NULL
  BY <1>3
<1>5. QED
  BY <1>1, <1>2, <1>3, <1>4, Zenon DEF Linked

-----------------------------------------------------------------------------
(* What the changes of a table do to it.                                   *)

SetText(nodes, i, t) == [nodes EXCEPT ![i].text = t]
Abandon(nodes, i)    == [nodes EXCEPT ![i] = [Fresh EXCEPT !.used = FALSE]]
Add(nodes, i, m) ==
    [nodes EXCEPT
        ![i] = [Fresh EXCEPT !.is_dir = FALSE, !.parent = Root, !.name = m,
                             !.next_sibling = nodes[Root].first_child],
        ![Root].first_child = i]

\* The text of a node that is used.
LEMMA TextChanged ==
    ASSUME NEW nodes, Intact(nodes), NEW i \in Used(nodes),
           NEW t \in Texts, Len(t) < RAMFS_MAX_CONTENT,
           NEW new, new = SetText(nodes, i, t)
    PROVE  /\ Intact(new)
           /\ Used(new) = Used(nodes) /\ NamesOf(new) = NamesOf(nodes)
           /\ \A j \in Node : /\ new[j].name = nodes[j].name /\ new[j].is_dir = nodes[j].is_dir
                              /\ new[j].text = IF j = i THEN t ELSE nodes[j].text
<1>1. nodes \in [Node -> NodeRecord] /\ i \in Node
  BY DEF Intact, Typed, Used
<1>2. ASSUME NEW j \in Node
      PROVE  /\ new[j] \in NodeRecord
             /\ new[j].used = nodes[j].used /\ new[j].is_dir = nodes[j].is_dir
             /\ new[j].name = nodes[j].name /\ new[j].parent = nodes[j].parent
             /\ new[j].first_child = nodes[j].first_child
             /\ new[j].next_sibling = nodes[j].next_sibling
             /\ new[j].text = IF j = i THEN t ELSE nodes[j].text
  BY <1>1 DEF NodeRecord, SetText
<1>3. Typed(new)
  <2>1. new \in [Node -> NodeRecord]
    BY <1>1, <1>2 DEF SetText
  <2>2. ASSUME NEW j \in Node PROVE Len(new[j].text) < RAMFS_MAX_CONTENT
    BY <1>2 DEF Intact, Typed
  <2>3. QED
    BY <2>1, <2>2 DEF Typed
<1>4. Used(new) = Used(nodes)
  BY <1>2 DEF Used
<1>5. \A j \in Used(new) : j \in Node
  BY DEF Used
<1>6. Rooted(new)
  <2>1. new[Root].used /\ new[Root].is_dir /\ new[Root].next_sibling = NULL
    BY <1>2, RootIsNode DEF Intact, Rooted
  <2>2. \A j \in Used(nodes) : nodes[j].parent = Root /\ nodes[j].name \in Names
    BY DEF Intact, Rooted
  <2>3. \A j \in Used(new) : new[j].parent = Root /\ new[j].name \in Names
    BY <1>2, <1>4, <1>5, <2>2
  <2>4. QED
    BY <2>1, <2>3 DEF Rooted
<1>7. Distinct(new)
  BY <1>2, <1>4, <1>5 DEF Intact, Distinct
<1>8. \E n, list : Linked(new, n, list)
  <2>1. PICK n, list : Linked(nodes, n, list)
    BY DEF Intact
  <2>2. \A j \in Used(nodes) : new[j].next_sibling = nodes[j].next_sibling
    BY <1>2, <1>4, <1>5
  <2>3. new[Root].first_child = nodes[Root].first_child
    BY <1>2, RootIsNode
  <2>4. Linked(new, n, list)
    BY <1>4, <2>1, <2>2, <2>3, SameLinks
  <2>5. QED
    BY <2>4
<1>9. NamesOf(new) = NamesOf(nodes)
  BY <1>2, <1>4, <1>5 DEF NamesOf
<1>10. QED
  BY <1>2, <1>3, <1>4, <1>6, <1>7, <1>8, <1>9 DEF Intact

\* A node that was taken and, with its name too long, given up again.
LEMMA Abandoned ==
    ASSUME NEW nodes, Intact(nodes), NEW i \in Node, ~ nodes[i].used,
           NEW new, new = Abandon(nodes, i)
    PROVE  /\ Intact(new)
           /\ Used(new) = Used(nodes) /\ NamesOf(new) = NamesOf(nodes)
           /\ \A j \in Used(nodes) : new[j] = nodes[j]
<1>1. nodes \in [Node -> NodeRecord] /\ i # Root
  BY DEF Intact, Typed, Rooted
<1>2. /\ [Fresh EXCEPT !.used = FALSE] \in NodeRecord
      /\ [Fresh EXCEPT !.used = FALSE].used = FALSE
      /\ [Fresh EXCEPT !.used = FALSE].text = <<>>
  BY FreshIs DEF NodeRecord
<1>3. /\ new[i] \in NodeRecord /\ ~ new[i].used /\ new[i].text = <<>>
      /\ \A j \in Node : j # i => new[j] = nodes[j]
      /\ new \in [Node -> NodeRecord]
  BY <1>1, <1>2 DEF Abandon
<1>4. Typed(new)
  <2>1. Len(<<>>) < RAMFS_MAX_CONTENT
    BY SizesAssumption
  <2>2. QED
    BY <1>3, <2>1 DEF Intact, Typed
<1>5. Used(new) = Used(nodes)
  BY <1>3 DEF Used
<1>6. \A j \in Used(nodes) : new[j] = nodes[j]
  BY <1>3 DEF Used
<1>7. new[Root] = nodes[Root]
  BY <1>1, <1>3, RootIsNode
<1>8. Rooted(new)
  BY <1>5, <1>6, <1>7 DEF Intact, Rooted
<1>9. Distinct(new) /\ NamesOf(new) = NamesOf(nodes)
  BY <1>5, <1>6 DEF Intact, Distinct, NamesOf
<1>10. \E n, list : Linked(new, n, list)
  <2>1. PICK n, list : Linked(nodes, n, list)
    BY DEF Intact
  <2>4. Linked(new, n, list)
    BY <1>5, <1>6, <1>7, <2>1, SameLinks
  <2>5. QED
    BY <2>4
<1>11. QED
  BY <1>4, <1>5, <1>6, <1>8, <1>9, <1>10 DEF Intact

\* A new node at the head of the list.
LEMMA Added ==
    ASSUME NEW nodes, Intact(nodes), NEW i \in Node, ~ nodes[i].used,
           NEW m \in Names, m \notin NamesOf(nodes),
           NEW new, new = Add(nodes, i, m)
    PROVE  /\ Intact(new)
           /\ Used(new) = Used(nodes) \cup {i} /\ NamesOf(new) = NamesOf(nodes) \cup {m}
           /\ \A j \in Used(nodes) : new[j] = nodes[j]
           /\ new[i].name = m /\ ~ new[i].is_dir /\ new[i].text = <<>>
<1>1. nodes \in [Node -> NodeRecord] /\ i # Root
  BY DEF Intact, Typed, Rooted
<1> DEFINE first == nodes[Root].first_child
           fresh == [Fresh EXCEPT !.is_dir = FALSE, !.parent = Root, !.name = m, !.next_sibling = first]
<1>2. first \in Node \cup {NULL}
  BY <1>1, RootIsNode DEF NodeRecord
<1>3. /\ fresh \in NodeRecord
      /\ fresh.used /\ ~ fresh.is_dir /\ fresh.parent = Root /\ fresh.name = m
      /\ fresh.next_sibling = first /\ fresh.text = <<>>
  <2> HIDE DEF first
  <2>1. QED
    BY <1>2, FreshIs, RootIsNode DEF NodeRecord
<1>4. /\ new[i] = fresh
      /\ \A j \in Node : j # i /\ j # Root => new[j] = nodes[j]
      /\ new[Root] = [nodes[Root] EXCEPT !.first_child = i]
      /\ new \in [Node -> NodeRecord]
  <2>1. [nodes[Root] EXCEPT !.first_child = i] \in NodeRecord
    BY <1>1, RootIsNode DEF NodeRecord
  <2> HIDE DEF fresh
  <2>2. new = [[nodes EXCEPT ![i] = fresh] EXCEPT ![Root].first_child = i]
    BY Zenon DEF fresh, Add
  <2>3. QED
    BY <1>1, <1>3, <2>1, <2>2, RootIsNode
<1> HIDE DEF fresh
<1>5. /\ new[Root].used /\ new[Root].is_dir /\ new[Root].next_sibling = NULL
      /\ new[Root].first_child = i /\ new[Root].text = nodes[Root].text
  BY <1>1, <1>4, RootIsNode DEF Intact, Rooted, NodeRecord
<1>6. Typed(new)
  <2>1. Len(<<>>) < RAMFS_MAX_CONTENT
    BY SizesAssumption
  <2>2. ASSUME NEW j \in Node PROVE Len(new[j].text) < RAMFS_MAX_CONTENT
    BY <1>3, <1>4, <1>5, <2>1 DEF Intact, Typed
  <2>3. QED
    BY <1>4, <2>2 DEF Typed
<1>7. Used(new) = Used(nodes) \cup {i}
  BY <1>1, <1>3, <1>4 DEF Used
<1>8. \A j \in Used(nodes) : j # i /\ new[j] = nodes[j]
  BY <1>4 DEF Used
<1>9. Rooted(new)
  <2>1. new[i].parent = Root /\ new[i].name \in Names
    BY <1>3, <1>4
  <2>2. \A j \in Used(nodes) : new[j].parent = Root /\ new[j].name \in Names
    BY <1>8 DEF Intact, Rooted
  <2>3. QED
    BY <1>5, <1>7, <2>1, <2>2 DEF Rooted
<1>10. new[i].name = m /\ \A j \in Used(nodes) : new[j].name = nodes[j].name /\ nodes[j].name # m
  BY <1>3, <1>4, <1>8 DEF NamesOf
<1>11. Distinct(new) /\ NamesOf(new) = NamesOf(nodes) \cup {m}
  <2>1. Distinct(nodes)
    BY DEF Intact
  <2>2. Distinct(new)
    BY <1>7, <1>10, <2>1 DEF Distinct
  <2>3. \A x : x \in NamesOf(new) <=> x \in NamesOf(nodes) \/ x = m
    BY <1>7, <1>10 DEF NamesOf
  <2>4. QED
    BY <2>2, <2>3
<1>12. \E n, list : Linked(new, n, list)
  <2>1. PICK n, list : Linked(nodes, n, list)
    BY DEF Intact
  <2>2. n \in Nat /\ list \in [1 .. n -> Node \ {Root}]
    BY <2>1 DEF Linked
  <2> DEFINE longer == [k \in 1 .. n + 1 |-> IF k = 1 THEN i ELSE list[k - 1]]
  <2>3. longer[1] = i /\ \A k \in 1 .. n : longer[k + 1] = list[k]
    BY <2>2
  <2>4. longer \in [1 .. n + 1 -> Node \ {Root}]
    BY <1>1, <2>2
  <2>5. ASSUME NEW k \in 1 .. n + 1, k # 1 PROVE k - 1 \in 1 .. n /\ longer[k] = list[k - 1]
    BY <2>2, <2>5
  <2> HIDE DEF longer
  <2>6. \A k \in 1 .. n : list[k] \in Used(nodes)
    BY <2>1 DEF Linked
  <2>7. \A j, k \in 1 .. n + 1 : longer[j] = longer[k] => j = k
    <3>1. ASSUME NEW j \in 1 .. n + 1, NEW k \in 1 .. n + 1, longer[j] = longer[k] PROVE j = k
      <4>1. CASE j = 1 /\ k # 1
        BY <1>8, <2>3, <2>5, <2>6, <3>1, <4>1
      <4>2. CASE j # 1 /\ k = 1
        BY <1>8, <2>3, <2>5, <2>6, <3>1, <4>2
      <4>3. CASE j # 1 /\ k # 1
        <5>1. j - 1 \in 1 .. n /\ k - 1 \in 1 .. n /\ list[j - 1] = list[k - 1]
          BY <2>5, <3>1, <4>3
        <5>2. j - 1 = k - 1
          BY <2>1, <5>1 DEF Linked
        <5>3. QED
          BY <2>2, <5>2
      <4>4. QED
        BY <4>1, <4>2, <4>3
    <3>2. QED
      BY <3>1
  <2>8. new[longer[1]].next_sibling = IF n = 0 THEN NULL ELSE list[1]
    BY <1>3, <1>4, <2>1, <2>2, <2>3 DEF Linked
  <2>9. ASSUME NEW k \in 1 .. n
        PROVE  new[longer[k + 1]].next_sibling = IF k = n THEN NULL ELSE list[k + 1]
    <3>1. new[longer[k + 1]] = nodes[list[k]]
      BY <1>8, <2>3, <2>6
    <3>2. nodes[list[k]].next_sibling = IF k = n THEN NULL ELSE list[k + 1]
      BY <2>1, LinksAre
    <3>3. QED
      BY <3>1, <3>2
  <2>10. ASSUME NEW k \in 1 .. n + 1
         PROVE  new[longer[k]].next_sibling = IF k = n + 1 THEN NULL ELSE longer[k + 1]
    <3>1. CASE k = 1
      BY <2>2, <2>3, <2>8, <3>1
    <3>2. CASE k # 1
      <4>1. k - 1 \in 1 .. n /\ (k - 1) + 1 = k
        BY <2>2, <3>2
      <4>2. new[longer[k]].next_sibling = IF k - 1 = n THEN NULL ELSE list[k]
        BY <2>9, <4>1
      <4>3. k # n + 1 => k \in 1 .. n
        BY <2>2
      <4>4. QED
        BY <2>2, <2>3, <4>1, <4>2, <4>3
    <3>3. QED
      BY <3>1, <3>2
  <2>11. Used(new) = {longer[k] : k \in 1 .. n + 1}
    <3>1. Used(nodes) = {list[k] : k \in 1 .. n}
      BY <2>1 DEF Linked
    <3>2. \A k \in 1 .. n : k + 1 \in 1 .. n + 1
      BY <2>2
    <3>3. 1 \in 1 .. n + 1
      BY <2>2
    <3>4. \A x \in Used(new) : \E k \in 1 .. n + 1 : x = longer[k]
      BY <1>7, <2>3, <3>1, <3>2, <3>3
    <3>5. \A k \in 1 .. n + 1 : longer[k] \in Used(new)
      BY <1>7, <2>3, <2>5, <2>6
    <3>6. QED
      BY <3>4, <3>5
  <2>12. Linked(new, n + 1, longer)
    <3>1. n + 1 \in Nat /\ n + 1 > 0 /\ n + 1 # 0
      BY <2>2
    <3>2. \A k \in 1 .. (n + 1) - 1 : k \in 1 .. n + 1 /\ k # n + 1
      BY <2>2
    <3>3. n + 1 \in 1 .. n + 1
      BY <2>2
    <3>4. new[longer[n + 1]].next_sibling = NULL
      BY <2>10, <3>3
    <3>5. \A k \in 1 .. (n + 1) - 1 : new[longer[k]].next_sibling = longer[k + 1]
      BY <2>10, <3>2
    <3>6. QED
      BY <1>5, <2>3, <2>4, <2>7, <2>11, <3>1, <3>4, <3>5, Zenon DEF Linked
  <2>13. QED
    BY <2>12
<1>13. QED
  BY <1>3, <1>4, <1>6, <1>7, <1>8, <1>9, <1>10, <1>11, <1>12 DEF Intact

\* A node that is taken off the list.
LEMMA Removed ==
    ASSUME NEW nodes, Intact(nodes), NEW i \in Used(nodes), NEW new, new = Unlink(nodes, i)
    PROVE  /\ Intact(new)
           /\ Used(new) = Used(nodes) \ {i}
           /\ NamesOf(new) = NamesOf(nodes) \ {nodes[i].name}
           /\ \A j \in Used(new) : /\ new[j].name = nodes[j].name /\ new[j].is_dir = nodes[j].is_dir
                                   /\ new[j].text = nodes[j].text
<1>1. /\ nodes \in [Node -> NodeRecord] /\ i \in Node /\ i # Root /\ NULL \notin Node /\ Root \in Node
      /\ nodes[Root].used /\ nodes[Root].is_dir /\ nodes[Root].next_sibling = NULL
  BY RootIsNode DEF Intact, Typed, Rooted, Used
<1> DEFINE next == nodes[i].next_sibling
<1>2. next \in Node \cup {NULL}
  BY <1>1 DEF NodeRecord
<1>3. new = [j \in Node |->
               IF j = i THEN Cleared
               ELSE IF nodes[j].used /\ nodes[j].next_sibling = i
               THEN [nodes[j] EXCEPT !.next_sibling = next]
               ELSE IF j = Root /\ nodes[j].first_child = i
               THEN [nodes[j] EXCEPT !.first_child = next]
               ELSE nodes[j]]
  BY Zenon DEF Unlink
<1> HIDE DEF next
<1>4. new[i] = Cleared
  BY <1>1, <1>3
<1>5. ASSUME NEW j \in Node, j # i, j # Root
      PROVE  /\ new[j] \in NodeRecord
             /\ new[j].used = nodes[j].used /\ new[j].is_dir = nodes[j].is_dir
             /\ new[j].name = nodes[j].name /\ new[j].parent = nodes[j].parent
             /\ new[j].text = nodes[j].text
             /\ nodes[j].used => new[j].next_sibling = IF nodes[j].next_sibling = i THEN next
                                                      ELSE nodes[j].next_sibling
  <2>1. nodes[j] \in NodeRecord
    BY <1>1
  <2>2. new[j] = IF nodes[j].used /\ nodes[j].next_sibling = i
                 THEN [nodes[j] EXCEPT !.next_sibling = next] ELSE nodes[j]
    BY <1>3, <1>5
  <2>3. QED
    BY <1>2, <2>1, <2>2 DEF NodeRecord
<1>6. /\ new[Root] \in NodeRecord
      /\ new[Root].used /\ new[Root].is_dir /\ new[Root].next_sibling = NULL
      /\ new[Root].text = nodes[Root].text
      /\ new[Root].first_child = IF nodes[Root].first_child = i THEN next
                                 ELSE nodes[Root].first_child
  <2>1. nodes[Root] \in NodeRecord
    BY <1>1
  <2>2. nodes[Root].next_sibling # i
    BY <1>1
  <2>3. new[Root] = IF nodes[Root].first_child = i
                    THEN [nodes[Root] EXCEPT !.first_child = next] ELSE nodes[Root]
    BY <1>1, <1>3, <2>2
  <2>4. QED
    BY <1>1, <1>2, <2>1, <2>3 DEF NodeRecord
<1>7. Typed(new)
  <2>1. \A j \in Node : new[j] \in NodeRecord
    BY <1>4, <1>5, <1>6, FreshIs
  <2>2. new \in [Node -> NodeRecord]
    BY <1>3, <2>1
  <2>3. ASSUME NEW j \in Node PROVE Len(new[j].text) < RAMFS_MAX_CONTENT
    BY <1>4, <1>5, <1>6, FreshIs, EmptyText DEF Intact, Typed
  <2>4. QED
    BY <2>2, <2>3 DEF Typed
<1>8. Used(new) = Used(nodes) \ {i}
  BY <1>4, <1>5, FreshIs DEF Used
<1>9. \A j \in Used(new) : /\ j \in Used(nodes) /\ j \in Node /\ j # i /\ j # Root
                           /\ nodes[j].used
  BY <1>8 DEF Used
<1>10. Rooted(new)
  BY <1>5, <1>6, <1>9 DEF Intact, Rooted
<1>11. Distinct(nodes)
  BY DEF Intact
<1>12. Distinct(new)
  BY <1>5, <1>9, <1>11 DEF Distinct
<1>13. NamesOf(new) = NamesOf(nodes) \ {nodes[i].name}
  <2>1. \A j \in Used(new) : new[j].name \in NamesOf(nodes) \ {nodes[i].name}
    BY <1>5, <1>9, <1>11 DEF NamesOf, Distinct
  <2>2. \A j \in Used(nodes) : nodes[j].name # nodes[i].name => nodes[j].name \in NamesOf(new)
    <3>1. ASSUME NEW j \in Used(nodes), nodes[j].name # nodes[i].name
          PROVE  nodes[j].name \in NamesOf(new)
      <4>1. j \in Used(new)
        BY <1>8, <3>1
      <4>2. new[j].name = nodes[j].name
        BY <1>5, <1>9, <4>1
      <4>3. QED
        BY <4>1, <4>2 DEF NamesOf
    <3>2. QED
      BY <3>1
  <2>3. \A x \in NamesOf(new) : x \in NamesOf(nodes) \ {nodes[i].name}
    BY <2>1 DEF NamesOf
  <2>4. \A x \in NamesOf(nodes) : x # nodes[i].name => x \in NamesOf(new)
    BY <2>2 DEF NamesOf
  <2>5. QED
    BY <2>3, <2>4
<1>14. \E n, list : Linked(new, n, list)
  <2>1. PICK n, list : Linked(nodes, n, list)
    BY DEF Intact
  <2>2. /\ n \in Nat /\ list \in [1 .. n -> Node \ {Root}]
        /\ \A k \in 1 .. n : list[k] \in Used(nodes)
        /\ \A j \in Used(nodes) : \E k \in 1 .. n : j = list[k]
        /\ \A k \in 1 .. n : nodes[list[k]].next_sibling = IF k = n THEN NULL ELSE list[k + 1]
        /\ nodes[Root].first_child = IF n = 0 THEN NULL ELSE list[1]
    BY <2>1, LinksAre
  <2>3. \A j, k \in 1 .. n : list[j] = list[k] => j = k
    BY <2>1, Zenon DEF Linked
  <2>4. PICK p \in 1 .. n : i = list[p]
    BY <2>2
  <2>5. next = IF p = n THEN NULL ELSE list[p + 1]
    BY <2>2, <2>4 DEF next
  <2> DEFINE shorter == [k \in 1 .. n - 1 |-> IF k < p THEN list[k] ELSE list[k + 1]]
  <2>6. n \in Nat /\ n - 1 \in Nat /\ p \in Nat /\ 1 <= p /\ p <= n
    BY <2>2, <2>4
  <2>7. ASSUME NEW k \in 1 .. n - 1
        PROVE  /\ k \in 1 .. n /\ k + 1 \in 1 .. n /\ k \in Nat
               /\ shorter[k] = IF k < p THEN list[k] ELSE list[k + 1]
    BY <2>2, <2>7
  <2>8. shorter \in [1 .. n - 1 -> Node \ {Root}]
    BY <2>2, <2>7
  <2> HIDE DEF shorter
  <2>9. ASSUME NEW j \in 1 .. n - 1, NEW k \in 1 .. n - 1, shorter[j] = shorter[k] PROVE j = k
    BY <2>3, <2>6, <2>7, <2>9
  <2>10. ASSUME NEW k \in 1 .. n - 1 PROVE shorter[k] \in Used(new)
    <3>1. shorter[k] \in Used(nodes)
      BY <2>2, <2>7
    <3>2. shorter[k] # i
      BY <2>3, <2>4, <2>6, <2>7
    <3>3. QED
      BY <1>8, <3>1, <3>2
  <2>11. ASSUME NEW j \in Used(new) PROVE \E k \in 1 .. n - 1 : j = shorter[k]
    <3>1. PICK k \in 1 .. n : j = list[k]
      BY <1>9, <2>2
    <3>2. k # p
      BY <1>9, <2>4, <3>1
    <3>3. CASE k < p
      <4>1. k \in 1 .. n - 1
        BY <2>6, <3>3
      <4>2. QED
        BY <2>7, <3>1, <3>3, <4>1
    <3>4. CASE k > p
      <4>1. k - 1 \in 1 .. n - 1 /\ ~ (k - 1 < p) /\ (k - 1) + 1 = k
        BY <2>6, <3>4
      <4>2. shorter[k - 1] = list[(k - 1) + 1]
        BY <2>7, <4>1
      <4>3. QED
        BY <3>1, <4>1, <4>2
    <3>5. QED
      BY <2>6, <3>2, <3>3, <3>4
  <2>12. ASSUME NEW k \in 1 .. n, k # p
         PROVE  new[list[k]].next_sibling = IF k + 1 = p THEN (IF p = n THEN NULL ELSE list[p + 1])
                                            ELSE IF k = n THEN NULL ELSE list[k + 1]
    <3>1. list[k] \in Used(nodes) /\ list[k] # i
      BY <2>2, <2>3, <2>4, <2>12
    <3>2. list[k] \in Node /\ list[k] # Root /\ nodes[list[k]].used
      BY <3>1 DEF Used
    <3>3. new[list[k]].next_sibling = IF nodes[list[k]].next_sibling = i THEN next
                                      ELSE nodes[list[k]].next_sibling
      BY <1>5, <3>1, <3>2
    <3>4. nodes[list[k]].next_sibling = IF k = n THEN NULL ELSE list[k + 1]
      BY <2>2
    <3>5. CASE k = n
      <4>1. nodes[list[k]].next_sibling # i /\ k + 1 # p
        BY <1>1, <2>6, <3>4, <3>5
      <4>2. QED
        BY <3>3, <3>4, <3>5, <4>1
    <3>6. CASE k # n
      <4>1. k + 1 \in 1 .. n
        BY <2>2, <3>6
      <4>2. list[k + 1] = i <=> k + 1 = p
        BY <2>3, <2>4, <4>1
      <4>3. QED
        BY <2>5, <3>3, <3>4, <3>6, <4>2
    <3>7. QED
      BY <3>5, <3>6
  <2>13. ASSUME NEW k \in 1 .. n - 1
         PROVE  new[shorter[k]].next_sibling = IF k = n - 1 THEN NULL ELSE shorter[k + 1]
    <3>1. k \in Nat /\ 1 <= k /\ k <= n - 1
      BY <2>6
    <3>2. k # n - 1 => k + 1 \in 1 .. n - 1
      BY <2>6, <3>1
    <3>3. k # n - 1 => shorter[k + 1] = IF k + 1 < p THEN list[k + 1] ELSE list[(k + 1) + 1]
      BY <2>7, <3>2
    <3>4. CASE k < p
      <4>1. shorter[k] = list[k] /\ k \in 1 .. n /\ k # p /\ k # n
        BY <2>6, <2>7, <3>1, <3>4
      <4>2. new[list[k]].next_sibling = IF k + 1 = p THEN (IF p = n THEN NULL ELSE list[p + 1])
                                        ELSE list[k + 1]
        BY <2>12, <4>1
      <4>3. CASE k + 1 = p
        <5>1. p = n <=> k = n - 1
          BY <2>6, <3>1, <4>3
        <5>2. ~ (k + 1 < p)
          BY <2>6, <4>3
        <5>3. QED
          BY <3>3, <4>1, <4>2, <4>3, <5>1, <5>2
      <4>4. CASE k + 1 # p
        <5>1. k + 1 < p /\ k # n - 1
          BY <2>6, <3>1, <3>4, <4>4
        <5>2. QED
          BY <3>3, <4>1, <4>2, <4>4, <5>1
      <4>5. QED
        BY <4>3, <4>4
    <3>5. CASE ~ (k < p)
      <4>1. /\ shorter[k] = list[k + 1] /\ k + 1 \in 1 .. n /\ k + 1 # p /\ (k + 1) + 1 # p
            /\ k + 1 = n <=> k = n - 1
            /\ ~ (k + 1 < p)
        BY <2>6, <2>7, <3>1, <3>5
      <4>2. new[list[k + 1]].next_sibling = IF k + 1 = n THEN NULL ELSE list[(k + 1) + 1]
        BY <2>12, <4>1
      <4>3. QED
        BY <3>3, <4>1, <4>2
    <3>6. QED
      BY <3>4, <3>5
  <2>14. new[Root].first_child = IF n - 1 = 0 THEN NULL ELSE shorter[1]
    <3>1. n # 0 /\ 1 \in 1 .. n
      BY <2>6
    <3>2. nodes[Root].first_child = list[1]
      BY <2>2, <3>1
    <3>3. n - 1 # 0 => 1 \in 1 .. n - 1
      BY <2>6
    <3>4. n - 1 # 0 => shorter[1] = IF 1 < p THEN list[1] ELSE list[1 + 1]
      BY <2>7, <3>3
    <3>5. CASE p = 1
      <4>1. new[Root].first_child = next
        BY <1>6, <2>4, <3>2, <3>5
      <4>2. ~ (1 < p) /\ (p = n <=> n - 1 = 0)
        BY <2>6, <3>5
      <4>3. QED
        BY <2>5, <3>4, <3>5, <4>1, <4>2
    <3>6. CASE p # 1
      <4>1. list[1] # i
        BY <2>3, <2>4, <3>1, <3>6
      <4>2. new[Root].first_child = list[1]
        BY <1>6, <3>2, <4>1
      <4>3. 1 < p /\ n - 1 # 0
        BY <2>6, <3>6
      <4>4. QED
        BY <3>4, <4>2, <4>3
    <3>7. QED
      BY <3>5, <3>6
  <2>15. \A j, k \in 1 .. n - 1 : shorter[j] = shorter[k] => j = k
    BY <2>9
  <2>16. Linked(new, n - 1, shorter)
    BY <2>6, <2>8, <2>10, <2>11, <2>13, <2>14, <2>15, LinkedWhen
  <2>17. QED
    BY <2>16
<1>15. QED
  BY <1>5, <1>7, <1>8, <1>9, <1>10, <1>12, <1>13, <1>14 DEF Intact

-----------------------------------------------------------------------------
(* Find, touch and write on a table that is whole.                         *)

\* In an intact table, node_find_child finds the node of a name if there is one.
LEMMA FindIs ==
    ASSUME Intact(g_nodes)
    PROVE  /\ Range(Children(Root)) = Used(g_nodes)
           /\ Len(Children(Root)) = Cardinality(Used(g_nodes))
           /\ \A i \in Used(g_nodes) : Find(Root, g_nodes[i].name) = i
           /\ \A m : m \notin NamesOf(g_nodes) => Find(Root, m) = NULL
           /\ \A m : m \in NamesOf(g_nodes) <=> Find(Root, m) # NULL
           /\ \A m : Find(Root, m) # NULL => /\ Find(Root, m) \in Used(g_nodes)
                                            /\ g_nodes[Find(Root, m)].name = m
<1>1. PICK n, list : Linked(g_nodes, n, list)
  BY DEF Intact
<1>2. Distinct(g_nodes)
  BY DEF Intact
<1>3. /\ Range(Children(Root)) = Used(g_nodes)
      /\ Len(Children(Root)) = Cardinality(Used(g_nodes))
  BY <1>1, <1>2, ChildrenAre, Found
<1>4. \A i \in Used(g_nodes) : Find(Root, g_nodes[i].name) = i
  BY <1>1, <1>2, ChildrenAre, Found
<1>5. \A m : m \notin NamesOf(g_nodes) => Find(Root, m) = NULL
  BY <1>1, <1>2, ChildrenAre, Found
<1>6. ASSUME NEW m, m \in NamesOf(g_nodes)
      PROVE  /\ Find(Root, m) # NULL /\ Find(Root, m) \in Used(g_nodes)
             /\ g_nodes[Find(Root, m)].name = m
  <2>1. PICK i \in Used(g_nodes) : m = g_nodes[i].name
    BY <1>6 DEF NamesOf
  <2>2. Find(Root, m) = i
    BY <1>4, <2>1
  <2>3. i # NULL
    BY RootIsNode, UsedIn
  <2>4. QED
    BY <2>1, <2>2, <2>3
<1>7. QED
  BY <1>3, <1>4, <1>5, <1>6

\* node_alloc takes an unused node.
LEMMA LowestIs ==
    ASSUME Intact(g_nodes), Unused # {}
    PROVE  Lowest(Unused) \in Node \ {Root} /\ ~ g_nodes[Lowest(Unused)].used
<1>1. Unused \in SUBSET Nat
  BY RootIsNode DEF Unused
<1>2. \E m \in Unused : \A n \in Unused : m <= n
  BY <1>1, LeastPosition
<1>3. Lowest(Unused) \in Unused
  BY <1>2, Zenon DEF Lowest
<1>4. Root \notin Unused
  BY DEF Unused, Intact, Rooted
<1>5. QED
  BY <1>3, <1>4 DEF Unused

\* What a touch does: nothing, a node taken in vain, or a new file.
LEMMA TouchedIs ==
    ASSUME Intact(g_nodes), NEW n \in Names
    PROVE  /\ Intact(Touched(n))
           /\ \A j \in Used(g_nodes) : Touched(n)[j] = g_nodes[j]
           /\ ~ CanHave(n) => Used(Touched(n)) = Used(g_nodes)
           /\ CanHave(n) => /\ Used(Touched(n)) = Used(g_nodes) \cup {NodeOf(n)}
                            /\ NamesOf(Touched(n)) = NamesOf(g_nodes) \cup {n}
                            /\ Touched(n)[NodeOf(n)].name = n
                            /\ n \in NamesOf(g_nodes) => NodeOf(n) \in Used(g_nodes)
                            /\ n \notin NamesOf(g_nodes) => /\ NodeOf(n) \notin Used(g_nodes)
                                                            /\ ~ Touched(n)[NodeOf(n)].is_dir
                                                            /\ Touched(n)[NodeOf(n)].text = <<>>
<1>1. CASE n \in NamesOf(g_nodes)
  <2>1. /\ Find(Root, n) # NULL /\ Find(Root, n) \in Used(g_nodes)
        /\ g_nodes[Find(Root, n)].name = n
    BY <1>1, FindIs
  <2>2. Touched(n) = g_nodes /\ CanHave(n) /\ NodeOf(n) = Find(Root, n)
    BY <2>1, Zenon DEF Touched, CanHave, NodeOf
  <2>3. Used(g_nodes) = Used(g_nodes) \cup {NodeOf(n)} /\ NamesOf(g_nodes) = NamesOf(g_nodes) \cup {n}
    BY <1>1, <2>1, <2>2
  <2>4. QED
    BY <1>1, <2>1, <2>2, <2>3
<1>2. CASE n \notin NamesOf(g_nodes) /\ Unused = {}
  <2>1. Touched(n) = g_nodes /\ ~ CanHave(n)
    BY <1>2, FindIs DEF Touched, CanHave, Create
  <2>2. QED
    BY <2>1
<1>3. CASE n \notin NamesOf(g_nodes) /\ Unused # {} /\ n \in LongNames
  <2> DEFINE i == Lowest(Unused)
  <2>1. i \in Node /\ ~ g_nodes[i].used
    BY <1>3, LowestIs
  <2>2. Find(Root, n) = NULL
    BY <1>3, FindIs
  <2>3. ~ CanHave(n)
    BY <1>3, <2>2, Zenon DEF CanHave
  <2>4. Touched(n) = Abandon(g_nodes, i)
    BY <1>3, <2>2, Zenon DEF Touched, Create, Abandon
  <2> HIDE DEF i
  <2>5. /\ Intact(Touched(n)) /\ Used(Touched(n)) = Used(g_nodes)
        /\ \A j \in Used(g_nodes) : Touched(n)[j] = g_nodes[j]
    BY <2>1, <2>4, Abandoned
  <2>6. QED
    BY <2>3, <2>5
<1>4. CASE n \notin NamesOf(g_nodes) /\ Unused # {} /\ n \notin LongNames
  <2> DEFINE i == Lowest(Unused)
  <2>1. i \in Node /\ ~ g_nodes[i].used
    BY <1>4, LowestIs
  <2>2. Find(Root, n) = NULL
    BY <1>4, FindIs
  <2>3. CanHave(n) /\ NodeOf(n) = i
    BY <1>4, <2>2, Zenon DEF CanHave, NodeOf
  <2>4. Touched(n) = Add(g_nodes, i, n)
    BY <1>4, <2>2, Zenon DEF Touched, Create, Add
  <2> HIDE DEF i
  <2>5. /\ Intact(Touched(n))
        /\ Used(Touched(n)) = Used(g_nodes) \cup {i} /\ NamesOf(Touched(n)) = NamesOf(g_nodes) \cup {n}
        /\ \A j \in Used(g_nodes) : Touched(n)[j] = g_nodes[j]
        /\ Touched(n)[i].name = n /\ ~ Touched(n)[i].is_dir /\ Touched(n)[i].text = <<>>
    BY <1>4, <2>1, <2>4, Added
  <2>6. i \notin Used(g_nodes)
    BY <2>1 DEF Used
  <2>7. QED
    BY <1>4, <2>3, <2>5, <2>6
<1>5. QED
  BY <1>1, <1>2, <1>3, <1>4

\* A text is cut to what a node has room for.
LEMMA CutIs ==
    ASSUME NEW t \in Texts
    PROVE  /\ Cut(t) \in Texts /\ Len(Cut(t)) < RAMFS_MAX_CONTENT
           /\ Cut(t) = N!Shorten(t)
<1> DEFINE C == UNION {Range(w) : w \in Words}
<1>1. t \in Seq(C)
  BY DEF Texts
<1> HIDE DEF C
<1>2. Len(t) \in Nat /\ RAMFS_MAX_CONTENT \in Nat \ {0}
  BY <1>1, SizesAssumption
<1>3. CASE Len(t) >= RAMFS_MAX_CONTENT
  <2>1. Cut(t) = SubSeq(t, 1, RAMFS_MAX_CONTENT - 1)
    BY <1>3 DEF Cut
  <2>2. \A i \in 1 .. RAMFS_MAX_CONTENT - 1 : t[i] \in C
    BY <1>1, <1>2, <1>3
  <2>3. SubSeq(t, 1, RAMFS_MAX_CONTENT - 1) \in Seq(C)
    BY <1>2, <2>2, SubSeqProperties
  <2>4. Len(SubSeq(t, 1, RAMFS_MAX_CONTENT - 1)) < RAMFS_MAX_CONTENT
    BY <1>2, <2>2, SubSeqProperties
  <2>5. Len(t) > RAMFS_MAX_CONTENT - 1
    BY <1>2, <1>3
  <2>6. QED
    BY <2>1, <2>3, <2>4, <2>5 DEF N!Shorten, Texts, C
<1>4. CASE ~ (Len(t) >= RAMFS_MAX_CONTENT)
  <2>1. Cut(t) = t
    BY <1>4 DEF Cut
  <2>2. ~ (Len(t) > RAMFS_MAX_CONTENT - 1) /\ Len(t) < RAMFS_MAX_CONTENT
    BY <1>2, <1>4
  <2>3. QED
    BY <2>1, <2>2 DEF N!Shorten
<1>5. QED
  BY <1>3, <1>4

\* What a write does, node by node.
LEMMA WrittenIs ==
    ASSUME Intact(g_nodes), NEW n \in Names, NEW t \in Texts, NEW append \in BOOLEAN,
           NEW new, new = Written(n, t, append), NEW w, w = NodeOf(n)
    PROVE  /\ Intact(new)
           /\ ~ CanHave(n) => /\ Used(new) = Used(g_nodes)
                              /\ \A j \in Used(g_nodes) : new[j] = g_nodes[j]
           /\ CanHave(n) =>
                /\ Used(new) = Used(g_nodes) \cup {w}
                /\ NamesOf(new) = NamesOf(g_nodes) \cup {n}
                /\ \A j \in Used(g_nodes) : /\ new[j].name = g_nodes[j].name
                                            /\ new[j].is_dir = g_nodes[j].is_dir
                                            /\ j # w => new[j].text = g_nodes[j].text
                /\ new[w].name = n
                /\ n \in NamesOf(g_nodes) =>
                     /\ w \in Used(g_nodes)
                     /\ new[w].text = N!Shorten(IF append THEN g_nodes[w].text \o t ELSE t)
                /\ n \notin NamesOf(g_nodes) =>
                     /\ w \notin Used(g_nodes) /\ ~ new[w].is_dir /\ new[w].text = N!Shorten(t)
<1>1. CASE ~ CanHave(n)
  <2>1. new = Touched(n)
    BY <1>1, Zenon DEF Written
  <2>2. QED
    BY <1>1, <2>1, TouchedIs
<1>2. CASE CanHave(n)
  <2> DEFINE touched == Touched(n)
             text == IF append THEN touched[w].text \o t ELSE t
  <2>1. new = [touched EXCEPT ![w].text = Cut(IF append THEN @ \o t ELSE t)]
    BY <1>2, Zenon DEF Written
  <2>2. /\ Intact(touched)
        /\ Used(touched) = Used(g_nodes) \cup {w}
        /\ NamesOf(touched) = NamesOf(g_nodes) \cup {n}
        /\ \A j \in Used(g_nodes) : touched[j] = g_nodes[j]
        /\ touched[w].name = n
        /\ n \in NamesOf(g_nodes) => w \in Used(g_nodes)
        /\ n \notin NamesOf(g_nodes) => /\ w \notin Used(g_nodes) /\ ~ touched[w].is_dir
                                        /\ touched[w].text = <<>>
    BY <1>2, TouchedIs
  <2> HIDE DEF touched
  <2>3. w \in Used(touched) /\ w \in Node
    BY <2>2 DEF Used
  <2>4. touched \in [Node -> NodeRecord] /\ touched[w].text \in Texts
    BY <2>2, <2>3 DEF Intact, Typed, NodeRecord
  <2>5. text \in Texts
    BY <2>4, ConcatProperties DEF Texts
  <2>6. Cut(text) \in Texts /\ Len(Cut(text)) < RAMFS_MAX_CONTENT /\ Cut(text) = N!Shorten(text)
    <3> HIDE DEF text
    <3>1. QED
      BY <2>5, CutIs
  <2>7. new = SetText(touched, w, Cut(text))
    BY <2>1, <2>3, <2>4 DEF SetText
  <2>8. text = IF append THEN touched[w].text \o t ELSE t
    OBVIOUS
  <2> HIDE DEF text
  <2>9. /\ Intact(new)
        /\ Used(new) = Used(touched) /\ NamesOf(new) = NamesOf(touched)
        /\ \A j \in Node : /\ new[j].name = touched[j].name /\ new[j].is_dir = touched[j].is_dir
                           /\ new[j].text = IF j = w THEN Cut(text) ELSE touched[j].text
    <3>1. Intact(touched)
      BY <2>2
    <3>2. w \in Used(touched) /\ Cut(text) \in Texts /\ Len(Cut(text)) < RAMFS_MAX_CONTENT
      BY <2>3, <2>6
    <3>3. QED
      BY <2>7, <3>1, <3>2, TextChanged
  <2>10. ASSUME NEW j \in Used(g_nodes)
         PROVE  /\ new[j].name = g_nodes[j].name /\ new[j].is_dir = g_nodes[j].is_dir
                /\ j # w => new[j].text = g_nodes[j].text
    BY <2>2, <2>9 DEF Used
  <2>11. new[w].name = n /\ new[w].is_dir = touched[w].is_dir /\ new[w].text = N!Shorten(text)
    BY <2>2, <2>3, <2>6, <2>9
  <2>12. n \in NamesOf(g_nodes) => text = IF append THEN g_nodes[w].text \o t ELSE t
    BY <2>2, <2>8
  <2>13. n \notin NamesOf(g_nodes) => text = t
    <3>1. <<>> \o t = t
      BY ConcatEmptySeq DEF Texts
    <3>2. QED
      BY <2>2, <2>8, <3>1
  <2>14. QED
    BY <1>2, <2>2, <2>9, <2>10, <2>11, <2>12, <2>13
<1>3. QED
  BY <1>1, <1>2

-----------------------------------------------------------------------------
(* The commands on the table and on the entries.                           *)

EntriesOver(nodes, R) ==
    LET At(n) == CHOOSE i \in R : nodes[i].name = n
    IN  [n \in {nodes[i].name : i \in R} |->
            IF At(n) # NULL /\ ~ nodes[At(n)].is_dir THEN nodes[At(n)].text ELSE Directory]

\* The entries by the used nodes are the entries by their names.
LEMMA EntriesOverUsed ==
    ASSUME NEW nodes
    PROVE  EntriesOver(nodes, Used(nodes)) = EntriesOf(nodes)
<1> DEFINE At(m) == CHOOSE i \in Used(nodes) : nodes[i].name = m
           TextAt(m) == IF At(m) # NULL /\ ~ nodes[At(m)].is_dir THEN nodes[At(m)].text ELSE Directory
<1>1. EntriesOver(nodes, Used(nodes)) = [m \in NamesOf(nodes) |-> TextAt(m)]
  BY Zenon DEF EntriesOver, NamesOf
<1>2. EntriesOf(nodes) = [m \in NamesOf(nodes) |-> Shown(nodes, At(m))]
  BY Zenon DEF EntriesOf
<1>3. ASSUME NEW m \in NamesOf(nodes) PROVE At(m) \in Used(nodes)
  <2>1. \E i \in Used(nodes) : nodes[i].name = m
    BY DEF NamesOf
  <2>2. QED
    BY <2>1, Zenon
<1> HIDE DEF At
<1>4. ASSUME NEW m \in NamesOf(nodes) PROVE Shown(nodes, At(m)) = TextAt(m)
  <2>1. At(m) # NULL
    BY <1>3, UsedIn, RootIsNode
  <2>2. QED
    BY <2>1 DEF Shown
<1> HIDE DEF TextAt
<1>5. QED
  BY <1>1, <1>2, <1>4, Zenon

\* What the refinement maps to is what the table shows.
LEMMA EntriesNow ==
    ASSUME Intact(g_nodes)
    PROVE  Entries = EntriesOf(g_nodes)
<1>1. Entries = EntriesOver(g_nodes, Range(Children(Root)))
  BY Zenon DEF Entries, EntriesOver, IsFile
<1>2. Range(Children(Root)) = Used(g_nodes)
  BY FindIs
<1>3. QED
  BY <1>1, <1>2, EntriesOverUsed

\* And after a step.
LEMMA EntriesNext ==
    ASSUME Intact(g_nodes')
    PROVE  Entries' = EntriesOf(g_nodes')
<1>1. Entries' = EntriesOver(g_nodes', Range(Children(Root)'))
  BY Zenon DEF Entries, EntriesOver, IsFile
<1>2. PICK n, list : Linked(g_nodes', n, list)
  BY DEF Intact
<1>3. Distinct(g_nodes')
  BY DEF Intact
<1>4. Range(Children(Root)') = Used(g_nodes')
  BY <1>2, <1>3, ChildrenAreNext, Found
<1>5. QED
  BY <1>1, <1>4, EntriesOverUsed

\* No text looks like a directory.
LEMMA TextIsNoDirectory ==
    ASSUME NEW t \in Texts
    PROVE  t # Directory
<1>1. DOMAIN t = 1 .. Len(t) /\ Len(t) \in Nat
  BY DEF Texts
<1>2. 0 \in DOMAIN Directory /\ 0 \notin DOMAIN t
  BY <1>1 DEF Directory
<1>3. QED
  BY <1>2

\* What an entry says of its node.
LEMMA EntryIs ==
    ASSUME NEW nodes, Intact(nodes), NEW i \in Used(nodes)
    PROVE  /\ nodes[i].text \in Texts
           /\ N!Has(EntriesOf(nodes), nodes[i].name)
           /\ N!IsText(EntriesOf(nodes), nodes[i].name) <=> ~ nodes[i].is_dir
           /\ ~ nodes[i].is_dir => EntriesOf(nodes)[nodes[i].name] = nodes[i].text
<1>1. nodes[i].text \in Texts /\ Distinct(nodes)
  BY DEF Intact, Typed, NodeRecord, Used
<1>2. /\ DOMAIN EntriesOf(nodes) = NamesOf(nodes) /\ nodes[i].name \in NamesOf(nodes)
      /\ EntriesOf(nodes)[nodes[i].name] = Shown(nodes, i)
  BY <1>1, EntriesAre
<1>3. nodes[i].text # Directory
  BY <1>1, TextIsNoDirectory
<1>4. QED
  BY <1>1, <1>2, <1>3 DEF N!Has, N!IsText, Shown

\* The map has the names of the used nodes.
LEMMA NoEntry ==
    ASSUME NEW nodes, Intact(nodes), NEW m
    PROVE  N!Has(EntriesOf(nodes), m) <=> m \in NamesOf(nodes)
BY EntriesAre DEF N!Has, Intact

\* The table and the map take a new name under the same condition.
LEMMA SameRoom ==
    ASSUME Intact(g_nodes), NEW n \in Names
    PROVE  N!Accepts(EntriesOf(g_nodes), n) <=> CanHave(n)
<1>1. PICK m, list : Linked(g_nodes, m, list)
  BY DEF Intact
<1>2. IsFiniteSet(Used(g_nodes))
  BY <1>1, ListFits
<1>3. Cardinality(NamesOf(g_nodes)) = Cardinality(Used(g_nodes))
  <2> DEFINE f == [i \in Used(g_nodes) |-> g_nodes[i].name]
  <2>1. f \in [Used(g_nodes) -> NamesOf(g_nodes)]
    BY DEF NamesOf
  <2>2. IsInjective(f)
    BY DEF IsInjective, Distinct, Intact
  <2>3. \A x \in NamesOf(g_nodes) : \E i \in Used(g_nodes) : f[i] = x
    BY DEF NamesOf
  <2> HIDE DEF f
  <2>4. f \in Bijection(Used(g_nodes), NamesOf(g_nodes))
    BY <2>1, <2>2, <2>3 DEF Bijection, Injection, Surjection
  <2>5. QED
    BY <1>2, <2>4, FS_Bijection DEF ExistsBijection
<1>4. /\ IsFiniteSet(Node \ {Root}) /\ Cardinality(Node \ {Root}) = RAMFS_MAX_NODES - 1
      /\ Used(g_nodes) \in SUBSET (Node \ {Root})
  <2>1. Node \ {Root} = 1 .. RAMFS_MAX_NODES - 1
    BY SizesAssumption DEF Node, Root
  <2>2. 1 \in Int /\ RAMFS_MAX_NODES - 1 \in Int /\ ~ (1 > RAMFS_MAX_NODES - 1)
    BY SizesAssumption
  <2>3. /\ IsFiniteSet(1 .. RAMFS_MAX_NODES - 1)
        /\ Cardinality(1 .. RAMFS_MAX_NODES - 1) = RAMFS_MAX_NODES - 1 - 1 + 1
    BY <2>2, FS_Interval
  <2>4. RAMFS_MAX_NODES - 1 - 1 + 1 = RAMFS_MAX_NODES - 1
    BY SizesAssumption
  <2>5. Used(g_nodes) \in SUBSET (Node \ {Root})
    BY DEF Used
  <2>6. QED
    BY <2>1, <2>3, <2>4, <2>5, Zenon
<1>5. /\ Cardinality(Used(g_nodes)) <= RAMFS_MAX_NODES - 1
      /\ Cardinality(Used(g_nodes)) = RAMFS_MAX_NODES - 1 => Used(g_nodes) = Node \ {Root}
  BY <1>4, FS_Subset
<1>6. Cardinality(Used(g_nodes)) \in Nat /\ RAMFS_MAX_NODES - 1 \in Nat
  BY <1>2, FS_CardinalityType, SizesAssumption
<1>7. Unused = {} <=> Used(g_nodes) = Node \ {Root}
  BY DEF Unused, Used, Intact, Rooted
<1>8. Unused # {} <=> Cardinality(NamesOf(g_nodes)) < RAMFS_MAX_NODES - 1
  BY <1>3, <1>4, <1>5, <1>6, <1>7
<1>9. DOMAIN EntriesOf(g_nodes) = NamesOf(g_nodes) /\ (n \in NamesOf(g_nodes) <=> Find(Root, n) # NULL)
  BY FindIs DEF EntriesOf
<1>10. QED
  <2>1. N!Accepts(EntriesOf(g_nodes), n)
          <=> \/ n \in DOMAIN EntriesOf(g_nodes)
              \/ n \notin LongNames /\ Cardinality(DOMAIN EntriesOf(g_nodes)) < RAMFS_MAX_NODES - 1
    <3>1. \A S : N!Cardinality(S) = Cardinality(S)
      BY Zenon DEF N!Cardinality, Cardinality
    <3>2. QED
      BY <3>1, Zenon DEF N!Accepts, N!Has
  <2>2. CanHave(n) <=> Find(Root, n) # NULL \/ (n \notin LongNames /\ Unused # {})
    BY Zenon DEF CanHave
  <2>3. QED
    BY <1>8, <1>9, <2>1, <2>2, Zenon

\* A write that is not refused, as the map sees it.
LEMMA WriteIs ==
    ASSUME Intact(g_nodes), NEW n \in Names, NEW t \in Texts, NEW append \in BOOLEAN,
           CanHave(n)
    PROVE  LET e == EntriesOf(g_nodes)
           IN  EntriesOf(Written(n, t, append))
                 = N!With(e, n, IF append /\ N!IsText(e, n) THEN e[n] \o t ELSE t)
<1> DEFINE e == EntriesOf(g_nodes)
           u == IF append /\ N!IsText(e, n) THEN e[n] \o t ELSE t
           f == N!With(e, n, u)
<1>1. PICK new : new = Written(n, t, append)
  OBVIOUS
<1>2. PICK w : w = NodeOf(n)
  OBVIOUS
<1>3. /\ Intact(new)
      /\ Used(new) = Used(g_nodes) \cup {w}
      /\ NamesOf(new) = NamesOf(g_nodes) \cup {n}
      /\ \A j \in Used(g_nodes) : /\ new[j].name = g_nodes[j].name
                                  /\ new[j].is_dir = g_nodes[j].is_dir
                                  /\ j # w => new[j].text = g_nodes[j].text
      /\ new[w].name = n
      /\ n \in NamesOf(g_nodes) =>
           /\ w \in Used(g_nodes)
           /\ new[w].text = N!Shorten(IF append THEN g_nodes[w].text \o t ELSE t)
      /\ n \notin NamesOf(g_nodes) =>
           /\ w \notin Used(g_nodes) /\ ~ new[w].is_dir /\ new[w].text = N!Shorten(t)
  BY <1>1, <1>2, WrittenIs
<1>4. Distinct(g_nodes) /\ Distinct(new)
  BY <1>3 DEF Intact
<1>5. DOMAIN e = NamesOf(g_nodes)
  BY DEF EntriesOf
<1> HIDE DEF e, u
<1>6. f = [x \in NamesOf(new) |->
             IF x # n THEN e[x] ELSE IF N!Has(e, n) /\ ~ N!IsText(e, n) THEN Directory ELSE N!Shorten(u)]
  BY <1>3, <1>5, Zenon DEF N!With
<1> HIDE DEF f
<1>7. f = [x \in NamesOf(new) |-> f[x]]
  BY <1>6
<1>8. ASSUME NEW i \in Used(new) PROVE f[new[i].name] = Shown(new, i)
  <2>1. new[i].name \in NamesOf(new)
    BY DEF NamesOf
  <2>2. CASE i # w
    <3>1. i \in Used(g_nodes) /\ w \in Used(new)
      BY <1>3, <2>2
    <3>2. new[i].name # n
      BY <1>3, <1>4, <2>2, <3>1 DEF Distinct
    <3>3. f[new[i].name] = e[new[i].name]
      BY <1>6, <2>1, <3>2
    <3>4. e[new[i].name] = Shown(g_nodes, i)
      BY <1>3, <1>4, <3>1, EntriesAre DEF e
    <3>5. QED
      BY <1>3, <2>2, <3>1, <3>3, <3>4 DEF Shown
  <2>3. CASE i = w
    <3>1. f[n] = IF N!Has(e, n) /\ ~ N!IsText(e, n) THEN Directory ELSE N!Shorten(u)
      BY <1>3, <1>6, <2>1, <2>3
    <3>2. CASE n \in NamesOf(g_nodes)
      <4>1. w \in Used(g_nodes) /\ g_nodes[w].name = n
        BY <1>3, <3>2
      <4>2. /\ N!Has(e, n) /\ (N!IsText(e, n) <=> ~ g_nodes[w].is_dir)
            /\ ~ g_nodes[w].is_dir => e[n] = g_nodes[w].text
        BY <4>1, EntryIs DEF e
      <4>3. ~ g_nodes[w].is_dir => u = IF append THEN g_nodes[w].text \o t ELSE t
        BY <4>2 DEF u
      <4>4. QED
        BY <1>3, <2>3, <3>1, <3>2, <4>1, <4>2, <4>3 DEF Shown
    <3>3. CASE n \notin NamesOf(g_nodes)
      <4>1. ~ N!Has(e, n) /\ ~ N!IsText(e, n)
        BY <1>5, <3>3 DEF N!Has, N!IsText
      <4>2. u = t
        BY <4>1 DEF u
      <4>3. QED
        BY <1>3, <2>3, <3>1, <3>3, <4>1, <4>2 DEF Shown
    <3>4. QED
      BY <3>2, <3>3
  <2>4. QED
    BY <2>2, <2>3
<1>9. EntriesOf(new) = f
  BY <1>4, <1>7, <1>8, EntriesOnly
<1>10. QED
  BY <1>1, <1>9 DEF f, u, e

\* A removal, as the map sees it.
LEMMA RemoveIs ==
    ASSUME NEW nodes, Intact(nodes), NEW i \in Used(nodes)
    PROVE  /\ Intact(Unlink(nodes, i))
           /\ EntriesOf(Unlink(nodes, i)) = N!Without(EntriesOf(nodes), nodes[i].name)
<1> DEFINE f == N!Without(EntriesOf(nodes), nodes[i].name)
<1>1. PICK new : new = Unlink(nodes, i)
  OBVIOUS
<1>2. /\ Intact(new)
      /\ Used(new) = Used(nodes) \ {i}
      /\ NamesOf(new) = NamesOf(nodes) \ {nodes[i].name}
      /\ \A j \in Used(new) : /\ new[j].name = nodes[j].name /\ new[j].is_dir = nodes[j].is_dir
                              /\ new[j].text = nodes[j].text
  BY <1>1, Removed
<1>3. DOMAIN EntriesOf(nodes) = NamesOf(nodes)
  BY DEF EntriesOf
<1>4. f = [x \in NamesOf(new) |-> EntriesOf(nodes)[x]]
  BY <1>2, <1>3, Zenon DEF N!Without
<1> HIDE DEF f
<1>5. f = [x \in NamesOf(new) |-> f[x]]
  BY <1>4
<1>6. Distinct(nodes) /\ Distinct(new)
  BY <1>2 DEF Intact
<1>7. ASSUME NEW j \in Used(new) PROVE f[new[j].name] = Shown(new, j)
  <2>1. j \in Used(nodes) /\ new[j].name \in NamesOf(new)
    BY <1>2 DEF NamesOf
  <2>2. f[new[j].name] = EntriesOf(nodes)[nodes[j].name]
    BY <1>2, <1>4, <2>1
  <2>3. QED
    BY <1>2, <1>6, <2>1, <2>2, EntriesAre DEF Shown
<1>8. EntriesOf(new) = f
  BY <1>5, <1>6, <1>7, EntriesOnly
<1>9. QED
  BY <1>1, <1>2, <1>8 DEF f

\* A refused write leaves the entries as they are.
LEMMA SameEntries ==
    ASSUME NEW nodes, NEW new, Intact(nodes), Used(new) = Used(nodes),
           \A j \in Used(nodes) : new[j] = nodes[j], Intact(new)
    PROVE  EntriesOf(new) = EntriesOf(nodes)
<1>1. Distinct(nodes) /\ Distinct(new)
  BY DEF Intact
<1>2. NamesOf(new) = NamesOf(nodes)
  BY DEF NamesOf
<1>3. EntriesOf(nodes) = [x \in NamesOf(new) |-> EntriesOf(nodes)[x]]
  BY <1>2 DEF EntriesOf
<1>4. \A i \in Used(new) : EntriesOf(nodes)[new[i].name] = Shown(new, i)
  BY <1>1, EntriesAre DEF Shown
<1>5. QED
  BY <1>1, <1>3, <1>4, EntriesOnly

-----------------------------------------------------------------------------
(* Each command keeps the table whole, and does to the entries what the    *)
(* map allows.                                                             *)

Allowed(new) ==
    /\ Intact(new)
    /\ \/ EntriesOf(new) = EntriesOf(g_nodes)
       \/ EntriesOf(new) \in N!After(EntriesOf(g_nodes))

\* The words the user types are sequences, whole or cut.
LEMMA WordsAreTexts ==
    ASSUME NEW t \in Words
    PROVE  t \in Texts
<1>1. t \in Seq(Range(t))
  BY WordsAssumption
<1>2. Range(t) \subseteq UNION {Range(w) : w \in Words}
  OBVIOUS
<1> DEFINE C == UNION {Range(w) : w \in Words}
           R == Range(t)
<1> HIDE DEF C, R
<1>3. t \in Seq(R) /\ R \subseteq C
  BY <1>1, <1>2 DEF C, R
<1>4. t \in Seq(C)
  BY <1>3
<1>5. QED
  BY <1>4 DEF Texts, C

\* A write that is refused changes no entry.
LEMMA RefusedIs ==
    ASSUME Intact(g_nodes), NEW n \in Names, ~ CanHave(n)
    PROVE  /\ Intact(Touched(n)) /\ EntriesOf(Touched(n)) = EntriesOf(g_nodes)
           /\ \A t, append : Written(n, t, append) = Touched(n)
<1>1. /\ Intact(Touched(n)) /\ Used(Touched(n)) = Used(g_nodes)
      /\ \A j \in Used(g_nodes) : Touched(n)[j] = g_nodes[j]
  BY TouchedIs
<1>2. EntriesOf(Touched(n)) = EntriesOf(g_nodes)
  BY <1>1, SameEntries
<1>3. \A t, append : Written(n, t, append) = Touched(n)
  BY Zenon DEF Written
<1>4. QED
  BY <1>1, <1>2, <1>3

\* fs touch keeps the table intact and does what the map allows.
LEMMA TouchAllowed ==
    ASSUME Intact(g_nodes), NEW n \in Names
    PROVE  Allowed(Touched(n))
<1>1. CASE Find(Root, n) # NULL
  BY <1>1 DEF Touched, Allowed
<1>2. CASE ~ CanHave(n)
  BY <1>2, RefusedIs DEF Allowed
<1>3. CASE Find(Root, n) = NULL /\ CanHave(n)
  <2> DEFINE touched == Touched(n)
             w == NodeOf(n)
  <2>1. n \notin NamesOf(g_nodes)
    BY <1>3, FindIs
  <2>2. /\ Intact(touched) /\ w \in Used(touched) /\ touched[w].text = <<>>
    BY <1>3, <2>1, TouchedIs
  <2>3. touched \in [Node -> NodeRecord] /\ w \in Node
    BY <2>2 DEF Intact, Typed, Used
  <2>4. Written(n, <<>>, FALSE) = [touched EXCEPT ![w].text = Cut(<<>>)]
    BY <1>3, Zenon DEF Written
  <2> HIDE DEF touched, w
  <2>5. Cut(<<>>) = <<>>
    BY SizesAssumption DEF Cut
  <2>6. [touched[w] EXCEPT !.text = <<>>] = touched[w]
    BY <2>2, <2>3 DEF NodeRecord
  <2>7. Written(n, <<>>, FALSE) = touched
    BY <2>3, <2>4, <2>5, <2>6
  <2>8. <<>> \in Texts
    BY EmptyText
  <2>9. EntriesOf(touched) = N!With(EntriesOf(g_nodes), n, <<>>)
    <3>1. EntriesOf(Written(n, <<>>, FALSE))
            = N!With(EntriesOf(g_nodes), n,
                     IF FALSE /\ N!IsText(EntriesOf(g_nodes), n)
                     THEN EntriesOf(g_nodes)[n] \o <<>> ELSE <<>>)
      BY <1>3, <2>8, WriteIs
    <3>2. QED
      BY <2>7, <3>1
  <2>10. ~ N!Has(EntriesOf(g_nodes), n) /\ N!Accepts(EntriesOf(g_nodes), n)
    BY <1>3, <2>1, NoEntry, SameRoom
  <2>11. EntriesOf(touched) \in N!Touch(EntriesOf(g_nodes))
    BY <2>9, <2>10 DEF N!Touch
  <2>12. QED
    BY <2>2, <2>11 DEF Allowed, N!After, touched
<1>4. QED
  BY <1>1, <1>2, <1>3

\* fs write and fs append do.
LEMMA WriteAllowed ==
    ASSUME Intact(g_nodes), NEW n \in Names, NEW t \in Words
    PROVE  Allowed(Written(n, t, FALSE)) /\ Allowed(Written(n, t, TRUE))
<1> DEFINE e == EntriesOf(g_nodes)
<1>1. CASE ~ CanHave(n)
  <2>1. Allowed(Touched(n))
    BY <1>1, RefusedIs DEF Allowed
  <2>2. Written(n, t, FALSE) = Touched(n) /\ Written(n, t, TRUE) = Touched(n)
    BY <1>1, RefusedIs, Zenon
  <2>3. QED
    BY <2>1, <2>2
<1>2. CASE CanHave(n)
  <2>1. t \in Texts
    BY WordsAreTexts
  <2>2. Intact(Written(n, t, FALSE)) /\ Intact(Written(n, t, TRUE))
    BY <2>1, WrittenIs
  <2>3. N!Accepts(e, n)
    BY <1>2, SameRoom
  <2>4. /\ EntriesOf(Written(n, t, FALSE)) = N!With(e, n, t)
        /\ EntriesOf(Written(n, t, TRUE)) = N!With(e, n, IF N!IsText(e, n) THEN e[n] \o t ELSE t)
    <3>1. EntriesOf(Written(n, t, FALSE))
            = N!With(e, n, IF FALSE /\ N!IsText(e, n) THEN e[n] \o t ELSE t)
      BY <1>2, <2>1, WriteIs
    <3>2. EntriesOf(Written(n, t, TRUE))
            = N!With(e, n, IF TRUE /\ N!IsText(e, n) THEN e[n] \o t ELSE t)
      BY <1>2, <2>1, WriteIs
    <3>3. QED
      BY <3>1, <3>2
  <2> HIDE DEF e
  <2>5. EntriesOf(Written(n, t, FALSE)) \in N!Write(e)
    <3>1. N!With(e, n, t) \in N!Write(e)
      BY <2>3 DEF N!Write
    <3>2. QED
      BY <2>4, <3>1
  <2>6. EntriesOf(Written(n, t, TRUE)) \in N!Extend(e)
    <3>1. N!With(e, n, IF N!IsText(e, n) THEN e[n] \o t ELSE t) \in N!Extend(e)
      BY <2>3 DEF N!Extend
    <3>2. QED
      BY <2>4, <3>1
  <2>7. QED
    BY <2>2, <2>5, <2>6 DEF Allowed, N!After, e
<1>3. QED
  BY <1>1, <1>2

\* fs rm does.
LEMMA RemoveAllowed ==
    ASSUME Intact(g_nodes), NEW n \in Names, Find(Root, n) # NULL
    PROVE  Allowed(Unlink(g_nodes, Find(Root, n)))
<1> DEFINE e == EntriesOf(g_nodes)
<1>1. Find(Root, n) \in Used(g_nodes) /\ g_nodes[Find(Root, n)].name = n /\ n \in NamesOf(g_nodes)
  BY FindIs
<1>2. /\ Intact(Unlink(g_nodes, Find(Root, n)))
      /\ EntriesOf(Unlink(g_nodes, Find(Root, n))) = N!Without(e, n)
  BY <1>1, RemoveIs
<1>3. n \in DOMAIN e
  BY <1>1 DEF EntriesOf
<1> HIDE DEF e
<1>4. N!Without(e, n) \in N!Remove(e)
  BY <1>3 DEF N!Remove
<1>5. QED
  BY <1>2, <1>4 DEF Allowed, N!After, e

\* The file a command reads from.
LEMMA SourceIs ==
    ASSUME Intact(g_nodes), NEW a \in Names, IsFile(Find(Root, a))
    PROVE  LET i == Find(Root, a)
           IN  /\ i \in Used(g_nodes) /\ g_nodes[i].name = a /\ ~ g_nodes[i].is_dir
               /\ g_nodes[i].text \in Texts /\ Len(g_nodes[i].text) < RAMFS_MAX_CONTENT
               /\ a \in N!Sources(EntriesOf(g_nodes))
               /\ EntriesOf(g_nodes)[a] = g_nodes[i].text
<1> DEFINE i == Find(Root, a)
<1>1. i # NULL /\ ~ g_nodes[i].is_dir
  BY DEF IsFile
<1>2. i \in Used(g_nodes) /\ g_nodes[i].name = a
  BY <1>1, FindIs
<1>3. /\ g_nodes[i].text \in Texts /\ N!IsText(EntriesOf(g_nodes), a)
      /\ EntriesOf(g_nodes)[a] = g_nodes[i].text
  BY <1>1, <1>2, EntryIs
<1>4. Len(g_nodes[i].text) < RAMFS_MAX_CONTENT
  BY <1>2 DEF Intact, Typed, Used
<1>5. QED
  BY <1>1, <1>2, <1>3, <1>4 DEF N!Sources

\* fs cp does.
LEMMA CopyAllowed ==
    ASSUME Intact(g_nodes), NEW a \in Names, NEW b \in Names, IsFile(Find(Root, a))
    PROVE  Allowed(Written(b, g_nodes[Find(Root, a)].text, FALSE))
<1> DEFINE e == EntriesOf(g_nodes)
           t == g_nodes[Find(Root, a)].text
<1>1. t \in Texts /\ a \in N!Sources(e) /\ e[a] = t
  BY SourceIs
<1>2. CASE ~ CanHave(b)
  <2>1. Allowed(Touched(b))
    BY <1>2, RefusedIs DEF Allowed
  <2>2. Written(b, t, FALSE) = Touched(b)
    BY <1>2, RefusedIs, Zenon
  <2>3. QED
    BY <2>1, <2>2
<1>3. CASE CanHave(b)
  <2>1. Intact(Written(b, t, FALSE))
    BY <1>1, WrittenIs
  <2>2. EntriesOf(Written(b, t, FALSE))
          = N!With(e, b, IF FALSE /\ N!IsText(e, b) THEN e[b] \o t ELSE t)
    BY <1>1, <1>3, WriteIs
  <2>3. N!Accepts(e, b)
    BY <1>3, SameRoom
  <2> HIDE DEF e
  <2>4. EntriesOf(Written(b, t, FALSE)) \in N!Copy(e)
    <3>1. N!With(e, b, e[a]) \in N!Copy(e)
      BY <1>1, <2>3 DEF N!Copy
    <3>2. EntriesOf(Written(b, t, FALSE)) = N!With(e, b, e[a])
      BY <1>1, <2>2
    <3>3. QED
      BY <3>1, <3>2
  <2>5. QED
    BY <2>1, <2>4 DEF Allowed, N!After, e
<1>4. QED
  BY <1>2, <1>3

\* A move, as far as it goes.
Moved(a, b) ==
    LET copied == Written(b, g_nodes[Find(Root, a)].text, FALSE)
    IN  IF CanHave(b) THEN Unlink(copied, Find(Root, a)) ELSE copied

\* A move that is not refused: the copy, and then the removal, find the nodes they are to find.
LEMMA MovedIs ==
    ASSUME Intact(g_nodes), NEW a \in Names, NEW b \in Names, IsFile(Find(Root, a)), CanHave(b)
    PROVE  LET e == EntriesOf(g_nodes)
           IN  /\ Intact(Moved(a, b)) /\ N!Accepts(e, b)
               /\ EntriesOf(Moved(a, b)) = N!Without(N!With(e, b, e[a]), a)
<1> DEFINE e == EntriesOf(g_nodes)
           i == Find(Root, a)
           t == g_nodes[i].text
           copied == Written(b, t, FALSE)
<1>1. t \in Texts /\ e[a] = t /\ i \in Used(g_nodes) /\ g_nodes[i].name = a
  BY SourceIs
<1>2. Moved(a, b) = Unlink(copied, i)
  BY Zenon DEF Moved
<1>3. Intact(copied) /\ i \in Used(copied) /\ copied[i].name = a
  <2>1. PICK w : w = NodeOf(b)
    OBVIOUS
  <2>2. /\ Intact(copied) /\ Used(copied) = Used(g_nodes) \cup {w}
        /\ \A j \in Used(g_nodes) : copied[j].name = g_nodes[j].name
    <3>1. PICK new : new = copied
      OBVIOUS
    <3> HIDE DEF t, i
    <3>a. PICK append \in BOOLEAN : append = FALSE
      OBVIOUS
    <3>b. new = Written(b, t, append)
      BY <3>1, <3>a
    <3> HIDE DEF copied
    <3>2. /\ Intact(new)
          /\ Used(new) = Used(g_nodes) \cup {w}
          /\ \A j \in Used(g_nodes) : new[j].name = g_nodes[j].name
      BY <1>1, <2>1, <3>b, WrittenIs
    <3>3. QED
      BY <3>1, <3>2
  <2>3. QED
    BY <1>1, <2>2
<1>4. EntriesOf(copied) = N!With(e, b, IF FALSE /\ N!IsText(e, b) THEN e[b] \o t ELSE t)
  BY <1>1, WriteIs
<1> HIDE DEF i, copied, t, e
<1>5. EntriesOf(copied) = N!With(e, b, e[a])
  BY <1>1, <1>4
<1>6. /\ Intact(Unlink(copied, i))
      /\ EntriesOf(Unlink(copied, i)) = N!Without(EntriesOf(copied), copied[i].name)
  BY <1>3, RemoveIs
<1>7. N!Accepts(e, b)
  BY SameRoom DEF e
<1>8. QED
  BY <1>2, <1>3, <1>5, <1>6, <1>7 DEF e

\* fs mv does.
LEMMA MoveAllowed ==
    ASSUME Intact(g_nodes), NEW a \in Names, NEW b \in Names, IsFile(Find(Root, a))
    PROVE  Allowed(Moved(a, b))
<1> DEFINE e == EntriesOf(g_nodes)
<1>1. CASE ~ CanHave(b)
  BY <1>1, RefusedIs DEF Allowed, Moved
<1>2. CASE CanHave(b)
  <2>1. /\ Intact(Moved(a, b)) /\ N!Accepts(e, b)
        /\ EntriesOf(Moved(a, b)) = N!Without(N!With(e, b, e[a]), a)
    BY <1>2, MovedIs
  <2>2. a \in N!Sources(e)
    BY SourceIs
  <2> HIDE DEF e
  <2>3. EntriesOf(Moved(a, b)) \in N!Move(e)
    BY <2>1, <2>2 DEF N!Move
  <2>4. QED
    BY <2>1, <2>3 DEF Allowed, N!After, e
<1>3. QED
  BY <1>1, <1>2

\* Every fs command does.
LEMMA FsAllowed ==
    ASSUME Intact(g_nodes), Fs
    PROVE  Allowed(g_nodes')
<1>1. ASSUME NEW n \in Names, FsTouch(n) PROVE Allowed(g_nodes')
  BY <1>1, TouchAllowed DEF FsTouch
<1>2. ASSUME NEW n \in Names, FsRemove(n) PROVE Allowed(g_nodes')
  BY <1>2, RemoveAllowed DEF FsRemove
<1>3. ASSUME NEW n \in Names, NEW t \in Words, FsWrite(n, t) \/ FsAppend(n, t)
      PROVE  Allowed(g_nodes')
  BY <1>3, WriteAllowed DEF FsWrite, FsAppend
<1>4. ASSUME NEW a \in Names, NEW b \in Names, FsCopy(a, b) PROVE Allowed(g_nodes')
  BY <1>4, CopyAllowed DEF FsCopy
<1>5. ASSUME NEW a \in Names, NEW b \in Names, FsMove(a, b) PROVE Allowed(g_nodes')
  <2>1. IsFile(Find(Root, a)) /\ g_nodes' = Moved(a, b)
    BY <1>5, Zenon DEF FsMove, Moved
  <2>2. QED
    BY <2>1, MoveAllowed
<1>6. QED
  BY <1>1, <1>2, <1>3, <1>4, <1>5, Zenon DEF Fs

-----------------------------------------------------------------------------
(* The table after boot.                                                   *)

\* The table after the boot holds the mount point of the initrd and nothing else.
LEMMA InitIs ==
    ASSUME RamFsInit
    PROVE  Intact(g_nodes) /\ EntriesOf(g_nodes) = [n \in {InitrdName} |-> Directory]
<1>1. /\ g_nodes = [i \in Node |->
           IF i = Root
           THEN [Cleared EXCEPT !.used = TRUE, !.is_dir = TRUE, !.first_child = 1,
                                !.next_sibling = NULL]
           ELSE IF i = 1
           THEN [Fresh EXCEPT !.is_dir = TRUE, !.parent = Root, !.name = InitrdName]
           ELSE Cleared]
      /\ InitrdName \in Names
  BY NamesAssumption DEF RamFsInit
<1>2. Root \in Node /\ 1 \in Node /\ 1 # Root /\ NULL \notin Node
  BY RootIsNode DEF Root
<1>3. /\ g_nodes[Root] \in NodeRecord /\ g_nodes[Root].used /\ g_nodes[Root].is_dir
      /\ g_nodes[Root].first_child = 1 /\ g_nodes[Root].next_sibling = NULL
      /\ g_nodes[Root].text = <<>>
  <2>1. g_nodes[Root] = [Cleared EXCEPT !.used = TRUE, !.is_dir = TRUE, !.first_child = 1,
                                        !.next_sibling = NULL]
    BY <1>1, <1>2
  <2>2. Cleared \in NodeRecord /\ Cleared.text = <<>>
    BY FreshIs
  <2>3. QED
    BY <1>2, <2>1, <2>2 DEF NodeRecord
<1>4. /\ g_nodes[1] \in NodeRecord /\ g_nodes[1].used /\ g_nodes[1].is_dir
      /\ g_nodes[1].parent = Root /\ g_nodes[1].name = InitrdName
      /\ g_nodes[1].next_sibling = NULL /\ g_nodes[1].text = <<>>
  <2>1. g_nodes[1] = [Fresh EXCEPT !.is_dir = TRUE, !.parent = Root, !.name = InitrdName]
    BY <1>1, <1>2
  <2>2. Fresh \in NodeRecord /\ Fresh.used /\ Fresh.text = <<>>
    BY FreshIs
  <2>3. Fresh.next_sibling = NULL
    BY FreshIs DEF Fresh, NodeRecord
  <2>4. QED
    BY <1>1, <1>2, <2>1, <2>2, <2>3 DEF NodeRecord
<1>5. \A i \in Node : i # Root /\ i # 1 => g_nodes[i] = Cleared
  BY <1>1
<1>6. Typed(g_nodes)
  <2>1. \A i \in Node : g_nodes[i] \in NodeRecord /\ g_nodes[i].text = <<>>
    BY <1>3, <1>4, <1>5, FreshIs
  <2>2. g_nodes \in [Node -> NodeRecord]
    BY <1>1, <2>1
  <2>3. QED
    BY <2>1, <2>2, EmptyText DEF Typed
<1>7. Used(g_nodes) = {1}
  BY <1>2, <1>4, <1>5, FreshIs DEF Used
<1>8. Rooted(g_nodes) /\ Distinct(g_nodes)
  BY <1>1, <1>3, <1>4, <1>7 DEF Rooted, Distinct
<1>9. Linked(g_nodes, 1, [k \in 1 .. 1 |-> 1])
  <2> DEFINE list == [k \in 1 .. 1 |-> 1]
  <2>1. list[1] = 1 /\ \A k \in 1 .. 1 : k = 1
    OBVIOUS
  <2>2. list \in [1 .. 1 -> Node \ {Root}] /\ 1 \in Nat /\ 1 # 0
    BY <1>2
  <2> HIDE DEF list
  <2>3. /\ \A j, k \in 1 .. 1 : list[j] = list[k] => j = k
        /\ \A k \in 1 .. 1 : list[k] \in Used(g_nodes)
        /\ \A j \in Used(g_nodes) : \E k \in 1 .. 1 : j = list[k]
    BY <1>7, <2>1
  <2>4. \A k \in 1 .. 1 : g_nodes[list[k]].next_sibling = IF k = 1 THEN NULL ELSE list[k + 1]
    BY <1>4, <2>1
  <2>5. g_nodes[Root].first_child = IF 1 = 0 THEN NULL ELSE list[1]
    BY <1>3, <2>1
  <2>6. QED
    BY <2>2, <2>3, <2>4, <2>5, LinkedWhen DEF list
<1>10. Intact(g_nodes)
  BY <1>6, <1>8, <1>9, Zenon DEF Intact
<1>11. EntriesOf(g_nodes) = [n \in {InitrdName} |-> Directory]
  <2> DEFINE e == [n \in {InitrdName} |-> Directory]
  <2>1. e = [n \in {InitrdName} |-> e[n]]
    OBVIOUS
  <2>2. NamesOf(g_nodes) = {InitrdName}
    BY <1>4, <1>7 DEF NamesOf
  <2>3. \A i \in Used(g_nodes) : e[g_nodes[i].name] = Shown(g_nodes, i)
    BY <1>4, <1>7 DEF Shown
  <2> HIDE DEF e
  <2>4. EntriesOf(g_nodes) = e
    BY <1>8, <2>1, <2>2, <2>3, EntriesOnly
  <2>5. QED
    BY <2>4 DEF e
<1>12. QED
  BY <1>10, <1>11

-----------------------------------------------------------------------------
(* What a move keeps.                                                      *)

\* The files and texts of MoveKeepsText, by their nodes.
LEMMA FilesOf ==
    ASSUME Intact(g_nodes), NEW n
    PROVE  /\ n \in Files <=> N!IsText(EntriesOf(g_nodes), n)
           /\ n \in Files => /\ Text(n) = EntriesOf(g_nodes)[n] /\ Find(Root, n) # NULL
                             /\ n \in Names /\ IsFile(Find(Root, n))
<1>1. Range(Children(Root)) = Used(g_nodes)
  BY FindIs
<1>2. ASSUME n \in Files
      PROVE  /\ N!IsText(EntriesOf(g_nodes), n) /\ Text(n) = EntriesOf(g_nodes)[n]
             /\ Find(Root, n) # NULL /\ n \in Names /\ IsFile(Find(Root, n))
  <2>1. PICK i \in Used(g_nodes) : g_nodes[i].name = n /\ IsFile(i)
    BY <1>1, <1>2 DEF Files
  <2>2. Find(Root, n) = i
    BY <2>1, FindIs
  <2>3. i # NULL /\ ~ g_nodes[i].is_dir
    BY <2>1 DEF IsFile
  <2>4. n \in Names
    BY <2>1 DEF Intact, Rooted
  <2>5. QED
    BY <2>1, <2>2, <2>3, <2>4, EntryIs DEF Text
<1>3. ASSUME N!IsText(EntriesOf(g_nodes), n) PROVE n \in Files
  <2>1. n \in NamesOf(g_nodes)
    BY <1>3, NoEntry DEF N!IsText
  <2>2. PICK i \in Used(g_nodes) : g_nodes[i].name = n
    BY <2>1 DEF NamesOf
  <2>3. ~ g_nodes[i].is_dir /\ i # NULL
    BY <1>3, <2>2, EntryIs, UsedIn, RootIsNode
  <2>4. IsFile(i)
    BY <2>3 DEF IsFile
  <2>5. QED
    BY <1>1, <2>2, <2>4 DEF Files
<1>4. QED
  BY <1>2, <1>3

\* And after a step.
LEMMA FilesNext ==
    ASSUME Intact(g_nodes'), NEW n
    PROVE  /\ n \in Files' <=> N!IsText(EntriesOf(g_nodes'), n)
           /\ n \in Files' => Text(n)' = EntriesOf(g_nodes')[n]
<1>1. PICK m, list : Linked(g_nodes', m, list)
  BY DEF Intact
<1>2. Distinct(g_nodes')
  BY DEF Intact
<1>3. Range(Children(Root)') = Used(g_nodes')
  <2>2. Range(ChildrenIn(g_nodes')) = Used(g_nodes')
    BY <1>1, <1>2, Found
  <2>3. QED
    BY <2>2, ChildrenAreNext
<1>4. Files' = {g_nodes'[i].name : i \in {j \in Used(g_nodes') : j # NULL /\ ~ g_nodes'[j].is_dir}}
  BY <1>3 DEF Files, IsFile
<1>5. ASSUME n \in Files'
      PROVE  N!IsText(EntriesOf(g_nodes'), n) /\ Text(n)' = EntriesOf(g_nodes')[n]
  <2>1. PICK i \in Used(g_nodes') : g_nodes'[i].name = n /\ ~ g_nodes'[i].is_dir
    BY <1>4, <1>5
  <2>2. FindIn(g_nodes', n) = i
    BY <1>1, <1>2, <2>1, Found
  <2>3. Text(n)' = g_nodes'[FindIn(g_nodes', n)].text
    BY ChildrenAreNext DEF Text
  <2>4. QED
    BY <2>1, <2>2, <2>3, EntryIs
<1>6. ASSUME N!IsText(EntriesOf(g_nodes'), n) PROVE n \in Files'
  <2>1. n \in NamesOf(g_nodes')
    BY <1>6, NoEntry DEF N!IsText
  <2>2. PICK i \in Used(g_nodes') : g_nodes'[i].name = n
    BY <2>1 DEF NamesOf
  <2>3. ~ g_nodes'[i].is_dir /\ i # NULL
    BY <1>6, <2>2, EntryIs, UsedIn, RootIsNode
  <2>4. QED
    BY <1>4, <2>2, <2>3
<1>7. QED
  BY <1>5, <1>6

\* A move to a free name, or to a file, that takes its source away has given the target its text.
LEMMA MoveKeeps ==
    ASSUME Intact(g_nodes), NEW a \in Files \ Files', NEW b \in Names, FsMove(a, b), a # b,
           Find(Root, b) = NULL \/ b \in Files
    PROVE  b \in Files' /\ Text(b)' = Text(a)
<1> DEFINE e == EntriesOf(g_nodes)
           new == EntriesOf(g_nodes')
<1>1. /\ N!IsText(e, a) /\ Text(a) = e[a] /\ a \in Names /\ IsFile(Find(Root, a))
  BY FilesOf
<1>2. g_nodes' = Moved(a, b)
  BY Zenon DEF FsMove, Moved
<1>3. Intact(g_nodes')
  BY <1>1, <1>2, MoveAllowed DEF Allowed
<1>4. ~ N!IsText(new, a)
  BY <1>3, FilesNext
<1>5. CanHave(b)
  <2>1. SUFFICES ASSUME ~ CanHave(b) PROVE FALSE
    OBVIOUS
  <2>2. g_nodes' = Touched(b)
    BY <1>2, <2>1, RefusedIs DEF Moved
  <2>3. new = e
    BY <2>1, <2>2, RefusedIs
  <2>4. QED
    BY <1>1, <1>4, <2>3
<1>6. new = N!Without(N!With(e, b, e[a]), a)
  BY <1>1, <1>2, <1>5, MovedIs
<1>7. e[a] \in Texts /\ Len(e[a]) < RAMFS_MAX_CONTENT
  BY <1>1, SourceIs
<1>8. ~ N!Has(e, b) \/ N!IsText(e, b)
  BY FilesOf, FindIs, NoEntry
<1> HIDE DEF e, new
<1>9. N!Shorten(e[a]) = e[a]
  BY <1>7, SizesAssumption DEF N!Shorten, Texts
<1>10. b \in DOMAIN new /\ new[b] = e[a]
  <2> DEFINE w == N!With(e, b, e[a])
  <2>1. b \in DOMAIN w /\ w[b] = N!Shorten(e[a])
    BY <1>8 DEF N!With
  <2> HIDE DEF w
  <2>2. new = N!Without(w, a)
    BY <1>6 DEF w
  <2>3. QED
    BY <1>9, <2>1, <2>2 DEF N!Without
<1>11. new[b] # Directory
  BY <1>7, <1>10, TextIsNoDirectory
<1>12. N!IsText(new, b)
  BY <1>10, <1>11 DEF N!IsText, N!Has
<1>13. QED
  BY <1>1, <1>3, <1>10, <1>12, FilesNext DEF new

-----------------------------------------------------------------------------
(* FoldLeft: the recursion takes the greatest index off a set of them.     *)

\* The largest number of a set that has one.
LEMMA MaxIs ==
    ASSUME NEW Q \in SUBSET Nat, NEW m \in Q, \A i \in Q : i <= m
    PROVE  Max(Q) = m
<1>1. \A k \in Q : (\A i \in Q : k >= i) => k = m
  BY SMT
<1>2. \A i \in Q : m >= i
  BY SMT
<1>3. QED
  BY <1>1, <1>2, Zenon DEF Max

\* The largest of the numbers up to n.
LEMMA UpTo ==
    ASSUME NEW n \in Nat \ {0}
    PROVE  1 .. n # {} /\ Max(1 .. n) = n /\ (1 .. n) \ {n} = 1 .. n - 1
<1>1. 1 .. n \in SUBSET Nat /\ n \in 1 .. n /\ \A i \in 1 .. n : i <= n
  OBVIOUS
<1>2. Max(1 .. n) = n
  BY <1>1, MaxIs
<1>3. \A i : i \in 1 .. n /\ i # n <=> i \in 1 .. n - 1
  OBVIOUS
<1>4. (1 .. n) \ {n} = 1 .. n - 1
  BY <1>3
<1>5. QED
  BY <1>1, <1>2, <1>4

\* What is left without it.
LEMMA Below ==
    ASSUME NEW k \in Nat, NEW s \in SUBSET (1 .. k + 1), k + 1 \notin s
    PROVE  s \in SUBSET (1 .. k)
OBVIOUS

\* What the recursion makes of base, for each set of indices of seq.
Iterated(V, seq, base, step, g) ==
    /\ g \in [SUBSET (1 .. Len(seq)) -> V]
    /\ \A s \in SUBSET (1 .. Len(seq)) :
          g[s] = IF s = {} THEN base ELSE step[g[s \ {Max(s)}]][seq[Max(s)]]

\* A step that stays within V can be repeated over the indices of seq.
LEMMA Repeats ==
    ASSUME NEW V, NEW A, NEW seq \in Seq(A), NEW base \in V, NEW step \in [V -> [A -> V]]
    PROVE  \E g : Iterated(V, seq, base, step, g)
<1> DEFINE G(k) == [SUBSET (1 .. k) -> V]
           Rec(g, s) == g[s] = IF s = {} THEN base ELSE step[g[s \ {Max(s)}]][seq[Max(s)]]
           Is(k, g) == g \in G(k) /\ \A s \in SUBSET (1 .. k) : Rec(g, s)
<1>1. \E g : Is(0, g)
  <2> DEFINE g == [s \in SUBSET (1 .. 0) |-> base]
  <2>1. \A s \in SUBSET (1 .. 0) : s = {} /\ g[s] = base
    OBVIOUS
  <2>2. g \in G(0)
    OBVIOUS
  <2> HIDE DEF g
  <2>3. Is(0, g)
    BY <2>1, <2>2, Zenon
  <2>4. QED
    BY <2>3, Zenon
<1>2. ASSUME NEW k \in Nat, k + 1 <= Len(seq), NEW g, Is(k, g)
      PROVE  \E h : Is(k + 1, h)
  <2> DEFINE h == [s \in SUBSET (1 .. k + 1) |->
                     IF k + 1 \in s THEN step[g[s \ {k + 1}]][seq[k + 1]] ELSE g[s]]
  <2>1. ASSUME NEW s \in SUBSET (1 .. k + 1) PROVE h[s] \in V
    <3>1. CASE k + 1 \in s
      <4>1. s \ {k + 1} \in SUBSET (1 .. k)
        OBVIOUS
      <4>2. g[s \ {k + 1}] \in V
        BY <1>2, <4>1
      <4>3. seq[k + 1] \in A
        <5>1. k + 1 \in 1 .. Len(seq)
          BY <1>2
        <5>2. QED
          BY <5>1, ElementOfSeq
      <4>4. h[s] = step[g[s \ {k + 1}]][seq[k + 1]]
        BY <3>1
      <4> HIDE DEF h
      <4>5. QED
        BY <4>2, <4>3, <4>4
    <3>2. CASE k + 1 \notin s
      <4>1. s \in SUBSET (1 .. k)
        BY <3>2, Below, Zenon
      <4>2. QED
        BY <1>2, <3>2, <4>1
    <3>3. QED
      BY <3>1, <3>2
  <2>2. ASSUME NEW s \in SUBSET (1 .. k + 1) PROVE Rec(h, s)
    <3>1. CASE k + 1 \in s
      <4>1. Max(s) = k + 1
        <5>1. s \in SUBSET Nat /\ \A i \in s : i <= k + 1
          OBVIOUS
        <5>2. QED
          BY <3>1, <5>1, MaxIs
      <4>2. h[s] = step[g[s \ {k + 1}]][seq[k + 1]]
        BY <3>1
      <4>3. s \ {k + 1} \in SUBSET (1 .. k + 1) /\ k + 1 \notin s \ {k + 1}
        OBVIOUS
      <4>4. h[s \ {k + 1}] = g[s \ {k + 1}]
        BY <4>3
      <4> HIDE DEF h
      <4>5. QED
        BY <3>1, <4>1, <4>2, <4>4
    <3>2. CASE k + 1 \notin s
      <4>1. s \in SUBSET (1 .. k)
        BY <3>2, Below, Zenon
      <4>2. h[s] = g[s]
        BY <3>2
      <4>3. Rec(g, s)
        BY <1>2, <4>1, Zenon
      <4>4. h[s \ {Max(s)}] = g[s \ {Max(s)}]
        <5>1. s \ {Max(s)} \in SUBSET (1 .. k + 1) /\ k + 1 \notin s \ {Max(s)}
          BY <3>2
        <5>2. QED
          BY <5>1
      <4> HIDE DEF h
      <4>5. QED
        BY <4>2, <4>3, <4>4
    <3>3. QED
      BY <3>1, <3>2
  <2>3. h \in G(k + 1)
    <3>1. h = [s \in SUBSET (1 .. k + 1) |-> h[s]]
      OBVIOUS
    <3> HIDE DEF h
    <3>2. QED
      BY <2>1, <3>1
  <2> HIDE DEF h, Rec
  <2>4. Is(k + 1, h)
    BY <2>2, <2>3, Zenon
  <2>5. QED
    BY <2>4, Zenon
<1> HIDE DEF Is
<1>3. \A k \in 0 .. Len(seq) : \E g : Is(k, g)
  <2> DEFINE Bad == {k \in 0 .. Len(seq) : ~ \E g : Is(k, g)}
  <2>1. ASSUME Bad # {} PROVE FALSE
    <3>0. Bad \in SUBSET Nat
      OBVIOUS
    <3>1. PICK m \in Bad : \A n \in Bad : m <= n
      BY <2>1, <3>0, LeastPosition, Zenon
    <3>2. m \in 0 .. Len(seq) /\ ~ \E g : Is(m, g)
      BY Zenon
    <3>3. m # 0
      BY <1>1, <3>2, Zenon
    <3>4. m - 1 \in 0 .. Len(seq) /\ m - 1 \in Nat /\ (m - 1) + 1 = m /\ ~ (m <= m - 1) /\ m <= Len(seq)
      BY <3>2, <3>3
    <3>5. m - 1 \notin Bad
      BY <3>1, <3>4, Zenon
    <3>6. PICK g : Is(m - 1, g)
      BY <3>4, <3>5, Zenon
    <3>7. \E h : Is((m - 1) + 1, h)
      BY <1>2, <3>4, <3>6
    <3>8. QED
      BY <3>2, <3>4, <3>7
  <2>2. QED
    BY <2>1, Zenon
<1>4. PICK g : Is(Len(seq), g)
  <2>1. Len(seq) \in 0 .. Len(seq)
    OBVIOUS
  <2>2. QED
    BY <1>3, <2>1, Zenon
<1>5. QED
  BY <1>4, Zenon DEF Is, Rec, G, Iterated

-----------------------------------------------------------------------------
(* Paths.                                                                  *)

PathStep(path, seg) ==
    IF seg # Up THEN Append(path, First23[seg])
    ELSE IF path = <<>> THEN path ELSE Front(path)

\* One name of a path: '..' takes a name away, another is added as far as it is kept.
LEMMA PathStepIs ==
    ASSUME NEW path \in Seq(PathNames), NEW seg \in PathNames \cup {Up}
    PROVE  PathStep(path, seg) \in Seq(PathNames)
<1>1. CASE seg # Up
  <2>1. First23[seg] \in PathNames
    BY <1>1, CutsAssumption
  <2>2. QED
    BY <1>1, <2>1 DEF PathStep
<1>2. CASE seg = Up /\ path # <<>>
  <2>1. Len(path) \in Nat /\ Len(path) - 1 \in Int /\ \A i \in 1 .. Len(path) - 1 : path[i] \in PathNames
    OBVIOUS
  <2>2. SubSeq(path, 1, Len(path) - 1) \in Seq(PathNames)
    BY <2>1, SubSeqProperties
  <2>3. QED
    BY <1>2, <2>2 DEF PathStep, Front
<1>3. QED
  BY <1>1, <1>2 DEF PathStep

\* The path as it grows and shrinks from name to name.
LEMMA NormalizeIs ==
    ASSUME g_cwd \in Seq(PathNames), NEW p, p.segs \in Seq(PathNames \cup {Up})
    PROVE  \E v \in [0 .. Len(p.segs) -> Seq(PathNames)] :
              /\ v[0] = IF p.absolute THEN <<>> ELSE g_cwd
              /\ \A n \in 1 .. Len(p.segs) : v[n] = PathStep(v[n - 1], p.segs[n])
              /\ Normalize(p) = v[Len(p.segs)]
<1> DEFINE segs == p.segs
           D == DOMAIN segs
           base == IF p.absolute THEN <<>> ELSE g_cwd
           A == PathNames \cup {Up}
           V == Seq(PathNames)
           Is(g) == g = [s \in SUBSET D |->
                           IF s = {} THEN base
                           ELSE PathStep(g[s \ {Max(s)}], segs[Max(s)])]
           iter == CHOOSE g : Is(g)
           step == [x \in V |-> [a \in A |-> PathStep(x, a)]]
<1>1. Normalize(p) = iter[D]
  BY Zenon DEF Normalize, FoldLeft, MapThenFoldSet, PathStep
<1>2. segs \in Seq(A) /\ Len(segs) \in Nat /\ D = 1 .. Len(segs) /\ base \in V
  OBVIOUS
<1>3. step \in [V -> [A -> V]]
  BY PathStepIs
<1>4. PICK g \in [SUBSET D -> V] :
         \A s \in SUBSET D : g[s] = IF s = {} THEN base ELSE step[g[s \ {Max(s)}]][segs[Max(s)]]
  <2> HIDE DEF step, segs, V, A, base
  <2>1. PICK g : Iterated(V, segs, base, step, g)
    BY <1>2, <1>3, Repeats, Zenon
  <2>2. QED
    BY <1>2, <2>1, Zenon DEF Iterated
<1> HIDE DEF segs, base
<1>5. Is(g)
  <2>1. ASSUME NEW s \in SUBSET D
        PROVE  g[s] = IF s = {} THEN base ELSE PathStep(g[s \ {Max(s)}], segs[Max(s)])
    <3>1. CASE s = {}
      BY <1>4, <3>1
    <3>2. CASE s # {}
      <4>1. Max(s) \in D
        <5>1. s \in SUBSET (0 .. Len(segs))
          BY <1>2
        <5>2. PICK m \in s : \A n \in s : m >= n
          BY <1>2, <3>2, <5>1, GreatestPosition
        <5>3. Max(s) \in s
          BY <5>2, Zenon DEF Max
        <5>4. QED
          BY <5>3
      <4>2. s \ {Max(s)} \in SUBSET D
        OBVIOUS
      <4>3. g[s \ {Max(s)}] \in V
        BY <4>2
      <4>4. segs[Max(s)] \in A
        BY <1>2, <4>1
      <4> HIDE DEF V, A
      <4>5. step[g[s \ {Max(s)}]][segs[Max(s)]] = PathStep(g[s \ {Max(s)}], segs[Max(s)])
        BY <4>3, <4>4
      <4> HIDE DEF step
      <4>6. QED
        BY <1>4, <3>2, <4>5
    <3>3. QED
      BY <3>1, <3>2
  <2>2. g = [s \in SUBSET D |-> g[s]]
    OBVIOUS
  <2>3. QED
    BY <2>1, <2>2, Zenon
<1>6. Is(iter)
  BY <1>5, Zenon
<1> HIDE DEF iter
<1>7. \A s \in SUBSET D : iter[s] = IF s = {} THEN base ELSE PathStep(iter[s \ {Max(s)}], segs[Max(s)])
  BY <1>6, Zenon
<1> HIDE DEF Is
<1> DEFINE v == [n \in 0 .. Len(segs) |-> iter[1 .. n]]
<1>8. v[0] = base
  <2>1. v[0] = iter[1 .. 0] /\ 1 .. 0 = {}
    BY <1>2
  <2>2. QED
    BY <1>7, <2>1
<1>9. ASSUME NEW n \in 1 .. Len(segs) PROVE v[n] = PathStep(v[n - 1], segs[n])
  <2>1. v[n] = iter[1 .. n] /\ v[n - 1] = iter[1 .. n - 1]
    BY <1>2
  <2>2. 1 .. n \in SUBSET D /\ n \in Nat \ {0}
    BY <1>2
  <2>3. iter[1 .. n] = PathStep(iter[(1 .. n) \ {Max(1 .. n)}], segs[Max(1 .. n)])
    BY <1>7, <2>2, UpTo
  <2>4. QED
    BY <2>1, <2>2, <2>3, UpTo
<1>10. v[Len(segs)] = Normalize(p)
  BY <1>1, <1>2
<1>11. \A n \in 0 .. Len(segs) : v[n] \in V
  <2> DEFINE Bad == {n \in 0 .. Len(segs) : v[n] \notin V}
  <2> HIDE DEF v, V
  <2>1. ASSUME Bad # {} PROVE FALSE
    <3>1. Bad \in SUBSET Nat
      BY <1>2
    <3>2. PICK m \in Bad : \A n \in Bad : m <= n
      BY <2>1, <3>1, LeastPosition, Zenon
    <3>3. m # 0
      BY <1>2, <1>8
    <3>4. m \in 1 .. Len(segs) /\ m - 1 \in 0 .. Len(segs) /\ ~ (m <= m - 1)
      BY <1>2, <3>3
    <3>5. v[m - 1] \in V
      BY <3>2, <3>4
    <3>6. segs[m] \in A
      BY <1>2, <3>4
    <3>7. v[m] \in V
      <4>1. PathStep(v[m - 1], segs[m]) \in V
        BY <3>5, <3>6, PathStepIs DEF V
      <4>2. QED
        BY <1>9, <3>4, <4>1
    <3>8. QED
      BY <3>7
  <2>2. QED
    BY <2>1
<1>12. v \in [0 .. Len(segs) -> V]
  BY <1>11
<1> HIDE DEF v
<1>13. QED
  BY <1>8, <1>9, <1>10, <1>12 DEF segs, base

\* The mount point a path belongs to: the rest is looked up there.
LEMMA ResolveIs ==
    ASSUME NEW path \in Seq(PathNames)
    PROVE  /\ path = <<>> => Resolve(path) = RamFsLookup(<<>>)
           /\ path # <<>> /\ path[1] = InitrdName =>
                Resolve(path) = InitrdLookup(SubSeq(path, 2, Len(path)))
           /\ path # <<>> /\ path[1] # InitrdName => Resolve(path) = NotFound
<1> DEFINE found == {m \in Mounts : StartsWith(path, m)}
           mount == CHOOSE m \in found : \A other \in found : Len(m) >= Len(other)
           names == SubSeq(path, Len(mount) + 1, Len(path))
<1>1. Resolve(path) = IF found = {} THEN NotFound
                      ELSE IF mount = <<>> THEN RamFsLookup(names) ELSE InitrdLookup(names)
  BY Zenon DEF Resolve
<1>2. /\ Len(path) \in Nat /\ Len(<<InitrdName>>) = 1 /\ Len(<<>>) = 0
      /\ <<InitrdName>> # <<>> /\ (path = <<>> <=> Len(path) = 0)
  OBVIOUS
<1>3. StartsWith(path, <<>>) <=> path = <<>>
  BY DEF StartsWith
<1>4. StartsWith(path, <<InitrdName>>) <=> path # <<>> /\ path[1] = InitrdName
  <2>1. StartsWith(path, <<InitrdName>>)
          <=> 1 <= Len(path) /\ SubSeq(<<InitrdName>>, 1, 1) = SubSeq(path, 1, 1)
    BY <1>2 DEF StartsWith, IsPrefix
  <2>2. SubSeq(<<InitrdName>>, 1, 1) = <<InitrdName>>
    <3>1. <<InitrdName>> \in Seq({InitrdName})
      OBVIOUS
    <3>2. QED
      BY <1>2, <3>1, SubSeqFull
  <2>3. ASSUME path # <<>> PROVE SubSeq(path, 1, 1) = <<path[1]>>
    <3>1. 1 \in 1 .. Len(path) /\ 1 \in Int /\ \A i \in 1 .. 1 : path[i] \in PathNames
      BY <1>2, <2>3
    <3>2. /\ SubSeq(path, 1, 1) \in Seq(PathNames)
          /\ Len(SubSeq(path, 1, 1)) = 1
          /\ SubSeq(path, 1, 1)[1] = path[1]
      BY <3>1, SubSeqProperties
    <3>3. /\ <<path[1]>> \in Seq(PathNames) /\ Len(<<path[1]>>) = 1
          /\ \A i \in 1 .. 1 : <<path[1]>>[i] = path[1] /\ SubSeq(path, 1, 1)[i] = path[1]
      BY <3>1, <3>2
    <3>4. QED
      BY <3>2, <3>3, SeqEqual
  <2>4. QED
    BY <1>2, <2>1, <2>2, <2>3
<1>5. Mounts = {<<>>, <<InitrdName>>}
  BY DEF Mounts
<1>6. CASE path = <<>>
  <2>1. found = {<<>>}
    BY <1>3, <1>4, <1>5, <1>6
  <2>2. mount = <<>>
    BY <1>2, <2>1
  <2>3. names = <<>>
    <3>1. SubSeq(path, 1, 0) = <<>>
      BY SubSeqEmpty
    <3>2. QED
      BY <1>2, <1>6, <2>2, <3>1
  <2>4. QED
    BY <1>1, <1>6, <2>1, <2>2, <2>3
<1>7. CASE path # <<>> /\ path[1] = InitrdName
  <2>1. found = {<<InitrdName>>}
    BY <1>3, <1>4, <1>5, <1>7
  <2>2. mount = <<InitrdName>>
    <3> HIDE DEF found
    <3>1. <<InitrdName>> \in found /\ \A other \in found : Len(<<InitrdName>>) >= Len(other)
      BY <1>2, <2>1
    <3>2. mount \in found
      BY <3>1, Zenon
    <3>3. QED
      BY <2>1, <3>2
  <2>3. names = SubSeq(path, 2, Len(path))
    <3> HIDE DEF mount
    <3>1. Len(mount) + 1 = 2
      BY <1>2, <2>2
    <3>2. QED
      BY <3>1
  <2>4. QED
    BY <1>1, <1>2, <1>7, <2>1, <2>2, <2>3
<1>8. CASE path # <<>> /\ path[1] # InitrdName
  <2>1. found = {}
    BY <1>3, <1>4, <1>5, <1>8
  <2>2. QED
    BY <1>1, <1>8, <2>1
<1>9. QED
  BY <1>6, <1>7, <1>8

\* The root.
LEMMA RootLookup ==
    RamFsLookup(<<>>) = [mount |-> "ramfs", is_dir |-> g_nodes[Root].is_dir, node |-> Root]
<1> DEFINE Step(at, n) == IF at = NULL \/ ~ g_nodes[at].is_dir THEN NULL ELSE Find(at, n)
           Is(g) == g = [s \in SUBSET DOMAIN <<>> |->
                           IF s = {} THEN Root ELSE Step(g[s \ {Max(s)}], <<>>[Max(s)])]
           iter == CHOOSE g : Is(g)
           i == FoldLeft(Step, Root, <<>>)
<1>1. i = iter[DOMAIN <<>>]
  BY Zenon DEF FoldLeft, MapThenFoldSet
<1>2. DOMAIN <<>> = {}
  OBVIOUS
<1>3. \E g : Is(g)
  <2> DEFINE g == [s \in SUBSET DOMAIN <<>> |-> Root]
  <2>1. \A s \in SUBSET DOMAIN <<>> : s = {}
    OBVIOUS
  <2>2. [s \in SUBSET DOMAIN <<>> |-> IF s = {} THEN Root ELSE Step(g[s \ {Max(s)}], <<>>[Max(s)])] = g
    <3> HIDE DEF Step
    <3>1. QED
      BY <2>1
  <2>3. Is(g)
    BY <2>2, Zenon
  <2>4. QED
    BY <2>3, Zenon
<1>4. Is(iter)
  BY <1>3, Zenon
<1> HIDE DEF iter, Step
<1>5. iter[{}] = Root
  BY <1>2, <1>4
<1>6. i = Root /\ Root # NULL
  BY <1>1, <1>2, <1>5, RootIsNode
<1>7. RamFsLookup(<<>>) = IF i = NULL THEN NotFound
                          ELSE [mount |-> "ramfs", is_dir |-> g_nodes[i].is_dir, node |-> i]
  BY Zenon DEF RamFsLookup, Step
<1> HIDE DEF i
<1>8. QED
  BY <1>6, <1>7

\* The directories.
LEMMA DirectoriesAre ==
    ASSUME Intact(g_nodes), NEW path \in Seq(PathNames)
    PROVE  Resolve(path).is_dir <=> path \in {<<>>, <<InitrdName>>}
<1>1. CASE path = <<>>
  <2>1. Resolve(path).is_dir = g_nodes[Root].is_dir
    <3>1. Resolve(path) = RamFsLookup(<<>>)
      BY <1>1, ResolveIs
    <3>2. QED
      BY <3>1, RootLookup
  <2>2. g_nodes[Root].is_dir
    BY DEF Intact, Rooted
  <2>3. QED
    BY <1>1, <2>1, <2>2
<1>2. CASE path # <<>> /\ path[1] = InitrdName
  <2> DEFINE names == SubSeq(path, 2, Len(path))
  <2>1. Resolve(path) = InitrdLookup(names)
    BY <1>2, ResolveIs
  <2>2. InitrdLookup(names).is_dir <=> names = <<>>
    BY DEF InitrdLookup, NotFound
  <2>3. names = <<>> <=> Len(path) = 1
    <3>1. \A k \in 2 .. Len(path) : path[k] \in PathNames
      OBVIOUS
    <3>2. /\ Len(names) = IF 2 <= Len(path) THEN Len(path) - 2 + 1 ELSE 0
          /\ names \in Seq(PathNames)
      <4>1. 2 \in Int /\ Len(path) \in Int
        OBVIOUS
      <4>2. QED
        BY <3>1, <4>1, SubSeqProperties
    <3> HIDE DEF names
    <3>3. Len(path) \in Nat /\ Len(path) # 0
      BY <1>2
    <3>4. names = <<>> <=> Len(names) = 0
      BY <3>2
    <3>5. Len(path) = 1 => Len(names) = 0
      BY <3>2
    <3>6. Len(path) # 1 => 2 <= Len(path)
      BY <3>3
    <3>7. Len(path) # 1 => Len(names) # 0
      BY <3>2, <3>3, <3>6
    <3>8. QED
      BY <3>4, <3>5, <3>7
  <2>4. Len(path) = 1 <=> path = <<InitrdName>>
    BY <1>2
  <2> HIDE DEF names
  <2>5. QED
    BY <1>2, <2>1, <2>2, <2>3, <2>4
<1>3. CASE path # <<>> /\ path[1] # InitrdName
  <2>1. ~ Resolve(path).is_dir
    BY <1>3, ResolveIs DEF NotFound
  <2>2. path # <<InitrdName>>
    BY <1>3
  <2>3. QED
    BY <1>3, <2>1, <2>2
<1>4. QED
  BY <1>1, <1>2, <1>3

\* Where cd leads.
LEMMA ChdirIs ==
    ASSUME Intact(g_nodes), g_cwd \in {<<>>, <<InitrdName>>}, NEW p \in Paths, Chdir(p)
    PROVE  g_cwd' \in {<<>>, <<InitrdName>>}
<1>1. g_cwd \in Seq(PathNames)
  <2>1. InitrdName \in PathNames
    BY CutsAssumption, NamesAssumption
  <2>2. <<InitrdName>> \in Seq(PathNames) /\ <<>> \in Seq(PathNames)
    BY <2>1
  <2>3. QED
    BY <2>2
<1>2. p.segs \in Seq(PathNames \cup {Up})
  BY PathsAssumption
<1>3. PICK v \in [0 .. Len(p.segs) -> Seq(PathNames)] : Normalize(p) = v[Len(p.segs)]
  BY <1>1, <1>2, NormalizeIs
<1>4. Len(p.segs) \in 0 .. Len(p.segs)
  BY <1>2
<1>5. Normalize(p) \in Seq(PathNames)
  BY <1>3, <1>4
<1>6. Resolve(Normalize(p)).is_dir /\ g_cwd' = Normalize(p)
  BY DEF Chdir
<1>7. QED
  BY <1>5, <1>6, DirectoriesAre

-----------------------------------------------------------------------------
(* The boot modules.                                                       *)

\* The modules among the first i tags, in numbers.
LEMMA NumberStep ==
    ASSUME NEW i \in Nat \ {0}
    PROVE  /\ Number(i) \in Nat /\ Number(i - 1) \in Nat
           /\ Number(i) = IF tags[i].module THEN Number(i - 1) + 1 ELSE Number(i - 1)
<1> DEFINE S(k) == {j \in 1 .. k : tags[j].module}
<1>1. Number(i) = Cardinality(S(i)) /\ Number(i - 1) = Cardinality(S(i - 1))
  BY DEF Number
<1>2. \A k \in Int : IsFiniteSet(1 .. k)
  BY FS_Interval
<1>3. \A k \in Int : IsFiniteSet(S(k))
  <2>1. \A k : S(k) \subseteq 1 .. k
    OBVIOUS
  <2>2. QED
    BY <1>2, <2>1, FS_Subset
<1>4. IsFiniteSet(S(i)) /\ IsFiniteSet(S(i - 1))
  BY <1>3
<1>5. Cardinality(S(i)) \in Nat /\ Cardinality(S(i - 1)) \in Nat
  BY <1>4, FS_CardinalityType
<1>6. CASE tags[i].module
  <2>1. S(i) = S(i - 1) \cup {i} /\ i \notin S(i - 1)
    BY <1>6
  <2>2. Cardinality(S(i)) = Cardinality(S(i - 1)) + 1
    BY <1>4, <2>1, FS_AddElement
  <2>3. QED
    BY <1>1, <1>5, <1>6, <2>2
<1>7. CASE ~ tags[i].module
  <2>1. S(i) = S(i - 1)
    BY <1>7
  <2>2. QED
    BY <1>1, <1>5, <1>7, <2>1
<1>8. QED
  BY <1>6, <1>7

\* The number of modules only grows, by one with each module.
LEMMA NumberGrows ==
    ASSUME NEW n \in Nat, NEW i \in 0 .. n
    PROVE  Number(0) = 0 /\ Number(i) \in Nat /\ Number(n) \in Nat /\ Number(i) <= Number(n)
<1> DEFINE S(k) == {j \in 1 .. k : tags[j].module}
<1>1. IsFiniteSet(1 .. n)
  BY FS_Interval
<1>2. S(n) \subseteq 1 .. n /\ S(i) \subseteq S(n)
  OBVIOUS
<1>3. IsFiniteSet(S(n))
  BY <1>1, <1>2, FS_Subset
<1>4. IsFiniteSet(S(i)) /\ Cardinality(S(i)) <= Cardinality(S(n))
  BY <1>2, <1>3, FS_Subset
<1>5. Cardinality(S(i)) \in Nat /\ Cardinality(S(n)) \in Nat
  BY <1>3, <1>4, FS_CardinalityType
<1>6. Number(0) = 0
  <2>1. {j \in 1 .. 0 : tags[j].module} = {}
    OBVIOUS
  <2>2. QED
    BY <2>1, FS_EmptySet DEF Number
<1>7. QED
  BY <1>4, <1>5, <1>6 DEF Number

\* Every number up to that of the modules so far is a module's.
LEMMA NumberReached ==
    ASSUME NEW n \in Nat, NEW k \in 1 .. Number(n)
    PROVE  \E j \in 1 .. n : tags[j].module /\ Number(j) = k
<1> DEFINE S == {j \in 1 .. n : Number(j) >= k}
<1>1. Number(n) \in Nat /\ Number(0) = 0 /\ \A j \in 0 .. n : Number(j) \in Nat
  <2>1. 0 \in 0 .. n
    OBVIOUS
  <2>2. QED
    BY <2>1, NumberGrows
<1>2. n # 0
  BY <1>1
<1>3. n \in S
  BY <1>1, <1>2
<1>4. S \in SUBSET Nat /\ S # {}
  BY <1>3
<1>5. PICK j \in S : \A i \in S : j <= i
  BY <1>4, LeastPosition, Zenon
<1>6. j \in 1 .. n /\ j \in Nat \ {0} /\ Number(j) >= k /\ j - 1 \in 0 .. n
  OBVIOUS
<1>7. Number(j - 1) < k
  <2>1. CASE j = 1
    BY <1>1, <2>1
  <2>2. CASE j # 1
    <3>1. j - 1 \in 1 .. n /\ ~ (j <= j - 1)
      BY <1>6, <2>2
    <3>2. j - 1 \notin S
      BY <1>5, <3>1
    <3>3. ~ (Number(j - 1) >= k)
      BY <3>1, <3>2
    <3>4. QED
      BY <1>1, <1>6, <3>3
  <2>3. QED
    BY <2>1, <2>2
<1>8. /\ Number(j) \in Nat /\ Number(j - 1) \in Nat
      /\ Number(j) = IF tags[j].module THEN Number(j - 1) + 1 ELSE Number(j - 1)
  BY <1>6, NumberStep
<1>9. tags[j].module /\ Number(j) = k
  BY <1>6, <1>7, <1>8
<1>10. QED
  BY <1>6, <1>9

\* The table as it fills from tag to tag.
Table == [idx : Nat, files : Seq({File(t, k) : t \in Range(tags), k \in Nat})]

\* One tag: no module leaves the table alone, a module is added if there is room.
LEMMA LoadIsTable ==
    ASSUME NEW read \in Table, NEW tag \in Range(tags)
    PROVE  /\ Load(read, tag) \in Table
           /\ Load(read, tag).idx = IF tag.module THEN read.idx + 1 ELSE read.idx
           /\ Load(read, tag).files = IF tag.module /\ Len(read.files) < INITRD_MAX_FILES
                                      THEN Append(read.files, File(tag, read.idx))
                                      ELSE read.files
<1> DEFINE W == {File(t, k) : t \in Range(tags), k \in Nat}
           file == File(tag, read.idx)
<1>1. read.idx \in Nat /\ read.files \in Seq(W)
  BY DEF Table
<1>2. file \in W
  BY <1>1
<1> HIDE DEF W, file
<1>3. Append(read.files, file) \in Seq(W)
  BY <1>1, <1>2
<1>5. Load(read, tag) = IF ~ tag.module THEN read
                        ELSE [idx |-> read.idx + 1,
                              files |-> IF Len(read.files) < INITRD_MAX_FILES
                                        THEN Append(read.files, file) ELSE read.files]
  BY Zenon DEF Load, file
<1>6. \A x \in Nat, y \in Seq(W) : [idx |-> x, files |-> y] \in Table
  BY DEF Table, W
<1>7. CASE ~ tag.module
  BY <1>5, <1>7
<1>8. CASE tag.module
  <2> DEFINE files == IF Len(read.files) < INITRD_MAX_FILES THEN Append(read.files, file) ELSE read.files
  <2>1. files \in Seq(W) /\ read.idx + 1 \in Nat
    BY <1>1, <1>3
  <2>2. files = IF tag.module /\ Len(read.files) < INITRD_MAX_FILES
                THEN Append(read.files, file) ELSE read.files
    BY <1>8
  <2> HIDE DEF files
  <2>3. Load(read, tag) = [idx |-> read.idx + 1, files |-> files]
    BY <1>5, <1>8 DEF files
  <2>4. Load(read, tag) \in Table
    BY <1>6, <2>1, <2>3
  <2>5. Load(read, tag).idx = read.idx + 1 /\ Load(read, tag).files = files
    BY <2>3
  <2>6. files = IF tag.module /\ Len(read.files) < INITRD_MAX_FILES
                THEN Append(read.files, File(tag, read.idx)) ELSE read.files
    BY <2>2 DEF file
  <2>7. QED
    BY <1>8, <2>4, <2>5, <2>6, Zenon
<1>9. QED
  BY <1>7, <1>8

LoadedBy(t) == FoldLeft(Load, [idx |-> 0, files |-> <<>>], t)

\* The loop of initrd_mount_from_multiboot goes through the tags one by one.
LEMMA LoadedIs ==
    ASSUME tags \in Seq(Range(tags))
    PROVE  \E v \in [0 .. Len(tags) -> Table] :
              /\ v[0] = [idx |-> 0, files |-> <<>>]
              /\ \A n \in 1 .. Len(tags) : v[n] = Load(v[n - 1], tags[n])
              /\ LoadedBy(tags) = v[Len(tags)]
<1> DEFINE D == DOMAIN tags
           base == [idx |-> 0, files |-> <<>>]
           A == Range(tags)
           V == Table
           Is(g) == g = [s \in SUBSET D |->
                           IF s = {} THEN base ELSE Load(g[s \ {Max(s)}], tags[Max(s)])]
           iter == CHOOSE g : Is(g)
           step == [x \in V |-> [a \in A |-> Load(x, a)]]
<1>1. LoadedBy(tags) = iter[D]
  BY Zenon DEF LoadedBy, FoldLeft, MapThenFoldSet
<1>2. tags \in Seq(A) /\ Len(tags) \in Nat /\ D = 1 .. Len(tags)
  OBVIOUS
<1>a. base \in V
  BY EmptySeq DEF Table
<1>3. step \in [V -> [A -> V]]
  BY LoadIsTable
<1>4. PICK g \in [SUBSET D -> V] :
         \A s \in SUBSET D : g[s] = IF s = {} THEN base ELSE step[g[s \ {Max(s)}]][tags[Max(s)]]
  <2> HIDE DEF step, V, A, base
  <2>1. PICK g : Iterated(V, tags, base, step, g)
    BY <1>2, <1>a, <1>3, Repeats, Zenon
  <2>2. QED
    BY <1>2, <2>1, Zenon DEF Iterated
<1> HIDE DEF base
<1>5. Is(g)
  <2>1. ASSUME NEW s \in SUBSET D
        PROVE  g[s] = IF s = {} THEN base ELSE Load(g[s \ {Max(s)}], tags[Max(s)])
    <3>1. CASE s = {}
      BY <1>4, <3>1
    <3>2. CASE s # {}
      <4>1. Max(s) \in D
        <5>1. s \in SUBSET (0 .. Len(tags))
          BY <1>2
        <5>2. PICK m \in s : \A n \in s : m >= n
          BY <1>2, <3>2, <5>1, GreatestPosition
        <5>3. Max(s) \in s
          BY <5>2, Zenon DEF Max
        <5>4. QED
          BY <5>3
      <4>2. s \ {Max(s)} \in SUBSET D
        OBVIOUS
      <4>3. g[s \ {Max(s)}] \in V
        BY <4>2
      <4>4. tags[Max(s)] \in A
        BY <1>2, <4>1
      <4> HIDE DEF V, A
      <4>5. step[g[s \ {Max(s)}]][tags[Max(s)]] = Load(g[s \ {Max(s)}], tags[Max(s)])
        BY <4>3, <4>4
      <4> HIDE DEF step
      <4>6. QED
        BY <1>4, <3>2, <4>5
    <3>3. QED
      BY <3>1, <3>2
  <2>2. g = [s \in SUBSET D |-> g[s]]
    OBVIOUS
  <2>3. QED
    BY <2>1, <2>2, Zenon
<1>6. Is(iter)
  BY <1>5, Zenon
<1> HIDE DEF iter
<1>7. \A s \in SUBSET D : iter[s] = IF s = {} THEN base ELSE Load(iter[s \ {Max(s)}], tags[Max(s)])
  BY <1>6, Zenon
<1> HIDE DEF Is
<1> DEFINE v == [n \in 0 .. Len(tags) |-> iter[1 .. n]]
<1>8. v[0] = base
  <2>1. v[0] = iter[1 .. 0] /\ 1 .. 0 = {}
    BY <1>2
  <2>2. QED
    BY <1>7, <2>1
<1>9. ASSUME NEW n \in 1 .. Len(tags) PROVE v[n] = Load(v[n - 1], tags[n])
  <2>1. v[n] = iter[1 .. n] /\ v[n - 1] = iter[1 .. n - 1]
    BY <1>2
  <2>2. 1 .. n \in SUBSET D /\ n \in Nat \ {0}
    BY <1>2
  <2>3. iter[1 .. n] = Load(iter[(1 .. n) \ {Max(1 .. n)}], tags[Max(1 .. n)])
    BY <1>7, <2>2, UpTo
  <2>4. QED
    BY <2>1, <2>2, <2>3, UpTo
<1>10. v[Len(tags)] = LoadedBy(tags)
  BY <1>1, <1>2
<1>11. \A n \in 0 .. Len(tags) : v[n] \in V
  <2> DEFINE Bad == {n \in 0 .. Len(tags) : v[n] \notin V}
  <2> HIDE DEF v, V
  <2>1. ASSUME Bad # {} PROVE FALSE
    <3>1. Bad \in SUBSET Nat
      BY <1>2
    <3>2. PICK m \in Bad : \A n \in Bad : m <= n
      BY <2>1, <3>1, LeastPosition, Zenon
    <3>3. m # 0
      BY <1>a, <1>8
    <3>4. m \in 1 .. Len(tags) /\ m - 1 \in 0 .. Len(tags) /\ ~ (m <= m - 1)
      BY <1>2, <3>3
    <3>5. v[m - 1] \in V
      BY <3>2, <3>4
    <3>6. tags[m] \in A
      BY <1>2, <3>4
    <3>7. v[m] \in V
      <4>1. Load(v[m - 1], tags[m]) \in V
        BY <3>5, <3>6, LoadIsTable DEF V
      <4>2. QED
        BY <1>9, <3>4, <4>1
    <3>8. QED
      BY <3>7
  <2>2. QED
    BY <2>1
<1>12. v \in [0 .. Len(tags) -> V]
  BY <1>11
<1> HIDE DEF v
<1>13. QED
  BY <1>8, <1>9, <1>10, <1>12 DEF base

\* After n tags: the modules' files, by their numbers, as many as have room.
LEMMA TableAfter ==
    ASSUME NEW v, v[0] = [idx |-> 0, files |-> <<>>], tags \in Seq(Range(tags)),
           v \in [0 .. Len(tags) -> Table],
           \A n \in 1 .. Len(tags) : v[n] = Load(v[n - 1], tags[n]),
           NEW n \in 0 .. Len(tags)
    PROVE  /\ v[n].idx = Number(n)
           /\ Len(v[n].files) = IF Number(n) <= INITRD_MAX_FILES THEN Number(n) ELSE INITRD_MAX_FILES
           /\ \A i \in 1 .. n : tags[i].module /\ Number(i) <= INITRD_MAX_FILES =>
                 v[n].files[Number(i)] = File(tags[i], Number(i) - 1)
<1> DEFINE Good(k) ==
              /\ v[k].idx = Number(k)
              /\ Len(v[k].files) = IF Number(k) <= INITRD_MAX_FILES THEN Number(k) ELSE INITRD_MAX_FILES
              /\ \A i \in 1 .. k : tags[i].module /\ Number(i) <= INITRD_MAX_FILES =>
                    v[k].files[Number(i)] = File(tags[i], Number(i) - 1)
           Bad == {k \in 0 .. Len(tags) : ~ Good(k)}
<1>1. Len(tags) \in Nat /\ INITRD_MAX_FILES \in Nat
  BY InitrdAssumption
<1>2. Good(0)
  <2>1. Number(0) = 0
    BY <1>1, NumberGrows
  <2>2. v[0].idx = 0 /\ v[0].files = <<>> /\ Len(<<>>) = 0
    OBVIOUS
  <2>3. \A i \in 1 .. 0 : FALSE
    OBVIOUS
  <2>4. QED
    BY <1>1, <2>1, <2>2, <2>3
<1>3. ASSUME NEW k \in 1 .. Len(tags), Good(k - 1) PROVE Good(k)
  <2> DEFINE read == v[k - 1]
             tag == tags[k]
  <2>1. k \in Nat \ {0} /\ k - 1 \in 0 .. Len(tags) /\ k \in 1 .. Len(tags)
    BY <1>1
  <2>2. read \in Table /\ tag \in Range(tags) /\ v[k] = Load(read, tag)
    <3>1. read \in Table /\ v[k] = Load(read, tag)
      BY <2>1
    <3>2. k \in DOMAIN tags
      BY <2>1
    <3>3. tag \in Range(tags)
      BY <3>2 DEF Range
    <3>4. QED
      BY <3>1, <3>3
  <2>3. /\ v[k].idx = IF tag.module THEN read.idx + 1 ELSE read.idx
        /\ v[k].files = IF tag.module /\ Len(read.files) < INITRD_MAX_FILES
                        THEN Append(read.files, File(tag, read.idx)) ELSE read.files
    BY <2>2, LoadIsTable
  <2>4. /\ Number(k) \in Nat /\ Number(k - 1) \in Nat
        /\ Number(k) = IF tag.module THEN Number(k - 1) + 1 ELSE Number(k - 1)
    BY <2>1, NumberStep
  <2>5. /\ read.idx = Number(k - 1)
        /\ Len(read.files) = IF Number(k - 1) <= INITRD_MAX_FILES THEN Number(k - 1) ELSE INITRD_MAX_FILES
        /\ \A i \in 1 .. k - 1 : tags[i].module /\ Number(i) <= INITRD_MAX_FILES =>
              read.files[Number(i)] = File(tags[i], Number(i) - 1)
    BY <1>3
  <2>6. ASSUME NEW i \in 1 .. k - 1, tags[i].module
        PROVE  Number(i) \in Nat /\ 1 <= Number(i) /\ Number(i) <= Number(k - 1)
    <3>1. i \in Nat \ {0} /\ k - 1 \in Nat /\ i \in 0 .. k - 1
      BY <2>1
    <3>2. Number(i) \in Nat /\ Number(i) <= Number(k - 1)
      BY <3>1, NumberGrows
    <3>3. Number(i - 1) \in Nat /\ Number(i) = Number(i - 1) + 1
      BY <2>6, <3>1, NumberStep
    <3>4. QED
      BY <3>2, <3>3
  <2>7. \A i \in 1 .. k : i = k \/ i \in 1 .. k - 1
    BY <2>1
  <2>8. PICK W : read.files \in Seq(W) /\ \A t \in Range(tags), m \in Nat : File(t, m) \in W
    BY <2>2 DEF Table
  <2> HIDE DEF read
  <2>9. CASE ~ tag.module
    BY <2>3, <2>4, <2>5, <2>7, <2>9
  <2>10. CASE tag.module /\ ~ (Len(read.files) < INITRD_MAX_FILES)
    <3>1. Number(k - 1) >= INITRD_MAX_FILES /\ Number(k) = Number(k - 1) + 1
      BY <1>1, <2>4, <2>5, <2>10
    <3>2. v[k].files = read.files /\ v[k].idx = Number(k) /\ ~ (Number(k) <= INITRD_MAX_FILES)
      BY <1>1, <2>3, <2>4, <2>5, <2>10, <3>1
    <3>3. Len(v[k].files) = INITRD_MAX_FILES
      BY <1>1, <2>4, <2>5, <3>1, <3>2
    <3>4. \A i \in 1 .. k : tags[i].module /\ Number(i) <= INITRD_MAX_FILES =>
                v[k].files[Number(i)] = File(tags[i], Number(i) - 1)
      BY <2>5, <2>7, <3>2
    <3>5. QED
      BY <3>2, <3>3, <3>4
  <2>11. CASE tag.module /\ Len(read.files) < INITRD_MAX_FILES
    <3> DEFINE file == File(tag, read.idx)
    <3>1. /\ Len(read.files) = Number(k - 1) /\ Number(k) = Number(k - 1) + 1
          /\ Number(k) <= INITRD_MAX_FILES
      BY <1>1, <2>4, <2>5, <2>11
    <3>2. file \in W
      BY <2>2, <2>4, <2>5, <2>8
    <3>3. v[k].files = Append(read.files, file) /\ v[k].idx = Number(k)
      BY <2>3, <2>4, <2>5, <2>11
    <3> HIDE DEF file
    <3>4. /\ Len(v[k].files) = Number(k) /\ v[k].files[Number(k)] = file
          /\ \A m \in 1 .. Number(k - 1) : v[k].files[m] = read.files[m]
      BY <2>4, <2>8, <3>1, <3>2, <3>3
    <3>5. file = File(tags[k], Number(k) - 1)
      <4>1. read.idx = Number(k) - 1
        BY <2>4, <2>5, <3>1
      <4>2. QED
        BY <4>1 DEF file
    <3>6. ASSUME NEW i \in 1 .. k, tags[i].module, Number(i) <= INITRD_MAX_FILES
          PROVE  v[k].files[Number(i)] = File(tags[i], Number(i) - 1)
      <4>1. CASE i = k
        BY <3>4, <3>5, <4>1
      <4>2. CASE i # k
        <5>1. i \in 1 .. k - 1
          BY <2>7, <4>2
        <5>2. Number(i) \in 1 .. Number(k - 1)
          BY <2>4, <2>6, <3>6, <5>1
        <5>3. v[k].files[Number(i)] = read.files[Number(i)]
          BY <3>4, <5>2
        <5>4. read.files[Number(i)] = File(tags[i], Number(i) - 1)
          BY <2>5, <3>6, <5>1
        <5>5. QED
          BY <5>3, <5>4
      <4>3. QED
        BY <4>1, <4>2
    <3>7. QED
      BY <3>1, <3>3, <3>4, <3>6
  <2>12. QED
    BY <2>9, <2>10, <2>11
<1> HIDE DEF Good
<1>4. ASSUME Bad # {} PROVE FALSE
  <2>1. Bad \in SUBSET Nat
    BY <1>1
  <2>2. PICK m \in Bad : \A k \in Bad : m <= k
    BY <1>4, <2>1, LeastPosition, Zenon
  <2>3. m # 0
    BY <1>2, <2>2
  <2>4. m \in 1 .. Len(tags) /\ m - 1 \in 0 .. Len(tags) /\ ~ (m <= m - 1)
    BY <1>1, <2>2, <2>3
  <2>5. Good(m - 1)
    BY <2>2, <2>4
  <2>6. Good(m)
    BY <1>3, <2>4, <2>5
  <2>7. QED
    BY <2>2, <2>6
<1>5. Good(n)
  BY <1>4
<1>6. QED
  BY <1>5 DEF Good

\* What the initrd holds.
LEMMA InitrdIs ==
    ASSUME InitrdInit
    PROVE  /\ Len(g_initrd) \in Nat /\ Len(g_initrd) <= INITRD_MAX_FILES
           /\ \A i \in DOMAIN tags : tags[i].module /\ Number(i) <= INITRD_MAX_FILES =>
                 /\ Number(i) \in 1 .. Len(g_initrd)
                 /\ g_initrd[Number(i)] = File(tags[i], Number(i) - 1)
<1>1. tags \in Seq(Range(tags)) /\ INITRD_MAX_FILES \in Nat
  BY BootsAssumption, InitrdAssumption DEF InitrdInit
<1>2. g_initrd = LoadedBy(tags).files
  BY Zenon DEF InitrdInit, LoadedBy
<1>3. PICK v \in [0 .. Len(tags) -> Table] :
         /\ v[0] = [idx |-> 0, files |-> <<>>]
         /\ \A n \in 1 .. Len(tags) : v[n] = Load(v[n - 1], tags[n])
         /\ LoadedBy(tags) = v[Len(tags)]
  BY <1>1, LoadedIs
<1>4. Len(tags) \in Nat /\ Len(tags) \in 0 .. Len(tags) /\ DOMAIN tags = 1 .. Len(tags)
  BY <1>1
<1>5. /\ Len(g_initrd) = IF Number(Len(tags)) <= INITRD_MAX_FILES
                         THEN Number(Len(tags)) ELSE INITRD_MAX_FILES
      /\ \A i \in 1 .. Len(tags) : tags[i].module /\ Number(i) <= INITRD_MAX_FILES =>
            g_initrd[Number(i)] = File(tags[i], Number(i) - 1)
  BY <1>1, <1>2, <1>3, <1>4, TableAfter
<1>6. Number(Len(tags)) \in Nat
  BY <1>4, NumberGrows
<1>7. ASSUME NEW i \in DOMAIN tags, tags[i].module, Number(i) <= INITRD_MAX_FILES
      PROVE  Number(i) \in 1 .. Len(g_initrd)
  <2>1. i \in Nat \ {0} /\ i \in 0 .. Len(tags)
    BY <1>4
  <2>2. Number(i) \in Nat /\ Number(i) <= Number(Len(tags))
    BY <1>4, <2>1, NumberGrows
  <2>3. Number(i - 1) \in Nat /\ Number(i) = Number(i - 1) + 1
    BY <1>7, <2>1, NumberStep
  <2>4. QED
    BY <1>1, <1>5, <1>6, <1>7, <2>2, <2>3
<1>8. QED
  BY <1>1, <1>4, <1>5, <1>6, <1>7

\* A served module is found under its number.
LEMMA ServedIs ==
    ASSUME InitrdInit, NEW i \in ServedModules
    PROVE  /\ ModuleName(i) \in PathNames /\ First23[ModuleName(i)] = ModuleName(i)
           /\ InitrdFind(ModuleName(i)) = Number(i) /\ Number(i) \in Nat \ {0}
           /\ g_initrd[Number(i)].data = tags[i].data
<1>1. /\ i \in DOMAIN tags /\ tags[i].module /\ Number(i) <= INITRD_MAX_FILES
      /\ First23[ModuleName(i)] = ModuleName(i)
      /\ \A j \in 1 .. i - 1 : tags[j].module => ModuleName(j) # ModuleName(i)
  BY DEF ServedModules
<1>2. /\ tags \in Boots /\ tags \in Seq(Range(tags)) /\ tags[i] \in Range(tags)
      /\ ModuleNames \in Seq(PathNames) /\ NoBase \notin PathNames
      /\ tags[i].base \in PathNames \cup {NoBase}
      /\ Cardinality({j \in DOMAIN tags : tags[j].module}) <= Len(ModuleNames)
  BY <1>1, BootsAssumption DEF InitrdInit, Range
<1>3. Len(tags) \in Nat /\ DOMAIN tags = 1 .. Len(tags) /\ i \in Nat \ {0} /\ i \in 0 .. Len(tags)
  BY <1>1, <1>2
<1>4. /\ Number(i) \in Nat /\ Number(i - 1) \in Nat /\ Number(i) = Number(i - 1) + 1
      /\ Number(i) <= Number(Len(tags))
  BY <1>1, <1>3, NumberStep, NumberGrows
<1>5. ModuleName(i) \in PathNames
  <2>1. Number(Len(tags)) <= Len(ModuleNames)
    BY <1>2, <1>3 DEF Number
  <2>2. Number(i) \in 1 .. Len(ModuleNames)
    <3>1. Number(Len(tags)) \in Nat /\ Len(ModuleNames) \in Nat
      BY <1>2, <1>3, NumberGrows
    <3>2. QED
      BY <1>4, <2>1, <3>1
  <2>3. ModuleNames[Number(i)] \in PathNames
    BY <1>2, <2>2
  <2>4. (Number(i) - 1) + 1 = Number(i)
    BY <1>4
  <2>5. tags[i].base # NoBase => First31[tags[i].base] \in PathNames
    BY <1>2, CutsAssumption
  <2>6. QED
    BY <2>3, <2>4, <2>5 DEF ModuleName, BaseName
<1>6. /\ Number(i) \in 1 .. Len(g_initrd) /\ Len(g_initrd) \in Nat
      /\ g_initrd[Number(i)] = File(tags[i], Number(i) - 1)
  BY <1>1, InitrdIs
<1>7. g_initrd[Number(i)].name = ModuleName(i) /\ g_initrd[Number(i)].data = tags[i].data
  BY <1>6 DEF File, ModuleName
<1>8. ASSUME NEW k \in 1 .. Len(g_initrd), k < Number(i)
      PROVE  g_initrd[k].name # ModuleName(i)
  <2>1. i - 1 \in Nat /\ k \in 1 .. Number(i - 1)
    BY <1>3, <1>4, <1>8
  <2>2. PICK j \in 1 .. i - 1 : tags[j].module /\ Number(j) = k
    BY <2>1, NumberReached
  <2>3. j \in DOMAIN tags
    BY <1>3
  <2>4. k <= INITRD_MAX_FILES
    BY <1>1, <1>4, <1>8, InitrdAssumption
  <2>5. g_initrd[k] = File(tags[j], Number(j) - 1)
    BY <2>2, <2>3, <2>4, InitrdIs
  <2>6. g_initrd[k].name = ModuleName(j)
    BY <2>5 DEF File, ModuleName
  <2>7. QED
    BY <1>1, <2>2, <2>6
<1>9. InitrdFind(ModuleName(i)) = Number(i)
  <2> DEFINE K == {k \in 1 .. Len(g_initrd) : g_initrd[k].name = ModuleName(i)}
  <2>1. InitrdFind(ModuleName(i)) = IF K # {} THEN Min(K) ELSE 0
    BY Zenon DEF InitrdFind, SelectInSeq
  <2>2. Number(i) \in K /\ \A k \in K : Number(i) <= k
    BY <1>4, <1>6, <1>7, <1>8
  <2>3. K \in SUBSET Nat
    OBVIOUS
  <2> HIDE DEF K
  <2>4. \A x \in K : (\A y \in K : x <= y) => x = Number(i)
    BY <1>4, <2>2, <2>3
  <2>5. Min(K) = Number(i)
    BY <2>2, <2>4, Zenon DEF Min
  <2>6. QED
    BY <2>1, <2>2, <2>5
<1>10. QED
  BY <1>1, <1>4, <1>5, <1>7, <1>9

\* From wherever the user is, the path up and into the initrd.
LEMMA ServedPath ==
    ASSUME g_cwd \in {<<>>, <<InitrdName>>}, NEW name \in PathNames, First23[name] = name
    PROVE  Normalize(ToInitrd(name)) = <<InitrdName, name>>
<1> DEFINE p == ToInitrd(name)
<1>1. /\ InitrdName \in PathNames /\ First23[InitrdName] = InitrdName
      /\ InitrdName # Up /\ name # Up
  BY CutsAssumption, NamesAssumption, PathsAssumption
<1>2. g_cwd \in Seq(PathNames)
  <2>1. <<>> \in Seq(PathNames) /\ <<InitrdName>> \in Seq(PathNames)
    BY <1>1
  <2>2. QED
    BY <2>1
<1>3. PathStep(<<>>, InitrdName) = <<InitrdName>> /\ PathStep(<<InitrdName>>, name) = <<InitrdName, name>>
  <2>1. Append(<<>>, InitrdName) = <<InitrdName>> /\ Append(<<InitrdName>>, name) = <<InitrdName, name>>
    <3>1. Append(<<>>, InitrdName) = <<InitrdName>>
      BY <1>1
    <3>2. Append(<<InitrdName>>, name) = <<InitrdName, name>>
      <4>1. /\ <<InitrdName>> \in Seq(PathNames) /\ Len(<<InitrdName>>) = 1
            /\ <<InitrdName>>[1] = InitrdName
            /\ <<InitrdName, name>> \in Seq(PathNames) /\ Len(<<InitrdName, name>>) = 2
            /\ <<InitrdName, name>>[1] = InitrdName /\ <<InitrdName, name>>[2] = name
        BY <1>1
      <4>2. /\ Append(<<InitrdName>>, name) \in Seq(PathNames)
            /\ Len(Append(<<InitrdName>>, name)) = 2
            /\ Append(<<InitrdName>>, name)[1] = InitrdName
            /\ Append(<<InitrdName>>, name)[2] = name
        BY <4>1, AppendProperties
      <4>3. \A i \in 1 .. 2 : i = 1 \/ i = 2
        OBVIOUS
      <4>4. QED
        BY <4>1, <4>2, <4>3, SeqEqual
    <3>3. QED
      BY <3>1, <3>2
  <2>2. PathStep(<<>>, InitrdName) = Append(<<>>, InitrdName)
    BY <1>1 DEF PathStep
  <2>3. PathStep(<<InitrdName>>, name) = Append(<<InitrdName>>, name)
    BY <1>1 DEF PathStep
  <2>4. QED
    BY <2>1, <2>2, <2>3
<1>4. CASE g_cwd = <<>>
  <2>1. ToInitrd(name) = [absolute |-> FALSE, segs |-> <<InitrdName, name>>]
    <3>1. [i \in DOMAIN g_cwd |-> Up] = <<>>
      BY <1>4
    <3>2. <<>> \o <<InitrdName, name>> = <<InitrdName, name>>
      OBVIOUS
    <3>3. QED
      BY <3>1, <3>2, Zenon DEF ToInitrd
  <2>2. p.segs = <<InitrdName, name>> /\ p.absolute = FALSE
    BY <2>1
  <2> HIDE DEF p
  <2>3. /\ p.segs \in Seq(PathNames \cup {Up}) /\ Len(p.segs) = 2
        /\ p.segs[1] = InitrdName /\ p.segs[2] = name
    BY <1>1, <2>2
  <2>4. PICK v : /\ v[0] = g_cwd
                 /\ \A n \in 1 .. 2 : v[n] = PathStep(v[n - 1], p.segs[n])
                 /\ Normalize(p) = v[2]
    BY <1>2, <2>2, <2>3, NormalizeIs
  <2>5. v[1] = PathStep(v[0], p.segs[1]) /\ v[2] = PathStep(v[1], p.segs[2])
    <3>1. 1 \in 1 .. 2 /\ 2 \in 1 .. 2 /\ 1 - 1 = 0 /\ 2 - 1 = 1
      OBVIOUS
    <3>2. v[1] = PathStep(v[1 - 1], p.segs[1]) /\ v[2] = PathStep(v[2 - 1], p.segs[2])
      BY <2>4, <3>1, Zenon
    <3>3. QED
      BY <3>1, <3>2
  <2>6. v[0] = <<>>
    BY <1>4, <2>4
  <2>7. v[1] = <<InitrdName>>
    BY <1>3, <2>3, <2>5, <2>6
  <2>8. v[2] = <<InitrdName, name>>
    BY <1>3, <2>3, <2>5, <2>7
  <2>9. QED
    BY <2>4, <2>8 DEF p
<1>5. CASE g_cwd = <<InitrdName>>
  <2>1. ToInitrd(name) = [absolute |-> FALSE, segs |-> <<Up>> \o <<InitrdName, name>>]
    <3>1. [i \in DOMAIN g_cwd |-> Up] = <<Up>>
      <4>1. DOMAIN g_cwd = 1 .. 1
        BY <1>5
      <4>2. [i \in 1 .. 1 |-> Up] = <<Up>>
        OBVIOUS
      <4>3. QED
        BY <4>1, <4>2
    <3>2. QED
      BY <3>1, Zenon DEF ToInitrd
  <2>2. p.segs = <<Up>> \o <<InitrdName, name>> /\ p.absolute = FALSE
    BY <2>1
  <2> HIDE DEF p
  <2>3. /\ p.segs \in Seq(PathNames \cup {Up}) /\ Len(p.segs) = 3
        /\ p.segs[1] = Up /\ p.segs[2] = InitrdName /\ p.segs[3] = name
    BY <1>1, <2>2
  <2>4. PICK v : /\ v[0] = g_cwd
                 /\ \A n \in 1 .. 3 : v[n] = PathStep(v[n - 1], p.segs[n])
                 /\ Normalize(p) = v[3]
    BY <1>2, <2>2, <2>3, NormalizeIs
  <2>5. /\ v[1] = PathStep(v[0], p.segs[1]) /\ v[2] = PathStep(v[1], p.segs[2])
        /\ v[3] = PathStep(v[2], p.segs[3])
    <3>1. /\ 1 \in 1 .. 3 /\ 2 \in 1 .. 3 /\ 3 \in 1 .. 3
          /\ 1 - 1 = 0 /\ 2 - 1 = 1 /\ 3 - 1 = 2
      OBVIOUS
    <3>2. /\ v[1] = PathStep(v[1 - 1], p.segs[1]) /\ v[2] = PathStep(v[2 - 1], p.segs[2])
          /\ v[3] = PathStep(v[3 - 1], p.segs[3])
      BY <2>4, <3>1, Zenon
    <3>3. QED
      BY <3>1, <3>2
  <2>6. v[1] = <<>>
    <3>1. PathStep(<<InitrdName>>, Up) = SubSeq(<<InitrdName>>, 1, Len(<<InitrdName>>) - 1)
      BY DEF PathStep, Front
    <3>2. Len(<<InitrdName>>) - 1 = 0
      OBVIOUS
    <3>3. SubSeq(<<InitrdName>>, 1, 0) = <<>>
      BY SubSeqEmpty
    <3>4. PathStep(<<InitrdName>>, Up) = <<>>
      BY <3>1, <3>2, <3>3
    <3>5. QED
      BY <1>5, <2>3, <2>4, <2>5, <3>4
  <2>7. v[2] = <<InitrdName>>
    BY <1>3, <2>3, <2>5, <2>6
  <2>8. v[3] = <<InitrdName, name>>
    BY <1>3, <2>3, <2>5, <2>7
  <2>9. QED
    BY <2>4, <2>8 DEF p
<1>6. QED
  BY <1>4, <1>5

\* Reading chunk by chunk gives the whole text.
LEMMA CatIs ==
    ASSUME NEW path, NEW A, NEW data \in Seq(A), CHUNK \in Nat \ {0},
           \A pos \in Nat : VfsRead(Resolve(path), pos) = Read(data, pos)
    PROVE  CatOutput(path) = data
<1> DEFINE at == Resolve(path)
           Is(f) == f = [pos \in Nat |->
                          IF VfsRead(at, pos) = <<>> THEN <<>>
                          ELSE VfsRead(at, pos) \o f[pos + Len(VfsRead(at, pos))]]
           from == CHOOSE f : Is(f)
           total == Len(data)
           rest == [pos \in Nat |-> IF pos >= total THEN <<>> ELSE SubSeq(data, pos + 1, total)]
<1>1. CatOutput(path) = from[0]
  BY Zenon DEF CatOutput
<1>2. total \in Nat /\ data \in [1 .. total -> A]
  OBVIOUS
<1> DEFINE end(pos) == IF total - pos > CHUNK THEN pos + CHUNK ELSE total
<1>3. ASSUME NEW pos \in Nat
      PROVE  /\ pos >= total => Read(data, pos) = <<>> /\ rest[pos] = <<>>
             /\ pos < total => /\ end(pos) \in pos + 1 .. total
                           /\ Read(data, pos) # <<>>
                           /\ pos + Len(Read(data, pos)) = end(pos)
                           /\ rest[pos] = Read(data, pos) \o rest[end(pos)]
  <2>1. ASSUME pos >= total PROVE Read(data, pos) = <<>> /\ rest[pos] = <<>>
    BY <2>1 DEF Read
  <2>2. ASSUME pos < total
        PROVE  /\ end(pos) \in pos + 1 .. total
               /\ Read(data, pos) # <<>>
               /\ pos + Len(Read(data, pos)) = end(pos)
               /\ rest[pos] = Read(data, pos) \o rest[end(pos)]
    <3> DEFINE k == end(pos)
    <3>1. k \in pos + 1 .. total /\ k \in Nat
      BY <1>2, <2>2
    <3>2. Read(data, pos) = SubSeq(data, pos + 1, k)
      BY <1>2, <2>2 DEF Read
    <3> HIDE DEF k, rest
    <3>3. \A j \in pos + 1 .. k : data[j] \in A
      BY <1>2, <3>1
    <3>4. SubSeq(data, pos + 1, k) \in Seq(A) /\ Len(SubSeq(data, pos + 1, k)) = k - pos
      <4>1. pos + 1 \in Int /\ k \in Int /\ pos + 1 <= k /\ k - (pos + 1) + 1 = k - pos
        BY <3>1
      <4>2. QED
        BY <3>3, <4>1, SubSeqProperties
    <3>5. Read(data, pos) # <<>> /\ pos + Len(Read(data, pos)) = k
      BY <3>1, <3>2, <3>4
    <3>6. rest[pos] = SubSeq(data, pos + 1, total)
      BY <1>2, <2>2 DEF rest
    <3>7. rest[k] = SubSeq(data, k + 1, total)
      <4>1. CASE k >= total
        <5>1. rest[k] = <<>> /\ total < k + 1
          BY <1>2, <3>1, <4>1 DEF rest
        <5>2. SubSeq(data, k + 1, total) = <<>>
          BY <1>2, <3>1, <5>1, SubSeqEmpty
        <5>3. QED
          BY <5>1, <5>2
      <4>2. CASE ~ (k >= total)
        BY <3>1, <4>2 DEF rest
      <4>3. QED
        BY <4>1, <4>2
    <3>8. SubSeq(data, pos + 1, k) \o SubSeq(data, k + 1, total) = SubSeq(data, pos + 1, total)
      <4>1. pos + 1 \in 1 .. total + 1 /\ k \in (pos + 1) - 1 .. total /\ total \in k .. total
        BY <1>2, <2>2, <3>1
      <4>2. QED
        BY <4>1, ConcatAdjacentSubSeq
    <3>9. QED
      BY <3>1, <3>2, <3>5, <3>6, <3>7, <3>8 DEF k
  <2>3. QED
    BY <2>1, <2>2
<1>4. \A pos \in Nat : VfsRead(at, pos) = Read(data, pos)
  OBVIOUS
<1>5. \A pos \in Nat : pos >= total \/ pos < total
  BY <1>2
<1> HIDE DEF at, rest, end
<1>6. Is(rest)
  <2>1. ASSUME NEW pos \in Nat
        PROVE  rest[pos] = IF VfsRead(at, pos) = <<>> THEN <<>>
                           ELSE VfsRead(at, pos) \o rest[pos + Len(VfsRead(at, pos))]
    <3>1. CASE pos >= total
      BY <1>3, <1>4, <3>1
    <3>2. CASE pos < total
      <4>1. /\ VfsRead(at, pos) = Read(data, pos) /\ Read(data, pos) # <<>>
            /\ pos + Len(Read(data, pos)) = end(pos)
            /\ rest[pos] = Read(data, pos) \o rest[end(pos)]
        BY <1>3, <1>4, <3>2
      <4>2. QED
        BY <4>1
    <3>3. QED
      BY <1>5, <3>1, <3>2
  <2>2. rest = [pos \in Nat |-> rest[pos]]
    BY DEF rest
  <2>3. QED
    BY <2>1, <2>2, Zenon
<1>7. Is(from)
  BY <1>6, Zenon
<1> HIDE DEF from
<1>8. \A pos \in Nat : from[pos] = IF VfsRead(at, pos) = <<>> THEN <<>>
                                   ELSE VfsRead(at, pos) \o from[pos + Len(VfsRead(at, pos))]
  BY <1>7, Zenon
<1> HIDE DEF Is
\* The descriptor moves on: by the distance to the end, from and rest agree.
<1>9. \A pos \in Nat : from[pos] = rest[pos]
  <2> DEFINE Bad == {d \in 0 .. total : from[total - d] # rest[total - d]}
  <2>1. ASSUME NEW pos \in Nat, pos >= total PROVE from[pos] = rest[pos]
    BY <1>3, <1>4, <1>8, <2>1
  <2>2. ASSUME Bad # {} PROVE FALSE
    <3>1. Bad \in SUBSET Nat
      BY <1>2
    <3>2. PICK d \in Bad : \A e \in Bad : d <= e
      BY <2>2, <3>1, LeastPosition, Zenon
    <3> DEFINE pos == total - d
    <3>3. pos \in Nat /\ d \in 0 .. total /\ from[pos] # rest[pos]
      BY <1>2
    <3>4. pos < total
      BY <1>5, <2>1, <3>3
    <3>5. /\ end(pos) \in pos + 1 .. total
          /\ VfsRead(at, pos) = Read(data, pos) /\ Read(data, pos) # <<>>
          /\ pos + Len(Read(data, pos)) = end(pos)
          /\ rest[pos] = Read(data, pos) \o rest[end(pos)]
      BY <1>3, <1>4, <3>3, <3>4
    <3>6. from[pos] = Read(data, pos) \o from[end(pos)]
      BY <1>8, <3>3, <3>5
    <3>7. total - end(pos) \in 0 .. total /\ ~ (d <= total - end(pos)) /\ total - (total - end(pos)) = end(pos)
      BY <1>2, <3>3, <3>5
    <3>8. from[end(pos)] = rest[end(pos)]
      BY <3>2, <3>7
    <3>9. QED
      BY <3>3, <3>5, <3>6, <3>8
  <2>3. ASSUME NEW pos \in Nat, pos < total PROVE from[pos] = rest[pos]
    <3>1. total - pos \in 0 .. total /\ total - (total - pos) = pos
      BY <1>2, <2>3
    <3>2. total - pos \notin Bad
      BY <2>2
    <3>3. QED
      BY <3>1, <3>2
  <2>4. QED
    BY <1>5, <2>1, <2>3
<1>10. rest[0] = data
  <2>1. CASE total = 0
    <3>1. data = <<>>
      BY <2>1
    <3>2. QED
      BY <1>2, <2>1, <3>1 DEF rest
  <2>2. CASE total # 0
    <3>1. rest[0] = SubSeq(data, 1, total)
      BY <1>2, <2>2 DEF rest
    <3>2. QED
      BY <3>1, SubSeqFull
  <2>3. QED
    BY <2>1, <2>2
<1>11. QED
  BY <1>1, <1>9, <1>10

-----------------------------------------------------------------------------
(* The inductive invariant.                                                *)

IInv ==
    /\ Intact(g_nodes)
    /\ g_cwd \in {<<>>, <<InitrdName>>}
    /\ InitrdInit

\* The invariant holds after the boot.
LEMMA IInvInit == Init => IInv
BY InitIs DEF Init, IInv

\* No command changes the initrd's table.
LEMMA InitrdStays ==
    ASSUME InitrdInit, UNCHANGED <<tags, g_initrd>>
    PROVE  InitrdInit'
<1>1. tags \in Boots /\ g_initrd = LoadedBy(tags).files
  BY Zenon DEF InitrdInit, LoadedBy
<1>2. tags' \in Boots /\ g_initrd' = LoadedBy(tags').files
  BY <1>1
<1>3. QED
  BY <1>2 DEF InitrdInit, LoadedBy

\* Every command keeps the invariant.
LEMMA IInvNext == IInv /\ [Next]_vars => IInv'
<1> SUFFICES ASSUME IInv, [Next]_vars PROVE IInv'
  OBVIOUS
<1>1. ASSUME Fs, UNCHANGED <<tags, g_initrd, g_cwd>> PROVE IInv'
  <2>1. Intact(g_nodes')
    BY <1>1, FsAllowed DEF IInv, Allowed
  <2>2. InitrdInit'
    BY <1>1, InitrdStays DEF IInv
  <2>3. QED
    BY <1>1, <2>1, <2>2 DEF IInv, Intact
<1>2. ASSUME NEW p \in Paths, Chdir(p) PROVE IInv'
  <2>1. UNCHANGED <<g_nodes, tags, g_initrd>>
    BY <1>2 DEF Chdir
  <2>2. InitrdInit'
    BY <2>1, InitrdStays DEF IInv
  <2>3. g_cwd' \in {<<>>, <<InitrdName>>}
    BY <1>2, ChdirIs DEF IInv
  <2>4. Intact(g_nodes')
    BY <2>1 DEF IInv
  <2>5. QED
    BY <2>2, <2>3, <2>4 DEF IInv
<1>3. ASSUME UNCHANGED vars PROVE IInv'
  <2>1. UNCHANGED <<g_nodes, tags, g_initrd, g_cwd>>
    BY <1>3 DEF vars
  <2>2. InitrdInit'
    BY <2>1, InitrdStays DEF IInv
  <2>3. Intact(g_nodes')
    BY <2>1 DEF IInv
  <2>5. QED
    BY <2>1, <2>2, <2>3 DEF IInv
<1>4. QED
  BY <1>1, <1>2, <1>3 DEF Next

\* It has the types,
LEMMA IInvTypeOK == IInv => TypeOK
<1> SUFFICES ASSUME IInv PROVE TypeOK
  OBVIOUS
<1>1. /\ g_nodes \in [Node -> NodeRecord]
      /\ \A i \in Node : Len(g_nodes[i].text) < RAMFS_MAX_CONTENT
  BY DEF IInv, Intact, Typed
<1>2. g_cwd \in Seq(PathNames)
  <2>1. InitrdName \in PathNames
    BY CutsAssumption, NamesAssumption
  <2>2. <<>> \in Seq(PathNames) /\ <<InitrdName>> \in Seq(PathNames)
    BY <2>1
  <2>3. QED
    BY <2>2 DEF IInv
<1>3. tags \in Boots /\ Len(g_initrd) <= INITRD_MAX_FILES
  <2>1. tags \in Boots
    BY DEF IInv, InitrdInit
  <2>2. Len(g_initrd) <= INITRD_MAX_FILES
    BY InitrdIs DEF IInv
  <2>3. QED
    BY <2>1, <2>2
<1>4. QED
  BY <1>1, <1>2, <1>3, Zenon DEF TypeOK, NodeRecord

\* the table,
LEMMA IInvTableIntact == IInv => TableIntact
<1> SUFFICES ASSUME Intact(g_nodes) PROVE TableIntact
  BY DEF IInv
<1>1. /\ Range(Children(Root)) = Used(g_nodes)
      /\ Len(Children(Root)) = Cardinality(Used(g_nodes))
      /\ \A i \in Used(g_nodes) : Find(Root, g_nodes[i].name) = i
  BY FindIs
<1>2. g_nodes[Root].used /\ \A i \in Used(g_nodes) : g_nodes[i].parent = Root
  BY DEF Intact, Rooted
<1>3. QED
  BY <1>1, <1>2, Zenon DEF TableIntact, Used

\* and from it every module that was taken is found where ls shows it.
LEMMA IInvModulesServed == IInv => ModulesServed
<1> SUFFICES ASSUME IInv PROVE ModulesServed
  OBVIOUS
<1>1. g_cwd \in {<<>>, <<InitrdName>>} /\ InitrdInit /\ Intact(g_nodes)
  BY DEF IInv
<1>2. InitrdName \in PathNames
  BY CutsAssumption, NamesAssumption
<1>3. Resolve(g_cwd).is_dir
  <2>1. <<>> \in Seq(PathNames) /\ <<InitrdName>> \in Seq(PathNames)
    BY <1>2
  <2>2. QED
    BY <1>1, <2>1, DirectoriesAre
<1>4. ASSUME NEW i \in ServedModules
      PROVE  LET path == Normalize(ToInitrd(ModuleName(i)))
             IN  CanOpen(path) /\ CatOutput(path) = tags[i].data
  <2> DEFINE name == ModuleName(i)
             path == <<InitrdName, name>>
             found == [mount |-> "initrd", is_dir |-> FALSE, node |-> Number(i)]
  <2>1. /\ name \in PathNames /\ First23[name] = name
        /\ InitrdFind(name) = Number(i) /\ Number(i) \in Nat \ {0}
        /\ g_initrd[Number(i)].data = tags[i].data
    BY <1>1, ServedIs
  <2>2. Normalize(ToInitrd(name)) = path
    <3> HIDE DEF name
    <3>1. QED
      BY <1>1, <2>1, ServedPath
  <2> HIDE DEF name
  <2>3. path \in Seq(PathNames) /\ path # <<>> /\ path[1] = InitrdName /\ Len(path) = 2
    BY <1>2, <2>1
  <2>4. SubSeq(path, 2, Len(path)) = <<name>>
    <3>1. 2 \in 1 .. Len(path) /\ 2 \in 2 .. Len(path) /\ path[2] = name
      BY <2>3
    <3>2. SubSeq(path, 2, 2) = <<path[2]>> \o SubSeq(path, 2 + 1, 2)
      BY <2>3, <3>1, SubSeqRecursiveFirst
    <3>3. SubSeq(path, 2 + 1, 2) = <<>>
      BY SubSeqEmpty
    <3>4. <<name>> \o <<>> = <<name>>
      BY <2>1, ConcatEmptySeq
    <3>5. QED
      BY <2>3, <3>1, <3>2, <3>3, <3>4
  <2> HIDE DEF path
  <2>5. Resolve(path) = InitrdLookup(<<name>>)
    BY <2>3, <2>4, ResolveIs
  <2>6. InitrdLookup(<<name>>) = found
    <3>1. <<name>> # <<>> /\ Len(<<name>>) = 1 /\ <<name>>[1] = name
      OBVIOUS
    <3>2. InitrdFind(name) > 0
      BY <2>1
    <3>3. QED
      BY <2>1, <3>1, <3>2, Zenon DEF InitrdLookup
  <2>7. CanOpen(path)
    <3>1. found.mount # NotFound.mount
      BY DEF NotFound
    <3>2. found # NotFound /\ ~ found.is_dir
      BY <3>1
    <3>3. QED
      BY <2>5, <2>6, <3>2 DEF CanOpen, Exists
  <2>8. CatOutput(path) = tags[i].data
    <3>1. /\ tags[i] \in Range(tags) /\ tags \in Boots
      <4>1. i \in DOMAIN tags
        BY DEF ServedModules
      <4>2. QED
        BY <1>1, <4>1 DEF InitrdInit, Range
    <3>2. tags[i].data \in Seq(Range(tags[i].data))
      BY <3>1, BootsAssumption
    <3>3. ASSUME NEW pos \in Nat
          PROVE  VfsRead(Resolve(path), pos) = Read(tags[i].data, pos)
      <4>1. found.mount # "ramfs" /\ found.node = Number(i)
        OBVIOUS
      <4> HIDE DEF found
      <4>2. VfsRead(found, pos) = Read(g_initrd[Number(i)].data, pos)
        BY <4>1 DEF VfsRead
      <4>3. QED
        BY <2>1, <2>5, <2>6, <4>2
    <3>4. QED
      BY <3>2, <3>3, CatIs, CutsAssumption
  <2>9. QED
    BY <2>2, <2>7, <2>8 DEF name
<1>5. QED
  BY <1>3, <1>4, Zenon DEF ModulesServed

-----------------------------------------------------------------------------
\* Every node, the current directory and the initrd's table have their types after every
\* sequence of fs and cd commands (ramfs.c, vfs.c).
THEOREM TypeCorrect == Spec => []TypeOK
<1>1. QED
  BY IInvInit, IInvNext, IInvTypeOK, PTL DEF Spec

\* The node table never breaks: the root's list reaches each used node once and ends, and
\* no two nodes share a name, whatever commands were refused half way (node_create_child).
THEOREM TableStaysIntact == Spec => []TableIntact
<1>1. QED
  BY IInvInit, IInvNext, IInvTableIntact, PTL DEF Spec

\* From wherever cd has led, cat shows each module that the initrd has taken, whole, under
\* the name that ls shows (resolve_path, initrd_read).
THEOREM ModulesAreServed == Spec => []ModulesServed
<1>1. QED
  BY IInvInit, IInvNext, IInvModulesServed, PTL DEF Spec

\* fs mv removes its source only when the target has got its text (app_fs.c:178).
THEOREM MovesKeepTexts == Spec => MoveKeepsText
<1>1. IInv => \A a \in Files \ Files', b \in Names :
          FsMove(a, b) /\ a # b /\ (Find(Root, b) = NULL \/ b \in Files) =>
             b \in Files' /\ Text(b)' = Text(a)
  BY MoveKeeps DEF IInv
<1>2. IInv /\ [Next]_vars =>
        [\A a \in Files \ Files', b \in Names :
            FsMove(a, b) /\ a # b /\ (Find(Root, b) = NULL \/ b \in Files) =>
               b \in Files' /\ Text(b)' = Text(a)]_vars
  BY <1>1, Zenon
<1>3. QED
  BY <1>2, IInvInit, IInvNext, PTL DEF Spec, MoveKeepsText

\* The entries after the boot are those the map starts with.
LEMMA StartIsRefined == Init => N!Init
<1> SUFFICES ASSUME Init PROVE N!Init
  OBVIOUS
<1>1. Intact(g_nodes) /\ EntriesOf(g_nodes) = [n \in {InitrdName} |-> Directory]
  BY InitIs DEF Init
<1>2. Entries = EntriesOf(g_nodes)
  BY <1>1, EntriesNow
<1>3. QED
  BY <1>1, <1>2 DEF N!Init

\* Every step changes the entries as the map allows, or leaves them.
LEMMA StepIsRefined == IInv /\ IInv' /\ [Next]_vars => [N!Next]_Entries
<1> SUFFICES ASSUME IInv, IInv', [Next]_vars PROVE [N!Next]_Entries
  OBVIOUS
<1>1. Entries = EntriesOf(g_nodes) /\ Entries' = EntriesOf(g_nodes')
  BY EntriesNow, EntriesNext DEF IInv
<1>2. CASE Fs
  <2>1. \/ EntriesOf(g_nodes') = EntriesOf(g_nodes)
        \/ EntriesOf(g_nodes') \in N!After(EntriesOf(g_nodes))
    BY <1>2, FsAllowed DEF IInv, Allowed
  <2>2. Entries' = Entries \/ Entries' \in N!After(Entries)
    BY <1>1, <2>1
  <2>3. QED
    BY <2>2, Zenon DEF N!Next
<1>3. CASE UNCHANGED g_nodes
  BY <1>1, <1>3
<1>4. Fs \/ UNCHANGED g_nodes
  BY DEF Next, Chdir, vars
<1>5. QED
  BY <1>2, <1>3, <1>4

\* The fs commands, on their table with its list, implement a bounded map from names to
\* texts: each step is one the map allows, or changes no entry.
THEOREM EntriesAreRefined == Spec => ImplementsNamedTexts
<1>1. QED
  BY IInvInit, IInvNext, StartIsRefined, StepIsRefined, PTL
     DEF Spec, ImplementsNamedTexts, N!Spec
=============================================================================
