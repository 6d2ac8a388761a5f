------------------------------- MODULE MCVfs -------------------------------
(* Vfs.tla with a table of four nodes and texts of up to three characters, *)
(* room for two boot modules, and long names that all begin like f.        *)
EXTENDS VfsProps

CONSTANTS f, g, h, long, longer, module0, module1, module2, initrd, x, y

MCNames   == {f, g, h, long, initrd}
MCLong    == {long}
MCDefault == <<module0, module1, module2>>
MCPathNames == MCNames \cup {longer} \cup Range(MCDefault)
First(n, cut) == [m \in MCPathNames |-> IF m \in cut THEN n ELSE m]
MC31      == First(long, {longer})
MC23      == First(f, {long, longer})
MCWords   == {<<x, y>>}
MCPaths   ==
    [absolute : BOOLEAN, segs : {<<>>, <<Up>>, <<f>>, <<initrd>>, <<initrd, f>>,
                                 <<Up, initrd>>, <<initrd, f, Up>>}]

Module(base, data) == [module |-> TRUE, base |-> base, data |-> data]
Other     == [module |-> FALSE, base |-> NoBase, data |-> <<>>]
MCBoots   ==
    {<<Other, Module(longer, <<x>>), Module(NoBase, <<y, x, y, y>>), Module(f, <<y>>)>>,
     <<Module(f, <<x, y, x, x, y>>), Module(f, <<y>>)>>}
Swap      == Permutations({g, h})
=============================================================================
