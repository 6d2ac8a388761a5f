----------------------------- MODULE MCPhysMem -----------------------------
(* PhysMem.tla on machines of up to eight frames of two units, 4 GiB at 24. *)
EXTENDS PhysMemProps

MCKernel == <<2, 5>>

Entry(a, l, t) == [addr |-> a, len |-> l, type |-> t]
Entries ==
    {Entry(a, l, t) : a \in {0, 7, 13, 22}, l \in {3, 7, 10}, t \in {1, 2}}
       \cup {Entry(0, 22, 1), Entry(24, 12, 1)}

\* The boot loader puts the kernel, its information and the modules into memory.
Loadable(m) ==
    \A r \in {MCKernel, m.info} \cup Range(m.modules) :
        \E e \in Range(m.mmap) : e.type = 1 /\ e.addr <= r[1] /\ r[2] <= e.addr + e.len

MCMachines ==
    {m \in [mmap : {<<e>> : e \in Entries} \cup {<<e, d>> : e, d \in Entries},
            basic_top : {0, 9}, info : {<<5, 7>>, <<9, 12>>},
            modules : {<<>>, << <<12, 15>> >>, << <<7, 8>>, <<20, 22>> >>},
            fb : {<<>>, <<15, 3>>, <<22, 2>>}, fb_used : BOOLEAN] :
        Loadable(m)}
=============================================================================
