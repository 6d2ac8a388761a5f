-------------------------------- MODULE MCAta --------------------------------
(* Ata.tla with addresses of 3 sector numbers, 2 cylinders and 2 heads, numbers
   that wrap at 24, and three machines: two disks on one channel with a CD
   drive on the other; one disk on the second channel with a drive that reports
   no sectors; and no drives at all, where everything stops after the boot. *)
EXTENDS AtaProps

MCMachines ==
    {<<Disk(2, 1, 2), Disk(2, 1, 1), Absent, Atapi>>,
     <<Absent, Absent, Disk(5, 1, 2), Disk(0, 1, 1)>>,
     <<Absent, Absent, Absent, Absent>>}

MCWritten == {<<"new", 0, 0>>}

Machine(m) == [p \in Position |-> m[p + 1]]

AllMachines == {Machine(m) : m \in MCMachines}
=============================================================================
