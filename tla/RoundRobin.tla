----------------------------- MODULE RoundRobin -----------------------------
(***************************************************************************)
(* What the scheduler of RoninOS promises, without saying how: threads are *)
(* born in tid order, a thread that is dead never runs again, and the CPU  *)
(* is handed over in cyclic tid order with nobody skipped.  A hand-over is *)
(* one indivisible step here; Scheduler.tla, where it takes five steps     *)
(* that an interrupt could come between, is shown to implement this.       *)
(***************************************************************************)
EXTENDS Integers

CONSTANT THREAD_MAX

VARIABLES born,   \* number of threads created so far, main (tid 0) included
          dead,   \* threads that called thread_exit
          cur     \* the thread whose instructions the CPU executes

vars == <<born, dead, cur>>

Tid == 0 .. THREAD_MAX - 1

\* The threads that still want the CPU.
Live == (0 .. born - 1) \ dead

Least(S) == CHOOSE t \in S : \A u \in S : t <= u

\* The thread whose turn it is after c: the next live tid, wrapping around.
Successor(c) ==
    LET above == {t \in Live : t > c}
    IN  IF above # {} THEN Least(above) ELSE Least(Live)

Init == born = 1 /\ dead = {} /\ cur = 0

\* Threads are created by shell commands, which only ever run on main's stack.
Spawn ==
    /\ cur = 0
    /\ born < THREAD_MAX
    /\ born' = born + 1
    /\ UNCHANGED <<dead, cur>>

\* The running thread dies.  It keeps the CPU until it hands it over.
Die ==
    /\ cur # 0
    /\ cur \notin dead
    /\ dead' = dead \cup {cur}
    /\ UNCHANGED <<born, cur>>

HandOver ==
    /\ Live \ {cur} # {}
    /\ cur' = Successor(cur)
    /\ UNCHANGED <<born, dead>>

Next == Spawn \/ Die \/ HandOver

Spec == Init /\ [][Next]_vars
=============================================================================
