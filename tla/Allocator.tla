----------------------------- MODULE Allocator -----------------------------
(***************************************************************************)
(* What kmalloc, kfree and krealloc promise their callers: whoever holds   *)
(* memory holds as many bytes as it asked for, inside the heap, and shares *)
(* none of them with another holder.                                       *)
(***************************************************************************)
EXTENDS Integers

CONSTANTS Owners, Requests,
          First, Last        \* the addresses the heap may hand out

VARIABLE held

NULL    == 0
Nothing == [ptr |-> NULL, size |-> 0]

\* The bytes from h.ptr on, h.size of them, and those of g.
Apart(h, g) == h.ptr + h.size <= g.ptr \/ g.ptr + g.size <= h.ptr

\* o gets h, of a size somebody may ask for, and shares none of it with the owners in S.
Give(o, h, S) ==
    /\ h.size \in Requests
    /\ First <= h.ptr /\ h.ptr + h.size - 1 <= Last
    /\ \A q \in S : held[q] # Nothing => Apart(h, held[q])
    /\ held' = [held EXCEPT ![o] = h]

Init == held = [o \in Owners |-> Nothing]

\* Where the memory lies is the heap's choice.
Alloc(o) ==
    /\ held[o] = Nothing
    /\ Give(o, held'[o], Owners)

\* In place, or copied to bytes that do not overlap the old ones.
Resize(o) ==
    /\ held[o] # Nothing
    /\ Give(o, held'[o], IF held'[o].ptr = held[o].ptr THEN Owners \ {o} ELSE Owners)

Free(o) ==
    /\ held[o] # Nothing
    /\ held' = [held EXCEPT ![o] = Nothing]

Next == \E o \in Owners : Alloc(o) \/ Resize(o) \/ Free(o)

Spec == Init /\ [][Next]_held
=============================================================================
