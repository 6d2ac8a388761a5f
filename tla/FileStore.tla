----------------------------- MODULE FileStore -----------------------------
(***************************************************************************)
(* What the fat32 commands promise: a volume that is formatted holds named *)
(* texts, each of which is replaced or removed as a whole and without an   *)
(* effect on any other one.                                                *)
(***************************************************************************)
EXTENDS Integers

CONSTANTS Names, Texts,
          NoText

VARIABLES ready,    \* a format is complete
          files     \* the text under each name, NoText when there is none

vars == <<ready, files>>

Empty == [n \in Names |-> NoText]

Init == ready = FALSE /\ files = Empty

\* What was on the volume is gone as soon as a format begins, and nothing is
\* promised of a disk that fails.
Lose == ready' = FALSE /\ files' = Empty

EndFormat ==
    /\ ~ready
    /\ ready' = TRUE
    /\ UNCHANGED files

Put(n, t) ==
    /\ ready
    /\ files' = [files EXCEPT ![n] = t]
    /\ UNCHANGED ready

Remove(n) ==
    /\ ready
    /\ files[n] # NoText
    /\ files' = [files EXCEPT ![n] = NoText]
    /\ UNCHANGED ready

Next ==
    \/ Lose \/ EndFormat
    \/ \E n \in Names : Remove(n) \/ \E t \in Texts : Put(n, t)

Spec == Init /\ [][Next]_vars
=============================================================================
