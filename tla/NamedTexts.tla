----------------------------- MODULE NamedTexts -----------------------------
(***************************************************************************)
(* What the fs commands do to the entries of the root directory, without   *)
(* the table and its lists: up to LIMIT names, each with a text of up to   *)
(* LENGTH characters, or with a directory.                                 *)
(***************************************************************************)
EXTENDS Integers, Sequences, FiniteSets

CONSTANTS Names, LongNames, InitrdName, Words,
          LIMIT, LENGTH,
          Directory     \* stands for an entry that is a directory

VARIABLE entries

Shorten(t) == IF Len(t) > LENGTH THEN SubSeq(t, 1, LENGTH) ELSE t

Has(e, n)    == n \in DOMAIN e
IsText(e, n) == Has(e, n) /\ e[n] # Directory

\* A new name is refused when it is too long or there are too many already.
Accepts(e, n) == Has(e, n) \/ (n \notin LongNames /\ Cardinality(DOMAIN e) < LIMIT)

\* What a write to a directory stores is never seen.
With(e, n, t) ==
    [x \in DOMAIN e \cup {n} |->
        IF x # n THEN e[x] ELSE IF Has(e, n) /\ ~IsText(e, n) THEN Directory ELSE Shorten(t)]

Without(e, n) == [x \in DOMAIN e \ {n} |-> e[x]]

-----------------------------------------------------------------------------
(* The entries after a command that is not refused.                        *)

Touch(e)  == {With(e, n, <<>>) : n \in {m \in Names : ~Has(e, m) /\ Accepts(e, m)}}
Remove(e) == {Without(e, n) : n \in DOMAIN e}

Write(e)  == {With(e, n, t) : n \in {m \in Names : Accepts(e, m)}, t \in Words}
Extend(e) == {With(e, n, IF IsText(e, n) THEN e[n] \o t ELSE t) :
                n \in {m \in Names : Accepts(e, m)}, t \in Words}

Sources(e) == {a \in Names : IsText(e, a)}
Copy(e) == {With(e, b, e[a]) : a \in Sources(e), b \in {m \in Names : Accepts(e, m)}}
Move(e) == {Without(With(e, b, e[a]), a) :
                a \in Sources(e), b \in {m \in Names : Accepts(e, m)}}

Init == entries = [n \in {InitrdName} |-> Directory]

After(e) == Touch(e) \cup Remove(e) \cup Write(e) \cup Extend(e) \cup Copy(e) \cup Move(e)

Next == LET e == entries IN entries' \in After(e)

Spec == Init /\ [][Next]_entries
=============================================================================
