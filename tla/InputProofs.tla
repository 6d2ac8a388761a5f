----------------------------- MODULE InputProofs -----------------------------
(***************************************************************************)
(* Proofs, for lines and histories of every length, every size of the      *)
(* screen and the scrollback, every prompt and every set of characters,    *)
(* that the line editor stays within its buffers, that the history holds   *)
(* no line twice in a row, and of what the two consoles show: the terminal *)
(* keeps and shows the last lines printed and the line being edited, and   *)
(* the framebuffer console, which draws piecemeal, shows its cells, the    *)
(* cursor, the prompt and the line.                                        *)
(***************************************************************************)
EXTENDS InputProps, Numbers, SequenceTheorems

-----------------------------------------------------------------------------
(* Lines and positions in them.                                            *)

\* LinesOf are the sequences of characters that leave room for a 0.
LEMMA LineIsSeq ==
    ASSUME NEW line, NEW chars
    PROVE  line \in LinesOf(chars) <=> line \in Seq(chars) /\ Len(line) < SHELL_LINE_MAX
<1>1. SHELL_LINE_MAX \in Nat
  BY InputAssumption
<1>2. ASSUME line \in LinesOf(chars) PROVE line \in Seq(chars) /\ Len(line) < SHELL_LINE_MAX
  <2>1. PICK n \in 0 .. SHELL_LINE_MAX - 1 : line \in [1 .. n -> chars]
    BY <1>2 DEF LinesOf
  <2>2. QED
    BY <1>1, <2>1
<1>3. ASSUME line \in Seq(chars), Len(line) < SHELL_LINE_MAX PROVE line \in LinesOf(chars)
  <2>1. Len(line) \in 0 .. SHELL_LINE_MAX - 1 /\ line \in [1 .. Len(line) -> chars]
    BY <1>1, <1>3, LenProperties
  <2>2. QED
    BY <2>1 DEF LinesOf
<1>4. QED
  BY <1>2, <1>3

\* Min and Max, used by the editor to find a word, are in their sets.
LEMMA MinIn ==
    ASSUME NEW Q \in SUBSET Nat, Q # {}
    PROVE  Min(Q) \in Q
BY LeastPosition DEF Min

LEMMA MaxIn ==
    ASSUME NEW k \in Nat, NEW Q \in SUBSET (0 .. k), Q # {}
    PROVE  Max(Q) \in Q
BY GreatestPosition DEF Max

-----------------------------------------------------------------------------
(* The operations of the editor.                                           *)

\* What a line of the editor is made of: also a 0 that shell_init puts there.
Str == Chars \cup {NUL}

LEMMA Concatenation ==
    ASSUME NEW chars
    PROVE  \A s, t \in Seq(chars) : s \o t \in Seq(chars) /\ Len(s \o t) = Len(s) + Len(t)
BY ConcatProperties

LEMMA Insertion ==
    ASSUME NEW chars, NEW line \in Seq(chars), NEW i \in 0 .. Len(line), NEW c \in chars
    PROVE  /\ InsertAt(line, i + 1, c) \in Seq(chars)
           /\ Len(InsertAt(line, i + 1, c)) = Len(line) + 1
<1> DEFINE left  == SubSeq(line, 1, i)
           right == SubSeq(line, i + 1, Len(line))
<1>1. left \in Seq(chars) /\ Len(left) = i
  BY SubSeqProperties, ElementOfSeq, SMT
<1>2. right \in Seq(chars) /\ Len(right) = Len(line) - i
  BY SubSeqProperties, ElementOfSeq, SMT
<1>3. InsertAt(line, i + 1, c) = (left \o <<c>>) \o right
  <2>1. (i + 1) - 1 = i
    OBVIOUS
  <2>2. QED
    BY <2>1, Zenon DEF InsertAt
<1> HIDE DEF left, right
<1>4. <<c>> \in Seq(chars) /\ Len(<<c>>) = 1
  OBVIOUS
<1>5. left \o <<c>> \in Seq(chars) /\ Len(left \o <<c>>) = i + 1
  BY <1>1, <1>4, Concatenation
<1>6. Len((left \o <<c>>) \o right) = i + 1 + (Len(line) - i)
  BY <1>2, <1>5, Concatenation
<1>7. (left \o <<c>>) \o right \in Seq(chars)
  BY <1>2, <1>5, Concatenation
<1>8. i + 1 + (Len(line) - i) = Len(line) + 1
  BY LenProperties
<1>9. QED
  BY <1>3, <1>6, <1>7, <1>8, Zenon

LEMMA Removal ==
    ASSUME NEW chars, NEW line \in Seq(chars), NEW i \in 1 .. Len(line)
    PROVE  /\ RemoveAt(line, i) \in Seq(chars)
           /\ Len(RemoveAt(line, i)) = Len(line) - 1
<1> DEFINE left  == SubSeq(line, 1, i - 1)
           right == SubSeq(line, i + 1, Len(line))
<1>1. left \in Seq(chars) /\ Len(left) = i - 1
  BY SubSeqProperties, ElementOfSeq, SMT
<1>2. right \in Seq(chars) /\ Len(right) = Len(line) - i
  BY SubSeqProperties, ElementOfSeq, SMT
<1>3. RemoveAt(line, i) = left \o right
  BY DEF RemoveAt
<1> HIDE DEF left, right
<1>4. Len(left \o right) = i - 1 + (Len(line) - i) /\ left \o right \in Seq(chars)
  BY <1>1, <1>2, Concatenation
<1>5. QED
  BY <1>3, <1>4, LenProperties

-----------------------------------------------------------------------------
(* The history.                                                            *)

\* The part of a line before its first 0.
LEMMA CStringIs ==
    ASSUME NEW line \in Seq(Str)
    PROVE  /\ CString(line) \in Seq(Chars) /\ Len(CString(line)) <= Len(line)
           /\ line \in Seq(Chars) => CString(line) = line
<1> DEFINE ends == {Len(line)} \cup {i - 1 : i \in {j \in DOMAIN line : line[j] = NUL}}
           m == Min(ends)
<1>1. DOMAIN line = 1 .. Len(line) /\ Len(line) \in Nat
  OBVIOUS
<1>2. ends \in SUBSET (0 .. Len(line)) /\ Len(line) \in ends
  BY <1>1
<1>3. ends \in SUBSET Nat /\ ends # {}
  BY <1>2
<1>4. m \in ends /\ \A n \in ends : m <= n
  <2> HIDE DEF ends
  <2>1. QED
    BY <1>3, LeastPosition DEF Min
<1>5. ASSUME NEW i \in 1 .. m
      PROVE  line[i] \in Chars
  <2>1. i \in 1 .. Len(line) /\ m \in Nat
    BY <1>2, <1>4
  <2>2. i - 1 \notin ends
    <3> HIDE DEF ends
    <3>1. m \in Nat
      BY <1>3, <1>4
    <3>2. QED
      BY <1>4, <3>1
  <2>3. line[i] # NUL
    BY <1>1, <2>1, <2>2
  <2>4. line[i] \in Str
    BY <2>1, ElementOfSeq
  <2>5. QED
    BY <2>3, <2>4 DEF Str
<1>6. m \in 0 .. Len(line)
  BY <1>2, <1>4
<1>7. CString(line) = SubSeq(line, 1, m)
  BY DEF CString
<1>8. line \in Seq(Chars) => m = Len(line)
  <2>1. SUFFICES ASSUME line \in Seq(Chars) PROVE m = Len(line)
    OBVIOUS
  <2>2. \A j \in DOMAIN line : line[j] # NUL
    BY <1>1, <2>1, ElementOfSeq, InputAssumption
  <2>3. ends = {Len(line)}
    BY <2>2
  <2>4. QED
    BY <1>4, <2>3
<1> HIDE DEF m
<1>9. CString(line) \in Seq(Chars) /\ Len(CString(line)) = m
  BY <1>1, <1>5, <1>6, <1>7, SubSeqProperties
<1>10. line \in Seq(Chars) => CString(line) = line
  BY <1>1, <1>7, <1>8, SubSeqProperties
<1>11. QED
  BY <1>6, <1>9, <1>10

\* What HistoryDistinct says of g_history.
Distinct(history) == \A i \in DOMAIN history : i > 1 => history[i] # history[i - 1]

LEMMA Stored ==
    ASSUME NEW line \in Seq(Str),
           g_history \in Seq(Seq(Chars)), Len(g_history) <= SHELL_HISTORY_MAX,
           Distinct(g_history)
    PROVE  /\ HistoryStore(line) \in Seq(Seq(Chars))
           /\ Len(HistoryStore(line)) \in Len(g_history) .. SHELL_HISTORY_MAX
           /\ Distinct(HistoryStore(line))
           /\ \A i \in DOMAIN HistoryStore(line) :
                 \/ HistoryStore(line)[i] \in Range(g_history)
                 \/ line # <<>> /\ HistoryStore(line)[i] = CString(line)
<1> DEFINE entry == CString(line)
<1>0. entry \in Seq(Chars)
  BY CStringIs
<1>1. CASE line = <<>> \/ (g_history # <<>> /\ Last(g_history) = entry)
  <2>1. HistoryStore(line) = g_history
    BY <1>1 DEF HistoryStore
  <2>2. QED
    BY <2>1, InputAssumption, LenProperties DEF Range
<1>2. CASE /\ line # <<>> /\ (g_history = <<>> \/ Last(g_history) # entry)
           /\ Len(g_history) < SHELL_HISTORY_MAX
  <2>1. HistoryStore(line) = Append(g_history, entry)
    BY <1>2 DEF HistoryStore
  <2> HIDE DEF entry
  <2>2. \A i \in 1 .. Len(g_history) : Append(g_history, entry)[i] = g_history[i]
    BY <1>0
  <2>3. Append(g_history, entry)[Len(g_history) + 1] = entry
    BY <1>0
  <2>4. DOMAIN Append(g_history, entry) = 1 .. Len(g_history) + 1
    OBVIOUS
  <2>5. ASSUME NEW i \in 1 .. Len(g_history) + 1
        PROVE  i > 1 => Append(g_history, entry)[i] # Append(g_history, entry)[i - 1]
    <3>1. CASE i <= Len(g_history)
      <4>1. i \in DOMAIN g_history /\ (i > 1 => i - 1 \in 1 .. Len(g_history))
        BY <3>1, LenProperties
      <4>2. Append(g_history, entry)[i] = g_history[i]
        BY <2>2, <3>1
      <4>3. i > 1 => Append(g_history, entry)[i - 1] = g_history[i - 1]
        BY <2>2, <4>1
      <4>4. QED
        BY <4>1, <4>2, <4>3 DEF Distinct
    <3>2. CASE i = Len(g_history) + 1 /\ i > 1
      <4>1. g_history # <<>> /\ i - 1 = Len(g_history)
        BY <3>2
      <4>2. Append(g_history, entry)[i - 1] = Last(g_history)
        <5>1. i - 1 \in 1 .. Len(g_history)
          BY <3>2
        <5>2. Append(g_history, entry)[i - 1] = g_history[i - 1]
          BY <2>2, <5>1
        <5>3. QED
          BY <4>1, <5>2 DEF Last
      <4>3. QED
        BY <1>2, <2>3, <3>2, <4>1, <4>2
    <3>3. CASE i = Len(g_history) + 1 /\ ~ (i > 1)
      BY <1>2, <2>3, <3>3
    <3>4. QED
      BY <3>1, <3>2, <3>3
  <2>6. QED
    <3> DEFINE more == Append(g_history, entry)
    <3>1. more \in Seq(Seq(Chars)) /\ Len(more) = Len(g_history) + 1
      BY <1>0
    <3>2. \A i \in 1 .. Len(g_history) + 1 : more[i] \in Range(g_history) \/ more[i] = entry
      BY <2>2, <2>3 DEF Range
    <3>3. Distinct(more)
      BY <2>4, <2>5 DEF Distinct
    <3> HIDE DEF more
    <3>4. HistoryStore(line) = more
      BY <2>1 DEF more
    <3>5. Len(more) \in Len(g_history) .. SHELL_HISTORY_MAX
      BY <1>2, <3>1, InputAssumption
    <3>6. DOMAIN more = 1 .. Len(g_history) + 1
      BY <3>1
    <3>7. QED
      BY <1>2, <3>1, <3>2, <3>3, <3>4, <3>5, <3>6 DEF entry
<1>3. CASE /\ line # <<>> /\ (g_history = <<>> \/ Last(g_history) # entry)
           /\ ~ (Len(g_history) < SHELL_HISTORY_MAX)
  <2> DEFINE tail == Tail(g_history)
             moved == Append(tail, entry)
             n == Len(g_history)
  <2>1. n \in Nat \ {0} /\ n = SHELL_HISTORY_MAX /\ g_history # <<>>
    BY <1>3, InputAssumption
  <2>2. tail \in Seq(Seq(Chars)) /\ Len(tail) = n - 1
    BY <2>1, HeadTailProperties
  <2>3. \A i \in 1 .. n - 1 : tail[i] = g_history[i + 1]
    BY <2>1, <2>2, HeadTailProperties
  <2>4. HistoryStore(line) = moved
    BY <1>3 DEF HistoryStore
  <2> HIDE DEF tail
  <2>5. moved \in Seq(Seq(Chars)) /\ Len(moved) = n /\ DOMAIN moved = 1 .. n
    BY <1>0, <2>1, <2>2
  <2>6. \A i \in 1 .. n - 1 : moved[i] = g_history[i + 1]
    BY <1>0, <2>1, <2>2, <2>3
  <2>7. moved[n] = entry
    BY <1>0, <2>1, <2>2
  <2> HIDE DEF moved, n, entry
  <2>8. DOMAIN g_history = 1 .. n
    BY DEF n
  <2>9. ASSUME NEW i \in 1 .. n
        PROVE  i > 1 => moved[i] # moved[i - 1]
    <3>1. CASE i < n
      <4>1. moved[i] = g_history[i + 1] /\ i + 1 \in 1 .. n /\ i + 1 > 1
        BY <2>1, <2>6, <3>1
      <4>2. i > 1 => moved[i - 1] = g_history[i]
        <5>1. i > 1 => i - 1 \in 1 .. n - 1 /\ (i - 1) + 1 = i
          BY <2>1
        <5>2. QED
          BY <2>6, <5>1
      <4>3. g_history[i + 1] # g_history[(i + 1) - 1]
        BY <2>8, <4>1 DEF Distinct
      <4>4. (i + 1) - 1 = i
        BY <2>1
      <4>5. QED
        BY <4>1, <4>2, <4>3, <4>4
    <3>2. CASE i = n /\ i > 1
      <4>1. n - 1 \in 1 .. n - 1 /\ (n - 1) + 1 = n
        BY <2>1, <3>2
      <4>2. moved[i - 1] = Last(g_history)
        BY <2>6, <3>2, <4>1 DEF Last, n
      <4>3. QED
        BY <1>3, <2>1, <2>7, <3>2, <4>2
    <3>3. CASE i = n /\ ~ (i > 1)
      BY <1>3, <2>7, <3>3
    <3>4. QED
      BY <2>1, <3>1, <3>2, <3>3
  <2>10. \A i \in 1 .. n : moved[i] \in Range(g_history) \cup {entry}
    <3>1. \A i \in 1 .. n - 1 : i + 1 \in 1 .. n
      BY <2>1
    <3>2. \A i \in 1 .. n : g_history[i] \in Range(g_history)
      BY <2>8 DEF Range
    <3>3. \A i \in 1 .. n - 1 : moved[i] \in Range(g_history)
      BY <2>6, <3>1, <3>2
    <3>4. \A i \in 1 .. n : i \in 1 .. n - 1 \/ i = n
      BY <2>1
    <3>5. QED
      BY <2>7, <3>3, <3>4
  <2>11. QED
    BY <1>3, <2>1, <2>4, <2>5, <2>9, <2>10 DEF Distinct, n, entry
<1>4. QED
  BY <1>1, <1>2, <1>3

-----------------------------------------------------------------------------
(* The inductive invariant: the editor's buffers and what is in them.      *)

LineFits(line) == line \in Seq(Str) /\ Len(line) < SHELL_LINE_MAX

\* A 0 in a line, a cursor behind it and an empty line in the history come
\* only of keys between the assignments of shell_init.
EditorInv ==
    /\ LineFits(g_line) /\ g_cursor \in 0 .. SHELL_LINE_MAX
    /\ g_cursor > Len(g_line) => main \in {"cursor", "lost"}
    /\ g_line \in Seq(Chars) \/ strayed \/ main = "len"
    /\ g_history \in Seq(Seq(Chars)) /\ Len(g_history) <= SHELL_HISTORY_MAX
    /\ \A i \in DOMAIN g_history :
          Len(g_history[i]) < SHELL_LINE_MAX /\ (g_history[i] = <<>> => strayed)
    /\ Distinct(g_history)
    /\ g_hist_index \in -1 .. Len(g_history) - 1

\* The arrows with Ctrl stay in the line.
LEMMA WordPositions ==
    ASSUME g_line \in Seq(Str), g_cursor \in 0 .. Len(g_line)
    PROVE  WordLeft \in 0 .. Len(g_line) /\ WordRight \in 0 .. Len(g_line)
<1> DEFINE n == Len(g_line)
<1>1. n \in Nat /\ g_cursor \in 0 .. n
  BY LenProperties
<1>2. WordLeft \in 0 .. n
  <2> DEFINE last == Max({0} \cup {i \in 1 .. g_cursor : g_line[i] # Space})
  <2>1. last \in {0} \cup {i \in 1 .. g_cursor : g_line[i] # Space}
    <3>1. {0} \cup {i \in 1 .. g_cursor : g_line[i] # Space} \in SUBSET (0 .. n)
      BY <1>1
    <3>2. QED
      BY <1>1, <3>1, MaxIn
  <2>2. last \in 0 .. n
    BY <1>1, <2>1
  <2> HIDE DEF last
  <2>3. Max({0} \cup {i \in 1 .. last : g_line[i] = Space})
           \in {0} \cup {i \in 1 .. last : g_line[i] = Space}
    <3>1. {0} \cup {i \in 1 .. last : g_line[i] = Space} \in SUBSET (0 .. n)
      BY <1>1, <2>2
    <3>2. QED
      BY <1>1, <3>1, MaxIn
  <2>4. {0} \cup {i \in 1 .. last : g_line[i] = Space} \subseteq 0 .. n
    BY <1>1, <2>2
  <2>5. QED
    BY <2>3, <2>4 DEF WordLeft, last
<1>3. WordRight \in 0 .. n
  <2> DEFINE gap  == Min({n + 1} \cup {i \in g_cursor + 1 .. n : g_line[i] = Space})
             word == {n + 1} \cup {i \in gap .. n : g_line[i] # Space}
  <2>1. gap \in {n + 1} \cup {i \in g_cursor + 1 .. n : g_line[i] = Space}
    <3>1. {n + 1} \cup {i \in g_cursor + 1 .. n : g_line[i] = Space} \in SUBSET Nat
      BY <1>1
    <3>2. QED
      BY <3>1, MinIn
  <2>2. gap \in 1 .. n + 1
    BY <1>1, <2>1
  <2> HIDE DEF gap
  <2>3. word \in SUBSET (1 .. n + 1) /\ word # {}
    BY <1>1, <2>2
  <2> HIDE DEF word
  <2>4. Min(word) \in word
    <3>1. word \in SUBSET Nat
      BY <1>1, <2>3
    <3>2. QED
      BY <2>3, <3>1, MinIn
  <2>5. Min(word) - 1 \in 0 .. n
    <3>1. Min(word) \in 1 .. n + 1
      BY <2>3, <2>4, Zenon
    <3>2. QED
      BY <1>1, <3>1
  <2>6. QED
    BY <2>5 DEF WordRight, gap, word
<1>4. QED
  BY <1>2, <1>3

\* The arrows without Ctrl.
LEMMA Neighbours ==
    ASSUME NEW n \in Nat, NEW i \in 0 .. n
    PROVE  Max({0, i - 1}) \in 0 .. n /\ Min({n, i + 1}) \in 0 .. n
<1>1. CASE i = 0
  <2>1. \E m \in {0, i - 1} : \A k \in {0, i - 1} : m >= k
    BY <1>1
  <2>2. Max({0, i - 1}) = 0
    BY <1>1, <2>1 DEF Max
  <2>3. Min({n, i + 1}) \in {n, i + 1}
    BY MinIn
  <2>4. \A k \in {n, i + 1} : Min({n, i + 1}) <= k
    BY LeastPosition DEF Min
  <2>5. QED
    BY <1>1, <2>2, <2>3, <2>4
<1>2. CASE i > 0
  <2>1. {0, i - 1} \in SUBSET (0 .. n)
    BY <1>2
  <2>2. Max({0, i - 1}) \in {0, i - 1}
    BY <2>1, MaxIn
  <2>3. Min({n, i + 1}) \in {n, i + 1}
    BY MinIn
  <2>4. \A k \in {n, i + 1} : Min({n, i + 1}) <= k
    BY LeastPosition DEF Min
  <2>5. QED
    BY <1>2, <2>2, <2>3, <2>4
<1>3. QED
  BY <1>1, <1>2

\* What a key does to strayed, and what a line can then consist of.
Strays == strayed' = (strayed \/ main \in {"len", "cursor"}) /\ UNCHANGED main

LineChars == IF strayed \/ main \in {"len", "cursor"} THEN Str ELSE Chars

LEMMA CharsOfLine ==
    ASSUME EditorInv, Strays
    PROVE  /\ g_line \in Seq(LineChars) /\ Chars \subseteq LineChars /\ LineChars \subseteq Str
           /\ strayed' => LineChars = Str
           /\ ~strayed' => LineChars = Chars /\ main \notin {"len", "cursor"} /\ ~strayed
BY DEF EditorInv, Strays, LineChars, LineFits, Str

\* What an edited line must be for the invariant to hold of it.
Edited ==
    /\ g_line' \in Seq(LineChars) /\ Len(g_line') < SHELL_LINE_MAX
    /\ g_cursor' \in 0 .. SHELL_LINE_MAX
    /\ g_cursor' <= Len(g_line') \/ main = "cursor"
    /\ g_hist_index' \in -1 .. Len(g_history) - 1

LEMMA EditedKeeps ==
    ASSUME EditorInv, Strays, Edited, UNCHANGED g_history
    PROVE  EditorInv'
<1>1. /\ LineChars \subseteq Str
      /\ ~strayed' => LineChars = Chars /\ main \notin {"len", "cursor"} /\ ~strayed
  BY CharsOfLine
<1>2. LineFits(g_line') /\ g_cursor' \in 0 .. SHELL_LINE_MAX
  <2>1. g_line' \in Seq(Str)
    <3>1. \A i \in 1 .. Len(g_line') : g_line'[i] \in Str
      BY <1>1, ElementOfSeq DEF Edited
    <3>2. Len(g_line') \in Nat /\ g_line' = [i \in 1 .. Len(g_line') |-> g_line'[i]]
      BY LenProperties DEF Edited
    <3>3. QED
      BY <3>1, <3>2, SeqDef
  <2>2. QED
    BY <2>1 DEF Edited, LineFits
<1>3. g_cursor' > Len(g_line') => main' \in {"cursor", "lost"}
  <2>1. Len(g_line') \in Nat
    BY LenProperties DEF Edited
  <2>2. QED
    BY <1>2, <2>1 DEF Edited, Strays
<1>4. g_line' \in Seq(Chars) \/ strayed' \/ main' = "len"
  BY <1>1 DEF Edited
<1>5. strayed => strayed'
  BY DEF Strays
<1>6. QED
  BY <1>2, <1>3, <1>4, <1>5 DEF EditorInv, Edited, Distinct

LEMMA SeqWider ==
    ASSUME NEW chars, NEW more, chars \subseteq more, NEW line \in Seq(chars)
    PROVE  line \in Seq(more)
<1>1. \A i \in 1 .. Len(line) : line[i] \in more
  BY ElementOfSeq
<1>2. Len(line) \in Nat /\ line = [i \in 1 .. Len(line) |-> line[i]]
  BY LenProperties
<1>3. QED
  BY <1>1, <1>2, SeqDef

\* The steps that a key of the editor takes.
LEMMA EditIsEdited ==
    ASSUME EditorInv, Strays, main # "lost", ~g_simple_mode, NEW key, ~Derails(key), Edit(key)
    PROVE  Edited
<1> DEFINE n == Len(g_line)
<1>0. /\ g_line \in Seq(LineChars) /\ g_line \in Seq(Str)
      /\ Chars \subseteq LineChars /\ LineChars \subseteq Str
  BY CharsOfLine DEF EditorInv, LineFits
<1>1. /\ n \in Nat /\ n < SHELL_LINE_MAX /\ g_cursor \in 0 .. SHELL_LINE_MAX
      /\ SHELL_LINE_MAX \in Nat \ {0}
      /\ g_cursor <= n \/ main = "cursor"
  BY <1>0, InputAssumption, LenProperties DEF EditorInv, LineFits
<1>2. g_hist_index \in -1 .. Len(g_history) - 1 /\ Len(g_history) \in Nat
  BY LenProperties DEF EditorInv
<1>3. CASE UNCHANGED <<g_line, g_cursor, g_hist_index>>
  BY <1>0, <1>1, <1>2, <1>3 DEF Edited
<1>4. ASSUME NEW c \in 0 .. n, Line(g_line, c), UNCHANGED g_hist_index
      PROVE  Edited
  BY <1>0, <1>1, <1>2, <1>4 DEF Edited, Line
<1>5. ASSUME EditWithin(key), UNCHANGED g_hist_index
      PROVE  Edited
  <2>1. g_cursor \in 0 .. n
    BY <1>1, <1>5 DEF EditWithin
  <2>2. CASE key \in Chars /\ n < SHELL_LINE_MAX - 1
             /\ Line(InsertAt(g_line, g_cursor + 1, key), g_cursor + 1)
    <3>1. g_line' = InsertAt(g_line, g_cursor + 1, key) /\ g_cursor' = g_cursor + 1
      BY <2>2 DEF Line
    <3>2. g_line' \in Seq(LineChars) /\ Len(g_line') = n + 1
      <4>1. key \in LineChars
        BY <1>0, <2>2
      <4>2. QED
        BY <1>0, <2>1, <3>1, <4>1, Insertion
    <3>3. QED
      BY <1>1, <1>2, <1>5, <2>1, <2>2, <3>1, <3>2 DEF Edited
  <2>3. CASE g_cursor > 0 /\ Line(RemoveAt(g_line, g_cursor), g_cursor - 1)
    <3>1. g_cursor \in 1 .. n
      BY <2>1, <2>3
    <3>2. QED
      BY <1>0, <1>1, <1>2, <1>5, <2>3, <3>1, Removal DEF Line, Edited
  <2>4. CASE g_cursor < n /\ Line(RemoveAt(g_line, g_cursor + 1), g_cursor)
    <3>1. g_cursor + 1 \in 1 .. n
      BY <2>1, <2>4
    <3>2. g_line' \in Seq(LineChars) /\ Len(g_line') = n - 1 /\ g_cursor' = g_cursor
      BY <1>0, <2>4, <3>1, Removal DEF Line
    <3>3. QED
      BY <1>1, <1>2, <1>5, <2>1, <2>4, <3>2 DEF Edited
  <2>5. CASE Line(g_line, IF "ctrl" \in g_mods THEN WordLeft ELSE Max({0, g_cursor - 1}))
    <3>1. Max({0, g_cursor - 1}) \in 0 .. n
      BY <1>1, <2>1, Neighbours
    <3>2. QED
      BY <1>0, <1>4, <1>5, <2>1, <2>5, <3>1, WordPositions
  <2>6. CASE Line(g_line, IF "ctrl" \in g_mods THEN WordRight ELSE Min({n, g_cursor + 1}))
    <3>1. Min({n, g_cursor + 1}) \in 0 .. n
      BY <1>1, <2>1, Neighbours
    <3>2. QED
      BY <1>0, <1>4, <1>5, <2>1, <2>6, <3>1, WordPositions
  <2>7. QED
    BY <1>3, <1>5, <2>2, <2>3, <2>4, <2>5, <2>6, Zenon DEF EditWithin
<1>6. ASSUME EditBehind(key), UNCHANGED g_hist_index
      PROVE  Edited
  <2>1. g_cursor > n /\ main = "cursor" /\ LineChars = Str
    BY <1>1, <1>6 DEF EditBehind, LineChars
  <2>2. CASE /\ key \in Chars /\ n < SHELL_LINE_MAX - 1
             /\ \E left \in Chars \cup {NUL} : Line(Append(g_line, left), g_cursor + 1)
    <3>1. g_cursor < SHELL_LINE_MAX
      BY <1>1, <2>1, <2>2 DEF Derails
    <3>2. PICK left \in Str : Line(Append(g_line, left), g_cursor + 1)
      BY <2>2 DEF Str
    <3>3. g_line' \in Seq(LineChars) /\ Len(g_line') = n + 1 /\ g_cursor' = g_cursor + 1
      BY <1>0, <2>1, <3>2 DEF Line
    <3>4. QED
      BY <1>1, <1>2, <1>6, <2>1, <2>2, <3>1, <3>3 DEF Edited
  <2>3. CASE key = "backspace" /\ Line(Front(g_line), g_cursor - 1)
    <3>1. n > 0
      BY <1>0, <1>1, <2>1, <2>3, EmptySeq DEF Derails
    <3>2. Front(g_line) = SubSeq(g_line, 1, n - 1)
      BY DEF Front
    <3>3. g_line' \in Seq(LineChars) /\ Len(g_line') = n - 1
      <4>1. \A i \in 1 .. n - 1 : g_line[i] \in LineChars
        BY <1>0, <1>1, ElementOfSeq
      <4>2. /\ SubSeq(g_line, 1, n - 1) \in Seq(LineChars)
            /\ Len(SubSeq(g_line, 1, n - 1)) = n - 1
        <5>1. n \in Nat \ {0} /\ 1 \in Int /\ n - 1 \in Int
          BY <1>1, <3>1
        <5> HIDE DEF n
        <5>2. /\ SubSeq(g_line, 1, n - 1) \in Seq(LineChars)
              /\ Len(SubSeq(g_line, 1, n - 1)) = IF 1 <= n - 1 THEN (n - 1) - 1 + 1 ELSE 0
          BY <4>1, <5>1, SubSeqProperties
        <5>3. QED
          BY <5>1, <5>2
      <4>3. g_line' = SubSeq(g_line, 1, n - 1)
        BY <2>3, <3>2 DEF Line
      <4>4. QED
        BY <4>2, <4>3
    <3>4. g_cursor' \in 0 .. SHELL_LINE_MAX
      BY <1>1, <2>1, <2>3, <3>1 DEF Line
    <3>5. QED
      BY <1>1, <1>2, <1>6, <2>1, <3>1, <3>3, <3>4 DEF Edited
  <2>4. CASE /\ UNCHANGED g_line
             /\ g_cursor' \in IF "ctrl" \in g_mods THEN 0 .. g_cursor ELSE {g_cursor - 1}
    <3>1. g_cursor' \in 0 .. SHELL_LINE_MAX
      BY <1>1, <2>1, <2>4
    <3>2. QED
      BY <1>0, <1>1, <1>2, <1>6, <2>1, <2>4, <3>1 DEF Edited
  <2>5. QED
    BY <1>3, <1>6, <2>2, <2>3, <2>4, Zenon DEF EditBehind
<1>7. ASSUME NEW i \in 0 .. Len(g_history) - 1, HistoryLoad(i)
      PROVE  Edited
  <2>1. i + 1 \in DOMAIN g_history /\ g_history[i + 1] \in Seq(Chars)
    BY LenProperties, ElementOfSeq DEF EditorInv
  <2>2. Len(g_history[i + 1]) < SHELL_LINE_MAX /\ Len(g_history[i + 1]) \in Nat
    BY <2>1, LenProperties DEF EditorInv
  <2>3. g_history[i + 1] \in Seq(LineChars)
    BY <1>0, <2>1, SeqWider
  <2>4. QED
    BY <1>1, <1>2, <1>7, <2>2, <2>3 DEF HistoryLoad, Line, Edited
<1>8. ASSUME Line(<<>>, 0), g_hist_index' = -1
      PROVE  Edited
  BY <1>1, <1>2, <1>8 DEF Line, Edited
<1>9. CASE UNCHANGED g_hist_index /\ (Line(g_line, 0) \/ Line(g_line, Len(g_line)))
  BY <1>1, <1>4, <1>9
<1>10. CASE /\ g_history # <<>>
            /\ HistoryLoad(IF g_hist_index < 0 THEN Len(g_history) - 1
                           ELSE Max({0, g_hist_index - 1}))
  <2>1. Len(g_history) \in Nat \ {0}
    BY <1>10, EmptySeq DEF EditorInv
  <2>2. CASE g_hist_index < 0
    <3>1. Len(g_history) - 1 \in 0 .. Len(g_history) - 1
      BY <2>1
    <3>2. QED
      BY <1>7, <1>10, <2>2, <3>1
  <2>3. CASE ~ (g_hist_index < 0)
    <3>1. g_hist_index \in 0 .. Len(g_history) - 1
      BY <1>2, <2>1, <2>3
    <3>2. Max({0, g_hist_index - 1}) \in 0 .. Len(g_history) - 1
      <4>1. Len(g_history) - 1 \in Nat /\ g_hist_index \in Int
        BY <2>1, <3>1
      <4>2. QED
        BY <3>1, <4>1, Neighbours
    <3>3. QED
      BY <1>7, <1>10, <2>3, <3>2
  <2>4. QED
    BY <2>2, <2>3
<1>11. CASE /\ g_hist_index >= 0
            /\ IF g_hist_index + 1 >= Len(g_history) THEN Line(<<>>, 0) /\ g_hist_index' = -1
               ELSE HistoryLoad(g_hist_index + 1)
  <2>1. CASE g_hist_index + 1 >= Len(g_history)
    BY <1>8, <1>11, <2>1
  <2>2. CASE ~ (g_hist_index + 1 >= Len(g_history))
    <3>1. g_hist_index + 1 \in 0 .. Len(g_history) - 1
      BY <1>2, <1>11, <2>2
    <3>2. QED
      BY <1>7, <1>11, <2>2, <3>1
  <2>3. QED
    BY <2>1, <2>2
<1>12. QED
  BY <1>3, <1>5, <1>6, <1>9, <1>10, <1>11, Zenon DEF Edit

LEMMA EditSimpleIsEdited ==
    ASSUME EditorInv, Strays, main # "lost", NEW key, EditSimple(key)
    PROVE  Edited
<1> DEFINE n == Len(g_line)
<1>0. /\ g_line \in Seq(LineChars) /\ Chars \subseteq LineChars
      /\ g_hist_index' \in -1 .. Len(g_history) - 1
  BY CharsOfLine DEF EditorInv, EditSimple
<1>1. /\ n \in Nat /\ n < SHELL_LINE_MAX /\ g_cursor \in 0 .. SHELL_LINE_MAX
      /\ SHELL_LINE_MAX \in Nat \ {0}
      /\ g_cursor <= n \/ main = "cursor"
  BY <1>0, InputAssumption, LenProperties DEF EditorInv, LineFits
<1>2. CASE UNCHANGED <<g_line, g_cursor>>
  BY <1>0, <1>1, <1>2 DEF Edited
<1>3. ASSUME g_cursor = n, key \in Chars, g_cursor < SHELL_LINE_MAX - 1,
             Line(Append(g_line, key), g_cursor + 1)
      PROVE  Edited
  BY <1>0, <1>1, <1>3 DEF Line, Edited
<1>4. ASSUME g_cursor = n, g_cursor > 0, Line(Front(g_line), g_cursor - 1)
      PROVE  Edited
  <2>1. \A i \in 1 .. n - 1 : g_line[i] \in LineChars
    BY <1>0, <1>1, ElementOfSeq
  <2>2. SubSeq(g_line, 1, n - 1) \in Seq(LineChars) /\ Len(SubSeq(g_line, 1, n - 1)) = n - 1
    BY <1>0, <1>1, <1>4, <2>1, SubSeqProperties
  <2>3. g_line' = SubSeq(g_line, 1, n - 1) /\ g_cursor' = n - 1
    BY <1>4 DEF Line, Front
  <2>4. QED
    BY <1>0, <1>1, <1>4, <2>2, <2>3 DEF Edited
<1>5. QED
  BY <1>2, <1>3, <1>4, Zenon DEF EditSimple

LEMMA EnterKeeps ==
    ASSUME EditorInv, Strays, Enter
    PROVE  EditorInv'
<1>1. /\ g_history' = HistoryStore(g_line)
      /\ g_line' = g_line /\ g_cursor' = g_cursor /\ g_hist_index' = g_hist_index
      /\ main' = main /\ (strayed => strayed')
  BY DEF Enter, Strays
<1>2. /\ g_line \in Seq(Str) /\ g_history \in Seq(Seq(Chars))
      /\ Len(g_history) <= SHELL_HISTORY_MAX /\ Distinct(g_history)
  BY DEF EditorInv, LineFits
<1>3. /\ g_history' \in Seq(Seq(Chars))
      /\ Len(g_history') \in Len(g_history) .. SHELL_HISTORY_MAX
      /\ Distinct(g_history')
      /\ \A i \in DOMAIN g_history' :
            \/ g_history'[i] \in Range(g_history)
            \/ g_line # <<>> /\ g_history'[i] = CString(g_line)
  BY <1>1, <1>2, Stored
<1>4. ASSUME NEW i \in DOMAIN g_history'
      PROVE  Len(g_history'[i]) < SHELL_LINE_MAX /\ (g_history'[i] = <<>> => strayed')
  <2>1. CASE g_history'[i] \in Range(g_history)
    BY <1>1, <2>1 DEF EditorInv, Range
  <2>2. CASE g_line # <<>> /\ g_history'[i] = CString(g_line)
    <3>1. /\ CString(g_line) \in Seq(Chars) /\ Len(CString(g_line)) <= Len(g_line)
          /\ g_line \in Seq(Chars) => CString(g_line) = g_line
      BY <1>2, CStringIs
    <3>2. ~strayed' => g_line \in Seq(Chars)
      BY CharsOfLine
    <3>3. Len(CString(g_line)) \in Nat /\ Len(g_line) \in Nat /\ Len(g_line) < SHELL_LINE_MAX
      BY <1>2, <3>1, LenProperties DEF EditorInv, LineFits
    <3>4. QED
      BY <2>2, <3>1, <3>2, <3>3, InputAssumption
  <2>3. QED
    BY <1>3, <2>1, <2>2
<1>5. Len(g_history') \in Nat /\ Len(g_history) \in Nat /\ SHELL_HISTORY_MAX \in Nat
  BY <1>2, <1>3, LenProperties, InputAssumption
<1>6. Len(g_history') <= SHELL_HISTORY_MAX /\ g_hist_index' \in -1 .. Len(g_history') - 1
  BY <1>1, <1>3, <1>5 DEF EditorInv
<1>7. /\ LineFits(g_line') /\ g_cursor' \in 0 .. SHELL_LINE_MAX
      /\ g_cursor' > Len(g_line') => main' \in {"cursor", "lost"}
      /\ g_line' \in Seq(Chars) \/ strayed' \/ main' = "len"
  BY <1>1 DEF EditorInv
<1>8. QED
  BY <1>3, <1>4, <1>6, <1>7 DEF EditorInv, Distinct

\* Whatever leaves the editor's variables alone keeps the invariant, and so
\* does clearing the line.
LEMMA OthersKeep ==
    ASSUME EditorInv, UNCHANGED g_history, strayed => strayed',
           \/ UNCHANGED <<g_line, g_cursor, g_hist_index, main>>
           \/ Line(<<>>, 0) /\ (g_hist_index' = -1 \/ UNCHANGED g_hist_index)
    PROVE  EditorInv'
<1>1. Len(g_history) \in Nat
  BY LenProperties DEF EditorInv
<1>2. CASE UNCHANGED <<g_line, g_cursor, g_hist_index, main>>
  BY <1>2 DEF EditorInv, LineFits, Distinct
<1>3. CASE Line(<<>>, 0) /\ (g_hist_index' = -1 \/ UNCHANGED g_hist_index)
  <2>1. g_line' = <<>> /\ g_cursor' = 0
    BY <1>3 DEF Line
  <2>2. LineFits(g_line') /\ g_cursor' \in 0 .. SHELL_LINE_MAX /\ ~ (g_cursor' > Len(g_line'))
        /\ g_line' \in Seq(Chars)
    BY <2>1, InputAssumption DEF LineFits
  <2>3. g_hist_index' \in -1 .. Len(g_history) - 1
    BY <1>1, <1>3 DEF EditorInv
  <2>4. QED
    BY <2>2, <2>3 DEF EditorInv, Distinct
<1>4. QED
  BY <1>2, <1>3

\* The assignments of shell_init.
LEMMA ShellInitKeeps ==
    ASSUME EditorInv, ShellInit
    PROVE  EditorInv'
<1>1. UNCHANGED <<g_history, g_hist_index, strayed>>
  BY DEF ShellInit, EmptyLine, ZeroLen, ZeroCursor, ChooseMode, ReadArgs, StoreInput,
         PlaceCursor, MainStep, marks
<1>2. SUFFICES /\ LineFits(g_line') /\ g_cursor' \in 0 .. SHELL_LINE_MAX
               /\ g_cursor' > Len(g_line') => main' \in {"cursor", "lost"}
               /\ g_line' \in Seq(Chars) \/ strayed \/ main' = "len"
  BY <1>1 DEF EditorInv, Distinct
<1>3. /\ g_line \in Seq(Str) /\ Len(g_line) \in Nat /\ Len(g_line) < SHELL_LINE_MAX
      /\ SHELL_LINE_MAX \in Nat \ {0}
  BY InputAssumption, LenProperties DEF EditorInv, LineFits
<1>4. CASE EmptyLine
  <2>1. main = "greet" /\ main' = "len" /\ g_cursor' = g_cursor
    BY <1>4 DEF EmptyLine, MainStep
  <2>2. g_cursor \in 0 .. SHELL_LINE_MAX /\ ~ (g_cursor > Len(g_line))
    BY <2>1 DEF EditorInv
  <2>3. g_line' \in Seq(Str) /\ Len(g_line') = Len(g_line)
    <3>1. CASE g_line = <<>>
      BY <1>3, <1>4, <3>1 DEF EmptyLine
    <3>2. CASE g_line # <<>>
      <4>1. g_line' = <<NUL>> \o Tail(g_line)
        BY <1>4, <3>2 DEF EmptyLine
      <4>2. Tail(g_line) \in Seq(Str) /\ Len(Tail(g_line)) = Len(g_line) - 1
        BY <1>3, <3>2, HeadTailProperties
      <4>3. <<NUL>> \in Seq(Str) /\ Len(<<NUL>>) = 1
        BY DEF Str
      <4>4. QED
        BY <1>3, <4>1, <4>2, <4>3, Concatenation
    <3>3. QED
      BY <3>1, <3>2
  <2>4. QED
    BY <1>3, <2>1, <2>2, <2>3 DEF LineFits
<1>5. CASE ZeroLen
  <2>1. main' = "cursor" /\ g_cursor' = g_cursor /\ g_line' = <<>>
    BY <1>5 DEF ZeroLen, MainStep
  <2>2. QED
    BY <1>3, <2>1 DEF EditorInv, LineFits
<1>6. CASE ZeroCursor
  <2>1. main = "cursor" /\ main' = "mode" /\ g_cursor' = 0 /\ g_line' = g_line
    BY <1>6 DEF ZeroCursor, MainStep
  <2>2. QED
    BY <1>3, <2>1 DEF EditorInv, LineFits
<1>7. CASE ChooseMode \/ ReadArgs \/ StoreInput \/ PlaceCursor
  <2>1. /\ main \in {"mode", "redraw", "store", "place"}
        /\ g_cursor' = g_cursor /\ g_line' = g_line
    BY <1>7 DEF ChooseMode, ReadArgs, StoreInput, PlaceCursor, MainStep
  <2>2. QED
    BY <1>3, <2>1 DEF EditorInv, LineFits
<1>8. QED
  BY <1>4, <1>5, <1>6, <1>7 DEF ShellInit

LEMMA PressKeeps ==
    ASSUME EditorInv, NEW key, Press(key)
    PROVE  EditorInv'
<1>1. main # "lost"
  BY DEF Press, Sends, Interruptible
<1>2. CASE UNCHANGED <<shell, main, putc, marks, screens>>
  BY <1>2, OthersKeep DEF shell, marks
<1>3. CASE Derails(key) /\ main' = "lost" /\ UNCHANGED <<shell, screens>>
           /\ strayed' = (strayed \/ main \in {"len", "cursor"})
  <2>1. g_cursor > Len(g_line) /\ main = "cursor"
    BY <1>1, <1>3 DEF Derails, EditorInv
  <2>2. QED
    BY <1>3, <2>1 DEF EditorInv, LineFits, Distinct, shell
<1>4. CASE ~Derails(key) /\ HandleKey(key) /\ UNCHANGED main
           /\ strayed' = (strayed \/ main \in {"len", "cursor"})
  <2>1. Strays
    BY <1>4 DEF Strays
  <2>2. CASE Enter
    BY <2>1, <2>2, EnterKeeps
  <2>3. CASE EditSimple(key)
    <3>1. UNCHANGED g_history
      BY <2>3 DEF EditSimple
    <3>2. QED
      BY <1>1, <2>1, <2>3, <3>1, EditSimpleIsEdited, EditedKeeps
  <2>4. CASE UNCHANGED shell
    BY <2>1, <2>4, OthersKeep DEF shell, Strays
  <2>5. CASE ~g_simple_mode /\ Edit(key)
    <3>1. UNCHANGED g_history
      BY <2>5 DEF Edit
    <3>2. QED
      BY <1>1, <1>4, <2>1, <2>5, <3>1, EditIsEdited, EditedKeeps
  <2>6. QED
    BY <1>4, <2>2, <2>3, <2>4, <2>5, Zenon DEF HandleKey, shell
<1>5. QED
  BY <1>2, <1>3, <1>4, Zenon DEF Press

LEMMA StepKeeps ==
    ASSUME EditorInv, [Next]_vars
    PROVE  EditorInv'
<1>1. CASE UNCHANGED vars
  BY <1>1, OthersKeep DEF vars, shell, booting, marks
<1>2. ASSUME NEW key, Press(key)
      PROVE  EditorInv'
  BY <1>2, PressKeeps
<1>3. ASSUME NEW key, Release(key) \/ PressModifier(key)
      PROVE  EditorInv'
  BY <1>3, OthersKeep DEF Release, PressModifier, shell, marks
<1>4. CASE Prefix \/ ClearCommand
  BY <1>4, OthersKeep DEF Prefix, ClearCommand, shell, booting, marks
<1>5. CASE Return
  BY <1>5, OthersKeep DEF Return
<1>6. CASE BeginChar
  BY <1>6, OthersKeep DEF BeginChar, shell, marks
<1>7. CASE FbPiece
  <2>1. UNCHANGED <<shell, booting, marks>>
    BY <1>7, Zenon DEF FbPiece, Goto
  <2>2. QED
    BY <2>1, OthersKeep DEF shell, booting, marks
<1>8. CASE TermPiece
  <2>1. UNCHANGED <<shell, booting, marks>>
    BY <1>8, Zenon DEF TermPiece, Goto
  <2>2. QED
    BY <2>1, OthersKeep DEF shell, booting, marks
<1>9. CASE ShellInit
  BY <1>9, ShellInitKeeps
<1>10. ASSUME NEW c, Output(c)
       PROVE  EditorInv'
  BY <1>10, OthersKeep DEF Output, shell, booting
<1>11. QED
  BY <1>1, <1>2, <1>3, <1>4, <1>5, <1>6, <1>7, <1>8, <1>9, <1>10, Zenon DEF Next

LEMMA InitEstablishes ==
    ASSUME Init
    PROVE  EditorInv
BY InputAssumption DEF Init, EditorInv, LineFits, Distinct

(***************************************************************************)
(* The line and the history stay within their buffers, the cursor and the  *)
(* history index within what they index, and the history without doubles,  *)
(* through every key and command, also between the assignments of          *)
(* shell_init, unless a key there has made the editor write outside g_line.*)
(***************************************************************************)
THEOREM EditorInvariance == Spec => []EditorInv
BY InitEstablishes, StepKeeps, PTL DEF Spec

-----------------------------------------------------------------------------
(***************************************************************************)
(* The editor stays within g_line and g_history, and its cursor and the    *)
(* index of the line being looked at within what they hold, also when keys *)
(* come before shell_init and when a full history moves down under them.   *)
(* The cursor is behind the line only between two assignments of           *)
(* shell_init.                                                             *)
(***************************************************************************)
THEOREM EditorWhole == Spec => []EditorOK
<1>1. ASSUME EditorInv PROVE EditorOK
  <2>1. g_line \in LinesOf(Chars \cup {NUL})
    BY <1>1, LineIsSeq DEF EditorInv, LineFits, Str
  <2>2. g_history \in Seq(LinesOf(Chars))
    <3>1. \A i \in 1 .. Len(g_history) : g_history[i] \in LinesOf(Chars)
      BY <1>1, LineIsSeq, ElementOfSeq DEF EditorInv
    <3>2. Len(g_history) \in Nat /\ g_history \in [1 .. Len(g_history) -> LinesOf(Chars)]
      BY <1>1, <3>1, LenProperties DEF EditorInv
    <3>3. QED
      BY <3>2, SeqDef
  <2>3. QED
    BY <1>1, <2>1, <2>2 DEF EditorInv, EditorOK
<1>2. QED
  BY <1>1, EditorInvariance, PTL

(***************************************************************************)
(* The history never holds one line twice in a row, and an empty line only *)
(* through a key between the assignments of shell_init.                    *)
(***************************************************************************)
THEOREM NoDoubles == Spec => []HistoryDistinct
<1>1. ASSUME EditorInv PROVE HistoryDistinct
  BY <1>1 DEF EditorInv, Distinct, HistoryDistinct
<1>2. QED
  BY <1>1, EditorInvariance, PTL

-----------------------------------------------------------------------------
(* What kmain has printed of a text, and what it has yet to print.         *)

LEMMA RestOf ==
    ASSUME NEW chars, NEW src \in Seq(chars)
    PROVE  /\ Len(src) \in Nat /\ Len(src) \in 0 .. Len(src) /\ 0 \in 0 .. Len(src)
           /\ SubSeq(src, 1, Len(src)) = src /\ SubSeq(src, 0 + 1, Len(src)) = src
           /\ SubSeq(src, 1, 0) = <<>> /\ src \o <<>> = src
           /\ SubSeq(src, Len(src) + 1, Len(src)) = <<>>
           /\ \A k \in 0 .. Len(src) :
                 /\ SubSeq(src, 1, k) \in Seq(chars)
                 /\ SubSeq(src, k + 1, Len(src)) = <<>> => k = Len(src)
<1>1. /\ Len(src) \in Nat
      /\ SubSeq(src, 1, Len(src)) = src /\ SubSeq(src, 0 + 1, Len(src)) = src
      /\ SubSeq(src, 1, 0) = <<>> /\ src \o <<>> = src
      /\ SubSeq(src, Len(src) + 1, Len(src)) = <<>>
  OBVIOUS
<1>2. ASSUME NEW k \in 0 .. Len(src)
      PROVE  /\ SubSeq(src, 1, k) \in Seq(chars)
             /\ SubSeq(src, k + 1, Len(src)) = <<>> => k = Len(src)
  <2>1. \A i \in 1 .. k : src[i] \in chars
    BY <1>1, ElementOfSeq
  <2>2. SubSeq(src, 1, k) \in Seq(chars)
    <3>1. k \in Int /\ 1 \in Int
      OBVIOUS
    <3>2. QED
      BY <2>1, <3>1, SubSeqProperties
  <2>3. PICK n \in Nat : n = Len(src)
    BY <1>1
  <2>4. k \in 0 .. n
    BY <2>3
  <2>5. SubSeq(src, k + 1, n) = <<>> => k = n
    <3>1. \A i \in k + 1 .. n : src[i] \in chars
      BY <2>3, ElementOfSeq
    <3>2. k + 1 \in Int /\ n \in Int
      BY <2>4
    <3>3. Len(SubSeq(src, k + 1, n)) = IF k + 1 <= n THEN n - (k + 1) + 1 ELSE 0
      BY <3>1, <3>2, SubSeqProperties
    <3>4. PICK rest : rest = SubSeq(src, k + 1, n)
      OBVIOUS
    <3>5. rest = <<>> => Len(rest) = 0
      OBVIOUS
    <3>6. rest = <<>> => (IF k + 1 <= n THEN n - (k + 1) + 1 ELSE 0) = 0
      BY <3>3, <3>4, <3>5, Zenon
    <3>7. (IF k + 1 <= n THEN n - (k + 1) + 1 ELSE 0) = 0 => k = n
      BY <2>4
    <3>8. QED
      BY <3>4, <3>6, <3>7, Zenon
  <2>6. QED
    BY <2>2, <2>3, <2>5, Zenon
<1>3. Len(src) \in 0 .. Len(src) /\ 0 \in 0 .. Len(src)
  BY <1>1
<1>4. QED
  BY <1>1, <1>2, <1>3, Zenon

\* The next character.
LEMMA NextOf ==
    ASSUME NEW chars, NEW src \in Seq(chars),
           NEW k \in 0 .. Len(src), SubSeq(src, k + 1, Len(src)) # <<>>
    PROVE  LET rest == SubSeq(src, k + 1, Len(src))
           IN  /\ k + 1 \in 0 .. Len(src) /\ Head(rest) \in chars
               /\ Tail(rest) = SubSeq(src, (k + 1) + 1, Len(src))
               /\ SubSeq(src, 1, k + 1) = Append(SubSeq(src, 1, k), Head(rest))
<1> DEFINE N == Len(src)
           rest == SubSeq(src, k + 1, N)
<1>1. N \in Nat
  OBVIOUS
<1>2. k < N
  <2>1. ~ (k < N) => rest = <<>>
    <3>1. ~ (k < N) => k = N
      BY <1>1
    <3>2. SubSeq(src, N + 1, N) = <<>>
      BY RestOf, Zenon
    <3>3. QED
      BY <3>1, <3>2, Zenon
  <2>2. QED
    BY <2>1
<1>3. Head(rest) = src[k + 1] /\ k + 1 \in 1 .. N
  BY <1>1, <1>2
<1>4. src[k + 1] \in chars
  BY <1>1, <1>3, ElementOfSeq
<1>5. Tail(rest) = SubSeq(src, (k + 1) + 1, N)
  BY <1>1, <1>2
<1>6. SubSeq(src, 1, k + 1) = Append(SubSeq(src, 1, k), src[k + 1])
  BY <1>1, <1>2
<1>7. QED
  BY <1>1, <1>3, <1>4, <1>5, <1>6

-----------------------------------------------------------------------------
(* How far kmain is, and what a key can do to it.                          *)

Letters == Cells \cup Range(PROMPT)

Source  == IF main = "greet" THEN session.greeting ELSE PROMPT
Written == Chars \cup {LF} \cup (IF session.framebuffer THEN Range(PROMPT) ELSE {})

Owed == \E k \in 0 .. Len(Source) : todo = SubSeq(Source, k + 1, Len(Source))

PutcOK ==
    \/ putc = NoChar
    \/ /\ putc = [c |-> putc.c, step |-> putc.step, x |-> putc.x, y |-> putc.y,
                  under |-> putc.under, hit |-> putc.hit]
       /\ putc.c \in Written /\ putc.hit \in BOOLEAN
       /\ putc.step \in IF session.framebuffer THEN FbSteps ELSE TermSteps
       /\ putc.c = LF => putc.step \notin {"clear", "write", "draw", "set", "right"}

\* Only the framebuffer console is printed on after shell_init.
Idle == main \notin {"greet", "prompt"} \/ (main = "prompt" /\ ~session.framebuffer)

Modes ==
    /\ session \in Sessions
    /\ wire \in BOOLEAN /\ g_e0 \in BOOLEAN /\ g_mods \subseteq Modifiers
    /\ executing \in BOOLEAN /\ torn \in BOOLEAN /\ strayed \in BOOLEAN /\ early \in Nat
    /\ main \in {"greet", "len", "cursor", "mode", "redraw", "store", "place", "prompt", "lost"}
    /\ g_simple_mode \in BOOLEAN
    /\ g_simple_mode <=> main = "prompt" /\ session.framebuffer
    /\ main \in {"redraw", "store", "place"} => ~session.framebuffer
    /\ Owed /\ PutcOK
    /\ Idle => todo = <<>> /\ putc = NoChar
    /\ args \in [len : 0 .. SHELL_LINE_MAX - 1, cursor : 0 .. SHELL_LINE_MAX - 1]

LEMMA SessionIs ==
    ASSUME Modes
    PROVE  /\ session.framebuffer \in BOOLEAN
           /\ session.greeting \in Seq(Chars \cup {LF}) /\ PROMPT \in Seq(Range(PROMPT))
BY InputAssumption DEF Modes

\* The character that kmain prints next, and what it then has left.
LEMMA NextCharacter ==
    ASSUME Modes, todo # <<>>
    PROVE  /\ Head(todo) \in Written
           /\ \E k \in 0 .. Len(Source) : Tail(todo) = SubSeq(Source, k + 1, Len(Source))
           /\ ~Idle
<1>1. PICK k \in 0 .. Len(Source) : todo = SubSeq(Source, k + 1, Len(Source))
  BY DEF Modes, Owed
<1>2. ~Idle
  BY DEF Modes
<1>3. main = "greet" \/ (main = "prompt" /\ session.framebuffer)
  BY <1>2 DEF Idle, Modes
<1>4. Source \in Seq(Written)
  <2>1. CASE main = "greet"
    <3>1. Source = session.greeting /\ Source \in Seq(Chars \cup {LF})
      BY <2>1, SessionIs DEF Source
    <3>2. Chars \cup {LF} \subseteq Written
      BY DEF Written
    <3>3. QED
      BY <3>1, <3>2, SeqWider
  <2>2. CASE main = "prompt" /\ session.framebuffer
    <3>1. Source = PROMPT /\ Source \in Seq(Range(PROMPT))
      BY <2>2, SessionIs DEF Source
    <3>2. Range(PROMPT) \subseteq Written
      BY <2>2 DEF Written
    <3>3. QED
      BY <3>1, <3>2, SeqWider
  <2>3. QED
    BY <1>3, <2>1, <2>2
<1>5. LET rest == SubSeq(Source, k + 1, Len(Source))
      IN  /\ k + 1 \in 0 .. Len(Source) /\ Head(rest) \in Written
          /\ Tail(rest) = SubSeq(Source, (k + 1) + 1, Len(Source))
  BY <1>1, <1>4, NextOf
<1>6. QED
  BY <1>1, <1>2, <1>5

\* A handler only marks the character that it comes into.
LEMMA DisturbIs ==
    ASSUME PutcOK, Disturb, UNCHANGED session
    PROVE  /\ PutcOK'
           /\ putc = NoChar => putc' = NoChar
           /\ putc # NoChar =>
                 /\ putc' # NoChar
                 /\ putc'.c = putc.c /\ putc'.step = putc.step
                 /\ putc'.x = putc.x /\ putc'.y = putc.y /\ putc'.under = putc.under
                 /\ putc.hit => putc'.hit
                 /\ putc' = putc \/ putc'.hit
           /\ IF session.framebuffer THEN fb' = fb \/ putc = NoChar \/ putc'.hit
              ELSE OutputOf(term') = OutputOf(term) \/ putc = NoChar \/ putc'.hit
<1>1. CASE putc' = putc /\ putc = NoChar
  BY <1>1 DEF PutcOK
<1>2. CASE putc' = putc /\ putc # NoChar
  <2>1. PutcOK'
    BY <1>2 DEF PutcOK, Written
  <2>2. IF session.framebuffer THEN fb' = fb \/ putc'.hit
        ELSE OutputOf(term') = OutputOf(term) \/ putc'.hit
    <3>1. CASE IF session.framebuffer THEN fb' = fb ELSE OutputOf(term') = OutputOf(term)
      BY <3>1
    <3>2. CASE ~ IF session.framebuffer THEN fb' = fb ELSE OutputOf(term') = OutputOf(term)
      <4>1. putc' = [putc EXCEPT !.hit = TRUE]
        BY <1>2, <3>2, Zenon DEF Disturb
      <4>2. putc'.hit
        BY <1>2, <4>1 DEF PutcOK
      <4>3. QED
        BY <4>2
    <3>3. QED
      BY <3>1, <3>2
  <2>3. QED
    BY <1>2, <2>1, <2>2
<1>3. CASE putc # NoChar /\ putc' = [putc EXCEPT !.hit = TRUE]
  <2>1. putc = [c |-> putc.c, step |-> putc.step, x |-> putc.x, y |-> putc.y,
                under |-> putc.under, hit |-> putc.hit]
    BY <1>3 DEF PutcOK
  <2>2. putc' = [c |-> putc.c, step |-> putc.step, x |-> putc.x, y |-> putc.y,
                 under |-> putc.under, hit |-> TRUE]
    BY <1>3, <2>1
  <2>3. /\ putc'.c = putc.c /\ putc'.step = putc.step /\ putc'.hit = TRUE
        /\ putc'.x = putc.x /\ putc'.y = putc.y /\ putc'.under = putc.under
    BY <2>2
  <2>4. putc'.step # "none"
    BY <1>3, <2>3 DEF PutcOK, FbSteps, TermSteps
  <2>5. putc' # NoChar
    BY <2>4 DEF NoChar
  <2>6. PutcOK'
    BY <1>3, <2>2, <2>3 DEF PutcOK, Written
  <2>7. QED
    BY <1>3, <2>3, <2>5, <2>6
<1>4. QED
  BY <1>1, <1>2, <1>3, Zenon DEF Disturb

\* The next piece of a character.
LEMMA AtIs ==
    ASSUME PutcOK, putc # NoChar, NEW s
    PROVE  At(s) = [c |-> putc.c, step |-> s, x |-> putc.x, y |-> putc.y,
                    under |-> putc.under, hit |-> putc.hit]
BY DEF At, PutcOK

\* What a piece of a character can lead to.
LEMMA PieceKeeps ==
    ASSUME PutcOK, putc # NoChar, UNCHANGED session, NEW s, putc' = At(s),
           s \in IF session.framebuffer THEN FbSteps ELSE TermSteps,
           putc.c = LF => s \notin {"clear", "write", "draw", "set", "right"}
    PROVE  PutcOK' /\ putc' # NoChar
<1>1. putc' = [c |-> putc.c, step |-> s, x |-> putc.x, y |-> putc.y,
               under |-> putc.under, hit |-> putc.hit]
  BY AtIs
<1>2. /\ putc'.c = putc.c /\ putc'.step = s /\ putc'.hit = putc.hit
      /\ putc'.x = putc.x /\ putc'.y = putc.y /\ putc'.under = putc.under
  BY <1>1
<1>3. PutcOK'
  BY <1>1, <1>2 DEF PutcOK, Written
<1>4. s # "none"
  BY DEF FbSteps, TermSteps
<1>5. QED
  BY <1>2, <1>3, <1>4 DEF NoChar

\* What of kmain a step can leave alone, and what a key then does.
Untouched == UNCHANGED <<session, g_simple_mode, todo, args, main>>

LEMMA ModesUntouched ==
    ASSUME Modes, Untouched, PutcOK', putc = NoChar => putc' = NoChar,
           wire' \in BOOLEAN, g_e0' \in BOOLEAN, g_mods' \subseteq Modifiers,
           executing' \in BOOLEAN, torn' \in BOOLEAN, strayed' \in BOOLEAN, early' \in Nat
    PROVE  Modes'
<1>1. Source' = Source /\ (Owed <=> Owed')
  BY DEF Source, Owed, Untouched
<1>2. Idle' <=> Idle
  BY DEF Idle, Untouched
<1>3. QED
  BY <1>1, <1>2 DEF Modes, Untouched

LEMMA PutcSame ==
    ASSUME PutcOK, UNCHANGED <<session, putc>>
    PROVE  PutcOK'
BY DEF PutcOK, Written

LEMMA ModesAtFirst ==
    ASSUME Init
    PROVE  Modes
<1>1. session.greeting \in Seq(Chars \cup {LF})
  BY InputAssumption DEF Init
<1>2. Source = session.greeting /\ todo = session.greeting
  BY DEF Init, Source
<1>3. 0 \in 0 .. Len(Source) /\ todo = SubSeq(Source, 0 + 1, Len(Source))
  BY <1>1, <1>2, RestOf
<1>4. Owed
  BY <1>3 DEF Owed
<1>5. args \in [len : 0 .. SHELL_LINE_MAX - 1, cursor : 0 .. SHELL_LINE_MAX - 1]
  BY InputAssumption DEF Init
<1>6. PutcOK /\ ~Idle
  BY DEF Init, PutcOK, Idle
<1>7. session \in Sessions /\ session.framebuffer \in BOOLEAN
  BY InputAssumption DEF Init
<1>8. QED
  BY <1>4, <1>5, <1>6, <1>7 DEF Init, Modes

\* A key outside shell_init's derailments.
LEMMA ExecutingIs ==
    ASSUME Modes, NEW key, HandleKey(key)
    PROVE  executing' \in BOOLEAN
BY DEF HandleKey, Enter, Edit, EditSimple, shell, Modes

LEMMA PressModes ==
    ASSUME EditorInv, Modes, NEW key, Press(key)
    PROVE  Modes'
<1>1. /\ UNCHANGED <<session, g_simple_mode, todo, args, g_mods>> /\ wire' = FALSE /\ g_e0' = FALSE
      /\ main # "lost"
  BY DEF Press, Sends, Interruptible
<1>2. CASE UNCHANGED <<shell, main, putc, marks, screens>>
  <2>1. UNCHANGED <<executing, torn, strayed, early, main, putc>>
    BY <1>2 DEF shell, marks
  <2>2. PutcOK'
    BY <1>1, <2>1, PutcSame DEF Modes
  <2>3. QED
    BY <1>1, <2>1, <2>2, ModesUntouched DEF Modes, Untouched
<1>3. ASSUME Disturb, Count, torn' = (torn \/ Exposed),
             strayed' = (strayed \/ main \in {"len", "cursor"})
      PROVE  /\ PutcOK' /\ (putc = NoChar => putc' = NoChar)
             /\ torn' \in BOOLEAN /\ strayed' \in BOOLEAN /\ early' \in Nat
  <2>1. PutcOK' /\ (putc = NoChar => putc' = NoChar)
    BY <1>1, <1>3, DisturbIs DEF Modes
  <2>2. torn' \in BOOLEAN
    BY <1>3 DEF Modes, Exposed
  <2>3. early' \in Nat
    BY <1>3 DEF Modes, Count
  <2>4. QED
    BY <1>3, <2>1, <2>2, <2>3
<1>4. CASE /\ Derails(key) /\ main' = "lost" /\ UNCHANGED <<shell, screens>>
           /\ Disturb /\ Count /\ torn' = (torn \/ Exposed)
           /\ strayed' = (strayed \/ main \in {"len", "cursor"})
  <2>1. main = "cursor" /\ ~g_simple_mode
    BY <1>1, <1>4 DEF Derails, EditorInv
  <2>2. Source' = Source
    BY <1>4, <2>1 DEF Source
  <2>3. Owed'
    BY <1>1, <2>2 DEF Owed, Modes
  <2>4. todo = <<>> /\ putc = NoChar
    BY <2>1 DEF Modes, Idle
  <2>5. UNCHANGED executing
    BY <1>4 DEF shell
  <2>6. QED
    BY <1>1, <1>3, <1>4, <2>1, <2>3, <2>4, <2>5 DEF Modes
<1>5. CASE /\ HandleKey(key) /\ UNCHANGED main
           /\ Disturb /\ Count /\ torn' = (torn \/ Exposed)
           /\ strayed' = (strayed \/ main \in {"len", "cursor"})
  <2>1. executing' \in BOOLEAN
    BY <1>5, ExecutingIs
  <2>2. Untouched
    BY <1>1, <1>5 DEF Untouched
  <2>3. wire' \in BOOLEAN /\ g_e0' \in BOOLEAN /\ g_mods' \subseteq Modifiers
    BY <1>1 DEF Modes
  <2>4. QED
    BY <1>3, <1>5, <2>1, <2>2, <2>3, ModesUntouched
<1>6. QED
  BY <1>2, <1>4, <1>5, Zenon DEF Press

\* What printing can do to kmain, the key that it belongs to aside.
LEMMA OthersModes ==
    ASSUME Modes, Disturb, UNCHANGED <<session, keyboard, booting, strayed>>,
           executing' \in BOOLEAN, torn' \in BOOLEAN, early' \in Nat
    PROVE  Modes'
<1>1. Untouched /\ UNCHANGED <<wire, g_mods, g_e0>>
  BY DEF Untouched, booting, keyboard
<1>2. PutcOK' /\ (putc = NoChar => putc' = NoChar)
  BY DisturbIs DEF Modes
<1>3. QED
  BY <1>1, <1>2, ModesUntouched DEF Modes

LEMMA BeginModes ==
    ASSUME Modes, BeginChar
    PROVE  Modes' /\ putc' # NoChar
<1>1. /\ putc = NoChar /\ todo # <<>> /\ todo' = Tail(todo)
      /\ UNCHANGED <<session, keyboard, shell, g_simple_mode, main, args, marks>>
  BY DEF BeginChar
<1>2. /\ Head(todo) \in Written /\ ~Idle
      /\ \E k \in 0 .. Len(Source) : Tail(todo) = SubSeq(Source, k + 1, Len(Source))
  BY <1>1, NextCharacter
<1>3. Source' = Source /\ Written' = Written /\ ~Idle'
  BY <1>1, <1>2 DEF Source, Written, Idle
<1>4. Owed'
  BY <1>1, <1>2, <1>3 DEF Owed
<1>5. PutcOK' /\ putc' # NoChar
  <2>1. \E s \in (IF session.framebuffer THEN {"erase"} ELSE {"home", "clear"}) :
           /\ Head(todo) = LF => s # "clear"
           /\ \E x, y, under :
                 putc' = [c |-> Head(todo), step |-> s, x |-> x, y |-> y, under |-> under,
                          hit |-> FALSE]
    <3>1. CASE session.framebuffer
      BY <3>1, Zenon DEF BeginChar, Begun
    <3>2. CASE ~session.framebuffer
      BY <3>2 DEF BeginChar, Begun
    <3>3. QED
      BY <3>1, <3>2
  <2>2. PICK s \in (IF session.framebuffer THEN {"erase"} ELSE {"home", "clear"}) :
           /\ Head(todo) = LF => s # "clear"
           /\ \E x, y, under :
                 putc' = [c |-> Head(todo), step |-> s, x |-> x, y |-> y, under |-> under,
                          hit |-> FALSE]
    BY <2>1
  <2>0. PICK x, y, under :
           putc' = [c |-> Head(todo), step |-> s, x |-> x, y |-> y, under |-> under,
                    hit |-> FALSE]
    BY <2>2
  <2>3. s \in {"erase", "home", "clear"} /\ s \in IF session.framebuffer THEN FbSteps ELSE TermSteps
    BY <2>2 DEF FbSteps, TermSteps
  <2>4. /\ putc'.c = Head(todo) /\ putc'.step = s /\ putc'.hit = FALSE
        /\ putc'.x = x /\ putc'.y = y /\ putc'.under = under
    BY <2>0
  <2>5. session' = session
    BY <1>1
  <2>6. PutcOK'
    BY <1>2, <1>3, <2>0, <2>2, <2>3, <2>4, <2>5 DEF PutcOK
  <2>7. QED
    BY <2>3, <2>4, <2>6 DEF NoChar
<1>6. UNCHANGED <<wire, g_mods, g_e0, executing, torn, strayed, early>>
  BY <1>1 DEF keyboard, shell, marks
<1>7. QED
  BY <1>1, <1>3, <1>4, <1>5, <1>6 DEF Modes

\* A piece of a character goes on to another, or ends it.
LEMMA PieceModes ==
    ASSUME Modes, UNCHANGED <<session, keyboard, shell, booting, marks>>, putc # NoChar,
           \/ putc' = NoChar
           \/ \E s \in (IF session.framebuffer THEN FbSteps ELSE TermSteps) :
                 /\ putc' = At(s) \/ \E y : putc' = [At(s) EXCEPT !.y = y]
                 /\ putc.c = LF => s \notin {"clear", "write", "draw", "set", "right"}
    PROVE  Modes'
<1>1. /\ Untouched
      /\ UNCHANGED <<wire, g_mods, g_e0, executing, torn, strayed, early>>
  BY DEF keyboard, shell, marks, booting, Untouched
<1>2. PutcOK'
  <2>1. CASE putc' = NoChar
    BY <2>1 DEF PutcOK
  <2>2. ASSUME NEW s \in (IF session.framebuffer THEN FbSteps ELSE TermSteps), putc' = At(s),
               putc.c = LF => s \notin {"clear", "write", "draw", "set", "right"}
        PROVE  PutcOK'
    BY <1>1, <2>2, PieceKeeps DEF Modes
  <2>3. ASSUME NEW s \in (IF session.framebuffer THEN FbSteps ELSE TermSteps), NEW y,
               putc' = [At(s) EXCEPT !.y = y],
               putc.c = LF => s \notin {"clear", "write", "draw", "set", "right"}
        PROVE  PutcOK'
    <3>1. At(s) = [c |-> putc.c, step |-> s, x |-> putc.x, y |-> putc.y,
                   under |-> putc.under, hit |-> putc.hit]
      BY AtIs DEF Modes
    <3>2. putc' = [c |-> putc.c, step |-> s, x |-> putc.x, y |-> y,
                   under |-> putc.under, hit |-> putc.hit]
      BY <2>3, <3>1
    <3>3. /\ putc'.c = putc.c /\ putc'.step = s /\ putc'.hit = putc.hit
          /\ putc'.x = putc.x /\ putc'.y = y /\ putc'.under = putc.under
      BY <3>2
    <3>4. putc.c \in Written /\ putc.hit \in BOOLEAN /\ Written' = Written
      BY DEF Modes, PutcOK, Written
    <3>5. QED
      BY <2>3, <3>2, <3>3, <3>4 DEF PutcOK
  <2>4. QED
    BY <2>1, <2>2, <2>3
<1>3. QED
  BY <1>1, <1>2, ModesUntouched DEF Modes

LEMMA FbPieceModes ==
    ASSUME Modes, FbPiece
    PROVE  Modes'
<1>1. session.framebuffer /\ putc # NoChar
  BY DEF FbPiece
<1>2. PICK x, y :
         \/ Goto("erase", At(IF putc.c = LF THEN "home" ELSE "draw"))
         \/ Goto("draw", At("set"))
         \/ Goto("set", At("right"))
         \/ Goto("right", At(IF x + 1 >= FB_COLS THEN "home" ELSE "mark"))
         \/ Goto("home", At("down"))
         \/ Goto("down", At(IF fb.y + 1 >= FB_ROWS THEN "lift" ELSE "mark"))
         \/ Goto("lift", At("move"))
         \/ Goto("move", At("bottom"))
         \/ Goto("bottom", At("mark"))
         \/ Goto("mark", NoChar)
  BY Zenon DEF FbPiece
<1>3. /\ UNCHANGED <<session, keyboard, shell, booting, marks>>
      /\ \/ putc' = NoChar
         \/ \E s \in {"home", "draw", "set", "right", "mark", "down", "lift", "move", "bottom"} :
               /\ putc' = At(s)
               /\ s = "draw" => putc.c # LF
               /\ s \in {"set", "right"} => putc.step \in {"draw", "set"}
  BY <1>2, Zenon DEF Goto
<1>4. putc.c = LF => putc.step \notin {"clear", "write", "draw", "set", "right"}
  BY <1>1 DEF Modes, PutcOK
<1>5. \/ putc' = NoChar
      \/ \E s \in (IF session.framebuffer THEN FbSteps ELSE TermSteps) :
            /\ putc' = At(s)
            /\ putc.c = LF => s \notin {"clear", "write", "draw", "set", "right"}
  BY <1>1, <1>3, <1>4 DEF FbSteps
<1>6. QED
  BY <1>1, <1>3, <1>5, PieceModes

LEMMA TermPieceModes ==
    ASSUME Modes, TermPiece
    PROVE  Modes'
<1>1. ~session.framebuffer /\ putc # NoChar
  BY DEF TermPiece
<1>2. PICK col, line :
         \/ Goto("clear", At("write"))
         \/ Goto("write", At("right"))
         \/ Goto("right", IF col + 1 >= TERM_WIDTH THEN At("home") ELSE NoChar)
         \/ Goto("home", At("next"))
         \/ Goto("next", [At("total") EXCEPT !.y = line + 1])
         \/ Goto("total", At("wipe"))
         \/ Goto("wipe", At("latest"))
         \/ Goto("latest", NoChar)
  BY Zenon DEF TermPiece
<1>3. /\ UNCHANGED <<session, keyboard, shell, booting, marks>>
      /\ \/ putc' = NoChar
         \/ \E s \in {"write", "right", "home", "next", "total", "wipe", "latest"} :
               /\ putc' = At(s) \/ \E y : putc' = [At(s) EXCEPT !.y = y]
               /\ s \in {"write", "right"} => putc.step \in {"clear", "write"}
  BY <1>2, Zenon DEF Goto
<1>4. putc.c = LF => putc.step \notin {"clear", "write", "draw", "set", "right"}
  BY <1>1 DEF Modes, PutcOK
<1>5. \/ putc' = NoChar
      \/ \E s \in (IF session.framebuffer THEN FbSteps ELSE TermSteps) :
            /\ putc' = At(s) \/ \E y : putc' = [At(s) EXCEPT !.y = y]
            /\ putc.c = LF => s \notin {"clear", "write", "draw", "set", "right"}
  BY <1>1, <1>3, <1>4 DEF TermSteps
<1>6. QED
  BY <1>1, <1>3, <1>5, PieceModes

LEMMA ShellInitModes ==
    ASSUME EditorInv, Modes, ShellInit
    PROVE  Modes'
<1>1. UNCHANGED <<session, keyboard, executing, putc, marks>>
  BY DEF ShellInit, EmptyLine, ZeroLen, ZeroCursor, ChooseMode, ReadArgs, StoreInput,
         PlaceCursor, MainStep
<1>2. UNCHANGED <<wire, g_mods, g_e0, torn, strayed, early>> /\ PutcOK'
  BY <1>1, PutcSame DEF keyboard, marks, Modes
<1>3. /\ PROMPT \in Seq(Range(PROMPT)) /\ session.framebuffer \in BOOLEAN
  BY SessionIs
<1>4. ASSUME todo' = <<>>, main' # "greet"
      PROVE  Owed'
  <2>1. Source' = PROMPT
    BY <1>4 DEF Source
  <2>2. Len(PROMPT) \in 0 .. Len(PROMPT) /\ SubSeq(PROMPT, Len(PROMPT) + 1, Len(PROMPT)) = <<>>
    BY <1>3, RestOf
  <2>3. QED
    BY <1>4, <2>1, <2>2 DEF Owed
<1>5. CASE EmptyLine \/ ZeroLen \/ ZeroCursor
  <2>1. /\ main' \in {"len", "cursor", "mode"} /\ UNCHANGED <<g_simple_mode, todo, args>>
        /\ todo = <<>> /\ putc = NoChar /\ main \in {"greet", "len", "cursor"}
    BY <1>5 DEF EmptyLine, ZeroLen, ZeroCursor, MainStep, Modes, Idle
  <2>2. QED
    BY <1>1, <1>2, <1>4, <2>1 DEF Modes
<1>6. CASE ChooseMode
  <2>1. /\ main = "mode" /\ main' = (IF session.framebuffer THEN "prompt" ELSE "redraw")
        /\ g_simple_mode' = session.framebuffer /\ UNCHANGED args
        /\ todo' = (IF session.framebuffer THEN PROMPT ELSE <<>>)
    BY <1>6 DEF ChooseMode, MainStep
  <2>2. putc = NoChar
    BY <2>1 DEF Modes, Idle
  <2>3. Owed'
    <3>1. CASE session.framebuffer
      <4>1. Source' = PROMPT /\ todo' = PROMPT
        BY <2>1, <3>1 DEF Source
      <4>2. 0 \in 0 .. Len(PROMPT) /\ SubSeq(PROMPT, 0 + 1, Len(PROMPT)) = PROMPT
        BY <1>3, RestOf
      <4>3. QED
        BY <4>1, <4>2, Zenon DEF Owed
    <3>2. CASE ~session.framebuffer
      BY <1>4, <2>1, <3>2
    <3>3. QED
      BY <3>1, <3>2
  <2>4. QED
    BY <1>1, <1>2, <1>3, <2>1, <2>2, <2>3 DEF Modes, Idle
<1>7. CASE ReadArgs
  <2>1. /\ main = "redraw" /\ main' = "store" /\ UNCHANGED <<g_simple_mode, todo>>
        /\ args' = [len |-> Len(g_line), cursor |-> g_cursor]
    BY <1>7 DEF ReadArgs, MainStep
  <2>2. Len(g_line) \in 0 .. SHELL_LINE_MAX - 1 /\ g_cursor \in 0 .. SHELL_LINE_MAX - 1
    <3>1. Len(g_line) \in Nat /\ Len(g_line) < SHELL_LINE_MAX /\ SHELL_LINE_MAX \in Nat
      BY InputAssumption, LenProperties DEF EditorInv, LineFits
    <3>2. g_cursor \in 0 .. SHELL_LINE_MAX /\ ~ (g_cursor > Len(g_line))
      BY <2>1 DEF EditorInv
    <3>3. QED
      BY <3>1, <3>2
  <2>3. todo = <<>> /\ putc = NoChar
    BY <2>1 DEF Modes, Idle
  <2>4. QED
    BY <1>1, <1>2, <1>4, <2>1, <2>2, <2>3 DEF Modes
<1>8. CASE StoreInput
  <2>1. main = "store" /\ main' = "place" /\ UNCHANGED <<g_simple_mode, todo, args>>
    BY <1>8 DEF StoreInput, MainStep
  <2>2. todo = <<>> /\ putc = NoChar
    BY <2>1 DEF Modes, Idle
  <2>3. QED
    BY <1>1, <1>2, <1>4, <2>1, <2>2 DEF Modes
<1>9. CASE PlaceCursor
  <2>1. /\ main = "place" /\ main' = "prompt" /\ UNCHANGED <<g_simple_mode, todo>>
        /\ args' = [len |-> 0, cursor |-> 0]
    BY <1>9 DEF PlaceCursor, MainStep
  <2>2. todo = <<>> /\ putc = NoChar /\ ~session.framebuffer
    BY <2>1 DEF Modes, Idle
  <2>3. QED
    BY <1>1, <1>2, <1>4, <2>1, <2>2, InputAssumption DEF Modes
<1>10. QED
  BY <1>5, <1>6, <1>7, <1>8, <1>9 DEF ShellInit

LEMMA ModesKept ==
    ASSUME EditorInv, Modes, [Next]_vars
    PROVE  Modes'
<1>1. CASE UNCHANGED vars
  <2>1. UNCHANGED <<session, wire, g_mods, g_e0, executing, torn, strayed, early, putc>> /\ Untouched
    BY <1>1 DEF vars, keyboard, shell, booting, marks, Untouched
  <2>2. QED
    BY <2>1, PutcSame, ModesUntouched DEF Modes
<1>2. ASSUME NEW key, Press(key)
      PROVE  Modes'
  BY <1>2, PressModes
<1>3. ASSUME NEW key, Release(key) \/ PressModifier(key)
      PROVE  Modes'
  <2>1. /\ UNCHANGED <<g_e0, executing, torn, strayed, early, putc>> /\ Untouched
        /\ wire' = FALSE /\ g_mods' \subseteq g_mods \cup Modifiers
    BY <1>3 DEF Release, PressModifier, Sends, shell, marks, Untouched
  <2>2. g_mods' \subseteq Modifiers
    BY <2>1 DEF Modes
  <2>3. QED
    BY <2>1, <2>2, PutcSame, ModesUntouched DEF Modes, Untouched
<1>4. CASE Prefix
  <2>1. /\ UNCHANGED <<g_mods, executing, torn, strayed, early, putc>> /\ Untouched
        /\ wire' = TRUE /\ g_e0' = TRUE
    BY <1>4 DEF Prefix, shell, booting, marks, Untouched
  <2>2. QED
    BY <2>1, PutcSame, ModesUntouched DEF Modes, Untouched
<1>5. CASE ClearCommand
  BY <1>5, OthersModes DEF ClearCommand, shell, marks, Modes
<1>6. CASE Return
  BY <1>6, OthersModes DEF Return, Exposed, Modes
<1>7. CASE BeginChar
  BY <1>7, BeginModes
<1>8. CASE FbPiece \/ TermPiece
  BY <1>8, FbPieceModes, TermPieceModes
<1>9. CASE ShellInit
  BY <1>9, ShellInitModes
<1>10. ASSUME NEW c, Output(c)
       PROVE  Modes'
  <2>1. early' \in Nat
    BY <1>10 DEF Output, Count, Modes
  <2>2. QED
    BY <1>10, <2>1, OthersModes DEF Output, shell, Modes
<1>11. QED
  BY <1>1, <1>2, <1>3, <1>4, <1>5, <1>6, <1>7, <1>8, <1>9, <1>10, Zenon DEF Next

\* What torn is for: without it, no key has come between what shell_init does
\* to the line and what it makes of it.
Intact ==
    /\ main \in {"cursor", "mode", "redraw", "store", "place"} => g_line = <<>>
    /\ main \in {"mode", "redraw", "store", "place"} => g_cursor = 0
    /\ main \in {"store", "place"} => args = [len |-> 0, cursor |-> 0]
    /\ g_simple_mode => g_cursor = Len(g_line)
    /\ g_simple_mode /\ ~Waiting => g_line = <<>>

Marks ==
    /\ executing /\ Exposed => torn
    /\ main = "prompt" /\ putc # NoChar /\ putc.hit => torn
    /\ torn \/ Intact

LEMMA MarksAtFirst ==
    ASSUME Init
    PROVE  Marks
BY DEF Init, Marks, Intact, Exposed, Waiting

\* A step that leaves kmain where it is, also in a character or not.
LEMMA ExposedStays ==
    ASSUME Modes, UNCHANGED <<main, todo>>, putc = NoChar <=> putc' = NoChar
    PROVE  (Exposed' <=> Exposed) /\ (Waiting' <=> Waiting)
BY DEF Exposed, Waiting

LEMMA MarksStay ==
    ASSUME Modes, Marks, putc = NoChar <=> putc' = NoChar,
           UNCHANGED <<main, todo, args, g_simple_mode, g_line, g_cursor, torn>>,
           executing' => executing,
           main = "prompt" /\ putc # NoChar => torn \/ (putc'.hit => putc.hit)
    PROVE  Marks'
<1>1. (Exposed' <=> Exposed) /\ (Waiting' <=> Waiting)
  BY ExposedStays
<1>2. Intact' <=> Intact
  BY <1>1 DEF Intact
<1>3. QED
  BY <1>1, <1>2 DEF Marks

\* In simple mode the editor only works with the cursor at the end.
LEMMA EndKept ==
    ASSUME EditorInv, g_cursor = Len(g_line), NEW key, EditSimple(key)
    PROVE  g_cursor' = Len(g_line')
<1> DEFINE n == Len(g_line)
<1>1. g_line \in Seq(Str) /\ n \in Nat
  BY LenProperties DEF EditorInv, LineFits
<1>2. CASE UNCHANGED <<g_line, g_cursor>>
  BY <1>2
<1>3. CASE Line(Append(g_line, key), g_cursor + 1)
  <2>1. Len(Append(g_line, key)) = n + 1
    <3>1. g_line \in Seq(Str \cup {key})
      BY <1>1, SeqWider
    <3>2. QED
      BY <3>1
  <2>2. QED
    BY <1>3, <2>1 DEF Line
<1>4. CASE g_cursor > 0 /\ Line(Front(g_line), g_cursor - 1)
  <2>1. \A i \in 1 .. n - 1 : g_line[i] \in Str
    BY <1>1, ElementOfSeq
  <2>2. n \in Nat \ {0}
    BY <1>1, <1>4
  <2>3. Front(g_line) = SubSeq(g_line, 1, n - 1)
    BY DEF Front
  <2>4. Len(SubSeq(g_line, 1, n - 1)) = n - 1
    <3> HIDE DEF n
    <3>1. 1 \in Int /\ n - 1 \in Int
      BY <2>2
    <3>2. Len(SubSeq(g_line, 1, n - 1)) = IF 1 <= n - 1 THEN (n - 1) - 1 + 1 ELSE 0
      BY <2>1, <3>1, SubSeqProperties
    <3>3. QED
      BY <2>2, <3>2
  <2>5. QED
    BY <1>4, <2>3, <2>4 DEF Line
<1>5. QED
  BY <1>2, <1>3, <1>4, Zenon DEF EditSimple

LEMMA PressMarks ==
    ASSUME EditorInv, Modes, Marks, NEW key, Press(key)
    PROVE  Marks'
<1>1. /\ UNCHANGED <<session, g_simple_mode, todo, args>>
      /\ main # "lost"
  BY DEF Press, Sends, Interruptible
<1>2. CASE UNCHANGED <<shell, main, putc, marks, screens>>
  <2>1. UNCHANGED <<executing, torn, main, putc, g_line, g_cursor>>
    BY <1>2 DEF shell, marks
  <2>2. QED
    BY <1>1, <2>1, MarksStay
<1>3. CASE Derails(key) /\ main' = "lost" /\ UNCHANGED <<shell, screens>>
           /\ torn' = (torn \/ Exposed)
  <2>1. main = "cursor"
    BY <1>1, <1>3 DEF Derails, EditorInv
  <2>2. torn' = TRUE
    BY <1>3, <2>1 DEF Exposed
  <2>3. QED
    BY <2>2 DEF Marks
<1>4. CASE /\ HandleKey(key) /\ UNCHANGED main /\ Disturb /\ torn' = (torn \/ Exposed)
  <2>1. CASE torn \/ Exposed
    <3>1. torn' = TRUE
      BY <1>4, <2>1
    <3>2. QED
      BY <3>1 DEF Marks
  <2>2. CASE ~torn /\ ~Exposed
    <3>1. putc = NoChar <=> putc' = NoChar
      BY <1>1, <1>4, DisturbIs DEF Modes
    <3>2. (Exposed' <=> Exposed) /\ (Waiting' <=> Waiting)
      BY <1>1, <1>4, <3>1, ExposedStays
    <3>3. main \notin {"cursor", "mode", "redraw", "store", "place"}
      BY <2>2 DEF Exposed
    <3>4. main = "prompt" => Waiting
      BY <2>2 DEF Exposed
    <3>5. main = "prompt" => putc' = NoChar
      BY <3>1, <3>4 DEF Waiting
    <3>6. g_simple_mode => Waiting' /\ g_cursor = Len(g_line)
      BY <2>2, <3>2, <3>4 DEF Modes, Marks, Intact
    <3>7. g_simple_mode => g_cursor' = Len(g_line')
      <4>1. SUFFICES ASSUME g_simple_mode PROVE g_cursor' = Len(g_line')
        OBVIOUS
      <4>2. CASE Enter
        BY <3>6, <4>1, <4>2 DEF Enter
      <4>3. CASE EditSimple(key)
        BY <3>6, <4>1, <4>3, EndKept
      <4>4. QED
        BY <1>4, <4>1, <4>2, <4>3 DEF HandleKey
    <3>8. Intact'
      BY <1>1, <1>4, <3>3, <3>6, <3>7 DEF Intact
    <3>9. QED
      BY <1>4, <2>2, <3>2, <3>5, <3>8 DEF Marks
  <2>3. QED
    BY <2>1, <2>2
<1>5. QED
  BY <1>2, <1>3, <1>4, Zenon DEF Press

LEMMA ShellInitMarks ==
    ASSUME EditorInv, Modes, Marks, ShellInit
    PROVE  Marks'
<1>1. UNCHANGED <<session, executing, putc, torn>> /\ ~executing
  BY DEF ShellInit, EmptyLine, ZeroLen, ZeroCursor, ChooseMode, ReadArgs, StoreInput,
         PlaceCursor, MainStep, marks
<1>2. SUFFICES ASSUME ~torn
               PROVE  Intact' /\ ~(main' = "prompt" /\ putc' # NoChar /\ putc'.hit)
  <2>1. main' = "prompt" => putc = NoChar
    BY DEF ShellInit, EmptyLine, ZeroLen, ZeroCursor, ChooseMode, ReadArgs, StoreInput,
           PlaceCursor, MainStep, Modes, Idle
  <2>2. QED
    BY <1>1, <2>1 DEF Marks
<1>3. Intact
  BY <1>2 DEF Marks
<1>4. CASE EmptyLine
  BY <1>4 DEF EmptyLine, MainStep, Intact, Modes
<1>5. CASE ZeroLen
  BY <1>5 DEF ZeroLen, MainStep, Intact, Modes
<1>6. CASE ZeroCursor
  BY <1>3, <1>6 DEF ZeroCursor, MainStep, Intact, Modes
<1>7. CASE ChooseMode
  <2>1. /\ main = "mode" /\ UNCHANGED <<g_line, g_cursor>>
        /\ main' = (IF session.framebuffer THEN "prompt" ELSE "redraw")
        /\ session.framebuffer \in BOOLEAN
    BY <1>7, SessionIs DEF ChooseMode, MainStep
  <2>2. g_line = <<>> /\ g_cursor = 0 /\ putc = NoChar
    BY <1>3, <2>1 DEF Intact, Modes, Idle
  <2>3. QED
    BY <1>1, <2>1, <2>2 DEF Intact
<1>8. CASE ReadArgs
  <2>1. g_line = <<>> /\ g_cursor = 0 /\ putc = NoChar
    BY <1>3, <1>8 DEF ReadArgs, MainStep, Intact, Modes, Idle
  <2>2. QED
    BY <1>1, <1>8, <2>1 DEF ReadArgs, MainStep, Intact, Modes
<1>9. CASE StoreInput
  <2>1. /\ main = "store" /\ main' = "place"
        /\ UNCHANGED <<g_line, g_cursor, g_simple_mode, args>>
    BY <1>9 DEF StoreInput, MainStep
  <2>2. QED
    BY <1>3, <2>1 DEF Intact, Modes
<1>10. CASE PlaceCursor
  <2>1. putc = NoChar /\ ~session.framebuffer
    BY <1>10 DEF PlaceCursor, MainStep, Modes, Idle
  <2>2. QED
    BY <1>1, <1>3, <1>10, <2>1 DEF PlaceCursor, MainStep, Intact, Modes
<1>11. QED
  BY <1>4, <1>5, <1>6, <1>7, <1>8, <1>9, <1>10 DEF ShellInit

\* The pieces of a character leave all that as it is, but for its end.
LEMMA PieceMarks ==
    ASSUME Modes, Marks, UNCHANGED <<session, keyboard, shell, booting, marks>>, ~executing,
           putc # NoChar, putc' = NoChar \/ (putc' # NoChar /\ putc'.hit = putc.hit)
    PROVE  Marks'
<1>1. UNCHANGED <<executing, main, todo, args, g_simple_mode, g_line, g_cursor, torn>>
  BY DEF shell, booting, marks
<1>2. ~Waiting
  BY DEF Waiting
<1>3. torn \/ Intact'
  BY <1>1, <1>2 DEF Marks, Intact
<1>4. QED
  BY <1>1, <1>3 DEF Marks

\* Every piece keeps the mark of its character.
LEMMA PieceIs ==
    ASSUME Modes, FbPiece \/ TermPiece
    PROVE  /\ UNCHANGED <<session, keyboard, shell, booting, marks>> /\ ~executing
           /\ putc # NoChar /\ (putc' = NoChar \/ (putc' # NoChar /\ putc'.hit = putc.hit))
<1>1. putc # NoChar
  BY DEF FbPiece, TermPiece
<1>2. \E step, next : Goto(step, next) /\ (next = NoChar \/ \E s \in FbSteps \cup TermSteps :
                                             next = At(s) \/ \E y : next = [At(s) EXCEPT !.y = y])
  <2>1. CASE FbPiece
    <3>1. \E s \in {"home", "draw", "set", "right", "mark", "down", "lift", "move", "bottom"} :
             \E step : Goto(step, At(s)) \/ Goto(step, NoChar)
      BY <2>1, Zenon DEF FbPiece
    <3>2. {"home", "draw", "set", "right", "mark", "down", "lift", "move", "bottom"} \subseteq FbSteps
      BY DEF FbSteps
    <3>3. QED
      BY <3>1, <3>2
  <2>2. CASE TermPiece
    <3>1. \E s \in {"write", "right", "home", "next", "total", "wipe", "latest"} :
             \E step, line : Goto(step, At(s)) \/ Goto(step, [At(s) EXCEPT !.y = line + 1])
                         \/ Goto(step, NoChar)
      BY <2>2, Zenon DEF TermPiece
    <3>2. {"write", "right", "home", "next", "total", "wipe", "latest"} \subseteq TermSteps
      BY DEF TermSteps
    <3>3. QED
      BY <3>1, <3>2
  <2>3. QED
    BY <2>1, <2>2
<1>3. UNCHANGED <<session, keyboard, shell, booting, marks>> /\ ~executing
  BY <1>2, Zenon DEF Goto
<1>4. putc' = NoChar \/ \E s \in FbSteps \cup TermSteps :
         putc' = At(s) \/ \E y : putc' = [At(s) EXCEPT !.y = y]
  BY <1>2, Zenon DEF Goto
<1>5. ASSUME NEW s \in FbSteps \cup TermSteps,
             putc' = At(s) \/ \E y : putc' = [At(s) EXCEPT !.y = y]
      PROVE  putc' # NoChar /\ putc'.hit = putc.hit
  <2>1. At(s) = [c |-> putc.c, step |-> s, x |-> putc.x, y |-> putc.y,
                 under |-> putc.under, hit |-> putc.hit]
    BY <1>1, AtIs DEF Modes
  <2>2. \E y : putc' = [c |-> putc.c, step |-> s, x |-> putc.x, y |-> y,
                        under |-> putc.under, hit |-> putc.hit]
    BY <1>5, <2>1
  <2>3. putc'.step = s /\ putc'.hit = putc.hit
    BY <2>2
  <2>4. s # "none"
    BY DEF FbSteps, TermSteps
  <2>5. QED
    BY <2>3, <2>4 DEF NoChar
<1>6. QED
  BY <1>1, <1>3, <1>4, <1>5

LEMMA MarksKept ==
    ASSUME EditorInv, Modes, Marks, [Next]_vars
    PROVE  Marks'
<1>1. CASE UNCHANGED vars
  BY <1>1, MarksStay DEF vars, shell, booting, marks
<1>2. ASSUME NEW key, Press(key)
      PROVE  Marks'
  BY <1>2, PressMarks
<1>3. ASSUME NEW key, Release(key) \/ PressModifier(key)
      PROVE  Marks'
  BY <1>3, MarksStay DEF Release, PressModifier, Sends, shell, marks
<1>4. CASE Prefix
  BY <1>4, MarksStay DEF Prefix, shell, booting, marks
<1>5. ASSUME executing, Disturb, UNCHANGED <<session, keyboard, shell, booting, torn, strayed>>
      PROVE  Marks'
  <2>1. putc = NoChar <=> putc' = NoChar
    BY <1>5, DisturbIs DEF Modes
  <2>2. UNCHANGED <<main, todo, args, g_simple_mode, g_line, g_cursor, torn, executing>>
    BY <1>5 DEF shell, booting
  <2>3. main = "prompt" /\ putc # NoChar => torn
    BY <1>5 DEF Marks, Exposed, Waiting
  <2>4. QED
    BY <2>1, <2>2, <2>3, MarksStay
<1>6. CASE ClearCommand
  BY <1>5, <1>6 DEF ClearCommand, marks
<1>7. CASE Return
  <2>1. /\ executing' = FALSE /\ g_line' = <<>> /\ g_cursor' = 0 /\ torn' = Exposed
        /\ UNCHANGED <<session, main, todo, args, g_simple_mode>>
    BY <1>7 DEF Return, Line, booting
  <2>2. putc = NoChar <=> putc' = NoChar
    BY <1>7, <2>1, DisturbIs DEF Modes, Return
  <2>3. main = "prompt" /\ putc' # NoChar => torn'
    BY <2>1, <2>2 DEF Exposed, Waiting
  <2>4. main \in {"store", "place"} => torn'
    BY <2>1 DEF Exposed
  <2>5. torn' \/ Intact'
    BY <2>1, <2>4 DEF Intact
  <2>6. QED
    BY <2>1, <2>3, <2>5 DEF Marks
<1>8. CASE BeginChar
  <2>1. /\ ~executing /\ ~Waiting
        /\ UNCHANGED <<executing, main, args, g_simple_mode, g_line, g_cursor, torn>>
    BY <1>8 DEF BeginChar, shell, marks, Waiting
  <2>2. putc'.hit = FALSE
    BY <1>8 DEF BeginChar, Begun
  <2>3. torn \/ Intact'
    BY <2>1 DEF Marks, Intact
  <2>4. QED
    BY <2>1, <2>2, <2>3 DEF Marks
<1>9. CASE FbPiece \/ TermPiece
  BY <1>9, PieceIs, PieceMarks
<1>10. CASE ShellInit
  BY <1>10, ShellInitMarks
<1>11. ASSUME NEW c, Output(c)
       PROVE  Marks'
  BY <1>5, <1>11 DEF Output
<1>12. QED
  BY <1>1, <1>2, <1>3, <1>4, <1>6, <1>7, <1>8, <1>9, <1>10, <1>11, Zenon DEF Next

-----------------------------------------------------------------------------
(* The terminal.                                                           *)

\* The terminal's record, and how its counters belong together.
Typed(t) ==
    t \in [lines : [Slots -> Rows], total : Nat, line : Nat, col : 0 .. TERM_WIDTH,
           offset : Nat, input : LinesOf(Str), cursor : Nat]

Counted(t) == t.total = t.line + 1 => t.offset <= t.line - FirstLine(t)

TermOK(t) == Typed(t) /\ Counted(t) /\ t.total = t.line + 1 /\ t.col < TERM_WIDTH

\* A step changes at most the row being written, or ends it and begins a blank one.
RowWritten(t, u) ==
    /\ \E text \in Rows : u.lines = [t.lines EXCEPT ![SlotOf(t.line)] = text]
    /\ u.line = t.line /\ u.total = t.total /\ u.offset = t.offset

RowEnded(t, u) ==
    /\ \E text \in Rows :
          u.lines = [[t.lines EXCEPT ![SlotOf(t.line)] = text]
                         EXCEPT ![SlotOf(t.line + 1)] = BlankLine]
    /\ u.line = t.line + 1 /\ u.total = t.line + 2 /\ u.offset = 0

\* Every line number has a slot in the ring.
LEMMA SlotsOfLines ==
    /\ TERM_SCROLLBACK_LINES \in Nat \ {0} /\ TERM_OUTPUT_ROWS \in Nat \ {0}
    /\ \A n \in Nat : SlotOf(n) \in Slots
    /\ BlankLine \in Rows
<1>1. TERM_SCROLLBACK_LINES \in Nat \ {0} /\ TERM_OUTPUT_ROWS \in Nat \ {0}
  BY TerminalAssumption
<1>2. \A n \in Nat : SlotOf(n) \in Slots
  BY <1>1, Division DEF SlotOf, Slots
<1>3. BlankLine \in Rows
  BY DEF BlankLine, Rows, Cells
<1>4. QED
  BY <1>1, <1>2, <1>3

\* The oldest line kept is the last but TERM_SCROLLBACK_LINES - 1, or line 0.
LEMMA FirstLineIs ==
    ASSUME NEW t, t.line \in Nat, t.total = t.line + 1
    PROVE  /\ FirstLine(t) \in Nat /\ FirstLine(t) <= t.line
           /\ t.line - FirstLine(t) + 1 <= TERM_SCROLLBACK_LINES
           /\ t.line < TERM_SCROLLBACK_LINES => FirstLine(t) = 0
           /\ t.line >= TERM_SCROLLBACK_LINES =>
                 FirstLine(t) = t.line + 1 - TERM_SCROLLBACK_LINES
<1>1. TERM_SCROLLBACK_LINES \in Nat \ {0}
  BY SlotsOfLines
<1>2. QED
  BY <1>1 DEF FirstLine

\* Whatever was printed, the window stays within the rows kept.
LEMMA CountedKept ==
    ASSUME NEW t, NEW u, Typed(t), Typed(u), RowWritten(t, u) \/ RowEnded(t, u)
    PROVE  /\ Counted(t) => Counted(u)
           /\ t.total = t.line + 1 => u.total = u.line + 1
<1>1. CASE RowWritten(t, u)
  BY <1>1 DEF RowWritten, Counted, FirstLine
<1>2. CASE RowEnded(t, u)
  <2>1. u.line \in Nat /\ t.line \in Nat /\ u.total = u.line + 1 /\ u.offset = 0
    BY <1>2 DEF RowEnded, Typed
  <2>2. FirstLine(u) \in Nat /\ FirstLine(u) <= u.line
    BY <2>1, FirstLineIs
  <2>3. QED
    BY <2>1, <2>2 DEF Counted
<1>3. QED
  BY <1>1, <1>2

\* In the rows kept, two lines are never in one slot.
LEMMA SlotsApart ==
    ASSUME NEW m \in Nat, NEW n \in Nat, m < n, n - m < TERM_SCROLLBACK_LINES
    PROVE  SlotOf(m) # SlotOf(n)
<1> DEFINE F == TERM_SCROLLBACK_LINES
<1>1. F \in Nat \ {0}
  BY SlotsOfLines
<1>2. m = F * (m \div F) + (m % F) /\ n = F * (n \div F) + (n % F)
  BY <1>1, Division
<1>3. m \div F \in Nat /\ n \div F \in Nat /\ m % F \in 0 .. F - 1 /\ n % F \in 0 .. F - 1
  BY <1>1, Division
<1>4. SUFFICES ASSUME m % F = n % F PROVE FALSE
  BY DEF SlotOf
<1> DEFINE a == m \div F
           b == n \div F
<1>5. n - m = F * b - F * a
  <2>1. F * a \in Nat /\ F * b \in Nat
    BY <1>1, <1>3, Times
  <2>2. QED
    BY <1>2, <1>3, <1>4, <2>1
<1>6. a \in Nat /\ b \in Nat
  BY <1>3
<1> HIDE DEF a, b, F
<1>7. F * a \in Nat /\ F * b \in Nat
  BY <1>1, <1>6, Times
<1>8. a < b <=> F * a < F * b
  BY <1>1, <1>6, Times
<1>9. a < b <=> F * a + F <= F * b
  BY <1>1, <1>6, Times
<1>10. n - m < F
  BY DEF F
<1>11. QED
  BY <1>1, <1>5, <1>6, <1>7, <1>8, <1>9, <1>10

-----------------------------------------------------------------------------
(* The functions of the terminal.                                          *)

\* A line feed ends the row being written and blanks the slot of the next.
LEMMA LinefeedEnds ==
    ASSUME NEW t, NEW u,
           u \in [lines : [Slots -> Rows], total : Nat, line : Nat, col : Nat,
                  offset : Nat, input : LinesOf(Str), cursor : Nat],
           Typed(t), u.line = t.line, u.input = t.input, u.cursor = t.cursor,
           \E text \in Rows : u.lines = [t.lines EXCEPT ![SlotOf(t.line)] = text]
    PROVE  /\ Typed(Linefeed(u)) /\ RowEnded(t, Linefeed(u)) /\ Linefeed(u).col = 0
           /\ Linefeed(u).input = t.input /\ Linefeed(u).cursor = t.cursor
<1> DEFINE v == Linefeed(u)
<1>1. u.line \in Nat /\ u.lines \in [Slots -> Rows]
  OBVIOUS
<1>2. SlotOf(u.line + 1) \in Slots /\ BlankLine \in Rows
  BY <1>1, SlotsOfLines
<1>3. v = [lines |-> [u.lines EXCEPT ![SlotOf(u.line + 1)] = BlankLine],
           total |-> u.line + 2, line |-> u.line + 1, col |-> 0,
           offset |-> 0, input |-> u.input, cursor |-> u.cursor]
  <2> DEFINE w == [u EXCEPT !.col = 0, !.line = @ + 1, !.total = u.line + 2, !.offset = 0]
  <2>1. w = [lines |-> u.lines, total |-> u.line + 2, line |-> u.line + 1, col |-> 0,
             offset |-> 0, input |-> u.input, cursor |-> u.cursor]
    <3> DEFINE R(n, l, c, o) == [lines |-> u.lines, total |-> n, line |-> l, col |-> c,
                                 offset |-> o, input |-> u.input, cursor |-> u.cursor]
               w1 == [u EXCEPT !.col = 0]
               w2 == [w1 EXCEPT !.line = @ + 1]
               w3 == [w2 EXCEPT !.total = u.line + 2]
    <3>1. u = R(u.total, u.line, u.col, u.offset)
      OBVIOUS
    <3>2. w1 = R(u.total, u.line, 0, u.offset)
      BY <3>1
    <3> HIDE DEF w1
    <3>3. w2 = R(u.total, u.line + 1, 0, u.offset)
      BY <3>2
    <3> HIDE DEF w2
    <3>4. w3 = R(u.line + 2, u.line + 1, 0, u.offset)
      BY <3>3
    <3> HIDE DEF w3
    <3>5. [w3 EXCEPT !.offset = 0] = R(u.line + 2, u.line + 1, 0, 0)
      BY <3>4
    <3>6. w = [w3 EXCEPT !.offset = 0]
      BY DEF w1, w2, w3
    <3>7. QED
      BY <3>5, <3>6
  <2>2. v = [w EXCEPT !.lines[SlotOf(w.line)] = BlankLine]
    BY DEF Linefeed, ClearLine
  <2> HIDE DEF w
  <2>3. QED
    BY <2>1, <2>2
<1> HIDE DEF v
<1>4. v.lines \in [Slots -> Rows]
  BY <1>1, <1>2, <1>3
<1>5. 0 \in 0 .. TERM_WIDTH
  BY TerminalAssumption
<1>6. Typed(v)
  BY <1>1, <1>2, <1>3, <1>4, <1>5 DEF Typed
<1>8. RowEnded(t, v) /\ v.col = 0
  BY <1>3 DEF RowEnded
<1>9. v.input = t.input /\ v.cursor = t.cursor
  BY <1>3
<1>10. QED
  BY <1>6, <1>8, <1>9 DEF v

\* The control characters are three, and none is a letter of a line.
LEMMA Controls ==
    /\ LF # CR /\ LF # BS /\ CR # BS
    /\ \A c \in Chars \cup Range(PROMPT) \cup {Space} : c # LF /\ c # CR /\ c # BS
<1>1. LF # CR /\ LF # BS /\ CR # BS /\ Space # LF /\ Space # CR /\ Space # BS
  BY DEF LF, CR, BS, Space
<1>2. QED
  BY <1>1, InputAssumption

\* A character writes in the newest row or ends it, and leaves the input row.
LEMMA PutCharEffect ==
    ASSUME NEW t, Typed(t), NEW c \in Chars \cup {LF, CR, BS},
           t.col # TERM_WIDTH \/ c = LF
    PROVE  /\ Typed(PutChar(t, c)) /\ PutChar(t, c).col < TERM_WIDTH
           /\ PutChar(t, c).input = t.input /\ PutChar(t, c).cursor = t.cursor
           /\ RowWritten(t, PutChar(t, c)) \/ RowEnded(t, PutChar(t, c))
<1> DEFINE u == PutChar(t, c)
           slot == SlotOf(t.line)
<1>1. /\ t \in [lines : [Slots -> Rows], total : Nat, line : Nat, col : 0 .. TERM_WIDTH,
                offset : Nat, input : LinesOf(Str), cursor : Nat]
  BY DEF Typed
<1>2. /\ slot \in Slots /\ TERM_WIDTH \in Nat \ {0} /\ t.col \in 0 .. TERM_WIDTH
      /\ c # LF => t.col \in 0 .. TERM_WIDTH - 1
  BY <1>1, SlotsOfLines, TerminalAssumption
<1> HIDE DEF slot
<1>3. t.lines[slot] \in Rows /\ t.lines = [t.lines EXCEPT ![slot] = t.lines[slot]]
  BY <1>1, <1>2
<1>4. CASE c = LF
  <2>1. u = Linefeed(t)
    BY <1>4, Controls DEF PutChar
  <2>2. \E text \in Rows : t.lines = [t.lines EXCEPT ![SlotOf(t.line)] = text]
    BY <1>3 DEF slot
  <2>3. QED
    BY <1>1, <1>2, <2>1, <2>2, LinefeedEnds
<1>5. CASE c = CR
  <2>1. u = [t EXCEPT !.col = 0]
    BY <1>5, Controls DEF PutChar
  <2>3. Typed(u) /\ u.col < TERM_WIDTH
    BY <1>1, <1>2, <2>1 DEF Typed
  <2>4. RowWritten(t, u)
    BY <1>1, <1>3, <2>1 DEF RowWritten, slot
  <2>5. QED
    BY <1>1, <2>1, <2>3, <2>4
<1>6. CASE c = BS /\ ~ (t.col > 0)
  <2>1. u = t /\ t.col < TERM_WIDTH
    BY <1>2, <1>6, Controls DEF PutChar
  <2>2. QED
    BY <1>1, <1>3, <2>1 DEF RowWritten, slot
<1>7. CASE c = BS /\ t.col > 0
  <2> DEFINE text == [t.lines[slot] EXCEPT ![t.col - 1] = Space]
  <2>1. text \in Rows
    BY <1>2, <1>3, <1>7 DEF Rows, Cells
  <2>2. u = [t EXCEPT !.lines = [t.lines EXCEPT ![slot] = text], !.col = t.col - 1]
    <3>1. u = [WriteCell(t, t.line, t.col - 1, Space) EXCEPT !.col = @ - 1]
      BY <1>7, Controls DEF PutChar
    <3>2. WriteCell(t, t.line, t.col - 1, Space)
            = [t EXCEPT !.lines = [t.lines EXCEPT ![slot] = text]]
      BY <1>1, <1>2 DEF WriteCell, slot
    <3> HIDE DEF text
    <3>3. QED
      BY <1>1, <3>1, <3>2
  <2> HIDE DEF text, u
  <2>4. t.col - 1 \in 0 .. TERM_WIDTH /\ t.col - 1 < TERM_WIDTH
    BY <1>2, <1>7
  <2>5. [t.lines EXCEPT ![slot] = text] \in [Slots -> Rows]
    BY <1>1, <1>2, <2>1
  <2>6. Typed(u) /\ u.col < TERM_WIDTH
    BY <1>1, <2>2, <2>4, <2>5 DEF Typed
  <2>7. RowWritten(t, u)
    BY <1>1, <2>1, <2>2 DEF RowWritten, slot
  <2>8. QED
    BY <1>1, <2>2, <2>6, <2>7 DEF u
<1>8. CASE c \in Chars
  <2> DEFINE row  == IF t.col = 0 THEN BlankLine ELSE t.lines[slot]
             text == [row EXCEPT ![t.col] = c]
             put  == [t EXCEPT !.lines = [t.lines EXCEPT ![slot] = text], !.col = t.col + 1]
  <2>1. row \in Rows
    BY <1>3, SlotsOfLines
  <2>2. text \in Rows
    BY <1>8, <2>1 DEF Rows, Cells
  <2>3. [t.lines EXCEPT ![slot] = text] \in [Slots -> Rows]
    BY <1>1, <1>2, <2>2
  <2>4. c # LF /\ c # CR /\ c # BS
    BY <1>8, Controls
  <2>5. u = IF put.col >= TERM_WIDTH THEN Linefeed(put) ELSE put
    <3>1. u = Advance(t, c)
      BY <2>4 DEF PutChar
    <3> DEFINE begun == IF t.col = 0 THEN ClearLine(t, t.line) ELSE t
    <3>2. [WriteCell(begun, t.line, t.col, c) EXCEPT !.col = t.col + 1] = put
      <4>1. CASE t.col = 0
        <5>1. begun = [t EXCEPT !.lines = [t.lines EXCEPT ![slot] = BlankLine]]
          BY <4>1 DEF ClearLine, slot
        <5>2. begun.line = t.line /\ begun.lines = [t.lines EXCEPT ![slot] = BlankLine]
          BY <1>1, <5>1
        <5>3. begun.lines[slot] = row /\ slot \in DOMAIN begun.lines
          BY <1>1, <1>2, <4>1, <5>2
        <5>4. [begun.lines EXCEPT ![slot] = [@ EXCEPT ![t.col] = c]]
                 = [t.lines EXCEPT ![slot] = text]
          BY <1>1, <1>2, <5>2, <5>3
        <5> HIDE DEF begun, text
        <5>5. WriteCell(begun, t.line, t.col, c)
                 = [begun EXCEPT !.lines = [t.lines EXCEPT ![slot] = text]]
          BY <5>2, <5>4 DEF WriteCell, slot
        <5>6. WriteCell(begun, t.line, t.col, c)
                 = [t EXCEPT !.lines = [t.lines EXCEPT ![slot] = text]]
          BY <1>1, <5>1, <5>5
        <5>7. QED
          BY <5>6
      <4>2. CASE t.col # 0
        BY <1>1, <1>2, <4>2 DEF WriteCell, slot
      <4>3. QED
        BY <4>1, <4>2
    <3>3. QED
      BY <3>1, <3>2, Zenon DEF Advance
  <2> HIDE DEF row, text, u
  <2>6. /\ put \in [lines : [Slots -> Rows], total : Nat, line : Nat, col : Nat,
                    offset : Nat, input : LinesOf(Str), cursor : Nat]
        /\ put.line = t.line /\ put.input = t.input /\ put.cursor = t.cursor
        /\ put.offset = t.offset /\ put.total = t.total /\ put.col = t.col + 1
        /\ put.lines = [t.lines EXCEPT ![slot] = text]
    <3>1. put.lines = [t.lines EXCEPT ![slot] = text] /\ put.col = t.col + 1
      BY <1>1
    <3>2. /\ put.line = t.line /\ put.input = t.input /\ put.cursor = t.cursor
          /\ put.offset = t.offset /\ put.total = t.total
      BY <1>1
    <3>3. put = [lines |-> put.lines, total |-> t.total, line |-> t.line, col |-> t.col + 1,
                 offset |-> t.offset, input |-> t.input, cursor |-> t.cursor]
      <4> DEFINE mid == [t EXCEPT !.lines = [t.lines EXCEPT ![slot] = text]]
      <4>1. mid = [lines |-> put.lines, total |-> t.total, line |-> t.line, col |-> t.col,
                   offset |-> t.offset, input |-> t.input, cursor |-> t.cursor]
        BY <1>1, <3>1
      <4>2. put = [mid EXCEPT !.col = t.col + 1]
        OBVIOUS
      <4> HIDE DEF mid, put
      <4>3. QED
        BY <4>1, <4>2
    <3> HIDE DEF put
    <3>4. t.col + 1 \in Nat
      BY <1>2
    <3>5. QED
      BY <1>1, <2>3, <3>1, <3>2, <3>3, <3>4
  <2>7. \E w \in Rows : put.lines = [t.lines EXCEPT ![SlotOf(t.line)] = w]
    BY <2>2, <2>6 DEF slot
  <2>8. CASE put.col >= TERM_WIDTH
    <3>1. u = Linefeed(put)
      BY <2>5, <2>8
    <3> HIDE DEF put
    <3>2. QED
      BY <1>2, <2>6, <2>7, <3>1, LinefeedEnds DEF u
  <2>9. CASE ~ (put.col >= TERM_WIDTH)
    <3>1. u = put
      BY <2>5, <2>9
    <3> HIDE DEF put
    <3>2. put.col \in 0 .. TERM_WIDTH /\ put.col < TERM_WIDTH
      BY <1>2, <2>4, <2>6, <2>9
    <3>4. Typed(put) /\ put.col < TERM_WIDTH
      BY <1>1, <2>6, <3>2 DEF Typed
    <3>5. RowWritten(t, put)
      BY <2>6, <2>7 DEF RowWritten
    <3>6. QED
      BY <2>6, <3>1, <3>4, <3>5 DEF u
  <2>10. QED
    BY <2>8, <2>9
<1>9. QED
  BY <1>4, <1>5, <1>6, <1>7, <1>8

\* Rendering bounds the offset, and no more.
LEMMA RenderedIs ==
    ASSUME NEW t, Typed(t)
    PROVE  LET u == Rendered(t)
           IN  /\ Typed(u)
               /\ u.lines = t.lines /\ u.total = t.total /\ u.line = t.line /\ u.col = t.col
               /\ u.input = t.input /\ u.cursor = t.cursor
               /\ Counted(t) => Counted(u)
               /\ Counted(t) /\ t.total = t.line + 1 => u.offset = t.offset
<1> DEFINE u == Rendered(t)
<1>1. t \in [lines : [Slots -> Rows], total : Nat, line : Nat, col : 0 .. TERM_WIDTH,
             offset : Nat, input : LinesOf(Str), cursor : Nat]
  BY DEF Typed
<1>2. PICK n \in Nat : u = [t EXCEPT !.offset = n] /\ n <= t.offset
                       /\ (t.offset <= t.line => n = t.offset)
  BY <1>1 DEF Rendered
<1> HIDE DEF u
<1>3. /\ u.lines = t.lines /\ u.total = t.total /\ u.line = t.line /\ u.col = t.col
      /\ u.input = t.input /\ u.cursor = t.cursor /\ u.offset = n
  BY <1>1, <1>2
<1>4. Typed(u)
  BY <1>1, <1>2 DEF Typed
<1>5. FirstLine(u) = FirstLine(t)
  BY <1>3 DEF FirstLine
<1>6. t.total = t.line + 1 => FirstLine(t) \in Nat /\ FirstLine(t) <= t.line
  BY <1>1, FirstLineIs
<1>7. ASSUME Counted(t), t.total = t.line + 1
      PROVE  u.offset = t.offset /\ n <= t.line - FirstLine(t)
  BY <1>1, <1>2, <1>3, <1>6, <1>7 DEF Counted
<1>8. Counted(t) => Counted(u)
  BY <1>3, <1>5, <1>7 DEF Counted
<1>9. QED
  BY <1>3, <1>4, <1>7, <1>8 DEF u

\* Setting the input row, scrolling and clearing.
LEMMA OthersEffect ==
    ASSUME NEW t, Typed(t)
    PROVE  /\ \A cursor \in Nat :
                 LET u == InputCursor(t, cursor)
                 IN  /\ Typed(u) /\ u.input = t.input /\ u.cursor = cursor
                     /\ u.lines = t.lines /\ u.total = t.total /\ u.line = t.line /\ u.col = t.col
                     /\ Counted(t) => Counted(u)
                     /\ Counted(t) /\ t.total = t.line + 1 => u.offset = t.offset
           /\ \A line \in LinesOf(Str), cursor \in Nat :
                 LET u == SetInputLine(t, line, cursor)
                 IN  /\ Typed(u) /\ u.input = line
                     /\ (u.cursor = cursor \/ cursor > Len(line))
                     /\ u.lines = t.lines /\ u.total = t.total /\ u.line = t.line /\ u.col = t.col
                     /\ Counted(t) => Counted(u)
                     /\ Counted(t) /\ t.total = t.line + 1 => u.offset = t.offset
           /\ \A delta \in Int :
                 LET u == ScrollLines(t, delta)
                 IN  /\ Typed(u) /\ u.input = t.input /\ u.cursor = t.cursor
                     /\ u.lines = t.lines /\ u.total = t.total /\ u.line = t.line /\ u.col = t.col
                     /\ Counted(u)
           /\ LET u == ClearScrollback(t)
              IN  /\ Typed(u) /\ u.input = t.input /\ u.cursor = t.cursor
                  /\ u.lines = [s \in Slots |-> BlankLine]
                  /\ u.total = 1 /\ u.line = 0 /\ u.col = 0 /\ u.offset = 0
<1>1. t \in [lines : [Slots -> Rows], total : Nat, line : Nat, col : 0 .. TERM_WIDTH,
             offset : Nat, input : LinesOf(Str), cursor : Nat]
  BY DEF Typed
<1>2. t.total = t.line + 1 => FirstLine(t) \in Nat /\ FirstLine(t) <= t.line
  BY <1>1, FirstLineIs
<1>3. ASSUME NEW line \in LinesOf(Str), NEW cursor \in Nat
      PROVE  LET u == InputCursor([t EXCEPT !.input = line], cursor)
             IN  /\ Typed(u) /\ u.input = line /\ u.cursor = cursor
                 /\ u.lines = t.lines /\ u.total = t.total /\ u.line = t.line /\ u.col = t.col
                 /\ Counted(t) => Counted(u)
                 /\ Counted(t) /\ t.total = t.line + 1 => u.offset = t.offset
  <2> DEFINE v == [t EXCEPT !.input = line]
             w == [v EXCEPT !.cursor = cursor]
             u == InputCursor(v, cursor)
  <2>1. u = Rendered(w)
    BY DEF InputCursor
  <2>2. v = [lines |-> t.lines, total |-> t.total, line |-> t.line, col |-> t.col,
             offset |-> t.offset, input |-> line, cursor |-> t.cursor]
    BY <1>1
  <2> HIDE DEF v
  <2>3. w = [lines |-> t.lines, total |-> t.total, line |-> t.line, col |-> t.col,
             offset |-> t.offset, input |-> line, cursor |-> cursor]
    BY <2>2
  <2> HIDE DEF w, u
  <2>4. /\ w.lines = t.lines /\ w.total = t.total /\ w.line = t.line /\ w.col = t.col
        /\ w.offset = t.offset /\ w.input = line /\ w.cursor = cursor
    BY <2>3
  <2>5. Typed(w)
    BY <1>1, <2>3 DEF Typed
  <2>6. FirstLine(w) = FirstLine(t)
    BY <2>4 DEF FirstLine
  <2>7. Counted(w) <=> Counted(t)
    BY <2>4, <2>6 DEF Counted
  <2>8. QED
    BY <2>1, <2>4, <2>5, <2>7, RenderedIs DEF u, v
<1>4. ASSUME NEW cursor \in Nat
      PROVE  LET u == InputCursor(t, cursor)
             IN  /\ Typed(u) /\ u.input = t.input /\ u.cursor = cursor
                 /\ u.lines = t.lines /\ u.total = t.total /\ u.line = t.line /\ u.col = t.col
                 /\ Counted(t) => Counted(u)
                 /\ Counted(t) /\ t.total = t.line + 1 => u.offset = t.offset
  <2>1. [t EXCEPT !.input = t.input] = t /\ t.input \in LinesOf(Str)
    BY <1>1
  <2>2. QED
    BY <1>3, <2>1
<1>5. ASSUME NEW line \in LinesOf(Str), NEW cursor \in Nat
      PROVE  LET u == SetInputLine(t, line, cursor)
             IN  /\ Typed(u) /\ u.input = line
                 /\ (u.cursor = cursor \/ cursor > Len(line))
                 /\ u.lines = t.lines /\ u.total = t.total /\ u.line = t.line /\ u.col = t.col
                 /\ Counted(t) => Counted(u)
                 /\ Counted(t) /\ t.total = t.line + 1 => u.offset = t.offset
  <2>1. Len(line) \in Nat
    BY InputAssumption, LineIsSeq, LenProperties
  <2>2. PICK most \in Nat : most = IF cursor > Len(line) THEN Len(line) ELSE cursor
    BY <2>1
  <2>3. SetInputLine(t, line, cursor) = InputCursor([t EXCEPT !.input = line], most)
    BY <2>2 DEF SetInputLine
  <2>4. QED
    BY <1>3, <2>2, <2>3
<1>6. ASSUME NEW delta \in Int
      PROVE  LET u == ScrollLines(t, delta)
             IN  /\ Typed(u) /\ u.input = t.input /\ u.cursor = t.cursor
                 /\ u.lines = t.lines /\ u.total = t.total /\ u.line = t.line /\ u.col = t.col
                 /\ Counted(u)
  <2>1. FirstLine(t) \in Int
    BY <1>1, TerminalAssumption DEF FirstLine
  <2>2. PICK n \in Nat : /\ ScrollLines(t, delta) = Rendered([t EXCEPT !.offset = n])
                         /\ t.total = t.line + 1 => n <= t.line - FirstLine(t)
    <3> DEFINE max_off == t.line - FirstLine(t)
               moved   == t.offset + delta
               most    == IF moved > max_off THEN max_off ELSE moved
               n       == IF most < 0 THEN 0 ELSE most
    <3>1. max_off \in Int /\ moved \in Int
      BY <1>1, <2>1
    <3>2. t.total = t.line + 1 => max_off >= 0
      BY <1>1, <1>2
    <3>3. ScrollLines(t, delta) = Rendered([t EXCEPT !.offset = n])
      BY DEF ScrollLines
    <3> HIDE DEF max_off, moved
    <3>4. n \in Nat /\ (t.total = t.line + 1 => n <= max_off)
      BY <3>1, <3>2
    <3>5. QED
      BY <3>3, <3>4 DEF max_off
  <2>3. PICK w : w = [t EXCEPT !.offset = n]
    OBVIOUS
  <2>4. /\ w.lines = t.lines /\ w.total = t.total /\ w.line = t.line /\ w.col = t.col
        /\ w.offset = n /\ w.input = t.input /\ w.cursor = t.cursor
    BY <1>1, <2>3
  <2>5. Typed(w)
    BY <1>1, <2>3 DEF Typed
  <2>6. FirstLine(w) = FirstLine(t)
    BY <2>4 DEF FirstLine
  <2>7. Counted(w)
    BY <2>2, <2>4, <2>6 DEF Counted
  <2>8. QED
    BY <2>2, <2>3, <2>4, <2>5, <2>7, RenderedIs
<1>7. LET u == ClearScrollback(t)
      IN  /\ Typed(u) /\ u.input = t.input /\ u.cursor = t.cursor
          /\ u.lines = [s \in Slots |-> BlankLine]
          /\ u.total = 1 /\ u.line = 0 /\ u.col = 0 /\ u.offset = 0
  <2> DEFINE u == ClearScrollback(t)
             blank == [s \in Slots |-> BlankLine]
  <2>1. u = [lines |-> blank, total |-> 1, line |-> 0, col |-> 0, offset |-> 0,
             input |-> t.input, cursor |-> t.cursor]
    <3> DEFINE R(line, cursor) == [lines |-> blank, total |-> 1, line |-> 0, col |-> 0,
                                   offset |-> 0, input |-> line, cursor |-> cursor]
               first == TerminalInit
               mid   == [first EXCEPT !.input = t.input]
    <3>1. first = R(<<>>, 0)
      BY DEF TerminalInit
    <3>2. u = [mid EXCEPT !.cursor = t.cursor]
      BY DEF ClearScrollback
    <3> HIDE DEF first, blank, u
    <3>3. mid = R(t.input, 0)
      BY <3>1
    <3> HIDE DEF mid
    <3>4. QED
      BY <3>2, <3>3
  <2>2. blank \in [Slots -> Rows]
    BY SlotsOfLines
  <2> HIDE DEF u, blank
  <2>3. 0 \in 0 .. TERM_WIDTH
    BY TerminalAssumption
  <2>4. Typed(u)
    BY <1>1, <2>1, <2>2, <2>3 DEF Typed
  <2>5. QED
    BY <2>1, <2>4 DEF u, blank
<1>8. QED
  BY <1>4, <1>5, <1>6, <1>7

\* The input row is what it is set to.
LEMMA InputRowIs ==
    ASSUME NEW t, Typed(t), NEW line \in LinesOf(Str), NEW cursor \in Nat, ~ (cursor > Len(line))
    PROVE  /\ SetInputLine(t, line, cursor).input = line
           /\ SetInputLine(t, line, cursor).cursor = cursor
<1>1. PICK v : v = [t EXCEPT !.input = line]
  OBVIOUS
<1>2. Typed(v) /\ v.input = line
  BY <1>1 DEF Typed
<1>3. SetInputLine(t, line, cursor) = InputCursor(v, cursor)
  BY <1>1 DEF SetInputLine
<1>4. InputCursor(v, cursor).input = v.input /\ InputCursor(v, cursor).cursor = cursor
  BY <1>2, OthersEffect, Zenon
<1>5. QED
  BY <1>2, <1>3, <1>4

LEMMA TermAtFirst == TermOK(TerminalInit)
<1> DEFINE blank == [s \in Slots |-> BlankLine]
           u == TerminalInit
<1>1. u = [lines |-> blank, total |-> 1, line |-> 0, col |-> 0, offset |-> 0,
           input |-> <<>>, cursor |-> 0]
  BY DEF TerminalInit
<1>2. blank \in [Slots -> Rows]
  BY SlotsOfLines
<1> HIDE DEF u, blank
<1>3. 0 \in 0 .. TERM_WIDTH /\ 0 < TERM_WIDTH
  BY TerminalAssumption
<1>4. FirstLine(u) = 0
  BY <1>1, SlotsOfLines DEF FirstLine
<1>5. <<>> \in LinesOf(Str)
  <2>1. <<>> \in Seq(Str) /\ Len(<<>>) < SHELL_LINE_MAX
    BY InputAssumption
  <2>2. QED
    BY <2>1, LineIsSeq
<1>6. TermOK(u)
  BY <1>1, <1>2, <1>3, <1>4, <1>5 DEF TermOK, Typed, Counted
<1>7. QED
  BY <1>6 DEF u

-----------------------------------------------------------------------------
(* The rows kept, as Scrollback sees them.                                 *)

\* The rows kept, the oldest first.
Kept(t) == [i \in 1 .. t.line - FirstLine(t) + 1 |-> t.lines[SlotOf(FirstLine(t) + i - 1)]]

\* S!View(n) of the rows kept.
ViewOf(kept, n) ==
    LET wanted == Len(kept) - (TERM_OUTPUT_ROWS - 1) - n
        top    == IF wanted < 1 THEN 1 ELSE wanted
    IN  [row \in 0 .. TERM_OUTPUT_ROWS - 1 |->
            IF top + row <= Len(kept) THEN kept[top + row] ELSE BlankLine]

\* The rows kept are those from the first line to the one being written.
LEMMA KeptIs ==
    ASSUME NEW t, TermOK(t)
    PROVE  /\ Kept(t) \in Seq(Rows)
           /\ Len(Kept(t)) = t.line - FirstLine(t) + 1
           /\ DOMAIN Kept(t) = 1 .. Len(Kept(t))
           /\ Len(Kept(t)) \in 1 .. TERM_SCROLLBACK_LINES
           /\ \A i \in 1 .. t.line - FirstLine(t) + 1 :
                 Kept(t)[i] = t.lines[SlotOf(FirstLine(t) + i - 1)]
<1> DEFINE n == t.line - FirstLine(t) + 1
<1>1. /\ FirstLine(t) \in Nat /\ t.line \in Nat /\ t.lines \in [Slots -> Rows]
      /\ n \in 1 .. TERM_SCROLLBACK_LINES
  BY FirstLineIs, SlotsOfLines DEF TermOK, Typed, Counted
<1>2. Kept(t) = [i \in 1 .. n |-> t.lines[SlotOf(FirstLine(t) + i - 1)]]
  BY DEF Kept
<1>3. ASSUME NEW i \in 1 .. n PROVE t.lines[SlotOf(FirstLine(t) + i - 1)] \in Rows
  <2>1. FirstLine(t) + i - 1 \in Nat
    BY <1>1
  <2>2. SlotOf(FirstLine(t) + i - 1) \in Slots
    BY <2>1, SlotsOfLines
  <2>3. QED
    BY <1>1, <2>2
<1> HIDE DEF n
<1>4. Kept(t) \in [1 .. n -> Rows] /\ n \in Nat
  BY <1>1, <1>2, <1>3, SlotsOfLines
<1>5. Kept(t) \in Seq(Rows) /\ Len(Kept(t)) = n
  BY <1>4
<1>6. \A i \in 1 .. n : Kept(t)[i] = t.lines[SlotOf(FirstLine(t) + i - 1)]
  BY <1>2
<1>7. QED
  BY <1>1, <1>4, <1>5, <1>6 DEF n

\* The window shows the rows kept that the offset says.
LEMMA ShownIsView ==
    ASSUME NEW t, TermOK(t)
    PROVE  Shown(t) = ViewOf(Kept(t), t.offset)
<1> DEFINE first == FirstLine(t)
           above == TERM_OUTPUT_ROWS - 1 + t.offset
           up    == IF t.line >= above THEN t.line - above ELSE 0
           top   == IF up < first THEN first ELSE up
           k     == Len(Kept(t))
           wanted == k - (TERM_OUTPUT_ROWS - 1) - t.offset
           from  == IF wanted < 1 THEN 1 ELSE wanted
<1>1. /\ first \in Nat /\ t.line \in Nat /\ first <= t.line /\ t.offset \in Nat
      /\ TERM_OUTPUT_ROWS \in Nat \ {0}
  BY FirstLineIs, SlotsOfLines DEF TermOK, Typed, Counted
<1>2. k = t.line - first + 1
  BY KeptIs
<1>3. top = first + from - 1 /\ from \in Nat \ {0}
  <2> HIDE DEF first, k
  <2>1. wanted = t.line - above - first + 1 /\ above \in Nat
    BY <1>1, <1>2 DEF first
  <2> HIDE DEF wanted, above
  <2>2. CASE t.line < above
    BY <1>1, <2>1, <2>2
  <2>3. CASE t.line >= above
    BY <1>1, <2>1, <2>3
  <2>4. QED
    BY <1>1, <2>1, <2>2, <2>3
<1>4. Shown(t) = [row \in 0 .. TERM_OUTPUT_ROWS - 1 |->
                    IF top + row <= t.line THEN t.lines[SlotOf(top + row)] ELSE BlankLine]
  BY DEF Shown
<1>5. ViewOf(Kept(t), t.offset)
        = [row \in 0 .. TERM_OUTPUT_ROWS - 1 |->
             IF from + row <= k THEN Kept(t)[from + row] ELSE BlankLine]
  BY DEF ViewOf
<1> HIDE DEF first, top, from, k
<1>6. ASSUME NEW row \in 0 .. TERM_OUTPUT_ROWS - 1
      PROVE  (IF top + row <= t.line THEN t.lines[SlotOf(top + row)] ELSE BlankLine)
               = (IF from + row <= k THEN Kept(t)[from + row] ELSE BlankLine)
  <2>1. row \in Nat
    BY <1>1
  <2>2. top + row <= t.line <=> from + row <= k
    BY <1>1, <1>2, <1>3, <2>1
  <2>3. CASE from + row <= k
    <3>1. from + row \in 1 .. t.line - FirstLine(t) + 1
      BY <1>1, <1>2, <1>3, <2>1, <2>3 DEF first
    <3>2. Kept(t)[from + row] = t.lines[SlotOf(FirstLine(t) + (from + row) - 1)]
      BY <3>1, KeptIs
    <3>3. FirstLine(t) + (from + row) - 1 = top + row
      BY <1>1, <1>3, <2>1 DEF first
    <3>4. QED
      BY <2>2, <2>3, <3>2, <3>3
  <2>4. CASE ~ (from + row <= k)
    BY <2>2, <2>4
  <2>5. QED
    BY <2>3, <2>4
<1>7. QED
  BY <1>4, <1>5, <1>6

\* What Scrollback calls Newest(text): the last row kept replaced.
NewestOf(kept, text) == Front(kept) \o <<text>>

LEMMA FrontIs ==
    ASSUME NEW kept \in Seq(Rows), Len(kept) # 0, NEW text \in Rows
    PROVE  /\ NewestOf(kept, text) \in Seq(Rows)
           /\ Len(NewestOf(kept, text)) = Len(kept)
           /\ \A i \in 1 .. Len(kept) :
                 NewestOf(kept, text)[i] = IF i = Len(kept) THEN text ELSE kept[i]
<1> DEFINE n == Len(kept)
           front == SubSeq(kept, 1, n - 1)
<1>1. n \in Nat \ {0}
  BY LenProperties
<1>2. front \in Seq(Rows) /\ Len(front) = n - 1 /\ \A i \in 1 .. n - 1 : front[i] = kept[i]
  <2>1. \A i \in 1 .. n - 1 : kept[i] \in Rows
    BY <1>1, ElementOfSeq
  <2>2. front \in Seq(Rows) /\ Len(front) = n - 1
    <3> HIDE DEF n
    <3>1. 1 \in Int /\ n - 1 \in Int
      BY <1>1
    <3>2. front \in Seq(Rows) /\ Len(front) = IF 1 <= n - 1 THEN (n - 1) - 1 + 1 ELSE 0
      BY <2>1, <3>1, SubSeqProperties
    <3>3. QED
      BY <1>1, <3>2
  <2>3. \A i \in 1 .. n - 1 : front[i] = kept[i]
    BY <1>1
  <2>4. QED
    BY <2>2, <2>3
<1>3. NewestOf(kept, text) = front \o <<text>>
  BY DEF NewestOf, Front
<1>4. <<text>> \in Seq(Rows) /\ Len(<<text>>) = 1 /\ <<text>>[1] = text
  OBVIOUS
<1> HIDE DEF front, n
<1>5. /\ front \o <<text>> \in Seq(Rows) /\ Len(front \o <<text>>) = n
      /\ \A i \in 1 .. n : (front \o <<text>>)[i] = IF i = n THEN text ELSE front[i]
  BY <1>1, <1>2, <1>4, ConcatProperties
<1>6. \A i \in 1 .. n : i # n => i \in 1 .. n - 1
  BY <1>1
<1>7. QED
  BY <1>2, <1>3, <1>5, <1>6 DEF n

\* Writing in the newest row replaces the last of the rows kept.
LEMMA WriteMaps ==
    ASSUME NEW t, NEW u, TermOK(t), TermOK(u), RowWritten(t, u)
    PROVE  \E text \in Rows : Kept(u) = NewestOf(Kept(t), text)
<1>1. PICK text \in Rows : u.lines = [t.lines EXCEPT ![SlotOf(t.line)] = text]
  BY DEF RowWritten
<1>2. u.line = t.line /\ u.total = t.total
  BY DEF RowWritten, TermOK, Typed, Counted
<1>3. FirstLine(u) = FirstLine(t)
  BY <1>2 DEF FirstLine
<1> DEFINE n == Len(Kept(t))
           f == FirstLine(t)
<1>4. /\ n = t.line - f + 1 /\ n \in 1 .. TERM_SCROLLBACK_LINES /\ f \in Nat /\ t.line \in Nat
      /\ t.lines \in [Slots -> Rows] /\ TERM_SCROLLBACK_LINES \in Nat \ {0}
  BY KeptIs, FirstLineIs, SlotsOfLines DEF TermOK, Typed, Counted
<1>5. Kept(u) \in Seq(Rows) /\ Len(Kept(u)) = n
  BY <1>2, <1>3, <1>4, KeptIs
<1>6. Kept(t) \in Seq(Rows) /\ Len(Kept(t)) # 0
  BY <1>4, KeptIs
<1>7. /\ NewestOf(Kept(t), text) \in Seq(Rows) /\ Len(NewestOf(Kept(t), text)) = n
      /\ \A i \in 1 .. n : NewestOf(Kept(t), text)[i] = IF i = n THEN text ELSE Kept(t)[i]
  BY <1>6, FrontIs
<1>8. ASSUME NEW i \in 1 .. n
      PROVE  Kept(u)[i] = IF i = n THEN text ELSE Kept(t)[i]
  <2>1. i \in 1 .. t.line - f + 1 /\ i \in 1 .. u.line - FirstLine(u) + 1
    BY <1>2, <1>3, <1>4
  <2>2. Kept(u)[i] = u.lines[SlotOf(f + i - 1)]
    BY <1>3, <2>1, KeptIs
  <2>3. Kept(t)[i] = t.lines[SlotOf(f + i - 1)]
    BY <2>1, KeptIs
  <2>4. f + i - 1 \in Nat /\ SlotOf(t.line) \in Slots
    BY <1>4, <2>1, SlotsOfLines
  <2>5. SlotOf(f + i - 1) \in Slots
    BY <2>4, SlotsOfLines
  <2>6. CASE i = n
    <3>1. f + i - 1 = t.line
      BY <1>4, <2>6
    <3>2. QED
      BY <1>1, <1>4, <2>2, <2>4, <2>6, <3>1
  <2>7. CASE i # n
    <3>1. f + i - 1 < t.line /\ t.line - (f + i - 1) < TERM_SCROLLBACK_LINES
      BY <1>4, <2>1, <2>7
    <3>2. SlotOf(f + i - 1) # SlotOf(t.line)
      BY <1>4, <2>4, <3>1, SlotsApart
    <3>3. QED
      BY <1>1, <1>4, <2>2, <2>3, <2>5, <2>7, <3>2
  <2>8. QED
    BY <2>6, <2>7
<1> HIDE DEF n
<1>9. Kept(u) = NewestOf(Kept(t), text)
  BY <1>5, <1>7, <1>8, SeqEqual
<1>10. QED
  BY <1>9

\* What NewLine does to the rows kept.
NextRow(kept, text) ==
    LET all  == Append(NewestOf(kept, text), BlankLine)
        drop == IF Len(all) > TERM_SCROLLBACK_LINES THEN 1 ELSE 0
    IN  SubSeq(all, 1 + drop, Len(all))

\* Ending a row appends one and drops the oldest when the ring is full.
LEMMA NewLineMaps ==
    ASSUME NEW t, NEW u, TermOK(t), TermOK(u), RowEnded(t, u)
    PROVE  \E text \in Rows : Kept(u) = NextRow(Kept(t), text)
<1>1. PICK text \in Rows :
         u.lines = [[t.lines EXCEPT ![SlotOf(t.line)] = text]
                        EXCEPT ![SlotOf(t.line + 1)] = BlankLine]
  BY DEF RowEnded
<1> DEFINE n == Len(Kept(t))
           f == FirstLine(t)
           newest == NewestOf(Kept(t), text)
           all == Append(newest, BlankLine)
           drop == IF Len(all) > TERM_SCROLLBACK_LINES THEN 1 ELSE 0
           m == n + 1 - drop
<1>2. /\ n = t.line - f + 1 /\ n \in 1 .. TERM_SCROLLBACK_LINES /\ f \in Nat /\ t.line \in Nat
      /\ t.lines \in [Slots -> Rows] /\ TERM_SCROLLBACK_LINES \in Nat \ {0}
      /\ t.total = t.line + 1
  BY KeptIs, FirstLineIs, SlotsOfLines DEF TermOK, Typed, Counted
<1>3. Kept(t) \in Seq(Rows) /\ Len(Kept(t)) # 0
  BY <1>2, KeptIs
<1>4. /\ newest \in Seq(Rows) /\ Len(newest) = n
      /\ \A i \in 1 .. n : newest[i] = IF i = n THEN text ELSE Kept(t)[i]
  BY <1>3, FrontIs
<1>5. BlankLine \in Rows
  BY SlotsOfLines
<1> HIDE DEF newest
<1>6. /\ all \in Seq(Rows) /\ Len(all) = n + 1 /\ all[n + 1] = BlankLine
      /\ \A i \in 1 .. n : all[i] = newest[i]
  BY <1>2, <1>4, <1>5
<1>7. drop = IF n = TERM_SCROLLBACK_LINES THEN 1 ELSE 0
  BY <1>2, <1>6
<1>8. u.line = t.line + 1 /\ u.total = t.line + 2
  BY DEF RowEnded, TermOK, Typed, Counted
<1>9. FirstLine(u) = f + drop
  <2>1. CASE t.line < TERM_SCROLLBACK_LINES
    <3>1. f = 0
      BY <1>2, <2>1, FirstLineIs
    <3>2. n = t.line + 1
      BY <1>2, <3>1
    <3>3. QED
      BY <1>2, <1>7, <1>8, <2>1, <3>1, <3>2 DEF FirstLine
  <2>2. CASE t.line >= TERM_SCROLLBACK_LINES
    <3>1. f = t.line + 1 - TERM_SCROLLBACK_LINES
      BY <1>2, <2>2, FirstLineIs
    <3>2. n = TERM_SCROLLBACK_LINES
      BY <1>2, <3>1
    <3>3. QED
      BY <1>2, <1>7, <1>8, <2>2, <3>1, <3>2 DEF FirstLine
  <2>3. QED
    BY <1>2, <2>1, <2>2
<1> HIDE DEF all
<1>10. drop \in {0, 1} /\ m \in 1 .. TERM_SCROLLBACK_LINES /\ (n = 1 /\ drop = 1 => m = 1)
  BY <1>2, <1>7
<1> HIDE DEF drop
<1>11. Kept(u) \in Seq(Rows) /\ Len(Kept(u)) = m
  <2>1. Len(Kept(u)) = u.line - FirstLine(u) + 1
    BY KeptIs
  <2>2. u.line - FirstLine(u) + 1 = m
    BY <1>2, <1>8, <1>9, <1>10
  <2>3. QED
    BY <2>1, <2>2, KeptIs
<1>12. NextRow(Kept(t), text) = SubSeq(all, 1 + drop, Len(all))
  BY DEF NextRow, all, drop, newest
<1>13. /\ SubSeq(all, 1 + drop, n + 1) \in Seq(Rows)
       /\ Len(SubSeq(all, 1 + drop, n + 1)) = m
       /\ \A i \in 1 .. m : SubSeq(all, 1 + drop, n + 1)[i] = all[drop + i]
  <2>1. \A i \in 1 + drop .. n + 1 : all[i] \in Rows
    BY <1>2, <1>6, <1>10, ElementOfSeq
  <2>2. SubSeq(all, 1 + drop, n + 1) \in Seq(Rows) /\ Len(SubSeq(all, 1 + drop, n + 1)) = m
    <3>1. /\ 1 + drop \in Int /\ n + 1 \in Int /\ 1 + drop <= n + 1
          /\ m = (n + 1) - (1 + drop) + 1
      <4>1. n \in Nat \ {0} /\ drop \in {0, 1}
        BY <1>2, <1>10
      <4> HIDE DEF n
      <4>2. QED
        BY <4>1
    <3> HIDE DEF m, n
    <3>2. /\ SubSeq(all, 1 + drop, n + 1) \in Seq(Rows)
          /\ Len(SubSeq(all, 1 + drop, n + 1))
               = IF 1 + drop <= n + 1 THEN (n + 1) - (1 + drop) + 1 ELSE 0
      BY <2>1, <3>1, SubSeqProperties
    <3>3. QED
      BY <3>1, <3>2
  <2>3. \A i \in 1 .. m : SubSeq(all, 1 + drop, n + 1)[i] = all[(1 + drop) + i - 1]
    <3>1. 1 + drop \in Int /\ n + 1 \in Int /\ m = (n + 1) - (1 + drop) + 1
      BY <1>2, <1>10
    <3> HIDE DEF m
    <3>2. \A i \in 1 .. (n + 1) - (1 + drop) + 1 :
             SubSeq(all, 1 + drop, n + 1)[i] = all[(1 + drop) + i - 1]
      BY <2>1, <3>1, SubSeqProperties
    <3>3. QED
      BY <3>1, <3>2
  <2>4. \A i \in 1 .. m : (1 + drop) + i - 1 = drop + i
    BY <1>10
  <2>5. QED
    BY <2>2, <2>3, <2>4
<1>14. ASSUME NEW i \in 1 .. m
       PROVE  Kept(u)[i] = all[drop + i]
  <2>1. i \in 1 .. u.line - FirstLine(u) + 1
    BY <1>2, <1>8, <1>9, <1>10
  <2>2. Kept(u)[i] = u.lines[SlotOf(FirstLine(u) + i - 1)]
    BY <2>1, KeptIs
  <2> DEFINE j == drop + i
             line == f + j - 1
  <2>3. FirstLine(u) + i - 1 = line /\ line \in Nat /\ j \in 1 .. n + 1
    <3>1. i \in Nat \ {0} /\ drop \in Nat /\ i <= n + 1 - drop /\ n \in Nat
      BY <1>2, <1>10
    <3> HIDE DEF n, f
    <3>2. QED
      BY <1>2, <1>9, <3>1
  <2>4. t.line + 1 \in Nat
    BY <1>2
  <2>5. SlotOf(line) \in Slots /\ SlotOf(t.line) \in Slots /\ SlotOf(t.line + 1) \in Slots
    BY <1>2, <2>3, <2>4, SlotsOfLines
  <2>6. t.line + 1 - line < TERM_SCROLLBACK_LINES
    <3>1. drop \in Nat /\ i \in Nat \ {0} /\ n \in Nat
      BY <1>2, <1>10
    <3> HIDE DEF n, f
    <3>2. t.line + 1 - line = m - i
      BY <1>2, <3>1
    <3>3. QED
      BY <1>2, <1>10, <3>1, <3>2
  <2>7. Kept(u)[i] = u.lines[SlotOf(line)]
    BY <2>2, <2>3
  <2> HIDE DEF j, line
  <2>8. CASE j = n + 1
    <3>1. line = t.line + 1
      BY <1>2, <2>8 DEF line
    <3>2. Kept(u)[i] = BlankLine
      BY <1>1, <1>2, <2>5, <2>7, <3>1
    <3>3. QED
      BY <1>6, <2>8, <3>2 DEF j
  <2>9. CASE j = n
    <3>1. line = t.line
      BY <1>2, <2>9 DEF line
    <3>2. SlotOf(line) # SlotOf(t.line + 1)
      BY <1>2, <2>3, <2>4, <2>6, <3>1, SlotsApart
    <3>3. Kept(u)[i] = text
      BY <1>1, <1>2, <2>5, <2>7, <3>1, <3>2
    <3>4. all[j] = text
      <4>1. j \in 1 .. n
        BY <1>2, <2>9
      <4>2. all[j] = newest[j] /\ newest[j] = text
        BY <1>4, <1>6, <2>9, <4>1
      <4>3. QED
        BY <4>2
    <3>5. QED
      BY <3>3, <3>4 DEF j
  <2>10. CASE j < n
    <3>1. line < t.line /\ line < t.line + 1
      BY <1>2, <2>3, <2>10 DEF line
    <3>2. t.line - line < TERM_SCROLLBACK_LINES
      BY <1>2, <2>3, <2>6
    <3>3. SlotOf(line) # SlotOf(t.line + 1) /\ SlotOf(line) # SlotOf(t.line)
      BY <1>2, <2>3, <2>4, <2>6, <3>1, <3>2, SlotsApart
    <3>4. Kept(u)[i] = t.lines[SlotOf(line)]
      BY <1>1, <1>2, <2>5, <2>7, <3>3
    <3>5. j \in 1 .. n /\ j # n /\ j \in 1 .. t.line - FirstLine(t) + 1
      BY <1>2, <2>3, <2>10
    <3>6. Kept(t)[j] = t.lines[SlotOf(line)]
      BY <3>5, KeptIs DEF line
    <3>7. all[j] = Kept(t)[j]
      BY <1>4, <1>6, <3>5
    <3>8. QED
      BY <3>4, <3>6, <3>7 DEF j
  <2>11. QED
    BY <1>2, <2>3, <2>8, <2>9, <2>10
<1>15. Kept(u) = SubSeq(all, 1 + drop, n + 1)
  <2> HIDE DEF m
  <2>1. QED
    BY <1>11, <1>13, <1>14, SeqEqual
<1>16. QED
  BY <1>6, <1>12, <1>15

\* The recursion in FoldLeft, for the text of one character.
LEMMA PrintOne ==
    ASSUME NEW t, NEW c
    PROVE  FoldLeft(PutChar, t, <<c>>) = PutChar(t, c)
<1> DEFINE D == DOMAIN <<c>>
           Is(g) == g = [s \in SUBSET D |->
                           IF s = {} THEN t ELSE PutChar(g[s \ {Max(s)}], <<c>>[Max(s)])]
           iter == CHOOSE g : Is(g)
           once == [s \in SUBSET D |-> IF s = {} THEN t ELSE PutChar(t, c)]
<1>1. FoldLeft(PutChar, t, <<c>>) = iter[D]
  BY Zenon DEF FoldLeft, MapThenFoldSet
<1>2. D = {1} /\ <<c>>[1] = c
  OBVIOUS
<1>3. Max({1}) = 1
  <2>1. Max({1}) \in {1}
    <3>1. {1} \in SUBSET (0 .. 1) /\ {1} # {}
      OBVIOUS
    <3>2. QED
      BY <3>1, MaxIn
  <2>2. QED
    BY <2>1
<1> HIDE DEF D
<1>4. ASSUME NEW s \in SUBSET D, s # {} PROVE s = {1}
  BY <1>2, <1>4
<1>5. {1} \ {1} = {} /\ {} \in SUBSET D /\ {1} \in SUBSET D /\ {1} # {}
  BY <1>2
<1>6. Is(once)
  <2>1. once[{}] = t
    BY <1>5
  <2>2. ASSUME NEW s \in SUBSET D, s # {}
        PROVE  PutChar(once[s \ {Max(s)}], <<c>>[Max(s)]) = PutChar(t, c)
    <3>1. s = {1}
      BY <1>4, <2>2
    <3>2. Max(s) = 1 /\ s \ {Max(s)} = {}
      BY <1>3, <1>5, <3>1
    <3>3. QED
      BY <1>2, <2>1, <3>2
  <2> HIDE DEF once
  <2>3. [s \in SUBSET D |-> IF s = {} THEN t ELSE PutChar(once[s \ {Max(s)}], <<c>>[Max(s)])]
          = [s \in SUBSET D |-> IF s = {} THEN t ELSE PutChar(t, c)]
    BY <2>2
  <2>4. QED
    BY <2>3 DEF once
<1>7. Is(iter)
  BY <1>6, Zenon
<1> HIDE DEF iter
<1>8. iter[{}] = t
  BY <1>5, <1>7
<1>9. iter[{1}] = PutChar(iter[{1} \ {Max({1})}], <<c>>[Max({1})])
  BY <1>5, <1>7
<1>10. iter[{1}] = PutChar(iter[{}], c)
  BY <1>2, <1>3, <1>5, <1>9
<1>11. QED
  BY <1>1, <1>2, <1>8, <1>10

-----------------------------------------------------------------------------
(* What the steps of kmain and of the keys do to the terminal.             *)

\* What a step does to the terminal, the pieces of kmain's characters aside.
TermStep(t, u) ==
    \/ u = t
    \/ \E text \in LinesOf(Str) : u = [t EXCEPT !.input = text]
    \/ \E cursor \in Nat : u = InputCursor(t, cursor)
    \/ \E line \in LinesOf(Str), cursor \in Nat : u = SetInputLine(t, line, cursor)
    \/ \E c \in Chars \cup {LF, CR, BS} : (t.col # TERM_WIDTH \/ c = LF) /\ u = PutChar(t, c)
    \/ \E delta \in Int : u = ScrollLines(t, delta)
    \/ u = ClearScrollback(t)

\* Every step is one of kmain's printing or one that marks what it prints.
LEMMA StepKinds ==
    ASSUME Modes, [Next]_vars
    PROVE  UNCHANGED session /\ (FbPiece \/ TermPiece \/ BeginChar \/ Disturb)
<1>1. ASSUME UNCHANGED <<putc, screens>> PROVE Disturb
  BY <1>1 DEF Disturb, screens
<1>2. ASSUME UNCHANGED putc, putc = NoChar PROVE Disturb
  BY <1>2 DEF Disturb
<1>3. CASE UNCHANGED vars
  BY <1>1, <1>3 DEF vars
<1>4. ASSUME NEW key, Press(key) \/ Release(key) \/ PressModifier(key)
      PROVE  UNCHANGED session /\ Disturb
  <2>1. UNCHANGED session
    BY <1>4 DEF Press, Release, PressModifier, Sends
  <2>2. Disturb \/ UNCHANGED <<putc, screens>>
    BY <1>4 DEF Press, Release, PressModifier
  <2>3. QED
    BY <1>1, <2>1, <2>2
<1>5. CASE Prefix
  BY <1>1, <1>5 DEF Prefix
<1>6. CASE ClearCommand \/ Return
  BY <1>6 DEF ClearCommand, Return
<1>7. CASE BeginChar
  BY <1>7 DEF BeginChar
<1>8. CASE FbPiece \/ TermPiece
  BY <1>8, PieceIs
<1>9. CASE ShellInit
  <2>1. UNCHANGED <<session, putc>> /\ putc = NoChar
    BY <1>9 DEF ShellInit, EmptyLine, ZeroLen, ZeroCursor, ChooseMode, ReadArgs, StoreInput,
                PlaceCursor, MainStep, Modes, Idle
  <2>2. QED
    BY <1>2, <2>1
<1>10. ASSUME NEW c, Output(c)
       PROVE  UNCHANGED session /\ Disturb
  BY <1>10 DEF Output
<1>11. QED
  BY <1>3, <1>4, <1>5, <1>6, <1>7, <1>8, <1>9, <1>10, Zenon DEF Next

LEMMA RedrawSteps ==
    ASSUME EditorInv', Redraw
    PROVE  TermStep(term, term') /\ UNCHANGED fb
<1>1. g_line' \in LinesOf(Str) /\ g_cursor' \in Nat
  <2>1. LineFits(g_line') /\ g_cursor' \in 0 .. SHELL_LINE_MAX
    BY DEF EditorInv
  <2>2. g_line' \in Seq(Str) /\ Len(g_line') < SHELL_LINE_MAX
    BY <2>1 DEF LineFits
  <2>3. QED
    BY <2>1, <2>2, LineIsSeq
<1>2. QED
  BY <1>1 DEF Redraw, TermStep

LEMMA PrintSteps ==
    ASSUME NEW text, ConsolePrint(text), Modes,
           session.framebuffer \/ \E c \in Chars \cup {LF, CR, BS} :
                                     text = <<c>> /\ (term.col # TERM_WIDTH \/ c = LF)
    PROVE  TermStep(term, term')
<1>1. CASE session.framebuffer
  BY <1>1 DEF ConsolePrint, TermStep
<1>2. CASE ~ session.framebuffer
  <2>1. PICK c \in Chars \cup {LF, CR, BS} : text = <<c>> /\ (term.col # TERM_WIDTH \/ c = LF)
    BY <1>2
  <2>2. term' = PutChar(term, c)
    BY <1>2, <2>1, PrintOne DEF ConsolePrint
  <2>3. QED
    BY <2>1, <2>2 DEF TermStep
<1>3. QED
  BY <1>1, <1>2

\* A key that shell_handle_key handles.
LEMMA KeySteps ==
    ASSUME EditorInv', Modes, NEW key, HandleKey(key)
    PROVE  TermStep(term, term')
<1>1. CASE Enter
  <2>1. CASE g_simple_mode
    BY <1>1, <2>1, PrintSteps DEF Enter, Modes
  <2>2. CASE ~ g_simple_mode
    BY <1>1, <2>2 DEF Enter, TermStep
  <2>3. QED
    BY <2>1, <2>2
<1>2. CASE g_simple_mode /\ EditSimple(key)
  <2>1. UNCHANGED screens \/ ConsolePrint(<<key>>) \/ ConsolePrint(Erasing)
    BY <1>2, Zenon DEF EditSimple
  <2>2. UNCHANGED screens => TermStep(term, term')
    BY DEF screens, TermStep
  <2>3. QED
    BY <1>2, <2>1, <2>2, PrintSteps DEF Modes
<1>3. CASE term' = ScrollLines(term, ScrollBy(key))
  <2>1. ScrollBy(key) \in Int
    BY InputAssumption DEF ScrollBy
  <2>2. QED
    BY <1>3, <2>1 DEF TermStep
<1>4. CASE Edit(key)
  <2>1. Redraw
    BY <1>4, Zenon DEF Edit
  <2>2. QED
    BY <2>1, RedrawSteps
<1>5. QED
  BY <1>1, <1>2, <1>3, <1>4, Zenon DEF HandleKey

\* shell_init's redraw_input.
LEMMA ShellInitSteps ==
    ASSUME Modes, ShellInit
    PROVE  TermStep(term, term')
<1>1. CASE EmptyLine \/ ZeroLen \/ ZeroCursor \/ ChooseMode \/ ReadArgs
  BY <1>1 DEF EmptyLine, ZeroLen, ZeroCursor, ChooseMode, ReadArgs, TermStep
<1>2. args.len \in 0 .. SHELL_LINE_MAX - 1 /\ args.cursor \in 0 .. SHELL_LINE_MAX - 1
  BY DEF Modes
<1>3. CASE StoreInput
  <2>1. PICK text \in [1 .. args.len -> Chars \cup {NUL}] : term' = [term EXCEPT !.input = text]
    BY <1>3, Zenon DEF StoreInput
  <2>2. text \in LinesOf(Str)
    BY <1>2, <2>1 DEF LinesOf, Str
  <2>3. QED
    BY <2>1, <2>2 DEF TermStep
<1>4. CASE PlaceCursor
  <2>1. PICK n : n = Min({args.cursor, args.len}) /\ term' = InputCursor(term, n)
    BY <1>4 DEF PlaceCursor
  <2>2. n \in Nat
    <3>1. {args.cursor, args.len} \in SUBSET Nat /\ {args.cursor, args.len} # {}
      BY <1>2
    <3>2. QED
      BY <2>1, <3>1, MinIn
  <2>3. QED
    BY <2>1, <2>2 DEF TermStep
<1>5. QED
  BY <1>1, <1>3, <1>4 DEF ShellInit

LEMMA TermMoves ==
    ASSUME EditorInv', Modes, [Next]_vars, executing => term.col # TERM_WIDTH
    PROVE  TermPiece \/ TermStep(term, term')
<1>1. ASSUME UNCHANGED term PROVE TermStep(term, term')
  BY <1>1 DEF TermStep
<1>2. CASE UNCHANGED vars
  BY <1>1, <1>2 DEF vars, screens
<1>3. ASSUME NEW key, Press(key)
      PROVE  TermStep(term, term')
  <2>1. UNCHANGED screens \/ HandleKey(key)
    BY <1>3, Zenon DEF Press
  <2>2. HandleKey(key) => TermStep(term, term')
    BY KeySteps, Zenon
  <2>3. QED
    BY <1>1, <2>1, <2>2 DEF screens
<1>4. ASSUME NEW key, Release(key) \/ PressModifier(key)
      PROVE  UNCHANGED term
  BY <1>4 DEF Release, PressModifier, screens
<1>5. CASE Prefix \/ BeginChar \/ FbPiece
  BY <1>1, <1>5 DEF Prefix, BeginChar, FbPiece, screens
<1>6. CASE ClearCommand
  BY <1>6 DEF ClearCommand, TermStep
<1>7. CASE Return
  BY <1>7, PrintSteps, RedrawSteps DEF Return, Modes
<1>8. CASE ShellInit
  BY <1>8, ShellInitSteps
<1>9. ASSUME NEW c \in Chars \cup {LF, CR, BS}, Output(c)
      PROVE  TermStep(term, term')
  BY <1>9, PrintSteps DEF Output
<1>10. QED
  BY <1>1, <1>2, <1>3, <1>4, <1>5, <1>6, <1>7, <1>8, <1>9, Zenon DEF Next

\* Whole functions keep the terminal in order.
LEMMA TermStepKeeps ==
    ASSUME NEW t, NEW u, Typed(t), TermStep(t, u)
    PROVE  /\ Typed(u)
           /\ u.col = t.col \/ u.col < TERM_WIDTH
           /\ Counted(t) => Counted(u)
           /\ t.total = t.line + 1 => u.total = u.line + 1
<1>1. CASE u = t
  BY <1>1
<1>2. CASE \E text \in LinesOf(Str) : u = [t EXCEPT !.input = text]
  <2>1. PICK text \in LinesOf(Str) : u = [t EXCEPT !.input = text]
    BY <1>2
  <2>2. /\ u.lines = t.lines /\ u.total = t.total /\ u.line = t.line /\ u.col = t.col
        /\ u.offset = t.offset
    BY <2>1 DEF Typed
  <2>3. FirstLine(u) = FirstLine(t)
    BY <2>2 DEF FirstLine
  <2>4. Typed(u)
    BY <2>1 DEF Typed
  <2>5. QED
    BY <2>2, <2>3, <2>4 DEF Counted
<1>3. CASE \E cursor \in Nat : u = InputCursor(t, cursor)
  <2>1. PICK cursor \in Nat : u = InputCursor(t, cursor)
    BY <1>3
  <2>2. /\ Typed(u) /\ u.total = t.total /\ u.line = t.line /\ u.col = t.col
        /\ Counted(t) => Counted(u)
    BY <2>1, OthersEffect, Zenon
  <2>3. QED
    BY <2>2
<1>4. CASE \E line \in LinesOf(Str), cursor \in Nat : u = SetInputLine(t, line, cursor)
  <2>1. PICK line \in LinesOf(Str), cursor \in Nat : u = SetInputLine(t, line, cursor)
    BY <1>4
  <2>2. /\ Typed(u) /\ u.total = t.total /\ u.line = t.line /\ u.col = t.col
        /\ Counted(t) => Counted(u)
    BY <2>1, OthersEffect, Zenon
  <2>3. QED
    BY <2>2
<1>5. CASE \E c \in Chars \cup {LF, CR, BS} : (t.col # TERM_WIDTH \/ c = LF) /\ u = PutChar(t, c)
  <2>1. Typed(u) /\ u.col < TERM_WIDTH /\ (RowWritten(t, u) \/ RowEnded(t, u))
    BY <1>5, PutCharEffect
  <2>2. QED
    BY <2>1, CountedKept
<1>6. CASE \E delta \in Int : u = ScrollLines(t, delta)
  <2>1. PICK delta \in Int : u = ScrollLines(t, delta)
    BY <1>6
  <2>2. /\ Typed(u) /\ u.total = t.total /\ u.line = t.line /\ u.col = t.col
        /\ Counted(t) => Counted(u)
    BY <2>1, OthersEffect, Zenon
  <2>3. QED
    BY <2>2
<1>7. CASE u = ClearScrollback(t)
  <2>1. Typed(u) /\ u.total = 1 /\ u.line = 0 /\ u.col = 0 /\ u.offset = 0
    BY <1>7, OthersEffect
  <2>2. FirstLine(u) = 0
    BY <2>1, SlotsOfLines DEF FirstLine
  <2>3. QED
    BY <2>1, <2>2, TerminalAssumption DEF Counted
<1>8. QED
  BY <1>1, <1>2, <1>3, <1>4, <1>5, <1>6, <1>7 DEF TermStep

-----------------------------------------------------------------------------
(* The invariant of the terminal, also inside kmain's characters.          *)

\* What kmain's registers hold of a character that no key has come into.
Caught ==
    ~session.framebuffer /\ putc # NoChar =>
        /\ putc.x \in 0 .. TERM_WIDTH - 1 /\ putc.y \in Nat
        /\ \/ putc.hit
           \/ putc.y = term.line /\ (putc.step \in {"clear", "write", "right"} => putc.x = term.col)

\* Behind the last column the row has to end; between its new number and the
\* end of a line feed the window may be out of bounds.
TermFits ==
    /\ Typed(term)
    /\ term.col = TERM_WIDTH => ~session.framebuffer /\ putc.step = "home" /\ ~executing
    /\ session.framebuffer => term.total = term.line + 1
    /\ Counted(term) \/ (~session.framebuffer /\ putc.step \in {"total", "wipe", "latest"})
    /\ Caught

\* Blanking a row and writing in it.
LEMMA CellsFit ==
    ASSUME NEW t, Typed(t), NEW line \in Nat
    PROVE  /\ LET u == ClearLine(t, line)
              IN  /\ Typed(u) /\ u.total = t.total /\ u.line = t.line /\ u.col = t.col
                  /\ u.offset = t.offset /\ u.input = t.input /\ u.cursor = t.cursor
           /\ \A col \in 0 .. TERM_WIDTH - 1, c \in Cells :
                 LET u == WriteCell(t, line, col, c)
                 IN  /\ Typed(u) /\ u.total = t.total /\ u.line = t.line /\ u.col = t.col
                     /\ u.offset = t.offset /\ u.input = t.input /\ u.cursor = t.cursor
<1> DEFINE slot == SlotOf(line)
<1>1. /\ t \in [lines : [Slots -> Rows], total : Nat, line : Nat, col : 0 .. TERM_WIDTH,
                offset : Nat, input : LinesOf(Str), cursor : Nat]
  BY DEF Typed
<1>2. slot \in Slots /\ BlankLine \in Rows
  BY SlotsOfLines
<1> HIDE DEF slot
<1>3. ASSUME NEW text \in Rows, NEW u, u = [t EXCEPT !.lines = [t.lines EXCEPT ![slot] = text]]
      PROVE  /\ Typed(u) /\ u.total = t.total /\ u.line = t.line /\ u.col = t.col
             /\ u.offset = t.offset /\ u.input = t.input /\ u.cursor = t.cursor
  <2>1. [t.lines EXCEPT ![slot] = text] \in [Slots -> Rows]
    BY <1>1, <1>2
  <2>2. QED
    BY <1>1, <1>3, <2>1 DEF Typed
<1>4. ClearLine(t, line) = [t EXCEPT !.lines = [t.lines EXCEPT ![slot] = BlankLine]]
  BY DEF ClearLine, slot
<1>5. ASSUME NEW col \in 0 .. TERM_WIDTH - 1, NEW c \in Cells
      PROVE  \E text \in Rows :
                WriteCell(t, line, col, c) = [t EXCEPT !.lines = [t.lines EXCEPT ![slot] = text]]
  <2>1. PICK text : text = [t.lines[slot] EXCEPT ![col] = c]
    OBVIOUS
  <2>2. t.lines[slot] \in Rows
    BY <1>1, <1>2
  <2>3. text \in Rows
    BY <2>1, <2>2 DEF Rows
  <2>4. WriteCell(t, line, col, c) = [t EXCEPT !.lines = [t.lines EXCEPT ![slot] = text]]
    BY <1>1, <1>2, <2>1 DEF WriteCell, slot
  <2>5. QED
    BY <2>3, <2>4
<1>6. QED
  BY <1>2, <1>3, <1>4, <1>5

\* What OutputOf leaves out is the input row.
LEMMA OutputIs ==
    ASSUME NEW t, NEW u, Typed(t), Typed(u), OutputOf(u) = OutputOf(t)
    PROVE  /\ u.lines = t.lines /\ u.total = t.total /\ u.line = t.line /\ u.col = t.col
           /\ u.offset = t.offset
<1>1. ASSUME NEW v, Typed(v)
      PROVE  /\ OutputOf(v).lines = v.lines /\ OutputOf(v).total = v.total
             /\ OutputOf(v).line = v.line /\ OutputOf(v).col = v.col
             /\ OutputOf(v).offset = v.offset
  BY <1>1 DEF Typed, OutputOf
<1>2. QED
  BY <1>1

\* Enter ends the row.
LEMMA EnterEnds ==
    ASSUME Modes, Typed(term), [Next]_vars, ~executing, executing'
    PROVE  session.framebuffer \/ term'.col < TERM_WIDTH
<1>1. PICK key : HandleKey(key)
  <2>1. CASE UNCHANGED executing
    BY <2>1
  <2>2. CASE UNCHANGED vars
    BY <2>1, <2>2 DEF vars, shell
  <2>3. ASSUME NEW key, Release(key) \/ PressModifier(key)
        PROVE  FALSE
    BY <2>3 DEF Release, PressModifier, shell
  <2>4. CASE Prefix \/ BeginChar
    BY <2>4 DEF Prefix, BeginChar, shell
  <2>5. CASE FbPiece \/ TermPiece
    BY <2>5, PieceIs DEF shell
  <2>6. CASE ShellInit
    BY <2>6 DEF ShellInit, EmptyLine, ZeroLen, ZeroCursor, ChooseMode, ReadArgs, StoreInput,
                PlaceCursor, MainStep
  <2>7. ASSUME NEW key, Press(key), ~ \E k : HandleKey(k)
        PROVE  FALSE
    BY <2>7 DEF Press, shell
  <2>8. QED
    BY <2>1, <2>2, <2>3, <2>4, <2>5, <2>6, <2>7, Zenon DEF Next, Output, ClearCommand, Return
<1>2. Enter
  BY <1>1 DEF HandleKey, EditSimple, Edit, shell
<1>3. CASE g_simple_mode
  BY <1>3 DEF Modes
<1>4. CASE ~ g_simple_mode
  <2>1. term' = PutChar(term, LF)
    BY <1>2, <1>4 DEF Enter
  <2>2. QED
    BY <2>1, PutCharEffect
<1>5. QED
  BY <1>3, <1>4

\* Whole functions.
LEMMA HandlerFits ==
    ASSUME Modes, TermFits, [Next]_vars, TermStep(term, term'), Disturb, UNCHANGED session
    PROVE  TermFits'
<1>1. /\ putc = NoChar => putc' = NoChar
      /\ putc # NoChar =>
            /\ putc' # NoChar /\ putc'.step = putc.step
            /\ putc'.x = putc.x /\ putc'.y = putc.y
            /\ putc.hit => putc'.hit
      /\ session.framebuffer \/ OutputOf(term') = OutputOf(term) \/ putc = NoChar \/ putc'.hit
  BY DisturbIs DEF Modes
<1>2. NoChar.step = "none"
  BY DEF NoChar
<1>3. putc'.step = putc.step
  BY <1>1
<1>4. /\ Typed(term') /\ (term'.col = term.col \/ term'.col < TERM_WIDTH)
      /\ Counted(term) => Counted(term')
      /\ term.total = term.line + 1 => term'.total = term'.line + 1
  BY TermStepKeeps DEF TermFits
<1>5. ASSUME term'.col = TERM_WIDTH
      PROVE  ~session.framebuffer /\ putc'.step = "home" /\ ~executing'
  <2>1. term.col = TERM_WIDTH
    BY <1>4, <1>5, TerminalAssumption
  <2>2. ~session.framebuffer /\ putc.step = "home" /\ ~executing
    BY <2>1 DEF TermFits
  <2>3. Typed(term)
    BY DEF TermFits
  <2>4. ~executing'
    BY <1>5, <2>2, <2>3, EnterEnds, TerminalAssumption
  <2>5. QED
    BY <1>3, <2>2, <2>4
<1>6. Caught'
  <2>1. SUFFICES ASSUME ~session.framebuffer, putc' # NoChar
                 PROVE  /\ putc'.x \in 0 .. TERM_WIDTH - 1 /\ putc'.y \in Nat
                        /\ \/ putc'.hit
                           \/ /\ putc'.y = term'.line
                              /\ putc'.step \in {"clear", "write", "right"} => putc'.x = term'.col
    BY DEF Caught
  <2>2. putc # NoChar
    BY <1>1, <2>1
  <2>3. /\ putc.x \in 0 .. TERM_WIDTH - 1 /\ putc.y \in Nat
        /\ putc.hit \/ (putc.y = term.line
                          /\ (putc.step \in {"clear", "write", "right"} => putc.x = term.col))
    BY <2>1, <2>2 DEF Caught, TermFits
  <2>4. CASE putc'.hit
    BY <1>1, <2>2, <2>3, <2>4
  <2>5. CASE ~putc'.hit
    <3>1. OutputOf(term') = OutputOf(term)
      BY <1>1, <2>1, <2>2, <2>5
    <3>2. term'.line = term.line /\ term'.col = term.col
      BY <1>4, <3>1, OutputIs DEF TermFits
    <3>3. QED
      BY <1>1, <2>2, <2>3, <2>5, <3>2
  <2>6. QED
    BY <2>4, <2>5
<1>7. QED
  BY <1>3, <1>4, <1>5, <1>6 DEF TermFits

\* A character of kmain's begins.
LEMMA BeginFits ==
    ASSUME Modes, TermFits, BeginChar
    PROVE  TermFits'
<1>1. putc = NoChar /\ UNCHANGED <<session, term, executing>>
  BY DEF BeginChar, screens, shell
<1>2. term.col # TERM_WIDTH /\ Counted(term)
  BY <1>1 DEF TermFits, NoChar
<1>3. Caught'
  <2>1. CASE session.framebuffer
    BY <1>1, <2>1 DEF Caught
  <2>2. CASE ~ session.framebuffer
    <3>1. putc'.x = term.col /\ putc'.y = term.line
      BY <2>2 DEF BeginChar, Begun
    <3>2. term.col \in 0 .. TERM_WIDTH /\ term.line \in Nat /\ TERM_WIDTH \in Nat
      BY TerminalAssumption DEF TermFits, Typed
    <3>3. putc'.x \in 0 .. TERM_WIDTH - 1 /\ putc'.y \in Nat
      BY <1>2, <3>1, <3>2
    <3>4. QED
      BY <1>1, <3>1, <3>3 DEF Caught
  <2>3. QED
    BY <2>1, <2>2
<1>4. QED
  BY <1>1, <1>2, <1>3 DEF TermFits

\* The pieces of a character of kmain's, with what they read at the call or now.
Piece(col, line) ==
    \/ /\ putc.step = "clear" /\ putc' = At("write")
       /\ term' = IF col = 0 THEN ClearLine(term, line) ELSE term
    \/ putc.step = "write" /\ putc' = At("right") /\ term' = WriteCell(term, line, col, putc.c)
    \/ /\ putc.step = "right" /\ putc' = (IF col + 1 >= TERM_WIDTH THEN At("home") ELSE NoChar)
       /\ term' = [term EXCEPT !.col = col + 1]
    \/ putc.step = "home" /\ putc' = At("next") /\ term' = [term EXCEPT !.col = 0]
    \/ /\ putc.step = "next" /\ putc' = [At("total") EXCEPT !.y = line + 1]
       /\ term' = [term EXCEPT !.line = line + 1]
    \/ putc.step = "total" /\ putc' = At("wipe") /\ term' = [term EXCEPT !.total = line + 1]
    \/ putc.step = "wipe" /\ putc' = At("latest") /\ term' = ClearLine(term, line)
    \/ putc.step = "latest" /\ putc' = NoChar /\ term' = [term EXCEPT !.offset = 0]

LEMMA TermPieceIs ==
    ASSUME Modes, TermFits, TermPiece
    PROVE  /\ ~session.framebuffer /\ putc # NoChar /\ UNCHANGED <<session, executing>> /\ ~executing
           /\ \E col \in 0 .. TERM_WIDTH, line \in Nat :
                 /\ Piece(col, line)
                 /\ putc.step # "home" => col \in 0 .. TERM_WIDTH - 1
                 /\ putc.hit \/ line = term.line
                 /\ \/ putc.hit \/ putc.step \notin {"clear", "write", "right"}
                    \/ col = term.col
<1>1. ~session.framebuffer /\ putc # NoChar /\ UNCHANGED <<session, executing>> /\ ~executing
  BY PieceIs DEF TermPiece, shell
<1>2. PICK col \in {putc.x, term.col}, line \in {putc.y, term.line} : Piece(col, line)
  BY Zenon DEF TermPiece, Piece, Goto
<1>3. /\ putc.x \in 0 .. TERM_WIDTH - 1 /\ putc.y \in Nat
      /\ putc.hit \/ (putc.y = term.line
                        /\ (putc.step \in {"clear", "write", "right"} => putc.x = term.col))
  BY <1>1 DEF TermFits, Caught
<1>4. term.col \in 0 .. TERM_WIDTH /\ term.line \in Nat /\ TERM_WIDTH \in Nat
  BY TerminalAssumption DEF TermFits, Typed
<1>5. putc.step # "home" => term.col # TERM_WIDTH
  BY DEF TermFits
<1>6. /\ col \in 0 .. TERM_WIDTH /\ line \in Nat
      /\ putc.step # "home" => col \in 0 .. TERM_WIDTH - 1
  BY <1>2, <1>3, <1>4, <1>5
<1>7. /\ putc.hit \/ line = term.line
      /\ putc.hit \/ putc.step \notin {"clear", "write", "right"} \/ col = term.col
  BY <1>2, <1>3
<1>8. QED
  BY <1>1, <1>2, <1>6, <1>7

\* The fields of putc at the next piece.
LEMMA NextPiece ==
    ASSUME PutcOK, putc # NoChar, NEW s, NEW y
    PROVE  /\ At(s).step = s /\ At(s).x = putc.x /\ At(s).y = putc.y
           /\ At(s).c = putc.c /\ At(s).hit = putc.hit /\ At(s).under = putc.under
           /\ LET p == [At(s) EXCEPT !.y = y]
              IN  /\ p.step = s /\ p.x = putc.x /\ p.y = y
                  /\ p.c = putc.c /\ p.hit = putc.hit /\ p.under = putc.under
<1>1. At(s) = [c |-> putc.c, step |-> s, x |-> putc.x, y |-> putc.y,
               under |-> putc.under, hit |-> putc.hit]
  BY AtIs
<1>2. [At(s) EXCEPT !.y = y] = [c |-> putc.c, step |-> s, x |-> putc.x, y |-> y,
                                under |-> putc.under, hit |-> putc.hit]
  BY <1>1
<1>3. QED
  BY <1>1, <1>2

\* What is left of the invariant when a piece is no line feed's number.
LEMMA PieceFits ==
    ASSUME Modes, TermFits, ~session.framebuffer, putc # NoChar,
           UNCHANGED <<session, executing>>, ~executing, putc' # NoChar,
           putc'.x = putc.x, putc'.y = putc.y, putc'.hit = putc.hit,
           Typed(term'), term'.line = term.line,
           term'.col = TERM_WIDTH => putc'.step = "home",
           Counted(term') \/ putc'.step \in {"total", "wipe", "latest"},
           putc'.step \in {"clear", "write", "right"} =>
              term'.col = term.col /\ putc.step \in {"clear", "write", "right"}
    PROVE  TermFits'
<1>1. /\ putc.x \in 0 .. TERM_WIDTH - 1 /\ putc.y \in Nat
      /\ putc.hit \/ (putc.y = term.line
                        /\ (putc.step \in {"clear", "write", "right"} => putc.x = term.col))
  BY DEF TermFits, Caught
<1>2. Caught'
  BY <1>1 DEF Caught
<1>3. QED
  BY <1>2 DEF TermFits

LEMMA TermPieceFits ==
    ASSUME Modes, TermFits, TermPiece
    PROVE  TermFits'
<1>1. /\ ~session.framebuffer /\ putc # NoChar /\ UNCHANGED <<session, executing>> /\ ~executing
      /\ Typed(term) /\ PutcOK
  BY TermPieceIs DEF TermFits, Modes
<1>2. PICK col \in 0 .. TERM_WIDTH, line \in Nat :
         /\ Piece(col, line)
         /\ putc.step # "home" => col \in 0 .. TERM_WIDTH - 1
         /\ putc.hit \/ line = term.line
  BY TermPieceIs
<1>3. /\ term \in [lines : [Slots -> Rows], total : Nat, line : Nat, col : 0 .. TERM_WIDTH,
                   offset : Nat, input : LinesOf(Str), cursor : Nat]
      /\ TERM_WIDTH \in Nat \ {0}
  BY <1>1, TerminalAssumption DEF Typed
<1>4. term.col = TERM_WIDTH => putc.step = "home"
  BY DEF TermFits
<1>5. Counted(term) \/ putc.step \in {"total", "wipe", "latest"}
  BY <1>1 DEF TermFits
<1>6. ASSUME NEW u, Typed(u), u.total = term.total, u.line = term.line, u.offset = term.offset
      PROVE  Counted(term) => Counted(u)
  BY <1>6 DEF Counted, FirstLine
<1>7. CASE putc.step = "clear"
  <2>1. putc' = At("write") /\ term' = IF col = 0 THEN ClearLine(term, line) ELSE term
    BY <1>2, <1>7 DEF Piece
  <2>2. /\ Typed(term') /\ term'.total = term.total /\ term'.line = term.line
        /\ term'.col = term.col /\ term'.offset = term.offset
    BY <1>1, <2>1, CellsFit
  <2>3. Counted(term')
    BY <1>5, <1>6, <1>7, <2>2
  <2>4. /\ putc'.step = "write" /\ putc'.x = putc.x /\ putc'.y = putc.y /\ putc'.hit = putc.hit
        /\ putc' # NoChar
    BY <1>1, <2>1, NextPiece DEF NoChar
  <2>5. QED
    BY <1>1, <1>4, <1>7, <2>2, <2>3, <2>4, PieceFits
<1>8. CASE putc.step = "write"
  <2>1. putc' = At("right") /\ term' = WriteCell(term, line, col, putc.c)
    BY <1>2, <1>8 DEF Piece
  <2>2. putc.c \in Cells
    BY <1>1, <1>8 DEF PutcOK, Written, Cells
  <2>3. /\ Typed(term') /\ term'.total = term.total /\ term'.line = term.line
        /\ term'.col = term.col /\ term'.offset = term.offset
    BY <1>1, <1>2, <1>8, <2>1, <2>2, CellsFit
  <2>4. Counted(term')
    BY <1>5, <1>6, <1>8, <2>3
  <2>5. /\ putc'.step = "right" /\ putc'.x = putc.x /\ putc'.y = putc.y /\ putc'.hit = putc.hit
        /\ putc' # NoChar
    BY <1>1, <2>1, NextPiece DEF NoChar
  <2>6. QED
    BY <1>1, <1>4, <1>8, <2>3, <2>4, <2>5, PieceFits
<1>9. CASE putc.step = "right"
  <2>1. /\ putc' = (IF col + 1 >= TERM_WIDTH THEN At("home") ELSE NoChar)
        /\ term' = [term EXCEPT !.col = col + 1]
    BY <1>2, <1>9 DEF Piece
  <2>2. col + 1 \in 0 .. TERM_WIDTH
    BY <1>2, <1>3, <1>9
  <2>3. /\ term'.total = term.total /\ term'.line = term.line
        /\ term'.col = col + 1 /\ term'.offset = term.offset
    BY <1>3, <2>1
  <2>4. Typed(term')
    BY <1>3, <2>1, <2>2 DEF Typed
  <2>5. Counted(term')
    BY <1>5, <1>6, <1>9, <2>3, <2>4
  <2>6. CASE col + 1 >= TERM_WIDTH
    <3>1. /\ putc'.step = "home" /\ putc'.x = putc.x /\ putc'.y = putc.y
          /\ putc'.hit = putc.hit /\ putc' # NoChar
      BY <1>1, <2>1, <2>6, NextPiece DEF NoChar
    <3>2. QED
      BY <1>1, <2>3, <2>4, <2>5, <3>1, PieceFits
  <2>7. CASE ~ (col + 1 >= TERM_WIDTH)
    <3>1. putc' = NoChar /\ term'.col # TERM_WIDTH
      BY <1>3, <2>1, <2>2, <2>3, <2>7
    <3>2. QED
      BY <1>1, <2>4, <2>5, <3>1 DEF TermFits, Caught
  <2>8. QED
    BY <2>6, <2>7
<1>10. CASE putc.step = "home"
  <2>1. putc' = At("next") /\ term' = [term EXCEPT !.col = 0]
    BY <1>2, <1>10 DEF Piece
  <2>3. /\ term'.total = term.total /\ term'.line = term.line
        /\ term'.col = 0 /\ term'.offset = term.offset
    BY <1>3, <2>1
  <2>4. Typed(term')
    BY <1>3, <2>1 DEF Typed
  <2>5. Counted(term')
    BY <1>5, <1>6, <1>10, <2>3, <2>4
  <2>6. /\ putc'.step = "next" /\ putc'.x = putc.x /\ putc'.y = putc.y
        /\ putc'.hit = putc.hit /\ putc' # NoChar
    BY <1>1, <2>1, NextPiece DEF NoChar
  <2>7. QED
    BY <1>1, <1>3, <2>3, <2>4, <2>5, <2>6, PieceFits
<1>11. CASE putc.step = "next"
  <2>1. putc' = [At("total") EXCEPT !.y = line + 1] /\ term' = [term EXCEPT !.line = line + 1]
    BY <1>2, <1>11 DEF Piece
  <2>2. line + 1 \in Nat
    OBVIOUS
  <2>3. term'.line = line + 1 /\ term'.col = term.col
    BY <1>3, <2>1
  <2>4. Typed(term')
    BY <1>3, <2>1, <2>2 DEF Typed
  <2>5. /\ putc'.step = "total" /\ putc'.x = putc.x /\ putc'.y = line + 1
        /\ putc'.hit = putc.hit /\ putc' # NoChar
    BY <1>1, <2>1, NextPiece DEF NoChar
  <2>6. putc.x \in 0 .. TERM_WIDTH - 1
    BY <1>1 DEF TermFits, Caught
  <2>7. Caught'
    BY <1>1, <2>2, <2>3, <2>5, <2>6 DEF Caught
  <2>8. term'.col # TERM_WIDTH
    BY <1>4, <1>11, <2>3
  <2>9. QED
    BY <1>1, <2>4, <2>5, <2>7, <2>8 DEF TermFits
<1>12. CASE putc.step = "total"
  <2>1. putc' = At("wipe") /\ term' = [term EXCEPT !.total = line + 1]
    BY <1>2, <1>12 DEF Piece
  <2>2. line + 1 \in Nat
    OBVIOUS
  <2>3. term'.line = term.line /\ term'.col = term.col
    BY <1>3, <2>1
  <2>4. Typed(term')
    BY <1>3, <2>1, <2>2 DEF Typed
  <2>5. /\ putc'.step = "wipe" /\ putc'.x = putc.x /\ putc'.y = putc.y
        /\ putc'.hit = putc.hit /\ putc' # NoChar
    BY <1>1, <2>1, NextPiece DEF NoChar
  <2>6. QED
    BY <1>1, <1>4, <1>12, <2>3, <2>4, <2>5, PieceFits
<1>13. CASE putc.step = "wipe"
  <2>1. putc' = At("latest") /\ term' = ClearLine(term, line)
    BY <1>2, <1>13 DEF Piece
  <2>2. Typed(term') /\ term'.line = term.line /\ term'.col = term.col
    BY <1>1, <2>1, CellsFit
  <2>3. /\ putc'.step = "latest" /\ putc'.x = putc.x /\ putc'.y = putc.y
        /\ putc'.hit = putc.hit /\ putc' # NoChar
    BY <1>1, <2>1, NextPiece DEF NoChar
  <2>4. QED
    BY <1>1, <1>4, <1>13, <2>2, <2>3, PieceFits
<1>14. CASE putc.step = "latest"
  <2>1. putc' = NoChar /\ term' = [term EXCEPT !.offset = 0]
    BY <1>2, <1>14 DEF Piece
  <2>2. Typed(term')
    BY <1>3, <2>1 DEF Typed
  <2>3. term'.offset = 0 /\ term'.line = term.line /\ term'.col = term.col /\ term'.line \in Nat
    BY <1>3, <2>1
  <2>4. Counted(term')
    BY <2>3, FirstLineIs DEF Counted
  <2>5. term'.col # TERM_WIDTH
    BY <1>4, <1>14, <2>3
  <2>6. QED
    BY <1>1, <2>1, <2>2, <2>4, <2>5 DEF TermFits, Caught
<1>15. QED
  BY <1>2, <1>7, <1>8, <1>9, <1>10, <1>11, <1>12, <1>13, <1>14 DEF Piece

LEMMA TermFitsKept ==
    ASSUME EditorInv', Modes, TermFits, [Next]_vars
    PROVE  TermFits'
<1>1. executing => term.col # TERM_WIDTH
  BY DEF TermFits
<1>2. TermPiece \/ TermStep(term, term')
  BY <1>1, TermMoves
<1>3. UNCHANGED session /\ (FbPiece \/ TermPiece \/ BeginChar \/ Disturb)
  BY StepKinds
<1>4. CASE TermPiece
  BY <1>4, TermPieceFits
<1>5. CASE BeginChar
  BY <1>5, BeginFits
<1>6. CASE FbPiece
  <2>1. session.framebuffer /\ UNCHANGED <<term, executing>>
    BY <1>6, PieceIs DEF FbPiece, shell
  <2>2. QED
    BY <1>3, <2>1 DEF TermFits, Caught
<1>7. CASE Disturb /\ ~TermPiece
  BY <1>2, <1>3, <1>7, HandlerFits
<1>8. QED
  BY <1>3, <1>4, <1>5, <1>6, <1>7

-----------------------------------------------------------------------------
(* The input row.                                                          *)

\* Between keys the terminal has the line and the cursor of the editor, and
\* inside redraw_input it has the empty line when no key has disturbed it.
RowMatches ==
    /\ ~executing /\ ~g_simple_mode /\ ~torn /\ main \in {"greet", "prompt"}
          => term.input = g_line /\ term.cursor = g_cursor
    /\ ~torn /\ main = "place" => term.input = <<>>

\* Redraw gives the terminal the line and the cursor of the editor.
LEMMA RedrawMatches ==
    ASSUME Typed(term), EditorInv', Redraw, main' \in {"greet", "prompt"}
    PROVE  ~ g_simple_mode' => term'.input = g_line' /\ term'.cursor = g_cursor'
<1>1. g_line' \in LinesOf(Str) /\ g_cursor' \in Nat /\ ~ (g_cursor' > Len(g_line'))
  <2>1. /\ LineFits(g_line') /\ g_cursor' \in 0 .. SHELL_LINE_MAX
        /\ g_cursor' > Len(g_line') => main' \in {"cursor", "lost"}
    BY DEF EditorInv
  <2>2. g_line' \in Seq(Str) /\ Len(g_line') < SHELL_LINE_MAX
    BY <2>1 DEF LineFits
  <2>3. g_line' \in LinesOf(Str)
    BY <2>2, LineIsSeq
  <2>4. QED
    BY <2>1, <2>3
<1>2. PICK line \in LinesOf(Str), cursor \in Nat :
         line = g_line' /\ cursor = g_cursor' /\ ~ (cursor > Len(line))
  BY <1>1
<1>3. PICK u : u = SetInputLine(term, line, cursor)
  OBVIOUS
<1>4. u.input = line /\ u.cursor = cursor
  BY <1>2, <1>3, InputRowIs
<1>5. QED
  BY <1>2, <1>3, <1>4 DEF Redraw

\* The pieces of a character leave the input row alone.
LEMMA PieceRow ==
    ASSUME Modes, TermFits, TermPiece
    PROVE  term'.input = term.input /\ term'.cursor = term.cursor
<1>1. Typed(term) /\ PutcOK /\ ~session.framebuffer /\ putc # NoChar
  BY DEF TermFits, Modes, TermPiece
<1>2. PICK col \in 0 .. TERM_WIDTH, line \in Nat :
         Piece(col, line) /\ (putc.step # "home" => col \in 0 .. TERM_WIDTH - 1)
  BY TermPieceIs
<1>3. CASE putc.step = "write"
  <2>1. term' = WriteCell(term, line, col, putc.c) /\ col \in 0 .. TERM_WIDTH - 1
    BY <1>2, <1>3 DEF Piece
  <2>2. putc.c \in Cells
    BY <1>1, <1>3 DEF PutcOK, Written, Cells
  <2>3. QED
    BY <1>1, <2>1, <2>2, CellsFit
<1>4. CASE term' = term \/ term' = ClearLine(term, line)
  BY <1>1, <1>4, CellsFit
<1>5. CASE \/ \E n : term' = [term EXCEPT !.col = n]
           \/ \E n : term' = [term EXCEPT !.line = n]
           \/ \E n : term' = [term EXCEPT !.total = n]
           \/ \E n : term' = [term EXCEPT !.offset = n]
  BY <1>1, <1>5 DEF Typed
<1>6. QED
  BY <1>2, <1>3, <1>4, <1>5 DEF Piece

LEMMA KeyRow ==
    ASSUME EditorInv', TermFits, RowMatches, NEW key, HandleKey(key), UNCHANGED g_simple_mode,
           ~executing', ~g_simple_mode', ~torn, main \in {"greet", "prompt"}, UNCHANGED main
    PROVE  term'.input = g_line' /\ term'.cursor = g_cursor'
<1>1. CASE Enter
  BY <1>1 DEF Enter
<1>2. CASE term' = ScrollLines(term, ScrollBy(key)) /\ UNCHANGED shell
  <2>1. ScrollBy(key) \in Int
    BY InputAssumption DEF ScrollBy
  <2>2. term'.input = term.input /\ term'.cursor = term.cursor
    BY <1>2, <2>1, OthersEffect DEF TermFits
  <2>3. QED
    BY <1>2, <2>2 DEF RowMatches, shell
<1>3. CASE Edit(key)
  <2>1. Redraw
    BY <1>3, Zenon DEF Edit
  <2>2. QED
    BY <2>1, RedrawMatches DEF TermFits
<1>4. QED
  BY <1>1, <1>2, <1>3, Zenon DEF HandleKey

LEMMA ShellInitRow ==
    ASSUME Modes, Marks, TermFits, RowMatches, ShellInit, ~torn
    PROVE  RowMatches'
<1>1. Intact /\ UNCHANGED torn /\ Typed(term)
  BY DEF ShellInit, EmptyLine, ZeroLen, ZeroCursor, ChooseMode, ReadArgs, StoreInput,
         PlaceCursor, MainStep, marks, Marks, TermFits
<1>2. CASE EmptyLine \/ ZeroLen \/ ZeroCursor \/ ReadArgs
  BY <1>2 DEF EmptyLine, ZeroLen, ZeroCursor, ReadArgs, MainStep, RowMatches
<1>3. CASE ChooseMode
  BY <1>3 DEF ChooseMode, MainStep, RowMatches
<1>4. CASE StoreInput
  <2>1. main' = "place" /\ args.len = 0
    BY <1>1, <1>4 DEF StoreInput, MainStep, Intact
  <2>2. PICK text \in [1 .. 0 -> Chars \cup {NUL}] : term' = [term EXCEPT !.input = text]
    BY <1>4, <2>1 DEF StoreInput
  <2>3. text = <<>>
    BY <2>2
  <2>4. term'.input = <<>>
    BY <1>1, <2>2, <2>3 DEF Typed
  <2>5. QED
    BY <2>1, <2>4 DEF RowMatches
<1>5. CASE PlaceCursor
  <2>1. /\ main = "place" /\ main' = "prompt" /\ args.len = 0 /\ args.cursor = 0
        /\ UNCHANGED <<g_line, g_cursor, executing>>
    BY <1>1, <1>5 DEF PlaceCursor, MainStep, Intact
  <2>2. g_line = <<>> /\ g_cursor = 0 /\ term.input = <<>>
    BY <1>1, <2>1 DEF Intact, RowMatches
  <2>3. term' = InputCursor(term, Min({args.cursor, args.len}))
    BY <1>5 DEF PlaceCursor
  <2>4. Min({args.cursor, args.len}) = 0
    <3>1. {args.cursor, args.len} = {0} /\ {0} \in SUBSET Nat /\ {0} # {}
      BY <2>1
    <3>2. Min({0}) \in {0}
      BY <3>1, MinIn
    <3>3. QED
      BY <3>1, <3>2
  <2>5. term'.input = <<>> /\ term'.cursor = 0
    <3>1. PICK n \in Nat : n = 0 /\ term' = InputCursor(term, n)
      BY <2>3, <2>4
    <3>2. InputCursor(term, n).input = term.input /\ InputCursor(term, n).cursor = n
      BY <1>1, OthersEffect, Zenon
    <3>3. QED
      BY <2>2, <3>1, <3>2
  <2>6. QED
    BY <2>1, <2>2, <2>5 DEF RowMatches
<1>6. QED
  BY <1>2, <1>3, <1>4, <1>5 DEF ShellInit

LEMMA RowKept ==
    ASSUME EditorInv, EditorInv', Modes, Modes', Marks, TermFits, RowMatches, [Next]_vars
    PROVE  RowMatches'
<1>1. CASE /\ UNCHANGED <<g_line, g_cursor, executing, g_simple_mode, main, torn>>
           /\ term'.input = term.input /\ term'.cursor = term.cursor
  BY <1>1 DEF RowMatches
<1>2. CASE UNCHANGED <<shell, g_simple_mode, main, torn, screens>>
  BY <1>1, <1>2 DEF shell, screens
<1>3. CASE UNCHANGED vars
  BY <1>2, <1>3 DEF vars, booting, marks
<1>4. ASSUME NEW key, Press(key)
      PROVE  RowMatches'
  <2>1. CASE UNCHANGED <<shell, main, putc, marks, screens>>
    BY <1>2, <1>4, <2>1 DEF Press, Sends, marks
  <2>2. CASE torn' = (torn \/ Exposed) /\ (torn \/ Exposed)
    BY <2>2 DEF RowMatches
  <2>3. CASE Derails(key) /\ main' = "lost"
    BY <2>3 DEF RowMatches
  <2>4. CASE /\ HandleKey(key) /\ UNCHANGED main
             /\ torn' = (torn \/ Exposed) /\ ~ (torn \/ Exposed)
    <3>1. main # "place" /\ UNCHANGED g_simple_mode
      BY <1>4, <2>4 DEF Exposed, Press, Sends
    <3>2. QED
      BY <2>4, <3>1, KeyRow DEF RowMatches
  <2>5. QED
    BY <1>4, <2>1, <2>2, <2>3, <2>4, Zenon DEF Press
<1>5. ASSUME NEW key, Release(key) \/ PressModifier(key)
      PROVE  RowMatches'
  BY <1>2, <1>5 DEF Release, PressModifier, Sends, marks
<1>6. CASE Prefix
  BY <1>2, <1>6 DEF Prefix, booting, marks
<1>7. ASSUME executing, executing', UNCHANGED <<main, torn>>
      PROVE  RowMatches'
  BY <1>7 DEF RowMatches, Marks, Exposed
<1>8. CASE ClearCommand
  BY <1>7, <1>8 DEF ClearCommand, shell, booting, marks
<1>9. CASE Return
  <2>1. torn' = Exposed /\ UNCHANGED <<main, g_simple_mode>>
    BY <1>9 DEF Return, booting
  <2>2. CASE g_simple_mode
    BY <2>1, <2>2 DEF RowMatches, Exposed
  <2>3. CASE ~ g_simple_mode
    <3>1. Redraw
      BY <1>9, <2>3 DEF Return
    <3>2. QED
      BY <2>1, <2>3, <3>1, RedrawMatches DEF RowMatches, Exposed, TermFits
  <2>4. QED
    BY <2>2, <2>3
<1>10. CASE BeginChar
  BY <1>2, <1>10 DEF BeginChar, marks
<1>11. CASE FbPiece \/ TermPiece
  <2>1. UNCHANGED <<shell, booting, marks>>
    BY <1>11, PieceIs
  <2>2. term'.input = term.input /\ term'.cursor = term.cursor
    BY <1>11, PieceRow DEF FbPiece
  <2>3. QED
    BY <1>1, <2>1, <2>2 DEF shell, booting, marks
<1>12. CASE ShellInit
  <2>1. CASE torn
    BY <1>12, <2>1 DEF ShellInit, EmptyLine, ZeroLen, ZeroCursor, ChooseMode, ReadArgs,
                       StoreInput, PlaceCursor, MainStep, marks, RowMatches
  <2>2. QED
    BY <1>12, <2>1, ShellInitRow
<1>13. ASSUME NEW c \in Chars \cup {LF, CR, BS}, Output(c)
       PROVE  RowMatches'
  BY <1>7, <1>13 DEF Output, shell, booting
<1>14. QED
  BY <1>3, <1>4, <1>5, <1>6, <1>8, <1>9, <1>10, <1>11, <1>12, <1>13, Zenon DEF Next

-----------------------------------------------------------------------------
(* The inductive invariant of the terminal.                                *)

\* Of the editor, kmain, the terminal, and the input row.
TermInv == EditorInv /\ Modes /\ Marks /\ TermFits /\ RowMatches

LEMMA TermInvAtFirst == Init => TermInv
<1>1. ASSUME Init PROVE TermInv
  <2>1. term.input = g_line /\ term.cursor = g_cursor /\ RowMatches
    BY <1>1 DEF Init, TerminalInit, RowMatches
  <2>2. term = TerminalInit /\ TermOK(term) /\ putc = NoChar
    BY <1>1, TermAtFirst DEF Init
  <2>3. TermFits
    <3>1. term.col # TERM_WIDTH
      BY <2>2, TerminalAssumption DEF TermOK, Typed
    <3>2. QED
      BY <2>2, <3>1 DEF TermOK, TermFits, Caught
  <2>4. QED
    BY <1>1, <2>1, <2>3, InitEstablishes, ModesAtFirst, MarksAtFirst DEF TermInv
<1>2. QED
  BY <1>1

LEMMA TermInvKept == TermInv /\ [Next]_vars => TermInv'
<1>1. ASSUME TermInv, [Next]_vars PROVE TermInv'
  <2>1. EditorInv' /\ Modes' /\ Marks'
    BY <1>1, StepKeeps, ModesKept, MarksKept DEF TermInv
  <2>2. TermFits'
    BY <1>1, <2>1, TermFitsKept DEF TermInv
  <2>3. RowMatches'
    BY <1>1, <2>1, RowKept DEF TermInv
  <2>4. QED
    BY <2>1, <2>2, <2>3 DEF TermInv
<1>2. QED
  BY <1>1

(***************************************************************************)
(* The editor's line, what kmain has yet to do, and the terminal's ring,   *)
(* counters and window belong together in every reachable state, also in   *)
(* the middle of kmain's characters and of shell_init, and the input row   *)
(* is the editor's line whenever that is what the screen is for.           *)
(***************************************************************************)
THEOREM TerminalInvariance == Spec => []TermInv
BY TermInvAtFirst, TermInvKept, PTL DEF Spec

(***************************************************************************)
(* On the terminal, whenever the shell waits for a key, the input row has  *)
(* the line being edited and its cursor: after editing, browsing the       *)
(* history, scrolling, output and commands, but for what a key that came   *)
(* into shell_init leaves until the next Enter.                            *)
(***************************************************************************)
THEOREM RowIsShown == Spec => []InputShown
<1>1. TermInv => InputShown
  BY DEF TermInv, RowMatches, InputShown
<1>2. QED
  BY <1>1, TerminalInvariance, PTL

-----------------------------------------------------------------------------
(* The rest of a character that kmain is printing.                         *)

\* A terminal's record, of whatever fields.
Rec(t) ==
    t = [lines |-> t.lines, total |-> t.total, line |-> t.line, col |-> t.col,
         offset |-> t.offset, input |-> t.input, cursor |-> t.cursor]

\* The same but for the input row.
Alike(t, u) ==
    /\ u.lines = t.lines /\ u.total = t.total /\ u.line = t.line /\ u.col = t.col
    /\ u.offset = t.offset

\* The same rows in the same window.
SameRows(t, u) ==
    u.lines = t.lines /\ u.total = t.total /\ u.line = t.line /\ u.offset = t.offset

\* Blanking a row, and writing in it.
Blanked(lines, n)      == [lines EXCEPT ![SlotOf(n)] = BlankLine]
Filled(lines, n, x, c) == [lines EXCEPT ![SlotOf(n)] = [lines[SlotOf(n)] EXCEPT ![x] = c]]

LEMMA LinesSet ==
    ASSUME NEW t, Rec(t), NEW lines, NEW u, u = [t EXCEPT !.lines = lines]
    PROVE  /\ Rec(u) /\ u.lines = lines /\ u.total = t.total /\ u.line = t.line
           /\ u.col = t.col /\ u.offset = t.offset
BY DEF Rec

LEMMA ClearedIs ==
    ASSUME NEW t, Rec(t), NEW n
    PROVE  LET u == ClearLine(t, n)
           IN  /\ Rec(u) /\ u.lines = Blanked(t.lines, n)
               /\ u.total = t.total /\ u.line = t.line
               /\ u.col = t.col /\ u.offset = t.offset
<1>1. ClearLine(t, n) = [t EXCEPT !.lines = Blanked(t.lines, n)]
  BY DEF ClearLine, Blanked
<1>2. QED
  BY <1>1, LinesSet

LEMMA WrittenIs ==
    ASSUME NEW t, Rec(t), NEW n, NEW x, NEW c
    PROVE  LET u == WriteCell(t, n, x, c)
           IN  /\ Rec(u) /\ u.lines = Filled(t.lines, n, x, c)
               /\ u.total = t.total /\ u.line = t.line
               /\ u.col = t.col /\ u.offset = t.offset
<1>1. WriteCell(t, n, x, c) = [t EXCEPT !.lines = Filled(t.lines, n, x, c)]
  BY DEF WriteCell, Filled, Rec
<1>2. PICK u : u = [t EXCEPT !.lines = Filled(t.lines, n, x, c)]
  OBVIOUS
<1>3. /\ Rec(u) /\ u.lines = Filled(t.lines, n, x, c) /\ u.total = t.total /\ u.line = t.line
      /\ u.col = t.col /\ u.offset = t.offset
  BY <1>2, LinesSet
<1>4. QED
  BY <1>1, <1>2, <1>3

LEMMA LinefeedIs ==
    ASSUME NEW t, Rec(t)
    PROVE  LET u == Linefeed(t)
           IN  /\ Rec(u) /\ u.lines = Blanked(t.lines, t.line + 1)
               /\ u.total = t.line + 2 /\ u.line = t.line + 1 /\ u.col = 0 /\ u.offset = 0
<1> DEFINE w == [t EXCEPT !.col = 0, !.line = @ + 1, !.total = t.line + 2, !.offset = 0]
<1>1. w = [lines |-> t.lines, total |-> t.line + 2, line |-> t.line + 1, col |-> 0,
           offset |-> 0, input |-> t.input, cursor |-> t.cursor]
  <2> DEFINE R(n, l, c, o) == [lines |-> t.lines, total |-> n, line |-> l, col |-> c,
                               offset |-> o, input |-> t.input, cursor |-> t.cursor]
             w1 == [t EXCEPT !.col = 0]
             w2 == [w1 EXCEPT !.line = @ + 1]
             w3 == [w2 EXCEPT !.total = t.line + 2]
  <2>1. t = R(t.total, t.line, t.col, t.offset)
    BY DEF Rec
  <2>2. w1 = R(t.total, t.line, 0, t.offset)
    BY <2>1
  <2> HIDE DEF w1
  <2>3. w2 = R(t.total, t.line + 1, 0, t.offset)
    BY <2>2
  <2> HIDE DEF w2
  <2>4. w3 = R(t.line + 2, t.line + 1, 0, t.offset)
    BY <2>3
  <2> HIDE DEF w3
  <2>5. [w3 EXCEPT !.offset = 0] = R(t.line + 2, t.line + 1, 0, 0)
    BY <2>4
  <2>6. w = [w3 EXCEPT !.offset = 0]
    BY DEF w1, w2, w3
  <2>7. QED
    BY <2>5, <2>6
<1>2. Linefeed(t) = ClearLine(w, t.line + 1)
  BY Zenon DEF Linefeed
<1> HIDE DEF w
<1>3. /\ Rec(w) /\ w.lines = t.lines /\ w.total = t.line + 2 /\ w.line = t.line + 1
      /\ w.col = 0 /\ w.offset = 0
  BY <1>1 DEF Rec
<1>4. QED
  BY <1>2, <1>3, ClearedIs

\* One column on.
RightOf(t) == Wrapped([t EXCEPT !.col = @ + 1])

\* What is left of a character, by the piece that comes next.
LEMMA RestIs ==
    ASSUME NEW t, NEW c
    PROVE  /\ Rest(t, c, "clear") = Advance(t, c)
           /\ Rest(t, c, "write") = RightOf(WriteCell(t, t.line, t.col, c))
           /\ Rest(t, c, "right") = RightOf(t)
           /\ Rest(t, c, "home") = Linefeed(t) /\ Rest(t, c, "next") = Linefeed(t)
BY DEF Rest, RightOf

\* The rows and the window when the rest of a line feed is done.
LEMMA RestRows ==
    ASSUME NEW t, Rec(t), NEW c
    PROVE  /\ \A s \in {"home", "next"} :
                 LET u == Rest(t, c, s)
                 IN  /\ u.lines = Blanked(t.lines, t.line + 1)
                     /\ u.total = t.line + 2 /\ u.line = t.line + 1 /\ u.offset = 0
           /\ LET u == Rest(t, c, "total")
              IN  /\ u.lines = Blanked(t.lines, t.line)
                  /\ u.total = t.line + 1 /\ u.line = t.line /\ u.offset = 0
           /\ LET u == Rest(t, c, "wipe")
              IN  /\ u.lines = Blanked(t.lines, t.line)
                  /\ u.total = t.total /\ u.line = t.line /\ u.offset = 0
           /\ LET u == Rest(t, c, "latest")
              IN  /\ u.lines = t.lines /\ u.total = t.total /\ u.line = t.line /\ u.offset = 0
<1>1. ASSUME NEW v, Rec(v), NEW u, u = [v EXCEPT !.offset = 0]
      PROVE  u.lines = v.lines /\ u.total = v.total /\ u.line = v.line /\ u.offset = 0
  BY <1>1 DEF Rec
<1>2. ASSUME NEW s \in {"home", "next"}
      PROVE  LET u == Rest(t, c, s)
             IN  /\ u.lines = Blanked(t.lines, t.line + 1)
                 /\ u.total = t.line + 2 /\ u.line = t.line + 1 /\ u.offset = 0
  <2>1. Rest(t, c, s) = Linefeed(t)
    BY RestIs
  <2>2. QED
    BY <2>1, LinefeedIs
<1>3. LET u == Rest(t, c, "total")
      IN  /\ u.lines = Blanked(t.lines, t.line)
          /\ u.total = t.line + 1 /\ u.line = t.line /\ u.offset = 0
  <2>1. PICK v : v = [t EXCEPT !.total = t.line + 1]
    OBVIOUS
  <2>2. Rec(v) /\ v.lines = t.lines /\ v.line = t.line /\ v.total = t.line + 1
    BY <2>1 DEF Rec
  <2>3. PICK w : w = ClearLine(v, t.line)
    OBVIOUS
  <2>4. /\ Rec(w) /\ w.lines = Blanked(t.lines, t.line)
        /\ w.total = t.line + 1 /\ w.line = t.line
    BY <2>2, <2>3, ClearedIs
  <2>5. Rest(t, c, "total") = [w EXCEPT !.offset = 0]
    BY <2>1, <2>3 DEF Rest
  <2>6. QED
    BY <1>1, <2>4, <2>5
<1>4. LET u == Rest(t, c, "wipe")
      IN  /\ u.lines = Blanked(t.lines, t.line)
          /\ u.total = t.total /\ u.line = t.line /\ u.offset = 0
  <2>1. PICK w : w = ClearLine(t, t.line)
    OBVIOUS
  <2>2. /\ Rec(w) /\ w.lines = Blanked(t.lines, t.line)
        /\ w.total = t.total /\ w.line = t.line
    BY <2>1, ClearedIs
  <2>3. Rest(t, c, "wipe") = [w EXCEPT !.offset = 0]
    BY <2>1 DEF Rest
  <2>4. QED
    BY <1>1, <2>2, <2>3
<1>5. LET u == Rest(t, c, "latest")
      IN  /\ u.lines = t.lines /\ u.total = t.total /\ u.line = t.line /\ u.offset = 0
  <2>1. Rest(t, c, "latest") = [t EXCEPT !.offset = 0]
    BY DEF Rest
  <2>2. QED
    BY <1>1, <2>1
<1>6. QED
  BY <1>2, <1>3, <1>4, <1>5

LEMMA ColumnOn ==
    ASSUME NEW t, Rec(t)
    PROVE  \E u : /\ RightOf(t) = Wrapped(u)
                  /\ Rec(u) /\ u.lines = t.lines /\ u.total = t.total /\ u.line = t.line
                  /\ u.col = t.col + 1 /\ u.offset = t.offset
<1>1. PICK u : u = [t EXCEPT !.col = @ + 1]
  OBVIOUS
<1>2. /\ Rec(u) /\ u.lines = t.lines /\ u.total = t.total /\ u.line = t.line
      /\ u.col = t.col + 1 /\ u.offset = t.offset
  BY <1>1 DEF Rec
<1>3. RightOf(t) = Wrapped(u)
  BY <1>1 DEF RightOf
<1>4. QED
  BY <1>2, <1>3

\* What is printed on terminals that are alike leaves them alike.
LEMMA FeedAlike ==
    ASSUME NEW t, NEW u, Rec(t), Rec(u), Alike(t, u)
    PROVE  Alike(Linefeed(t), Linefeed(u))
BY LinefeedIs DEF Alike

LEMMA RightAlike ==
    ASSUME NEW t, NEW u, Rec(t), Rec(u), Alike(t, u)
    PROVE  Alike(RightOf(t), RightOf(u))
<1>1. PICK a : /\ RightOf(t) = Wrapped(a)
               /\ Rec(a) /\ a.lines = t.lines /\ a.total = t.total /\ a.line = t.line
               /\ a.col = t.col + 1 /\ a.offset = t.offset
  BY ColumnOn
<1>2. PICK b : /\ RightOf(u) = Wrapped(b)
               /\ Rec(b) /\ b.lines = u.lines /\ b.total = u.total /\ b.line = u.line
               /\ b.col = u.col + 1 /\ b.offset = u.offset
  BY ColumnOn
<1>3. Alike(a, b)
  BY <1>1, <1>2 DEF Alike
<1>4. Alike(Linefeed(a), Linefeed(b))
  BY <1>1, <1>2, <1>3, FeedAlike
<1>5. Alike(Wrapped(a), Wrapped(b))
  BY <1>3, <1>4 DEF Wrapped, Alike
<1>6. QED
  BY <1>1, <1>2, <1>5

LEMMA WriteAlike ==
    ASSUME NEW t, NEW u, Rec(t), Rec(u), Alike(t, u), NEW c
    PROVE  Alike(RightOf(WriteCell(t, t.line, t.col, c)), RightOf(WriteCell(u, u.line, u.col, c)))
<1>1. PICK v : v = WriteCell(t, t.line, t.col, c)
  OBVIOUS
<1>2. PICK w : w = WriteCell(u, u.line, u.col, c)
  OBVIOUS
<1>3. Rec(v) /\ Rec(w) /\ Alike(v, w)
  BY <1>1, <1>2, WrittenIs DEF Alike
<1>4. QED
  BY <1>1, <1>2, <1>3, RightAlike

\* A new row is blanked when its first character comes.
FirstOf(t) == IF t.col = 0 THEN ClearLine(t, t.line) ELSE t

LEMMA FirstIs ==
    ASSUME NEW t, Rec(t)
    PROVE  LET b == FirstOf(t)
           IN  /\ Rec(b) /\ b.lines = IF t.col = 0 THEN Blanked(t.lines, t.line) ELSE t.lines
               /\ b.col = t.col /\ b.line = t.line /\ b.offset = t.offset /\ b.total = t.total
BY ClearedIs DEF FirstOf

LEMMA AdvanceIs ==
    ASSUME NEW t, Rec(t), NEW c
    PROVE  LET b == FirstOf(t)
           IN  Advance(t, c) = RightOf(WriteCell(b, b.line, b.col, c))
<1>1. PICK b : b = FirstOf(t)
  OBVIOUS
<1>2. Rec(b) /\ b.col = t.col /\ b.line = t.line
  BY <1>1, FirstIs
<1>3. PICK w : w = WriteCell(b, t.line, t.col, c)
  OBVIOUS
<1>4. Rec(w) /\ w.col = t.col
  BY <1>2, <1>3, WrittenIs
<1>5. PICK put : put = [w EXCEPT !.col = t.col + 1]
  OBVIOUS
<1>6. put = [w EXCEPT !.col = @ + 1]
  BY <1>4, <1>5
<1>7. Advance(t, c) = IF put.col >= TERM_WIDTH THEN Linefeed(put) ELSE put
  <2>1. put = [WriteCell(FirstOf(t), t.line, t.col, c) EXCEPT !.col = t.col + 1]
    BY <1>1, <1>3, <1>5
  <2>2. QED
    BY <2>1, Zenon DEF Advance, FirstOf
<1>8. Advance(t, c) = RightOf(w)
  BY <1>6, <1>7 DEF RightOf, Wrapped
<1>9. QED
  BY <1>1, <1>2, <1>3, <1>8

LEMMA RestAlike ==
    ASSUME NEW t, NEW u, Rec(t), Rec(u), Alike(t, u), NEW c, NEW s \in TermSteps
    PROVE  SameRows(Rest(t, c, s), Rest(u, c, s))
<1>1. ASSUME NEW v, NEW w, Alike(v, w) PROVE SameRows(v, w)
  BY <1>1 DEF Alike, SameRows
<1>2. CASE s = "clear"
  <2>1. PICK a : a = FirstOf(t)
    OBVIOUS
  <2>2. PICK b : b = FirstOf(u)
    OBVIOUS
  <2>3. Rec(a) /\ Rec(b) /\ Alike(a, b)
    BY <2>1, <2>2, FirstIs DEF Alike
  <2>4. /\ Advance(t, c) = RightOf(WriteCell(a, a.line, a.col, c))
        /\ Advance(u, c) = RightOf(WriteCell(b, b.line, b.col, c))
    BY <2>1, <2>2, AdvanceIs
  <2>5. Alike(Advance(t, c), Advance(u, c))
    BY <2>3, <2>4, WriteAlike
  <2>6. QED
    BY <1>1, <1>2, <2>5, RestIs
<1>3. CASE s = "write"
  BY <1>1, <1>3, WriteAlike, RestIs
<1>4. CASE s = "right"
  BY <1>1, <1>4, RightAlike, RestIs
<1>5. CASE s \in {"home", "next"}
  BY <1>1, <1>5, FeedAlike, RestIs
<1>6. CASE s = "total"
  BY <1>6, RestRows DEF Alike, SameRows
<1>7. CASE s = "wipe"
  BY <1>7, RestRows DEF Alike, SameRows
<1>8. CASE s = "latest"
  BY <1>8, RestRows DEF Alike, SameRows
<1>9. QED
  BY <1>2, <1>3, <1>4, <1>5, <1>6, <1>7, <1>8 DEF TermSteps

-----------------------------------------------------------------------------
(* The refinement of Scrollback.                                           *)

\* What Scrollback says of the rows kept and the window, in the terms above.
LEMMA AbstractIs ==
    /\ \A n : S!View(n) = ViewOf(Kept(Settled), n)
    /\ S!Init <=> Kept(Settled) = <<BlankLine>> /\ Shown(Settled) = ViewOf(Kept(Settled), 0)
    /\ S!vars = <<Kept(Settled), Shown(Settled)>>
BY DEF S!View, ViewOf, Kept, S!Init, S!vars

\* A step of Scrollback or none, in the same terms.
AbsWrite(t, u) == \E text \in Rows, n \in 0 .. TERM_SCROLLBACK_LINES :
    /\ Shown(t) = ViewOf(Kept(t), n)
    /\ Kept(u) = NewestOf(Kept(t), text)
    /\ Shown(u) = ViewOf(Kept(u), n)
AbsNewLine(t, u) == \E text \in Rows :
    /\ Kept(u) = NextRow(Kept(t), text)
    /\ Shown(u) = ViewOf(Kept(u), 0)
AbsClear(u) == Kept(u) = <<BlankLine>> /\ Shown(u) = ViewOf(Kept(u), 0)
AbsScroll(t, u) ==
    /\ Kept(u) = Kept(t)
    /\ \E n \in 0 .. TERM_SCROLLBACK_LINES : Shown(u) = ViewOf(Kept(t), n)
AbsNext(t, u) ==
    \/ AbsWrite(t, u) \/ AbsNewLine(t, u) \/ AbsClear(u) \/ AbsScroll(t, u)
    \/ Kept(u) = Kept(t) /\ Shown(u) = Shown(t)

LEMMA AbstractSteps ==
    ASSUME AbsNext(Settled, Settled')
    PROVE  [S!Next]_(S!vars)
<1>1. ASSUME AbsWrite(Settled, Settled') PROVE S!Write
  BY <1>1 DEF AbsWrite, S!Write, S!View, ViewOf, Kept, S!Newest, NewestOf, S!Front, Front
<1>2. ASSUME AbsNewLine(Settled, Settled') PROVE S!NewLine
  BY <1>2 DEF AbsNewLine, S!NewLine, S!View, ViewOf, Kept, S!Newest, NewestOf, S!Front, Front,
              NextRow
<1>3. ASSUME AbsClear(Settled') PROVE S!Clear
  BY <1>3 DEF AbsClear, S!Clear, S!View, ViewOf, Kept
<1>4. ASSUME AbsScroll(Settled, Settled') PROVE S!Scroll
  BY <1>4 DEF AbsScroll, S!Scroll, S!View, ViewOf, Kept
<1>5. ASSUME Kept(Settled') = Kept(Settled), Shown(Settled') = Shown(Settled)
      PROVE  UNCHANGED S!vars
  BY <1>5 DEF S!vars, Kept
<1>6. QED
  BY <1>1, <1>2, <1>3, <1>4, <1>5 DEF AbsNext, S!Next

LEMMA OneBlankLine ==
    ASSUME NEW t, TermOK(t), t.line = 0, t.offset = 0, t.lines = [s \in Slots |-> BlankLine]
    PROVE  Kept(t) = <<BlankLine>> /\ Shown(t) = ViewOf(Kept(t), 0)
<1>1. FirstLine(t) = 0
  BY SlotsOfLines DEF TermOK, FirstLine
<1>2. Len(Kept(t)) = 1 /\ Kept(t)[1] = t.lines[SlotOf(0)] /\ Kept(t) \in Seq(Rows)
  <2>1. Len(Kept(t)) = 1 /\ Kept(t) \in Seq(Rows)
    <3>1. t.line - FirstLine(t) + 1 = 1
      BY <1>1
    <3>2. QED
      BY <3>1, KeptIs
  <2>2. 1 \in 1 .. t.line - FirstLine(t) + 1 /\ FirstLine(t) + 1 - 1 = 0
    BY <1>1
  <2>3. Kept(t)[1] = t.lines[SlotOf(0)]
    BY <2>2, KeptIs
  <2>4. QED
    BY <2>1, <2>3
<1>3. SlotOf(0) \in Slots
  BY SlotsOfLines
<1>4. Kept(t)[1] = BlankLine
  BY <1>2, <1>3
<1>5. Kept(t) = <<BlankLine>>
  BY <1>2, <1>4
<1>6. QED
  BY <1>5, ShownIsView

LEMMA RowsStay ==
    ASSUME NEW t, NEW u, SameRows(t, u)
    PROVE  AbsNext(t, u)
<1>1. FirstLine(u) = FirstLine(t)
  BY DEF SameRows, FirstLine
<1>2. Kept(u) = Kept(t) /\ Shown(u) = Shown(t)
  BY <1>1 DEF SameRows, Kept, Shown
<1>3. QED
  BY <1>2 DEF AbsNext

\* Each function of the terminal is a step of Scrollback, or none.
LEMMA TermImplements ==
    ASSUME NEW t, NEW u, TermOK(t), TermOK(u), TermStep(t, u)
    PROVE  AbsNext(t, u)
<1>1. Shown(t) = ViewOf(Kept(t), t.offset) /\ Shown(u) = ViewOf(Kept(u), u.offset)
  BY ShownIsView
<1>2. t.offset \in 0 .. TERM_SCROLLBACK_LINES /\ u.offset \in 0 .. TERM_SCROLLBACK_LINES
  BY FirstLineIs, SlotsOfLines DEF TermOK, Typed, Counted
<1>3. Typed(t) /\ Counted(t) /\ t.total = t.line + 1 /\ t.col < TERM_WIDTH
  BY DEF TermOK
<1>4. CASE u = t
  BY <1>4, RowsStay DEF SameRows
<1>5. CASE \E text \in LinesOf(Str) : u = [t EXCEPT !.input = text]
  <2>1. SameRows(t, u)
    BY <1>3, <1>5 DEF Typed, SameRows
  <2>2. QED
    BY <2>1, RowsStay
<1>6. CASE \E cursor \in Nat : u = InputCursor(t, cursor)
  <2>1. PICK cursor \in Nat : u = InputCursor(t, cursor)
    BY <1>6
  <2>2. LET v == InputCursor(t, cursor)
        IN  /\ v.lines = t.lines /\ v.total = t.total /\ v.line = t.line
            /\ Counted(t) /\ t.total = t.line + 1 => v.offset = t.offset
    BY <1>3, OthersEffect
  <2>3. SameRows(t, u)
    BY <1>3, <2>1, <2>2 DEF SameRows
  <2>4. QED
    BY <2>3, RowsStay
<1>7. CASE \E line \in LinesOf(Str), cursor \in Nat : u = SetInputLine(t, line, cursor)
  <2>1. PICK line \in LinesOf(Str), cursor \in Nat : u = SetInputLine(t, line, cursor)
    BY <1>7
  <2>2. LET v == SetInputLine(t, line, cursor)
        IN  /\ v.lines = t.lines /\ v.total = t.total /\ v.line = t.line
            /\ Counted(t) /\ t.total = t.line + 1 => v.offset = t.offset
    BY <1>3, OthersEffect
  <2>3. SameRows(t, u)
    BY <1>3, <2>1, <2>2 DEF SameRows
  <2>4. QED
    BY <2>3, RowsStay
<1>8. CASE \E c \in Chars \cup {LF, CR, BS} : (t.col # TERM_WIDTH \/ c = LF) /\ u = PutChar(t, c)
  <2>1. RowWritten(t, u) \/ RowEnded(t, u)
    BY <1>3, <1>8, PutCharEffect
  <2>2. CASE RowWritten(t, u)
    <3>1. \E text \in Rows : Kept(u) = NewestOf(Kept(t), text)
      BY <2>2, WriteMaps
    <3>2. u.offset = t.offset
      BY <2>2 DEF RowWritten
    <3>3. QED
      BY <1>1, <1>2, <3>1, <3>2 DEF AbsNext, AbsWrite
  <2>3. CASE RowEnded(t, u)
    <3>1. \E text \in Rows : Kept(u) = NextRow(Kept(t), text)
      BY <2>3, NewLineMaps
    <3>2. u.offset = 0
      BY <2>3 DEF RowEnded
    <3>3. QED
      BY <1>1, <3>1, <3>2 DEF AbsNext, AbsNewLine
  <2>4. QED
    BY <2>1, <2>2, <2>3
<1>9. CASE \E delta \in Int : u = ScrollLines(t, delta)
  <2>1. PICK delta \in Int : u = ScrollLines(t, delta)
    BY <1>9
  <2>2. LET v == ScrollLines(t, delta)
        IN  v.lines = t.lines /\ v.line = t.line /\ v.total = t.total
    BY <1>3, OthersEffect
  <2>3. Kept(u) = Kept(t)
    BY <2>1, <2>2 DEF Kept, FirstLine
  <2>4. QED
    BY <1>1, <1>2, <2>3 DEF AbsNext, AbsScroll
<1>10. CASE u = ClearScrollback(t)
  <2>1. LET v == ClearScrollback(t)
        IN  v.lines = [s \in Slots |-> BlankLine] /\ v.line = 0 /\ v.offset = 0
    BY <1>3, OthersEffect
  <2>2. QED
    BY <1>10, <2>1, OneBlankLine DEF AbsNext, AbsClear
<1>11. QED
  BY <1>4, <1>5, <1>6, <1>7, <1>8, <1>9, <1>10 DEF TermStep

\* A piece of a character of kmain's that no key has come into.
LEMMA PieceRests ==
    ASSUME Modes, TermFits, TermPiece, ~putc.hit
    PROVE  SameRows(Settled, Settled')
<1>1. /\ ~session.framebuffer /\ putc # NoChar /\ UNCHANGED session /\ PutcOK
      /\ Rec(term) /\ Rec(term') /\ term.line \in Nat
  <2>1. Typed(term) /\ Typed(term')
    BY TermPieceFits DEF TermFits
  <2>2. Rec(term) /\ Rec(term') /\ term.line \in Nat
    BY <2>1 DEF Typed, Rec
  <2>3. QED
    BY <2>2, TermPieceIs DEF Modes
<1>2. PICK col \in 0 .. TERM_WIDTH, line \in Nat :
         /\ Piece(col, line)
         /\ line = term.line
         /\ putc.step \notin {"clear", "write", "right"} \/ col = term.col
  BY TermPieceIs
<1>3. Settled = Rest(term, putc.c, putc.step)
  BY <1>1 DEF Settled
<1>4. ASSUME NEW s, putc' = At(s), s # "none"
      PROVE  Settled' = Rest(term', putc.c, s)
  <2>1. putc'.step = s /\ putc'.c = putc.c
    BY <1>1, <1>4, NextPiece
  <2>2. putc' # NoChar
    BY <1>4, <2>1 DEF NoChar
  <2>3. QED
    BY <1>1, <2>1, <2>2 DEF Settled
<1>5. \A t : SameRows(t, t)
  BY DEF SameRows
<1>6. CASE putc.step = "clear"
  <2>1. putc' = At("write") /\ term' = FirstOf(term)
    BY <1>2, <1>6 DEF Piece, FirstOf
  <2>2. Settled' = RightOf(WriteCell(term', term'.line, term'.col, putc.c))
    BY <1>4, <2>1, RestIs
  <2>3. Settled = RightOf(WriteCell(term', term'.line, term'.col, putc.c))
    BY <1>1, <1>3, <1>6, <2>1, RestIs, AdvanceIs
  <2>4. QED
    BY <1>5, <2>2, <2>3
<1>7. CASE putc.step = "write"
  <2>1. putc' = At("right") /\ term' = WriteCell(term, term.line, term.col, putc.c)
    BY <1>2, <1>7 DEF Piece
  <2>2. Settled' = RightOf(term')
    BY <1>4, <2>1, RestIs
  <2>3. Settled = RightOf(term')
    BY <1>3, <1>7, <2>1, RestIs
  <2>4. QED
    BY <1>5, <2>2, <2>3
<1>8. CASE putc.step = "right"
  <2>1. /\ putc' = IF term.col + 1 >= TERM_WIDTH THEN At("home") ELSE NoChar
        /\ term' = [term EXCEPT !.col = @ + 1]
    BY <1>2, <1>8 DEF Piece
  <2>2. term'.col = term.col + 1
    BY <1>1, <2>1 DEF Rec
  <2>3. Settled = Wrapped(term')
    BY <1>3, <1>8, <2>1, RestIs DEF RightOf
  <2>4. Settled' = Wrapped(term')
    <3>1. CASE term.col + 1 >= TERM_WIDTH
      <4>1. Settled' = Linefeed(term')
        BY <1>4, <2>1, <3>1, RestIs
      <4>2. QED
        BY <2>2, <3>1, <4>1 DEF Wrapped
    <3>2. CASE ~ (term.col + 1 >= TERM_WIDTH)
      <4>1. Settled' = term'
        BY <2>1, <3>2 DEF Settled
      <4>2. QED
        BY <2>2, <3>2, <4>1 DEF Wrapped
    <3>3. QED
      BY <3>1, <3>2
  <2>5. QED
    BY <1>5, <2>3, <2>4
<1>9. CASE putc.step = "home"
  <2>1. putc' = At("next") /\ term' = [term EXCEPT !.col = 0]
    BY <1>2, <1>9 DEF Piece
  <2>2. term'.lines = term.lines /\ term'.line = term.line
    BY <1>1, <2>1 DEF Rec
  <2>3. Settled' = Rest(term', putc.c, "next")
    BY <1>4, <2>1
  <2>4. QED
    BY <1>1, <1>3, <1>9, <2>2, <2>3, RestRows DEF SameRows
<1>10. CASE putc.step = "next"
  <2>1. putc' = [At("total") EXCEPT !.y = line + 1] /\ term' = [term EXCEPT !.line = term.line + 1]
    BY <1>2, <1>10 DEF Piece
  <2>2. term'.lines = term.lines /\ term'.line = term.line + 1
    BY <1>1, <2>1 DEF Rec
  <2>3. Settled' = Rest(term', putc.c, "total")
    <3>1. putc'.step = "total" /\ putc'.c = putc.c
      BY <1>1, <2>1, NextPiece
    <3>2. putc' # NoChar
      BY <3>1 DEF NoChar
    <3>3. QED
      BY <1>1, <3>1, <3>2 DEF Settled
  <2>4. (term.line + 1) + 1 = term.line + 2
    BY <1>1
  <2>5. QED
    BY <1>1, <1>3, <1>10, <2>2, <2>3, <2>4, RestRows DEF SameRows
<1>11. CASE putc.step = "total"
  <2>1. putc' = At("wipe") /\ term' = [term EXCEPT !.total = term.line + 1]
    BY <1>2, <1>11 DEF Piece
  <2>2. term'.lines = term.lines /\ term'.line = term.line /\ term'.total = term.line + 1
    BY <1>1, <2>1 DEF Rec
  <2>3. Settled' = Rest(term', putc.c, "wipe")
    BY <1>4, <2>1
  <2>4. QED
    BY <1>1, <1>3, <1>11, <2>2, <2>3, RestRows DEF SameRows
<1>12. CASE putc.step = "wipe"
  <2>1. putc' = At("latest") /\ term' = ClearLine(term, term.line)
    BY <1>2, <1>12 DEF Piece
  <2>2. /\ term'.lines = Blanked(term.lines, term.line)
        /\ term'.line = term.line /\ term'.total = term.total
    BY <1>1, <2>1, ClearedIs
  <2>3. Settled' = Rest(term', putc.c, "latest")
    BY <1>4, <2>1
  <2>4. QED
    BY <1>1, <1>3, <1>12, <2>2, <2>3, RestRows DEF SameRows
<1>13. CASE putc.step = "latest"
  <2>1. putc' = NoChar /\ term' = [term EXCEPT !.offset = 0]
    BY <1>2, <1>13 DEF Piece
  <2>2. /\ term'.lines = term.lines /\ term'.line = term.line /\ term'.total = term.total
        /\ term'.offset = 0
    BY <1>1, <2>1 DEF Rec
  <2>3. Settled' = term'
    BY <2>1 DEF Settled
  <2>4. QED
    BY <1>1, <1>3, <1>13, <2>2, <2>3, RestRows DEF SameRows
<1>14. QED
  BY <1>2, <1>6, <1>7, <1>8, <1>9, <1>10, <1>11, <1>12, <1>13, Zenon DEF Piece

\* A character of kmain's counts as printed when it begins.
LEMMA BeginRests ==
    ASSUME Modes, TermFits, BeginChar, ~Spoilt
    PROVE  AbsNext(Settled, Settled')
<1>1. putc = NoChar /\ todo # <<>> /\ UNCHANGED <<session, term>> /\ Settled = term
  BY DEF BeginChar, screens, Settled
<1>2. CASE session.framebuffer
  <2>1. Settled' = term
    BY <1>1, <1>2 DEF Settled
  <2>2. QED
    BY <1>1, <2>1, RowsStay DEF SameRows
<1>3. CASE ~ session.framebuffer
  <2> DEFINE c == Head(todo)
             s == IF c = LF THEN "home" ELSE "clear"
  <2>1. c \in Chars \cup {LF}
    <3>1. c \in Written
      BY <1>1, NextCharacter
    <3>2. QED
      BY <1>3, <3>1 DEF Written
  <2>2. putc' = Begun(c, s, term.col, term.line, Space)
    BY <1>3 DEF BeginChar
  <2>3. putc'.c = c /\ putc'.step = s /\ putc' # NoChar
    <3>1. putc'.c = c /\ putc'.step = s
      BY <2>2 DEF Begun
    <3>2. s # "none"
      OBVIOUS
    <3>3. QED
      BY <3>1, <3>2 DEF NoChar
  <2>4. Settled' = Rest(term, c, s)
    BY <1>1, <1>3, <2>3 DEF Settled
  <2>5. Settled' = PutChar(term, c)
    <3>1. CASE c = LF
      <4>1. Settled' = Linefeed(term)
        BY <2>4, <3>1, RestIs
      <4>2. PutChar(term, LF) = Linefeed(term)
        BY Controls, Zenon DEF PutChar
      <4>3. QED
        BY <3>1, <4>1, <4>2
    <3>2. CASE c # LF
      <4>1. c # CR /\ c # BS
        BY <2>1, <3>2, Controls
      <4>2. QED
        BY <2>4, <3>2, <4>1, RestIs DEF PutChar
    <3>3. QED
      BY <3>1, <3>2
  <2>6. Typed(term) /\ Counted(term) /\ term.col # TERM_WIDTH /\ term.total = term.line + 1
    BY <1>1, <1>3 DEF TermFits, NoChar, Spoilt
  <2>7. TermOK(term)
    BY <2>6, TerminalAssumption DEF TermOK, Typed
  <2> HIDE DEF c
  <2>8. TermStep(term, PutChar(term, c))
    BY <2>1, <2>6 DEF TermStep
  <2>9. TermOK(PutChar(term, c))
    <3>1. /\ Typed(PutChar(term, c)) /\ Counted(PutChar(term, c))
          /\ PutChar(term, c).total = PutChar(term, c).line + 1
      BY <2>6, <2>8, TermStepKeeps
    <3>2. PutChar(term, c).col < TERM_WIDTH
      BY <2>1, <2>6, PutCharEffect
    <3>3. QED
      BY <3>1, <3>2 DEF TermOK
  <2>10. QED
    BY <1>1, <2>5, <2>7, <2>8, <2>9, TermImplements
<1>4. QED
  BY <1>2, <1>3

\* A handler in the middle of one of kmain's characters that does not print.
LEMMA DisturbRests ==
    ASSUME Modes, TermFits, TermFits', Disturb, UNCHANGED session, ~session.framebuffer,
           putc # NoChar, ~Spoilt'
    PROVE  AbsNext(Settled, Settled')
<1>1. /\ putc' # NoChar /\ putc'.c = putc.c /\ putc'.step = putc.step
      /\ OutputOf(term') = OutputOf(term) \/ putc'.hit
      /\ putc.step \in TermSteps
  BY DisturbIs DEF Modes, PutcOK
<1>2. OutputOf(term') = OutputOf(term)
  BY <1>1 DEF Spoilt
<1>3. Alike(term, term') /\ Rec(term) /\ Rec(term')
  BY <1>2, OutputIs DEF TermFits, Typed, Rec, Alike
<1>4. Settled = Rest(term, putc.c, putc.step) /\ Settled' = Rest(term', putc.c, putc.step)
  BY <1>1 DEF Settled
<1>5. QED
  BY <1>1, <1>3, <1>4, RestAlike, RowsStay

\* Where no character is being printed the terminal is as it is.
LEMMA WholeRests ==
    ASSUME TermFits, session.framebuffer \/ putc = NoChar, ~Spoilt
    PROVE  TermOK(term) /\ Settled = term
<1>1. Settled = term
  BY DEF Settled
<1>2. Typed(term) /\ term.col # TERM_WIDTH /\ term.total = term.line + 1 /\ Counted(term)
  BY DEF TermFits, NoChar, Spoilt
<1>3. QED
  BY <1>1, <1>2, TerminalAssumption DEF TermOK, Typed

LEMMA StepImplements ==
    ASSUME TermInv, TermInv', [Next]_vars, ~Spoilt, ~Spoilt'
    PROVE  AbsNext(Settled, Settled')
<1>1. Modes /\ TermFits /\ TermFits' /\ EditorInv'
  BY DEF TermInv
<1>2. UNCHANGED session /\ (FbPiece \/ TermPiece \/ BeginChar \/ Disturb)
  BY <1>1, StepKinds
<1>3. CASE TermPiece
  <2>1. ~putc.hit
    BY <1>3 DEF Spoilt, TermPiece
  <2>2. QED
    BY <1>1, <1>3, <2>1, PieceRests, RowsStay
<1>4. CASE BeginChar
  BY <1>1, <1>4, BeginRests
<1>5. CASE ~TermPiece /\ (session.framebuffer \/ (putc = NoChar /\ putc' = NoChar))
  <2>1. executing => term.col # TERM_WIDTH
    BY <1>1 DEF TermFits
  <2>2. TermStep(term, term')
    BY <1>1, <1>5, <2>1, TermMoves
  <2>3. TermOK(term) /\ Settled = term
    BY <1>1, <1>5, WholeRests
  <2>4. TermOK(term') /\ Settled' = term'
    <3>1. Settled' = term'
      BY <1>2, <1>5 DEF Settled
    <3>2. /\ Typed(term') /\ term'.col # TERM_WIDTH /\ term'.total = term'.line + 1
          /\ Counted(term')
      BY <1>1, <1>2, <1>5 DEF TermFits, NoChar, Spoilt
    <3>3. QED
      BY <3>1, <3>2, TerminalAssumption DEF TermOK, Typed
  <2>5. QED
    BY <2>2, <2>3, <2>4, TermImplements
<1>6. CASE Disturb /\ ~session.framebuffer
  <2>1. CASE putc # NoChar
    BY <1>1, <1>2, <1>6, <2>1, DisturbRests
  <2>2. CASE putc = NoChar
    <3>1. putc' = NoChar
      BY <1>6, <2>2 DEF Disturb
    <3>2. QED
      BY <1>3, <1>5, <2>2, <3>1
  <2>3. QED
    BY <2>1, <2>2
<1>7. CASE FbPiece
  BY <1>3, <1>5, <1>7 DEF FbPiece
<1>8. QED
  BY <1>2, <1>3, <1>4, <1>5, <1>6, <1>7

(***************************************************************************)
(* The ring of lines, addressed by line numbers, and the offset of the     *)
(* window implement a scrollback of the last TERM_SCROLLBACK_LINES lines:  *)
(* output changes the newest line or adds one, and scrolling shows others  *)
(* of those kept, also while kmain prints a character piece by piece and   *)
(* keys come in between, but for what a key prints into that character.    *)
(***************************************************************************)
THEOREM ScrollbackRefinement == Spec => ImplementsScrollback
<1>1. Init => S!Init
  <2>1. ASSUME Init PROVE S!Init
    <3>1. /\ term.lines = [s \in Slots |-> BlankLine] /\ term.line = 0 /\ term.offset = 0
          /\ Settled = term
      BY <2>1 DEF Init, TerminalInit, Settled
    <3>2. TermOK(term)
      BY <2>1, TermAtFirst DEF Init
    <3>3. QED
      BY <3>1, <3>2, OneBlankLine, AbstractIs
  <2>2. QED
    BY <2>1
<1>2. TermInv /\ TermInv' /\ [Next]_vars => [Spoilt \/ Spoilt' \/ S!Next]_(S!vars)
  <2>1. ASSUME TermInv, TermInv', [Next]_vars, ~Spoilt, ~Spoilt' PROVE [S!Next]_(S!vars)
    BY <2>1, StepImplements, AbstractSteps
  <2>2. QED
    BY <2>1
<1>3. QED
  BY <1>1, <1>2, TerminalInvariance, PTL DEF Spec, ImplementsScrollback

-----------------------------------------------------------------------------
(* The framebuffer console: what its pieces do to cells, screen and cursor.  *)

Grids   == [GridRow -> [GridCol -> Letters]]
Screens == [GridRow -> [GridCol -> [glyph : Letters, mark : BOOLEAN]]]

FbTyped(f) ==
    f \in [cells : Grids, shown : Screens, x : 0 .. FB_COLS, y : 0 .. FB_ROWS,
           smeared : 0 .. FB_ROWS]

\* Two consoles that differ only in rows that f need not show.
Agrees(f, g) ==
    /\ FbTyped(f) /\ FbTyped(g)
    /\ g.cells = f.cells /\ g.x = f.x /\ g.y = f.y /\ g.smeared <= f.smeared
    /\ \A row \in GridRow : row >= f.smeared => g.shown[row] = f.shown[row]

LEMMA GridIs ==
    /\ FB_COLS \in Nat \ {0} /\ FB_ROWS \in Nat \ {0, 1}
    /\ 0 \in GridCol /\ 0 \in GridRow /\ Bottom \in GridRow /\ FB_COLS - 1 \in GridCol
    /\ \A x \in GridCol : x \in Nat /\ x < FB_COLS
    /\ \A y \in GridRow : y \in Nat /\ y <= Bottom
    /\ \A row \in GridRow : row # Bottom => row + 1 \in GridRow
    /\ BlankRow \in [GridCol -> Letters]
    /\ BlackRow \in [GridCol -> [glyph : Letters, mark : BOOLEAN]]
    /\ Space \in Letters
<1>1. Space \in Letters
  BY DEF Letters, Cells
<1>2. BlankRow \in [GridCol -> Letters]
  BY <1>1 DEF BlankRow
<1>3. BlackRow \in [GridCol -> [glyph : Letters, mark : BOOLEAN]]
  BY <1>1 DEF BlackRow, Glyph
<1>4. QED
  BY <1>1, <1>2, <1>3, GridAssumption DEF GridCol, GridRow, Bottom

\* One field of a console changes.
LEMMA FieldSet ==
    ASSUME NEW f, FbTyped(f), NEW u
    PROVE  /\ \A cells \in Grids : u = [f EXCEPT !.cells = cells] =>
                 /\ FbTyped(u) /\ u.cells = cells
                 /\ u.shown = f.shown /\ u.x = f.x /\ u.y = f.y /\ u.smeared = f.smeared
           /\ \A shown \in Screens : u = [f EXCEPT !.shown = shown] =>
                 /\ FbTyped(u) /\ u.shown = shown
                 /\ u.cells = f.cells /\ u.x = f.x /\ u.y = f.y /\ u.smeared = f.smeared
           /\ \A x \in 0 .. FB_COLS : u = [f EXCEPT !.x = x] =>
                 /\ FbTyped(u) /\ u.x = x
                 /\ u.cells = f.cells /\ u.shown = f.shown /\ u.y = f.y /\ u.smeared = f.smeared
           /\ \A y \in 0 .. FB_ROWS : u = [f EXCEPT !.y = y] =>
                 /\ FbTyped(u) /\ u.y = y
                 /\ u.cells = f.cells /\ u.shown = f.shown /\ u.x = f.x /\ u.smeared = f.smeared
           /\ \A n \in 0 .. FB_ROWS : u = [f EXCEPT !.smeared = n] =>
                 /\ FbTyped(u) /\ u.smeared = n
                 /\ u.cells = f.cells /\ u.shown = f.shown /\ u.x = f.x /\ u.y = f.y
BY DEF FbTyped

\* A cell of the screen is drawn, and is marked.
Plotted(shown, x, y, c) == IF InGrid(x, y) THEN [shown EXCEPT ![y][x] = Glyph(c)] ELSE shown
Marked(shown, x, y)     == IF InGrid(x, y) THEN [shown EXCEPT ![y][x].mark = TRUE] ELSE shown
Put(cells, x, y, c)     == IF InGrid(x, y) THEN [cells EXCEPT ![y][x] = c] ELSE cells

LEMMA DrawCellIs ==
    ASSUME NEW f, FbTyped(f), NEW x, NEW y, NEW c \in Letters, NEW u, u = DrawCell(f, x, y, c)
    PROVE  /\ FbTyped(u) /\ u.cells = f.cells /\ u.x = f.x /\ u.y = f.y /\ u.smeared = f.smeared
           /\ u.shown = Plotted(f.shown, x, y, c)
<1>1. f.shown \in Screens
  BY DEF FbTyped
<1>2. CASE InGrid(x, y)
  <2>1. PICK shown : shown = [f.shown EXCEPT ![y][x] = Glyph(c)]
    OBVIOUS
  <2>2. shown \in Screens
    BY <1>1, <1>2, <2>1 DEF Screens, Glyph, InGrid
  <2>3. u = [f EXCEPT !.shown = shown]
    BY <1>2, <2>1 DEF DrawCell
  <2>4. QED
    BY <1>2, <2>1, <2>2, <2>3, FieldSet DEF Plotted
<1>3. CASE ~ InGrid(x, y)
  BY <1>3 DEF DrawCell, Plotted
<1>4. QED
  BY <1>2, <1>3

LEMMA CellSetIs ==
    ASSUME NEW f, FbTyped(f), NEW x, NEW y, NEW c \in Letters, NEW u, u = CellSet(f, x, y, c)
    PROVE  /\ FbTyped(u) /\ u.shown = f.shown /\ u.x = f.x /\ u.y = f.y /\ u.smeared = f.smeared
           /\ u.cells = Put(f.cells, x, y, c)
<1>1. f.cells \in Grids
  BY DEF FbTyped
<1>2. CASE InGrid(x, y)
  <2>1. PICK cells : cells = [f.cells EXCEPT ![y][x] = c]
    OBVIOUS
  <2>2. cells \in Grids
    BY <1>1, <1>2, <2>1 DEF Grids, InGrid
  <2>3. u = [f EXCEPT !.cells = cells]
    BY <1>2, <2>1 DEF CellSet
  <2>4. QED
    BY <1>2, <2>1, <2>2, <2>3, FieldSet DEF Put
<1>3. CASE ~ InGrid(x, y)
  BY <1>3 DEF CellSet, Put
<1>4. QED
  BY <1>2, <1>3

LEMMA DrawCursorIs ==
    ASSUME NEW f, FbTyped(f), NEW u, u = DrawCursor(f)
    PROVE  /\ FbTyped(u) /\ u.cells = f.cells /\ u.x = f.x /\ u.y = f.y /\ u.smeared = f.smeared
           /\ u.shown = Marked(f.shown, f.x, f.y)
<1>1. f.shown \in Screens
  BY DEF FbTyped
<1>2. CASE InGrid(f.x, f.y)
  <2>1. PICK shown : shown = [f.shown EXCEPT ![f.y][f.x].mark = TRUE]
    OBVIOUS
  <2>2. shown \in Screens
    <3>1. PICK a, b : a = f.x /\ b = f.y
      OBVIOUS
    <3>2. PICK g : g = [f.shown[b][a] EXCEPT !.mark = TRUE]
      OBVIOUS
    <3>3. g \in [glyph : Letters, mark : BOOLEAN] /\ a \in GridCol /\ b \in GridRow
      <4>1. PICK p, t : p = f.shown[b][a] /\ t = TRUE
        OBVIOUS
      <4>2. a \in GridCol /\ b \in GridRow
        BY <1>2, <3>1 DEF InGrid
      <4>3. p \in [glyph : Letters, mark : BOOLEAN]
        BY <1>1, <4>1, <4>2 DEF Screens
      <4>4. g = [p EXCEPT !.mark = t]
        BY <3>2, <4>1
      <4>5. [p EXCEPT !.mark = t] = [glyph |-> p.glyph, mark |-> t] /\ p.glyph \in Letters
        BY <4>3
      <4>6. t \in BOOLEAN
        BY <4>1
      <4>7. QED
        BY <4>2, <4>4, <4>5, <4>6
    <3>4. shown = [f.shown EXCEPT ![b] = [f.shown[b] EXCEPT ![a] = g]]
      BY <1>1, <2>1, <3>1, <3>2, <3>3 DEF Screens
    <3>5. [f.shown[b] EXCEPT ![a] = g] \in [GridCol -> [glyph : Letters, mark : BOOLEAN]]
      BY <1>1, <3>3 DEF Screens
    <3>6. QED
      BY <1>1, <3>3, <3>4, <3>5 DEF Screens
  <2>3. u = [f EXCEPT !.shown = shown]
    BY <1>2, <2>1 DEF DrawCursor
  <2>4. u.shown = shown
    BY <2>2, <2>3, FieldSet
  <2>5. shown = Marked(f.shown, f.x, f.y)
    BY <1>2, <2>1, Zenon DEF Marked
  <2>6. QED
    BY <2>2, <2>3, <2>4, <2>5, FieldSet
<1>3. CASE ~ InGrid(f.x, f.y)
  BY <1>3 DEF DrawCursor, Marked
<1>4. QED
  BY <1>2, <1>3

\* A row up.
LiftedScreen(shown) == [row \in GridRow |-> IF row = Bottom THEN BlackRow ELSE shown[row + 1]]
LiftedCells(cells)  == [row \in GridRow |-> IF row = Bottom THEN BlankRow ELSE cells[row + 1]]

LEMMA ScrollPixelsIs ==
    ASSUME NEW f, FbTyped(f), NEW u, u = ScrollPixels(f)
    PROVE  /\ FbTyped(u) /\ u.cells = f.cells /\ u.x = f.x /\ u.y = f.y
           /\ u.smeared = (IF f.smeared > 0 THEN f.smeared - 1 ELSE 0)
           /\ u.shown = LiftedScreen(f.shown)
<1> DEFINE n == IF f.smeared > 0 THEN f.smeared - 1 ELSE 0
<1>1. PICK shown : shown = LiftedScreen(f.shown)
  OBVIOUS
<1>2. shown \in Screens /\ n \in 0 .. FB_ROWS
  BY <1>1, GridIs DEF LiftedScreen, Screens, FbTyped
<1>3. PICK g : g = [f EXCEPT !.shown = shown]
  OBVIOUS
<1>4. /\ FbTyped(g) /\ g.shown = shown
      /\ g.cells = f.cells /\ g.x = f.x /\ g.y = f.y /\ g.smeared = f.smeared
  BY <1>2, <1>3, FieldSet
<1>5. u = [g EXCEPT !.smeared = n]
  <2>1. u = [[f EXCEPT !.shown = shown] EXCEPT !.smeared = IF @ > 0 THEN @ - 1 ELSE 0]
    BY <1>1, Zenon DEF ScrollPixels, LiftedScreen
  <2>2. u = [g EXCEPT !.smeared = IF @ > 0 THEN @ - 1 ELSE 0]
    BY <1>3, <2>1, Zenon
  <2>3. QED
    BY <1>4, <2>2
<1> HIDE DEF n
<1>6. /\ FbTyped(u) /\ u.smeared = n
      /\ u.cells = g.cells /\ u.shown = g.shown /\ u.x = g.x /\ u.y = g.y
  BY <1>2, <1>4, <1>5, FieldSet
<1>7. QED
  BY <1>1, <1>4, <1>6 DEF n

LEMMA ScrollCellsIs ==
    ASSUME NEW f, FbTyped(f), NEW u, u = ScrollCells(f)
    PROVE  /\ FbTyped(u) /\ u.shown = f.shown /\ u.x = f.x /\ u.y = f.y /\ u.smeared = f.smeared
           /\ u.cells = LiftedCells(f.cells)
<1>1. PICK cells : cells = LiftedCells(f.cells)
  OBVIOUS
<1>2. cells \in Grids
  BY <1>1, GridIs DEF LiftedCells, Grids, FbTyped
<1>3. u = [f EXCEPT !.cells = cells]
  BY <1>1, Zenon DEF ScrollCells, LiftedCells
<1>4. QED
  BY <1>1, <1>2, <1>3, FieldSet

\* Consoles that agree still do when the same is done to both.
LEMMA AgreesSelf ==
    ASSUME NEW f, FbTyped(f)
    PROVE  Agrees(f, f)
BY DEF Agrees, FbTyped

LEMMA AgreesDraw ==
    ASSUME NEW f, NEW g, Agrees(f, g), NEW x, NEW y, NEW c \in Letters
    PROVE  Agrees(DrawCell(f, x, y, c), DrawCell(g, x, y, c))
<1>1. PICK u, v : u = DrawCell(f, x, y, c) /\ v = DrawCell(g, x, y, c)
  OBVIOUS
<1>2. /\ FbTyped(u) /\ u.cells = f.cells /\ u.x = f.x /\ u.y = f.y /\ u.smeared = f.smeared
      /\ u.shown = Plotted(f.shown, x, y, c)
  BY <1>1, DrawCellIs DEF Agrees
<1>3. /\ FbTyped(v) /\ v.cells = g.cells /\ v.x = g.x /\ v.y = g.y /\ v.smeared = g.smeared
      /\ v.shown = Plotted(g.shown, x, y, c)
  BY <1>1, DrawCellIs DEF Agrees
<1>4. ASSUME NEW row \in GridRow, g.shown[row] = f.shown[row]
      PROVE  Plotted(g.shown, x, y, c)[row] = Plotted(f.shown, x, y, c)[row]
  BY <1>4 DEF Agrees, FbTyped, Plotted, InGrid, Screens
<1>5. Agrees(u, v)
  BY <1>2, <1>3, <1>4 DEF Agrees
<1>6. QED
  BY <1>1, <1>5

LEMMA AgreesSet ==
    ASSUME NEW f, NEW g, Agrees(f, g), NEW x, NEW y, NEW c \in Letters
    PROVE  Agrees(CellSet(f, x, y, c), CellSet(g, x, y, c))
<1>1. PICK u, v : u = CellSet(f, x, y, c) /\ v = CellSet(g, x, y, c)
  OBVIOUS
<1>2. /\ FbTyped(u) /\ u.shown = f.shown /\ u.x = f.x /\ u.y = f.y /\ u.smeared = f.smeared
      /\ u.cells = Put(f.cells, x, y, c)
  BY <1>1, CellSetIs DEF Agrees
<1>3. /\ FbTyped(v) /\ v.shown = g.shown /\ v.x = g.x /\ v.y = g.y /\ v.smeared = g.smeared
      /\ v.cells = Put(g.cells, x, y, c)
  BY <1>1, CellSetIs DEF Agrees
<1>4. Agrees(u, v)
  BY <1>2, <1>3 DEF Agrees
<1>5. QED
  BY <1>1, <1>4

LEMMA AgreesMark ==
    ASSUME NEW f, NEW g, Agrees(f, g)
    PROVE  Agrees(DrawCursor(f), DrawCursor(g))
<1>1. PICK u, v : u = DrawCursor(f) /\ v = DrawCursor(g)
  OBVIOUS
<1>2. /\ FbTyped(u) /\ u.cells = f.cells /\ u.x = f.x /\ u.y = f.y /\ u.smeared = f.smeared
      /\ u.shown = Marked(f.shown, f.x, f.y)
  BY <1>1, DrawCursorIs DEF Agrees
<1>3. /\ FbTyped(v) /\ v.cells = g.cells /\ v.x = g.x /\ v.y = g.y /\ v.smeared = g.smeared
      /\ v.shown = Marked(g.shown, g.x, g.y)
  BY <1>1, DrawCursorIs DEF Agrees
<1>4. PICK x, y : x = f.x /\ y = f.y
  OBVIOUS
<1>5. ASSUME NEW row \in GridRow, g.shown[row] = f.shown[row]
      PROVE  Marked(g.shown, x, y)[row] = Marked(f.shown, x, y)[row]
  <2>1. f.shown \in Screens /\ g.shown \in Screens
    BY DEF Agrees, FbTyped
  <2>2. CASE InGrid(x, y)
    <3>1. PICK p, q : p = f.shown[y] /\ q = g.shown[y]
      OBVIOUS
    <3>2. /\ Marked(f.shown, x, y) = [f.shown EXCEPT ![y] = [p EXCEPT ![x].mark = TRUE]]
          /\ Marked(g.shown, x, y) = [g.shown EXCEPT ![y] = [q EXCEPT ![x].mark = TRUE]]
      BY <2>2, <3>1, Zenon DEF Marked
    <3>3. row = y => p = q
      BY <1>5, <3>1
    <3>4. PICK a, b : a = [p EXCEPT ![x].mark = TRUE] /\ b = [q EXCEPT ![x].mark = TRUE]
      OBVIOUS
    <3>5. row = y => a = b
      BY <3>3, <3>4
    <3>6. /\ Marked(f.shown, x, y) = [f.shown EXCEPT ![y] = a]
          /\ Marked(g.shown, x, y) = [g.shown EXCEPT ![y] = b]
      BY <3>2, <3>4, Zenon
    <3>7. QED
      BY <1>5, <2>1, <3>5, <3>6 DEF Screens
  <2>3. CASE ~ InGrid(x, y)
    BY <1>5, <2>3 DEF Marked
  <2>4. QED
    BY <2>2, <2>3
<1>6. g.x = x /\ g.y = y
  BY <1>4 DEF Agrees
<1>7. Agrees(u, v)
  BY <1>2, <1>3, <1>4, <1>5, <1>6 DEF Agrees
<1>8. QED
  BY <1>1, <1>7

LEMMA AgreesLift ==
    ASSUME NEW f, NEW g, Agrees(f, g)
    PROVE  Agrees(ScrollPixels(f), ScrollPixels(g))
<1>1. PICK u, v : u = ScrollPixels(f) /\ v = ScrollPixels(g)
  OBVIOUS
<1>2. /\ FbTyped(u) /\ u.cells = f.cells /\ u.x = f.x /\ u.y = f.y
      /\ u.smeared = (IF f.smeared > 0 THEN f.smeared - 1 ELSE 0)
      /\ u.shown = LiftedScreen(f.shown)
  BY <1>1, ScrollPixelsIs DEF Agrees
<1>3. /\ FbTyped(v) /\ v.cells = g.cells /\ v.x = g.x /\ v.y = g.y
      /\ v.smeared = (IF g.smeared > 0 THEN g.smeared - 1 ELSE 0)
      /\ v.shown = LiftedScreen(g.shown)
  BY <1>1, ScrollPixelsIs DEF Agrees
<1>4. f.smeared \in Nat /\ g.smeared \in Nat /\ g.smeared <= f.smeared
  BY GridIs DEF Agrees, FbTyped
<1>5. ASSUME NEW row \in GridRow, row >= u.smeared
      PROVE  LiftedScreen(g.shown)[row] = LiftedScreen(f.shown)[row]
  <2>1. CASE row = Bottom
    BY <2>1 DEF LiftedScreen
  <2>2. CASE row # Bottom
    <3>1. row + 1 \in GridRow /\ row + 1 >= f.smeared
      BY <1>2, <1>4, <1>5, <2>2, GridIs
    <3>2. QED
      BY <1>5, <2>2, <3>1 DEF LiftedScreen, Agrees
  <2>3. QED
    BY <2>1, <2>2
<1>6. Agrees(u, v)
  BY <1>2, <1>3, <1>4, <1>5 DEF Agrees
<1>7. QED
  BY <1>1, <1>6

LEMMA AgreesMove ==
    ASSUME NEW f, NEW g, Agrees(f, g)
    PROVE  Agrees(ScrollCells(f), ScrollCells(g))
<1>1. PICK u, v : u = ScrollCells(f) /\ v = ScrollCells(g)
  OBVIOUS
<1>2. /\ FbTyped(u) /\ u.shown = f.shown /\ u.x = f.x /\ u.y = f.y /\ u.smeared = f.smeared
      /\ u.cells = LiftedCells(f.cells)
  BY <1>1, ScrollCellsIs DEF Agrees
<1>3. /\ FbTyped(v) /\ v.shown = g.shown /\ v.x = g.x /\ v.y = g.y /\ v.smeared = g.smeared
      /\ v.cells = LiftedCells(g.cells)
  BY <1>1, ScrollCellsIs DEF Agrees
<1>4. Agrees(u, v)
  BY <1>2, <1>3 DEF Agrees
<1>5. QED
  BY <1>1, <1>4

\* The cursor in another column or row.
AtX(f, x) == [f EXCEPT !.x = x]
AtY(f, y) == [f EXCEPT !.y = y]

LEMMA AtIsTyped ==
    ASSUME NEW f, FbTyped(f)
    PROVE  /\ \A x \in 0 .. FB_COLS :
                 LET u == AtX(f, x)
                 IN  /\ FbTyped(u) /\ u.x = x /\ u.y = f.y
                     /\ u.cells = f.cells /\ u.shown = f.shown /\ u.smeared = f.smeared
           /\ \A y \in 0 .. FB_ROWS :
                 LET u == AtY(f, y)
                 IN  /\ FbTyped(u) /\ u.y = y /\ u.x = f.x
                     /\ u.cells = f.cells /\ u.shown = f.shown /\ u.smeared = f.smeared
<1>1. ASSUME NEW x \in 0 .. FB_COLS
      PROVE  LET u == AtX(f, x)
             IN  /\ FbTyped(u) /\ u.x = x /\ u.y = f.y
                 /\ u.cells = f.cells /\ u.shown = f.shown /\ u.smeared = f.smeared
  <2>1. PICK u : u = [f EXCEPT !.x = x]
    OBVIOUS
  <2>2. /\ FbTyped(u) /\ u.x = x /\ u.y = f.y
        /\ u.cells = f.cells /\ u.shown = f.shown /\ u.smeared = f.smeared
    BY <2>1, FieldSet
  <2>3. AtX(f, x) = u
    BY <2>1 DEF AtX
  <2>4. QED
    BY <2>2, <2>3
<1>2. ASSUME NEW y \in 0 .. FB_ROWS
      PROVE  LET u == AtY(f, y)
             IN  /\ FbTyped(u) /\ u.y = y /\ u.x = f.x
                 /\ u.cells = f.cells /\ u.shown = f.shown /\ u.smeared = f.smeared
  <2>1. PICK u : u = [f EXCEPT !.y = y]
    OBVIOUS
  <2>2. /\ FbTyped(u) /\ u.y = y /\ u.x = f.x
        /\ u.cells = f.cells /\ u.shown = f.shown /\ u.smeared = f.smeared
    BY <2>1, FieldSet
  <2>3. AtY(f, y) = u
    BY <2>1 DEF AtY
  <2>4. QED
    BY <2>2, <2>3
<1>3. QED
  BY <1>1, <1>2

LEMMA AgreesAt ==
    ASSUME NEW f, NEW g, Agrees(f, g)
    PROVE  /\ \A x \in 0 .. FB_COLS : Agrees(AtX(f, x), AtX(g, x))
           /\ \A y \in 0 .. FB_ROWS : Agrees(AtY(f, y), AtY(g, y))
<1>1. ASSUME NEW x \in 0 .. FB_COLS
      PROVE  Agrees(AtX(f, x), AtX(g, x))
  <2>1. PICK u, v : u = AtX(f, x) /\ v = AtX(g, x)
    OBVIOUS
  <2>2. /\ FbTyped(u) /\ u.x = x /\ u.y = f.y
        /\ u.cells = f.cells /\ u.shown = f.shown /\ u.smeared = f.smeared
    BY <2>1, AtIsTyped DEF Agrees
  <2>3. /\ FbTyped(v) /\ v.x = x /\ v.y = g.y
        /\ v.cells = g.cells /\ v.shown = g.shown /\ v.smeared = g.smeared
    BY <2>1, AtIsTyped DEF Agrees
  <2>4. Agrees(u, v)
    BY <2>2, <2>3 DEF Agrees
  <2>5. QED
    BY <2>1, <2>4
<1>2. ASSUME NEW y \in 0 .. FB_ROWS
      PROVE  Agrees(AtY(f, y), AtY(g, y))
  <2>1. PICK u, v : u = AtY(f, y) /\ v = AtY(g, y)
    OBVIOUS
  <2>2. /\ FbTyped(u) /\ u.y = y /\ u.x = f.x
        /\ u.cells = f.cells /\ u.shown = f.shown /\ u.smeared = f.smeared
    BY <2>1, AtIsTyped DEF Agrees
  <2>3. /\ FbTyped(v) /\ v.y = y /\ v.x = g.x
        /\ v.cells = g.cells /\ v.shown = g.shown /\ v.smeared = g.smeared
    BY <2>1, AtIsTyped DEF Agrees
  <2>4. Agrees(u, v)
    BY <2>2, <2>3 DEF Agrees
  <2>5. QED
    BY <2>1, <2>4
<1>3. QED
  BY <1>1, <1>2

-----------------------------------------------------------------------------
(* The functions made of these pieces.                                       *)

LEMMA CellGetIs ==
    ASSUME NEW f, NEW g, Agrees(f, g), NEW x, NEW y
    PROVE  CellGet(f, x, y) \in Letters /\ CellGet(g, x, y) = CellGet(f, x, y)
BY GridIs DEF Agrees, FbTyped, CellGet, InGrid, Grids

LEMMA EraseAgrees ==
    ASSUME NEW f, NEW g, Agrees(f, g)
    PROVE  /\ Agrees(EraseCursor(f), EraseCursor(g))
           /\ EraseCursor(f).x = f.x /\ EraseCursor(f).y = f.y
<1>1. PICK x, y, c : x = f.x /\ y = f.y /\ c = CellGet(f, x, y)
  OBVIOUS
<1>2. c \in Letters /\ EraseCursor(f) = DrawCell(f, x, y, c) /\ EraseCursor(g) = DrawCell(g, x, y, c)
  BY <1>1, CellGetIs DEF EraseCursor, Agrees
<1>3. Agrees(DrawCell(f, x, y, c), DrawCell(g, x, y, c))
  BY <1>2, AgreesDraw
<1>4. DrawCell(f, x, y, c).x = f.x /\ DrawCell(f, x, y, c).y = f.y
  BY <1>2, DrawCellIs DEF Agrees
<1>5. QED
  BY <1>2, <1>3, <1>4

LEMMA PutCellAgrees ==
    ASSUME NEW f, NEW g, Agrees(f, g), NEW c \in Letters
    PROVE  /\ Agrees(PutCell(f, c), PutCell(g, c))
           /\ PutCell(f, c).x = f.x /\ PutCell(f, c).y = f.y
<1>1. PICK x, y : x = f.x /\ y = f.y
  OBVIOUS
<1>2. PICK u, v : u = DrawCell(f, x, y, c) /\ v = DrawCell(g, x, y, c)
  OBVIOUS
<1>3. PutCell(f, c) = CellSet(u, x, y, c) /\ PutCell(g, c) = CellSet(v, x, y, c)
  BY <1>1, <1>2 DEF PutCell, Agrees
<1>4. Agrees(u, v)
  BY <1>2, AgreesDraw
<1>5. Agrees(CellSet(u, x, y, c), CellSet(v, x, y, c))
  BY <1>4, AgreesSet
<1>6. u.x = f.x /\ u.y = f.y
  BY <1>2, DrawCellIs DEF Agrees
<1>7. CellSet(u, x, y, c).x = u.x /\ CellSet(u, x, y, c).y = u.y
  BY <1>4, CellSetIs DEF Agrees
<1>8. QED
  BY <1>3, <1>5, <1>6, <1>7

LEMMA ScrollUpAgrees ==
    ASSUME NEW f, NEW g, Agrees(f, g)
    PROVE  /\ Agrees(ScrollUp(f), ScrollUp(g))
           /\ ScrollUp(f).x = f.x /\ ScrollUp(f).y = Bottom
<1>1. PICK u, v : u = ScrollPixels(f) /\ v = ScrollPixels(g)
  OBVIOUS
<1>2. PICK p, q : p = ScrollCells(u) /\ q = ScrollCells(v)
  OBVIOUS
<1>3. Agrees(u, v) /\ u.x = f.x
  BY <1>1, AgreesLift, ScrollPixelsIs DEF Agrees
<1>4. Agrees(p, q) /\ p.x = f.x
  BY <1>2, <1>3, AgreesMove, ScrollCellsIs DEF Agrees
<1>5. ScrollUp(f) = AtY(p, Bottom) /\ ScrollUp(g) = AtY(q, Bottom)
  BY <1>1, <1>2 DEF ScrollUp, AtY
<1>6. Bottom \in 0 .. FB_ROWS
  BY GridIs DEF Bottom
<1>7. Agrees(AtY(p, Bottom), AtY(q, Bottom))
  BY <1>4, <1>6, AgreesAt
<1>8. FbTyped(p)
  BY <1>4 DEF Agrees
<1>9. PICK w : w = AtY(p, Bottom)
  OBVIOUS
<1>10. w.y = Bottom /\ w.x = p.x
  BY <1>6, <1>8, <1>9, AtIsTyped
<1>11. QED
  BY <1>4, <1>5, <1>7, <1>9, <1>10

\* The second half of fb_newline.
Down(f) == IF f.y + 1 >= FB_ROWS THEN ScrollUp(f) ELSE AtY(f, f.y + 1)

LEMMA DownAgrees ==
    ASSUME NEW f, NEW g, Agrees(f, g)
    PROVE  /\ Agrees(Down(f), Down(g))
           /\ Down(f).x = f.x /\ Down(f).y \in GridRow
<1>1. f.y \in 0 .. FB_ROWS /\ g.y = f.y /\ FbTyped(f)
  BY DEF Agrees, FbTyped
<1>2. CASE f.y + 1 >= FB_ROWS
  <2>1. Down(f) = ScrollUp(f) /\ Down(g) = ScrollUp(g)
    BY <1>1, <1>2 DEF Down
  <2>2. QED
    BY <2>1, ScrollUpAgrees, GridIs
<1>3. CASE ~ (f.y + 1 >= FB_ROWS)
  <2>1. PICK y \in GridRow : y = f.y + 1 /\ y \in 0 .. FB_ROWS
    BY <1>1, <1>3, GridIs DEF GridRow
  <2>2. Down(f) = AtY(f, y) /\ Down(g) = AtY(g, y)
    BY <1>1, <1>3, <2>1 DEF Down
  <2>3. Agrees(AtY(f, y), AtY(g, y))
    BY <2>1, AgreesAt
  <2>4. AtY(f, y).x = f.x /\ AtY(f, y).y = y
    BY <1>1, <2>1, AtIsTyped
  <2>5. QED
    BY <2>1, <2>2, <2>3, <2>4
<1>4. QED
  BY <1>2, <1>3

LEMMA NewlineOf ==
    ASSUME NEW f, FbTyped(f)
    PROVE  FbNewline(f) = Down(AtX(f, 0))
<1>1. PICK g : g = [f EXCEPT !.x = 0]
  OBVIOUS
<1>2. FbTyped(g) /\ g.y = f.y
  BY <1>1, FieldSet, GridIs
<1>3. FbNewline(f) = IF f.y + 1 >= FB_ROWS THEN ScrollUp(g) ELSE [g EXCEPT !.y = @ + 1]
  BY <1>1 DEF FbNewline
<1>4. QED
  BY <1>1, <1>2, <1>3 DEF Down, AtX, AtY

LEMMA NewlineAgrees ==
    ASSUME NEW f, NEW g, Agrees(f, g)
    PROVE  /\ Agrees(FbNewline(f), FbNewline(g))
           /\ FbNewline(f).x = 0 /\ FbNewline(f).y \in GridRow
<1>1. PICK u, v : u = AtX(f, 0) /\ v = AtX(g, 0)
  OBVIOUS
<1>2. 0 \in 0 .. FB_COLS /\ FbTyped(f) /\ FbTyped(g)
  BY GridIs DEF Agrees
<1>3. Agrees(u, v) /\ u.x = 0
  BY <1>1, <1>2, AgreesAt, AtIsTyped
<1>4. FbNewline(f) = Down(u) /\ FbNewline(g) = Down(v)
  BY <1>1, <1>2, NewlineOf
<1>5. QED
  BY <1>3, <1>4, DownAgrees

LEMMA ForwardAgrees ==
    ASSUME NEW f, NEW g, Agrees(f, g)
    PROVE  /\ Agrees(Forward(f), Forward(g))
           /\ Forward(f).x \in GridCol /\ (Forward(f).y \in GridRow \/ Forward(f).y = f.y)
<1>1. f.x \in 0 .. FB_COLS /\ g.x = f.x /\ FbTyped(f) /\ FbTyped(g)
  BY DEF Agrees, FbTyped
<1>2. CASE f.x + 1 >= FB_COLS
  <2>1. Forward(f) = FbNewline(f) /\ Forward(g) = FbNewline(g)
    BY <1>1, <1>2 DEF Forward
  <2>2. QED
    BY <2>1, NewlineAgrees, GridIs
<1>3. CASE ~ (f.x + 1 >= FB_COLS)
  <2>1. PICK x \in GridCol : x = f.x + 1 /\ x \in 0 .. FB_COLS
    BY <1>1, <1>3, GridIs DEF GridCol
  <2>2. Forward(f) = AtX(f, x) /\ Forward(g) = AtX(g, x)
    BY <1>1, <1>3, <2>1 DEF Forward, AtX
  <2>3. Agrees(AtX(f, x), AtX(g, x))
    BY <2>1, AgreesAt
  <2>4. AtX(f, x).x = x /\ AtX(f, x).y = f.y
    BY <1>1, <2>1, AtIsTyped
  <2>5. QED
    BY <2>1, <2>2, <2>3, <2>4
<1>4. QED
  BY <1>2, <1>3

LEMMA BackAgrees ==
    ASSUME NEW f, NEW g, Agrees(f, g)
    PROVE  /\ Agrees(Back(f), Back(g))
           /\ Back(f).x \in GridCol /\ (Back(f).y \in GridRow \/ Back(f).y = f.y)
<1>1. /\ f.x \in 0 .. FB_COLS /\ g.x = f.x /\ f.y \in 0 .. FB_ROWS /\ g.y = f.y
      /\ FbTyped(f) /\ FbTyped(g)
  BY DEF Agrees, FbTyped
<1>2. CASE f.x > 0
  <2>1. PICK x \in GridCol : x = f.x - 1 /\ x \in 0 .. FB_COLS
    BY <1>1, <1>2, GridIs DEF GridCol
  <2>2. Back(f) = AtX(f, x) /\ Back(g) = AtX(g, x)
    BY <1>1, <1>2, <2>1 DEF Back, AtX
  <2>3. Agrees(AtX(f, x), AtX(g, x))
    BY <2>1, AgreesAt
  <2>4. AtX(f, x).x = x /\ AtX(f, x).y = f.y
    BY <1>1, <2>1, AtIsTyped
  <2>5. QED
    BY <2>1, <2>2, <2>3, <2>4
<1>3. CASE ~ (f.x > 0) /\ f.y > 0
  <2>1. PICK x, y : x = FB_COLS - 1 /\ y = f.y - 1
    OBVIOUS
  <2> x \in GridCol /\ x \in 0 .. FB_COLS /\ y \in GridRow /\ y \in 0 .. FB_ROWS
    BY <1>1, <1>3, <2>1, GridIs DEF GridRow
  <2>2. PICK u, v : u = AtX(f, x) /\ v = AtX(g, x)
    OBVIOUS
  <2>3. Agrees(u, v) /\ u.x = x /\ u.y = f.y
    BY <1>1, <2>1, <2>2, AgreesAt, AtIsTyped
  <2>4. Back(f) = AtY(u, y) /\ Back(g) = AtY(v, y)
    <3>1. /\ Back(f) = [f EXCEPT !.x = FB_COLS - 1, !.y = @ - 1]
          /\ Back(g) = [g EXCEPT !.x = FB_COLS - 1, !.y = @ - 1]
      BY <1>1, <1>3 DEF Back
    <3>2. u = [f EXCEPT !.x = FB_COLS - 1] /\ v = [g EXCEPT !.x = FB_COLS - 1]
      BY <2>1, <2>2 DEF AtX
    <3>3. Back(f) = [u EXCEPT !.y = @ - 1] /\ Back(g) = [v EXCEPT !.y = @ - 1]
      BY <3>1, <3>2
    <3>4. u.y = f.y /\ v.y = f.y
      BY <2>3 DEF Agrees
    <3>5. QED
      BY <2>1, <3>3, <3>4 DEF AtY
  <2>5. Agrees(AtY(u, y), AtY(v, y)) /\ FbTyped(u)
    BY <2>1, <2>3, AgreesAt DEF Agrees
  <2>6. AtY(u, y).x = x /\ AtY(u, y).y = y
    BY <2>1, <2>3, <2>5, AtIsTyped
  <2>7. QED
    BY <2>1, <2>4, <2>5, <2>6
<1>4. CASE ~ (f.x > 0) /\ ~ (f.y > 0)
  <2>1. Back(f) = f /\ Back(g) = g /\ f.x = 0
    BY <1>1, <1>4, GridIs DEF Back
  <2>2. QED
    BY <2>1, GridIs
<1>5. QED
  BY <1>2, <1>3, <1>4

\* What can be printed.
Typeset == Letters \cup {LF, CR, BS}

LEMMA LetterIsNone ==
    \A c \in Letters : c # LF /\ c # CR /\ c # BS
BY Controls DEF Letters, Cells

LEMMA PutCharOf ==
    ASSUME NEW f, NEW c \in Typeset, NEW u, u = EraseCursor(f)
    PROVE  FbPutChar(f, c) = DrawCursor(IF c = CR THEN AtX(u, 0)
                                        ELSE IF c = LF THEN FbNewline(u)
                                        ELSE IF c = BS THEN PutCell(Back(u), Space)
                                        ELSE Forward(PutCell(u, c)))
BY Controls DEF FbPutChar, AtX, Typeset

\* Printing a character keeps consoles that agree in agreement and the
\* cursor, wherever it was, in the columns of the grid.
LEMMA PutCharAgrees ==
    ASSUME NEW f, NEW g, Agrees(f, g), NEW c \in Typeset
    PROVE  /\ Agrees(FbPutChar(f, c), FbPutChar(g, c))
           /\ FbPutChar(f, c).x \in GridCol
           /\ FbPutChar(f, c).y = FB_ROWS => f.y = FB_ROWS
<1>1. PICK u, v : u = EraseCursor(f) /\ v = EraseCursor(g)
  OBVIOUS
<1>2. Agrees(u, v) /\ u.y = f.y /\ FbTyped(u)
  BY <1>1, EraseAgrees DEF Agrees
<1>3. ASSUME NEW p, NEW q, Agrees(p, q), p.x \in GridCol, p.y \in GridRow \/ p.y = f.y,
             FbPutChar(f, c) = DrawCursor(p), FbPutChar(g, c) = DrawCursor(q)
      PROVE  /\ Agrees(FbPutChar(f, c), FbPutChar(g, c))
             /\ FbPutChar(f, c).x \in GridCol
             /\ FbPutChar(f, c).y = FB_ROWS => f.y = FB_ROWS
  <2>1. Agrees(DrawCursor(p), DrawCursor(q))
    BY <1>3, AgreesMark
  <2>2. DrawCursor(p).x = p.x /\ DrawCursor(p).y = p.y
    BY <1>3, DrawCursorIs DEF Agrees
  <2>3. FB_ROWS \notin GridRow
    BY GridIs DEF GridRow
  <2>4. QED
    BY <1>3, <2>1, <2>2, <2>3
<1>4. /\ c = CR => FbPutChar(f, c) = DrawCursor(AtX(u, 0)) /\ FbPutChar(g, c) = DrawCursor(AtX(v, 0))
      /\ c = LF => FbPutChar(f, c) = DrawCursor(FbNewline(u)) /\ FbPutChar(g, c) = DrawCursor(FbNewline(v))
      /\ c = BS => /\ FbPutChar(f, c) = DrawCursor(PutCell(Back(u), Space))
                   /\ FbPutChar(g, c) = DrawCursor(PutCell(Back(v), Space))
      /\ c \in Letters => /\ FbPutChar(f, c) = DrawCursor(Forward(PutCell(u, c)))
                          /\ FbPutChar(g, c) = DrawCursor(Forward(PutCell(v, c)))
  BY <1>1, PutCharOf, Controls, LetterIsNone
<1>5. CASE c = CR
  <2>1. PICK p, q : p = AtX(u, 0) /\ q = AtX(v, 0)
    OBVIOUS
  <2>2. 0 \in 0 .. FB_COLS
    BY GridIs
  <2>3. Agrees(p, q) /\ p.x = 0 /\ p.y = u.y
    BY <1>2, <2>1, <2>2, AgreesAt, AtIsTyped
  <2>4. QED
    BY <1>2, <1>3, <1>4, <1>5, <2>1, <2>3, GridIs
<1>6. CASE c = LF
  BY <1>2, <1>3, <1>4, <1>6, NewlineAgrees, GridIs
<1>7. CASE c = BS
  <2>1. PICK a, b : a = Back(u) /\ b = Back(v)
    OBVIOUS
  <2>2. Agrees(a, b) /\ a.x \in GridCol /\ (a.y \in GridRow \/ a.y = f.y)
    BY <1>2, <2>1, BackAgrees
  <2>3. PICK p, q : p = PutCell(a, Space) /\ q = PutCell(b, Space)
    OBVIOUS
  <2>4. Agrees(p, q) /\ p.x = a.x /\ p.y = a.y
    BY <2>2, <2>3, PutCellAgrees, GridIs
  <2>5. QED
    BY <1>3, <1>4, <1>7, <2>1, <2>2, <2>3, <2>4
<1>8. CASE c \in Letters
  <2>1. PICK a, b : a = PutCell(u, c) /\ b = PutCell(v, c)
    OBVIOUS
  <2>2. Agrees(a, b) /\ a.y = f.y
    BY <1>2, <1>8, <2>1, PutCellAgrees
  <2>3. PICK p, q : p = Forward(a) /\ q = Forward(b)
    OBVIOUS
  <2>4. Agrees(p, q) /\ p.x \in GridCol /\ (p.y \in GridRow \/ p.y = a.y)
    BY <2>2, <2>3, ForwardAgrees
  <2>5. QED
    BY <1>3, <1>4, <1>8, <2>1, <2>2, <2>3, <2>4
<1>9. QED
  BY <1>5, <1>6, <1>7, <1>8 DEF Typeset

-----------------------------------------------------------------------------
(* Screens that show their cells.                                            *)

\* The screen drawn from the cells, without the cursor.
Drawn(cells) == [row \in GridRow |-> [col \in GridCol |-> Glyph(cells[row][col])]]

\* The console with the cursor erased, and with it drawn.
Erased(cells, x, y) ==
    [cells |-> cells, shown |-> Drawn(cells), x |-> x, y |-> y, smeared |-> 0]
Complete(cells, x, y) ==
    [cells |-> cells, shown |-> Marked(Drawn(cells), x, y), x |-> x, y |-> y, smeared |-> 0]

\* The screen is the one drawn from the cells, with the mark at the cursor.
Complies(f) == \E cells \in Grids, x \in GridCol, y \in GridRow : f = Complete(cells, x, y)

LEMMA SameFb ==
    ASSUME NEW f, NEW g, FbTyped(f), FbTyped(g), f.cells = g.cells, f.shown = g.shown,
           f.x = g.x, f.y = g.y, f.smeared = g.smeared
    PROVE  f = g
BY DEF FbTyped

LEMMA ErasedIs ==
    ASSUME NEW cells \in Grids, NEW x \in GridCol, NEW y \in GridRow, NEW e, e = Erased(cells, x, y)
    PROVE  /\ FbTyped(e) /\ e.cells = cells /\ e.shown = Drawn(cells)
           /\ e.x = x /\ e.y = y /\ e.smeared = 0
<1>1. PICK shown : shown = Drawn(cells)
  OBVIOUS
<1>2. shown \in Screens
  BY <1>1 DEF Drawn, Screens, Grids, Glyph
<1>3. e = [cells |-> cells, shown |-> shown, x |-> x, y |-> y, smeared |-> 0]
  BY <1>1 DEF Erased
<1>4. x \in 0 .. FB_COLS /\ y \in 0 .. FB_ROWS /\ 0 \in 0 .. FB_ROWS
  BY GridIs DEF GridCol, GridRow
<1>5. QED
  BY <1>1, <1>2, <1>3, <1>4 DEF FbTyped

\* Two ways to get there are one.
LEMMA DrawIs ==
    ASSUME NEW cells \in Grids, NEW x \in GridCol, NEW y \in GridRow
    PROVE  /\ DrawCursor(Erased(cells, x, y)) = Complete(cells, x, y)
           /\ FbTyped(Complete(cells, x, y))
<1>1. PICK e, u : e = Erased(cells, x, y) /\ u = DrawCursor(e)
  OBVIOUS
<1>2. /\ FbTyped(e) /\ e.cells = cells /\ e.shown = Drawn(cells)
      /\ e.x = x /\ e.y = y /\ e.smeared = 0
  BY <1>1, ErasedIs
<1>3. /\ FbTyped(u) /\ u.cells = cells /\ u.x = x /\ u.y = y /\ u.smeared = 0
      /\ u.shown = Marked(Drawn(cells), x, y)
  BY <1>1, <1>2, DrawCursorIs
<1>4. u = [cells |-> cells, shown |-> Marked(Drawn(cells), x, y), x |-> x, y |-> y, smeared |-> 0]
  BY <1>3 DEF FbTyped
<1>5. u = Complete(cells, x, y)
  BY <1>4 DEF Complete
<1>6. QED
  BY <1>1, <1>3, <1>5

LEMMA EraseIs ==
    ASSUME NEW cells \in Grids, NEW x \in GridCol, NEW y \in GridRow
    PROVE  EraseCursor(Complete(cells, x, y)) = Erased(cells, x, y)
<1>1. PICK f, e, u, c : /\ f = Complete(cells, x, y) /\ e = Erased(cells, x, y)
                        /\ u = EraseCursor(f) /\ c = cells[y][x]
  OBVIOUS
<1>2. /\ FbTyped(f) /\ f.cells = cells /\ f.shown = Marked(Drawn(cells), x, y)
      /\ f.x = x /\ f.y = y /\ f.smeared = 0
  BY <1>1, DrawIs DEF Complete
<1>3. c \in Letters /\ u = DrawCell(f, x, y, c)
  BY <1>1, <1>2 DEF EraseCursor, CellGet, InGrid, Grids
<1>4. /\ FbTyped(u) /\ u.cells = cells /\ u.x = x /\ u.y = y /\ u.smeared = 0
      /\ u.shown = Plotted(f.shown, x, y, c)
  BY <1>2, <1>3, DrawCellIs
<1>5. Plotted(Marked(Drawn(cells), x, y), x, y, c) = Drawn(cells)
  <2>1. PICK d : d = Drawn(cells)
    OBVIOUS
  <2>2. PICK p : p = [d[y][x] EXCEPT !.mark = TRUE]
    OBVIOUS
  <2>3. Marked(d, x, y) = [d EXCEPT ![y] = [d[y] EXCEPT ![x] = p]]
    BY <2>1, <2>2 DEF Marked, InGrid, Drawn
  <2>4. Plotted(Marked(d, x, y), x, y, c) = [d EXCEPT ![y] = [d[y] EXCEPT ![x] = Glyph(c)]]
    BY <2>1, <2>3 DEF Plotted, InGrid, Drawn
  <2>5. d[y][x] = Glyph(c)
    BY <1>1, <2>1 DEF Drawn
  <2>6. [d EXCEPT ![y] = [d[y] EXCEPT ![x] = Glyph(c)]] = d
    BY <2>1, <2>5 DEF Drawn
  <2>7. QED
    BY <2>1, <2>4, <2>6
<1>6. QED
  BY <1>1, <1>2, <1>4, <1>5, ErasedIs, SameFb

\* A cell is put on the screen and in the cells.
LEMMA PutCellIs ==
    ASSUME NEW cells \in Grids, NEW x \in GridCol, NEW y \in GridRow, NEW c \in Letters
    PROVE  /\ Put(cells, x, y, c) \in Grids
           /\ PutCell(Erased(cells, x, y), c) = Erased(Put(cells, x, y, c), x, y)
<1>1. PICK e, after : e = Erased(cells, x, y) /\ after = Put(cells, x, y, c)
  OBVIOUS
<1>2. after = [cells EXCEPT ![y][x] = c] /\ after \in Grids
  BY <1>1 DEF Put, InGrid, Grids
<1>3. /\ FbTyped(e) /\ e.cells = cells /\ e.shown = Drawn(cells)
      /\ e.x = x /\ e.y = y /\ e.smeared = 0
  BY <1>1, ErasedIs
<1>4. PICK u, v : u = DrawCell(e, x, y, c) /\ v = CellSet(u, x, y, c)
  OBVIOUS
<1>5. /\ FbTyped(u) /\ u.cells = cells /\ u.x = x /\ u.y = y /\ u.smeared = 0
      /\ u.shown = Plotted(Drawn(cells), x, y, c)
  BY <1>3, <1>4, DrawCellIs
<1>6. /\ FbTyped(v) /\ v.cells = after /\ v.x = x /\ v.y = y /\ v.smeared = 0
      /\ v.shown = Plotted(Drawn(cells), x, y, c)
  BY <1>1, <1>4, <1>5, CellSetIs
<1>7. Plotted(Drawn(cells), x, y, c) = Drawn(after)
  <2>1. ASSUME NEW row \in GridRow, NEW col \in GridCol
        PROVE  Glyph(after[row][col]) = IF row = y /\ col = x THEN Glyph(c) ELSE Glyph(cells[row][col])
    BY <1>2 DEF Grids
  <2>2. Plotted(Drawn(cells), x, y, c) = [Drawn(cells) EXCEPT ![y][x] = Glyph(c)]
    BY DEF Plotted, InGrid
  <2>3. QED
    BY <2>1, <2>2 DEF Drawn
<1>8. v = PutCell(e, c)
  BY <1>3, <1>4 DEF PutCell
<1>9. v = Erased(after, x, y)
  BY <1>2, <1>6, <1>7, ErasedIs, SameFb
<1>10. QED
  BY <1>1, <1>2, <1>8, <1>9

\* A new line moves the cursor or scrolls both, the screen and the cells.
LEMMA NewlineIs ==
    ASSUME NEW cells \in Grids, NEW x \in GridCol, NEW y \in GridRow
    PROVE  /\ LiftedCells(cells) \in Grids
           /\ FbNewline(Erased(cells, x, y))
                = IF y = Bottom THEN Erased(LiftedCells(cells), 0, Bottom)
                  ELSE Erased(cells, 0, y + 1)
<1>1. PICK e, up, u : e = Erased(cells, x, y) /\ up = LiftedCells(cells) /\ u = AtX(e, 0)
  OBVIOUS
<1>2. up \in Grids
  BY <1>1, GridIs DEF LiftedCells, Grids
<1>3. LiftedScreen(Drawn(cells)) = Drawn(up)
  <2>1. ASSUME NEW row \in GridRow
        PROVE  (IF row = Bottom THEN BlackRow ELSE Drawn(cells)[row + 1])
                  = [col \in GridCol |-> Glyph(up[row][col])]
    BY <1>1, GridIs DEF LiftedCells, BlackRow, BlankRow, Drawn
  <2>2. QED
    BY <2>1, Zenon DEF Drawn, LiftedScreen
<1>4. /\ FbTyped(e) /\ e.cells = cells /\ e.shown = Drawn(cells)
      /\ e.x = x /\ e.y = y /\ e.smeared = 0
  BY <1>1, ErasedIs
<1>5. 0 \in 0 .. FB_COLS /\ 0 \in GridCol /\ Bottom \in GridRow /\ Bottom \in 0 .. FB_ROWS
  BY GridIs DEF Bottom
<1>6. /\ FbTyped(u) /\ u.x = 0 /\ u.y = y /\ u.cells = cells /\ u.shown = Drawn(cells)
      /\ u.smeared = 0
  BY <1>1, <1>4, <1>5, AtIsTyped
<1>7. FbNewline(e) = Down(u)
  BY <1>1, <1>4, NewlineOf
<1>8. CASE y = Bottom
  <2>1. PICK p, q, r : p = ScrollPixels(u) /\ q = ScrollCells(p) /\ r = AtY(q, Bottom)
    OBVIOUS
  <2>2. /\ FbTyped(p) /\ p.cells = cells /\ p.x = 0 /\ p.smeared = 0 /\ p.shown = Drawn(up)
    BY <1>3, <1>6, <2>1, ScrollPixelsIs
  <2>3. /\ FbTyped(q) /\ q.cells = up /\ q.x = 0 /\ q.smeared = 0 /\ q.shown = Drawn(up)
    BY <1>1, <2>1, <2>2, ScrollCellsIs
  <2>4. /\ FbTyped(r) /\ r.cells = up /\ r.x = 0 /\ r.smeared = 0 /\ r.shown = Drawn(up)
        /\ r.y = Bottom
    BY <1>5, <2>1, <2>3, AtIsTyped
  <2>5. r = Erased(up, 0, Bottom)
    BY <1>2, <1>5, <2>4, ErasedIs, SameFb
  <2>6. Down(u) = r
    BY <1>6, <1>8, <2>1, GridIs DEF Down, ScrollUp, AtY, Bottom
  <2>7. QED
    BY <1>1, <1>2, <1>7, <1>8, <2>5, <2>6
<1>9. CASE y # Bottom
  <2>1. PICK r : r = AtY(u, y + 1)
    OBVIOUS
  <2>2. y + 1 \in GridRow /\ y + 1 \in 0 .. FB_ROWS
    BY <1>9, GridIs DEF GridRow
  <2>3. /\ FbTyped(r) /\ r.cells = cells /\ r.x = 0 /\ r.smeared = 0 /\ r.shown = Drawn(cells)
        /\ r.y = y + 1
    BY <1>6, <2>1, <2>2, AtIsTyped
  <2>4. r = Erased(cells, 0, y + 1)
    BY <1>5, <2>2, <2>3, ErasedIs, SameFb
  <2>5. Down(u) = r
    BY <1>6, <1>9, <2>1, GridIs DEF Down, GridRow, Bottom
  <2>6. QED
    BY <1>1, <1>2, <1>7, <1>9, <2>4, <2>5
<1>10. QED
  BY <1>8, <1>9

LEMMA AtErased ==
    ASSUME NEW cells \in Grids, NEW x \in GridCol, NEW y \in GridRow, NEW a \in GridCol
    PROVE  AtX(Erased(cells, x, y), a) = Erased(cells, a, y)
<1>1. PICK e, u : e = Erased(cells, x, y) /\ u = AtX(e, a)
  OBVIOUS
<1>2. a \in 0 .. FB_COLS
  BY GridIs DEF GridCol
<1>3. /\ FbTyped(e) /\ e.cells = cells /\ e.shown = Drawn(cells)
      /\ e.x = x /\ e.y = y /\ e.smeared = 0
  BY <1>1, ErasedIs
<1>4. /\ FbTyped(u) /\ u.x = a /\ u.y = y /\ u.cells = cells /\ u.shown = Drawn(cells)
      /\ u.smeared = 0
  BY <1>1, <1>2, <1>3, AtIsTyped
<1>5. QED
  BY <1>1, <1>4, ErasedIs, SameFb

\* One back crosses the start of a row, but not of the screen.
LEMMA BackIs ==
    ASSUME NEW cells \in Grids, NEW x \in GridCol, NEW y \in GridRow
    PROVE  Back(Erased(cells, x, y))
             = IF x > 0 THEN Erased(cells, x - 1, y)
               ELSE IF y > 0 THEN Erased(cells, FB_COLS - 1, y - 1)
               ELSE Erased(cells, x, y)
<1>1. PICK f : f = Erased(cells, x, y)
  OBVIOUS
<1>2. f = [cells |-> cells, shown |-> Drawn(cells), x |-> x, y |-> y, smeared |-> 0]
  BY <1>1 DEF Erased
<1>3. [f EXCEPT !.x = @ - 1] = Erased(cells, x - 1, y)
  BY <1>2 DEF Erased
<1>4. [f EXCEPT !.x = FB_COLS - 1, !.y = @ - 1] = Erased(cells, FB_COLS - 1, y - 1)
  <2> DEFINE g == [f EXCEPT !.x = FB_COLS - 1]
  <2>1. g = [cells |-> cells, shown |-> Drawn(cells), x |-> FB_COLS - 1, y |-> y, smeared |-> 0]
    BY <1>2
  <2> HIDE DEF g
  <2>2. [g EXCEPT !.y = @ - 1] = Erased(cells, FB_COLS - 1, y - 1)
    BY <2>1 DEF Erased
  <2>3. QED
    BY <2>2 DEF g
<1>5. f.x = x /\ f.y = y
  BY <1>2
<1>6. Back(f) = IF x > 0 THEN Erased(cells, x - 1, y)
                ELSE IF y > 0 THEN Erased(cells, FB_COLS - 1, y - 1) ELSE f
  BY <1>3, <1>4, <1>5, Zenon DEF Back
<1>7. QED
  BY <1>1, <1>6

\* A character: what becomes of the cells and of the cursor.
LEMMA FbPutCharIs ==
    ASSUME NEW cells \in Grids, NEW x \in GridCol, NEW y \in GridRow, NEW c \in Typeset
    PROVE  LET g == FbPutChar(Complete(cells, x, y), c)
           IN  /\ c = CR => g = Complete(cells, 0, y)
               /\ c = LF => g = IF y = Bottom THEN Complete(LiftedCells(cells), 0, Bottom)
                                ELSE Complete(cells, 0, y + 1)
               /\ c = BS => g = IF x > 0 THEN Complete(Put(cells, x - 1, y, Space), x - 1, y)
                                ELSE IF y > 0
                                THEN Complete(Put(cells, FB_COLS - 1, y - 1, Space), FB_COLS - 1, y - 1)
                                ELSE Complete(Put(cells, x, y, Space), x, y)
               /\ c \in Letters => g = IF x + 1 # FB_COLS THEN Complete(Put(cells, x, y, c), x + 1, y)
                                  ELSE IF y # Bottom THEN Complete(Put(cells, x, y, c), 0, y + 1)
                                  ELSE Complete(LiftedCells(Put(cells, x, y, c)), 0, Bottom)
<1>1. PICK f, e : f = Complete(cells, x, y) /\ e = Erased(cells, x, y)
  OBVIOUS
<1>2. EraseCursor(f) = e
  BY <1>1, EraseIs
<1>3. /\ c = CR => FbPutChar(f, c) = DrawCursor(AtX(e, 0))
      /\ c = LF => FbPutChar(f, c) = DrawCursor(FbNewline(e))
      /\ c = BS => FbPutChar(f, c) = DrawCursor(PutCell(Back(e), Space))
      /\ c \in Letters => FbPutChar(f, c) = DrawCursor(Forward(PutCell(e, c)))
  BY <1>2, PutCharOf, Controls, LetterIsNone
<1>4. /\ 0 \in GridCol /\ Bottom \in GridRow /\ LiftedCells(cells) \in Grids
      /\ y # Bottom => y + 1 \in GridRow
  BY NewlineIs, GridIs
<1>5. c = CR => FbPutChar(f, c) = Complete(cells, 0, y)
  BY <1>1, <1>3, <1>4, AtErased, DrawIs
<1>6. c = LF => FbPutChar(f, c) = IF y = Bottom THEN Complete(LiftedCells(cells), 0, Bottom)
                                  ELSE Complete(cells, 0, y + 1)
  <2>1. FbNewline(e) = IF y = Bottom THEN Erased(LiftedCells(cells), 0, Bottom)
                       ELSE Erased(cells, 0, y + 1)
    BY <1>1, NewlineIs
  <2>2. /\ DrawCursor(Erased(LiftedCells(cells), 0, Bottom)) = Complete(LiftedCells(cells), 0, Bottom)
        /\ y # Bottom => DrawCursor(Erased(cells, 0, y + 1)) = Complete(cells, 0, y + 1)
    BY <1>4, DrawIs
  <2>3. QED
    BY <1>3, <2>1, <2>2
<1>7. c = BS => FbPutChar(f, c) = IF x > 0 THEN Complete(Put(cells, x - 1, y, Space), x - 1, y)
                                ELSE IF y > 0
                                THEN Complete(Put(cells, FB_COLS - 1, y - 1, Space), FB_COLS - 1, y - 1)
                                ELSE Complete(Put(cells, x, y, Space), x, y)
  <2>1. ASSUME NEW a \in GridCol, NEW b \in GridRow
        PROVE  DrawCursor(PutCell(Erased(cells, a, b), Space)) = Complete(Put(cells, a, b, Space), a, b)
    BY PutCellIs, DrawIs, GridIs
  <2>2. CASE x > 0
    <3>1. x - 1 \in GridCol
      BY <2>2, GridIs DEF GridCol
    <3>2. Back(e) = Erased(cells, x - 1, y)
      BY <1>1, <2>2, BackIs
    <3>3. QED
      BY <1>3, <2>1, <2>2, <3>1, <3>2
  <2>3. CASE ~ (x > 0) /\ y > 0
    <3>1. y - 1 \in GridRow /\ FB_COLS - 1 \in GridCol
      BY <2>3, GridIs DEF GridRow
    <3>2. Back(e) = Erased(cells, FB_COLS - 1, y - 1)
      BY <1>1, <2>3, BackIs
    <3>3. QED
      BY <1>3, <2>1, <2>3, <3>1, <3>2
  <2>4. CASE ~ (x > 0) /\ ~ (y > 0)
    <3>1. Back(e) = e
      BY <1>1, <2>4, BackIs
    <3>2. QED
      BY <1>1, <1>3, <2>1, <2>4, <3>1
  <2>5. QED
    BY <2>2, <2>3, <2>4
<1>8. ASSUME c \in Letters
      PROVE  FbPutChar(f, c) = IF x + 1 # FB_COLS THEN Complete(Put(cells, x, y, c), x + 1, y)
                               ELSE IF y # Bottom THEN Complete(Put(cells, x, y, c), 0, y + 1)
                               ELSE Complete(LiftedCells(Put(cells, x, y, c)), 0, Bottom)
  <2>1. PICK after, g : after = Put(cells, x, y, c) /\ g = Erased(after, x, y)
    OBVIOUS
  <2>2. after \in Grids /\ PutCell(e, c) = g
    BY <1>1, <1>8, <2>1, PutCellIs
  <2>3. g.x = x
    BY <2>1, <2>2, ErasedIs
  <2>4. x + 1 # FB_COLS => x + 1 \in GridCol /\ [g EXCEPT !.x = @ + 1] = Erased(after, x + 1, y)
    <3>1. x + 1 # FB_COLS => x + 1 \in GridCol
      BY GridIs DEF GridCol
    <3>2. [g EXCEPT !.x = @ + 1] = AtX(g, x + 1)
      BY <2>3 DEF AtX
    <3>3. QED
      BY <2>1, <2>2, <3>1, <3>2, AtErased
  <2>5. FbNewline(g) = IF y = Bottom THEN Erased(LiftedCells(after), 0, Bottom)
                       ELSE Erased(after, 0, y + 1)
    BY <2>1, <2>2, NewlineIs
  <2>6. Forward(g) = IF x + 1 >= FB_COLS THEN FbNewline(g) ELSE Erased(after, x + 1, y)
    <3>1. ~ (x + 1 >= FB_COLS) => x + 1 # FB_COLS
      BY GridIs
    <3>2. QED
      BY <2>3, <2>4, <3>1 DEF Forward
  <2>7. x + 1 >= FB_COLS <=> x + 1 = FB_COLS
    BY GridIs
  <2>8. FbPutChar(f, c) = DrawCursor(Forward(g))
    BY <1>3, <1>8, <2>2
  <2>9. LiftedCells(after) \in Grids
    BY <2>2, NewlineIs, <1>4
  <2>10. FbPutChar(f, c) = IF x + 1 # FB_COLS THEN Complete(after, x + 1, y)
                          ELSE IF y # Bottom THEN Complete(after, 0, y + 1)
                          ELSE Complete(LiftedCells(after), 0, Bottom)
    <3>1. CASE x + 1 # FB_COLS
      BY <2>2, <2>4, <2>6, <2>7, <2>8, <3>1, DrawIs
    <3>2. CASE x + 1 = FB_COLS /\ y # Bottom
      BY <1>4, <2>2, <2>5, <2>6, <2>7, <2>8, <3>2, DrawIs
    <3>3. CASE x + 1 = FB_COLS /\ y = Bottom
      BY <1>4, <2>5, <2>6, <2>7, <2>8, <2>9, <3>3, DrawIs
    <3>4. QED
      BY <3>1, <3>2, <3>3
  <2>11. QED
    BY <2>1, <2>10
<1>9. QED
  BY <1>1, <1>5, <1>6, <1>7, <1>8

\* So the screen complies with the cells after every character.
LEMMA FbComplies ==
    ASSUME NEW f, Complies(f), NEW c \in Typeset
    PROVE  Complies(FbPutChar(f, c))
<1>1. PICK cells \in Grids, x \in GridCol, y \in GridRow : f = Complete(cells, x, y)
  BY DEF Complies
<1> DEFINE g == FbPutChar(f, c)
<1>2. ASSUME NEW a \in GridCol, NEW b \in GridRow, NEW d \in Letters
      PROVE  Put(cells, a, b, d) \in Grids
  BY PutCellIs
<1>3. ASSUME NEW a \in Grids PROVE LiftedCells(a) \in Grids
  BY NewlineIs, GridIs
<1>4. /\ c = CR => g = Complete(cells, 0, y)
      /\ c = LF => g = IF y = Bottom THEN Complete(LiftedCells(cells), 0, Bottom)
                       ELSE Complete(cells, 0, y + 1)
      /\ c = BS => g = IF x > 0 THEN Complete(Put(cells, x - 1, y, Space), x - 1, y)
                       ELSE IF y > 0
                       THEN Complete(Put(cells, FB_COLS - 1, y - 1, Space), FB_COLS - 1, y - 1)
                       ELSE Complete(Put(cells, x, y, Space), x, y)
      /\ c \in Letters => g = IF x + 1 # FB_COLS THEN Complete(Put(cells, x, y, c), x + 1, y)
                              ELSE IF y # Bottom THEN Complete(Put(cells, x, y, c), 0, y + 1)
                              ELSE Complete(LiftedCells(Put(cells, x, y, c)), 0, Bottom)
  BY <1>1, FbPutCharIs
<1>5. /\ x > 0 => x - 1 \in GridCol
      /\ y > 0 => y - 1 \in GridRow
      /\ x + 1 # FB_COLS => x + 1 \in GridCol
      /\ y # Bottom => y + 1 \in GridRow
  BY GridIs DEF GridCol, GridRow, Bottom
<1> HIDE DEF g
<1>6. \E cs \in Grids, a \in GridCol, b \in GridRow : g = Complete(cs, a, b)
  <2>1. CASE c = CR
    BY <1>4, <2>1, GridIs
  <2>2. CASE c = LF
    BY <1>3, <1>4, <1>5, <2>2, GridIs
  <2>3. CASE c = BS
    BY <1>2, <1>4, <1>5, <2>3, GridIs
  <2>4. CASE c \in Letters
    BY <1>2, <1>3, <1>4, <1>5, <2>4, GridIs
  <2>5. QED
    BY <2>1, <2>2, <2>3, <2>4 DEF Typeset
<1>7. QED
  BY <1>6 DEF Complies, g

-----------------------------------------------------------------------------
(* Texts that end alike.                                                   *)

\* One is the end of the other, whichever is shorter.
EndAlike(s, t) ==
    \A i \in Nat \ {0} : i <= Len(s) /\ i <= Len(t) => s[Len(s) + 1 - i] = t[Len(t) + 1 - i]

\* The shorter of two texts that end alike is a suffix of the other.
LEMMA SuffixIs ==
    ASSUME NEW A, NEW B, NEW s \in Seq(A), NEW t \in Seq(B), EndAlike(s, t), Len(s) <= Len(t)
    PROVE  IsSuffix(s, t)
<1> DEFINE m == Len(s)
           n == Len(t)
           r == [i \in 1 .. m |-> s[(m - i) + 1]]
           q == [i \in 1 .. n |-> t[(n - i) + 1]]
<1>1. m \in Nat /\ n \in Nat /\ m <= n
  OBVIOUS
<1>2. Reverse(s) = r /\ Reverse(t) = q
  BY DEF Reverse
<1>3. \A i \in 1 .. m : (m - i) + 1 \in 1 .. m
  BY <1>1
<1>4. \A i \in 1 .. n : (n - i) + 1 \in 1 .. n
  BY <1>1
<1>5. r \in Seq(A) /\ Len(r) = m
  BY <1>1, <1>3, ElementOfSeq
<1>6. q \in Seq(B) /\ Len(q) = n
  BY <1>1, <1>4, ElementOfSeq
<1>7. \A i \in 1 .. m : r[i] = q[i]
  <2>1. SUFFICES ASSUME NEW i \in 1 .. m PROVE r[i] = q[i]
    OBVIOUS
  <2>2. i \in Nat \ {0} /\ i <= m /\ i <= n /\ (m - i) + 1 = m + 1 - i /\ (n - i) + 1 = n + 1 - i
    BY <1>1
  <2>3. s[m + 1 - i] = t[n + 1 - i]
    BY <2>2 DEF EndAlike
  <2>4. r[i] = s[(m - i) + 1] /\ q[i] = t[(n - i) + 1]
    BY <1>1, <2>2
  <2>5. QED
    BY <2>2, <2>3, <2>4
<1> HIDE DEF r, q
<1>8. SubSeq(r, 1, m) = SubSeq(q, 1, m)
  BY <1>1, <1>5, <1>6, <1>7
<1>9. QED
  BY <1>1, <1>2, <1>5, <1>6, <1>8 DEF IsSuffix, IsPrefix

LEMMA AlikeOrNot ==
    ASSUME NEW A, NEW B, NEW s \in Seq(A), NEW t \in Seq(B), EndAlike(s, t)
    PROVE  IsSuffix(s, t) \/ IsSuffix(t, s)
<1>1. Len(s) \in Nat /\ Len(t) \in Nat
  OBVIOUS
<1>2. EndAlike(t, s)
  BY DEF EndAlike
<1>3. Len(s) <= Len(t) \/ Len(t) <= Len(s)
  BY <1>1
<1>4. QED
  BY <1>2, <1>3, SuffixIs

\* One more character, the same on both.
LEMMA AlikeAppended ==
    ASSUME NEW A, NEW B, NEW s \in Seq(A), NEW t \in Seq(B), NEW c \in A, c \in B, EndAlike(s, t)
    PROVE  EndAlike(Append(s, c), Append(t, c))
<1> DEFINE m == Len(s)
           n == Len(t)
<1>1. /\ m \in Nat /\ n \in Nat
      /\ Len(Append(s, c)) = m + 1 /\ Len(Append(t, c)) = n + 1
      /\ Append(s, c)[m + 1] = c /\ Append(t, c)[n + 1] = c
      /\ \A i \in 1 .. m : Append(s, c)[i] = s[i]
      /\ \A i \in 1 .. n : Append(t, c)[i] = t[i]
  OBVIOUS
<1>2. SUFFICES ASSUME NEW i \in Nat \ {0}, i <= m + 1, i <= n + 1
               PROVE  Append(s, c)[(m + 1) + 1 - i] = Append(t, c)[(n + 1) + 1 - i]
  BY <1>1 DEF EndAlike
<1>3. CASE i = 1
  BY <1>1, <1>3
<1>4. CASE i # 1
  <2>1. i - 1 \in Nat \ {0} /\ i - 1 <= m /\ i - 1 <= n
    BY <1>1, <1>2, <1>4
  <2>2. s[m + 1 - (i - 1)] = t[n + 1 - (i - 1)]
    BY <2>1 DEF EndAlike
  <2>3. /\ (m + 1) + 1 - i = m + 1 - (i - 1) /\ (n + 1) + 1 - i = n + 1 - (i - 1)
        /\ m + 1 - (i - 1) \in 1 .. m /\ n + 1 - (i - 1) \in 1 .. n
    BY <1>1, <2>1
  <2>4. QED
    BY <1>1, <2>2, <2>3
<1>5. QED
  BY <1>3, <1>4

\* Shortening a text at its front, or both at their ends, keeps them alike.
LEMMA AlikeCut ==
    ASSUME NEW s, NEW t, NEW u, Len(s) \in Nat, Len(t) \in Nat, Len(u) \in Nat,
           EndAlike(s, t), Len(u) <= Len(s),
           \A i \in 1 .. Len(u) : u[i] = s[Len(s) - Len(u) + i]
    PROVE  EndAlike(u, t)
<1>1. SUFFICES ASSUME NEW i \in Nat \ {0}, i <= Len(u), i <= Len(t)
               PROVE  u[Len(u) + 1 - i] = t[Len(t) + 1 - i]
  BY DEF EndAlike
<1> DEFINE j == Len(u) + 1 - i
<1>2. j \in 1 .. Len(u) /\ Len(s) - Len(u) + j = Len(s) + 1 - i /\ i <= Len(s)
  BY <1>1
<1>3. u[j] = s[Len(s) + 1 - i]
  BY <1>2
<1>4. s[Len(s) + 1 - i] = t[Len(t) + 1 - i]
  BY <1>1, <1>2 DEF EndAlike
<1>5. QED
  BY <1>3, <1>4

LEMMA AlikeShortened ==
    ASSUME NEW s, NEW t, NEW u, NEW v,
           Len(s) \in Nat, Len(t) \in Nat, Len(u) \in Nat, Len(v) \in Nat, EndAlike(s, t),
           Len(u) + 1 = Len(s), \A i \in 1 .. Len(u) : u[i] = s[i],
           Len(v) + 1 = Len(t), \A i \in 1 .. Len(v) : v[i] = t[i]
    PROVE  EndAlike(u, v)
<1>1. SUFFICES ASSUME NEW i \in Nat \ {0}, i <= Len(u), i <= Len(v)
               PROVE  u[Len(u) + 1 - i] = v[Len(v) + 1 - i]
  BY DEF EndAlike
<1>2. i + 1 \in Nat \ {0} /\ i + 1 <= Len(s) /\ i + 1 <= Len(t)
  BY <1>1
<1>3. s[Len(s) + 1 - (i + 1)] = t[Len(t) + 1 - (i + 1)]
  BY <1>2 DEF EndAlike
<1>4. /\ Len(s) + 1 - (i + 1) = Len(u) + 1 - i /\ Len(u) + 1 - i \in 1 .. Len(u)
      /\ Len(t) + 1 - (i + 1) = Len(v) + 1 - i /\ Len(v) + 1 - i \in 1 .. Len(v)
  BY <1>1
<1>5. QED
  BY <1>3, <1>4

-----------------------------------------------------------------------------
(* The text on the screen up to the cursor.                                *)

Text(f) == [i \in 1 .. f.y * FB_COLS + f.x |-> f.cells[(i - 1) \div FB_COLS][(i - 1) % FB_COLS]]

\* The n-th cell, row by row.
CellAt(cells, n) == cells[n \div FB_COLS][n % FB_COLS]

\* Rows and columns number the cells one after the other.
LEMMA Place ==
    ASSUME NEW y \in Nat, NEW x \in GridCol
    PROVE  /\ y * FB_COLS + x \in Nat
           /\ (y * FB_COLS + x) \div FB_COLS = y /\ (y * FB_COLS + x) % FB_COLS = x
<1> DEFINE F == FB_COLS
           n == F * y + x
           d == n \div F
<1>1. F \in Nat \ {0} /\ x \in Nat /\ x < F
  BY GridIs
<1>2. F * y \in Nat /\ n \in Nat
  BY <1>1, Times
<1>3. d \in Nat /\ n % F \in 0 .. F - 1 /\ n = F * d + (n % F)
  BY <1>1, <1>2, Division
<1> HIDE DEF F, d
<1>4. F * d \in Nat
  BY <1>1, <1>3, Times
<1>5. ~ (d < y)
  <2>1. d < y => F * d + F <= F * y
    BY <1>1, <1>3, Times
  <2>2. QED
    BY <1>1, <1>2, <1>3, <1>4, <2>1
<1>6. ~ (y < d)
  <2>1. y < d => F * y + F <= F * d
    BY <1>1, <1>3, Times
  <2>2. QED
    BY <1>1, <1>2, <1>3, <1>4, <2>1
<1>7. d = y
  BY <1>3, <1>5, <1>6
<1>8. n % F = x
  BY <1>1, <1>2, <1>3, <1>7
<1>9. n = y * FB_COLS + x
  BY <1>1 DEF F
<1>10. QED
  BY <1>2, <1>7, <1>8, <1>9 DEF F, d

\* The text is the cells before the cursor, letters all of them.
LEMMA TextIs ==
    ASSUME NEW cells \in Grids, NEW x \in GridCol, NEW y \in GridRow
    PROVE  LET text == Text(Complete(cells, x, y))
               n == y * FB_COLS + x
           IN  /\ n \in Nat /\ text \in Seq(Letters) /\ Len(text) = n
               /\ \A i \in 1 .. n : text[i] = CellAt(cells, i - 1)
<1> DEFINE n == y * FB_COLS + x
           text == [i \in 1 .. n |-> CellAt(cells, i - 1)]
<1>1. Text(Complete(cells, x, y)) = text
  BY DEF Text, Complete, CellAt
<1>2. n \in Nat /\ y \in Nat /\ n \div FB_COLS = y
  BY Place, GridIs
<1>3. ASSUME NEW i \in 1 .. n PROVE CellAt(cells, i - 1) \in Letters
  <2> DEFINE k == i - 1
  <2>1. k \in Nat /\ k < n
    BY <1>2
  <2>2. k \div FB_COLS \in Nat /\ k % FB_COLS \in 0 .. FB_COLS - 1
    BY <2>1, GridIs, Division
  <2>3. k \div FB_COLS <= n \div FB_COLS
    <3>1. k = FB_COLS * (k \div FB_COLS) + (k % FB_COLS)
      BY <2>1, GridIs, Division
    <3>2. FB_COLS * (k \div FB_COLS) \in Nat
      BY <2>2, GridIs, Times
    <3>3. FB_COLS * (k \div FB_COLS) <= n
      BY <1>2, <2>1, <2>2, <3>1, <3>2
    <3>4. QED
      BY <1>2, <2>2, <3>3, GridIs, Quotient
  <2>4. k \div FB_COLS \in GridRow /\ k % FB_COLS \in GridCol
    BY <1>2, <2>2, <2>3, GridIs DEF GridRow, GridCol, Bottom
  <2>5. QED
    BY <2>4 DEF CellAt, Grids
<1> HIDE DEF n
<1>4. text \in Seq(Letters) /\ Len(text) = n /\ \A i \in 1 .. n : text[i] = CellAt(cells, i - 1)
  BY <1>2, <1>3
<1>5. QED
  BY <1>1, <1>2, <1>4 DEF n

\* Writing a cell changes that one only.
LEMMA PutAt ==
    ASSUME NEW cells \in Grids, NEW x \in GridCol, NEW y \in GridRow, NEW c,
           NEW k \in Nat, k <= y * FB_COLS + x
    PROVE  CellAt(Put(cells, x, y, c), k) = IF k = y * FB_COLS + x THEN c ELSE CellAt(cells, k)
<1> DEFINE n == y * FB_COLS + x
           row == k \div FB_COLS
           col == k % FB_COLS
<1>1. n \in Nat /\ n \div FB_COLS = y /\ n % FB_COLS = x
  BY Place, GridIs
<1>2. row \in Nat /\ col \in 0 .. FB_COLS - 1 /\ k = FB_COLS * row + col
  BY GridIs, Division
<1>3. n = FB_COLS * y + x
  BY GridIs
<1> HIDE DEF n, row, col
<1>4. k = n <=> row = y /\ col = x
  <2>1. k = n => row = y /\ col = x
    BY <1>1 DEF row, col
  <2>2. row = y /\ col = x => k = n
    BY <1>2, <1>3
  <2>3. QED
    BY <2>1, <2>2
<1>5. Put(cells, x, y, c)[row][col] = IF row = y /\ col = x THEN c ELSE cells[row][col]
  <2>1. row \in GridRow
    <3>1. y \in Nat /\ n \in Nat /\ FB_COLS * row \in Nat /\ FB_COLS * row <= n
      BY <1>1, <1>2, GridIs, Times DEF n
    <3>2. row <= n \div FB_COLS
      BY <1>2, <3>1, GridIs, Quotient
    <3>3. QED
      BY <1>1, <1>2, <3>1, <3>2, GridIs DEF GridRow
  <2>2. cells[row] \in [GridCol -> Letters] /\ col \in GridCol
    BY <1>2, <2>1 DEF Grids, GridCol
  <2>3. QED
    BY <2>1, <2>2 DEF Put, InGrid, Grids
<1>6. QED
  BY <1>4, <1>5 DEF CellAt, n, row, col

\* Scrolling up moves every cell a row's length to the front.
LEMMA ScrolledAt ==
    ASSUME NEW cells \in Grids, NEW k \in Nat, k < Bottom * FB_COLS
    PROVE  CellAt(LiftedCells(cells), k) = CellAt(cells, k + FB_COLS)
<1> DEFINE row == k \div FB_COLS
           col == k % FB_COLS
<1>1. row \in Nat /\ col \in GridCol /\ k = FB_COLS * row + col /\ Bottom \in Nat
  BY GridIs, Division DEF GridCol
<1>2. row < Bottom
  <2>1. ~ (Bottom <= row)
    <3>1. FB_COLS * Bottom = Bottom * FB_COLS /\ FB_COLS * Bottom \in Nat
      BY <1>1, GridIs
    <3>2. ~ (FB_COLS * Bottom <= k)
      BY <3>1
    <3>3. QED
      BY <1>1, <3>2, GridIs, Quotient
  <2>2. QED
    BY <1>1, <2>1
<1> HIDE DEF row, col
<1>3. row \in GridRow /\ row # Bottom
  BY <1>1, <1>2 DEF GridRow, Bottom
<1>4. k + FB_COLS = (row + 1) * FB_COLS + col
  BY <1>1, GridIs
<1>5. (k + FB_COLS) \div FB_COLS = row + 1 /\ (k + FB_COLS) % FB_COLS = col
  BY <1>1, <1>4, Place
<1>6. LiftedCells(cells)[row] = cells[row + 1]
  BY <1>3 DEF LiftedCells
<1>7. QED
  BY <1>5, <1>6 DEF CellAt, row, col

\* A character that prints extends the text, which may lose its front.
LEMMA PrintedComplete ==
    ASSUME NEW f, Complies(f), NEW c \in Letters, NEW T \in Seq(Letters), EndAlike(Text(f), T)
    PROVE  EndAlike(Text(FbPutChar(f, c)), Append(T, c))
<1>1. PICK cells \in Grids, x \in GridCol, y \in GridRow : f = Complete(cells, x, y)
  BY DEF Complies
<1> DEFINE n == y * FB_COLS + x
           after == Put(cells, x, y, c)
           long == Append(Text(f), c)
           g == FbPutChar(f, c)
<1>2. /\ n \in Nat /\ Text(f) \in Seq(Letters) /\ Len(Text(f)) = n
      /\ \A i \in 1 .. n : Text(f)[i] = CellAt(cells, i - 1)
  BY <1>1, TextIs
<1>3. after \in Grids
  BY PutCellIs
<1>4. g = IF x + 1 # FB_COLS THEN Complete(after, x + 1, y)
          ELSE IF y # Bottom THEN Complete(after, 0, y + 1)
          ELSE Complete(LiftedCells(after), 0, Bottom)
  BY <1>1, FbPutCharIs DEF Typeset
<1>5. /\ long \in Seq(Letters) /\ Len(long) = n + 1 /\ long[n + 1] = c
      /\ \A i \in 1 .. n : long[i] = Text(f)[i]
  BY <1>2
<1>6. EndAlike(long, Append(T, c))
  BY <1>2, AlikeAppended
<1>7. ASSUME NEW i \in 1 .. n + 1 PROVE long[i] = CellAt(after, i - 1)
  <2>1. i - 1 \in Nat /\ i - 1 <= n
    BY <1>2
  <2>2. CellAt(after, i - 1) = IF i - 1 = n THEN c ELSE CellAt(cells, i - 1)
    BY <2>1, PutAt
  <2>3. CASE i = n + 1
    BY <1>2, <1>5, <2>2, <2>3
  <2>4. CASE i # n + 1
    <3>1. i \in 1 .. n /\ i - 1 # n
      BY <1>2, <2>4
    <3>2. QED
      BY <1>2, <1>5, <2>2, <3>1
  <2>5. QED
    BY <2>3, <2>4
<1>8. x \in Nat /\ y \in Nat /\ Bottom \in Nat /\ FB_COLS \in Nat \ {0}
  BY GridIs
<1> DEFINE Fits(u) == /\ Len(u) \in Nat /\ Len(u) <= n + 1
                      /\ \A i \in 1 .. Len(u) : u[i] = long[n + 1 - Len(u) + i]
<1> HIDE DEF n, after, long, g
<1>9. ASSUME NEW a \in GridCol, NEW b \in GridRow, b * FB_COLS + a = n + 1,
             g = Complete(after, a, b)
      PROVE  Fits(Text(g))
  <2>1. PICK u : u = Text(g)
    OBVIOUS
  <2>2. Len(u) = n + 1 /\ \A i \in 1 .. n + 1 : u[i] = CellAt(after, i - 1)
    BY <1>3, <1>9, <2>1, TextIs
  <2>3. \A i \in 1 .. n + 1 : n + 1 - Len(u) + i = i
    BY <1>2, <2>2
  <2>4. Fits(u)
    BY <1>2, <1>7, <2>2, <2>3
  <2>5. QED
    BY <2>1, <2>4, Zenon
<1> HIDE DEF Fits
<1>10. Fits(Text(g))
  <2>1. CASE x + 1 # FB_COLS
    <3>1. x + 1 \in GridCol
      BY <2>1, GridIs DEF GridCol
    <3>2. y * FB_COLS + (x + 1) = n + 1
      BY <1>8 DEF n
    <3>3. QED
      BY <1>4, <1>9, <2>1, <3>1, <3>2
  <2>2. CASE x + 1 = FB_COLS /\ y # Bottom
    <3>1. y + 1 \in GridRow /\ 0 \in GridCol
      BY <2>2, GridIs
    <3>2. (y + 1) * FB_COLS + 0 = n + 1
      BY <1>8, <2>2 DEF n
    <3>3. QED
      BY <1>4, <1>9, <2>2, <3>1, <3>2
  <2>3. CASE x + 1 = FB_COLS /\ y = Bottom
    <3>1. PICK up : up = LiftedCells(after)
      OBVIOUS
    <3>2. PICK u : u = Text(Complete(up, 0, Bottom))
      OBVIOUS
    <3>3. PICK m : m = Bottom * FB_COLS
      OBVIOUS
    <3>4. g = Complete(up, 0, Bottom) /\ up \in Grids
      BY <1>3, <1>4, <2>3, <3>1, NewlineIs
    <3>5. PICK a \in GridCol, b \in GridRow : a = 0 /\ b = Bottom
      BY GridIs
    <3>6. /\ b * FB_COLS + a \in Nat /\ Len(u) = b * FB_COLS + a
          /\ \A i \in 1 .. b * FB_COLS + a : u[i] = CellAt(up, i - 1)
      BY <3>2, <3>4, <3>5, TextIs
    <3>7. m \in Nat /\ m + FB_COLS = n + 1
      BY <1>8, <2>3, <3>3 DEF n
    <3>8. b * FB_COLS + a = m
      BY <1>8, <3>3, <3>5
    <3>9. Len(u) = m /\ \A i \in 1 .. m : u[i] = CellAt(up, i - 1)
      BY <3>6, <3>8
    <3>10. ASSUME NEW i \in 1 .. m PROVE u[i] = long[n + 1 - Len(u) + i]
      <4>1. i - 1 \in Nat /\ i - 1 < Bottom * FB_COLS
        BY <3>3, <3>7
      <4>2. u[i] = CellAt(after, (i - 1) + FB_COLS)
        BY <1>3, <3>1, <3>9, <4>1, ScrolledAt
      <4>3. /\ (i - 1) + FB_COLS = (i + FB_COLS) - 1 /\ n + 1 - Len(u) + i = i + FB_COLS
            /\ i + FB_COLS \in 1 .. n + 1
        BY <1>2, <1>8, <3>7, <3>9
      <4>4. QED
        BY <1>7, <4>2, <4>3
    <3>11. Fits(u)
      BY <1>2, <1>8, <3>7, <3>9, <3>10 DEF Fits
    <3>12. QED
      BY <3>2, <3>4, <3>11, Zenon
  <2>4. QED
    BY <2>1, <2>2, <2>3
<1>11. PICK u : u = Text(g)
  OBVIOUS
<1>12. PICK l : l = long
  OBVIOUS
<1>13. /\ Len(u) \in Nat /\ Len(u) <= n + 1
       /\ \A i \in 1 .. Len(u) : u[i] = l[n + 1 - Len(u) + i]
  BY <1>10, <1>11, <1>12, Zenon DEF Fits
<1>14. Len(Append(T, c)) \in Nat /\ Len(l) \in Nat /\ Len(l) = n + 1
  BY <1>2, <1>5, <1>12
<1>15. Len(u) <= Len(l) /\ \A i \in 1 .. Len(u) : u[i] = l[Len(l) - Len(u) + i]
  BY <1>2, <1>13, <1>14
<1>16. EndAlike(l, Append(T, c))
  BY <1>6, <1>12
<1>17. EndAlike(u, Append(T, c))
  BY <1>13, <1>14, <1>15, <1>16, AlikeCut
<1>18. QED
  BY <1>11, <1>17, Zenon DEF g

\* A backspace takes back the last character, if there is one on the screen.
LEMMA ErasedComplete ==
    ASSUME NEW f, Complies(f), NEW T \in Seq(Letters), NEW V \in Seq(Letters),
           Len(V) + 1 = Len(T), \A i \in 1 .. Len(V) : V[i] = T[i], EndAlike(Text(f), T)
    PROVE  EndAlike(Text(FbPutChar(f, BS)), V)
<1>1. PICK cells \in Grids, x \in GridCol, y \in GridRow : f = Complete(cells, x, y)
  BY DEF Complies
<1> DEFINE n == y * FB_COLS + x
           g == FbPutChar(f, BS)
<1>2. /\ n \in Nat /\ Text(f) \in Seq(Letters) /\ Len(Text(f)) = n
      /\ \A i \in 1 .. n : Text(f)[i] = CellAt(cells, i - 1)
  BY <1>1, TextIs
<1>3. g = IF x > 0 THEN Complete(Put(cells, x - 1, y, Space), x - 1, y)
          ELSE IF y > 0
          THEN Complete(Put(cells, FB_COLS - 1, y - 1, Space), FB_COLS - 1, y - 1)
          ELSE Complete(Put(cells, x, y, Space), x, y)
  BY <1>1, FbPutCharIs DEF Typeset
<1>4. x \in Nat /\ y \in Nat /\ FB_COLS \in Nat \ {0} /\ x < FB_COLS
  BY GridIs
<1> HIDE DEF g, n
<1>5. ASSUME NEW a \in GridCol, NEW b \in GridRow, (b * FB_COLS + a) + 1 = n,
             g = Complete(Put(cells, a, b, Space), a, b)
      PROVE  EndAlike(Text(g), V)
  <2> DEFINE u == Text(g)
             k == b * FB_COLS + a
  <2>1. Put(cells, a, b, Space) \in Grids
    BY PutCellIs, GridIs
  <2>2. k \in Nat /\ Len(u) = k /\ \A i \in 1 .. k : u[i] = CellAt(Put(cells, a, b, Space), i - 1)
    BY <1>5, <2>1, TextIs
  <2>3. ASSUME NEW i \in 1 .. k PROVE u[i] = Text(f)[i]
    <3>1. i - 1 \in Nat /\ i - 1 <= k /\ i - 1 # k /\ i \in 1 .. n
      BY <1>2, <1>5, <2>2
    <3>2. CellAt(Put(cells, a, b, Space), i - 1) = CellAt(cells, i - 1)
      BY <3>1, PutAt
    <3>3. QED
      BY <1>2, <2>2, <3>1, <3>2
  <2>4. Len(u) \in Nat /\ Len(u) + 1 = Len(Text(f)) /\ \A i \in 1 .. Len(u) : u[i] = Text(f)[i]
    BY <1>2, <1>5, <2>2, <2>3
  <2>5. Len(Text(f)) \in Nat /\ Len(T) \in Nat /\ Len(V) \in Nat
    BY <1>2
  <2> HIDE DEF u
  <2>6. EndAlike(u, V)
    BY <2>4, <2>5, AlikeShortened
  <2>7. QED
    BY <2>6 DEF u
<1>6. CASE x > 0
  <2>1. x - 1 \in GridCol
    BY <1>6, GridIs DEF GridCol
  <2>2. (y * FB_COLS + (x - 1)) + 1 = n
    BY <1>4 DEF n
  <2>3. QED
    BY <1>3, <1>5, <1>6, <2>1, <2>2 DEF g
<1>7. CASE ~ (x > 0) /\ y > 0
  <2>1. y - 1 \in GridRow /\ FB_COLS - 1 \in GridCol
    BY <1>7, GridIs DEF GridRow
  <2>2. ((y - 1) * FB_COLS + (FB_COLS - 1)) + 1 = n
    BY <1>4, <1>7 DEF n
  <2>3. QED
    BY <1>3, <1>5, <1>7, <2>1, <2>2 DEF g
<1>8. CASE ~ (x > 0) /\ ~ (y > 0)
  <2>1. Put(cells, x, y, Space) \in Grids
    BY PutCellIs, GridIs
  <2>2. g = Complete(Put(cells, x, y, Space), x, y)
    BY <1>3, <1>8
  <2>3. Len(Text(g)) = y * FB_COLS + x
    BY <2>1, <2>2, TextIs
  <2>4. y * FB_COLS + x = 0
    BY <1>4, <1>8
  <2>5. Len(Text(g)) = 0
    BY <2>3, <2>4
  <2>6. EndAlike(Text(g), V)
    BY <2>5 DEF EndAlike
  <2>7. QED
    BY <2>6 DEF g
<1>9. QED
  BY <1>6, <1>7, <1>8

-----------------------------------------------------------------------------
(* FbPrint puts one character after the other.                             *)

\* The recursion in FoldLeft takes the greatest index off a set of them.
LEMMA MaxIs ==
    ASSUME NEW Q \in SUBSET Nat, NEW m \in Q, \A i \in Q : i <= m
    PROVE  Max(Q) = m
<1>1. \A k \in Q : (\A i \in Q : k >= i) => k = m
  BY SMT
<1>2. \A i \in Q : m >= i
  BY SMT
<1>3. QED
  BY <1>1, <1>2, Zenon DEF Max

\* Printing a text is a sequence of consoles, one character apart.
LEMMA PrintIsSteps ==
    ASSUME NEW A, NEW text \in Seq(A), NEW f
    PROVE  \E v : /\ v[0] = f
                  /\ \A n \in 1 .. Len(text) : v[n] = FbPutChar(v[n - 1], text[n])
                  /\ FbPrint(f, text) = v[Len(text)]
<1> DEFINE Is(D, g) == g = [s \in SUBSET D |->
                              IF s = {} THEN f ELSE FbPutChar(g[s \ {Max(s)}], text[Max(s)])]
           N == Len(text)
           iter == CHOOSE g : Is(DOMAIN text, g)
<1>1. FbPrint(f, text) = iter[DOMAIN text]
  BY Zenon DEF FbPrint, FoldLeft, MapThenFoldSet
<1>2. N \in Nat /\ DOMAIN text = 1 .. N
  OBVIOUS
<1>3. \E g : Is(1 .. 0, g)
  <2> DEFINE g == [s \in SUBSET (1 .. 0) |-> f]
  <2>1. \A s \in SUBSET (1 .. 0) : s = {}
    OBVIOUS
  <2>2. [s \in SUBSET (1 .. 0) |-> IF s = {} THEN f ELSE FbPutChar(g[s \ {Max(s)}], text[Max(s)])] = g
    BY <2>1
  <2>3. QED
    BY <2>2
<1>4. ASSUME NEW k \in Nat, NEW g, Is(1 .. k, g)
      PROVE  \E h : Is(1 .. k + 1, h)
  <2> DEFINE h == [s \in SUBSET (1 .. k + 1) |->
                     IF k + 1 \in s THEN FbPutChar(g[s \ {k + 1}], text[k + 1]) ELSE g[s]]
  <2>1. ASSUME NEW s \in SUBSET (1 .. k + 1)
        PROVE  h[s] = IF s = {} THEN f ELSE FbPutChar(h[s \ {Max(s)}], text[Max(s)])
    <3>1. CASE k + 1 \in s
      <4>1. Max(s) = k + 1
        <5>1. s \in SUBSET Nat /\ \A i \in s : i <= k + 1
          OBVIOUS
        <5>2. QED
          BY <3>1, <5>1, MaxIs
      <4>2. h[s] = FbPutChar(g[s \ {k + 1}], text[k + 1])
        BY <3>1
      <4>3. s \ {k + 1} \in SUBSET (1 .. k + 1) /\ k + 1 \notin s \ {k + 1}
        OBVIOUS
      <4>4. h[s \ {k + 1}] = g[s \ {k + 1}]
        BY <4>3
      <4> HIDE DEF h
      <4>5. QED
        BY <3>1, <4>1, <4>2, <4>4
    <3>2. CASE k + 1 \notin s
      <4>1. s \in SUBSET (1 .. k)
        BY <3>2
      <4>2. h[s] = g[s]
        BY <3>2
      <4>3. g[s] = IF s = {} THEN f ELSE FbPutChar(g[s \ {Max(s)}], text[Max(s)])
        BY <1>4, <4>1, Zenon
      <4>4. h[s \ {Max(s)}] = g[s \ {Max(s)}]
        <5>1. s \ {Max(s)} \in SUBSET (1 .. k + 1) /\ k + 1 \notin s \ {Max(s)}
          BY <3>2
        <5>2. QED
          BY <5>1
      <4> HIDE DEF h
      <4>5. QED
        BY <4>2, <4>3, <4>4
    <3>3. QED
      BY <3>1, <3>2
  <2>2. h = [s \in SUBSET (1 .. k + 1) |-> h[s]]
    OBVIOUS
  <2> HIDE DEF h
  <2>3. Is(1 .. k + 1, h)
    BY <2>1, <2>2, Zenon
  <2>4. QED
    BY <2>3, Zenon
<1>5. \A k \in Nat : \E g : Is(1 .. k, g)
  <2> DEFINE Bad == {k \in Nat : ~ \E g : Is(1 .. k, g)}
  <2>1. ASSUME Bad # {} PROVE FALSE
    <3>1. PICK m \in Bad : \A n \in Bad : m <= n
      BY <2>1, LeastPosition
    <3>2. m \in Nat /\ ~ \E g : Is(1 .. m, g)
      BY Zenon
    <3>3. m # 0
      BY <1>3, <3>2, Zenon
    <3>4. m - 1 \in Nat /\ (m - 1) + 1 = m /\ ~ (m <= m - 1)
      BY <3>2, <3>3
    <3>5. m - 1 \notin Bad
      BY <3>1, <3>4, Zenon
    <3>6. PICK g : Is(1 .. m - 1, g)
      BY <3>4, <3>5, Zenon
    <3> HIDE DEF Is
    <3>7. \E h : Is(1 .. (m - 1) + 1, h)
      BY <1>4, <3>4, <3>6, Zenon
    <3>8. QED
      BY <3>2, <3>4, <3>7, Zenon
  <2>2. QED
    BY <2>1, Zenon
<1>6. Is(DOMAIN text, iter)
  <2>1. \E g : Is(DOMAIN text, g)
    BY <1>2, <1>5, Zenon
  <2> HIDE DEF Is
  <2>2. QED
    BY <2>1, Zenon
<1> HIDE DEF iter, N
<1>7. ASSUME NEW s \in SUBSET (1 .. N)
      PROVE  iter[s] = IF s = {} THEN f ELSE FbPutChar(iter[s \ {Max(s)}], text[Max(s)])
  BY <1>2, <1>6, Zenon
<1> HIDE DEF Is
<1> DEFINE v == [n \in 0 .. N |-> iter[1 .. n]]
<1>8. v[0] = f
  <2>1. v[0] = iter[1 .. 0] /\ 1 .. 0 = {}
    BY <1>2
  <2>2. QED
    BY <1>7, <2>1
<1>9. ASSUME NEW n \in 1 .. N PROVE v[n] = FbPutChar(v[n - 1], text[n])
  <2>1. v[n] = iter[1 .. n] /\ v[n - 1] = iter[1 .. n - 1]
    BY <1>2
  <2>2. 1 .. n \in SUBSET (1 .. N) /\ 1 .. n # {} /\ (1 .. n) \ {n} = 1 .. n - 1
    <3>1. n \in Nat \ {0} /\ n <= N
      BY <1>2
    <3>2. 1 .. n \in SUBSET (1 .. N) /\ n \in 1 .. n
      BY <1>2, <3>1
    <3>3. \A i : i \in 1 .. n /\ i # n <=> i \in 1 .. n - 1
      BY <3>1
    <3>4. (1 .. n) \ {n} = 1 .. n - 1
      BY <3>3
    <3>5. QED
      BY <3>2, <3>4
  <2>3. Max(1 .. n) = n
    <3>1. 1 .. n \in SUBSET Nat /\ n \in 1 .. n /\ \A i \in 1 .. n : i <= n
      BY <1>2
    <3>2. QED
      BY <3>1, MaxIs
  <2>4. iter[1 .. n] = FbPutChar(iter[(1 .. n) \ {Max(1 .. n)}], text[Max(1 .. n)])
    BY <1>7, <2>2
  <2>5. QED
    BY <2>1, <2>2, <2>3, <2>4
<1>10. v[N] = FbPrint(f, text)
  BY <1>1, <1>2
<1>11. QED
  BY <1>8, <1>9, <1>10 DEF N

\* The console shows its cells in the rows where it must.
Sound(f) == \E g : Complies(g) /\ Agrees(f, g)

LEMMA SoundIs ==
    ASSUME NEW f, Sound(f)
    PROVE  FbTyped(f) /\ f.x \in GridCol /\ f.y \in GridRow /\ Text(f) \in Seq(Letters)
<1>1. PICK g : Complies(g) /\ Agrees(f, g)
  BY DEF Sound
<1>2. PICK cells \in Grids, x \in GridCol, y \in GridRow : g = Complete(cells, x, y)
  BY <1>1 DEF Complies
<1>3. g.cells = cells /\ g.x = x /\ g.y = y
  BY <1>2 DEF Complete
<1>4. Text(g) \in Seq(Letters)
  BY <1>2, TextIs
<1>5. Text(f) = Text(g)
  BY <1>1 DEF Agrees, Text
<1>6. QED
  BY <1>1, <1>3, <1>4, <1>5 DEF Agrees

LEMMA SoundPutChar ==
    ASSUME NEW f, Sound(f), NEW c \in Typeset
    PROVE  Sound(FbPutChar(f, c))
<1>1. PICK g : Complies(g) /\ Agrees(f, g)
  BY DEF Sound
<1>2. Complies(FbPutChar(g, c)) /\ Agrees(FbPutChar(f, c), FbPutChar(g, c))
  BY <1>1, FbComplies, PutCharAgrees
<1>3. QED
  BY <1>2 DEF Sound

\* What a character does to the text, also where rows are smeared.
LEMMA PrintedText ==
    ASSUME NEW f, Sound(f), NEW c \in Letters, NEW T \in Seq(Letters), EndAlike(Text(f), T)
    PROVE  EndAlike(Text(FbPutChar(f, c)), Append(T, c))
<1>1. PICK g : Complies(g) /\ Agrees(f, g)
  BY DEF Sound
<1>2. Agrees(FbPutChar(f, c), FbPutChar(g, c))
  BY <1>1, PutCharAgrees DEF Typeset
<1>3. Text(f) = Text(g) /\ Text(FbPutChar(f, c)) = Text(FbPutChar(g, c))
  BY <1>1, <1>2 DEF Agrees, Text
<1>4. EndAlike(Text(g), T)
  BY <1>3
<1>5. EndAlike(Text(FbPutChar(g, c)), Append(T, c))
  BY <1>1, <1>4, PrintedComplete
<1>6. QED
  BY <1>3, <1>5

LEMMA ErasedText ==
    ASSUME NEW f, Sound(f), NEW T \in Seq(Letters), NEW V \in Seq(Letters),
           Len(V) + 1 = Len(T), \A i \in 1 .. Len(V) : V[i] = T[i], EndAlike(Text(f), T)
    PROVE  EndAlike(Text(FbPutChar(f, BS)), V)
<1>1. PICK g : Complies(g) /\ Agrees(f, g)
  BY DEF Sound
<1>2. Agrees(FbPutChar(f, BS), FbPutChar(g, BS))
  BY <1>1, PutCharAgrees DEF Typeset
<1>3. Text(f) = Text(g) /\ Text(FbPutChar(f, BS)) = Text(FbPutChar(g, BS))
  BY <1>1, <1>2 DEF Agrees, Text
<1>4. EndAlike(Text(g), T)
  BY <1>3
<1>5. EndAlike(Text(FbPutChar(g, BS)), V)
  BY <1>1, <1>4, ErasedComplete
<1>6. QED
  BY <1>3, <1>5

\* A text of one character is that character put.
LEMMA FbPrintOne ==
    ASSUME NEW f, NEW c \in Typeset
    PROVE  FbPrint(f, <<c>>) = FbPutChar(f, c)
<1>1. PICK text : text = <<c>>
  OBVIOUS
<1>2. text \in Seq(Typeset) /\ Len(text) = 1 /\ text[1] = c
  BY <1>1
<1>3. PICK v : /\ v[0] = f
               /\ \A n \in 1 .. Len(text) : v[n] = FbPutChar(v[n - 1], text[n])
               /\ FbPrint(f, text) = v[Len(text)]
  BY <1>2, PrintIsSteps
<1>4. 1 \in 1 .. Len(text) /\ 1 - 1 = 0
  BY <1>2
<1>5. v[1] = FbPutChar(v[0], c)
  BY <1>2, <1>3, <1>4
<1>6. QED
  BY <1>1, <1>2, <1>3, <1>5

\* A property that every character keeps is kept by every text.
LEMMA PrintSound ==
    ASSUME NEW f, Sound(f), NEW text \in Seq(Typeset)
    PROVE  Sound(FbPrint(f, text))
<1>1. PICK v : /\ v[0] = f
               /\ \A n \in 1 .. Len(text) : v[n] = FbPutChar(v[n - 1], text[n])
               /\ FbPrint(f, text) = v[Len(text)]
  BY PrintIsSteps
<1> DEFINE N == Len(text)
           Bad == {n \in 0 .. N : ~ Sound(v[n])}
<1>2. N \in Nat /\ \A n \in 1 .. N : text[n] \in Typeset
  OBVIOUS
<1>3. ASSUME Bad # {} PROVE FALSE
  <2>1. Bad \in SUBSET Nat
    BY <1>2
  <2>2. PICK m \in Bad : \A n \in Bad : m <= n
    BY <1>3, <2>1, LeastPosition
  <2>3. m \in 0 .. N /\ ~ Sound(v[m])
    BY Zenon
  <2>4. m # 0
    BY <1>1, <2>3
  <2>5. m \in 1 .. N /\ m - 1 \in 0 .. N /\ ~ (m <= m - 1)
    BY <1>2, <2>3, <2>4
  <2>6. Sound(v[m - 1])
    BY <2>2, <2>5, Zenon
  <2>7. Sound(FbPutChar(v[m - 1], text[m]))
    BY <1>2, <2>5, <2>6, SoundPutChar
  <2>8. QED
    BY <1>1, <2>3, <2>5, <2>7
<1>4. N \in 0 .. N
  BY <1>2
<1>5. Sound(v[N])
  BY <1>3, <1>4, Zenon
<1>6. QED
  BY <1>1, <1>5

\* The cursor stays in the grid, or where it was beside it.
Placed(f, u) ==
    /\ FbTyped(u)
    /\ u.x = FB_COLS => f.x = FB_COLS
    /\ u.y = FB_ROWS => f.y = FB_ROWS

LEMMA PutCharPlaces ==
    ASSUME NEW f, NEW u, Placed(f, u), NEW c \in Typeset
    PROVE  Placed(f, FbPutChar(u, c))
<1>1. Agrees(u, u)
  BY AgreesSelf DEF Placed
<1>2. /\ Agrees(FbPutChar(u, c), FbPutChar(u, c)) /\ FbPutChar(u, c).x \in GridCol
      /\ FbPutChar(u, c).y = FB_ROWS => u.y = FB_ROWS
  BY <1>1, PutCharAgrees
<1>3. FB_COLS \notin GridCol
  BY GridIs
<1>4. QED
  BY <1>2, <1>3 DEF Placed, Agrees

\* Wherever the cursor was, and whatever the screen shows.
LEMMA PrintPlaces ==
    ASSUME NEW f, FbTyped(f), NEW text \in Seq(Typeset)
    PROVE  Placed(f, FbPrint(f, text))
<1>1. PICK v : /\ v[0] = f
               /\ \A n \in 1 .. Len(text) : v[n] = FbPutChar(v[n - 1], text[n])
               /\ FbPrint(f, text) = v[Len(text)]
  BY PrintIsSteps
<1> DEFINE N == Len(text)
           Bad == {n \in 0 .. N : ~ Placed(f, v[n])}
<1>2. N \in Nat /\ \A n \in 1 .. N : text[n] \in Typeset
  OBVIOUS
<1>3. ASSUME Bad # {} PROVE FALSE
  <2>1. Bad \in SUBSET Nat
    BY <1>2
  <2>2. PICK m \in Bad : \A n \in Bad : m <= n
    BY <1>3, <2>1, LeastPosition
  <2>3. m \in 0 .. N /\ ~ Placed(f, v[m])
    BY Zenon
  <2>4. m # 0
    BY <1>1, <2>3 DEF Placed
  <2>5. m \in 1 .. N /\ m - 1 \in 0 .. N /\ ~ (m <= m - 1)
    BY <1>2, <2>3, <2>4
  <2>6. Placed(f, v[m - 1])
    BY <2>2, <2>5, Zenon
  <2>7. Placed(f, FbPutChar(v[m - 1], text[m]))
    BY <1>2, <2>5, <2>6, PutCharPlaces
  <2>8. QED
    BY <1>1, <2>3, <2>5, <2>7
<1>4. N \in 0 .. N
  BY <1>2
<1>5. Placed(f, v[N])
  BY <1>3, <1>4, Zenon
<1>6. QED
  BY <1>1, <1>5

\* The prompt, once printed, is what the text on the screen ends with.
LEMMA PromptText ==
    ASSUME NEW f, Sound(f)
    PROVE  EndAlike(Text(FbPrint(f, PROMPT)), PROMPT)
<1> DEFINE N == Len(PROMPT)
           S1(n) == SubSeq(PROMPT, 1, n)
<1>1. /\ PROMPT \in Seq(Letters) /\ PROMPT \in Seq(Typeset)
      /\ N \in Nat /\ \A n \in 1 .. N : PROMPT[n] \in Letters
  <2>1. PROMPT \in Seq(Range(PROMPT))
    BY InputAssumption
  <2>2. QED
    BY <2>1 DEF Letters, Typeset
<1>2. PICK v : /\ v[0] = f
               /\ \A n \in 1 .. N : v[n] = FbPutChar(v[n - 1], PROMPT[n])
               /\ FbPrint(f, PROMPT) = v[N]
  BY <1>1, PrintIsSteps
<1>3. ASSUME NEW n \in 1 .. N
      PROVE  /\ S1(n - 1) \in Seq(Letters)
             /\ S1(n) = Append(S1(n - 1), PROMPT[n])
  BY <1>1
<1> DEFINE Good(n) == Sound(v[n]) /\ EndAlike(Text(v[n]), S1(n))
           Bad == {n \in 0 .. N : ~ Good(n)}
<1>4. Good(0)
  <2>1. Len(S1(0)) = 0
    BY <1>1
  <2>2. EndAlike(Text(f), S1(0))
    <3> HIDE DEF S1
    <3>1. QED
      BY <2>1 DEF EndAlike
  <2>3. QED
    BY <1>2, <2>2
<1>5. ASSUME NEW n \in 1 .. N, Good(n - 1) PROVE Good(n)
  <2>1. v[n] = FbPutChar(v[n - 1], PROMPT[n]) /\ PROMPT[n] \in Letters
    BY <1>1, <1>2
  <2>2. PICK g : g = v[n - 1]
    OBVIOUS
  <2>3. PICK T : T = S1(n - 1)
    OBVIOUS
  <2>4. Sound(g) /\ EndAlike(Text(g), T) /\ T \in Seq(Letters)
    BY <1>3, <1>5, <2>2, <2>3
  <2>5. Sound(FbPutChar(g, PROMPT[n]))
    BY <2>1, <2>4, SoundPutChar DEF Typeset
  <2>6. EndAlike(Text(FbPutChar(g, PROMPT[n])), Append(T, PROMPT[n]))
    BY <2>1, <2>4, PrintedText
  <2>7. v[n] = FbPutChar(g, PROMPT[n]) /\ S1(n) = Append(T, PROMPT[n])
    BY <1>3, <2>1, <2>2, <2>3
  <2> HIDE DEF S1
  <2>8. QED
    BY <2>5, <2>6, <2>7
<1> HIDE DEF Good
<1>6. ASSUME Bad # {} PROVE FALSE
  <2>1. Bad \in SUBSET Nat
    BY <1>1
  <2>2. PICK m \in Bad : \A n \in Bad : m <= n
    BY <1>6, <2>1, LeastPosition
  <2>3. m \in 0 .. N /\ ~ Good(m)
    BY Zenon
  <2>4. m # 0
    BY <1>4, <2>3
  <2>5. m \in 1 .. N /\ m - 1 \in 0 .. N /\ ~ (m <= m - 1)
    BY <1>1, <2>3, <2>4
  <2>6. Good(m - 1)
    BY <2>2, <2>5, Zenon
  <2>7. QED
    BY <1>5, <2>3, <2>5, <2>6
<1>7. N \in 0 .. N
  BY <1>1
<1>8. Good(N)
  BY <1>6, <1>7, Zenon
<1>9. S1(N) = PROMPT
  BY <1>1
<1>10. EndAlike(Text(v[N]), S1(N))
  BY <1>8 DEF Good
<1> HIDE DEF S1
<1>11. QED
  BY <1>2, <1>9, <1>10

\* Erasing takes a character off the end.
LEMMA ErasedByThree ==
    ASSUME NEW f, Sound(f), NEW T \in Seq(Letters), T # <<>>, EndAlike(Text(f), T)
    PROVE  EndAlike(Text(FbPrint(f, Erasing)), Front(T))
<1>1. PICK V \in Seq(Letters) : /\ V = Front(T) /\ Len(V) + 1 = Len(T)
                                /\ \A i \in 1 .. Len(V) : V[i] = T[i]
  <2>1. Len(T) \in Nat \ {0} /\ Front(T) = SubSeq(T, 1, Len(T) - 1)
    BY DEF Front
  <2>2. SubSeq(T, 1, Len(T) - 1) \in Seq(Letters) /\ Len(SubSeq(T, 1, Len(T) - 1)) = Len(T) - 1
    <3>1. PICK m \in Nat : m = Len(T) - 1 /\ Len(T) = m + 1
      BY <2>1
    <3>2. \A i \in 1 .. m : T[i] \in Letters
      BY <3>1, ElementOfSeq
    <3>3. SubSeq(T, 1, m) \in Seq(Letters) /\ Len(SubSeq(T, 1, m)) = m
      BY <3>1, <3>2, SubSeqProperties
    <3>4. QED
      BY <3>1, <3>3, Zenon
  <2>3. \A i \in 1 .. Len(T) - 1 : SubSeq(T, 1, Len(T) - 1)[i] = T[i]
    BY <2>1
  <2>4. QED
    BY <2>1, <2>2, <2>3
<1>2. PICK text : text = Erasing
  OBVIOUS
<1>3. /\ text \in Seq(Typeset) /\ Len(text) = 3
      /\ text[1] = BS /\ text[2] = Space /\ text[3] = BS /\ Space \in Letters
  BY <1>2, GridIs DEF Erasing, Typeset
<1>4. PICK v : /\ v[0] = f
               /\ \A n \in 1 .. Len(text) : v[n] = FbPutChar(v[n - 1], text[n])
               /\ FbPrint(f, text) = v[Len(text)]
  BY <1>3, PrintIsSteps
<1>5. v[1] = FbPutChar(f, BS) /\ v[2] = FbPutChar(v[1], Space) /\ v[3] = FbPutChar(v[2], BS)
  <2>1. 1 \in 1 .. 3 /\ 2 \in 1 .. 3 /\ 3 \in 1 .. 3 /\ 1 - 1 = 0 /\ 2 - 1 = 1 /\ 3 - 1 = 2
    OBVIOUS
  <2>2. QED
    BY <1>3, <1>4, <2>1
<1>6. PICK a, b, c : a = v[1] /\ b = v[2] /\ c = v[3]
  OBVIOUS
<1>7. Sound(a) /\ EndAlike(Text(a), V)
  BY <1>1, <1>5, <1>6, SoundPutChar, ErasedText DEF Typeset
<1>8. Sound(b) /\ EndAlike(Text(b), Append(V, Space))
  BY <1>3, <1>5, <1>6, <1>7, SoundPutChar, PrintedText DEF Typeset
<1>9. /\ Append(V, Space) \in Seq(Letters) /\ Len(V) + 1 = Len(Append(V, Space))
      /\ \A i \in 1 .. Len(V) : V[i] = Append(V, Space)[i]
  BY <1>3
<1>10. EndAlike(Text(c), V)
  BY <1>5, <1>6, <1>8, <1>9, ErasedText
<1>11. QED
  BY <1>1, <1>2, <1>3, <1>4, <1>6, <1>10

-----------------------------------------------------------------------------
(* A character that kmain has begun.                                         *)

\* The console when the rest of a character is printed without interruption.
RestFb(f, c, step) ==
    CASE step = "erase"  -> FbPutChar(f, c)
      [] step = "draw"   -> DrawCursor(Forward(PutCell(f, c)))
      [] step = "set"    -> DrawCursor(Forward(CellSet(f, f.x, f.y, c)))
      [] step = "right"  -> DrawCursor(Forward(f))
      [] step = "home"   -> DrawCursor(FbNewline(f))
      [] step = "down"   -> DrawCursor(Down(f))
      [] step = "lift"   -> DrawCursor(ScrollUp(f))
      [] step = "move"   -> DrawCursor(AtY(ScrollCells(f), Bottom))
      [] step = "bottom" -> DrawCursor(AtY(f, Bottom))
      [] step = "mark"   -> DrawCursor(f)

FbRest ==
    IF session.framebuffer /\ putc # NoChar THEN RestFb(fb, putc.c, putc.step) ELSE fb

LEMMA RestFbIs ==
    ASSUME NEW f, NEW c
    PROVE  /\ RestFb(f, c, "erase") = FbPutChar(f, c)
           /\ RestFb(f, c, "draw") = DrawCursor(Forward(PutCell(f, c)))
           /\ RestFb(f, c, "set") = DrawCursor(Forward(CellSet(f, f.x, f.y, c)))
           /\ RestFb(f, c, "right") = DrawCursor(Forward(f))
           /\ RestFb(f, c, "home") = DrawCursor(FbNewline(f))
           /\ RestFb(f, c, "down") = DrawCursor(Down(f))
           /\ RestFb(f, c, "lift") = DrawCursor(ScrollUp(f))
           /\ RestFb(f, c, "move") = DrawCursor(AtY(ScrollCells(f), Bottom))
           /\ RestFb(f, c, "bottom") = DrawCursor(AtY(f, Bottom))
           /\ RestFb(f, c, "mark") = DrawCursor(f)
BY DEF RestFb

\* Where no key has come since, what has been read of the cursor is still so.
Captured ==
    session.framebuffer /\ putc # NoChar =>
        /\ putc.x \in GridCol /\ putc.y \in GridRow /\ putc.under \in Letters
        /\ ~putc.hit /\ putc.step \in {"erase", "draw", "set", "right"}
              => putc.x = fb.x /\ putc.y = fb.y
        /\ ~putc.hit /\ putc.step = "erase" => putc.under = CellGet(fb, fb.x, fb.y)

\* The cursor is beside the grid only between two pieces of a new line.
FbFits ==
    /\ FbTyped(fb)
    /\ fb.x = FB_COLS => session.framebuffer /\ putc.step = "home"
    /\ fb.y = FB_ROWS => session.framebuffer /\ putc.step \in {"lift", "move", "bottom"}
    /\ Captured

FbSound == putc.step = "none" \/ ~session.framebuffer \/ ~putc.hit => Sound(FbRest)

FbStep(x, y) ==
    \/ /\ putc.step = "erase" /\ putc' = At(IF putc.c = LF THEN "home" ELSE "draw")
       /\ fb' = DrawCell(fb, putc.x, putc.y, putc.under)
    \/ putc.step = "draw" /\ putc' = At("set") /\ fb' = DrawCell(fb, x, y, putc.c)
    \/ putc.step = "set" /\ putc' = At("right") /\ fb' = CellSet(fb, x, y, putc.c)
    \/ /\ putc.step = "right" /\ putc' = At(IF x + 1 >= FB_COLS THEN "home" ELSE "mark")
       /\ fb' = [fb EXCEPT !.x = x + 1]
    \/ putc.step = "home" /\ putc' = At("down") /\ fb' = [fb EXCEPT !.x = 0]
    \/ /\ putc.step = "down" /\ putc' = At(IF fb.y + 1 >= FB_ROWS THEN "lift" ELSE "mark")
       /\ fb' = [fb EXCEPT !.y = @ + 1]
    \/ putc.step = "lift" /\ putc' = At("move") /\ fb' = ScrollPixels(fb)
    \/ putc.step = "move" /\ putc' = At("bottom") /\ fb' = ScrollCells(fb)
    \/ putc.step = "bottom" /\ putc' = At("mark") /\ fb' = [fb EXCEPT !.y = Bottom]
    \/ /\ putc.step = "mark" /\ putc' = NoChar
       /\ fb' = [DrawCursor(fb) EXCEPT !.smeared = IF putc.hit THEN FB_ROWS ELSE @]

LEMMA FbPieceIs ==
    ASSUME Modes, FbFits, FbPiece
    PROVE  /\ session.framebuffer /\ putc # NoChar
           /\ UNCHANGED <<session, todo, g_line, g_simple_mode, torn, executing>>
           /\ \E x, y : /\ FbStep(x, y)
                        /\ putc.step # "home" => x \in GridCol
                        /\ \/ putc.hit \/ putc.step \notin {"erase", "draw", "set", "right"}
                           \/ x = fb.x /\ y = fb.y
<1>1. /\ session.framebuffer /\ putc # NoChar
      /\ UNCHANGED <<session, todo, g_line, g_simple_mode, torn, executing>>
  BY PieceIs DEF FbPiece, shell, booting, marks
<1>2. PICK x \in {putc.x, fb.x}, y \in {putc.y, fb.y} : FbStep(x, y)
  BY Zenon DEF FbPiece, FbStep, Goto
<1>3. fb.x \in 0 .. FB_COLS /\ (putc.step # "home" => fb.x # FB_COLS) /\ putc.x \in GridCol
  BY <1>1 DEF FbFits, FbTyped, Captured
<1>4. putc.step # "home" => fb.x \in GridCol
  BY <1>3, GridIs DEF GridCol
<1>5. \/ putc.hit \/ putc.step \notin {"erase", "draw", "set", "right"}
      \/ x = fb.x /\ y = fb.y
  BY <1>1, <1>2 DEF FbFits, Captured
<1>6. putc.step # "home" => x \in GridCol
  BY <1>2, <1>3, <1>4
<1>7. QED
  BY <1>1, <1>2, <1>5, <1>6, Zenon

\* What is drawn and stored are letters.
LEMMA PieceLetters ==
    ASSUME Modes, session.framebuffer, putc # NoChar
    PROVE  /\ putc.c \in Typeset /\ putc.c # CR /\ putc.c # BS
           /\ putc.c # LF => putc.c \in Letters
           /\ putc.step \in {"draw", "set"} => putc.c \in Letters
           /\ putc.step # "none"
<1>1. /\ putc.c \in Chars \cup {LF} \cup Range(PROMPT)
      /\ putc.c = LF => putc.step \notin {"draw", "set"}
      /\ putc.step \in FbSteps
  BY DEF Modes, PutcOK, Written
<1>2. putc.c # LF => putc.c \in Letters
  BY <1>1 DEF Letters, Cells
<1>3. QED
  BY <1>1, <1>2, LetterIsNone, Controls DEF Typeset, FbSteps

\* A piece moves on the types of the console and where the cursor can be.
LEMMA FbStepFits ==
    ASSUME FbFits, session.framebuffer, putc # NoChar, UNCHANGED session,
           putc' # NoChar,
           putc'.x = putc.x, putc'.y = putc.y, putc'.under = putc.under, putc'.hit = putc.hit,
           FbTyped(fb'),
           fb'.x = FB_COLS => putc'.step = "home",
           fb'.y = FB_ROWS => putc'.step \in {"lift", "move", "bottom"},
           putc'.step # "erase",
           putc'.step \in {"draw", "set", "right"} =>
              /\ fb'.x = fb.x /\ fb'.y = fb.y /\ putc.step \in {"erase", "draw", "set"}
    PROVE  FbFits'
<1>1. /\ putc.x \in GridCol /\ putc.y \in GridRow /\ putc.under \in Letters
      /\ ~putc.hit /\ putc.step \in {"erase", "draw", "set", "right"}
            => putc.x = fb.x /\ putc.y = fb.y
  BY DEF FbFits, Captured
<1>2. Captured'
  BY <1>1 DEF Captured
<1>3. QED
  BY <1>2 DEF FbFits

LEMMA FbPieceFits ==
    ASSUME Modes, FbFits, FbPiece
    PROVE  FbFits'
<1>1. /\ session.framebuffer /\ putc # NoChar /\ UNCHANGED session
  BY FbPieceIs
<1>2. PICK x, y : FbStep(x, y) /\ (putc.step # "home" => x \in GridCol)
  BY FbPieceIs
<1>3. PICK c, s : c = putc.c /\ s = putc.step
  OBVIOUS
<1>4. /\ FbTyped(fb) /\ fb.x \in 0 .. FB_COLS /\ fb.y \in 0 .. FB_ROWS
      /\ fb.x = FB_COLS => s = "home"
      /\ fb.y = FB_ROWS => s \in {"lift", "move", "bottom"}
      /\ putc.under \in Letters /\ PutcOK
  BY <1>1, <1>3 DEF FbFits, FbTyped, Captured, Modes
<1>5. s \in {"draw", "set"} => c \in Letters
  BY <1>1, <1>3, PieceLetters
<1>6. ASSUME NEW n, putc' = At(n)
      PROVE  /\ putc'.step = n /\ putc'.x = putc.x /\ putc'.y = putc.y
             /\ putc'.under = putc.under /\ putc'.hit = putc.hit
             /\ n # "none" => putc' # NoChar
  BY <1>1, <1>4, <1>6, NextPiece DEF NoChar
<1>7. CASE s = "erase"
  <2>1. PICK n \in {"home", "draw"} : putc' = At(n)
    BY <1>2, <1>3, <1>7 DEF FbStep
  <2>2. fb' = DrawCell(fb, putc.x, putc.y, putc.under)
    BY <1>2, <1>3, <1>7 DEF FbStep
  <2>3. FbTyped(fb') /\ fb'.x = fb.x /\ fb'.y = fb.y
    BY <1>4, <2>2, DrawCellIs
  <2>4. QED
    BY <1>1, <1>3, <1>4, <1>6, <1>7, <2>1, <2>3, FbStepFits
<1>8. CASE s = "draw"
  <2>1. putc' = At("set") /\ fb' = DrawCell(fb, x, y, c)
    BY <1>2, <1>3, <1>8 DEF FbStep
  <2>2. FbTyped(fb') /\ fb'.x = fb.x /\ fb'.y = fb.y
    BY <1>4, <1>5, <1>8, <2>1, DrawCellIs
  <2>3. QED
    BY <1>1, <1>3, <1>4, <1>6, <1>8, <2>1, <2>2, FbStepFits
<1>9. CASE s = "set"
  <2>1. putc' = At("right") /\ fb' = CellSet(fb, x, y, c)
    BY <1>2, <1>3, <1>9 DEF FbStep
  <2>2. FbTyped(fb') /\ fb'.x = fb.x /\ fb'.y = fb.y
    BY <1>4, <1>5, <1>9, <2>1, CellSetIs
  <2>3. QED
    BY <1>1, <1>3, <1>4, <1>6, <1>9, <2>1, <2>2, FbStepFits
<1>10. CASE s = "right"
  <2>1. /\ putc' = At(IF x + 1 >= FB_COLS THEN "home" ELSE "mark")
        /\ fb' = [fb EXCEPT !.x = x + 1]
    BY <1>2, <1>3, <1>10 DEF FbStep
  <2>2. x + 1 \in 0 .. FB_COLS /\ (x + 1 = FB_COLS => x + 1 >= FB_COLS)
    BY <1>2, <1>3, <1>10, GridIs DEF GridCol
  <2>3. FbTyped(fb') /\ fb'.x = x + 1 /\ fb'.y = fb.y
    <3>1. PICK a, u : a = x + 1 /\ u = fb'
      OBVIOUS
    <3>2. a \in 0 .. FB_COLS /\ u = [fb EXCEPT !.x = a]
      BY <2>1, <2>2, <3>1
    <3>3. FbTyped(u) /\ u.x = a /\ u.y = fb.y
      BY <1>4, <3>2, FieldSet
    <3>4. QED
      BY <3>1, <3>3
  <2>4. PICK n \in {"home", "mark"} : putc' = At(n) /\ (x + 1 = FB_COLS => n = "home")
    BY <2>1, <2>2
  <2>5. QED
    BY <1>1, <1>3, <1>4, <1>6, <1>10, <2>3, <2>4, FbStepFits
<1>11. CASE s = "home"
  <2>1. putc' = At("down") /\ fb' = AtX(fb, 0)
    BY <1>2, <1>3, <1>11 DEF FbStep, AtX
  <2>2. FbTyped(fb') /\ fb'.x = 0 /\ fb'.y = fb.y
    <3>1. 0 \in 0 .. FB_COLS
      BY GridIs
    <3>2. QED
      BY <1>4, <2>1, <3>1, AtIsTyped
  <2>3. QED
    BY <1>1, <1>3, <1>4, <1>6, <1>11, <2>1, <2>2, FbStepFits, GridIs
<1>12. CASE s = "down"
  <2>1. PICK n \in {"lift", "mark"} : putc' = At(n) /\ (fb.y + 1 >= FB_ROWS => n = "lift")
    BY <1>2, <1>3, <1>12 DEF FbStep
  <2>2. fb' = [fb EXCEPT !.y = @ + 1]
    BY <1>2, <1>3, <1>12 DEF FbStep
  <2>3. fb.y + 1 \in 0 .. FB_ROWS /\ (fb.y + 1 = FB_ROWS => fb.y + 1 >= FB_ROWS)
    BY <1>4, <1>12, GridIs
  <2>4. FbTyped(fb') /\ fb'.x = fb.x /\ fb'.y = fb.y + 1
    <3>1. PICK a, u : a = fb.y + 1 /\ u = fb'
      OBVIOUS
    <3>2. a \in 0 .. FB_ROWS /\ u = [fb EXCEPT !.y = a]
      BY <2>2, <2>3, <3>1
    <3>3. FbTyped(u) /\ u.y = a /\ u.x = fb.x
      BY <1>4, <3>2, FieldSet
    <3>4. QED
      BY <3>1, <3>3
  <2>5. QED
    BY <1>1, <1>3, <1>4, <1>6, <1>12, <2>1, <2>3, <2>4, FbStepFits
<1>13. CASE s = "lift"
  <2>1. putc' = At("move") /\ fb' = ScrollPixels(fb)
    BY <1>2, <1>3, <1>13 DEF FbStep
  <2>2. FbTyped(fb') /\ fb'.x = fb.x /\ fb'.y = fb.y
    BY <1>4, <2>1, ScrollPixelsIs
  <2>3. QED
    BY <1>1, <1>3, <1>4, <1>6, <1>13, <2>1, <2>2, FbStepFits
<1>14. CASE s = "move"
  <2>1. putc' = At("bottom") /\ fb' = ScrollCells(fb)
    BY <1>2, <1>3, <1>14 DEF FbStep
  <2>2. FbTyped(fb') /\ fb'.x = fb.x /\ fb'.y = fb.y
    BY <1>4, <2>1, ScrollCellsIs
  <2>3. QED
    BY <1>1, <1>3, <1>4, <1>6, <1>14, <2>1, <2>2, FbStepFits
<1>15. CASE s = "bottom"
  <2>1. putc' = At("mark") /\ fb' = AtY(fb, Bottom)
    BY <1>2, <1>3, <1>15 DEF FbStep, AtY
  <2>2. Bottom \in 0 .. FB_ROWS /\ Bottom # FB_ROWS
    BY GridIs DEF Bottom
  <2>3. FbTyped(fb') /\ fb'.x = fb.x /\ fb'.y = Bottom
    BY <1>4, <2>1, <2>2, AtIsTyped
  <2>4. QED
    BY <1>1, <1>3, <1>4, <1>6, <1>15, <2>1, <2>2, <2>3, FbStepFits
<1>16. CASE s = "mark"
  <2>1. PICK n, u : n = (IF putc.hit THEN FB_ROWS ELSE fb.smeared) /\ u = DrawCursor(fb)
    OBVIOUS
  <2>2. FbTyped(u) /\ u.x = fb.x /\ u.y = fb.y /\ u.smeared = fb.smeared
    BY <1>4, <2>1, DrawCursorIs
  <2>3. n \in 0 .. FB_ROWS
    BY <1>4, <2>1, GridIs DEF FbTyped
  <2>4. putc' = NoChar /\ fb' = [u EXCEPT !.smeared = n]
    BY <1>2, <1>3, <1>16, <2>1, <2>2 DEF FbStep
  <2>5. FbTyped(fb') /\ fb'.x = fb.x /\ fb'.y = fb.y
    <3>1. PICK v : v = fb'
      OBVIOUS
    <3>2. FbTyped(v) /\ v.x = fb.x /\ v.y = fb.y
      BY <2>2, <2>3, <2>4, <3>1, FieldSet
    <3>3. QED
      BY <3>1, <3>2
  <2>6. QED
    BY <1>4, <1>16, <2>4, <2>5 DEF FbFits, Captured
<1>17. QED
  BY <1>2, <1>3, <1>7, <1>8, <1>9, <1>10, <1>11, <1>12, <1>13, <1>14, <1>15, <1>16 DEF FbStep

\* Without interruption a piece leaves unchanged what comes out in the end.
LEMMA PieceRest ==
    ASSUME Modes, FbFits, FbPiece, ~putc.hit
    PROVE  FbRest' = FbRest
<1>1. session.framebuffer /\ putc # NoChar /\ UNCHANGED session
  BY FbPieceIs
<1>2. PICK x, y : /\ FbStep(x, y)
                  /\ putc.step \in {"erase", "draw", "set", "right"} => x = fb.x /\ y = fb.y
  BY FbPieceIs
<1>3. PICK c, s, f, u : c = putc.c /\ s = putc.step /\ f = fb /\ u = fb'
  OBVIOUS
<1>4. /\ FbTyped(f) /\ f.x \in 0 .. FB_COLS /\ f.y \in 0 .. FB_ROWS /\ PutcOK
      /\ s \in {"erase", "draw", "set", "right"} => putc.x = f.x /\ putc.y = f.y
      /\ s = "erase" => putc.under = CellGet(f, f.x, f.y)
  BY <1>1, <1>3 DEF FbFits, FbTyped, Captured, Modes
<1>5. FbRest = RestFb(f, c, s)
  BY <1>1, <1>3 DEF FbRest
<1>6. ASSUME NEW n, putc' = At(n), n # "none"
      PROVE  FbRest' = RestFb(u, c, n)
  <2>1. putc'.c = c /\ putc'.step = n /\ putc' # NoChar
    BY <1>1, <1>3, <1>4, <1>6, NextPiece DEF NoChar
  <2>2. QED
    BY <1>1, <1>3, <2>1 DEF FbRest
<1>7. CASE s = "erase"
  <2>1. u = EraseCursor(f)
    BY <1>2, <1>3, <1>4, <1>7 DEF FbStep, EraseCursor
  <2>2. CASE c = LF
    <3>1. putc' = At("home")
      BY <1>2, <1>3, <1>7, <2>2 DEF FbStep
    <3>2. FbRest' = DrawCursor(FbNewline(u))
      BY <1>6, <3>1, RestFbIs
    <3>3. FbPutChar(f, c) = DrawCursor(FbNewline(u))
      BY <2>1, <2>2, PutCharOf, Controls DEF Typeset
    <3>4. QED
      BY <1>5, <1>7, <3>2, <3>3, RestFbIs
  <2>3. CASE c # LF
    <3>1. putc' = At("draw")
      BY <1>2, <1>3, <1>7, <2>3 DEF FbStep
    <3>2. FbRest' = DrawCursor(Forward(PutCell(u, c)))
      BY <1>6, <3>1, RestFbIs
    <3>3. c \in Typeset /\ c # CR /\ c # BS
      BY <1>1, <1>3, PieceLetters
    <3>4. FbPutChar(f, c) = DrawCursor(Forward(PutCell(u, c)))
      BY <2>1, <2>3, <3>3, PutCharOf
    <3>5. QED
      BY <1>5, <1>7, <3>2, <3>4, RestFbIs
  <2>4. QED
    BY <2>2, <2>3
<1>8. CASE s = "draw"
  <2>1. putc' = At("set") /\ u = DrawCell(f, f.x, f.y, c) /\ c \in Letters
    BY <1>1, <1>2, <1>3, <1>8, PieceLetters DEF FbStep
  <2>2. u.x = f.x /\ u.y = f.y
    BY <1>4, <2>1, DrawCellIs
  <2>3. CellSet(u, u.x, u.y, c) = PutCell(f, c)
    BY <2>1, <2>2 DEF PutCell
  <2>4. QED
    BY <1>5, <1>6, <1>8, <2>1, <2>3, RestFbIs
<1>9. CASE s = "set"
  <2>1. putc' = At("right") /\ u = CellSet(f, f.x, f.y, c)
    BY <1>2, <1>3, <1>9 DEF FbStep
  <2>2. QED
    BY <1>5, <1>6, <1>9, <2>1, RestFbIs
<1>10. CASE s = "right"
  <2>1. /\ putc' = At(IF f.x + 1 >= FB_COLS THEN "home" ELSE "mark")
        /\ u = [f EXCEPT !.x = f.x + 1]
    BY <1>2, <1>3, <1>10 DEF FbStep
  <2>2. CASE f.x + 1 >= FB_COLS
    <3>1. Forward(f) = FbNewline(f) /\ putc' = At("home")
      BY <2>1, <2>2 DEF Forward
    <3>2. FbNewline(u) = FbNewline(f)
      <4>1. PICK a : a = f.x + 1
        OBVIOUS
      <4>2. f.x \in 0 .. FB_COLS /\ FB_COLS \in Nat
        BY <1>4, GridIs
      <4>3. [u EXCEPT !.x = 0] = [f EXCEPT !.x = 0] /\ u.y = f.y
        BY <1>4, <2>1 DEF FbTyped
      <4>4. FbNewline(f) = IF f.y + 1 >= FB_ROWS THEN ScrollUp(AtX(f, 0)) ELSE AtY(AtX(f, 0), f.y + 1)
        <5>1. FbNewline(f) = Down(AtX(f, 0)) /\ AtX(f, 0).y = f.y
          BY <1>4, <4>2, NewlineOf, AtIsTyped
        <5>2. QED
          BY <5>1 DEF Down
      <4>5. FbNewline(u) = IF u.y + 1 >= FB_ROWS THEN ScrollUp(AtX(u, 0)) ELSE AtY(AtX(u, 0), u.y + 1)
        <5>1. AtX(u, 0) = AtX(f, 0)
          BY <4>3 DEF AtX
        <5>2. PICK p : p = [u EXCEPT !.x = 0]
          OBVIOUS
        <5>3. p = AtX(f, 0) /\ p.y = f.y
          BY <1>4, <4>2, <4>3, <5>1, <5>2, AtIsTyped DEF AtX
        <5>4. FbNewline(u) = IF u.y + 1 >= FB_ROWS THEN ScrollUp(p) ELSE [p EXCEPT !.y = @ + 1]
          BY <5>2 DEF FbNewline
        <5>5. [p EXCEPT !.y = @ + 1] = AtY(p, u.y + 1)
          BY <4>3, <5>3 DEF AtY
        <5>6. QED
          BY <5>1, <5>3, <5>4, <5>5
      <4>6. AtX(u, 0) = AtX(f, 0)
        BY <4>3 DEF AtX
      <4>7. QED
        BY <4>3, <4>4, <4>5, <4>6
    <3>3. QED
      BY <1>5, <1>6, <1>10, <3>1, <3>2, RestFbIs
  <2>3. CASE ~ (f.x + 1 >= FB_COLS)
    <3>1. Forward(f) = u /\ putc' = At("mark")
      BY <2>1, <2>3 DEF Forward
    <3>2. QED
      BY <1>5, <1>6, <1>10, <3>1, RestFbIs
  <2>4. QED
    BY <2>2, <2>3
<1>11. CASE s = "home"
  <2>1. putc' = At("down") /\ u = AtX(f, 0)
    BY <1>2, <1>3, <1>11 DEF FbStep, AtX
  <2>2. FbNewline(f) = Down(u)
    BY <1>4, <2>1, NewlineOf
  <2>3. QED
    BY <1>5, <1>6, <1>11, <2>1, <2>2, RestFbIs
<1>12. CASE s = "down"
  <2>1. /\ putc' = At(IF f.y + 1 >= FB_ROWS THEN "lift" ELSE "mark")
        /\ u = AtY(f, f.y + 1)
    BY <1>2, <1>3, <1>12 DEF FbStep, AtY
  <2>2. CASE f.y + 1 >= FB_ROWS
    <3>1. Down(f) = ScrollUp(f) /\ putc' = At("lift")
      BY <2>1, <2>2 DEF Down
    <3>2. ScrollUp(u) = ScrollUp(f)
      <4>1. f.y + 1 \in 0 .. FB_ROWS
        <5>1. f.y # FB_ROWS
          BY <1>3, <1>12 DEF FbFits
        <5>2. QED
          BY <1>4, <5>1, GridIs
      <4>2. /\ FbTyped(u) /\ u.cells = f.cells /\ u.shown = f.shown /\ u.x = f.x
            /\ u.smeared = f.smeared
        BY <1>4, <2>1, <4>1, AtIsTyped
      <4>3. PICK a, b : a = ScrollPixels(u) /\ b = ScrollPixels(f)
        OBVIOUS
      <4>4. /\ FbTyped(a) /\ FbTyped(b) /\ a.cells = b.cells /\ a.shown = b.shown
            /\ a.x = b.x /\ a.smeared = b.smeared
        BY <1>4, <4>2, <4>3, ScrollPixelsIs
      <4>5. PICK p, q : p = ScrollCells(a) /\ q = ScrollCells(b)
        OBVIOUS
      <4>6. /\ FbTyped(p) /\ FbTyped(q) /\ p.cells = q.cells /\ p.shown = q.shown
            /\ p.x = q.x /\ p.smeared = q.smeared
        BY <4>4, <4>5, ScrollCellsIs
      <4>7. PICK v, w : v = AtY(p, Bottom) /\ w = AtY(q, Bottom)
        OBVIOUS
      <4>8. Bottom \in 0 .. FB_ROWS
        BY GridIs DEF Bottom
      <4>9. /\ FbTyped(v) /\ FbTyped(w) /\ v.cells = w.cells /\ v.shown = w.shown
            /\ v.x = w.x /\ v.y = w.y /\ v.smeared = w.smeared
        BY <4>6, <4>7, <4>8, AtIsTyped
      <4>10. ScrollUp(u) = v /\ ScrollUp(f) = w
        BY <4>3, <4>5, <4>7 DEF ScrollUp, AtY
      <4>11. QED
        BY <4>9, <4>10, SameFb
    <3>3. QED
      BY <1>5, <1>6, <1>12, <3>1, <3>2, RestFbIs
  <2>3. CASE ~ (f.y + 1 >= FB_ROWS)
    <3>1. Down(f) = u /\ putc' = At("mark")
      BY <2>1, <2>3 DEF Down
    <3>2. QED
      BY <1>5, <1>6, <1>12, <3>1, RestFbIs
  <2>4. QED
    BY <2>2, <2>3
<1>13. CASE s = "lift"
  <2>1. putc' = At("move") /\ u = ScrollPixels(f)
    BY <1>2, <1>3, <1>13 DEF FbStep
  <2>2. ScrollUp(f) = AtY(ScrollCells(u), Bottom)
    BY <2>1 DEF ScrollUp, AtY
  <2>3. QED
    BY <1>5, <1>6, <1>13, <2>1, <2>2, RestFbIs
<1>14. CASE s = "move"
  <2>1. putc' = At("bottom") /\ u = ScrollCells(f)
    BY <1>2, <1>3, <1>14 DEF FbStep
  <2>2. QED
    BY <1>5, <1>6, <1>14, <2>1, RestFbIs
<1>15. CASE s = "bottom"
  <2>1. putc' = At("mark") /\ u = AtY(f, Bottom)
    BY <1>2, <1>3, <1>15 DEF FbStep, AtY
  <2>2. QED
    BY <1>5, <1>6, <1>15, <2>1, RestFbIs
<1>16. CASE s = "mark"
  <2>1. PICK v : v = DrawCursor(f)
    OBVIOUS
  <2>2. FbTyped(v)
    BY <1>4, <2>1, DrawCursorIs
  <2>3. putc' = NoChar /\ u = [v EXCEPT !.smeared = v.smeared]
    BY <1>2, <1>3, <1>16, <2>1 DEF FbStep
  <2>4. u = v
    BY <2>2, <2>3 DEF FbTyped
  <2>5. FbRest' = u
    BY <1>3, <2>3 DEF FbRest
  <2>6. QED
    BY <1>5, <1>16, <2>1, <2>4, <2>5, RestFbIs
<1>17. QED
  BY <1>2, <1>3, <1>7, <1>8, <1>9, <1>10, <1>11, <1>12, <1>13, <1>14, <1>15, <1>16 DEF FbStep

\* What has been spoilt is no longer answered for.
LEMMA SmearedIsSound ==
    ASSUME NEW f, FbTyped(f), f.x \in GridCol, f.y \in GridRow, f.smeared = FB_ROWS
    PROVE  Sound(f)
<1>1. PICK cells, x, y, g : cells = f.cells /\ x = f.x /\ y = f.y /\ g = Complete(cells, x, y)
  OBVIOUS
<1>2. cells \in Grids /\ x \in GridCol /\ y \in GridRow
  BY <1>1 DEF FbTyped
<1>3. FbTyped(g) /\ g.cells = cells /\ g.x = x /\ g.y = y /\ g.smeared = 0
  BY <1>1, <1>2, DrawIs DEF Complete
<1>4. \A row \in GridRow : ~ (row >= FB_ROWS)
  BY GridIs DEF GridRow
<1>5. Agrees(f, g)
  BY <1>1, <1>3, <1>4, GridIs DEF Agrees
<1>6. Complies(g)
  BY <1>1, <1>2 DEF Complies
<1>7. QED
  BY <1>5, <1>6 DEF Sound

LEMMA FbPieceSound ==
    ASSUME Modes, FbFits, FbSound, FbPiece
    PROVE  FbSound'
<1>1. session.framebuffer /\ putc # NoChar /\ UNCHANGED session
  BY FbPieceIs
<1>2. CASE ~putc.hit
  <2>1. FbRest' = FbRest
    BY <1>2, PieceRest
  <2>2. Sound(FbRest)
    BY <1>2 DEF FbSound
  <2>3. QED
    BY <2>1, <2>2 DEF FbSound
<1>3. CASE putc.hit /\ putc' # NoChar
  <2>1. putc'.hit = putc.hit
    BY <1>3, PieceIs
  <2>2. PutcOK'
    <3>1. Modes'
      BY FbPieceModes
    <3>2. QED
      BY <3>1 DEF Modes
  <2>3. putc'.step # "none"
    BY <1>1, <1>3, <2>2 DEF PutcOK, FbSteps
  <2>4. QED
    BY <1>1, <1>3, <2>1, <2>3 DEF FbSound
<1>4. CASE putc.hit /\ putc' = NoChar
  <2>1. PICK x, y : FbStep(x, y)
    BY FbPieceIs
  <2>2. putc.step = "mark"
    <3>1. ASSUME NEW n \in FbSteps, putc' = At(n) PROVE FALSE
      <4>1. putc'.step = n
        BY <1>1, <3>1, NextPiece DEF Modes
      <4>2. QED
        BY <1>4, <4>1 DEF NoChar, FbSteps
    <3>2. QED
      BY <2>1, <3>1 DEF FbStep, FbSteps
  <2>3. PICK v, u : v = DrawCursor(fb) /\ u = fb'
    OBVIOUS
  <2>4. FbTyped(v) /\ v.x = fb.x /\ v.y = fb.y
    BY <2>3, DrawCursorIs DEF FbFits
  <2>5. u = [v EXCEPT !.smeared = FB_ROWS]
    <3>1. u = [v EXCEPT !.smeared = IF putc.hit THEN FB_ROWS ELSE @]
      BY <2>1, <2>2, <2>3 DEF FbStep
    <3>2. QED
      BY <1>4, <3>1
  <2>6. FB_ROWS \in 0 .. FB_ROWS
    BY GridIs
  <2>7. FbTyped(u) /\ u.smeared = FB_ROWS /\ u.x = v.x /\ u.y = v.y
    BY <2>4, <2>5, <2>6, FieldSet
  <2>8. fb.x \in GridCol /\ fb.y \in GridRow
    <3>1. fb.x # FB_COLS /\ fb.y # FB_ROWS /\ fb.x \in 0 .. FB_COLS /\ fb.y \in 0 .. FB_ROWS
      BY <2>2 DEF FbFits, FbTyped
    <3>2. QED
      BY <3>1, GridIs DEF GridCol, GridRow
  <2>9. Sound(u)
    BY <2>4, <2>7, <2>8, SmearedIsSound
  <2>10. FbRest' = u
    BY <1>4, <2>3 DEF FbRest
  <2>11. QED
    BY <2>9, <2>10 DEF FbSound
<1>5. QED
  BY <1>2, <1>3, <1>4

-----------------------------------------------------------------------------
(* The inductive invariant of the framebuffer console.                       *)

\* What is printed of the prompt and what is still owed.
LEMMA PromptIs ==
    /\ PROMPT \in Seq(Letters) /\ PROMPT \in Seq(Typeset) /\ Len(PROMPT) \in Nat
    /\ Len(PROMPT) \in 0 .. Len(PROMPT) /\ 0 \in 0 .. Len(PROMPT)
    /\ SubSeq(PROMPT, 1, Len(PROMPT)) = PROMPT /\ SubSeq(PROMPT, 0 + 1, Len(PROMPT)) = PROMPT
    /\ SubSeq(PROMPT, 1, 0) = <<>> /\ PROMPT \o <<>> = PROMPT
    /\ SubSeq(PROMPT, Len(PROMPT) + 1, Len(PROMPT)) = <<>>
    /\ \A k \in 0 .. Len(PROMPT) :
          /\ SubSeq(PROMPT, 1, k) \in Seq(Letters)
          /\ SubSeq(PROMPT, k + 1, Len(PROMPT)) = <<>> => k = Len(PROMPT)
<1>1. PROMPT \in Seq(Range(PROMPT))
  BY InputAssumption
<1>2. PROMPT \in Seq(Letters) /\ PROMPT \in Seq(Typeset)
  BY <1>1 DEF Letters, Typeset
<1>3. QED
  BY <1>2, RestOf, Zenon

\* Every step prints on the framebuffer console or leaves it alone, or is a piece.
LEMMA FbMoves ==
    ASSUME Modes, [Next]_vars
    PROVE  \/ FbPiece \/ UNCHANGED fb
           \/ session.framebuffer /\ \E text \in Seq(Typeset) : fb' = FbPrint(fb, text)
<1>1. ASSUME NEW text \in Seq(Typeset), ConsolePrint(text)
      PROVE  \/ UNCHANGED fb
             \/ session.framebuffer /\ \E s \in Seq(Typeset) : fb' = FbPrint(fb, s)
  BY <1>1 DEF ConsolePrint
<1>2. /\ \A c \in Typeset : <<c>> \in Seq(Typeset)
      /\ Erasing \in Seq(Typeset) /\ PROMPT \in Seq(Typeset)
      /\ LF \in Typeset /\ Chars \subseteq Typeset
  <2>1. LF \in Typeset /\ BS \in Typeset /\ Space \in Typeset /\ Chars \subseteq Typeset
    BY GridIs DEF Typeset, Letters, Cells
  <2>2. Erasing \in Seq(Typeset)
    BY <2>1 DEF Erasing
  <2>3. \A c \in Typeset : <<c>> \in Seq(Typeset)
    OBVIOUS
  <2>4. QED
    BY <2>1, <2>2, <2>3, PromptIs, Zenon
<1>3. ASSUME NEW key, HandleKey(key)
      PROVE  \/ UNCHANGED fb
             \/ session.framebuffer /\ \E s \in Seq(Typeset) : fb' = FbPrint(fb, s)
  <2>1. CASE Enter
    BY <1>1, <1>2, <2>1 DEF Enter
  <2>2. CASE EditSimple(key)
    <3>1. \/ UNCHANGED screens \/ ConsolePrint(Erasing)
          \/ key \in Chars /\ ConsolePrint(<<key>>)
      BY <2>2, Zenon DEF EditSimple
    <3>2. QED
      BY <1>1, <1>2, <3>1 DEF screens
  <2>3. CASE Edit(key)
    BY <2>3 DEF Edit, Redraw
  <2>4. QED
    BY <1>3, <2>1, <2>2, <2>3, Zenon DEF HandleKey
<1>4. CASE UNCHANGED vars
  BY <1>4 DEF vars, screens
<1>5. ASSUME NEW key, Press(key)
      PROVE  \/ UNCHANGED fb
             \/ session.framebuffer /\ \E s \in Seq(Typeset) : fb' = FbPrint(fb, s)
  <2>1. UNCHANGED screens \/ HandleKey(key)
    BY <1>5, Zenon DEF Press
  <2>2. QED
    BY <1>3, <2>1 DEF screens
<1>6. ASSUME NEW key, Release(key) \/ PressModifier(key)
      PROVE  UNCHANGED fb
  BY <1>6 DEF Release, PressModifier, screens
<1>7. CASE Prefix \/ ClearCommand \/ BeginChar \/ TermPiece
  BY <1>7 DEF Prefix, ClearCommand, BeginChar, TermPiece, screens
<1>8. CASE Return
  BY <1>1, <1>2, <1>8 DEF Return, Redraw
<1>9. CASE ShellInit
  BY <1>9 DEF ShellInit, EmptyLine, ZeroLen, ZeroCursor, ChooseMode, ReadArgs, StoreInput,
              PlaceCursor, MainStep
<1>10. ASSUME NEW c \in Chars \cup {LF, CR, BS}, Output(c)
       PROVE  \/ UNCHANGED fb
              \/ session.framebuffer /\ \E s \in Seq(Typeset) : fb' = FbPrint(fb, s)
  <2>1. c \in Typeset
    BY <1>2 DEF Typeset
  <2>2. ConsolePrint(<<c>>)
    BY <1>10 DEF Output
  <2>3. QED
    BY <1>1, <1>2, <2>1, <2>2
<1>11. QED
  BY <1>4, <1>5, <1>6, <1>7, <1>8, <1>9, <1>10, Zenon DEF Next

\* A handler finds a character half printed or none.
LEMMA HandlerSound ==
    ASSUME Modes, FbFits, FbSound, Disturb, UNCHANGED session,
           \/ UNCHANGED fb
           \/ session.framebuffer /\ \E text \in Seq(Typeset) : fb' = FbPrint(fb, text)
    PROVE  FbFits' /\ FbSound'
<1>1. /\ putc = NoChar => putc' = NoChar
      /\ putc # NoChar =>
            /\ putc' # NoChar
            /\ putc'.c = putc.c /\ putc'.step = putc.step
            /\ putc'.x = putc.x /\ putc'.y = putc.y /\ putc'.under = putc.under
            /\ putc.hit => putc'.hit
            /\ putc' = putc \/ putc'.hit
      /\ session.framebuffer => fb' = fb \/ putc = NoChar \/ putc'.hit
  BY DisturbIs DEF Modes
<1>2. PICK f, u : f = fb /\ u = fb'
  OBVIOUS
<1>3. FbTyped(f)
  BY <1>2 DEF FbFits
<1>4. Placed(f, u) /\ (Sound(f) => Sound(u))
  <2>1. CASE u = f
    BY <1>3, <2>1 DEF Placed
  <2>2. ASSUME NEW text \in Seq(Typeset), u = FbPrint(f, text)
        PROVE  Placed(f, u) /\ (Sound(f) => Sound(u))
    BY <1>3, <2>2, PrintPlaces, PrintSound
  <2>3. QED
    BY <1>2, <2>1, <2>2
<1>5. putc'.step = putc.step
  BY <1>1
<1>6. Captured'
  <2>1. SUFFICES ASSUME session.framebuffer, putc' # NoChar
                 PROVE  /\ putc'.x \in GridCol /\ putc'.y \in GridRow /\ putc'.under \in Letters
                        /\ ~putc'.hit /\ putc'.step \in {"erase", "draw", "set", "right"}
                              => putc'.x = fb'.x /\ putc'.y = fb'.y
                        /\ ~putc'.hit /\ putc'.step = "erase"
                              => putc'.under = CellGet(fb', fb'.x, fb'.y)
    BY DEF Captured
  <2>2. putc # NoChar
    BY <1>1, <2>1
  <2>3. /\ putc.x \in GridCol /\ putc.y \in GridRow /\ putc.under \in Letters
        /\ ~putc.hit /\ putc.step \in {"erase", "draw", "set", "right"}
              => putc.x = fb.x /\ putc.y = fb.y
        /\ ~putc.hit /\ putc.step = "erase" => putc.under = CellGet(fb, fb.x, fb.y)
    BY <2>1, <2>2 DEF FbFits, Captured
  <2>4. CASE putc'.hit
    BY <1>1, <2>2, <2>3, <2>4
  <2>5. CASE ~putc'.hit
    <3>1. putc' = putc /\ fb' = fb
      BY <1>1, <2>1, <2>2, <2>5
    <3>2. QED
      BY <2>3, <3>1
  <2>6. QED
    BY <2>4, <2>5
<1>7. FbFits'
  BY <1>2, <1>4, <1>5, <1>6 DEF FbFits, Placed
<1>8. FbSound'
  <2>1. CASE ~session.framebuffer
    <3>1. FbRest' = FbRest
      BY <2>1 DEF FbRest
    <3>2. QED
      BY <2>1, <3>1 DEF FbSound
  <2>2. CASE session.framebuffer /\ putc = NoChar
    <3>1. FbRest = f /\ FbRest' = u
      BY <1>1, <1>2, <2>2 DEF FbRest
    <3>2. Sound(f)
      BY <2>2, <3>1 DEF FbSound, NoChar
    <3>3. QED
      BY <1>4, <3>1, <3>2 DEF FbSound
  <2>3. CASE session.framebuffer /\ putc # NoChar
    <3>1. putc'.step # "none"
      BY <1>5, <2>3, PieceLetters
    <3>2. CASE putc'.hit
      BY <2>3, <3>1, <3>2 DEF FbSound
    <3>3. CASE ~putc'.hit
      <4>1. putc' = putc /\ fb' = fb
        BY <1>1, <2>3, <3>3
      <4>2. FbRest' = FbRest /\ Sound(FbRest)
        BY <3>3, <4>1 DEF FbRest, FbSound
      <4>3. QED
        BY <4>2 DEF FbSound
    <3>4. QED
      BY <3>2, <3>3
  <2>4. QED
    BY <2>1, <2>2, <2>3
<1>9. QED
  BY <1>7, <1>8

\* A character begins: it is answered for from then on.
LEMMA BeginSound ==
    ASSUME Modes, FbFits, FbSound, BeginChar
    PROVE  /\ FbFits' /\ FbSound'
           /\ FbRest = fb /\ Sound(fb)
           /\ session.framebuffer => FbRest' = FbPutChar(fb, Head(todo)) /\ Head(todo) \in Typeset
<1>1. putc = NoChar /\ todo # <<>> /\ UNCHANGED <<session, fb>>
  BY DEF BeginChar, screens
<1>2. PICK f, c : f = fb /\ c = Head(todo)
  OBVIOUS
<1>3. FbRest = f /\ Sound(f)
  BY <1>1, <1>2 DEF FbRest, FbSound, NoChar
<1>4. FbTyped(f) /\ f.x \in GridCol /\ f.y \in GridRow
  BY <1>3, SoundIs
<1>5. CASE ~session.framebuffer
  <2>1. FbRest' = f
    BY <1>1, <1>2, <1>5 DEF FbRest
  <2>2. Captured'
    BY <1>1, <1>5 DEF Captured
  <2>3. f.x # FB_COLS /\ f.y # FB_ROWS
    BY <1>4, GridIs DEF GridRow
  <2>4. QED
    BY <1>1, <1>2, <1>3, <1>4, <1>5, <2>1, <2>2, <2>3 DEF FbFits, FbSound
<1>6. CASE session.framebuffer
  <2>1. putc' = [c |-> c, step |-> "erase", x |-> f.x, y |-> f.y,
                 under |-> CellGet(f, f.x, f.y), hit |-> FALSE]
    BY <1>2, <1>6, Zenon DEF BeginChar, Begun
  <2>2. /\ putc'.c = c /\ putc'.step = "erase" /\ putc'.x = f.x /\ putc'.y = f.y
        /\ putc'.under = CellGet(f, f.x, f.y) /\ putc' # NoChar
    BY <2>1 DEF NoChar
  <2>3. c \in Typeset
    <3>1. c \in Written
      BY <1>1, <1>2, NextCharacter
    <3>2. QED
      BY <3>1 DEF Written, Typeset, Letters, Cells
  <2>4. FbRest' = FbPutChar(f, c)
    BY <1>1, <1>2, <1>6, <2>2, RestFbIs DEF FbRest
  <2>5. Sound(FbPutChar(f, c))
    BY <1>3, <2>3, SoundPutChar
  <2>6. CellGet(f, f.x, f.y) \in Letters
    BY <1>4, AgreesSelf, CellGetIs
  <2>7. Captured'
    BY <1>1, <1>2, <1>4, <2>2, <2>6 DEF Captured
  <2>8. f.x # FB_COLS /\ f.y # FB_ROWS
    BY <1>4, GridIs DEF GridRow
  <2>9. QED
    BY <1>1, <1>2, <1>3, <1>4, <2>3, <2>4, <2>5, <2>7, <2>8 DEF FbFits, FbSound
<1>7. QED
  BY <1>5, <1>6

LEMMA FbKept ==
    ASSUME Modes, FbFits, FbSound, [Next]_vars
    PROVE  FbFits' /\ FbSound'
<1>1. UNCHANGED session /\ (FbPiece \/ TermPiece \/ BeginChar \/ Disturb)
  BY StepKinds
<1>2. CASE FbPiece
  BY <1>2, FbPieceFits, FbPieceSound
<1>3. CASE BeginChar
  BY <1>3, BeginSound
<1>4. CASE TermPiece
  <2>1. ~session.framebuffer /\ UNCHANGED fb
    BY <1>4 DEF TermPiece
  <2>2. FbRest' = FbRest
    BY <1>1, <2>1 DEF FbRest
  <2>3. Captured'
    BY <1>1, <2>1 DEF Captured
  <2>4. QED
    BY <1>1, <2>1, <2>2, <2>3 DEF FbFits, FbSound
<1>5. CASE Disturb /\ ~FbPiece
  BY <1>1, <1>5, FbMoves, HandlerSound
<1>6. QED
  BY <1>1, <1>2, <1>3, <1>4, <1>5

-----------------------------------------------------------------------------
(* The prompt and the line on the framebuffer console.                       *)

\* The text up to the mark, once a character that has begun is printed, ends
\* like what is printed of the prompt and the line behind it.
LineShown ==
    /\ g_line \in Seq(Chars)
    /\ \E k \in 0 .. Len(PROMPT) :
          /\ todo = SubSeq(PROMPT, k + 1, Len(PROMPT))
          /\ EndAlike(Text(FbRest), SubSeq(PROMPT, 1, k) \o g_line)

ScreenInv ==
    /\ FbFits /\ FbSound
    /\ ~executing /\ g_simple_mode /\ ~torn => LineShown

LEMMA LineIsTypeset ==
    ASSUME g_line \in Seq(Chars)
    PROVE  g_line \in Seq(Letters) /\ Len(g_line) \in Nat
<1>1. Chars \subseteq Letters
  BY DEF Letters, Cells
<1>2. g_line \in Seq(Letters)
  BY <1>1, SeqWider
<1>3. QED
  BY <1>2

\* Appending to a line, and shortening it, behind a prompt.
LEMMA LongerBehind ==
    ASSUME NEW s \in Seq(Letters), NEW t \in Seq(Letters), NEW c \in Letters
    PROVE  s \o t \in Seq(Letters) /\ Append(s \o t, c) = s \o Append(t, c)
OBVIOUS

LEMMA ShorterBehind ==
    ASSUME NEW s \in Seq(Letters), NEW t \in Seq(Letters), t # <<>>
    PROVE  s \o t \in Seq(Letters) /\ s \o t # <<>> /\ Front(s \o t) = s \o Front(t)
<1>1. Len(t) \in Nat \ {0} /\ Len(s) \in Nat
  OBVIOUS
<1>2. s \o t \in Seq(Letters) /\ Len(s \o t) = Len(s) + Len(t) /\ s \o t # <<>>
  BY <1>1
<1>3. SubSeq(s \o t, 1, Len(s) + Len(t) - 1) = s \o SubSeq(t, 1, Len(t) - 1)
  BY <1>1
<1>4. QED
  BY <1>2, <1>3 DEF Front

\* The whole prompt and the line, from the text and back.
LEMMA WholeShown ==
    ASSUME todo = <<>>, g_line \in Seq(Chars)
    PROVE  LineShown <=> EndAlike(Text(FbRest), PROMPT \o g_line)
<1>1. ASSUME LineShown PROVE EndAlike(Text(FbRest), PROMPT \o g_line)
  BY <1>1, PromptIs DEF LineShown
<1>2. ASSUME EndAlike(Text(FbRest), PROMPT \o g_line) PROVE LineShown
  <2>1. todo = SubSeq(PROMPT, Len(PROMPT) + 1, Len(PROMPT)) /\ Len(PROMPT) \in 0 .. Len(PROMPT)
    BY PromptIs, Zenon
  <2>2. EndAlike(Text(FbRest), SubSeq(PROMPT, 1, Len(PROMPT)) \o g_line)
    BY <1>2, PromptIs, Zenon
  <2>3. QED
    BY <2>1, <2>2, Zenon DEF LineShown
<1>3. QED
  BY <1>1, <1>2

\* The line is typed and erased where the text on the screen ends.
LEMMA TypedBehind ==
    ASSUME NEW f, Sound(f), NEW line \in Seq(Letters), EndAlike(Text(f), PROMPT \o line)
    PROVE  /\ \A c \in Letters : EndAlike(Text(FbPrint(f, <<c>>)), PROMPT \o Append(line, c))
           /\ line # <<>> => EndAlike(Text(FbPrint(f, Erasing)), PROMPT \o Front(line))
<1>1. PROMPT \in Seq(Letters)
  BY PromptIs
<1>2. PICK T : T = PROMPT \o line
  OBVIOUS
<1>3. T \in Seq(Letters) /\ EndAlike(Text(f), T)
  BY <1>1, <1>2
<1>4. ASSUME NEW c \in Letters
      PROVE  EndAlike(Text(FbPrint(f, <<c>>)), PROMPT \o Append(line, c))
  <2>1. FbPrint(f, <<c>>) = FbPutChar(f, c)
    BY FbPrintOne DEF Typeset
  <2>2. EndAlike(Text(FbPutChar(f, c)), Append(T, c))
    BY <1>3, PrintedText
  <2>3. Append(T, c) = PROMPT \o Append(line, c)
    BY <1>1, <1>2, LongerBehind
  <2>4. QED
    BY <2>1, <2>2, <2>3
<1>5. ASSUME line # <<>>
      PROVE  EndAlike(Text(FbPrint(f, Erasing)), PROMPT \o Front(line))
  <2>1. T # <<>> /\ Front(T) = PROMPT \o Front(line)
    BY <1>1, <1>2, <1>5, ShorterBehind
  <2>2. EndAlike(Text(FbPrint(f, Erasing)), Front(T))
    BY <1>3, <2>1, ErasedByThree
  <2>3. QED
    BY <2>1, <2>2
<1>6. QED
  BY <1>4, <1>5

LEMMA EditShown ==
    ASSUME Modes, FbFits, FbSound, LineShown, g_cursor = Len(g_line),
           session.framebuffer, putc = NoChar, putc' = NoChar, todo = <<>>,
           UNCHANGED <<session, todo>>, NEW key, EditSimple(key)
    PROVE  LineShown'
<1>1. PICK f, u : f = fb /\ u = fb'
  OBVIOUS
<1>2. FbRest = f /\ FbRest' = u /\ Sound(f)
  BY <1>1 DEF FbRest, FbSound, NoChar
<1>3. PICK line : line = g_line
  OBVIOUS
<1>4. line \in Seq(Chars) /\ line \in Seq(Letters) /\ Len(line) \in Nat
  BY <1>3, LineIsTypeset DEF LineShown
<1>5. EndAlike(Text(f), PROMPT \o line)
  BY <1>2, <1>3, <1>4, WholeShown
<1>6. ASSUME g_line' \in Seq(Chars), EndAlike(Text(u), PROMPT \o g_line')
      PROVE  LineShown'
  <2>1. todo' = SubSeq(PROMPT, Len(PROMPT) + 1, Len(PROMPT)) /\ Len(PROMPT) \in 0 .. Len(PROMPT)
    BY PromptIs, Zenon
  <2>2. EndAlike(Text(FbRest'), SubSeq(PROMPT, 1, Len(PROMPT)) \o g_line')
    BY <1>2, <1>6, PromptIs, Zenon
  <2>3. QED
    BY <1>6, <2>1, <2>2, Zenon DEF LineShown
<1>7. CASE UNCHANGED <<g_line, g_cursor, screens>>
  BY <1>1, <1>3, <1>4, <1>5, <1>6, <1>7 DEF screens
<1>8. CASE key \in Chars /\ Line(Append(g_line, key), g_cursor + 1) /\ ConsolePrint(<<key>>)
  <2>1. key \in Letters /\ u = FbPrint(f, <<key>>) /\ g_line' = Append(line, key)
    BY <1>1, <1>3, <1>8 DEF Letters, Cells, ConsolePrint, Line
  <2>2. g_line' \in Seq(Chars)
    BY <1>4, <1>8, <2>1
  <2>3. QED
    BY <1>2, <1>4, <1>5, <1>6, <2>1, <2>2, TypedBehind
<1>9. CASE g_cursor > 0 /\ Line(Front(g_line), g_cursor - 1) /\ ConsolePrint(Erasing)
  <2>1. line # <<>> /\ u = FbPrint(f, Erasing) /\ g_line' = Front(line)
    BY <1>1, <1>3, <1>4, <1>9 DEF ConsolePrint, Line
  <2>2. Front(line) \in Seq(Chars)
    <3>1. Front(line) = SubSeq(line, 1, Len(line) - 1) /\ Len(line) \in Nat \ {0}
      BY <1>4, <2>1 DEF Front
    <3>2. PICK m \in Nat : m = Len(line) - 1
      BY <3>1
    <3>3. m \in 0 .. Len(line)
      BY <3>1, <3>2
    <3>4. SubSeq(line, 1, m) \in Seq(Chars)
      BY <1>4, <3>3, RestOf
    <3>5. QED
      BY <3>1, <3>2, <3>4
  <2>3. QED
    BY <1>2, <1>4, <1>5, <1>6, <2>1, <2>2, TypedBehind
<1>10. QED
  BY <1>7, <1>8, <1>9, Zenon DEF EditSimple

\* After a command the whole prompt is printed at once.
LEMMA ReturnShown ==
    ASSUME Modes, FbFits, FbSound, g_simple_mode, Return, ~torn'
    PROVE  LineShown'
<1>1. /\ g_line' = <<>> /\ UNCHANGED <<session, todo>>
      /\ torn' = Exposed /\ ConsolePrint(PROMPT) /\ Disturb
  BY DEF Return, Line, booting
<1>2. session.framebuffer /\ main = "prompt"
  BY DEF Modes
<1>3. putc = NoChar /\ todo = <<>>
  BY <1>1, <1>2 DEF Exposed, Waiting
<1>4. putc' = NoChar
  BY <1>1, <1>3, DisturbIs DEF Modes
<1>5. PICK f, u : f = fb /\ u = fb'
  OBVIOUS
<1>6. FbRest' = u /\ Sound(f) /\ u = FbPrint(f, PROMPT)
  BY <1>1, <1>2, <1>3, <1>4, <1>5 DEF FbRest, FbSound, NoChar, ConsolePrint
<1>7. EndAlike(Text(u), PROMPT)
  BY <1>6, PromptText
<1>8. todo' = SubSeq(PROMPT, Len(PROMPT) + 1, Len(PROMPT)) /\ Len(PROMPT) \in 0 .. Len(PROMPT)
  BY <1>1, <1>3, PromptIs, Zenon
<1>9. EndAlike(Text(FbRest'), SubSeq(PROMPT, 1, Len(PROMPT)) \o g_line')
  BY <1>1, <1>6, <1>7, PromptIs, Zenon
<1>10. g_line' \in Seq(Chars)
  BY <1>1
<1>11. QED
  BY <1>8, <1>9, <1>10, Zenon DEF LineShown

\* shell_init finds any screen and owes the prompt.
LEMMA ChooseShown ==
    ASSUME Modes, Marks, ChooseMode, g_simple_mode', ~torn'
    PROVE  LineShown'
<1>1. /\ main = "mode" /\ session.framebuffer /\ todo' = PROMPT
      /\ UNCHANGED <<g_line, torn>>
  BY DEF ChooseMode, MainStep, marks
<1>2. g_line' = <<>>
  BY <1>1 DEF Marks, Intact
<1>3. todo' = SubSeq(PROMPT, 0 + 1, Len(PROMPT)) /\ 0 \in 0 .. Len(PROMPT)
  BY <1>1, PromptIs, Zenon
<1>4. EndAlike(Text(FbRest'), SubSeq(PROMPT, 1, 0) \o g_line')
  <2>1. PICK t : t = SubSeq(PROMPT, 1, 0) \o g_line'
    OBVIOUS
  <2>2. SubSeq(PROMPT, 1, 0) = <<>>
    BY PromptIs, Zenon
  <2>3. Len(t) = 0
    BY <1>2, <2>1, <2>2
  <2>4. EndAlike(Text(FbRest'), t)
    BY <2>3 DEF EndAlike
  <2>5. QED
    BY <2>1, <2>4
<1>5. g_line' \in Seq(Chars)
  BY <1>2
<1>6. QED
  BY <1>3, <1>4, <1>5, Zenon DEF LineShown

\* A character of the prompt begins.
LEMMA BeginShown ==
    ASSUME Modes, Marks, FbFits, FbSound, LineShown, g_simple_mode, ~torn, BeginChar
    PROVE  LineShown'
<1>1. /\ todo # <<>> /\ todo' = Tail(todo) /\ UNCHANGED <<session, g_line>>
  BY DEF BeginChar, shell
<1>2. g_line = <<>>
  BY <1>1 DEF Marks, Intact, Waiting
<1>3. PICK f, u, c : f = fb /\ u = FbRest' /\ c = Head(todo)
  OBVIOUS
<1>4. FbRest = f /\ Sound(f) /\ u = FbPutChar(f, c)
  BY <1>3, BeginSound DEF Modes
<1>5. PICK k \in 0 .. Len(PROMPT) : /\ todo = SubSeq(PROMPT, k + 1, Len(PROMPT))
                                    /\ EndAlike(Text(FbRest), SubSeq(PROMPT, 1, k) \o g_line)
  BY DEF LineShown
<1>6. PROMPT \in Seq(Letters)
  BY PromptIs
<1>7. /\ k + 1 \in 0 .. Len(PROMPT) /\ c \in Letters
      /\ todo' = SubSeq(PROMPT, (k + 1) + 1, Len(PROMPT))
      /\ SubSeq(PROMPT, 1, k + 1) = Append(SubSeq(PROMPT, 1, k), c)
  <2>1. SubSeq(PROMPT, k + 1, Len(PROMPT)) # <<>>
    BY <1>1, <1>5
  <2>2. LET rest == SubSeq(PROMPT, k + 1, Len(PROMPT))
        IN  /\ k + 1 \in 0 .. Len(PROMPT) /\ Head(rest) \in Letters
            /\ Tail(rest) = SubSeq(PROMPT, (k + 1) + 1, Len(PROMPT))
            /\ SubSeq(PROMPT, 1, k + 1) = Append(SubSeq(PROMPT, 1, k), Head(rest))
    BY <1>6, <2>1, NextOf
  <2>3. QED
    BY <1>1, <1>3, <1>5, <2>2
<1>8. PICK T \in Seq(Letters) : T = SubSeq(PROMPT, 1, k)
  BY PromptIs
<1>9. T \o <<>> = T
  OBVIOUS
<1>10. EndAlike(Text(f), T)
  BY <1>2, <1>4, <1>5, <1>8, <1>9
<1>11. EndAlike(Text(u), Append(T, c))
  BY <1>4, <1>7, <1>10, PrintedText
<1>12. PICK V \in Seq(Letters) : V = Append(T, c)
  <2>1. Append(T, c) \in Seq(Letters)
    BY <1>7
  <2>2. QED
    BY <2>1, Zenon
<1>13. V \o <<>> = V
  OBVIOUS
<1>14. EndAlike(Text(FbRest'), SubSeq(PROMPT, 1, k + 1) \o g_line')
  BY <1>1, <1>2, <1>3, <1>7, <1>8, <1>11, <1>12, <1>13
<1>15. g_line' \in Seq(Chars)
  BY <1>1, <1>2
<1>16. QED
  BY <1>7, <1>14, <1>15, Zenon DEF LineShown

\* Every step keeps the screen's invariant.
LEMMA ScreenKept ==
    ASSUME TermInv, TermInv', ScreenInv, [Next]_vars
    PROVE  ScreenInv'
<1>1. EditorInv /\ Modes /\ Modes' /\ Marks /\ Marks' /\ FbFits /\ FbSound
  BY DEF TermInv, ScreenInv
<1>2. FbFits' /\ FbSound'
  BY <1>1, FbKept
<1>3. SUFFICES ASSUME ~executing', g_simple_mode', ~torn'
               PROVE  LineShown'
  BY <1>2 DEF ScreenInv
<1>4. ASSUME UNCHANGED <<g_line, todo, executing, g_simple_mode, torn>>, FbRest' = FbRest
      PROVE  LineShown'
  BY <1>3, <1>4 DEF ScreenInv, LineShown
<1>5. ASSUME UNCHANGED <<session, shell, g_simple_mode, todo, torn, putc, fb>>
      PROVE  LineShown'
  <2>1. FbRest' = FbRest
    BY <1>5 DEF FbRest
  <2>2. UNCHANGED <<g_line, executing>>
    BY <1>5 DEF shell
  <2>3. QED
    BY <1>4, <1>5, <2>1, <2>2
<1>6. CASE UNCHANGED vars
  BY <1>5, <1>6 DEF vars, booting, marks, screens
<1>7. ASSUME NEW key, Press(key)
      PROVE  LineShown'
  <2>1. UNCHANGED <<session, g_simple_mode, todo>> /\ ~executing
    BY <1>7 DEF Press, Sends, Interruptible
  <2>2. session.framebuffer /\ g_simple_mode /\ main = "prompt" /\ main' = "prompt"
    BY <1>1, <1>3, <2>1 DEF Modes
  <2>3. CASE UNCHANGED <<shell, main, putc, marks, screens>>
    BY <1>5, <2>1, <2>3 DEF marks, screens
  <2>4. CASE HandleKey(key) /\ Disturb /\ torn' = (torn \/ Exposed)
    <3>1. ~torn /\ ~Exposed
      BY <1>3, <2>4
    <3>2. putc = NoChar /\ todo = <<>>
      BY <2>2, <3>1 DEF Exposed, Waiting
    <3>3. putc' = NoChar
      BY <1>1, <2>1, <2>4, <3>2, DisturbIs DEF Modes
    <3>4. EditSimple(key)
      <4>1. ~Enter
        BY <1>3 DEF Enter
      <4>2. QED
        BY <2>2, <2>4, <4>1, Zenon DEF HandleKey
    <3>5. LineShown /\ g_cursor = Len(g_line)
      BY <1>1, <2>1, <2>2, <3>1 DEF ScreenInv, Marks, Intact
    <3>6. QED
      BY <1>1, <2>1, <2>2, <3>2, <3>3, <3>4, <3>5, EditShown
  <2>5. ~(main' = "lost")
    BY <2>2
  <2>6. QED
    BY <1>7, <2>3, <2>4, <2>5, Zenon DEF Press
<1>8. ASSUME NEW key, Release(key) \/ PressModifier(key)
      PROVE  LineShown'
  BY <1>5, <1>8 DEF Release, PressModifier, Sends, marks, screens
<1>9. CASE Prefix
  BY <1>5, <1>9 DEF Prefix, booting, marks, screens
<1>10. CASE ClearCommand
  BY <1>3, <1>10 DEF ClearCommand, shell
<1>11. CASE Return
  <2>1. g_simple_mode
    BY <1>3, <1>11 DEF Return, booting
  <2>2. QED
    BY <1>1, <1>3, <1>11, <2>1, ReturnShown
<1>12. CASE BeginChar
  <2>1. ~executing /\ UNCHANGED <<g_simple_mode, torn>>
    BY <1>12 DEF BeginChar, marks
  <2>2. LineShown
    BY <1>3, <2>1 DEF ScreenInv
  <2>3. QED
    BY <1>1, <1>3, <1>12, <2>1, <2>2, BeginShown
<1>13. CASE FbPiece
  <2>1. UNCHANGED <<todo, g_line, g_simple_mode, torn, executing>> /\ putc # NoChar
    BY <1>1, <1>13, FbPieceIs
  <2>2. main = "prompt"
    BY <1>1, <1>3, <2>1 DEF Modes
  <2>3. ~putc.hit
    BY <1>1, <1>3, <2>1, <2>2 DEF Marks
  <2>4. FbRest' = FbRest
    BY <1>1, <1>13, <2>3, PieceRest
  <2>5. QED
    BY <1>4, <2>1, <2>4
<1>14. CASE TermPiece
  <2>1. ~session.framebuffer /\ UNCHANGED <<session, shell, booting, marks>>
    BY <1>1, <1>14, PieceIs DEF TermPiece
  <2>2. g_simple_mode
    BY <1>3, <2>1 DEF booting
  <2>3. QED
    BY <1>1, <2>1, <2>2 DEF Modes
<1>15. CASE ShellInit
  <2>1. CASE ChooseMode
    BY <1>1, <1>3, <2>1, ChooseShown
  <2>2. CASE EmptyLine \/ ZeroLen \/ ZeroCursor
    <3>1. UNCHANGED g_simple_mode /\ main \in {"greet", "len", "cursor"}
      BY <2>2 DEF EmptyLine, ZeroLen, ZeroCursor, MainStep
    <3>2. QED
      BY <1>1, <1>3, <3>1 DEF Modes
  <2>3. CASE ReadArgs \/ StoreInput \/ PlaceCursor
    <3>1. UNCHANGED g_simple_mode /\ main \in {"redraw", "store", "place"}
      BY <2>3 DEF ReadArgs, StoreInput, PlaceCursor, MainStep
    <3>2. QED
      BY <1>1, <1>3, <3>1 DEF Modes
  <2>4. QED
    BY <1>15, <2>1, <2>2, <2>3 DEF ShellInit
<1>16. ASSUME NEW c \in Chars \cup {LF, CR, BS}, Output(c)
       PROVE  LineShown'
  BY <1>3, <1>16 DEF Output, shell
<1>17. QED
  BY <1>6, <1>7, <1>8, <1>9, <1>10, <1>11, <1>12, <1>13, <1>14, <1>15, <1>16, Zenon DEF Next

LEMMA ScreenAtFirst ==
    ASSUME Init
    PROVE  ScreenInv
<1>1. PICK blank, dark : /\ blank = [row \in GridRow |-> BlankRow]
                         /\ dark = [row \in GridRow |-> BlackRow]
  OBVIOUS
<1>2. blank \in Grids /\ 0 \in GridCol /\ 0 \in GridRow
  BY <1>1, GridIs DEF Grids
<1>3. Drawn(blank) = dark
  BY <1>1 DEF Drawn, BlackRow, BlankRow
<1>4. [cells |-> blank, shown |-> dark, x |-> 0, y |-> 0, smeared |-> 0] = Erased(blank, 0, 0)
  BY <1>3 DEF Erased
<1>5. FbInit = DrawCursor(Erased(blank, 0, 0))
  BY <1>1, <1>4, Zenon DEF FbInit
<1>6. fb = Complete(blank, 0, 0) /\ FbTyped(fb)
  BY <1>2, <1>5, DrawIs DEF Init
<1>7. fb.x = 0 /\ fb.y = 0
  BY <1>6 DEF Complete
<1>8. Complies(fb)
  BY <1>2, <1>6 DEF Complies
<1>9. Sound(fb)
  BY <1>6, <1>8, AgreesSelf DEF Sound
<1>10. putc = NoChar /\ ~g_simple_mode
  BY DEF Init
<1>11. FbRest = fb
  BY <1>10 DEF FbRest
<1>12. fb.x # FB_COLS /\ fb.y # FB_ROWS
  BY <1>7, GridIs
<1>13. QED
  BY <1>6, <1>9, <1>10, <1>11, <1>12 DEF ScreenInv, FbFits, FbSound, Captured

(***************************************************************************)
(* In every reachable state, also in the middle of a character that kmain  *)
(* prints, finishing that character leaves a screen drawn from the cells   *)
(* and the cursor, in all rows but those that a character printed into     *)
(* another one has spoilt, or it is spoilt itself; and between commands    *)
(* the text up to the cursor then ends like the prompt, as far as it has   *)
(* been printed, and the line behind it.                                   *)
(***************************************************************************)
THEOREM ScreenInvariance == Spec => []ScreenInv
<1>1. Init => ScreenInv
  BY ScreenAtFirst
<1>2. ScreenInv /\ TermInv /\ TermInv' /\ [Next]_vars => ScreenInv'
  BY ScreenKept
<1>3. QED
  BY <1>1, <1>2, TerminalInvariance, PTL DEF Spec

\* What a screen drawn from the cells shows.
LEMMA CompleteShows ==
    ASSUME NEW cells \in Grids, NEW x \in GridCol, NEW y \in GridRow,
           NEW row \in GridRow, NEW col \in GridCol
    PROVE  Marked(Drawn(cells), x, y)[row][col]
              = [glyph |-> cells[row][col], mark |-> row = y /\ col = x]
<1>1. PICK d : d = Drawn(cells)
  OBVIOUS
<1>2. d \in Screens /\ d[row][col] = Glyph(cells[row][col])
  BY <1>1 DEF Drawn, Screens, Grids, Glyph
<1>3. PICK m : m = Marked(d, x, y)
  OBVIOUS
<1>4. m = [d EXCEPT ![y][x].mark = TRUE]
  BY <1>3 DEF Marked, InGrid
<1>5. CASE row = y /\ col = x
  <2>1. PICK g, t, u : g = d[row][col] /\ t = FALSE /\ u = TRUE
    OBVIOUS
  <2>2. m[row][col] = [g EXCEPT !.mark = u]
    BY <1>2, <1>4, <1>5, <2>1 DEF Screens
  <2>3. g = [glyph |-> cells[row][col], mark |-> t]
    BY <1>2, <2>1, Zenon DEF Glyph
  <2>4. [g EXCEPT !.mark = u] = [glyph |-> cells[row][col], mark |-> u]
    BY <2>3
  <2>5. (row = y /\ col = x) = u
    BY <1>5, <2>1
  <2>6. QED
    BY <1>1, <1>3, <2>2, <2>4, <2>5, Zenon
<1>6. CASE ~ (row = y /\ col = x)
  <2>1. m[row][col] = d[row][col]
    BY <1>2, <1>4, <1>6 DEF Screens
  <2>2. (row = y /\ col = x) = FALSE
    BY <1>6
  <2>3. QED
    BY <1>1, <1>2, <1>3, <2>1, <2>2, Zenon DEF Glyph
<1>7. QED
  BY <1>5, <1>6

LEMMA SoundShows ==
    ASSUME NEW f, Sound(f), NEW row \in GridRow, row >= f.smeared, NEW col \in GridCol
    PROVE  f.shown[row][col] = [glyph |-> f.cells[row][col], mark |-> row = f.y /\ col = f.x]
<1>1. PICK g : Complies(g) /\ Agrees(f, g)
  BY DEF Sound
<1>2. PICK cells \in Grids, x \in GridCol, y \in GridRow : g = Complete(cells, x, y)
  BY <1>1 DEF Complies
<1>3. g.cells = cells /\ g.shown = Marked(Drawn(cells), x, y) /\ g.x = x /\ g.y = y
  BY <1>2 DEF Complete
<1>4. f.cells = cells /\ f.x = x /\ f.y = y /\ f.shown[row] = g.shown[row]
  BY <1>1, <1>3 DEF Agrees
<1>5. Marked(Drawn(cells), x, y)[row][col] = [glyph |-> cells[row][col], mark |-> row = y /\ col = x]
  BY CompleteShows
<1>6. QED
  BY <1>3, <1>4, <1>5, Zenon

(***************************************************************************)
(* On the framebuffer console, whatever is printed, typed and erased, the  *)
(* screen shows the cells and one mark at the cursor, in all rows but      *)
(* those on the screen when a key printed into the middle of a character.  *)
(* When the shell waits for a key the text up to that mark ends with the   *)
(* prompt and the line, or is itself the end of them, and the cursor is at *)
(* the end of the line, unless a key has come while shell_init was at work *)
(* and no Enter since.                                                     *)
(***************************************************************************)
THEOREM ScreenIsRight == Spec => []ScreenShown
<1>1. ASSUME TermInv, ScreenInv PROVE ScreenShown
  <2>1. ASSUME putc = NoChar PROVE Sound(fb) /\ FbRest = fb
    BY <1>1, <2>1 DEF ScreenInv, FbSound, FbRest, NoChar
  <2>2. ScreenShowsCells
    <3>1. SUFFICES ASSUME putc = NoChar, NEW row \in fb.smeared .. Bottom, NEW col \in GridCol
                   PROVE  fb.shown[row][col] = [glyph |-> fb.cells[row][col],
                                                mark |-> row = fb.y /\ col = fb.x]
      BY DEF ScreenShowsCells
    <3>2. PICK f : f = fb
      OBVIOUS
    <3>3. Sound(f) /\ f.smeared \in 0 .. FB_ROWS
      BY <2>1, <3>1, <3>2, SoundIs DEF FbTyped
    <3>4. row \in GridRow /\ row >= f.smeared
      BY <3>1, <3>2, <3>3, GridIs DEF GridRow, Bottom
    <3>5. f.shown[row][col] = [glyph |-> f.cells[row][col], mark |-> row = f.y /\ col = f.x]
      BY <3>3, <3>4, SoundShows
    <3>6. QED
      BY <3>2, <3>5, Zenon
  <2>3. ASSUME ~executing, g_simple_mode, Waiting, ~torn
        PROVE  /\ g_cursor = Len(g_line)
               /\ IsSuffix(TextToMark, PROMPT \o g_line) \/ IsSuffix(PROMPT \o g_line, TextToMark)
    <3>1. g_cursor = Len(g_line)
      BY <1>1, <2>3 DEF TermInv, Marks, Intact
    <3>2. LineShown /\ putc = NoChar /\ todo = <<>>
      BY <1>1, <2>3 DEF ScreenInv, Waiting
    <3>3. g_line \in Seq(Chars) /\ g_line \in Seq(Letters) /\ PROMPT \in Seq(Letters)
      BY <3>2, LineIsTypeset, PromptIs DEF LineShown
    <3>4. PICK T : T = PROMPT \o g_line
      OBVIOUS
    <3>5. T \in Seq(Letters)
      BY <3>3, <3>4
    <3>6. TextToMark = Text(fb)
      BY DEF TextToMark, Text
    <3>7. EndAlike(Text(fb), T) /\ Text(fb) \in Seq(Letters)
      BY <2>1, <3>2, <3>3, <3>4, WholeShown, SoundIs
    <3>8. IsSuffix(Text(fb), T) \/ IsSuffix(T, Text(fb))
      BY <3>5, <3>7, AlikeOrNot
    <3>9. QED
      BY <3>1, <3>4, <3>6, <3>8, Zenon
  <2>4. QED
    BY <2>2, <2>3, Zenon DEF ScreenShown
<1>2. TermInv /\ ScreenInv => ScreenShown
  BY <1>1
<1>3. QED
  BY <1>2, TerminalInvariance, ScreenInvariance, PTL

-----------------------------------------------------------------------------
(* The type invariant.                                                       *)

\* What is left of a text is the end of it.
LEMMA RestIsSuffix ==
    ASSUME NEW chars, NEW src \in Seq(chars), NEW k \in 0 .. Len(src)
    PROVE  IsSuffix(SubSeq(src, k + 1, Len(src)), src)
<1> DEFINE N == Len(src)
<1>1. N \in Nat
  BY RestOf
<1>2. PICK r : r = SubSeq(src, k + 1, N)
  OBVIOUS
<1>3. r \in Seq(chars) /\ Len(r) = N - k /\ \A i \in 1 .. N - k : r[i] = src[k + i]
  <2>1. \A i \in k + 1 .. N : src[i] \in chars
    BY <1>1, ElementOfSeq
  <2>2. r \in Seq(chars)
    BY <1>1, <1>2, <2>1, SubSeqProperties
  <2>3. Len(r) = N - k /\ \A i \in 1 .. N - k : r[i] = src[k + i]
    BY <1>1, <1>2
  <2>4. QED
    BY <2>2, <2>3
<1>4. EndAlike(r, src)
  <2>1. SUFFICES ASSUME NEW i \in Nat \ {0}, i <= Len(r), i <= N
                 PROVE  r[Len(r) + 1 - i] = src[N + 1 - i]
    BY DEF EndAlike
  <2>2. Len(r) + 1 - i \in 1 .. N - k /\ k + (Len(r) + 1 - i) = N + 1 - i
    BY <1>1, <1>3, <2>1
  <2>3. QED
    BY <1>3, <2>2
<1>5. Len(r) <= N
  BY <1>1, <1>3
<1>6. QED
  BY <1>1, <1>2, <1>3, <1>4, <1>5, SuffixIs

(***************************************************************************)
(* Keyboard, editor, kmain, terminal and framebuffer console keep their    *)
(* types: no index leaves what it indexes, but for a cursor behind its     *)
(* line or its row between two assignments, and no cell holds what cannot  *)
(* be drawn.                                                               *)
(***************************************************************************)
THEOREM TypeCorrect == Spec => []TypeOK
<1>1. ASSUME EditorOK, TermInv, ScreenInv PROVE TypeOK
  <2>1. Modes /\ TermFits /\ FbFits /\ FbTyped(fb)
    BY <1>1 DEF TermInv, ScreenInv, FbFits
  <2>2. IsSuffix(todo, Source)
    <3>1. PICK k \in 0 .. Len(Source) : todo = SubSeq(Source, k + 1, Len(Source))
      BY <2>1 DEF Modes, Owed
    <3>2. \E chars : Source \in Seq(chars)
      BY <2>1, SessionIs DEF Source
    <3>3. QED
      BY <3>1, <3>2, RestIsSuffix
  <2>3. \/ putc = NoChar
        \/ /\ putc.step \in IF session.framebuffer THEN FbSteps ELSE TermSteps
           /\ putc.c \in Cells \cup {LF} \cup Range(PROMPT) /\ putc.hit \in BOOLEAN
    <3>1. Written \subseteq Cells \cup {LF} \cup Range(PROMPT)
      BY DEF Written, Cells
    <3>2. QED
      BY <2>1, <3>1 DEF Modes, PutcOK
  <2>4. BootOK
    BY <2>1, <2>2, <2>3, Zenon DEF BootOK, Modes, Source
  <2>5. term \in [lines : [Slots -> Rows], total : Nat, line : Nat, col : 0 .. TERM_WIDTH,
                  offset : Nat, input : LinesOf(Chars \cup {NUL}), cursor : Nat]
    BY <2>1, Zenon DEF TermFits, Typed, Str
  <2>6. /\ fb.x \in 0 .. FB_COLS /\ fb.y \in 0 .. FB_ROWS /\ fb.smeared \in 0 .. FB_ROWS
        /\ fb.cells \in [GridRow -> [GridCol -> Cells \cup Range(PROMPT)]]
    BY <2>1 DEF FbTyped, Grids, Letters
  <2>7. ConsolesOK
    BY <2>1, <2>5, <2>6, Zenon DEF ConsolesOK, TermFits, FbFits
  <2>8. QED
    BY <1>1, <2>1, <2>4, <2>7, Zenon DEF TypeOK, Modes
<1>2. EditorOK /\ TermInv /\ ScreenInv => TypeOK
  BY <1>1
<1>3. QED
  BY <1>2, EditorWhole, TerminalInvariance, ScreenInvariance, PTL

=============================================================================
