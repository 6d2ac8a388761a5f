------------------------------ MODULE MCFat32 ------------------------------
(* Fat32.tla with a directory of two or three entries and six clusters: there
   is one more name than entries, so that the directory can be full.         *)
EXTENDS Fat32Props, TLC

CONSTANTS n1, n2, n3, n4, t1, t2

TwoNames   == {n1, n2}
FourNames  == {n1, n2, n3, n4}
OneText    == {t1}
TwoTexts   == {t1, t2}
Former     == {7}
Nowhere    == {}
Swap       == Permutations(FourNames) \cup Permutations(TwoTexts)
=============================================================================
