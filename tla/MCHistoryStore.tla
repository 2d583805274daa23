--------------------------- MODULE MCHistoryStore ---------------------------
(* A small history for HistoryStore. *)
EXTENDS HistoryStore, TLC

CONSTANTS c1, c2, c3, c4, blank

\* The contents that are recorded are interchangeable.
Sym == Permutations(Contents \ Blank)
=============================================================================
