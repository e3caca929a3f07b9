--------------------------- MODULE MCQueriesStorage ---------------------------
(* QueriesStorage for TLC: a text that is too long, and what is read back of  *)
(* it.                                                                      *)
EXTENDS QueriesStorage

CONSTANTS a, b, c, long, beginning

LongIsCut == [t \in Texts |-> IF t = long THEN beginning ELSE t]

(* One id is as good as another.                                           *)
IdSymmetry == Permutations(Ids)
=============================================================================
