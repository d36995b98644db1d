--------------------------- MODULE MCDocstoreCas ----------------------------
(* TLC instances of DocstoreCas: see the .cfg files for the bounds.        *)
EXTENDS DocstoreCasProps, TLC

CONSTANTS m1, m2, c1, c2

\* Models and contents are told apart by nothing but their names.
Symmetry == Permutations(Models) \cup Permutations(Contents)
=============================================================================
