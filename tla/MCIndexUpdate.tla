--------------------------- MODULE MCIndexUpdate ---------------------------
(* TLC instances of IndexUpdate: see the .cfg files for the bounds.        *)
EXTENDS IndexUpdateProps, TLC

CONSTANTS s1, c1, c2, k1, f1, f2, a, ab, b, empty

\* Contents by what the splitter makes of them: ab is a with a chunk appended,
\* b replaces the first chunk, empty has none.
MCChunksOf == (a :> <<1>>) @@ (ab :> <<1, 2>>) @@ (b :> <<2>>) @@ (empty :> <<>>)

MCTwoFiles == {[f \in Files |-> a]}
MCOneModel == [m \in Managers |-> k1]
MCGlobal == {Files}
MCPerBase == {{f1}, {f2}, Files}
=============================================================================
