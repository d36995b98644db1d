--------------------------- MODULE MCLexicalCache ---------------------------
(* TLC instance of LexicalCache: see the .cfg file for the bounds.         *)
EXTENDS LexicalCacheProps

CONSTANTS r1, r2, r3, a, b

Leg == [path |-> "leg", refresh |-> FALSE]

\* The searches of R go on; the others were refused.
Only(R) ==
  /\ Unused
  /\ req = [r \in Requests |-> IF r \in R THEN NewRequest ELSE [NewRequest EXCEPT !.pc = "failed"]]
  /\ \A r \in Requests \ R : mode[r] = Leg

\* Three legs of hybrid searches, of which one refreshes, while nobody else
\* saves: a parse can be joined while another one displaces it.
ThreeLegs ==
  /\ Only({r1, r2, r3})
  /\ file.stamp = MaxStamp
  /\ mode[r1] = Leg /\ mode[r2] = Leg /\ mode[r3] = [Leg EXCEPT !.refresh = TRUE]

\* Two searches that refresh, while nobody else saves.
TwoRefresh ==
  /\ Only({r1, r2})
  /\ file.stamp = MaxStamp
  /\ mode[r1].refresh /\ mode[r2].refresh
  /\ mode[r1].path = "lexical" => mode[r2].path = "lexical"

\* Two legs that read, while another process replaces the file.
TwoRead ==
  /\ Only({r1, r2})
  /\ file.stamp = MaxStamp - 1
  /\ mode[r1] = Leg /\ mode[r2] = Leg

\* One search of any kind over any file, while others make and replace it.
OneSearch == Only({r1})

MCSpec ==
  /\ ThreeLegs \/ TwoRefresh \/ TwoRead \/ OneSearch
  /\ [][Next]_vars
  /\ Fairness
=============================================================================
