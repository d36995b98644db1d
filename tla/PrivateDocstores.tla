-------------------------- MODULE PrivateDocstores --------------------------
(***************************************************************************)
(* What the shared docstore promises each model: a docstore of its own.    *)
(* A version of the index is staged, gets the contents of one save, is     *)
(* made active when those are whole, and keeps them until it is pruned,    *)
(* which happens to inactive versions only.  That models share files on    *)
(* disk, that the shared files are collected and that savers die in the    *)
(* middle of all that changes none of it.                                  *)
(*                                                                         *)
(* DocstoreCas.tla implements this module.                                 *)
(***************************************************************************)
EXTENDS Integers

CONSTANTS
  Models,    \* the models
  Versions,  \* numbers of versions
  Contents,  \* what a docstore may say
  Torn,      \* a docstore that is not whole
  Nil        \* no docstore

VARIABLES
  docstore,  \* [Models -> [Versions -> contents of the version, Torn or Nil]]
  active     \* [Models -> the active version, -1 before the first]

vars == <<docstore, active>>

Init ==
  /\ docstore = [m \in Models |-> [v \in Versions |-> Nil]]
  /\ active = [m \in Models |-> -1]

\* The next version is staged, over what a save that died may have left.
Stage(m) ==
  /\ active[m] + 1 \in Versions
  /\ docstore' = [docstore EXCEPT ![m][active[m] + 1] = Torn]
  /\ UNCHANGED active

Fill(m) ==
  /\ active[m] + 1 \in Versions
  /\ docstore[m][active[m] + 1] = Torn
  /\ \E c \in Contents : docstore' = [docstore EXCEPT ![m][active[m] + 1] = c]
  /\ UNCHANGED active

Activate(m) ==
  /\ active[m] + 1 \in Versions
  /\ docstore[m][active[m] + 1] \in Contents
  /\ active' = [active EXCEPT ![m] = @ + 1]
  /\ UNCHANGED docstore

Prune(m) ==
  /\ \E below \in Versions :
       /\ below <= active[m]
       /\ docstore' = [docstore EXCEPT ![m] =
                         [v \in Versions |-> IF v < below THEN Nil ELSE docstore[m][v]]]
  /\ UNCHANGED active

Next == \E m \in Models : Stage(m) \/ Fill(m) \/ Activate(m) \/ Prune(m)

Spec == Init /\ [][Next]_vars
=============================================================================
