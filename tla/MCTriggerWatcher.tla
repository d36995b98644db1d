-------------------------- MODULE MCTriggerWatcher --------------------------
(* TLC instances of TriggerWatcher: see the .cfg files for the bounds.     *)
EXTENDS TriggerWatcherProps

CONSTANTS k1, p1, p2

\* Without the deferral the server never looks at the run-state file: the
\* hosts matter to the reindex runs alone, and one assignment is enough.
MCInit == Init /\ (build = "esm" => \A p \in Reindexers : host[p] = "here")
MCSpec == MCInit /\ [][Next]_vars /\ Fairness
=============================================================================
