------------------------------ MODULE MCDaemon ------------------------------
(* TLC instances of Daemon: see the .cfg files for the bounds.             *)
EXTENDS DaemonProps

CONSTANTS q1, q2, q3, q4
=============================================================================
