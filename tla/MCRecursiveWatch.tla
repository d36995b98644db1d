-------------------------- MODULE MCRecursiveWatch --------------------------
(* TLC instances of RecursiveWatch: see the .cfg files for the bounds.     *)
EXTENDS RecursiveWatchProps
=============================================================================
