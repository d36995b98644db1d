---------------------------- MODULE MCIndexStore ----------------------------
(* TLC instances of IndexStore: see the .cfg files for the bounds.         *)
EXTENDS IndexStoreProps

CONSTANTS w1, w2, r1, r2
=============================================================================
