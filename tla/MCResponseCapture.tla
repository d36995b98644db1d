-------------------------- MODULE MCResponseCapture --------------------------
(* TLC instance of ResponseCapture: see mixed_responses.cfg.               *)
EXTENDS ResponseCapture

CONSTANTS q1, q2, q3
=============================================================================
