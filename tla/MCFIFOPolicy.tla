---------------------------- MODULE MCFIFOPolicy ----------------------------
(* TLC instances of FIFOPolicy: a counter of three bits, and insertions     *)
(* enough to take it to the value getVictim reserves and past its wrap.    *)
EXTENDS FIFOPolicy
=============================================================================
