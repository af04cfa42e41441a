---------------------------- MODULE MCWritePacer ----------------------------
(* A small instance of WritePacer: three callers, a burst of two, one hold.    *)
EXTENDS WritePacer
=============================================================================
