---------------------------- MODULE MCThreadPool ----------------------------
(* Instances of OFThreadPool for TLC.  Liveness is checked in the same runs*)
(* as safety, so no symmetry is declared.                                  *)
EXTENDS OFThreadPool, TLC
=============================================================================
