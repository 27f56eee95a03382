-------------------------- MODULE MCRunLoopTimers --------------------------
(* Instances of OFRunLoopTimers for TLC.  Liveness is checked in the same  *)
(* runs as safety, so no symmetry is declared.                             *)
EXTENDS OFRunLoopTimers, TLC
=============================================================================
