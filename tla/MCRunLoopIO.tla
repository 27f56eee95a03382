---------------------------- MODULE MCRunLoopIO ----------------------------
(* Instances of OFRunLoopIO for TLC.                                       *)
EXTENDS OFRunLoopIO, TLC

Symmetry == Permutations(Items)
=============================================================================
