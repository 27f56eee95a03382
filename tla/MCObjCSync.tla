----------------------------- MODULE MCObjCSync -----------------------------
(* An instance of ObjCSync for TLC.                                        *)
EXTENDS ObjCSync, TLC
=============================================================================
