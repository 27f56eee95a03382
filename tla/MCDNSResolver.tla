--------------------------- MODULE MCDNSResolver ---------------------------
(* Instances of OFDNSResolver for TLC.                                     *)
EXTENDS OFDNSResolver, TLC
=============================================================================
