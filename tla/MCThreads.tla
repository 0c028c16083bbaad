------------------------------ MODULE MCThreads ------------------------------
(* The instance of the thread sample for TLC: three adders of three        *)
(* additions each, then three consumers of three items each on a ring of   *)
(* three slots, so that the ring fills, empties and wraps, several         *)
(* consumers wait at once, and one is overtaken by another. No symmetry:   *)
(* the run checks liveness properties too.                                 *)
EXTENDS ThreadFunctions
=============================================================================
