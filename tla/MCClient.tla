------------------------------ MODULE MCClient ------------------------------
(* A caller of the hierarchy, against a flat memory.                       *)
EXTENDS MCCaches, CacheClient
=============================================================================
