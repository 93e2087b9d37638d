----------------------------- MODULE MCHistory ------------------------------
(* The hierarchy with its history.                                         *)
EXTENDS MCCaches, CacheHistory
=============================================================================
