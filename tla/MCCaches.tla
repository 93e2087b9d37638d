------------------------------ MODULE MCCaches ------------------------------
(***************************************************************************)
(* The hierarchy itself and the replacement of its level-1 caches, with    *)
(* values for the constants of the cache modules.  Before the program runs *)
(* every byte of a block holds the number of the block, so that data that  *)
(* ends up under a wrong address differs from what belongs there; a store  *)
(* writes a value that no block starts with.                               *)
(***************************************************************************)
EXTENDS CacheReplacement

Fresh == 100

MCByte          == Blocks \cup {Fresh}
MCInitialMemory == [b \in Blocks |->
                     [w \in WordIndices |-> [k \in ByteIndices |-> b]]]
MCFreshWord     == {[k \in ByteIndices |-> Fresh]}
MCNoWord        == {}

=============================================================================
