-------------------------- MODULE CacheReplacement --------------------------
(***************************************************************************)
(* Replacement in the cache hierarchy: the ages of level 1 implement exact *)
(* least-recently-used replacement; the ages of level 2 do not.            *)
(***************************************************************************)
EXTENDS CacheHierarchy, FiniteSets, Sequences

(* The blocks of a level-1 index in the order of their ages.               *)
BlockOfAge(set, index, n) ==
  LET w == CHOOSE x \in L1Ways : set[x].v /\ set[x].age = n
  IN  set[w].tag * L1_LINES + index
ByAge(set, index) ==
  [n \in 1 .. Cardinality({w \in L1Ways : set[w].v}) |->
     BlockOfAge(set, index, n - 1)]

Lists == INSTANCE LruLists
           WITH Caches   <- {INSTRUCTION, DATA},
                Indices  <- L1Indices,
                capacity <- L1_WAYS,
                IndexOf  <- L1Index,
                order    <- [access \in {INSTRUCTION, DATA} |->
                               [i \in L1Indices |-> ByAge(l1_cache[access][i], i)]]

(* Both level-1 caches hold, at each index, exactly the L1_WAYS blocks     *)
(* used last there, however reads, stores, moves from level 2 and flushes  *)
(* interleave: the 2-bit ages order them by their last use.                *)
L1IsLru ==
  /\ Lists!Spec
  /\ [][/\ \A access \in Accesses, addr \in Address :
               CacheReadByte(access, addr) => Lists!Use(access, addr.block)
        /\ \A addr \in StoreAddress, word \in WriteWords :
               CacheWrite(addr, word) => Lists!Use(DATA, addr.block)]_vars

=============================================================================
