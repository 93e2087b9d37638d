---------------------------- MODULE CacheHistory ----------------------------
(***************************************************************************)
(* The hierarchy with two history variables kept beside it: the lines that *)
(* each block has held in the memory, and the order in which the entries   *)
(* of level 2 came in.                                                     *)
(***************************************************************************)
EXTENDS CacheHierarchy, Sequences

VARIABLES
  held,     \* block -> the set of its lines, past and present
  arrivals  \* for each level-2 index, its valid ways, oldest first

hvars == << vars, held, arrivals >>

HistoryInit ==
  /\ Init
  /\ held = [b \in Blocks |-> {mem_space[b]}]
  /\ arrivals = [i \in L2Indices |-> << >>]

(* insert leaves the new entry, and no other valid one, with age 0.        *)
Entered(i) == IF l2_cache'[i] = l2_cache[i] THEN {}
              ELSE {w \in L2Ways : l2_cache'[i][w].v /\ l2_cache'[i][w].age = 0}

Remaining(i) ==
  LET Stays(w) == l2_cache'[i][w].v /\ w \notin Entered(i)
  IN  SelectSeq(arrivals[i], Stays)

HistoryNext ==
  /\ Next
  /\ held' = [b \in Blocks |-> held[b] \cup {mem_space'[b]}]
  /\ arrivals' = [i \in L2Indices |->
       IF Entered(i) = {} THEN Remaining(i)
       ELSE Append(Remaining(i), CHOOSE w \in Entered(i) : TRUE)]

HistorySpec == HistoryInit /\ [][HistoryNext]_hvars

-----------------------------------------------------------------------------
(***************************************************************************)
(* Properties.                                                             *)
(***************************************************************************)
(* An entry that sits at an index of a cache, as the block it claims to be *)
(* a copy of; the block of an invalid entry is never asked for.            *)
IsGenuine(entry, b) == entry.v => b \in Blocks /\ entry.line \in held[b]

(* A copy may be stale, but it is never invented, torn or filed under a    *)
(* wrong address: what any cache holds for a block, however it travelled   *)
(* between the levels and was rewritten on the way, is a line that the     *)
(* memory has held for that very block.                                    *)
CopiesAreGenuine ==
  /\ \A access \in {INSTRUCTION, DATA}, i \in L1Indices, w \in L1Ways :
       LET e == l1_cache[access][i][w]
       IN  IsGenuine(e, e.tag * L1_LINES + i)
  /\ \A i \in L2Indices, w \in L2Ways :
       LET e == l2_cache[i][w] IN IsGenuine(e, e.tag * L2_LINES + i)

(* evict "evicts an entry of the given cache at line_index and returns it  *)
(* (with LRU policy)" (cache_mng.c): when an entry of a level-2 index is   *)
(* overwritten and its block did not move to level 1, it was the one that  *)
(* had come in first: an entry is used exactly once after it came in, by   *)
(* the hit that moves it to level 1.                                       *)
L2EvictsLru ==
  [][\A i \in L2Indices : \A w \in Entered(i) :
       \/ ~ l2_cache[i][w].v
       \/ \E access \in Accesses :
            BlockOfL2(l2_cache[i][w].tag, i) \in BlocksOf(L1Copies(access)')
       \/ w = Head(arrivals[i])]_hvars

=============================================================================
