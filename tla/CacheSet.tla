------------------------------ MODULE CacheSet ------------------------------
(***************************************************************************)
(* One set (one "line index", in the words of the code) of a set-          *)
(* associative cache: the operations that cache_mng.c and lru.h perform on *)
(* the ways of a single index, as functions on the contents of that index. *)
(*                                                                         *)
(* A set is a function from the ways 0 .. WAYS-1 to entries               *)
(*   [v |-> valid bit, age |-> LRU age, tag |-> tag, line |-> data].       *)
(* The code never looks at the tag and the data of an entry whose valid    *)
(* bit is 0 (cache_hit, find_empty_slot, evict and cache_dump test v       *)
(* first), so the model forgets them when the bit is cleared; the age of   *)
(* an invalid entry IS read and changed by the macros of lru.h and is kept.*)
(*                                                                         *)
(* A definition whose comment begins with "As if" is a deliberate mistake, *)
(* used nowhere: the properties are seen to fail when it takes the place   *)
(* of the definition it is made after.                                     *)
(***************************************************************************)
EXTENDS Integers

HIT_WAY_MISS  == -1     \* cache_hit: the way reported on a miss
NOTHING_FOUND == -1     \* find_empty_slot: no invalid way

(* The tag and the data of an entry whose valid bit is 0. *)
NoTag  == -1
NoLine == << >>

EmptyEntry == [v |-> FALSE, age |-> 0, tag |-> NoTag, line |-> NoLine]

Invalidated(entry) == [EmptyEntry EXCEPT !.age = entry.age]

(* foreach_way visits the ways in increasing order and stops at the first  *)
(* one that qualifies.                                                     *)
FirstWay(W) == CHOOSE w \in W : \A x \in W : w <= x

(***************************************************************************)
(* lru.h.  Both macros walk over every way of the index, valid or not.     *)
(***************************************************************************)
(* As if the age were allowed to reach WAYS.                               *)
LRU_age_increase_unsaturated(set, WAYS, way) ==
  [w \in DOMAIN set |->
     [set[w] EXCEPT !.age = IF w = way THEN 0
                            ELSE IF @ <= WAYS - 1 THEN @ + 1
                            ELSE @]]

LRU_age_increase(set, WAYS, way) ==
  [w \in DOMAIN set |->
     [set[w] EXCEPT !.age = IF w = way        THEN 0
                            ELSE IF @ < WAYS - 1 THEN @ + 1
                            ELSE @]]

LRU_age_update(set, way) ==
  [w \in DOMAIN set |->
     [set[w] EXCEPT !.age = IF w = way           THEN 0
                            ELSE IF @ < set[way].age THEN @ + 1
                            ELSE @]]

modify_ages(set, WAYS, way, isColdStart) ==
  IF isColdStart THEN LRU_age_increase(set, WAYS, way)
                 ELSE LRU_age_update(set, way)

(***************************************************************************)
(* cache_mng.c.                                                            *)
(***************************************************************************)

(* cache_hit: the scan gives up at the first invalid way it meets, even    *)
(* when a valid entry with the tag lies behind it.                         *)
hit_way(set, tag) ==
  LET stop == {w \in DOMAIN set : set[w].v => set[w].tag = tag}
  IN  IF stop # {} /\ set[FirstWay(stop)].v THEN FirstWay(stop)
                                            ELSE HIT_WAY_MISS

find_empty_slot(set) ==
  LET empty == {w \in DOMAIN set : ~ set[w].v}
  IN  IF empty = {} THEN NOTHING_FOUND ELSE FirstWay(empty)

(* evict: the way of the entry that leaves.  The scan keeps an entry as    *)
(* old as the oldest so far, so among equals the highest way wins.         *)
evict(set) ==
  CHOOSE w \in DOMAIN set :
    /\ set[w].v
    /\ \A x \in DOMAIN set : set[x].v =>
         \/ set[x].age < set[w].age
         \/ set[x].age = set[w].age /\ x <= w

isFull(set) == find_empty_slot(set) = NOTHING_FOUND

(* As if the new entry did not inherit the age of the evicted one.         *)
insert_with_age_0(set, WAYS, tag, line) ==
  LET way   == IF isFull(set) THEN evict(set) ELSE find_empty_slot(set)
      entry == [v |-> TRUE, age |-> 0, tag |-> tag, line |-> line]
  IN  modify_ages([set EXCEPT ![way] = entry], WAYS, way, ~ isFull(set))

(* The second half of insert_level1 and of insert_level2, which are the    *)
(* same: take the first empty way, or else the way that evict has freed,   *)
(* whose age the new entry inherits before the ages are updated.           *)
insert(set, WAYS, tag, line) ==
  LET way   == IF isFull(set) THEN evict(set) ELSE find_empty_slot(set)
      entry == [v    |-> TRUE,
                age  |-> IF isFull(set) THEN set[way].age ELSE 0,
                tag  |-> tag,
                line |-> line]
  IN  modify_ages([set EXCEPT ![way] = entry], WAYS, way, ~ isFull(set))

=============================================================================
