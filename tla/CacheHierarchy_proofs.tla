------------------------ MODULE CacheHierarchy_proofs ------------------------
(***************************************************************************)
(* For every geometry and every program: the caches keep their types, the  *)
(* indexes of level 1 stay LRU stacks, and the ages of a stack implement   *)
(* least-recently-used replacement.                                        *)
(***************************************************************************)
EXTENDS CacheReplacement, CacheSet_proofs, SequenceTheorems

L1Set == SetType(L1_WAYS, Line)
L2Set == SetType(L2_WAYS, Line)

(* The records that the internal functions work on.                        *)
HType == [mem : [Blocks -> Line], l1 : [L1Indices -> L1Set],
          l2 : [L2Indices -> L2Set]]

Stack(set) == \E n \in 0 .. L1_WAYS : StackOf(set, L1_WAYS, n)

(* The line in level 1, where the next lookup finds it, and in the memory. *)
Stored(h, b, line) ==
  /\ L1Hit(h, b) # HIT_WAY_MISS
  /\ h.l1[L1Index(b)][L1Hit(h, b)].line = line
  /\ h.mem[b] = line

(* From h to k: only the ages of an index change; only a line and the      *)
(* memory behind it do, besides; only an entry of level 2 is invalidated.  *)
TouchedL1(h, k, b) ==
  /\ k.mem = h.mem /\ k.l2 = h.l2
  /\ SameButAges(h.l1[L1Index(b)], k.l1[L1Index(b)], L1_WAYS)
  /\ \A i \in L1Indices : i # L1Index(b) => k.l1[i] = h.l1[i]

TouchedL2(h, k, b) ==
  /\ k.mem = h.mem
  /\ SameButAges(h.l2[L2Index(b)], k.l2[L2Index(b)], L2_WAYS)
  /\ \A i \in L2Indices : i # L2Index(b) => k.l2[i] = h.l2[i]

RewrittenL1(h, k, b, line) ==
  /\ k.mem = [h.mem EXCEPT ![b] = line] /\ k.l2 = h.l2
  /\ Rewritten(h.l1[L1Index(b)], k.l1[L1Index(b)], L1_WAYS, L1Hit(h, b))
  /\ k.l1[L1Index(b)][L1Hit(h, b)].line = line
  /\ \A i \in L1Indices : i # L1Index(b) => k.l1[i] = h.l1[i]

RewrittenL2(h, k, b, line) ==
  /\ k.mem = [h.mem EXCEPT ![b] = line]
  /\ Rewritten(h.l2[L2Index(b)], k.l2[L2Index(b)], L2_WAYS, L2Hit(h, b))
  /\ \A i \in L2Indices : i # L2Index(b) => k.l2[i] = h.l2[i]

VacatedL2(h, k, b, way) ==
  /\ k.l1 = h.l1
  /\ k.l2[L2Index(b)] = [h.l2[L2Index(b)] EXCEPT ![way] = Invalidated(@)]
  /\ \A i \in L2Indices : i # L2Index(b) => k.l2[i] = h.l2[i]

(* What every call preserves.                                              *)
Kept(h) == h \in HType /\ \A i \in L1Indices : Stack(h.l1[i])

LEMMA Positions ==
  ASSUME NEW b \in Nat
  PROVE  /\ L1Index(b) \in L1Indices /\ L1Tag(b) \in Nat
         /\ L2Index(b) \in L2Indices /\ L2Tag(b) \in Nat
  BY GeometryAssumption DEF L1Index, L1Tag, L2Index, L2Tag, L1Indices, L2Indices

LEMMA OldAddress ==
  ASSUME NEW tag \in Nat, NEW index \in L1Indices
  PROVE  recomputeOldPhyAddr(tag, index) \in Nat
<1>1. tag * L1_LINES \in Nat
  BY GeometryAssumption
<1> QED
  BY <1>1 DEF recomputeOldPhyAddr, L1Indices

(* A block is determined by its index and its tag, and recomputed from     *)
(* them.                                                                   *)
LEMMA SameBlock ==
  ASSUME NEW b \in Nat, NEW c \in Nat
  PROVE  /\ L1Index(b) = L1Index(c) /\ L1Tag(b) = L1Tag(c) => b = c
         /\ L2Index(b) = L2Index(c) /\ L2Tag(b) = L2Tag(c) => b = c
<1>1. \A n \in Nat \ {0} : b % n = c % n /\ b \div n = c \div n => b = c
  OBVIOUS
<1> QED
  BY <1>1, GeometryAssumption DEF L1Index, L1Tag, L2Index, L2Tag

LEMMA BlockRecomputed ==
  ASSUME NEW tag \in Nat, NEW index \in L1Indices
  PROVE  /\ recomputeOldPhyAddr(tag, index) \in Nat
         /\ L1Index(recomputeOldPhyAddr(tag, index)) = index
         /\ L1Tag(recomputeOldPhyAddr(tag, index)) = tag
<1>1. \A n \in Nat \ {0}, i, t \in Nat :
        i < n => (t * n + i) % n = i /\ (t * n + i) \div n = t
  OBVIOUS
<1>2. L1_LINES \in Nat \ {0} /\ index \in Nat /\ index < L1_LINES
  BY GeometryAssumption DEF L1Indices
<1> QED
  BY <1>1, <1>2, OldAddress DEF recomputeOldPhyAddr, L1Index, L1Tag

LEMMA InsertLevel2 ==
  ASSUME NEW l2 \in [L2Indices -> L2Set], NEW b \in Nat, NEW line \in Line
  PROVE  insert_level2(l2, b, line) \in [L2Indices -> L2Set]
<1>1. L2Index(b) \in L2Indices /\ L2Tag(b) \in Nat
  BY Positions
<1>2. insert(l2[L2Index(b)], L2_WAYS, L2Tag(b), line) \in L2Set
  BY <1>1, InsertType, GeometryAssumption DEF L2Set
<1> QED
  BY <1>1, <1>2 DEF insert_level2

(* A block that missed goes on top of a stack of level 1; its victim, if   *)
(* any, goes to level 2.                                                   *)
LEMMA InsertLevel1 ==
  ASSUME NEW h, Kept(h), NEW b \in Nat, NEW line \in Line,
         L1Hit(h, b) = HIT_WAY_MISS
  PROVE  Kept(insert_level1(h, b, line))
<1> DEFINE index  == L1Index(b)
           set    == h.l1[index]
           victim == set[evict(set)]
           new    == insert(set, L1_WAYS, L1Tag(b), line)
           l2     == IF isFull(set)
                       THEN insert_level2(h.l2,
                               recomputeOldPhyAddr(victim.tag, index), victim.line)
                       ELSE h.l2
<1>1. /\ index \in L1Indices /\ L1Tag(b) \in Nat /\ L1_WAYS \in Nat \ {0}
      /\ set \in L1Set /\ Stack(set) /\ h \in HType
  BY Positions, GeometryAssumption DEF Kept, HType
<1>2. new \in L1Set
  BY <1>1, InsertType DEF L1Set
<1>3. Stack(new)
  <2>1. PICK n \in 0 .. L1_WAYS : StackOf(set, L1_WAYS, n)
    BY <1>1 DEF Stack
  <2>2. hit_way(set, L1Tag(b)) = HIT_WAY_MISS
    BY DEF L1Hit
  <2> HIDE DEF set, index
  <2>3. Absent(set, L1_WAYS, L1Tag(b))
    BY <1>1, <2>1, <2>2, MissIsFinal DEF L1Set
  <2> QED
    BY <1>1, <2>1, <2>3, InsertedStack DEF L1Set, Stack
<1>4. l2 \in [L2Indices -> L2Set]
  <2>1. CASE isFull(set)
    <3>1. evict(set) \in 0 .. L1_WAYS - 1 /\ victim.v
      BY <1>1, <2>1, Evict DEF L1Set
    <3>2. victim.tag \in Nat /\ victim.line \in Line
      BY <1>1, <3>1, Fields DEF L1Set
    <3>3. recomputeOldPhyAddr(victim.tag, index) \in Nat
      BY <1>1, <3>2, OldAddress
    <3>4. h.l2 \in [L2Indices -> L2Set]
      BY <1>1 DEF HType
    <3> QED
      BY <2>1, <3>2, <3>3, <3>4, InsertLevel2
  <2>2. CASE ~ isFull(set)
    BY <1>1, <2>2 DEF HType
  <2> QED
    BY <2>1, <2>2
<1>5. insert_level1(h, b, line) = [h EXCEPT !.l1[index] = new, !.l2 = l2]
  BY DEF insert_level1
<1> HIDE DEF new, l2, set, index
<1>6. insert_level1(h, b, line) =
        [mem |-> h.mem, l1 |-> [h.l1 EXCEPT ![index] = new], l2 |-> l2]
  BY <1>1, <1>5 DEF HType
<1>7. \A i \in L1Indices : Stack([h.l1 EXCEPT ![index] = new][i])
  BY <1>1, <1>3 DEF HType, Kept
<1>8. [h.l1 EXCEPT ![index] = new] \in [L1Indices -> L1Set]
  BY <1>1, <1>2 DEF HType
<1>9. h.mem \in [Blocks -> Line]
  BY <1>1 DEF HType
<1> QED
  BY <1>4, <1>6, <1>7, <1>8, <1>9 DEF HType, Kept

(* What it changes, field by field.                                        *)
LEMMA InsertLevel1Splits ==
  ASSUME NEW h, Kept(h), NEW b \in Nat, NEW line \in Line
  PROVE  LET index  == L1Index(b)
             set    == h.l1[index]
             victim == set[evict(set)]
             k      == insert_level1(h, b, line)
         IN  /\ k.mem = h.mem
             /\ k.l1[index] = insert(set, L1_WAYS, L1Tag(b), line)
             /\ \A i \in L1Indices : i # index => k.l1[i] = h.l1[i]
             /\ k.l2 = IF isFull(set)
                         THEN insert_level2(h.l2,
                                 recomputeOldPhyAddr(victim.tag, index), victim.line)
                         ELSE h.l2
<1> DEFINE index  == L1Index(b)
           set    == h.l1[index]
           victim == set[evict(set)]
           new    == insert(set, L1_WAYS, L1Tag(b), line)
           l2     == IF isFull(set)
                       THEN insert_level2(h.l2,
                               recomputeOldPhyAddr(victim.tag, index), victim.line)
                       ELSE h.l2
           k      == insert_level1(h, b, line)
<1>1. index \in L1Indices /\ h \in HType
  BY Positions DEF Kept
<1>2. k = [h EXCEPT !.l1[index] = new, !.l2 = l2]
  BY DEF insert_level1
<1> HIDE DEF new, l2, set, index, k
<1>3. k = [mem |-> h.mem, l1 |-> [h.l1 EXCEPT ![index] = new], l2 |-> l2]
  BY <1>1, <1>2 DEF HType, set
<1>4. k.mem = h.mem /\ k.l2 = l2 /\ k.l1[index] = new
  BY <1>1, <1>3 DEF HType
<1>5. \A i \in L1Indices : i # index => k.l1[i] = h.l1[i]
  BY <1>1, <1>3 DEF HType
<1> QED
  BY <1>4, <1>5, Zenon DEF new, l2, set, index, k

(* In a stack a miss means that no entry has the tag.                      *)
LEMMA MissIsAbsent ==
  ASSUME NEW h, Kept(h), NEW b \in Nat, L1Hit(h, b) = HIT_WAY_MISS
  PROVE  Absent(h.l1[L1Index(b)], L1_WAYS, L1Tag(b))
<1> DEFINE set == h.l1[L1Index(b)]
<1>1. set \in L1Set /\ L1_WAYS \in Nat \ {0} /\ Stack(set)
  BY Positions, GeometryAssumption DEF Kept, HType
<1>2. hit_way(set, L1Tag(b)) = HIT_WAY_MISS
  BY DEF L1Hit
<1> HIDE DEF set
<1>3. Absent(set, L1_WAYS, L1Tag(b))
  BY <1>1, <1>2, MissIsFinal DEF Stack, L1Set
<1> QED
  BY <1>3 DEF set

(* The block it inserts is the one that the next lookup finds.             *)
LEMMA InsertLevel1Stored ==
  ASSUME NEW h, Kept(h), NEW b \in Nat, NEW line \in Line,
         L1Hit(h, b) = HIT_WAY_MISS
  PROVE  /\ L1Hit(insert_level1(h, b, line), b) # HIT_WAY_MISS
         /\ h.mem[b] = line => Stored(insert_level1(h, b, line), b, line)
<1> DEFINE index == L1Index(b)
           set   == h.l1[index]
           new   == insert(set, L1_WAYS, L1Tag(b), line)
           k     == insert_level1(h, b, line)
<1>1. /\ index \in L1Indices /\ L1Tag(b) \in Nat /\ L1_WAYS \in Nat \ {0}
      /\ set \in L1Set /\ Stack(set) /\ h \in HType
  BY Positions, GeometryAssumption DEF Kept, HType
<1>2. /\ hit_way(new, L1Tag(b)) \in 0 .. L1_WAYS - 1
      /\ new[hit_way(new, L1Tag(b))].line = line
  <2>1. PICK n \in 0 .. L1_WAYS : StackOf(set, L1_WAYS, n)
    BY <1>1 DEF Stack
  <2>2. hit_way(set, L1Tag(b)) = HIT_WAY_MISS
    BY DEF L1Hit
  <2> HIDE DEF set, index
  <2>3. Absent(set, L1_WAYS, L1Tag(b))
    BY <1>1, <2>1, <2>2, MissIsFinal DEF L1Set
  <2> QED
    BY <1>1, <2>3, InsertedHit DEF L1Set
<1>3. k.l1 = [h.l1 EXCEPT ![index] = new] /\ k.mem = h.mem
  <2> DEFINE victim == set[evict(set)]
             l2     == IF isFull(set)
                         THEN insert_level2(h.l2,
                                 recomputeOldPhyAddr(victim.tag, index), victim.line)
                         ELSE h.l2
  <2>1. k = [h EXCEPT !.l1[index] = new, !.l2 = l2]
    BY DEF insert_level1
  <2> HIDE DEF l2, new, set, index, k
  <2> QED
    BY <1>1, <2>1 DEF HType
<1> HIDE DEF new, set, k
<1>4. k.l1[index] = new
  BY <1>1, <1>3 DEF HType
<1>5. L1Hit(k, b) = hit_way(new, L1Tag(b))
  BY <1>4 DEF L1Hit
<1>6. L1Hit(k, b) # HIT_WAY_MISS
  BY <1>2, <1>5 DEF HIT_WAY_MISS
<1>7. k.l1[index][L1Hit(k, b)].line = line
  BY <1>2, <1>4, <1>5, Zenon
<1>8. h.mem[b] = line => k.mem[b] = line
  BY <1>3
<1> QED
  BY <1>6, <1>7, <1>8 DEF Stored, k

(* A hit is on a valid entry, whose line the call works on.                *)
LEMMA Hits ==
  ASSUME NEW h, Kept(h), NEW b \in Nat
  PROVE  /\ h.l1[L1Index(b)] \in L1Set /\ h.l2[L2Index(b)] \in L2Set
         /\ L1Hit(h, b) # HIT_WAY_MISS =>
              /\ L1Hit(h, b) \in 0 .. L1_WAYS - 1
              /\ h.l1[L1Index(b)][L1Hit(h, b)].v
              /\ h.l1[L1Index(b)][L1Hit(h, b)].line \in Line
         /\ L2Hit(h, b) # HIT_WAY_MISS =>
              /\ L2Hit(h, b) \in 0 .. L2_WAYS - 1
              /\ h.l2[L2Index(b)][L2Hit(h, b)].v
              /\ h.l2[L2Index(b)][L2Hit(h, b)].line \in Line
<1> DEFINE set1 == h.l1[L1Index(b)]
           set2 == h.l2[L2Index(b)]
<1>1. set1 \in L1Set /\ set2 \in L2Set
  BY Positions DEF Kept, HType
<1>2. /\ L1Hit(h, b) = hit_way(set1, L1Tag(b))
      /\ L2Hit(h, b) = hit_way(set2, L2Tag(b))
  BY DEF L1Hit, L2Hit
<1> HIDE DEF set1, set2
<1>3. L1Hit(h, b) # HIT_WAY_MISS =>
        /\ L1Hit(h, b) \in 0 .. L1_WAYS - 1
        /\ set1[L1Hit(h, b)].v /\ set1[L1Hit(h, b)].line \in Line
  <2>1. L1Hit(h, b) # HIT_WAY_MISS =>
          L1Hit(h, b) \in 0 .. L1_WAYS - 1 /\ set1[L1Hit(h, b)].v
    BY <1>1, <1>2, HitWay, GeometryAssumption DEF L1Set
  <2> QED
    BY <1>1, <2>1, Fields, GeometryAssumption DEF L1Set
<1>4. L2Hit(h, b) # HIT_WAY_MISS =>
        /\ L2Hit(h, b) \in 0 .. L2_WAYS - 1
        /\ set2[L2Hit(h, b)].v /\ set2[L2Hit(h, b)].line \in Line
  <2>1. L2Hit(h, b) # HIT_WAY_MISS =>
          L2Hit(h, b) \in 0 .. L2_WAYS - 1 /\ set2[L2Hit(h, b)].v
    BY <1>1, <1>2, HitWay, GeometryAssumption DEF L2Set
  <2> QED
    BY <1>1, <2>1, Fields, GeometryAssumption DEF L2Set
<1> QED
  BY <1>1, <1>3, <1>4 DEF set1, set2

LEMMA LineServedType ==
  ASSUME NEW h, Kept(h), NEW b \in Blocks
  PROVE  LineServed(h, b) \in Line
<1>1. b \in Nat /\ h.mem[b] \in Line
  BY ProgramAssumption DEF Kept, HType
<1> QED
  BY <1>1, Hits DEF LineServed

(* A hit in level 1 reorders a stack and leaves its entries where they are.*)
LEMMA TouchL1Kept ==
  ASSUME NEW h, Kept(h), NEW b \in Nat, L1Hit(h, b) # HIT_WAY_MISS
  PROVE  /\ Kept(TouchL1(h, b)) /\ L1Hit(TouchL1(h, b), b) = L1Hit(h, b)
         /\ TouchL1(h, b).l1[L1Index(b)][L1Hit(h, b)].v
         /\ TouchedL1(h, TouchL1(h, b), b)
<1> DEFINE index == L1Index(b)
           way   == L1Hit(h, b)
           set   == h.l1[index]
           new   == LRU_age_update(set, way)
<1>1. /\ index \in L1Indices /\ L1_WAYS \in Nat \ {0}
      /\ set \in L1Set /\ Stack(set) /\ h \in HType
      /\ way \in 0 .. L1_WAYS - 1 /\ set[way].v
  BY Positions, Hits, GeometryAssumption DEF Kept
<1>2. new \in L1Set /\ SameButAges(set, new, L1_WAYS)
  BY <1>1, AgeUpdate DEF L1Set
<1>3. Stack(new)
  BY <1>1, TouchedStack DEF L1Set, Stack
<1>4. new[way].v
  <2> HIDE DEF new, set, way
  <2> QED
    BY <1>1, <1>2, Zenon DEF SameButAges
<1>5. TouchL1(h, b) = [h EXCEPT !.l1[index] = new]
  BY DEF TouchL1
<1>6. hit_way(new, L1Tag(b)) = way
  <2>1. /\ DOMAIN set = 0 .. L1_WAYS - 1 /\ DOMAIN new = 0 .. L1_WAYS - 1
        /\ 0 .. L1_WAYS - 1 \in SUBSET Nat
    BY <1>1, <1>2 DEF L1Set, SetType
  <2>2. hit_way(set, L1Tag(b)) = way
    BY DEF L1Hit
  <2> HIDE DEF set, new, way
  <2>3. \A w \in DOMAIN set : new[w].v = set[w].v /\ new[w].tag = set[w].tag
    BY <1>2, <2>1, Zenon DEF SameButAges
  <2>4. hit_way(new, L1Tag(b)) = hit_way(set, L1Tag(b))
    BY <2>1, <2>3, SameHit
  <2> QED
    BY <2>2, <2>4
<1> HIDE DEF index, way, set, new
<1>7. TouchL1(h, b) = [mem |-> h.mem, l1 |-> [h.l1 EXCEPT ![index] = new], l2 |-> h.l2]
  BY <1>1, <1>5 DEF HType
<1>8. /\ \A i \in L1Indices : Stack([h.l1 EXCEPT ![index] = new][i])
      /\ [h.l1 EXCEPT ![index] = new] \in [L1Indices -> L1Set]
      /\ [h.l1 EXCEPT ![index] = new][index] = new
      /\ h.mem \in [Blocks -> Line] /\ h.l2 \in [L2Indices -> L2Set]
  BY <1>1, <1>2, <1>3 DEF HType, Kept
<1>9. /\ Kept(TouchL1(h, b)) /\ TouchL1(h, b).l1[index] = new
      /\ TouchL1(h, b).mem = h.mem /\ TouchL1(h, b).l2 = h.l2
  BY <1>7, <1>8 DEF HType, Kept
<1>10. \A i \in L1Indices : i # index => TouchL1(h, b).l1[i] = h.l1[i]
  BY <1>1, <1>7 DEF HType
<1>11. SameButAges(h.l1[index], TouchL1(h, b).l1[index], L1_WAYS)
  BY <1>2, <1>9 DEF set
<1>12. L1Hit(TouchL1(h, b), b) = way
  BY <1>6, <1>9 DEF L1Hit, index
<1> QED
  BY <1>4, <1>9, <1>12, <1>10, <1>11, Zenon DEF index, way, TouchedL1

(* A hit in level 2 touches nothing else.                                  *)
LEMMA TouchL2Kept ==
  ASSUME NEW h, Kept(h), NEW b \in Nat, L2Hit(h, b) # HIT_WAY_MISS
  PROVE  /\ Kept(TouchL2(h, b)) /\ TouchL2(h, b).l1 = h.l1
         /\ TouchL2(h, b).l2[L2Index(b)][L2Hit(h, b)].v
         /\ TouchedL2(h, TouchL2(h, b), b)
<1> DEFINE index == L2Index(b)
           way   == L2Hit(h, b)
           set   == h.l2[index]
           new   == LRU_age_update(set, way)
<1>1. /\ index \in L2Indices /\ L2_WAYS \in Nat \ {0}
      /\ set \in L2Set /\ h \in HType
      /\ way \in 0 .. L2_WAYS - 1 /\ set[way].v
  BY Positions, Hits, GeometryAssumption DEF Kept
<1>2. new \in L2Set /\ SameButAges(set, new, L2_WAYS)
  BY <1>1, AgeUpdate DEF L2Set
<1>3. new[way].v
  <2> HIDE DEF new, set, way
  <2> QED
    BY <1>1, <1>2, Zenon DEF SameButAges
<1>4. TouchL2(h, b) = [h EXCEPT !.l2[index] = new]
  BY DEF TouchL2
<1> HIDE DEF index, way, set, new
<1>5. TouchL2(h, b) = [mem |-> h.mem, l1 |-> h.l1, l2 |-> [h.l2 EXCEPT ![index] = new]]
  BY <1>1, <1>4 DEF HType
<1>6. /\ [h.l2 EXCEPT ![index] = new] \in [L2Indices -> L2Set]
      /\ [h.l2 EXCEPT ![index] = new][index] = new
      /\ h.mem \in [Blocks -> Line] /\ h.l1 \in [L1Indices -> L1Set]
  BY <1>1, <1>2 DEF HType
<1>7. /\ Kept(TouchL2(h, b)) /\ TouchL2(h, b).l1 = h.l1
      /\ TouchL2(h, b).l2[index] = new /\ TouchL2(h, b).mem = h.mem
  BY <1>5, <1>6 DEF HType, Kept
<1>8. \A i \in L2Indices : i # index => TouchL2(h, b).l2[i] = h.l2[i]
  BY <1>1, <1>5 DEF HType
<1>9. SameButAges(h.l2[index], TouchL2(h, b).l2[index], L2_WAYS)
  BY <1>2, <1>7 DEF set
<1> QED
  BY <1>3, <1>7, <1>8, <1>9, Zenon DEF index, way, TouchedL2

(* An entry moves up from level 2 when level 1 misses: it is inserted in a *)
(* hierarchy whose level 2 no longer holds it.                             *)
LEMMA MoveInserts ==
  ASSUME NEW h, Kept(h), NEW b \in Nat, L1Hit(h, b) = HIT_WAY_MISS,
         NEW way \in 0 .. L2_WAYS - 1, h.l2[L2Index(b)][way].v
  PROVE  /\ h.l2[L2Index(b)][way].line \in Line
         /\ \E g : /\ Kept(g) /\ g.mem = h.mem /\ L1Hit(g, b) = HIT_WAY_MISS
                  /\ VacatedL2(h, g, b, way)
                  /\ move_entry_to_level1(h, b, way) =
                       insert_level1(g, b, h.l2[L2Index(b)][way].line)
<1> DEFINE index == L2Index(b)
           set   == h.l2[index]
           new   == [set EXCEPT ![way] = Invalidated(@)]
           g     == [h EXCEPT !.l2[index][way] = Invalidated(@)]
<1>1. /\ index \in L2Indices /\ L2_WAYS \in Nat \ {0}
      /\ set \in L2Set /\ h \in HType
  BY Positions, Hits, GeometryAssumption DEF Kept
<1>2. new \in L2Set /\ set[way].line \in Line
  BY <1>1, InvalidatedType, Fields DEF L2Set
<1>3. g = [h EXCEPT !.l2[index] = new]
  BY <1>1 DEF HType
<1>4. move_entry_to_level1(h, b, way) = insert_level1(g, b, set[way].line)
  BY DEF move_entry_to_level1
<1> HIDE DEF new, g
<1>5. g = [mem |-> h.mem, l1 |-> h.l1, l2 |-> [h.l2 EXCEPT ![index] = new]]
  BY <1>1, <1>3 DEF HType
<1>6. /\ [h.l2 EXCEPT ![index] = new] \in [L2Indices -> L2Set]
      /\ h.mem \in [Blocks -> Line] /\ h.l1 \in [L1Indices -> L1Set]
  BY <1>1, <1>2 DEF HType
<1>7. Kept(g) /\ g.mem = h.mem /\ g.l1 = h.l1 /\ g.l2 = [h.l2 EXCEPT ![index] = new]
  BY <1>5, <1>6 DEF HType, Kept
<1>8. L1Hit(g, b) = HIT_WAY_MISS
  BY <1>7 DEF L1Hit
<1>9. g.l2[index] = new /\ \A i \in L2Indices : i # index => g.l2[i] = h.l2[i]
  BY <1>1, <1>7 DEF HType
<1>10. VacatedL2(h, g, b, way)
  BY <1>7, <1>9, Zenon DEF VacatedL2, new
<1> QED
  BY <1>2, <1>4, <1>7, <1>8, <1>10

LEMMA MoveKept ==
  ASSUME NEW h, Kept(h), NEW b \in Nat, L1Hit(h, b) = HIT_WAY_MISS,
         NEW way \in 0 .. L2_WAYS - 1, h.l2[L2Index(b)][way].v
  PROVE  /\ Kept(move_entry_to_level1(h, b, way))
         /\ L1Hit(move_entry_to_level1(h, b, way), b) # HIT_WAY_MISS
         /\ h.l2[L2Index(b)][way].line = h.mem[b] =>
              Stored(move_entry_to_level1(h, b, way), b, h.mem[b])
<1>1. h.l2[L2Index(b)][way].line \in Line
  BY MoveInserts
<1>2. PICK g : /\ Kept(g) /\ g.mem = h.mem /\ L1Hit(g, b) = HIT_WAY_MISS
               /\ move_entry_to_level1(h, b, way) =
                    insert_level1(g, b, h.l2[L2Index(b)][way].line)
  BY MoveInserts
<1> QED
  BY <1>1, <1>2, InsertLevel1, InsertLevel1Stored

LEMMA ReadKept ==
  ASSUME NEW h, Kept(h), NEW b \in Blocks
  PROVE  Kept(cache_read(h, b))
<1>1. b \in Nat /\ h.mem[b] \in Line
  BY ProgramAssumption DEF Kept, HType
<1>2. CASE L1Hit(h, b) # HIT_WAY_MISS
  BY <1>1, <1>2, TouchL1Kept DEF cache_read
<1>3. CASE L1Hit(h, b) = HIT_WAY_MISS /\ L2Hit(h, b) # HIT_WAY_MISS
  <2> DEFINE g == TouchL2(h, b)
  <2>1. Kept(g) /\ g.l1 = h.l1 /\ g.l2[L2Index(b)][L2Hit(h, b)].v
    BY <1>1, <1>3, TouchL2Kept
  <2>2. L2Hit(h, b) \in 0 .. L2_WAYS - 1
    BY <1>1, <1>3, Hits
  <2>3. cache_read(h, b) = move_entry_to_level1(g, b, L2Hit(h, b))
    BY <1>3 DEF cache_read
  <2> HIDE DEF g
  <2>4. L1Hit(g, b) = HIT_WAY_MISS
    BY <1>3, <2>1 DEF L1Hit
  <2> QED
    BY <1>1, <2>1, <2>2, <2>3, <2>4, MoveKept
<1>4. CASE L1Hit(h, b) = HIT_WAY_MISS /\ L2Hit(h, b) = HIT_WAY_MISS
  BY <1>1, <1>4, InsertLevel1 DEF cache_read
<1> QED
  BY <1>2, <1>3, <1>4

LEMMA MemoryWritten ==
  ASSUME NEW h, Kept(h), NEW b \in Blocks, NEW line \in Line
  PROVE  /\ Kept(write_memory(h, b, line)) /\ write_memory(h, b, line).mem[b] = line
         /\ write_memory(h, b, line).l1 = h.l1
         /\ write_memory(h, b, line).l2 = h.l2
<1>1. h \in HType
  BY DEF Kept
<1>2. write_memory(h, b, line) =
        [mem |-> [h.mem EXCEPT ![b] = line], l1 |-> h.l1, l2 |-> h.l2]
  BY <1>1 DEF write_memory, HType
<1>3. /\ [h.mem EXCEPT ![b] = line] \in [Blocks -> Line]
      /\ [h.mem EXCEPT ![b] = line][b] = line
  BY <1>1 DEF HType
<1> QED
  BY <1>1, <1>2, <1>3 DEF Kept, HType

LEMMA MemoryLine ==
  ASSUME NEW h, Kept(h), NEW b \in Blocks, NEW line \in Line
  PROVE  write_memory(h, b, line).mem = [h.mem EXCEPT ![b] = line]
  BY DEF Kept, write_memory, HType

(* A store that hits rewrites the line of the entry it found.              *)
LEMMA RewriteL1Kept ==
  ASSUME NEW h, Kept(h), NEW b \in Blocks, NEW line \in Line,
         L1Hit(h, b) # HIT_WAY_MISS
  PROVE  /\ Kept(RewriteL1(h, b, line)) /\ Stored(RewriteL1(h, b, line), b, line)
         /\ RewrittenL1(h, RewriteL1(h, b, line), b, line)
<1> DEFINE index == L1Index(b)
           way   == L1Hit(h, b)
           g     == TouchL1(h, b)
           set   == g.l1[index]
           new   == [set EXCEPT ![way].line = line]
           k     == [g EXCEPT !.l1[index][way].line = line]
<1>1. b \in Nat
  BY ProgramAssumption
<1>2. /\ index \in L1Indices /\ L1_WAYS \in Nat \ {0}
      /\ way \in 0 .. L1_WAYS - 1 /\ Kept(g) /\ set[way].v
      /\ L1Hit(g, b) = way
  BY <1>1, Positions, Hits, TouchL1Kept, GeometryAssumption
<1>3. /\ g.mem = h.mem /\ g.l2 = h.l2
       /\ SameButAges(h.l1[index], set, L1_WAYS)
       /\ \A i \in L1Indices : i # index => g.l1[i] = h.l1[i]
  <2>1. TouchedL1(h, g, b)
    BY <1>1, TouchL1Kept
  <2> QED
    BY <2>1, Zenon DEF TouchedL1
<1>4. set \in L1Set /\ Stack(set) /\ g \in HType
  BY <1>2 DEF Kept, HType
<1>5. RewriteL1(h, b, line) = write_memory(k, b, line)
  BY DEF RewriteL1
<1> HIDE DEF index, way, g
<1>6. k = [g EXCEPT !.l1[index] = new]
  BY <1>2, <1>4 DEF HType
<1>7. /\ new \in L1Set /\ new[way].line = line
      /\ Rewritten(set, new, L1_WAYS, way)
      /\ hit_way(new, L1Tag(b)) = hit_way(set, L1Tag(b))
      /\ \A n : StackOf(set, L1_WAYS, n) => StackOf(new, L1_WAYS, n)
  <2> HIDE DEF set
  <2>1. /\ set \in SetType(L1_WAYS, Line) /\ set[way].v
        /\ way \in 0 .. L1_WAYS - 1 /\ L1_WAYS \in Nat \ {0}
    BY <1>2, <1>4 DEF L1Set
  <2>2. /\ new \in SetType(L1_WAYS, Line) /\ new[way].line = line
        /\ Rewritten(set, new, L1_WAYS, way)
    BY <2>1, NewLine
  <2>3. \A tag : hit_way(new, tag) = hit_way(set, tag)
    BY <2>1, NewLine
  <2>4. \A n : StackOf(set, L1_WAYS, n) => StackOf(new, L1_WAYS, n)
    BY <2>1, NewLine, Zenon
  <2> QED
    BY <2>2, <2>3, <2>4 DEF L1Set
<1>8. Stack(new)
  <2> HIDE DEF set, new
  <2> QED
    BY <1>4, <1>7 DEF Stack
<1>9. hit_way(set, L1Tag(b)) = way
  BY <1>2 DEF L1Hit, index
<1> HIDE DEF set, new, k
<1>10. k = [mem |-> g.mem, l1 |-> [g.l1 EXCEPT ![index] = new], l2 |-> g.l2]
  BY <1>4, <1>6 DEF HType
<1>11. /\ \A i \in L1Indices : Stack([g.l1 EXCEPT ![index] = new][i])
       /\ [g.l1 EXCEPT ![index] = new] \in [L1Indices -> L1Set]
       /\ [g.l1 EXCEPT ![index] = new][index] = new
       /\ g.mem \in [Blocks -> Line] /\ g.l2 \in [L2Indices -> L2Set]
  BY <1>2, <1>4, <1>7, <1>8 DEF HType, Kept
<1>12. Kept(k) /\ k.l1[index] = new
  BY <1>10, <1>11 DEF HType, Kept
<1>13. /\ Kept(RewriteL1(h, b, line)) /\ RewriteL1(h, b, line).mem[b] = line
       /\ RewriteL1(h, b, line).l1 = k.l1 /\ RewriteL1(h, b, line).l1[index] = new
       /\ RewriteL1(h, b, line).mem = [k.mem EXCEPT ![b] = line]
       /\ RewriteL1(h, b, line).l2 = k.l2
  BY <1>5, <1>12, MemoryWritten, MemoryLine
<1>14. L1Hit(RewriteL1(h, b, line), b) = way
  BY <1>7, <1>9, <1>13 DEF L1Hit, index
<1>15. RewriteL1(h, b, line).l1[index][L1Hit(RewriteL1(h, b, line), b)].line = line
  BY <1>7, <1>13, <1>14, Zenon
<1>16. L1Hit(RewriteL1(h, b, line), b) # HIT_WAY_MISS
  BY <1>14 DEF way
<1>17. /\ k.mem = h.mem /\ k.l2 = h.l2
       /\ \A i \in L1Indices : i # index => k.l1[i] = h.l1[i]
  BY <1>4, <1>10, <1>3 DEF HType
<1>18. Rewritten(h.l1[index], new, L1_WAYS, way)
  BY <1>7, <1>3, Zenon DEF Rewritten, SameButAges
<1> QED
  BY <1>7, <1>13, <1>15, <1>16, <1>17, <1>18, Zenon
     DEF Stored, index, way, RewrittenL1

LEMMA RewriteL2Kept ==
  ASSUME NEW h, Kept(h), NEW b \in Blocks, NEW line \in Line,
         L2Hit(h, b) # HIT_WAY_MISS
  PROVE  /\ Kept(RewriteL2(h, b, line)) /\ RewriteL2(h, b, line).l1 = h.l1
         /\ RewriteL2(h, b, line).l2[L2Index(b)][L2Hit(h, b)].v
         /\ RewriteL2(h, b, line).l2[L2Index(b)][L2Hit(h, b)].line = line
         /\ RewriteL2(h, b, line).mem[b] = line
         /\ RewrittenL2(h, RewriteL2(h, b, line), b, line)
<1> DEFINE index == L2Index(b)
           way   == L2Hit(h, b)
           g     == TouchL2(h, b)
           set   == g.l2[index]
           new   == [set EXCEPT ![way].line = line]
           k     == [g EXCEPT !.l2[index][way].line = line]
<1>1. b \in Nat
  BY ProgramAssumption
<1>2. /\ index \in L2Indices /\ L2_WAYS \in Nat \ {0}
      /\ way \in 0 .. L2_WAYS - 1 /\ Kept(g) /\ set[way].v /\ g.l1 = h.l1
  BY <1>1, Positions, Hits, TouchL2Kept, GeometryAssumption
<1>3. /\ g.mem = h.mem /\ SameButAges(h.l2[index], set, L2_WAYS)
       /\ \A i \in L2Indices : i # index => g.l2[i] = h.l2[i]
  <2>1. TouchedL2(h, g, b)
    BY <1>1, TouchL2Kept
  <2> QED
    BY <2>1, Zenon DEF TouchedL2
<1>4. set \in L2Set /\ g \in HType
  BY <1>2 DEF Kept, HType
<1>5. RewriteL2(h, b, line) = write_memory(k, b, line)
  BY DEF RewriteL2
<1> HIDE DEF index, way, g
<1>6. k = [g EXCEPT !.l2[index] = new]
  BY <1>2, <1>4 DEF HType
<1>7. /\ new \in L2Set /\ new[way].v /\ new[way].line = line
      /\ Rewritten(set, new, L2_WAYS, way)
  <2> HIDE DEF set
  <2> QED
    BY <1>2, <1>4, NewLine DEF L2Set
<1> HIDE DEF set, new, k
<1>8. k = [mem |-> g.mem, l1 |-> g.l1, l2 |-> [g.l2 EXCEPT ![index] = new]]
  BY <1>4, <1>6 DEF HType
<1>9. /\ [g.l2 EXCEPT ![index] = new] \in [L2Indices -> L2Set]
      /\ [g.l2 EXCEPT ![index] = new][index] = new
      /\ g.mem \in [Blocks -> Line] /\ g.l1 \in [L1Indices -> L1Set]
  BY <1>2, <1>4, <1>7 DEF HType
<1>10. Kept(k) /\ k.l1 = h.l1 /\ k.l2[index] = new
  BY <1>2, <1>8, <1>9 DEF HType, Kept
<1>11. /\ Kept(RewriteL2(h, b, line)) /\ RewriteL2(h, b, line).l1 = h.l1
       /\ RewriteL2(h, b, line).l2[index] = new
       /\ RewriteL2(h, b, line).mem[b] = line
       /\ RewriteL2(h, b, line).mem = [k.mem EXCEPT ![b] = line]
       /\ RewriteL2(h, b, line).l2 = k.l2
  BY <1>5, <1>10, MemoryWritten, MemoryLine
<1>12. k.mem = h.mem /\ \A i \in L2Indices : i # index => k.l2[i] = h.l2[i]
  BY <1>4, <1>8, <1>3 DEF HType
<1>13. Rewritten(h.l2[index], new, L2_WAYS, way)
  BY <1>7, <1>3, Zenon DEF Rewritten, SameButAges
<1> QED
  BY <1>7, <1>11, <1>12, <1>13, Zenon DEF index, way, RewrittenL2

LEMMA WriteKept ==
  ASSUME NEW h, Kept(h), NEW b \in Blocks,
         NEW w \in WordIndices, NEW word \in Word
  PROVE  /\ Kept(cache_write(h, b, w, word))
         /\ Stored(cache_write(h, b, w, word), b, set_word(LineServed(h, b), w, word))
<1> DEFINE line == set_word(LineServed(h, b), w, word)
<1>1. b \in Nat
  BY ProgramAssumption
<1>2. line \in Line
  BY LineServedType DEF set_word, Line
<1>3. cache_write(h, b, w, word) =
        CASE L1Hit(h, b) # HIT_WAY_MISS -> RewriteL1(h, b, line)
          [] L1Hit(h, b) = HIT_WAY_MISS /\ L2Hit(h, b) # HIT_WAY_MISS ->
               move_entry_to_level1(RewriteL2(h, b, line), b, L2Hit(h, b))
          [] OTHER -> insert_level1(write_memory(h, b, line), b, line)
  BY DEF cache_write
<1> HIDE DEF line
<1> SUFFICES /\ Kept(cache_write(h, b, w, word))
             /\ Stored(cache_write(h, b, w, word), b, line)
  BY DEF line
<1>4. CASE L1Hit(h, b) # HIT_WAY_MISS
  <2>1. cache_write(h, b, w, word) = RewriteL1(h, b, line)
    BY <1>3, <1>4
  <2> QED
    BY <1>2, <1>4, <2>1, RewriteL1Kept
<1>5. CASE L1Hit(h, b) = HIT_WAY_MISS /\ L2Hit(h, b) # HIT_WAY_MISS
  <2> DEFINE g == RewriteL2(h, b, line)
  <2>1. /\ Kept(g) /\ g.l1 = h.l1 /\ g.mem[b] = line
        /\ g.l2[L2Index(b)][L2Hit(h, b)].v
        /\ g.l2[L2Index(b)][L2Hit(h, b)].line = line
    BY <1>2, <1>5, RewriteL2Kept
  <2>2. L2Hit(h, b) \in 0 .. L2_WAYS - 1
    BY <1>1, <1>5, Hits
  <2>3. cache_write(h, b, w, word) = move_entry_to_level1(g, b, L2Hit(h, b))
    BY <1>3, <1>5
  <2> HIDE DEF g
  <2>4. L1Hit(g, b) = HIT_WAY_MISS
    BY <1>5, <2>1 DEF L1Hit
  <2> QED
    BY <1>1, <2>1, <2>2, <2>3, <2>4, MoveKept
<1>6. CASE L1Hit(h, b) = HIT_WAY_MISS /\ L2Hit(h, b) = HIT_WAY_MISS
  <2> DEFINE g == write_memory(h, b, line)
  <2>1. Kept(g) /\ g.l1 = h.l1 /\ g.mem[b] = line
    BY <1>2, MemoryWritten
  <2>2. cache_write(h, b, w, word) = insert_level1(g, b, line)
    BY <1>3, <1>6
  <2> HIDE DEF g
  <2>3. L1Hit(g, b) = HIT_WAY_MISS
    BY <1>6, <2>1 DEF L1Hit
  <2> QED
    BY <1>1, <1>2, <2>1, <2>2, <2>3, InsertLevel1, InsertLevel1Stored
<1> QED
  BY <1>4, <1>5, <1>6

-----------------------------------------------------------------------------
(***************************************************************************)
(* The invariant: the hierarchy that each level-1 cache belongs to is kept.*)
(***************************************************************************)
AllKept ==
  /\ l1_cache \in [{INSTRUCTION, DATA} -> [L1Indices -> L1Set]]
  /\ \A access \in {INSTRUCTION, DATA} : Kept(Hierarchy(access))

LEMMA BecomesKept ==
  ASSUME AllKept, NEW access \in {INSTRUCTION, DATA}, NEW h, Kept(h),
         Becomes(access, h)
  PROVE  AllKept'
<1>1. h.l1 \in [L1Indices -> L1Set]
  BY DEF Kept, HType
<1>2. l1_cache' \in [{INSTRUCTION, DATA} -> [L1Indices -> L1Set]]
  BY <1>1 DEF AllKept, Becomes
<1>3. \A other \in {INSTRUCTION, DATA} : Kept(Hierarchy(other)')
  <2> TAKE other \in {INSTRUCTION, DATA}
  <2>1. Hierarchy(other)' = [mem |-> h.mem, l1 |-> l1_cache'[other], l2 |-> h.l2]
    BY DEF Hierarchy, Becomes
  <2>2. l1_cache'[other] = IF other = access THEN h.l1 ELSE Hierarchy(other).l1
    BY DEF AllKept, Becomes, Hierarchy
  <2>3. Kept(Hierarchy(other))
    BY DEF AllKept
  <2> QED
    BY <2>1, <2>2, <2>3 DEF Kept, HType
<1> QED
  BY <1>2, <1>3 DEF AllKept

(* A flushed cache.                                                        *)
LEMMA FlushedCaches ==
  /\ EmptyL1 \in [L1Indices -> L1Set] /\ \A i \in L1Indices : Stack(EmptyL1[i])
  /\ EmptyL2 \in [L2Indices -> L2Set]
<1> DEFINE set1 == [w \in 0 .. L1_WAYS - 1 |-> EmptyEntry]
           set2 == [w \in 0 .. L2_WAYS - 1 |-> EmptyEntry]
<1>1. L1_WAYS \in Nat \ {0} /\ L2_WAYS \in Nat \ {0} /\ 0 \in 0 .. L1_WAYS
  BY GeometryAssumption
<1>2. set1 \in L1Set /\ StackOf(set1, L1_WAYS, 0)
  BY <1>1, EmptyStack, Zenon DEF L1Set
<1>3. set2 \in L2Set
  BY <1>1, EmptyStack, Zenon DEF L2Set
<1>4. EmptyL1 = [i \in L1Indices |-> set1] /\ EmptyL2 = [i \in L2Indices |-> set2]
  BY DEF EmptyL1, EmptyL2, L1Ways, L2Ways
<1> HIDE DEF set1, set2
<1>5. Stack(set1)
  BY <1>1, <1>2 DEF Stack
<1> QED
  BY <1>2, <1>3, <1>4, <1>5

LEMMA InitKept == Init => AllKept
<1> SUFFICES ASSUME Init PROVE AllKept
  OBVIOUS
<1>1. l1_cache = [access \in {INSTRUCTION, DATA} |-> EmptyL1]
  BY DEF Init
<1>2. ASSUME NEW access \in {INSTRUCTION, DATA} PROVE Kept(Hierarchy(access))
  <2>1. Hierarchy(access) = [mem |-> InitialMemory, l1 |-> EmptyL1, l2 |-> EmptyL2]
    BY <1>1 DEF Init, Hierarchy
  <2> QED
    BY <2>1, FlushedCaches, ProgramAssumption DEF Kept, HType
<1> QED
  BY <1>1, <1>2, FlushedCaches DEF AllKept

LEMMA FlushKept ==
  ASSUME AllKept, NEW type, CacheFlush(type)
  PROVE  AllKept'
<1>1. l1_cache' = [access \in {INSTRUCTION, DATA} |->
                     IF access = type THEN EmptyL1 ELSE l1_cache[access]]
  BY DEF AllKept, CacheFlush
<1>2. l1_cache' \in [{INSTRUCTION, DATA} -> [L1Indices -> L1Set]]
  BY <1>1, FlushedCaches DEF AllKept
<1>3. ASSUME NEW access \in {INSTRUCTION, DATA} PROVE Kept(Hierarchy(access)')
  <2> DEFINE h == Hierarchy(access)
             l1 == IF access = type THEN EmptyL1 ELSE h.l1
             l2 == IF type = L2_CACHE THEN EmptyL2 ELSE h.l2
  <2>1. Hierarchy(access)' = [mem |-> h.mem, l1 |-> l1, l2 |-> l2]
    BY <1>1 DEF Hierarchy, CacheFlush
  <2>2. Kept(h)
    BY DEF AllKept
  <2> HIDE DEF h
  <2>3. /\ h.mem \in [Blocks -> Line] /\ l2 \in [L2Indices -> L2Set]
        /\ l1 \in [L1Indices -> L1Set] /\ \A i \in L1Indices : Stack(l1[i])
    BY <2>2, FlushedCaches DEF Kept, HType
  <2> QED
    BY <2>1, <2>3 DEF Kept, HType
<1> QED
  BY <1>2, <1>3 DEF AllKept

(* Init => AllKept and AllKept /\ [Next]_vars => AllKept', by action.      *)
LEMMA NextKept == AllKept /\ [Next]_vars => AllKept'
<1> SUFFICES ASSUME AllKept, [Next]_vars PROVE AllKept'
  OBVIOUS
<1>1. Accesses \subseteq {INSTRUCTION, DATA} /\ DATA \in {INSTRUCTION, DATA}
  BY ProgramAssumption
<1>2. \A access \in {INSTRUCTION, DATA} : Kept(Hierarchy(access))
  BY DEF AllKept
<1>3. ASSUME NEW access \in Accesses, NEW a \in Address, CacheRead(access, a)
      PROVE  AllKept'
  BY <1>1, <1>2, <1>3, ReadKept, BecomesKept DEF CacheRead, Address
<1>4. ASSUME NEW access \in Accesses, NEW a \in Address, CacheReadByte(access, a)
      PROVE  AllKept'
  BY <1>1, <1>2, <1>4, ReadKept, BecomesKept DEF CacheReadByte, Address
<1>5. ASSUME NEW a \in StoreAddress, NEW word \in WriteWords, CacheWrite(a, word)
      PROVE  AllKept'
  <2>1. a.block \in Blocks /\ a.word \in WordIndices /\ word \in Word
    BY ProgramAssumption DEF StoreAddress, Address
  <2> QED
    BY <1>1, <1>2, <1>5, <2>1, WriteKept, BecomesKept DEF CacheWrite
<1>6. ASSUME NEW a \in StoreAddress, NEW byte \in WriteBytes, CacheWriteByte(a, byte)
      PROVE  AllKept'
  <2> DEFINE word == [WordRead(DATA, a) EXCEPT ![a.byte] = byte]
             h    == cache_read(Hierarchy(DATA), a.block)
  <2>1. a.block \in Blocks /\ a.word \in WordIndices /\ byte \in Byte
    BY ProgramAssumption DEF StoreAddress, Address
  <2>2. LineServed(Hierarchy(DATA), a.block) \in Line
    BY <1>1, <1>2, <2>1, LineServedType
  <2>3. WordRead(DATA, a) \in Word
    BY <2>1, <2>2 DEF WordRead, Line
  <2>4. word \in Word
    BY <2>1, <2>3 DEF Word
  <2>5. Kept(h)
    BY <1>1, <1>2, <2>1, ReadKept
  <2>6. Becomes(DATA, cache_write(h, a.block, a.word, word))
    BY <1>6 DEF CacheWriteByte
  <2> HIDE DEF h, word
  <2> QED
    BY <1>1, <2>1, <2>4, <2>5, <2>6, WriteKept, BecomesKept
<1>7. ASSUME NEW type \in Flushes, CacheFlush(type) PROVE AllKept'
  BY <1>7, FlushKept
<1>8. ASSUME UNCHANGED vars PROVE AllKept'
  BY <1>8 DEF vars, AllKept, Hierarchy
<1>9. ASSUME NEW a \in Address, Misaligned(a) PROVE AllKept'
  BY <1>8, <1>9 DEF Misaligned
<1> QED
  BY <1>3, <1>4, <1>5, <1>6, <1>7, <1>8, <1>9 DEF Next

(* The invariant in the terms of the properties.                           *)
LEMMA KeptShape == AllKept => TypeOK /\ L1LruStacks
<1> SUFFICES ASSUME AllKept PROVE TypeOK /\ L1LruStacks
  OBVIOUS
<1>1. \A access \in {INSTRUCTION, DATA} : Kept(Hierarchy(access))
  BY DEF AllKept
<1>2. /\ L1Set = [L1Ways -> Entry(L1_WAYS - 1)]
      /\ L2Set = [L2Ways -> Entry(L2_WAYS - 1)]
  BY DEF L1Set, L2Set, SetType, Entry, ValidEntry, InvalidEntry, L1Ways, L2Ways
<1>3. mem_space \in [Blocks -> Line] /\ l2_cache \in [L2Indices -> L2Set]
  BY <1>1 DEF Kept, HType, Hierarchy
<1>4. TypeOK
  BY <1>2, <1>3 DEF TypeOK, AllKept
<1>5. \A set : Stack(set) <=> IsLruStack(set)
  BY Zenon DEF Stack, StackOf, IsLruStack, L1Ways
<1>6. \A access \in {INSTRUCTION, DATA}, i \in L1Indices : Stack(l1_cache[access][i])
  BY <1>1 DEF Kept, Hierarchy
<1>7. L1LruStacks
  BY <1>5, <1>6, Zenon DEF L1LruStacks
<1> QED
  BY <1>4, <1>7

(* In every cache of every geometry, an age stays below the number of ways *)
(* and every valid entry holds a tag and a line (cache.h, lru.h).          *)
THEOREM TypeCorrect == Spec => []TypeOK
<1>1. Spec => []AllKept
  BY InitKept, NextKept, PTL DEF Spec
<1>2. AllKept => TypeOK
  BY KeptShape
<1> QED
  BY <1>1, <1>2, PTL

(* The scan of cache_hit that stops at the first invalid way never misses  *)
(* an entry of level 1, and its evictions are LRU: every index is a stack  *)
(* after any sequence of reads, stores, refused calls and flushes.         *)
THEOREM StacksAreLru == Spec => []L1LruStacks
<1>1. Spec => []AllKept
  BY InitKept, NextKept, PTL DEF Spec
<1>2. AllKept => L1LruStacks
  BY KeptShape
<1> QED
  BY <1>1, <1>2, PTL

(* Write-through and write-allocate, for every geometry and every program: *)
(* after a store, wherever the block was found and whatever was evicted,   *)
(* the data cache serves the line that the memory holds, with the word.    *)
THEOREM StoresAreServed == Spec => StoreThenLoad
<1> DEFINE Served(a, word) ==
             /\ LineServed(Hierarchy(DATA), a.block)' = mem_space'[a.block]
             /\ mem_space'[a.block][a.word] = word
<1>1. ASSUME AllKept, NEW a \in StoreAddress, NEW word \in WriteWords,
             CacheWrite(a, word)
      PROVE  Served(a, word)
  <2> DEFINE old  == LineServed(Hierarchy(DATA), a.block)
             line == set_word(old, a.word, word)
             h    == cache_write(Hierarchy(DATA), a.block, a.word, word)
  <2>1. /\ a.block \in Blocks /\ a.word \in WordIndices /\ word \in Word
        /\ Kept(Hierarchy(DATA))
    BY <1>1, ProgramAssumption DEF StoreAddress, Address, AllKept
  <2>2. Kept(h) /\ Stored(h, a.block, line) /\ old \in Line
    BY <2>1, WriteKept, LineServedType
  <2>3. Becomes(DATA, h)
    BY <1>1 DEF CacheWrite
  <2>4. line[a.word] = word
    BY <2>1, <2>2 DEF set_word, Line
  <2> HIDE DEF old, line, h
  <2>5. mem_space' = h.mem /\ l1_cache'[DATA] = h.l1 /\ l2_cache' = h.l2
    BY <1>1, <2>3 DEF Becomes, AllKept
  <2>6. Hierarchy(DATA)' = h
    BY <2>2, <2>5 DEF Hierarchy, Kept, HType
  <2>7. LineServed(h, a.block) = line
    BY <2>2 DEF LineServed, Stored
  <2>8. LineServed(Hierarchy(DATA), a.block)' = line
    BY <2>6, <2>7
  <2> QED
    BY <2>2, <2>4, <2>5, <2>8 DEF Stored
<1>2. AllKept => \A a \in StoreAddress, word \in WriteWords :
                   CacheWrite(a, word) => Served(a, word)
  BY <1>1
<1>3. Spec => []AllKept
  BY InitKept, NextKept, PTL DEF Spec
<1> QED
  BY <1>2, <1>3, PTL DEF StoreThenLoad

-----------------------------------------------------------------------------
(***************************************************************************)
(* The order of a stack by age.  The n ages rank n ways, so each is taken. *)
(***************************************************************************)
BlockAt(set, i, w) == set[w].tag * L1_LINES + i

LEMMA AgeTaken ==
  ASSUME NEW set \in L1Set, NEW n \in 0 .. L1_WAYS, StackOf(set, L1_WAYS, n),
         NEW a \in 0 .. n - 1
  PROVE  \E w \in 0 .. n - 1 : set[w].age = a
<1> SUFFICES ASSUME \A w \in 0 .. n - 1 : set[w].age # a PROVE FALSE
  OBVIOUS
<1> DEFINE S == 0 .. n - 1
           f == [w \in S |-> set[w].age]
<1>1. n \in Nat /\ n - 1 \in Int /\ \A w \in S : w \in 0 .. L1_WAYS - 1 /\ w < n
  BY GeometryAssumption
<1>2. \A w \in S : set[w].age \in 0 .. L1_WAYS - 1
  BY <1>1, Fields, GeometryAssumption DEF L1Set
<1>3. \A w \in S : set[w].age \in S \ {a}
  BY <1>1, <1>2 DEF StackOf
<1>4. IsFiniteSet(S) /\ Cardinality(S) = n
  BY <1>1, FS_Interval
<1>5. IsFiniteSet(S \ {a}) /\ Cardinality(S \ {a}) = n - 1
  BY <1>4, FS_RemoveElement
<1>6. \E x, y \in S : x # y /\ f[x] = f[y]
  <2>1. f \in [S -> S \ {a}]
    BY <1>3
  <2> HIDE DEF f, S
  <2> QED
    BY <1>1, <1>4, <1>5, <2>1, FS_PigeonHole
<1> QED
  BY <1>1, <1>6 DEF StackOf

(* The list of an index is any function on 1 .. n that has the block of    *)
(* each way at the place that the age of the way tells.                    *)
IsByAge(list, set, i, n) ==
  /\ list = [m \in 1 .. n |-> list[m]]
  /\ \A w \in 0 .. n - 1 : list[set[w].age + 1] = BlockAt(set, i, w)

LEMMA ByAgeIs ==
  ASSUME NEW set \in L1Set, NEW n \in 0 .. L1_WAYS, StackOf(set, L1_WAYS, n),
         NEW i, NEW list, IsByAge(list, set, i, n)
  PROVE  ByAge(set, i) = list
<1>1. n \in Nat /\ \A w \in 0 .. n - 1 : w \in L1Ways /\ w < n
  BY GeometryAssumption DEF L1Ways
<1>2. {w \in L1Ways : set[w].v} = 0 .. n - 1
  <2>1. \A w \in L1Ways : set[w].v <=> w < n
    BY DEF StackOf, L1Ways
  <2>2. \A w \in L1Ways : w < n <=> w \in 0 .. n - 1
    BY <1>1, GeometryAssumption DEF L1Ways
  <2> QED
    BY <1>1, <2>1, <2>2, Zenon
<1>3. Cardinality({w \in L1Ways : set[w].v}) = n
  <2>1. Cardinality(0 .. n - 1) = n
    BY <1>1, FS_Interval
  <2> QED
    BY <1>2, <2>1, Zenon
<1>4. ASSUME NEW m \in 1 .. n PROVE BlockOfAge(set, i, m - 1) = list[m]
  <2>1. m - 1 \in 0 .. n - 1 /\ (m - 1) + 1 = m
    BY <1>1
  <2>2. PICK w \in 0 .. n - 1 : set[w].age = m - 1
    BY <2>1, AgeTaken
  <2>3. w \in L1Ways /\ set[w].v
    BY <1>1, <1>2
  <2>4. ASSUME NEW x \in L1Ways, set[x].v, set[x].age = m - 1 PROVE x = w
    <3>1. x \in 0 .. n - 1
      BY <1>2, <2>4
    <3> QED
      BY <1>1, <2>2, <2>4, <3>1 DEF StackOf, L1Ways
  <2>5. (CHOOSE x \in L1Ways : set[x].v /\ set[x].age = m - 1) = w
    BY <2>2, <2>3, <2>4
  <2>6. BlockOfAge(set, i, m - 1) = BlockAt(set, i, w)
    BY <2>5 DEF BlockOfAge, BlockAt
  <2> QED
    BY <2>1, <2>2, <2>6 DEF IsByAge
<1> QED
  BY <1>3, <1>4 DEF ByAge, IsByAge

(* Its own elements: in a stack of n, the blocks of its ways.              *)
LEMMA ByAgeOf ==
  ASSUME NEW set \in L1Set, NEW n \in 0 .. L1_WAYS, StackOf(set, L1_WAYS, n),
         NEW i \in L1Indices
  PROVE  /\ ByAge(set, i) \in Seq(Nat) /\ Len(ByAge(set, i)) = n
         /\ DOMAIN ByAge(set, i) = 1 .. n
         /\ \A w \in 0 .. n - 1 :
              /\ set[w].age + 1 \in 1 .. n
              /\ ByAge(set, i)[set[w].age + 1] = BlockAt(set, i, w)
         /\ \A m \in 1 .. n : \E w \in 0 .. n - 1 :
              set[w].age + 1 = m /\ ByAge(set, i)[m] = BlockAt(set, i, w)
<1> DEFINE W == 0 .. n - 1
           WayOf(m) == CHOOSE w \in W : set[w].age + 1 = m
           list == [m \in 1 .. n |-> BlockAt(set, i, WayOf(m))]
<1>1. n \in Nat /\ \A w \in W : w \in 0 .. L1_WAYS - 1 /\ w < n
  BY GeometryAssumption
<1>2. \A w \in W : set[w].age \in Nat /\ set[w].age + 1 \in 1 .. n
  <2>1. \A w \in W : set[w].age \in 0 .. L1_WAYS - 1
    BY <1>1, Fields, GeometryAssumption DEF L1Set
  <2>2. \A w \in W : set[w].age < n
    BY <1>1 DEF StackOf
  <2> QED
    BY <1>1, <2>1, <2>2, GeometryAssumption
<1>3. ASSUME NEW m \in 1 .. n PROVE \E w \in W : set[w].age + 1 = m
  <2>1. m - 1 \in 0 .. n - 1 /\ (m - 1) + 1 = m
    BY <1>1
  <2> QED
    BY <2>1, AgeTaken
<1>4. ASSUME NEW w \in W PROVE WayOf(set[w].age + 1) = w
  <2>1. \A x \in W : set[x].age + 1 = set[w].age + 1 => x = w
    <3>1. \A x \in W : set[x].age + 1 = set[w].age + 1 => set[x].age = set[w].age
      BY <1>2
    <3> QED
      BY <1>1, <3>1 DEF StackOf
  <2> QED
    BY <2>1
<1>5. \A m \in 1 .. n : WayOf(m) \in W /\ set[WayOf(m)].age + 1 = m
  BY <1>3
<1>6. \A w \in W : BlockAt(set, i, w) \in Nat
  <2> SUFFICES ASSUME NEW w \in W PROVE BlockAt(set, i, w) \in Nat
    OBVIOUS
  <2>1. set[w].v
    BY <1>1 DEF StackOf
  <2>2. set[w].tag \in Nat
    BY <1>1, <2>1, Fields, GeometryAssumption DEF L1Set
  <2> QED
    BY <2>2, OldAddress DEF BlockAt, recomputeOldPhyAddr
<1> HIDE DEF WayOf
<1>7. list \in [1 .. n -> Nat] /\ \A m \in 1 .. n : list[m] = BlockAt(set, i, WayOf(m))
  BY <1>5, <1>6
<1>8. list \in Seq(Nat) /\ Len(list) = n
  BY <1>1, <1>7, SeqDef, LenProperties
<1>9. \A w \in W : list[set[w].age + 1] = BlockAt(set, i, w)
  BY <1>2, <1>4
<1>10. list = [m \in 1 .. n |-> list[m]]
  OBVIOUS
<1> HIDE DEF list
<1>11. ByAge(set, i) = list
  BY <1>9, <1>10, ByAgeIs DEF IsByAge
<1> QED
  BY <1>2, <1>5, <1>7, <1>8, <1>9, <1>11

(* No two ways of a stack hold the same block.                             *)
LEMMA BlocksDiffer ==
  ASSUME NEW set \in L1Set, NEW n \in 0 .. L1_WAYS, StackOf(set, L1_WAYS, n),
         NEW i \in L1Indices, NEW w \in 0 .. n - 1, NEW x \in 0 .. n - 1,
         BlockAt(set, i, w) = BlockAt(set, i, x)
  PROVE  w = x
<1>1. w \in 0 .. L1_WAYS - 1 /\ x \in 0 .. L1_WAYS - 1 /\ w < n /\ x < n
  BY GeometryAssumption
<1>2. set[w].v /\ set[x].v
  BY <1>1 DEF StackOf
<1>3. set[w].tag \in Nat /\ set[x].tag \in Nat
  BY <1>1, <1>2, Fields, GeometryAssumption DEF L1Set
<1>4. set[w].tag = set[x].tag
  BY <1>3, BlockRecomputed, Zenon DEF BlockAt, recomputeOldPhyAddr
<1> QED
  BY <1>1, <1>4 DEF StackOf

(***************************************************************************)
(* What a use does to a list, with its block in it and without.            *)
(***************************************************************************)
LEMMA UsedPresent ==
  ASSUME NEW s \in Seq(Nat), NEW j \in 1 .. Len(s),
         \A x \in 1 .. Len(s) : s[x] = s[j] => x = j
  PROVE  Lists!Used(s, s[j]) =
           [m \in 1 .. Len(s) |->
              IF m = 1 THEN s[j] ELSE IF m <= j THEN s[m - 1] ELSE s[m]]
<1>1. DOMAIN s = 1 .. Len(s) /\ Len(s) \in Nat
  BY LenProperties
<1>2. (\E x \in DOMAIN s : s[x] = s[j]) /\ (CHOOSE x \in DOMAIN s : s[x] = s[j]) = j
  BY <1>1
<1>3. j <= Len(s)
  OBVIOUS
<1> QED
  BY <1>2, <1>3, Zenon DEF Lists!Used

LEMMA UsedAbsent ==
  ASSUME NEW s \in Seq(Nat), NEW b, \A j \in 1 .. Len(s) : s[j] # b,
         NEW n, n = IF Len(s) = L1_WAYS THEN Len(s) ELSE Len(s) + 1
  PROVE  Lists!Used(s, b) = [m \in 1 .. n |-> IF m = 1 THEN b ELSE s[m - 1]]
<1>1. DOMAIN s = 1 .. Len(s) /\ Len(s) \in Nat
  BY LenProperties
<1>2. ~ (\E x \in DOMAIN s : s[x] = b) /\ ~ (Len(s) + 1 <= Len(s))
  BY <1>1
<1>3. Lists!Used(s, b) =
        [m \in 1 .. n |-> IF m = 1 THEN b
                          ELSE IF m <= Len(s) + 1 THEN s[m - 1] ELSE s[m]]
  BY <1>2, Zenon DEF Lists!Used
<1>4. \A m \in 1 .. n : m <= Len(s) + 1
  BY <1>1
<1> QED
  BY <1>3, <1>4

(* A hit is a use of the block of its way.                                 *)
LEMMA TouchedList ==
  ASSUME NEW set \in L1Set, NEW n \in 0 .. L1_WAYS, StackOf(set, L1_WAYS, n),
         NEW i \in L1Indices, NEW way \in 0 .. L1_WAYS - 1, set[way].v
  PROVE  ByAge(LRU_age_update(set, way), i) =
           Lists!Used(ByAge(set, i), BlockAt(set, i, way))
<1> DEFINE new  == LRU_age_update(set, way)
           s    == ByAge(set, i)
           j    == set[way].age + 1
           list == [m \in 1 .. n |->
                      IF m = 1 THEN s[j] ELSE IF m <= j THEN s[m - 1] ELSE s[m]]
<1>1. /\ n \in Nat /\ L1_WAYS \in Nat \ {0} /\ way \in 0 .. n - 1
      /\ \A w \in 0 .. n - 1 : w \in 0 .. L1_WAYS - 1 /\ w < n
  BY GeometryAssumption DEF StackOf
<1>2. /\ new \in L1Set /\ SameButAges(set, new, L1_WAYS)
      /\ AgesUpdated(set, new, L1_WAYS, way)
  BY <1>1, AgeUpdate DEF L1Set
<1>3. StackOf(new, L1_WAYS, n)
  BY <1>1, TouchedStack DEF L1Set
<1>4. /\ s \in Seq(Nat) /\ Len(s) = n
      /\ \A w \in 0 .. n - 1 :
           set[w].age + 1 \in 1 .. n /\ s[set[w].age + 1] = BlockAt(set, i, w)
      /\ \A m \in 1 .. n : \E w \in 0 .. n - 1 :
           set[w].age + 1 = m /\ s[m] = BlockAt(set, i, w)
  BY ByAgeOf
<1>5. j \in 1 .. n /\ s[j] = BlockAt(set, i, way)
  BY <1>1, <1>4
<1>6. \A x \in 1 .. n : s[x] = s[j] => x = j
  BY <1>1, <1>4, <1>5, BlocksDiffer
<1> HIDE DEF new, s
<1>7. Lists!Used(s, s[j]) = list
  BY <1>4, <1>5, <1>6, UsedPresent
<1>8. ASSUME NEW w \in 0 .. n - 1
      PROVE  list[new[w].age + 1] = BlockAt(new, i, w)
  <2>1. /\ set[w].age \in Nat /\ set[way].age \in Nat
        /\ set[w].age + 1 \in 1 .. n /\ s[set[w].age + 1] = BlockAt(set, i, w)
    <3>1. set[w].age \in 0 .. L1_WAYS - 1 /\ set[way].age \in 0 .. L1_WAYS - 1
      BY <1>1, Fields DEF L1Set
    <3>2. \A a \in 0 .. L1_WAYS - 1 : a \in Nat
      BY <1>1
    <3> QED
      BY <1>4, <3>1, <3>2
  <2>2. BlockAt(new, i, w) = BlockAt(set, i, w)
    BY <1>1, <1>2 DEF SameButAges, BlockAt
  <2>3. CASE w = way
    <3>1. new[w].age = 0
      BY <1>1, <1>2, <2>3 DEF AgesUpdated
    <3>2. 0 + 1 \in 1 .. n
      BY <1>1
    <3> QED
      BY <1>5, <2>2, <2>3, <3>1, <3>2
  <2>4. CASE w # way /\ set[w].age < set[way].age
    <3>1. new[w].age = set[w].age + 1
      BY <1>1, <1>2, <2>4 DEF AgesUpdated
    <3>2. /\ (set[w].age + 1) + 1 \in 1 .. n /\ (set[w].age + 1) + 1 # 1
          /\ (set[w].age + 1) + 1 <= j /\ ((set[w].age + 1) + 1) - 1 = set[w].age + 1
      BY <1>1, <1>5, <2>1, <2>4
    <3> HIDE DEF j
    <3> QED
      BY <2>1, <2>2, <3>1, <3>2
  <2>5. CASE w # way /\ ~ (set[w].age < set[way].age)
    <3>1. new[w].age = set[w].age /\ set[w].age # set[way].age
      BY <1>1, <1>2, <2>5 DEF AgesUpdated, StackOf
    <3>2. set[w].age + 1 # 1 /\ ~ (set[w].age + 1 <= j)
      BY <2>1, <2>5, <3>1
    <3> HIDE DEF j
    <3> QED
      BY <2>1, <2>2, <3>1, <3>2
  <2> QED
    BY <2>3, <2>4, <2>5
<1>9. list = [m \in 1 .. n |-> list[m]]
  OBVIOUS
<1> HIDE DEF list, j
<1>10. ByAge(new, i) = list
  <2>1. \A w \in 0 .. n - 1 : list[new[w].age + 1] = BlockAt(new, i, w)
    BY <1>8
  <2>2. new \in L1Set /\ IsByAge(list, new, i, n)
    BY <1>2, <1>9, <2>1 DEF IsByAge
  <2> QED
    BY <1>3, <2>2, ByAgeIs
<1> QED
  BY <1>5, <1>7, <1>10 DEF new, s

(* The ages after an insertion: the new entry is the youngest, and all the *)
(* others that are there have grown one older.                             *)
LEMMA InsertedAges ==
  ASSUME NEW set \in L1Set, NEW n \in 0 .. L1_WAYS, StackOf(set, L1_WAYS, n),
         NEW tag \in Nat, NEW line \in Line, Absent(set, L1_WAYS, tag)
  PROVE  LET new == insert(set, L1_WAYS, tag, line)
             way == PlaceWay(set)
             m   == IF n = L1_WAYS THEN n ELSE n + 1
         IN  /\ new \in L1Set /\ m \in 0 .. L1_WAYS /\ StackOf(new, L1_WAYS, m)
             /\ way \in 0 .. L1_WAYS - 1 /\ new[way].age = 0 /\ new[way].tag = tag
             /\ \A w \in 0 .. m - 1 : w # way =>
                  /\ w < n /\ new[w].tag = set[w].tag
                  /\ new[w].age = set[w].age + 1
<1> DEFINE new == insert(set, L1_WAYS, tag, line)
           way == PlaceWay(set)
           m   == IF n = L1_WAYS THEN n ELSE n + 1
           p   == Placed(set, tag, line)
<1>1. n \in Nat /\ L1_WAYS \in Nat \ {0}
  BY GeometryAssumption
<1>2. new \in L1Set
  BY <1>1, InsertType DEF L1Set
<1>3. /\ way \in 0 .. L1_WAYS - 1
      /\ new[way].v /\ new[way].tag = tag
      /\ \A w \in 0 .. L1_WAYS - 1 : w # way =>
           new[w].v = set[w].v /\ new[w].tag = set[w].tag
      /\ IF isFull(set)
         THEN way = evict(set) /\ \A w \in 0 .. L1_WAYS - 1 : set[w].v
         ELSE ~ set[way].v /\ \A w \in 0 .. L1_WAYS - 1 : w < way => set[w].v
  BY <1>1, InsertedEntries DEF L1Set
<1>4. IF isFull(set) THEN n = L1_WAYS ELSE n \in 0 .. L1_WAYS - 1 /\ way = n
  BY <1>1, StackParts, PlaceInStack DEF L1Set
<1>5. isFull(set) <=> n = L1_WAYS
  BY <1>1, <1>4
<1>6. /\ p \in L1Set
      /\ \A w \in 0 .. L1_WAYS - 1 : w # way => p[w] = set[w]
      /\ p[way] = [v    |-> TRUE,
                   age  |-> IF isFull(set) THEN set[way].age ELSE 0,
                   tag  |-> tag,
                   line |-> line]
  BY <1>1, PlacedType DEF L1Set
<1>7. new = IF isFull(set) THEN LRU_age_update(p, way)
            ELSE LRU_age_increase(p, L1_WAYS, way)
  BY InsertSplits
<1> HIDE DEF new, way, p
<1>8. StackOf(new, L1_WAYS, m) /\ m \in 0 .. L1_WAYS
  <2>1. PICK o \in 0 .. L1_WAYS : StackOf(new, L1_WAYS, o)
    BY <1>1, InsertedStack DEF L1Set, new
  <2>2. \A w \in 0 .. L1_WAYS - 1 : w < o <=> w < m
    <3>1. \A w \in 0 .. L1_WAYS - 1 : (w < o <=> new[w].v) /\ (w < n <=> set[w].v)
      BY <2>1 DEF StackOf
    <3> QED
      BY <1>1, <1>3, <1>4, <3>1
  <2>3. m \in 0 .. L1_WAYS
    BY <1>1
  <2> HIDE DEF m
  <2>4. o = m
    BY <1>1, <2>2, <2>3
  <2> QED
    BY <2>1, <2>3, <2>4
<1>9. /\ new[way].age = 0
      /\ \A w \in 0 .. m - 1 : w # way => w < n /\ new[w].age = set[w].age + 1
  <2>1. CASE isFull(set)
    <3>1. AgesUpdated(p, new, L1_WAYS, way)
      BY <1>1, <1>3, <1>6, <1>7, <2>1, AgeUpdate DEF L1Set
    <3>2. p[way].age = set[way].age
      BY <1>6, <2>1
    <3>3. \A w \in 0 .. L1_WAYS - 1 : set[w].age <= set[way].age
      BY <1>1, <1>3, <2>1, Evict DEF L1Set
    <3>4. \A w \in 0 .. L1_WAYS - 1 : w # way => set[w].age < set[way].age
      <4>1. \A w \in 0 .. L1_WAYS - 1 : set[w].age \in 0 .. L1_WAYS - 1
        BY <1>1, Fields DEF L1Set
      <4>2. \A w \in 0 .. L1_WAYS - 1 : w # way => set[w].age # set[way].age
        BY <1>1, <1>3, <1>5, <2>1 DEF StackOf
      <4> QED
        BY <1>1, <1>3, <3>3, <4>1, <4>2
    <3>5. n = L1_WAYS /\ \A w \in 0 .. m - 1 : w \in 0 .. L1_WAYS - 1 /\ w < n
      BY <1>1, <1>5, <2>1
    <3> QED
      BY <1>3, <1>6, <3>1, <3>2, <3>4, <3>5 DEF AgesUpdated
  <2>2. CASE ~ isFull(set)
    <3>1. AgesIncreased(p, new, L1_WAYS, way)
      BY <1>1, <1>3, <1>6, <1>7, <2>2, AgeIncrease DEF L1Set
    <3>2. /\ m = n + 1 /\ way = n /\ n <= L1_WAYS - 1
          /\ \A w \in 0 .. m - 1 : w # way => w < n /\ w \in 0 .. L1_WAYS - 1
      BY <1>1, <1>4, <1>5, <2>2
    <3>3. \A w \in 0 .. L1_WAYS - 1 : w < n => set[w].age < L1_WAYS - 1
      <4>1. \A w \in 0 .. L1_WAYS - 1 : w < n => set[w].age < n
        BY DEF StackOf
      <4>2. \A w \in 0 .. L1_WAYS - 1 : set[w].age \in 0 .. L1_WAYS - 1
        BY <1>1, Fields DEF L1Set
      <4> QED
        BY <1>1, <3>2, <4>1, <4>2
    <3> HIDE DEF m
    <3> QED
      BY <1>3, <1>6, <3>1, <3>2, <3>3 DEF AgesIncreased
  <2> QED
    BY <2>1, <2>2
<1>10. \A w \in 0 .. m - 1 : w # way => new[w].tag = set[w].tag
  <2>1. \A w \in 0 .. m - 1 : w \in 0 .. L1_WAYS - 1
    BY <1>1, <1>8
  <2> QED
    BY <1>3, <2>1
<1> HIDE DEF m
<1> QED
  BY <1>2, <1>3, <1>8, <1>9, <1>10, Zenon DEF new, way, m

(* A block is its tag and its index.                                       *)
LEMMA BlockOfParts ==
  ASSUME NEW b \in Nat
  PROVE  L1Tag(b) * L1_LINES + L1Index(b) = b
<1> DEFINE c == recomputeOldPhyAddr(L1Tag(b), L1Index(b))
<1>1. c \in Nat /\ L1Index(c) = L1Index(b) /\ L1Tag(c) = L1Tag(b)
  BY Positions, BlockRecomputed
<1> HIDE DEF c
<1>2. c = b
  BY <1>1, SameBlock
<1> QED
  BY <1>2 DEF c, recomputeOldPhyAddr

(* The arrival of a block that was absent is a use of it.                  *)
LEMMA InsertedList ==
  ASSUME NEW set \in L1Set, NEW n \in 0 .. L1_WAYS, StackOf(set, L1_WAYS, n),
         NEW b \in Nat, NEW line \in Line, Absent(set, L1_WAYS, L1Tag(b))
  PROVE  ByAge(insert(set, L1_WAYS, L1Tag(b), line), L1Index(b)) =
           Lists!Used(ByAge(set, L1Index(b)), b)
<1> DEFINE tag  == L1Tag(b)
           i    == L1Index(b)
           new  == insert(set, L1_WAYS, tag, line)
           way  == PlaceWay(set)
           m    == IF n = L1_WAYS THEN n ELSE n + 1
           s    == ByAge(set, i)
           list == [q \in 1 .. m |-> IF q = 1 THEN b ELSE s[q - 1]]
<1>1. /\ n \in Nat /\ L1_WAYS \in Nat \ {0} /\ i \in L1Indices /\ tag \in Nat
      /\ tag * L1_LINES + i = b
  BY GeometryAssumption, Positions, BlockOfParts
<1> HIDE DEF tag, i
<1>2. /\ new \in L1Set /\ m \in 0 .. L1_WAYS /\ StackOf(new, L1_WAYS, m)
      /\ way \in 0 .. L1_WAYS - 1 /\ new[way].age = 0 /\ new[way].tag = tag
      /\ \A w \in 0 .. m - 1 : w # way =>
           w < n /\ new[w].tag = set[w].tag /\ new[w].age = set[w].age + 1
  BY <1>1, InsertedAges DEF tag
<1>3. /\ s \in Seq(Nat) /\ Len(s) = n
      /\ \A w \in 0 .. n - 1 :
           set[w].age + 1 \in 1 .. n /\ s[set[w].age + 1] = BlockAt(set, i, w)
      /\ \A q \in 1 .. n : \E w \in 0 .. n - 1 :
           set[w].age + 1 = q /\ s[q] = BlockAt(set, i, w)
  BY <1>1, ByAgeOf
<1>4. \A q \in 1 .. n : s[q] # b
  <2> SUFFICES ASSUME NEW q \in 1 .. n, s[q] = b PROVE FALSE
    OBVIOUS
  <2>1. PICK w \in 0 .. n - 1 : s[q] = BlockAt(set, i, w)
    BY <1>3
  <2>2. w \in 0 .. L1_WAYS - 1 /\ set[w].v
    BY <1>1 DEF StackOf
  <2>3. set[w].tag \in Nat
    BY <1>1, <2>2, Fields DEF L1Set
  <2>4. L1Tag(BlockAt(set, i, w)) = set[w].tag
    BY <1>1, <2>3, BlockRecomputed DEF BlockAt, recomputeOldPhyAddr
  <2> QED
    BY <2>1, <2>2, <2>4 DEF Absent
<1> HIDE DEF new, way, s
<1>5. Lists!Used(s, b) = list
  BY <1>3, <1>4, UsedAbsent
<1>6. \A w \in 0 .. m - 1 : list[new[w].age + 1] = BlockAt(new, i, w)
  <2> SUFFICES ASSUME NEW w \in 0 .. m - 1
               PROVE  list[new[w].age + 1] = BlockAt(new, i, w)
    OBVIOUS
  <2>1. CASE w = way
    <3>1. 0 + 1 \in 1 .. m
      BY <1>1, <1>2
    <3>2. list[0 + 1] = b
      BY <3>1
    <3> QED
      BY <1>1, <1>2, <2>1, <3>2 DEF BlockAt
  <2>2. CASE w # way
    <3>1. w \in 0 .. n - 1 /\ new[w].tag = set[w].tag /\ new[w].age = set[w].age + 1
      BY <1>1, <1>2, <2>2
    <3>2. set[w].age \in Nat
      <4>1. w \in 0 .. L1_WAYS - 1
        BY <1>1, <3>1
      <4>2. set[w].age \in 0 .. L1_WAYS - 1
        BY <1>1, <4>1, Fields DEF L1Set
      <4> QED
        BY <1>1, <4>2
    <3>3. set[w].age + 1 \in 1 .. n /\ s[set[w].age + 1] = BlockAt(set, i, w)
      BY <1>3, <3>1
    <3>4. (set[w].age + 1) + 1 \in 1 .. m
      <4>1. n # L1_WAYS => m = n + 1
        OBVIOUS
      <4>2. n = L1_WAYS => new[w].age <= L1_WAYS - 1
        <5>1. w \in 0 .. L1_WAYS - 1
          BY <1>1, <3>1
        <5> QED
          BY <1>1, <1>2, <5>1, Fields DEF L1Set
      <4> QED
        BY <1>1, <3>1, <3>2, <3>3, <4>1, <4>2
    <3>5. /\ (set[w].age + 1) + 1 # 1
          /\ ((set[w].age + 1) + 1) - 1 = set[w].age + 1
      BY <3>2
    <3>6. BlockAt(new, i, w) = BlockAt(set, i, w)
      BY <3>1 DEF BlockAt
    <3> HIDE DEF m
    <3> QED
      BY <3>1, <3>3, <3>4, <3>5, <3>6
  <2> QED
    BY <2>1, <2>2
<1>7. IsByAge(list, new, i, m)
  <2>1. list = [q \in 1 .. m |-> list[q]]
    OBVIOUS
  <2> HIDE DEF list, m
  <2> QED
    BY <1>6, <2>1 DEF IsByAge
<1> HIDE DEF list, m
<1>8. ByAge(new, i) = list
  BY <1>2, <1>7, ByAgeIs
<1> QED
  BY <1>5, <1>8 DEF new, s, tag, i

(***************************************************************************)
(* A call for a block, from h to k: a use of the block at its index.       *)
(***************************************************************************)
UsedAt(h, k, b) ==
  /\ \A i \in L1Indices : i # L1Index(b) => k.l1[i] = h.l1[i]
  /\ ByAge(k.l1[L1Index(b)], L1Index(b)) =
       Lists!Used(ByAge(h.l1[L1Index(b)], L1Index(b)), b)

(* The entry of a hit is that of the block.                                *)
LEMMA HitBlock ==
  ASSUME NEW h, Kept(h), NEW b \in Nat, L1Hit(h, b) # HIT_WAY_MISS
  PROVE  /\ L1Hit(h, b) \in 0 .. L1_WAYS - 1
         /\ h.l1[L1Index(b)][L1Hit(h, b)].v
         /\ BlockAt(h.l1[L1Index(b)], L1Index(b), L1Hit(h, b)) = b
<1> DEFINE set == h.l1[L1Index(b)]
           way == L1Hit(h, b)
<1>1. set \in SetType(L1_WAYS, Line) /\ L1_WAYS \in Nat \ {0}
  BY Positions, GeometryAssumption DEF Kept, HType, L1Set
<1>2. way = hit_way(set, L1Tag(b))
  BY DEF L1Hit
<1> HIDE DEF set
<1>3. way \in 0 .. L1_WAYS - 1 /\ set[way].v /\ set[way].tag = L1Tag(b)
  BY <1>1, <1>2, HitWay
<1>4. BlockAt(set, L1Index(b), way) = b
  BY <1>3, BlockOfParts DEF BlockAt
<1> QED
  BY <1>3, <1>4 DEF set

LEMMA TouchUses ==
  ASSUME NEW h, Kept(h), NEW b \in Nat, L1Hit(h, b) # HIT_WAY_MISS
  PROVE  UsedAt(h, TouchL1(h, b), b)
<1> DEFINE index == L1Index(b)
           way   == L1Hit(h, b)
           set   == h.l1[index]
           new   == LRU_age_update(set, way)
           k     == TouchL1(h, b)
<1>1. index \in L1Indices /\ set \in L1Set /\ Stack(set) /\ h \in HType
  BY Positions DEF Kept, HType
<1>2. way \in 0 .. L1_WAYS - 1 /\ set[way].v /\ BlockAt(set, index, way) = b
  BY HitBlock
<1>3. k = [h EXCEPT !.l1[index] = new]
  BY DEF TouchL1
<1> HIDE DEF set, way, index
<1>4. ByAge(new, index) = Lists!Used(ByAge(set, index), b)
  <2>1. PICK n \in 0 .. L1_WAYS : StackOf(set, L1_WAYS, n)
    BY <1>1 DEF Stack
  <2>2. ByAge(new, index) = Lists!Used(ByAge(set, index), BlockAt(set, index, way))
    BY <1>1, <1>2, <2>1, TouchedList
  <2> QED
    BY <1>2, <2>2, Zenon
<1> HIDE DEF new, k
<1>5. k.l1[index] = new /\ \A i \in L1Indices : i # index => k.l1[i] = h.l1[i]
  BY <1>1, <1>3 DEF HType
<1> QED
  BY <1>4, <1>5, Zenon DEF UsedAt, k, set, index

(* The order does not depend on the lines.                                 *)
LEMMA SameOrder ==
  ASSUME NEW set \in L1Set, NEW new \in L1Set,
         NEW n \in 0 .. L1_WAYS, StackOf(set, L1_WAYS, n), StackOf(new, L1_WAYS, n),
         \A w \in 0 .. L1_WAYS - 1 : new[w].age = set[w].age /\ new[w].tag = set[w].tag,
         NEW i \in L1Indices
  PROVE  ByAge(new, i) = ByAge(set, i)
<1> DEFINE s == ByAge(set, i)
<1>1. /\ s \in Seq(Nat) /\ Len(s) = n
      /\ \A w \in 0 .. n - 1 : s[set[w].age + 1] = BlockAt(set, i, w)
  BY ByAgeOf
<1> HIDE DEF s
<1>2. s = [m \in 1 .. n |-> s[m]]
  <2>1. s \in [1 .. n -> Nat]
    BY <1>1, LenProperties
  <2> QED
    BY <2>1
<1>3. \A w \in 0 .. n - 1 : s[new[w].age + 1] = BlockAt(new, i, w)
  <2>1. \A w \in 0 .. n - 1 : w \in 0 .. L1_WAYS - 1
    BY GeometryAssumption
  <2> QED
    BY <1>1, <2>1 DEF BlockAt
<1>4. IsByAge(s, new, i, n)
  BY <1>2, <1>3 DEF IsByAge
<1> QED
  BY <1>4, ByAgeIs DEF s

LEMMA RewriteUses ==
  ASSUME NEW h, Kept(h), NEW b \in Blocks, NEW line \in Line,
         L1Hit(h, b) # HIT_WAY_MISS
  PROVE  UsedAt(h, RewriteL1(h, b, line), b)
<1> DEFINE index == L1Index(b)
           way   == L1Hit(h, b)
           g     == TouchL1(h, b)
           set   == g.l1[index]
           new   == [set EXCEPT ![way].line = line]
           k     == [g EXCEPT !.l1[index][way].line = line]
           m     == RewriteL1(h, b, line)
<1>1. b \in Nat
  BY ProgramAssumption
<1>2. /\ index \in L1Indices /\ L1_WAYS \in Nat \ {0}
      /\ way \in 0 .. L1_WAYS - 1 /\ Kept(g) /\ set[way].v
  BY <1>1, Positions, Hits, TouchL1Kept, GeometryAssumption
<1>3. UsedAt(h, g, b)
  BY <1>1, TouchUses
<1>4. m = [k EXCEPT !.mem[b] = line]
  BY DEF RewriteL1, write_memory
<1> HIDE DEF way, g, index
<1>5. set \in L1Set /\ Stack(set) /\ g \in HType
  BY <1>2 DEF Kept, HType
<1>6. k = [g EXCEPT !.l1[index] = new]
  BY <1>2, <1>5 DEF HType
<1> HIDE DEF set
<1>7. ByAge(new, index) = ByAge(set, index)
  <2>1. PICK n \in 0 .. L1_WAYS : StackOf(set, L1_WAYS, n)
    BY <1>5 DEF Stack
  <2>2. /\ set \in SetType(L1_WAYS, Line) /\ set[way].v
        /\ way \in 0 .. L1_WAYS - 1 /\ L1_WAYS \in Nat \ {0}
    BY <1>2, <1>5 DEF L1Set, set
  <2>3. new \in L1Set /\ StackOf(new, L1_WAYS, n)
    BY <2>1, <2>2, NewLine DEF L1Set
  <2>4. \A w \in 0 .. L1_WAYS - 1 : new[w].age = set[w].age /\ new[w].tag = set[w].tag
    BY <1>5, <2>2, Fields DEF L1Set, SetType, ValidEntry, InvalidEntry
  <2> HIDE DEF new
  <2> QED
    BY <1>2, <1>5, <2>1, <2>3, <2>4, SameOrder
<1> HIDE DEF new, k, m
<1>8. m.l1 = [g.l1 EXCEPT ![index] = new]
  BY <1>4, <1>5, <1>6 DEF HType
<1>9. m.l1[index] = new /\ \A i \in L1Indices : i # index => m.l1[i] = g.l1[i]
  BY <1>2, <1>5, <1>8 DEF HType
<1> QED
  BY <1>3, <1>7, <1>9, Zenon DEF UsedAt, m, set, index

LEMMA InsertUses ==
  ASSUME NEW h, Kept(h), NEW b \in Nat, NEW line \in Line,
         L1Hit(h, b) = HIT_WAY_MISS
  PROVE  UsedAt(h, insert_level1(h, b, line), b)
<1> DEFINE index == L1Index(b)
           set   == h.l1[index]
           k     == insert_level1(h, b, line)
           new   == insert(set, L1_WAYS, L1Tag(b), line)
<1>1. index \in L1Indices /\ set \in L1Set /\ Stack(set)
  BY Positions DEF Kept, HType
<1>2. Absent(set, L1_WAYS, L1Tag(b))
  BY MissIsAbsent
<1>3. k.l1[index] = new /\ \A i \in L1Indices : i # index => k.l1[i] = h.l1[i]
  BY InsertLevel1Splits
<1> HIDE DEF set, k
<1>4. ByAge(new, index) = Lists!Used(ByAge(set, index), b)
  <2>1. PICK n \in 0 .. L1_WAYS : StackOf(set, L1_WAYS, n)
    BY <1>1 DEF Stack
  <2> QED
    BY <1>1, <1>2, <2>1, InsertedList
<1> HIDE DEF new, index
<1> QED
  BY <1>3, <1>4, Zenon DEF UsedAt, k, set, index

LEMMA MoveUses ==
  ASSUME NEW h, Kept(h), NEW b \in Nat, L1Hit(h, b) = HIT_WAY_MISS,
         NEW way \in 0 .. L2_WAYS - 1, h.l2[L2Index(b)][way].v
  PROVE  UsedAt(h, move_entry_to_level1(h, b, way), b)
<1>1. h.l2[L2Index(b)][way].line \in Line
  BY MoveInserts
<1>2. PICK g : /\ Kept(g) /\ L1Hit(g, b) = HIT_WAY_MISS
               /\ VacatedL2(h, g, b, way)
               /\ move_entry_to_level1(h, b, way) =
                    insert_level1(g, b, h.l2[L2Index(b)][way].line)
  BY MoveInserts
<1>3. UsedAt(g, move_entry_to_level1(h, b, way), b)
  BY <1>1, <1>2, InsertUses
<1>4. g.l1 = h.l1
  BY <1>2 DEF VacatedL2
<1> QED
  BY <1>3, <1>4, Zenon DEF UsedAt

LEMMA ReadUses ==
  ASSUME NEW h, Kept(h), NEW b \in Blocks
  PROVE  UsedAt(h, cache_read(h, b), b)
<1>1. b \in Nat /\ h.mem[b] \in Line
  BY ProgramAssumption DEF Kept, HType
<1>2. CASE L1Hit(h, b) # HIT_WAY_MISS
  BY <1>1, <1>2, TouchUses DEF cache_read
<1>3. CASE L1Hit(h, b) = HIT_WAY_MISS /\ L2Hit(h, b) # HIT_WAY_MISS
  <2> DEFINE g == TouchL2(h, b)
  <2>1. Kept(g) /\ g.l1 = h.l1 /\ g.l2[L2Index(b)][L2Hit(h, b)].v
    BY <1>1, <1>3, TouchL2Kept
  <2>2. L2Hit(h, b) \in 0 .. L2_WAYS - 1
    BY <1>1, <1>3, Hits
  <2>3. cache_read(h, b) = move_entry_to_level1(g, b, L2Hit(h, b))
    BY <1>3 DEF cache_read
  <2> HIDE DEF g
  <2>4. L1Hit(g, b) = HIT_WAY_MISS
    BY <1>3, <2>1 DEF L1Hit
  <2>5. UsedAt(g, cache_read(h, b), b)
    BY <1>1, <2>1, <2>2, <2>3, <2>4, MoveUses
  <2> QED
    BY <2>1, <2>5, Zenon DEF UsedAt
<1>4. CASE L1Hit(h, b) = HIT_WAY_MISS /\ L2Hit(h, b) = HIT_WAY_MISS
  BY <1>1, <1>4, InsertUses DEF cache_read
<1> QED
  BY <1>2, <1>3, <1>4

LEMMA WriteUses ==
  ASSUME NEW h, Kept(h), NEW b \in Blocks,
         NEW w \in WordIndices, NEW word \in Word
  PROVE  UsedAt(h, cache_write(h, b, w, word), b)
<1> DEFINE line == set_word(LineServed(h, b), w, word)
           k    == cache_write(h, b, w, word)
<1>1. b \in Nat /\ line \in Line
  BY ProgramAssumption, LineServedType DEF set_word, Line
<1>2. k = CASE L1Hit(h, b) # HIT_WAY_MISS -> RewriteL1(h, b, line)
            [] L1Hit(h, b) = HIT_WAY_MISS /\ L2Hit(h, b) # HIT_WAY_MISS ->
                 move_entry_to_level1(RewriteL2(h, b, line), b, L2Hit(h, b))
            [] OTHER -> insert_level1(write_memory(h, b, line), b, line)
  BY DEF cache_write
<1> HIDE DEF line, k
<1> SUFFICES UsedAt(h, k, b)
  BY DEF k
<1>3. CASE L1Hit(h, b) # HIT_WAY_MISS
  <2>1. k = RewriteL1(h, b, line)
    BY <1>2, <1>3
  <2> QED
    BY <1>1, <1>3, <2>1, RewriteUses
<1>4. CASE L1Hit(h, b) = HIT_WAY_MISS /\ L2Hit(h, b) # HIT_WAY_MISS
  <2> DEFINE g == RewriteL2(h, b, line)
  <2>1. Kept(g) /\ g.l1 = h.l1 /\ g.l2[L2Index(b)][L2Hit(h, b)].v
    BY <1>1, <1>4, RewriteL2Kept
  <2>2. L2Hit(h, b) \in 0 .. L2_WAYS - 1
    BY <1>1, <1>4, Hits
  <2>3. k = move_entry_to_level1(g, b, L2Hit(h, b))
    BY <1>2, <1>4
  <2> HIDE DEF g
  <2>4. L1Hit(g, b) = HIT_WAY_MISS
    BY <1>4, <2>1 DEF L1Hit
  <2>5. UsedAt(g, k, b)
    BY <1>1, <2>1, <2>2, <2>3, <2>4, MoveUses
  <2> QED
    BY <2>1, <2>5, Zenon DEF UsedAt
<1>5. CASE L1Hit(h, b) = HIT_WAY_MISS /\ L2Hit(h, b) = HIT_WAY_MISS
  <2> DEFINE g == write_memory(h, b, line)
  <2>1. Kept(g) /\ g.l1 = h.l1
    BY <1>1, MemoryWritten
  <2>2. k = insert_level1(g, b, line)
    BY <1>2, <1>5
  <2> HIDE DEF g
  <2>3. L1Hit(g, b) = HIT_WAY_MISS
    BY <1>5, <2>1 DEF L1Hit
  <2>4. UsedAt(g, k, b)
    BY <1>1, <2>1, <2>2, <2>3, InsertUses
  <2> QED
    BY <2>1, <2>4, Zenon DEF UsedAt
<1> QED
  BY <1>3, <1>4, <1>5

(* A block used last stays where it is when it is used again.              *)
LEMMA UsedTwice ==
  ASSUME NEW s \in Seq(Nat), NEW b \in Nat, NEW t \in Seq(Nat),
         t = Lists!Used(s, b), \A x, y \in 1 .. Len(t) : t[x] = t[y] => x = y
  PROVE  Lists!Used(t, b) = t
<1> DEFINE k == IF \E j \in DOMAIN s : s[j] = b
                THEN CHOOSE j \in DOMAIN s : s[j] = b ELSE Len(s) + 1
           n == IF k <= Len(s) \/ Len(s) = L1_WAYS THEN Len(s) ELSE Len(s) + 1
           u == [m \in 1 .. n |-> IF m = 1 THEN b ELSE IF m <= k THEN s[m - 1] ELSE s[m]]
<1>1. t = u
  BY Zenon DEF Lists!Used
<1>2. DOMAIN s = 1 .. Len(s) /\ Len(s) \in Nat /\ DOMAIN t = 1 .. Len(t) /\ Len(t) \in Nat
  BY LenProperties
<1>3. k \in 1 .. Len(s) + 1
  <2>1. CASE \E j \in DOMAIN s : s[j] = b
    <3>1. k \in DOMAIN s
      BY <2>1
    <3> HIDE DEF k
    <3> QED
      BY <1>2, <3>1
  <2>2. CASE ~ \E j \in DOMAIN s : s[j] = b
    <3>1. k = Len(s) + 1
      BY <2>2
    <3> HIDE DEF k
    <3> QED
      BY <1>2, <3>1
  <2> QED
    BY <2>1, <2>2
<1> HIDE DEF k
<1>4. 1 \in 1 .. n
  <2>1. CASE k <= Len(s) \/ Len(s) = L1_WAYS
    <3>1. n = Len(s)
      BY <2>1
    <3> HIDE DEF n
    <3> QED
      <4>1. Len(s) \in Nat /\ k \in Nat /\ 1 <= k
        BY <1>2, <1>3
      <4>2. 1 <= Len(s)
        BY <2>1, <4>1, GeometryAssumption
      <4> QED
        BY <3>1, <4>1, <4>2
  <2>2. CASE ~ (k <= Len(s) \/ Len(s) = L1_WAYS)
    <3>1. n = Len(s) + 1
      BY <2>2
    <3> HIDE DEF n
    <3> QED
      BY <1>2, <3>1
  <2> QED
    BY <2>1, <2>2
<1>5. 1 \in DOMAIN t /\ t[1] = b
  BY <1>1, <1>4
<1> HIDE DEF n, u
<1>6. 1 \in 1 .. Len(t) /\ \A x \in 1 .. Len(t) : t[x] = t[1] => x = 1
  BY <1>2, <1>5
<1>7. Lists!Used(t, b) =
        [m \in 1 .. Len(t) |->
           IF m = 1 THEN t[1] ELSE IF m <= 1 THEN t[m - 1] ELSE t[m]]
  <2>1. Lists!Used(t, t[1]) =
          [m \in 1 .. Len(t) |->
             IF m = 1 THEN t[1] ELSE IF m <= 1 THEN t[m - 1] ELSE t[m]]
    BY <1>6, UsedPresent
  <2> QED
    BY <1>5, <2>1, Zenon
<1>8. \A m \in 1 .. Len(t) :
        t[m] = IF m = 1 THEN t[1] ELSE IF m <= 1 THEN t[m - 1] ELSE t[m]
  BY <1>2
<1>9. t = [m \in 1 .. Len(t) |-> t[m]]
  BY <1>2
<1> QED
  BY <1>7, <1>8, <1>9

(* A store of a byte is a read and a write: two uses of one block.         *)
LEMMA UseAgain ==
  ASSUME NEW h, Kept(h), NEW k, Kept(k), NEW m, NEW b \in Nat,
         UsedAt(h, k, b), UsedAt(k, m, b)
  PROVE  UsedAt(h, m, b)
<1> DEFINE index == L1Index(b)
           s     == ByAge(h.l1[index], index)
           t     == ByAge(k.l1[index], index)
<1>1. /\ index \in L1Indices
      /\ h.l1[index] \in L1Set /\ Stack(h.l1[index])
      /\ k.l1[index] \in L1Set /\ Stack(k.l1[index])
  BY Positions DEF Kept, HType
<1>2. /\ \A i \in L1Indices : i # index => k.l1[i] = h.l1[i]
      /\ \A i \in L1Indices : i # index => m.l1[i] = k.l1[i]
      /\ t = Lists!Used(s, b) /\ ByAge(m.l1[index], index) = Lists!Used(t, b)
  BY DEF UsedAt
<1> HIDE DEF index
<1>3. s \in Seq(Nat)
  <2>1. PICK n \in 0 .. L1_WAYS : StackOf(h.l1[index], L1_WAYS, n)
    BY <1>1 DEF Stack
  <2> QED
    BY <1>1, <2>1, ByAgeOf
<1>4. t \in Seq(Nat) /\ \A x, y \in 1 .. Len(t) : t[x] = t[y] => x = y
  <2> DEFINE set == k.l1[index]
  <2>1. PICK n \in 0 .. L1_WAYS : StackOf(set, L1_WAYS, n)
    BY <1>1 DEF Stack
  <2>2. /\ t \in Seq(Nat) /\ Len(t) = n
        /\ \A x \in 1 .. n : \E w \in 0 .. n - 1 :
             set[w].age + 1 = x /\ t[x] = BlockAt(set, index, w)
    BY <1>1, <2>1, ByAgeOf
  <2> HIDE DEF t
  <2>3. ASSUME NEW x \in 1 .. n, NEW y \in 1 .. n, t[x] = t[y] PROVE x = y
    <3>1. PICK w \in 0 .. n - 1 : set[w].age + 1 = x /\ t[x] = BlockAt(set, index, w)
      BY <2>2
    <3>2. PICK v \in 0 .. n - 1 : set[v].age + 1 = y /\ t[y] = BlockAt(set, index, v)
      BY <2>2
    <3> HIDE DEF set
    <3>3. w = v
      BY <1>1, <2>1, <2>3, <3>1, <3>2, BlocksDiffer DEF set
    <3> QED
      BY <3>1, <3>2, <3>3, Zenon
  <2> QED
    BY <2>2, <2>3
<1> HIDE DEF s, t
<1>5. Lists!Used(t, b) = t
  BY <1>2, <1>3, <1>4, UsedTwice
<1> QED
  BY <1>2, <1>5, Zenon DEF UsedAt, index, s, t

-----------------------------------------------------------------------------
(***************************************************************************)
(* The same of the variables: what the instance of LruLists is given.      *)
(***************************************************************************)
Order == [access \in {INSTRUCTION, DATA} |->
            [i \in L1Indices |-> ByAge(l1_cache[access][i], i)]]

LEMMA CallUses ==
  ASSUME AllKept, NEW access \in {INSTRUCTION, DATA}, NEW b \in Blocks,
         NEW h, UsedAt(Hierarchy(access), h, b), Becomes(access, h)
  PROVE  Lists!Use(access, b)
<1> DEFINE index == L1Index(b)
           used  == Lists!Used(Order[access][index], b)
<1>1. b \in Nat /\ index \in L1Indices
  BY Positions, ProgramAssumption
<1>2. /\ \A i \in L1Indices : i # index => h.l1[i] = l1_cache[access][i]
      /\ ByAge(h.l1[index], index) = used
  BY <1>1 DEF UsedAt, Hierarchy, Order
<1>3. \A other \in {INSTRUCTION, DATA} :
        l1_cache'[other] = IF other = access THEN h.l1 ELSE l1_cache[other]
  BY DEF AllKept, Becomes
<1> HIDE DEF used
<1>4. ASSUME NEW other \in {INSTRUCTION, DATA}, NEW i \in L1Indices
      PROVE  Order'[other][i] = IF other = access /\ i = index THEN used
                                ELSE Order[other][i]
  <2>1. /\ Order'[other][i] = ByAge(l1_cache'[other][i], i)
        /\ Order[other][i] = ByAge(l1_cache[other][i], i)
    BY DEF Order
  <2>2. CASE other = access /\ i = index
    BY <1>2, <1>3, <2>1, <2>2, Zenon
  <2>3. CASE other = access /\ i # index
    BY <1>2, <1>3, <2>1, <2>3, Zenon
  <2>4. CASE other # access
    BY <1>3, <2>1, <2>4, Zenon
  <2> QED
    BY <2>2, <2>3, <2>4, Zenon
<1>5. /\ Order' = [other \in {INSTRUCTION, DATA} |-> [i \in L1Indices |-> Order'[other][i]]]
      /\ Order = [other \in {INSTRUCTION, DATA} |-> [i \in L1Indices |-> Order[other][i]]]
  BY DEF Order
<1> HIDE DEF index
<1>6. Order' = [Order EXCEPT ![access][index] = used]
  <2> DEFINE new == [Order EXCEPT ![access][index] = used]
             old == Order
             next == Order'
  <2>1. /\ old = [other \in {INSTRUCTION, DATA} |-> [i \in L1Indices |-> old[other][i]]]
        /\ next = [other \in {INSTRUCTION, DATA} |-> [i \in L1Indices |-> next[other][i]]]
        /\ \A other \in {INSTRUCTION, DATA}, i \in L1Indices :
             next[other][i] = IF other = access /\ i = index THEN used ELSE old[other][i]
    BY <1>4, <1>5
  <2>2. new = [old EXCEPT ![access][index] = used]
    OBVIOUS
  <2> HIDE DEF new, old, next
  <2>3. new = [other \in {INSTRUCTION, DATA} |-> [i \in L1Indices |->
                 IF other = access /\ i = index THEN used ELSE old[other][i]]]
    <3>1. DOMAIN old = {INSTRUCTION, DATA} /\ DOMAIN old[access] = L1Indices
      BY <2>1
    <3>2. [old[access] EXCEPT ![index] = used] =
            [i \in L1Indices |-> IF i = index THEN used ELSE old[access][i]]
      BY <3>1
    <3>3. new = [other \in {INSTRUCTION, DATA} |->
                   IF other = access THEN [old[access] EXCEPT ![index] = used]
                   ELSE old[other]]
      BY <2>2, <3>1
    <3>4. ASSUME NEW other \in {INSTRUCTION, DATA}
          PROVE  (IF other = access THEN [old[access] EXCEPT ![index] = used]
                  ELSE old[other]) =
                 [i \in L1Indices |->
                    IF other = access /\ i = index THEN used ELSE old[other][i]]
      <4>1. old[other] = [i \in L1Indices |-> old[other][i]]
        BY <2>1
      <4>2. CASE other = access
        BY <3>2, <4>2
      <4>3. CASE other # access
        BY <4>1, <4>3
      <4> QED
        BY <4>2, <4>3
    <3> QED
      BY <3>3, <3>4
  <2>4. next = new
    BY <2>1, <2>3
  <2> QED
    BY <2>4 DEF new, next
<1> QED
  BY <1>6, Zenon DEF Lists!Use, Order, index, used

(* An empty index is an empty list.                                        *)
LEMMA EmptyOrder ==
  ASSUME NEW i \in L1Indices
  PROVE  ByAge(EmptyL1[i], i) = << >>
<1>1. 0 \in 0 .. L1_WAYS /\ L1_WAYS \in Nat \ {0}
  BY GeometryAssumption
<1>2. EmptyL1[i] \in L1Set /\ StackOf(EmptyL1[i], L1_WAYS, 0)
  BY <1>1, EmptyStack DEF L1Set, EmptyL1, L1Ways
<1>3. ByAge(EmptyL1[i], i) \in Seq(Nat) /\ Len(ByAge(EmptyL1[i], i)) = 0
  BY <1>1, <1>2, ByAgeOf
<1> QED
  BY <1>3, EmptySeq

LEMMA InitLists == Init => Lists!Init
<1> SUFFICES ASSUME Init
             PROVE  Order = [c \in {INSTRUCTION, DATA} |->
                               [i \in L1Indices |-> << >>]]
  BY DEF Lists!Init, Order
<1>1. \A access \in {INSTRUCTION, DATA}, i \in L1Indices :
        ByAge(l1_cache[access][i], i) = << >>
  BY EmptyOrder DEF Init
<1> QED
  BY <1>1 DEF Order

LEMMA FlushLists ==
  ASSUME AllKept, NEW type \in Flushes, CacheFlush(type)
  PROVE  \/ \E c \in {INSTRUCTION, DATA} : Lists!Flush(c)
         \/ Order' = Order
<1>1. \A other \in {INSTRUCTION, DATA} :
        l1_cache'[other] = IF other = type THEN EmptyL1 ELSE l1_cache[other]
  BY DEF AllKept, CacheFlush
<1>2. CASE type \in {INSTRUCTION, DATA}
  <2> DEFINE empty == [i \in L1Indices |-> << >>]
  <2>1. ASSUME NEW other \in {INSTRUCTION, DATA}
        PROVE  [i \in L1Indices |-> ByAge(l1_cache'[other][i], i)] =
                 IF other = type THEN empty ELSE Order[other]
    <3>1. CASE other = type
      <4>1. \A i \in L1Indices : ByAge(l1_cache'[other][i], i) = << >>
        BY <1>1, <3>1, EmptyOrder
      <4> QED
        BY <3>1, <4>1
    <3>2. CASE other # type
      <4>1. l1_cache'[other] = l1_cache[other]
        BY <1>1, <3>2
      <4> QED
        BY <3>2, <4>1 DEF Order
    <3> QED
      BY <3>1, <3>2
  <2> HIDE DEF empty
  <2>2. Order' = [other \in {INSTRUCTION, DATA} |->
                    IF other = type THEN empty ELSE Order[other]]
    BY <2>1 DEF Order
  <2>3. [Order EXCEPT ![type] = empty] = [other \in {INSTRUCTION, DATA} |->
                    IF other = type THEN empty ELSE Order[other]]
    <3>1. DOMAIN Order = {INSTRUCTION, DATA}
      BY DEF Order
    <3> QED
      BY <1>2, <3>1
  <2>4. Order' = [Order EXCEPT ![type] = empty]
    BY <2>2, <2>3, Zenon
  <2>5. Lists!Flush(type)
    BY <2>4, Zenon DEF Lists!Flush, Order, empty
  <2> QED
    BY <1>2, <2>5
<1>3. CASE type \notin {INSTRUCTION, DATA}
  <2>1. \A other \in {INSTRUCTION, DATA} : l1_cache'[other] = l1_cache[other]
    BY <1>1, <1>3
  <2> QED
    BY <2>1 DEF Order
<1> QED
  BY <1>2, <1>3

(* The four calls that go through a level-1 cache.                         *)
LEMMA LoadIsUse ==
  ASSUME AllKept, NEW access \in Accesses, NEW a \in Address,
         CacheRead(access, a) \/ CacheReadByte(access, a)
  PROVE  access \in {INSTRUCTION, DATA} /\ a.block \in Blocks /\ Lists!Use(access, a.block)
<1>1. access \in {INSTRUCTION, DATA} /\ a.block \in Blocks
  BY ProgramAssumption DEF Address
<1>2. Kept(Hierarchy(access))
  BY <1>1 DEF AllKept
<1>3. Becomes(access, cache_read(Hierarchy(access), a.block))
  BY DEF CacheRead, CacheReadByte
<1> QED
  BY <1>1, <1>2, <1>3, ReadUses, CallUses

LEMMA StoreIsUse ==
  ASSUME AllKept, NEW a \in StoreAddress, NEW word \in WriteWords, CacheWrite(a, word)
  PROVE  a.block \in Blocks /\ Lists!Use(DATA, a.block)
<1>1. a.block \in Blocks /\ a.word \in WordIndices /\ word \in Word
  BY ProgramAssumption DEF StoreAddress, Address
<1>2. Kept(Hierarchy(DATA))
  BY DEF AllKept
<1>3. Becomes(DATA, cache_write(Hierarchy(DATA), a.block, a.word, word))
  BY DEF CacheWrite
<1> QED
  BY <1>1, <1>2, <1>3, WriteUses, CallUses

LEMMA ByteStoreIsUse ==
  ASSUME AllKept, NEW a \in StoreAddress, NEW byte \in WriteBytes,
         CacheWriteByte(a, byte)
  PROVE  a.block \in Blocks /\ Lists!Use(DATA, a.block)
<1> DEFINE h    == Hierarchy(DATA)
           g    == cache_read(h, a.block)
           word == [WordRead(DATA, a) EXCEPT ![a.byte] = byte]
           k    == cache_write(g, a.block, a.word, word)
<1>1. /\ a.block \in Blocks /\ a.block \in Nat
      /\ a.word \in WordIndices /\ byte \in Byte
  BY ProgramAssumption DEF StoreAddress, Address
<1>2. Kept(h)
  BY DEF AllKept
<1>3. word \in Word
  <2>1. LineServed(h, a.block) \in Line
    BY <1>1, <1>2, LineServedType
  <2>2. WordRead(DATA, a) \in Word
    BY <1>1, <2>1 DEF WordRead, Line
  <2> QED
    BY <1>1, <2>2 DEF Word
<1>4. Becomes(DATA, k)
  BY DEF CacheWriteByte
<1> HIDE DEF h, word, k
<1>5. Kept(g) /\ UsedAt(h, g, a.block)
  BY <1>1, <1>2, ReadKept, ReadUses
<1>6. UsedAt(g, k, a.block)
  BY <1>1, <1>3, <1>5, WriteUses DEF k
<1> HIDE DEF g
<1>7. UsedAt(h, k, a.block)
  BY <1>1, <1>2, <1>5, <1>6, UseAgain
<1> QED
  BY <1>1, <1>4, <1>7, CallUses DEF h

LEMMA ListsNext ==
  ASSUME AllKept, [Next]_vars
  PROVE  Lists!Next \/ Order' = Order
<1>1. Accesses \subseteq {INSTRUCTION, DATA} /\ DATA \in {INSTRUCTION, DATA}
  BY ProgramAssumption
<1>2. \A access \in {INSTRUCTION, DATA}, b \in Blocks :
        Lists!Use(access, b) => Lists!Next
  BY Zenon DEF Lists!Next
<1>3. ASSUME NEW access \in Accesses, NEW a \in Address, CacheRead(access, a)
      PROVE  Lists!Next
  BY <1>2, <1>3, LoadIsUse
<1>4. ASSUME NEW access \in Accesses, NEW a \in Address, CacheReadByte(access, a)
      PROVE  Lists!Next
  BY <1>2, <1>4, LoadIsUse
<1>5. ASSUME NEW a \in StoreAddress, NEW word \in WriteWords, CacheWrite(a, word)
      PROVE  Lists!Next
  BY <1>1, <1>2, <1>5, StoreIsUse
<1>6. ASSUME NEW a \in StoreAddress, NEW byte \in WriteBytes, CacheWriteByte(a, byte)
      PROVE  Lists!Next
  BY <1>1, <1>2, <1>6, ByteStoreIsUse
<1>7. ASSUME NEW type \in Flushes, CacheFlush(type)
      PROVE  Lists!Next \/ Order' = Order
  BY <1>7, FlushLists, Zenon DEF Lists!Next
<1>8. ASSUME UNCHANGED vars PROVE Order' = Order
  BY <1>8 DEF vars, Order
<1>9. ASSUME NEW a \in Address, Misaligned(a) PROVE Order' = Order
  BY <1>8, <1>9 DEF Misaligned
<1> QED
  BY <1>3, <1>4, <1>5, <1>6, <1>7, <1>8, <1>9 DEF Next

(* Level 1 implements least-recently-used replacement, for every geometry  *)
(* and every program: each read and each store moves its block to the      *)
(* front of the list of its index, and what falls off the end of a full    *)
(* list is what evict chose by its age (lru.h, cache_mng.c).               *)
THEOREM LevelOneIsLru == Spec => L1IsLru
<1> DEFINE Uses ==
             /\ \A access \in Accesses, addr \in Address :
                  CacheReadByte(access, addr) => Lists!Use(access, addr.block)
             /\ \A addr \in StoreAddress, word \in WriteWords :
                  CacheWrite(addr, word) => Lists!Use(DATA, addr.block)
<1>1. Init => Lists!Init
  BY InitLists
<1>2. AllKept /\ [Next]_vars => [Lists!Next]_<< Order, L1_WAYS >>
  BY ListsNext
<1>3. AllKept => Uses
  BY LoadIsUse, StoreIsUse
<1>4. Spec => []AllKept
  BY InitKept, NextKept, PTL DEF Spec
<1> HIDE DEF Uses
<1>5. Spec => [][Lists!Next]_<< Order, L1_WAYS >> /\ [][Uses]_vars
  BY <1>2, <1>3, <1>4, PTL DEF Spec
<1>6. Spec => Lists!Spec
  BY <1>1, <1>5, PTL DEF Spec, Lists!Spec, Order
<1> QED
  BY <1>5, <1>6, PTL DEF L1IsLru, Uses

=============================================================================
