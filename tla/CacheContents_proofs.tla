-------------------------- MODULE CacheContents_proofs --------------------------
(***************************************************************************)
(* For every geometry and every program: which copies a call moves between *)
(* the levels, drops and brings in, and where their data come from.  For   *)
(* every aligned program: the hierarchy is a flat memory.                  *)
(***************************************************************************)
EXTENDS CacheHistory, CacheClient, CacheHierarchy_proofs

(***************************************************************************)
(* One index: a valid entry with this tag and this line.                   *)
(***************************************************************************)
Has(set, WAYS, tag, line) ==
  \E w \in 0 .. WAYS - 1 : set[w].v /\ set[w].tag = tag /\ set[w].line = line

(* An insertion adds its entry and removes nothing but a victim.           *)
LEMMA InsertedContents ==
  ASSUME NEW WAYS \in Nat \ {0}, NEW L, NEW set \in SetType(WAYS, L),
         NEW tag \in Nat, NEW line \in L
  PROVE  LET new    == insert(set, WAYS, tag, line)
             victim == set[evict(set)]
         IN  /\ Has(new, WAYS, tag, line)
             /\ \A t, x : Has(new, WAYS, t, x) =>
                  Has(set, WAYS, t, x) \/ (t = tag /\ x = line)
             /\ \A t, x : Has(set, WAYS, t, x) =>
                  \/ Has(new, WAYS, t, x)
                  \/ isFull(set) /\ t = victim.tag /\ x = victim.line
<1> DEFINE new == insert(set, WAYS, tag, line)
           way == PlaceWay(set)
<1>1. /\ way \in 0 .. WAYS - 1
      /\ new[way].v /\ new[way].tag = tag /\ new[way].line = line
      /\ \A w \in 0 .. WAYS - 1 : w # way =>
           new[w].v = set[w].v /\ new[w].tag = set[w].tag /\ new[w].line = set[w].line
  BY InsertedEntries
<1>2. IF isFull(set) THEN way = evict(set) ELSE ~ set[way].v
  BY InsertedEntries
<1> HIDE DEF new, way
<1>3. Has(new, WAYS, tag, line)
  BY <1>1, Zenon DEF Has
<1>4. ASSUME NEW t, NEW x, Has(new, WAYS, t, x)
      PROVE  Has(set, WAYS, t, x) \/ (t = tag /\ x = line)
  BY <1>1, <1>4, Zenon DEF Has
<1>5. ASSUME NEW t, NEW x, Has(set, WAYS, t, x)
      PROVE  \/ Has(new, WAYS, t, x)
             \/ isFull(set) /\ t = set[evict(set)].tag /\ x = set[evict(set)].line
  BY <1>1, <1>2, <1>5, Zenon DEF Has
<1> QED
  BY <1>3, <1>4, <1>5, Zenon DEF new

(* The victim of a stack has gone, whatever its line.                      *)
LEMMA VictimLeaves ==
  ASSUME NEW WAYS \in Nat \ {0}, NEW L, NEW set \in SetType(WAYS, L),
         NEW n \in 0 .. WAYS, StackOf(set, WAYS, n), isFull(set),
         NEW tag \in Nat, NEW line \in L, Absent(set, WAYS, tag)
  PROVE  /\ Has(set, WAYS, set[evict(set)].tag, set[evict(set)].line)
         /\ \A x : ~ Has(insert(set, WAYS, tag, line), WAYS, set[evict(set)].tag, x)
<1> DEFINE new == insert(set, WAYS, tag, line)
           way == evict(set)
<1>1. /\ way \in 0 .. WAYS - 1 /\ PlaceWay(set) = way
      /\ \A w \in 0 .. WAYS - 1 : set[w].v
  BY Evict, EmptySlot DEF PlaceWay
<1>2. /\ new[way].tag = tag
      /\ \A w \in 0 .. WAYS - 1 : w # way => new[w].tag = set[w].tag
  BY <1>1, InsertedEntries
<1>3. \A w \in 0 .. WAYS - 1 : w # way => set[w].tag # set[way].tag
  <2>1. \A w \in 0 .. WAYS - 1 : w < n
    BY <1>1 DEF StackOf
  <2> HIDE DEF way
  <2> QED
    BY <1>1, <2>1 DEF StackOf
<1>4. set[way].tag # tag
  BY <1>1 DEF Absent
<1> HIDE DEF new, way
<1>5. \A w \in 0 .. WAYS - 1 : new[w].tag # set[way].tag
  BY <1>1, <1>2, <1>3, <1>4, Zenon
<1> QED
  BY <1>1, <1>5, Zenon DEF Has, new, way

(* A change of ages leaves every copy where it is; a new line leaves one   *)
(* with the same tag.                                                      *)
LEMMA AgesAside ==
  ASSUME NEW WAYS, NEW old, NEW new, SameButAges(old, new, WAYS), NEW t, NEW x
  PROVE  Has(new, WAYS, t, x) <=> Has(old, WAYS, t, x)
  BY Zenon DEF SameButAges, Has

LEMMA LinesAside ==
  ASSUME NEW WAYS, NEW old, NEW new, NEW way, Rewritten(old, new, WAYS, way), NEW t
  PROVE  (\E x : Has(new, WAYS, t, x)) <=> (\E x : Has(old, WAYS, t, x))
<1>1. \A set : (\E x : Has(set, WAYS, t, x)) <=>
                (\E w \in 0 .. WAYS - 1 : set[w].v /\ set[w].tag = t)
  BY Zenon DEF Has
<1>2. \A w \in 0 .. WAYS - 1 : new[w].v = old[w].v /\ new[w].tag = old[w].tag
  BY Zenon DEF Rewritten
<1> QED
  BY <1>1, <1>2, Zenon

(***************************************************************************)
(* The hierarchy: a copy of block c with line x in a level.                *)
(***************************************************************************)
Holds1(h, c, x) == Has(h.l1[L1Index(c)], L1_WAYS, L1Tag(c), x)
Holds2(h, c, x) == Has(h.l2[L2Index(c)], L2_WAYS, L2Tag(c), x)

(* One in level 2 that is not in the given way of the index of b.          *)
Beside2(h, b, way, c, x) ==
  \E w \in 0 .. L2_WAYS - 1 :
    LET e == h.l2[L2Index(c)][w]
    IN  /\ L2Index(c) # L2Index(b) \/ w # way
        /\ e.v /\ e.tag = L2Tag(c) /\ e.line = x

LEMMA BlockOfL2Recomputed ==
  ASSUME NEW tag \in Nat, NEW index \in L2Indices
  PROVE  /\ BlockOfL2(tag, index) \in Nat
         /\ L2Index(BlockOfL2(tag, index)) = index
         /\ L2Tag(BlockOfL2(tag, index)) = tag
<1>1. \A n \in Nat \ {0}, i, t \in Nat :
        i < n => /\ t * n + i \in Nat
                 /\ (t * n + i) % n = i /\ (t * n + i) \div n = t
  OBVIOUS
<1>2. L2_LINES \in Nat \ {0} /\ index \in Nat /\ index < L2_LINES
  BY GeometryAssumption DEF L2Indices
<1> QED
  BY <1>1, <1>2 DEF BlockOfL2, L2Index, L2Tag

(***************************************************************************)
(* What the internal functions do to the copies.                           *)
(***************************************************************************)
LEMMA Level2Inserted ==
  ASSUME NEW h, h.l2 \in [L2Indices -> L2Set], NEW b \in Nat, NEW line \in Line,
         NEW k, k.l2 = insert_level2(h.l2, b, line)
  PROVE  /\ Holds2(k, b, line)
         /\ \A c \in Nat : \A x : Holds2(k, c, x) => Holds2(h, c, x) \/ (c = b /\ x = line)
         /\ \A i \in L2Indices : i # L2Index(b) => k.l2[i] = h.l2[i]
         /\ k.l2[L2Index(b)] = insert(h.l2[L2Index(b)], L2_WAYS, L2Tag(b), line)
<1> DEFINE index == L2Index(b)
           set   == h.l2[index]
           new   == insert(set, L2_WAYS, L2Tag(b), line)
<1>1. /\ index \in L2Indices /\ L2Tag(b) \in Nat /\ L2_WAYS \in Nat \ {0}
      /\ set \in SetType(L2_WAYS, Line)
  BY Positions, GeometryAssumption DEF L2Set
<1>2. k.l2[index] = new /\ \A i \in L2Indices : i # index => k.l2[i] = h.l2[i]
  BY <1>1 DEF insert_level2
<1> HIDE DEF index, set
<1>3. /\ Has(new, L2_WAYS, L2Tag(b), line)
      /\ \A t, x : Has(new, L2_WAYS, t, x) =>
           Has(set, L2_WAYS, t, x) \/ (t = L2Tag(b) /\ x = line)
  BY <1>1, InsertedContents
<1> HIDE DEF new
<1>4. Holds2(k, b, line)
  BY <1>2, <1>3 DEF Holds2, index
<1>5. ASSUME NEW c \in Nat, NEW x, Holds2(k, c, x)
      PROVE  Holds2(h, c, x) \/ (c = b /\ x = line)
  <2>1. CASE L2Index(c) = index
    <3>1. Has(new, L2_WAYS, L2Tag(c), x)
      BY <1>2, <1>5, <2>1 DEF Holds2
    <3>2. CASE Has(set, L2_WAYS, L2Tag(c), x)
      BY <2>1, <3>2 DEF Holds2, set
    <3>3. CASE L2Tag(c) = L2Tag(b) /\ x = line
      BY <2>1, <3>3, SameBlock DEF index
    <3> QED
      BY <1>3, <3>1, <3>2, <3>3
  <2>2. CASE L2Index(c) # index
    <3>1. k.l2[L2Index(c)] = h.l2[L2Index(c)]
      BY <1>2, <2>2, Positions
    <3> QED
      BY <1>5, <3>1 DEF Holds2
  <2> QED
    BY <2>1, <2>2
<1> QED
  BY <1>2, <1>4, <1>5 DEF new, set, index

(* In a stack a miss means that no copy is there.                          *)
LEMMA MissInL1 ==
  ASSUME NEW h, Kept(h), NEW b \in Nat, L1Hit(h, b) = HIT_WAY_MISS
  PROVE  /\ Absent(h.l1[L1Index(b)], L1_WAYS, L1Tag(b))
         /\ \A x : ~ Holds1(h, b, x)
  BY MissIsAbsent DEF Holds1, Has, Absent

(* An insertion in level 1, after a miss: the block is there, nothing else *)
(* came in, and the one that left, if any, is in level 2.                  *)
LEMMA InsertLevel1Contents ==
  ASSUME NEW h, Kept(h), NEW b \in Nat, NEW line \in Line,
         L1Hit(h, b) = HIT_WAY_MISS
  PROVE  LET k == insert_level1(h, b, line)
         IN  /\ Holds1(k, b, line)
             /\ \A c \in Nat : \A x : Holds1(k, c, x) =>
                  Holds1(h, c, x) \/ (c = b /\ x = line)
             /\ \A c \in Nat : \A x : Holds1(h, c, x) => Holds1(k, c, x) \/ Holds2(k, c, x)
             /\ \A c \in Nat : \A x : Holds2(k, c, x) =>
                  \/ Holds2(h, c, x)
                  \/ Holds1(h, c, x) /\ \A y : ~ Holds1(k, c, y)
<1> DEFINE index  == L1Index(b)
           set    == h.l1[index]
           victim == set[evict(set)]
           old    == recomputeOldPhyAddr(victim.tag, index)
           new    == insert(set, L1_WAYS, L1Tag(b), line)
           k      == insert_level1(h, b, line)
<1>1. /\ index \in L1Indices /\ L1Tag(b) \in Nat /\ L1_WAYS \in Nat \ {0}
      /\ set \in SetType(L1_WAYS, Line) /\ Stack(set)
      /\ Absent(set, L1_WAYS, L1Tag(b))
      /\ h.l2 \in [L2Indices -> L2Set]
  BY Positions, MissInL1, GeometryAssumption DEF Kept, HType, L1Set
<1>2. /\ k.l1[index] = new
      /\ \A i \in L1Indices : i # index => k.l1[i] = h.l1[i]
      /\ k.l2 = IF isFull(set) THEN insert_level2(h.l2, old, victim.line) ELSE h.l2
  BY InsertLevel1Splits
<1> HIDE DEF k, index, set
<1>3. /\ Has(new, L1_WAYS, L1Tag(b), line)
      /\ \A t, x : Has(new, L1_WAYS, t, x) =>
           Has(set, L1_WAYS, t, x) \/ (t = L1Tag(b) /\ x = line)
      /\ \A t, x : Has(set, L1_WAYS, t, x) =>
           \/ Has(new, L1_WAYS, t, x)
           \/ isFull(set) /\ t = victim.tag /\ x = victim.line
  BY <1>1, InsertedContents
<1>4. ASSUME isFull(set)
      PROVE  /\ Has(set, L1_WAYS, victim.tag, victim.line)
             /\ \A x : ~ Has(new, L1_WAYS, victim.tag, x)
             /\ old \in Nat /\ L1Index(old) = index /\ L1Tag(old) = victim.tag
             /\ Holds2(k, old, victim.line)
             /\ \A c \in Nat : \A x : Holds2(k, c, x) =>
                  Holds2(h, c, x) \/ (c = old /\ x = victim.line)
  <2>1. PICK n \in 0 .. L1_WAYS : StackOf(set, L1_WAYS, n)
    BY <1>1 DEF Stack
  <2>2. /\ Has(set, L1_WAYS, victim.tag, victim.line)
        /\ \A x : ~ Has(new, L1_WAYS, victim.tag, x)
    BY <1>1, <1>4, <2>1, VictimLeaves
  <2>3. victim.tag \in Nat /\ victim.line \in Line
    <3>1. evict(set) \in 0 .. L1_WAYS - 1 /\ victim.v
      BY <1>1, <1>4, Evict
    <3> QED
      BY <1>1, <3>1, Fields
  <2> HIDE DEF victim, new
  <2>4. old \in Nat /\ L1Index(old) = index /\ L1Tag(old) = victim.tag
    BY <1>1, <2>3, BlockRecomputed
  <2> HIDE DEF old
  <2>5. k.l2 = insert_level2(h.l2, old, victim.line)
    BY <1>2, <1>4
  <2> QED
    BY <1>1, <2>2, <2>3, <2>4, <2>5, Level2Inserted
<1> HIDE DEF new, victim, old
<1>5. ASSUME NEW c \in Nat, L1Index(c) # index
      PROVE  k.l1[L1Index(c)] = h.l1[L1Index(c)]
  BY <1>2, <1>5, Positions
<1>6. Holds1(k, b, line)
  BY <1>2, <1>3 DEF Holds1, index
<1>7. ASSUME NEW c \in Nat, NEW x, Holds1(k, c, x)
      PROVE  Holds1(h, c, x) \/ (c = b /\ x = line)
  <2>1. CASE L1Index(c) = index
    <3>1. Has(new, L1_WAYS, L1Tag(c), x)
      BY <1>2, <1>7, <2>1 DEF Holds1
    <3>2. CASE Has(set, L1_WAYS, L1Tag(c), x)
      BY <2>1, <3>2 DEF Holds1, set
    <3>3. CASE L1Tag(c) = L1Tag(b) /\ x = line
      BY <2>1, <3>3, SameBlock DEF index
    <3> QED
      BY <1>3, <3>1, <3>2, <3>3
  <2>2. CASE L1Index(c) # index
    BY <1>5, <1>7, <2>2 DEF Holds1
  <2> QED
    BY <2>1, <2>2
<1>8. ASSUME NEW c \in Nat, NEW x, Holds1(h, c, x)
      PROVE  Holds1(k, c, x) \/ Holds2(k, c, x)
  <2>1. CASE L1Index(c) = index
    <3>1. Has(set, L1_WAYS, L1Tag(c), x)
      BY <1>8, <2>1 DEF Holds1, set
    <3>2. CASE Has(new, L1_WAYS, L1Tag(c), x)
      BY <1>2, <2>1, <3>2 DEF Holds1
    <3>3. CASE isFull(set) /\ L1Tag(c) = victim.tag /\ x = victim.line
      <4>1. c = old
        BY <1>4, <2>1, <3>3, SameBlock
      <4> QED
        BY <1>4, <3>3, <4>1
    <3> QED
      BY <1>3, <3>1, <3>2, <3>3
  <2>2. CASE L1Index(c) # index
    BY <1>5, <1>8, <2>2 DEF Holds1
  <2> QED
    BY <2>1, <2>2
<1>9. ASSUME NEW c \in Nat, NEW x, Holds2(k, c, x)
      PROVE  \/ Holds2(h, c, x)
             \/ Holds1(h, c, x) /\ \A y : ~ Holds1(k, c, y)
  <2>1. CASE ~ isFull(set)
    BY <1>2, <1>9, <2>1 DEF Holds2
  <2>2. CASE isFull(set) /\ c = old /\ x = victim.line
    <3>1. Holds1(h, c, x)
      BY <1>4, <2>2 DEF Holds1, set
    <3>2. \A y : ~ Holds1(k, c, y)
      BY <1>2, <1>4, <2>2 DEF Holds1
    <3> QED
      BY <3>1, <3>2
  <2> QED
    BY <1>4, <1>9, <2>1, <2>2
<1> QED
  BY <1>6, <1>7, <1>8, <1>9 DEF k

(* A way of level 2 that is left no longer holds its entry.                *)
LEMMA VacatedContents ==
  ASSUME NEW h, Kept(h), NEW b \in Nat, NEW way \in 0 .. L2_WAYS - 1,
         NEW g, VacatedL2(h, g, b, way), NEW c \in Nat, NEW x, Holds2(g, c, x)
  PROVE  Beside2(h, b, way, c, x)
<1>1. PICK w \in 0 .. L2_WAYS - 1 :
        /\ g.l2[L2Index(c)][w].v /\ g.l2[L2Index(c)][w].tag = L2Tag(c)
        /\ g.l2[L2Index(c)][w].line = x
  BY DEF Holds2, Has
<1>2. CASE L2Index(c) # L2Index(b)
  <2>1. g.l2[L2Index(c)] = h.l2[L2Index(c)]
    BY <1>2, Positions DEF VacatedL2
  <2> QED
    BY <1>1, <1>2, <2>1, Zenon DEF Beside2
<1>3. CASE L2Index(c) = L2Index(b)
  <2> DEFINE set == h.l2[L2Index(b)]
  <2>1. set \in L2Set /\ DOMAIN set = 0 .. L2_WAYS - 1
    BY Hits DEF L2Set, SetType
  <2>2. g.l2[L2Index(c)] = [set EXCEPT ![way] = Invalidated(@)]
    BY <1>3 DEF VacatedL2
  <2>3. ~ Invalidated(set[way]).v
    BY DEF Invalidated, EmptyEntry
  <2> HIDE DEF set
  <2>4. w # way /\ g.l2[L2Index(c)][w] = set[w]
    BY <1>1, <2>1, <2>2, <2>3
  <2> QED
    BY <1>1, <1>3, <2>4, Zenon DEF Beside2, set
<1> QED
  BY <1>2, <1>3

(* An entry that leaves level 2 for level 1.                               *)
LEMMA MoveContents ==
  ASSUME NEW h, Kept(h), NEW b \in Nat, L1Hit(h, b) = HIT_WAY_MISS,
         NEW way \in 0 .. L2_WAYS - 1, h.l2[L2Index(b)][way].v
  PROVE  LET k == move_entry_to_level1(h, b, way)
         IN  /\ k.mem = h.mem
             /\ \A c \in Nat : \A x : Holds1(k, c, x) =>
                  Holds1(h, c, x) \/ (c = b /\ x = h.l2[L2Index(b)][way].line)
             /\ \A c \in Nat : \A x : Holds1(h, c, x) => Holds1(k, c, x) \/ Holds2(k, c, x)
             /\ \A c \in Nat : \A x : Holds2(k, c, x) =>
                  \/ Beside2(h, b, way, c, x)
                  \/ Holds1(h, c, x) /\ \A y : ~ Holds1(k, c, y)
<1> DEFINE line == h.l2[L2Index(b)][way].line
           k    == move_entry_to_level1(h, b, way)
<1>1. line \in Line
  BY MoveInserts
<1>2. PICK g : /\ Kept(g) /\ g.mem = h.mem /\ L1Hit(g, b) = HIT_WAY_MISS
               /\ VacatedL2(h, g, b, way) /\ k = insert_level1(g, b, line)
  BY MoveInserts
<1> HIDE DEF line, k
<1>3. \A c, x : Holds1(g, c, x) <=> Holds1(h, c, x)
  BY <1>2 DEF VacatedL2, Holds1
<1>4. \A c \in Nat : \A x : Holds2(g, c, x) => Beside2(h, b, way, c, x)
  BY <1>2, VacatedContents
<1>5. /\ k.mem = g.mem
      /\ \A c \in Nat : \A x : Holds1(k, c, x) => Holds1(g, c, x) \/ (c = b /\ x = line)
      /\ \A c \in Nat : \A x : Holds1(g, c, x) => Holds1(k, c, x) \/ Holds2(k, c, x)
      /\ \A c \in Nat : \A x : Holds2(k, c, x) =>
           \/ Holds2(g, c, x)
           \/ Holds1(g, c, x) /\ \A y : ~ Holds1(k, c, y)
  <2>1. k.mem = g.mem
    BY <1>1, <1>2, InsertLevel1Splits
  <2> QED
    BY <1>1, <1>2, <2>1, InsertLevel1Contents
<1>6. \A c \in Nat : \A x : Holds2(k, c, x) =>
        \/ Beside2(h, b, way, c, x)
        \/ Holds1(h, c, x) /\ \A y : ~ Holds1(k, c, y)
  BY <1>3, <1>4, <1>5, Zenon
<1>7. \A c \in Nat : \A x : Holds1(k, c, x) => Holds1(h, c, x) \/ (c = b /\ x = line)
  BY <1>3, <1>5, Zenon
<1>8. \A c \in Nat : \A x : Holds1(h, c, x) => Holds1(k, c, x) \/ Holds2(k, c, x)
  BY <1>3, <1>5, Zenon
<1> QED
  BY <1>2, <1>5, <1>6, <1>7, <1>8, Zenon DEF k, line

(* A change of ages changes no copy; a new line changes that of one block, *)
(* in the level where it was found.                                        *)
LEMMA TouchedL1Contents ==
  ASSUME NEW h, NEW k, NEW b \in Nat, TouchedL1(h, k, b)
  PROVE  \A c \in Nat : \A x : /\ Holds1(k, c, x) <=> Holds1(h, c, x)
                               /\ Holds2(k, c, x) <=> Holds2(h, c, x)
<1> TAKE c \in Nat
<1> TAKE x
<1>1. CASE L1Index(c) = L1Index(b)
  BY <1>1, AgesAside, Zenon DEF TouchedL1, Holds1, Holds2
<1>2. CASE L1Index(c) # L1Index(b)
  BY <1>2, Positions, Zenon DEF TouchedL1, Holds1, Holds2
<1> QED
  BY <1>1, <1>2

LEMMA RewrittenL1Contents ==
  ASSUME NEW h, Kept(h), NEW b \in Nat, L1Hit(h, b) # HIT_WAY_MISS,
         NEW k, NEW line, RewrittenL1(h, k, b, line)
  PROVE  \A c \in Nat : \A x :
           /\ Holds1(k, c, x) => Holds1(h, c, x) \/ (c = b /\ x = line)
           /\ Holds1(h, c, x) => \E y : Holds1(k, c, y)
           /\ Holds1(k, c, x) => \E y : Holds1(h, c, y)
           /\ Holds2(k, c, x) <=> Holds2(h, c, x)
<1> DEFINE way == L1Hit(h, b)
           set == h.l1[L1Index(b)]
           new == k.l1[L1Index(b)]
<1>1. /\ Rewritten(set, new, L1_WAYS, way) /\ new[way].line = line
      /\ k.l2 = h.l2
      /\ \A i \in L1Indices : i # L1Index(b) => k.l1[i] = h.l1[i]
  BY DEF RewrittenL1
<1>2. way \in 0 .. L1_WAYS - 1 /\ set[way].tag = L1Tag(b)
  <2>1. set \in SetType(L1_WAYS, Line) /\ L1_WAYS \in Nat \ {0}
    BY Positions, GeometryAssumption DEF Kept, HType, L1Set
  <2>2. way = hit_way(set, L1Tag(b))
    BY DEF L1Hit
  <2> HIDE DEF set
  <2> QED
    BY <2>1, <2>2, HitWay
<1> HIDE DEF way, set, new
<1> TAKE c \in Nat
<1> TAKE x
<1>3. CASE L1Index(c) = L1Index(b)
  <2>1. /\ \A y : Holds1(k, c, y) <=> Has(new, L1_WAYS, L1Tag(c), y)
        /\ \A y : Holds1(h, c, y) <=> Has(set, L1_WAYS, L1Tag(c), y)
    BY <1>3 DEF Holds1, new, set
  <2>2. Holds1(k, c, x) => Holds1(h, c, x) \/ (c = b /\ x = line)
    <3> SUFFICES ASSUME NEW w \in 0 .. L1_WAYS - 1,
                        new[w].v, new[w].tag = L1Tag(c), new[w].line = x
                 PROVE  Holds1(h, c, x) \/ (c = b /\ x = line)
      BY <2>1, Zenon DEF Has
    <3>1. set[w].v /\ set[w].tag = L1Tag(c)
      BY <1>1, Zenon DEF Rewritten
    <3>2. CASE w # way
      BY <1>1, <2>1, <3>1, <3>2, Zenon DEF Rewritten, Has
    <3>3. CASE w = way
      BY <1>1, <1>2, <1>3, <3>1, <3>3, SameBlock
    <3> QED
      BY <3>2, <3>3
  <2>3. /\ Holds1(h, c, x) => \E y : Holds1(k, c, y)
        /\ Holds1(k, c, x) => \E y : Holds1(h, c, y)
    BY <1>1, <2>1, LinesAside, Zenon
  <2> QED
    BY <1>1, <2>2, <2>3 DEF Holds2
<1>4. CASE L1Index(c) # L1Index(b)
  <2>1. k.l1[L1Index(c)] = h.l1[L1Index(c)]
    BY <1>1, <1>4, Positions
  <2> QED
    BY <1>1, <2>1, Zenon DEF Holds1, Holds2
<1> QED
  BY <1>3, <1>4

(* Beside the entry found in level 2, nothing changes there before it      *)
(* moves.                                                                  *)
LEMMA BesideTheHit ==
  ASSUME NEW h, NEW g, NEW b \in Nat, NEW way,
         \/ TouchedL2(h, g, b)
         \/ \E line : RewrittenL2(h, g, b, line) /\ way = L2Hit(h, b),
         NEW c \in Nat, NEW x, Beside2(g, b, way, c, x)
  PROVE  Holds2(h, c, x)
<1>1. CASE L2Index(c) = L2Index(b)
  <2> DEFINE set == h.l2[L2Index(b)]
             new == g.l2[L2Index(b)]
  <2>1. PICK w \in 0 .. L2_WAYS - 1 :
          /\ w # way
          /\ new[w].v /\ new[w].tag = L2Tag(c) /\ new[w].line = x
    BY <1>1, Zenon DEF Beside2
  <2>2. SameButAges(set, new, L2_WAYS) \/ Rewritten(set, new, L2_WAYS, way)
    BY Zenon DEF TouchedL2, RewrittenL2
  <2> HIDE DEF set, new
  <2>3. set[w].v /\ set[w].tag = L2Tag(c) /\ set[w].line = x
    BY <2>1, <2>2, Zenon DEF SameButAges, Rewritten
  <2> QED
    BY <1>1, <2>3, Zenon DEF Holds2, Has, set
<1>2. CASE L2Index(c) # L2Index(b)
  <2>1. g.l2[L2Index(c)] = h.l2[L2Index(c)]
    BY <1>2, Positions, Zenon DEF TouchedL2, RewrittenL2
  <2> QED
    BY <2>1, Zenon DEF Beside2, Holds2, Has
<1> QED
  BY <1>1, <1>2

(* The entry found in level 2 is a copy of the block.                      *)
LEMMA HitIsHeld ==
  ASSUME NEW h, Kept(h), NEW b \in Nat
  PROVE  /\ L1Hit(h, b) # HIT_WAY_MISS =>
              Holds1(h, b, h.l1[L1Index(b)][L1Hit(h, b)].line)
         /\ L2Hit(h, b) # HIT_WAY_MISS =>
              Holds2(h, b, h.l2[L2Index(b)][L2Hit(h, b)].line)
<1> DEFINE set1 == h.l1[L1Index(b)]
           set2 == h.l2[L2Index(b)]
<1>1. /\ set1 \in SetType(L1_WAYS, Line) /\ L1_WAYS \in Nat \ {0}
      /\ set2 \in SetType(L2_WAYS, Line) /\ L2_WAYS \in Nat \ {0}
  BY Positions, GeometryAssumption DEF Kept, HType, L1Set, L2Set
<1>2. /\ L1Hit(h, b) = hit_way(set1, L1Tag(b))
      /\ L2Hit(h, b) = hit_way(set2, L2Tag(b))
  BY DEF L1Hit, L2Hit
<1> HIDE DEF set1, set2
<1>3. L1Hit(h, b) # HIT_WAY_MISS => Has(set1, L1_WAYS, L1Tag(b), set1[L1Hit(h, b)].line)
  <2>1. L1Hit(h, b) # HIT_WAY_MISS =>
          /\ L1Hit(h, b) \in 0 .. L1_WAYS - 1
          /\ set1[L1Hit(h, b)].v /\ set1[L1Hit(h, b)].tag = L1Tag(b)
    BY <1>1, <1>2, HitWay
  <2> QED
    BY <2>1, Zenon DEF Has
<1>4. L2Hit(h, b) # HIT_WAY_MISS => Has(set2, L2_WAYS, L2Tag(b), set2[L2Hit(h, b)].line)
  <2>1. L2Hit(h, b) # HIT_WAY_MISS =>
          /\ L2Hit(h, b) \in 0 .. L2_WAYS - 1
          /\ set2[L2Hit(h, b)].v /\ set2[L2Hit(h, b)].tag = L2Tag(b)
    BY <1>1, <1>2, HitWay
  <2> QED
    BY <2>1, Zenon DEF Has
<1> QED
  BY <1>3, <1>4 DEF Holds1, Holds2, set1, set2

-----------------------------------------------------------------------------
(***************************************************************************)
(* What a call for block b does to the copies: those that leave level 1    *)
(* are in level 2 as they were, those that are new in level 2 have left    *)
(* level 1, and those that are new in level 1 are of b, with the line that *)
(* level 2 had for it or that the memory has, before or after.             *)
(***************************************************************************)
VictimsKept(h, k) ==
  \A c \in Nat : \A x : Holds1(h, c, x) => (\E y : Holds1(k, c, y)) \/ Holds2(k, c, x)

OnlyVictims(h, k) ==
  \A c \in Nat : \A x : Holds2(k, c, x) =>
    Holds2(h, c, x) \/ (Holds1(h, c, x) /\ \A y : ~ Holds1(k, c, y))

BroughtIn(h, k, b) ==
  \A c \in Nat : \A x : Holds1(k, c, x) =>
    \/ Holds1(h, c, x)
    \/ c = b /\ (Holds2(h, b, x) \/ x = h.mem[b] \/ x = k.mem[b])

Moves(h, k, b) == VictimsKept(h, k) /\ OnlyVictims(h, k) /\ BroughtIn(h, k, b)

LEMMA ReadMoves ==
  ASSUME NEW h, Kept(h), NEW b \in Blocks
  PROVE  /\ Moves(h, cache_read(h, b), b)
         /\ cache_read(h, b).mem = h.mem
         /\ L1Hit(cache_read(h, b), b) # HIT_WAY_MISS
<1> DEFINE k == cache_read(h, b)
<1>1. b \in Nat /\ h.mem[b] \in Line
  BY ProgramAssumption DEF Kept, HType
<1>2. CASE L1Hit(h, b) # HIT_WAY_MISS
  <2>1. k = TouchL1(h, b)
    BY <1>2 DEF cache_read
  <2> HIDE DEF k
  <2>2. TouchedL1(h, k, b) /\ L1Hit(k, b) # HIT_WAY_MISS
    BY <1>1, <1>2, <2>1, TouchL1Kept
  <2>3. \A c \in Nat : \A x : /\ Holds1(k, c, x) <=> Holds1(h, c, x)
                              /\ Holds2(k, c, x) <=> Holds2(h, c, x)
    BY <1>1, <2>2, TouchedL1Contents
  <2>4. k.mem = h.mem
    BY <2>2 DEF TouchedL1
  <2> QED
    BY <2>2, <2>3, <2>4, Zenon DEF Moves, VictimsKept, OnlyVictims, BroughtIn, k
<1>3. CASE L1Hit(h, b) = HIT_WAY_MISS /\ L2Hit(h, b) # HIT_WAY_MISS
  <2> DEFINE g    == TouchL2(h, b)
             way  == L2Hit(h, b)
             line == g.l2[L2Index(b)][way].line
  <2>1. /\ Kept(g) /\ g.l1 = h.l1 /\ g.l2[L2Index(b)][way].v
        /\ TouchedL2(h, g, b)
    BY <1>1, <1>3, TouchL2Kept
  <2>2. way \in 0 .. L2_WAYS - 1
    BY <1>1, <1>3, Hits
  <2>3. k = move_entry_to_level1(g, b, way)
    BY <1>3 DEF cache_read
  <2>4. Holds2(h, b, line)
    <3>1. Holds2(h, b, h.l2[L2Index(b)][way].line)
      BY <1>1, <1>3, HitIsHeld
    <3>2. line = h.l2[L2Index(b)][way].line
      BY <2>1, <2>2, Zenon DEF TouchedL2, SameButAges
    <3> QED
      BY <3>1, <3>2, Zenon
  <2> HIDE DEF g, k, way, line
  <2>5. L1Hit(g, b) = HIT_WAY_MISS
    BY <1>3, <2>1 DEF L1Hit
  <2>6. /\ k.mem = g.mem
        /\ \A c \in Nat : \A x : Holds1(k, c, x) => Holds1(g, c, x) \/ (c = b /\ x = line)
        /\ \A c \in Nat : \A x : Holds1(g, c, x) => Holds1(k, c, x) \/ Holds2(k, c, x)
        /\ \A c \in Nat : \A x : Holds2(k, c, x) =>
             \/ Beside2(g, b, way, c, x)
             \/ Holds1(g, c, x) /\ \A y : ~ Holds1(k, c, y)
    <3> USE DEF line
    <3> QED
      BY <1>1, <2>1, <2>2, <2>3, <2>5, MoveContents
  <2>7. \A c \in Nat : \A x : Beside2(g, b, way, c, x) => Holds2(h, c, x)
    BY <1>1, <2>1, BesideTheHit
  <2>8. \A c, x : Holds1(g, c, x) <=> Holds1(h, c, x)
    BY <2>1 DEF Holds1
  <2>9. VictimsKept(h, k) /\ OnlyVictims(h, k) /\ BroughtIn(h, k, b)
    <3>1. VictimsKept(h, k)
      BY <2>6, <2>8, Zenon DEF VictimsKept
    <3>2. OnlyVictims(h, k)
      BY <2>6, <2>7, <2>8, Zenon DEF OnlyVictims
    <3>3. BroughtIn(h, k, b)
      BY <2>4, <2>6, <2>8, Zenon DEF BroughtIn
    <3> QED
      BY <3>1, <3>2, <3>3
  <2>10. L1Hit(k, b) # HIT_WAY_MISS
    BY <1>1, <2>1, <2>2, <2>3, <2>5, MoveKept
  <2>11. k.mem = h.mem
    BY <2>1, <2>6 DEF TouchedL2
  <2> QED
    BY <2>9, <2>10, <2>11 DEF Moves, k
<1>4. CASE L1Hit(h, b) = HIT_WAY_MISS /\ L2Hit(h, b) = HIT_WAY_MISS
  <2>1. k = insert_level1(h, b, h.mem[b])
    BY <1>4 DEF cache_read
  <2> HIDE DEF k
  <2>2. L1Hit(k, b) # HIT_WAY_MISS
    BY <1>1, <1>4, <2>1, InsertLevel1Stored
  <2>3. k.mem = h.mem
    BY <1>1, <1>4, <2>1, InsertLevel1Splits
  <2>4. /\ \A c \in Nat : \A x : Holds1(k, c, x) => Holds1(h, c, x) \/ (c = b /\ x = h.mem[b])
        /\ \A c \in Nat : \A x : Holds1(h, c, x) => Holds1(k, c, x) \/ Holds2(k, c, x)
        /\ \A c \in Nat : \A x : Holds2(k, c, x) =>
             \/ Holds2(h, c, x)
             \/ Holds1(h, c, x) /\ \A y : ~ Holds1(k, c, y)
    BY <1>1, <1>4, <2>1, InsertLevel1Contents
  <2>5. Moves(h, k, b)
    BY <2>4, Zenon DEF Moves, VictimsKept, OnlyVictims, BroughtIn
  <2> QED
    BY <2>2, <2>3, <2>5 DEF k
<1> QED
  BY <1>2, <1>3, <1>4

(* A store that hits level 1 moves nothing: it rewrites one copy.          *)
LEMMA RewriteL1Moves ==
  ASSUME NEW h, Kept(h), NEW b \in Blocks, L1Hit(h, b) # HIT_WAY_MISS,
         NEW k, NEW line, RewrittenL1(h, k, b, line)
  PROVE  /\ \A c \in Nat : \A x : Holds1(k, c, x) =>
              Holds1(h, c, x) \/ (c = b /\ x = k.mem[b])
         /\ \A c \in Nat : \A x : Holds1(h, c, x) => \E y : Holds1(k, c, y)
         /\ \A c \in Nat : \A x : Holds1(k, c, x) => \E y : Holds1(h, c, y)
         /\ \A c \in Nat : \A x : Holds2(k, c, x) <=> Holds2(h, c, x)
<1>1. b \in Nat
  BY ProgramAssumption
<1>2. k.mem[b] = line
  BY DEF RewrittenL1, Kept, HType
<1>3. \A c \in Nat : \A x :
        /\ Holds1(k, c, x) => Holds1(h, c, x) \/ (c = b /\ x = line)
        /\ Holds1(h, c, x) => \E y : Holds1(k, c, y)
        /\ Holds1(k, c, x) => \E y : Holds1(h, c, y)
        /\ Holds2(k, c, x) <=> Holds2(h, c, x)
  BY <1>1, RewrittenL1Contents
<1> QED
  BY <1>2, <1>3, Zenon

LEMMA WriteMoves ==
  ASSUME NEW h, Kept(h), NEW b \in Blocks,
         NEW w \in WordIndices, NEW word \in Word
  PROVE  /\ Moves(h, cache_write(h, b, w, word), b)
         /\ cache_write(h, b, w, word).mem =
              [h.mem EXCEPT ![b] = set_word(LineServed(h, b), w, word)]
<1> DEFINE line == set_word(LineServed(h, b), w, word)
           k    == cache_write(h, b, w, word)
           mem  == [h.mem EXCEPT ![b] = line]
<1>1. b \in Nat /\ line \in Line
  BY ProgramAssumption, LineServedType DEF set_word, Line
<1>2. k = CASE L1Hit(h, b) # HIT_WAY_MISS -> RewriteL1(h, b, line)
            [] L1Hit(h, b) = HIT_WAY_MISS /\ L2Hit(h, b) # HIT_WAY_MISS ->
                 move_entry_to_level1(RewriteL2(h, b, line), b, L2Hit(h, b))
            [] OTHER -> insert_level1(write_memory(h, b, line), b, line)
  BY DEF cache_write
<1> HIDE DEF line, k
<1> SUFFICES Moves(h, k, b) /\ k.mem = mem
  BY DEF line, k
<1>3. CASE L1Hit(h, b) # HIT_WAY_MISS
  <2>1. k = RewriteL1(h, b, line)
    BY <1>2, <1>3
  <2>2. RewrittenL1(h, k, b, line)
    BY <1>1, <1>3, <2>1, RewriteL1Kept
  <2>3. Moves(h, k, b)
    <3>1. /\ \A c \in Nat : \A x : Holds1(k, c, x) =>
               Holds1(h, c, x) \/ (c = b /\ x = k.mem[b])
          /\ \A c \in Nat : \A x : Holds1(h, c, x) => \E y : Holds1(k, c, y)
          /\ \A c \in Nat : \A x : Holds2(k, c, x) <=> Holds2(h, c, x)
      BY <1>3, <2>2, RewriteL1Moves
    <3> QED
      BY <3>1, Zenon DEF Moves, VictimsKept, OnlyVictims, BroughtIn
  <2> QED
    BY <2>2, <2>3, Zenon DEF RewrittenL1
<1>4. CASE L1Hit(h, b) = HIT_WAY_MISS /\ L2Hit(h, b) # HIT_WAY_MISS
  <2> DEFINE g   == RewriteL2(h, b, line)
             way == L2Hit(h, b)
  <2>1. /\ Kept(g) /\ g.l1 = h.l1 /\ g.l2[L2Index(b)][way].v
        /\ g.l2[L2Index(b)][way].line = line /\ g.mem[b] = line
        /\ RewrittenL2(h, g, b, line)
    BY <1>1, <1>4, RewriteL2Kept
  <2>2. way \in 0 .. L2_WAYS - 1
    BY <1>1, <1>4, Hits
  <2>3. k = move_entry_to_level1(g, b, way)
    BY <1>2, <1>4
  <2>4. \A c \in Nat : \A x : Beside2(g, b, way, c, x) => Holds2(h, c, x)
    BY <1>1, <2>1, BesideTheHit
  <2> HIDE DEF g, way
  <2>5. L1Hit(g, b) = HIT_WAY_MISS
    BY <1>4, <2>1 DEF L1Hit
  <2>6. /\ k.mem = g.mem
        /\ \A c \in Nat : \A x : Holds1(k, c, x) =>
             Holds1(g, c, x) \/ (c = b /\ x = g.l2[L2Index(b)][way].line)
        /\ \A c \in Nat : \A x : Holds1(g, c, x) => Holds1(k, c, x) \/ Holds2(k, c, x)
        /\ \A c \in Nat : \A x : Holds2(k, c, x) =>
             \/ Beside2(g, b, way, c, x)
             \/ Holds1(g, c, x) /\ \A y : ~ Holds1(k, c, y)
    BY <1>1, <2>1, <2>2, <2>3, <2>5, MoveContents
  <2>7. \A c, x : Holds1(g, c, x) <=> Holds1(h, c, x)
    BY <2>1 DEF Holds1
  <2>8. VictimsKept(h, k)
    BY <2>6, <2>7, Zenon DEF VictimsKept
  <2>9. OnlyVictims(h, k)
    BY <2>4, <2>6, <2>7, Zenon DEF OnlyVictims
  <2>10. BroughtIn(h, k, b)
    BY <2>1, <2>6, <2>7, Zenon DEF BroughtIn
  <2>11. k.mem = mem
    BY <2>1, <2>6, Zenon DEF RewrittenL2
  <2> QED
    BY <2>8, <2>9, <2>10, <2>11 DEF Moves
<1>5. CASE L1Hit(h, b) = HIT_WAY_MISS /\ L2Hit(h, b) = HIT_WAY_MISS
  <2> DEFINE g == write_memory(h, b, line)
  <2>1. Kept(g) /\ g.mem[b] = line /\ g.l1 = h.l1 /\ g.l2 = h.l2
    BY <1>1, MemoryWritten
  <2>2. g.mem = mem
    BY <1>1, MemoryLine
  <2>3. k = insert_level1(g, b, line)
    BY <1>2, <1>5
  <2> HIDE DEF g, mem
  <2>4. L1Hit(g, b) = HIT_WAY_MISS
    BY <1>5, <2>1 DEF L1Hit
  <2>5. k.mem = g.mem
    BY <1>1, <2>1, <2>3, InsertLevel1Splits
  <2>6. /\ \A c \in Nat : \A x : Holds1(k, c, x) => Holds1(g, c, x) \/ (c = b /\ x = line)
        /\ \A c \in Nat : \A x : Holds1(g, c, x) => Holds1(k, c, x) \/ Holds2(k, c, x)
        /\ \A c \in Nat : \A x : Holds2(k, c, x) =>
             \/ Holds2(g, c, x)
             \/ Holds1(g, c, x) /\ \A y : ~ Holds1(k, c, y)
    BY <1>1, <2>1, <2>3, <2>4, InsertLevel1Contents
  <2>7. \A c, x : /\ Holds1(g, c, x) <=> Holds1(h, c, x)
                  /\ Holds2(g, c, x) <=> Holds2(h, c, x)
    BY <2>1 DEF Holds1, Holds2
  <2>8. VictimsKept(h, k)
    BY <2>6, <2>7, Zenon DEF VictimsKept
  <2>9. OnlyVictims(h, k)
    BY <2>6, <2>7, Zenon DEF OnlyVictims
  <2>10. BroughtIn(h, k, b)
    BY <2>1, <2>5, <2>6, <2>7, Zenon DEF BroughtIn
  <2> QED
    BY <2>2, <2>5, <2>8, <2>9, <2>10, Zenon DEF Moves
<1> QED
  BY <1>3, <1>4, <1>5

(* The store of a byte: after its read the block is in level 1.            *)
LEMMA WriteByteMoves ==
  ASSUME NEW h, Kept(h), NEW b \in Blocks,
         NEW w \in WordIndices, NEW word \in Word
  PROVE  Moves(h, cache_write(cache_read(h, b), b, w, word), b)
<1> DEFINE g    == cache_read(h, b)
           k    == cache_write(g, b, w, word)
           line == set_word(LineServed(g, b), w, word)
<1>1. /\ Kept(g) /\ Moves(h, g, b) /\ g.mem = h.mem
      /\ L1Hit(g, b) # HIT_WAY_MISS
  BY ReadKept, ReadMoves
<1> HIDE DEF g
<1>2. line \in Line
  BY <1>1, LineServedType DEF set_word, Line
<1>3. k = RewriteL1(g, b, line)
  BY <1>1 DEF cache_write
<1> HIDE DEF k, line
<1>4. RewrittenL1(g, k, b, line)
  BY <1>1, <1>2, <1>3, RewriteL1Kept
<1>5. /\ \A c \in Nat : \A x : Holds1(k, c, x) =>
           Holds1(g, c, x) \/ (c = b /\ x = k.mem[b])
      /\ \A c \in Nat : \A x : Holds1(g, c, x) => \E y : Holds1(k, c, y)
      /\ \A c \in Nat : \A x : Holds1(k, c, x) => \E y : Holds1(g, c, y)
      /\ \A c \in Nat : \A x : Holds2(k, c, x) <=> Holds2(g, c, x)
  BY <1>1, <1>4, RewriteL1Moves
<1>6. VictimsKept(h, g) /\ OnlyVictims(h, g) /\ BroughtIn(h, g, b)
  BY <1>1 DEF Moves
<1>7. VictimsKept(h, k)
  BY <1>5, <1>6, Zenon DEF VictimsKept
<1>8. OnlyVictims(h, k)
  BY <1>5, <1>6, Zenon DEF OnlyVictims
<1>9. BroughtIn(h, k, b)
  BY <1>1, <1>5, <1>6, Zenon DEF BroughtIn
<1> QED
  BY <1>7, <1>8, <1>9 DEF Moves, k, g

-----------------------------------------------------------------------------
(***************************************************************************)
(* The same of the variables.  A call goes through one level-1 cache, and  *)
(* leaves the other as it is.                                              *)
(***************************************************************************)
Calls(access, b) ==
  /\ Moves(Hierarchy(access), Hierarchy(access)', b)
  /\ \A other \in {INSTRUCTION, DATA} :
       other # access => l1_cache'[other] = l1_cache[other]

LEMMA CallMoves ==
  ASSUME AllKept, NEW access \in {INSTRUCTION, DATA}, NEW h, Kept(h),
         Becomes(access, h), NEW b, Moves(Hierarchy(access), h, b)
  PROVE  Calls(access, b)
<1>1. /\ l1_cache'[access] = h.l1 /\ mem_space' = h.mem /\ l2_cache' = h.l2
      /\ \A other \in {INSTRUCTION, DATA} :
           other # access => l1_cache'[other] = l1_cache[other]
  BY DEF AllKept, Becomes
<1>2. Hierarchy(access)' = h
  BY <1>1 DEF Hierarchy, Kept, HType
<1> QED
  BY <1>1, <1>2 DEF Calls

(* A step is a call, a flush, or leaves the hierarchy alone.               *)
LEMMA StepMoves ==
  ASSUME AllKept, [Next]_vars
  PROVE  \/ \E access \in {INSTRUCTION, DATA}, b \in Blocks : Calls(access, b)
         \/ \E type \in Flushes : CacheFlush(type)
         \/ UNCHANGED vars
<1>1. Accesses \subseteq {INSTRUCTION, DATA} /\ DATA \in {INSTRUCTION, DATA}
  BY ProgramAssumption
<1>2. \A access \in {INSTRUCTION, DATA} : Kept(Hierarchy(access))
  BY DEF AllKept
<1>3. ASSUME NEW access \in Accesses, NEW a \in Address,
             CacheRead(access, a) \/ CacheReadByte(access, a)
      PROVE  Calls(access, a.block)
  <2> DEFINE h == cache_read(Hierarchy(access), a.block)
  <2>1. a.block \in Blocks /\ access \in {INSTRUCTION, DATA}
    BY <1>1 DEF Address
  <2>2. Kept(h) /\ Moves(Hierarchy(access), h, a.block)
    BY <1>2, <2>1, ReadKept, ReadMoves
  <2>3. Becomes(access, h)
    BY <1>3 DEF CacheRead, CacheReadByte
  <2> HIDE DEF h
  <2> QED
    BY <2>1, <2>2, <2>3, CallMoves
<1>4. ASSUME NEW a \in StoreAddress, NEW word \in WriteWords, CacheWrite(a, word)
      PROVE  Calls(DATA, a.block)
  <2> DEFINE h == cache_write(Hierarchy(DATA), a.block, a.word, word)
  <2>1. a.block \in Blocks /\ a.word \in WordIndices /\ word \in Word
    BY ProgramAssumption DEF StoreAddress, Address
  <2>2. Kept(h) /\ Moves(Hierarchy(DATA), h, a.block)
    BY <1>1, <1>2, <2>1, WriteKept, WriteMoves
  <2>3. Becomes(DATA, h)
    BY <1>4 DEF CacheWrite
  <2> HIDE DEF h
  <2> QED
    BY <1>1, <2>2, <2>3, CallMoves
<1>5. ASSUME NEW a \in StoreAddress, NEW byte \in WriteBytes, CacheWriteByte(a, byte)
      PROVE  Calls(DATA, a.block)
  <2> DEFINE word == [WordRead(DATA, a) EXCEPT ![a.byte] = byte]
             g    == cache_read(Hierarchy(DATA), a.block)
             h    == cache_write(g, a.block, a.word, word)
  <2>1. /\ a.block \in Blocks /\ a.word \in WordIndices
        /\ a.byte \in ByteIndices /\ byte \in Byte
    BY ProgramAssumption DEF StoreAddress, Address
  <2>2. LineServed(Hierarchy(DATA), a.block) \in Line
    BY <1>1, <1>2, <2>1, LineServedType
  <2>3. word \in Word
    BY <2>1, <2>2 DEF WordRead, Line, Word
  <2>4. Becomes(DATA, h)
    BY <1>5 DEF CacheWriteByte
  <2> HIDE DEF word
  <2>5. Kept(g)
    BY <1>1, <1>2, <2>1, ReadKept
  <2>6. Moves(Hierarchy(DATA), h, a.block)
    BY <1>1, <1>2, <2>1, <2>3, WriteByteMoves
  <2>7. Kept(h)
    <3> HIDE DEF g
    <3> QED
      BY <2>1, <2>3, <2>5, WriteKept
  <2> HIDE DEF g, h
  <2> QED
    BY <1>1, <2>4, <2>6, <2>7, CallMoves
<1>6. ASSUME NEW a \in Address, Misaligned(a) PROVE UNCHANGED vars
  BY <1>6 DEF Misaligned
<1>7. \A a \in StoreAddress : a \in Address
  BY DEF StoreAddress
<1>8. \A a \in Address : a.block \in Blocks
  BY DEF Address
<1> QED
  BY <1>1, <1>3, <1>4, <1>5, <1>6, <1>7, <1>8 DEF Next

(* The copies of the properties are those that are held.                   *)
LEMMA CopiesInIndex ==
  ASSUME NEW WAYS, NEW L, NEW set \in SetType(WAYS, L), NEW tag, NEW b, NEW p
  PROVE  p \in CopiesIn(set, tag, b) <=>
           \E x : p = << b, x >> /\ Has(set, WAYS, tag, x)
<1>1. DOMAIN set = 0 .. WAYS - 1
  BY DEF SetType
<1>2. p \in CopiesIn(set, tag, b) <=>
        \E w \in 0 .. WAYS - 1 :
          set[w].v /\ set[w].tag = tag /\ p = << b, set[w].line >>
  BY <1>1 DEF CopiesIn
<1> QED
  BY <1>2, Zenon DEF Has

LEMMA CopiesHeld ==
  ASSUME NEW h, Kept(h), NEW p
  PROVE  /\ p \in UNION {CopiesIn(h.l1[L1Index(b)], L1Tag(b), b) : b \in Blocks} <=>
              \E b \in Blocks : \E x : p = << b, x >> /\ Holds1(h, b, x)
         /\ p \in UNION {CopiesIn(h.l2[L2Index(b)], L2Tag(b), b) : b \in Blocks} <=>
              \E b \in Blocks : \E x : p = << b, x >> /\ Holds2(h, b, x)
<1>1. ASSUME NEW b \in Blocks
      PROVE  /\ p \in CopiesIn(h.l1[L1Index(b)], L1Tag(b), b) <=>
                  \E x : p = << b, x >> /\ Holds1(h, b, x)
             /\ p \in CopiesIn(h.l2[L2Index(b)], L2Tag(b), b) <=>
                  \E x : p = << b, x >> /\ Holds2(h, b, x)
  <2>1. /\ h.l1[L1Index(b)] \in SetType(L1_WAYS, Line)
        /\ h.l2[L2Index(b)] \in SetType(L2_WAYS, Line)
    BY Positions, ProgramAssumption DEF Kept, HType, L1Set, L2Set
  <2> QED
    BY <2>1, CopiesInIndex DEF Holds1, Holds2
<1> QED
  BY <1>1, Zenon

LEMMA Copies ==
  ASSUME AllKept, AllKept', NEW access \in {INSTRUCTION, DATA}, NEW p
  PROVE  /\ p \in L1Copies(access) <=>
              \E b \in Blocks : \E x : p = << b, x >> /\ Holds1(Hierarchy(access), b, x)
         /\ p \in L2Copies <=>
              \E b \in Blocks : \E x : p = << b, x >> /\ Holds2(Hierarchy(access), b, x)
         /\ p \in L1Copies(access)' <=>
              \E b \in Blocks : \E x : p = << b, x >> /\ Holds1(Hierarchy(access)', b, x)
         /\ p \in L2Copies' <=>
              \E b \in Blocks : \E x : p = << b, x >> /\ Holds2(Hierarchy(access)', b, x)
<1> DEFINE h == Hierarchy(access)
           k == Hierarchy(access)'
           Of1(g) == UNION {CopiesIn(g.l1[L1Index(b)], L1Tag(b), b) : b \in Blocks}
           Of2(g) == UNION {CopiesIn(g.l2[L2Index(b)], L2Tag(b), b) : b \in Blocks}
<1>1. Kept(h) /\ Kept(k)
  BY DEF AllKept
<1>2. /\ h.l1 = l1_cache[access] /\ h.l2 = l2_cache
      /\ k.l1 = l1_cache'[access] /\ k.l2 = l2_cache'
  BY DEF Hierarchy
<1>3. /\ L1Copies(access) = Of1(h) /\ L2Copies = Of2(h)
      /\ L1Copies(access)' = Of1(k) /\ L2Copies' = Of2(k)
  <2> HIDE DEF h, k
  <2> QED
    BY <1>2, Zenon DEF L1Copies, L2Copies
<1>4. \A g : Kept(g) =>
        /\ p \in Of1(g) <=> \E b \in Blocks : \E x : p = << b, x >> /\ Holds1(g, b, x)
        /\ p \in Of2(g) <=> \E b \in Blocks : \E x : p = << b, x >> /\ Holds2(g, b, x)
  BY CopiesHeld
<1> HIDE DEF h, k, Of1, Of2
<1> QED
  BY <1>1, <1>3, <1>4, Zenon DEF h, k

LEMMA VictimsStep ==
  ASSUME AllKept, AllKept', [Next]_vars,
         NEW access \in {INSTRUCTION, DATA}, ~ CacheFlush(access),
         NEW c \in L1Copies(access)
  PROVE  c[1] \in BlocksOf(L1Copies(access)') \/ c \in L2Copies'
<1>1. ASSUME l1_cache'[access] = l1_cache[access]
      PROVE  c[1] \in BlocksOf(L1Copies(access)')
  <2>1. L1Copies(access)' = L1Copies(access)
    BY <1>1, Zenon DEF L1Copies
  <2> QED
    BY <2>1 DEF BlocksOf
<1>2. ASSUME NEW b \in Blocks, Calls(access, b)
      PROVE  c[1] \in BlocksOf(L1Copies(access)') \/ c \in L2Copies'
  <2>1. PICK d, x : d \in Blocks /\ c = << d, x >> /\ Holds1(Hierarchy(access), d, x)
    BY Copies
  <2>2. d \in Nat
    BY <2>1, ProgramAssumption
  <2>3. (\E y : Holds1(Hierarchy(access)', d, y)) \/ Holds2(Hierarchy(access)', d, x)
    BY <1>2, <2>1, <2>2, Zenon DEF Calls, Moves, VictimsKept
  <2>4. CASE Holds2(Hierarchy(access)', d, x)
    BY <2>1, <2>4, Copies, Zenon
  <2>5. ASSUME NEW y, Holds1(Hierarchy(access)', d, y)
        PROVE  c[1] \in BlocksOf(L1Copies(access)')
    <3>1. << d, y >> \in L1Copies(access)'
      BY <2>1, <2>5, Copies, Zenon
    <3>2. c[1] = << d, y >>[1]
      BY <2>1
    <3> QED
      BY <3>1, <3>2, Zenon DEF BlocksOf
  <2> QED
    BY <2>3, <2>4, <2>5
<1>3. ASSUME NEW type, CacheFlush(type) PROVE l1_cache'[access] = l1_cache[access]
  BY <1>3 DEF CacheFlush, AllKept
<1>4. CASE UNCHANGED vars
  BY <1>1, <1>4 DEF vars
<1> QED
  BY <1>1, <1>2, <1>3, <1>4, StepMoves DEF Calls

LEMMA OnlyVictimsStep ==
  ASSUME AllKept, AllKept', [Next]_vars, NEW c \in L2Copies' \ L2Copies
  PROVE  \E access \in {INSTRUCTION, DATA} :
           c \in L1Copies(access) \ L1Copies(access)'
<1>1. l2_cache' # l2_cache
  <2> SUFFICES ASSUME l2_cache' = l2_cache PROVE FALSE
    OBVIOUS
  <2> QED
    BY Zenon DEF L2Copies
<1>2. ASSUME NEW access \in {INSTRUCTION, DATA}, NEW b \in Blocks, Calls(access, b)
      PROVE  c \in L1Copies(access) \ L1Copies(access)'
  <2>1. PICK d, x : d \in Blocks /\ c = << d, x >> /\ Holds2(Hierarchy(access)', d, x)
    BY Copies
  <2>2. d \in Nat
    BY <2>1, ProgramAssumption
  <2>3. ~ Holds2(Hierarchy(access), d, x)
    BY <2>1, Copies, Zenon
  <2>4. Holds1(Hierarchy(access), d, x) /\ \A y : ~ Holds1(Hierarchy(access)', d, y)
    BY <1>2, <2>1, <2>2, <2>3, Zenon DEF Calls, Moves, OnlyVictims
  <2>5. c \in L1Copies(access)
    BY <2>1, <2>4, Copies, Zenon
  <2>6. c \notin L1Copies(access)'
    <3> SUFFICES ASSUME c \in L1Copies(access)' PROVE FALSE
      OBVIOUS
    <3>1. PICK e, y : e \in Blocks /\ c = << e, y >> /\ Holds1(Hierarchy(access)', e, y)
      BY Copies
    <3>2. e = d
      BY <2>1, <3>1
    <3> QED
      BY <2>4, <3>1, <3>2
  <2> QED
    BY <2>5, <2>6
<1>3. ASSUME NEW type, CacheFlush(type) PROVE FALSE
  <2>1. l2_cache' = EmptyL2
    BY <1>1, <1>3 DEF CacheFlush
  <2>2. PICK d, x : d \in Blocks /\ Holds2(Hierarchy(DATA)', d, x)
    BY Copies
  <2>3. Has(EmptyL2[L2Index(d)], L2_WAYS, L2Tag(d), x)
    BY <2>1, <2>2 DEF Holds2, Hierarchy
  <2>4. EmptyL2[L2Index(d)] = [w \in 0 .. L2_WAYS - 1 |-> EmptyEntry]
    BY <2>2, Positions, ProgramAssumption DEF EmptyL2, L2Ways
  <2>5. PICK w \in 0 .. L2_WAYS - 1 : EmptyL2[L2Index(d)][w].v
    BY <2>3, Zenon DEF Has
  <2> QED
    BY <2>4, <2>5 DEF EmptyEntry
<1> QED
  BY <1>1, <1>2, <1>3, StepMoves DEF vars

(* "If this causes a block to be evicted from L1, the evicted block is     *)
(* then placed into L2" (cache.h), for every geometry and every program:   *)
(* with its data, at the index and under the tag of its own address.       *)
THEOREM VictimsAreKept == Spec => VictimsGoToL2
<1> DEFINE Step == \A access \in {INSTRUCTION, DATA} :
                     CacheFlush(access) \/
                       \A c \in L1Copies(access) :
                         c[1] \in BlocksOf(L1Copies(access)') \/ c \in L2Copies'
<1>1. AllKept /\ AllKept' /\ [Next]_vars => Step
  BY VictimsStep
<1>2. Spec => []AllKept
  BY InitKept, NextKept, PTL DEF Spec
<1> QED
  BY <1>1, <1>2, PTL DEF VictimsGoToL2, Spec

(* "This is the only way L2 gets populated" (cache.h): whatever appears in *)
(* level 2 was in level 1, with the same data, and has left it.            *)
THEOREM OnlyVictimsEnter == Spec => OnlyVictimsEnterL2
<1> DEFINE Step == \A c \in L2Copies' \ L2Copies :
                     \E access \in {INSTRUCTION, DATA} :
                       c \in L1Copies(access) \ L1Copies(access)'
<1>1. AllKept /\ AllKept' /\ [Next]_vars => Step
  BY OnlyVictimsStep
<1>2. Spec => []AllKept
  BY InitKept, NextKept, PTL DEF Spec
<1> QED
  BY <1>1, <1>2, PTL DEF OnlyVictimsEnterL2, Spec

-----------------------------------------------------------------------------
(***************************************************************************)
(* Where the data come from: every copy of a block, wherever it is, is a   *)
(* line that the memory has held for the block.  The memory has to be part *)
(* of the invariant, since it is what the next line is taken from.         *)
(***************************************************************************)
GenuineIn(h) ==
  \A c \in Nat : \A x : Holds1(h, c, x) \/ Holds2(h, c, x) => c \in Blocks /\ x \in held[c]

AllGenuine ==
  /\ AllKept
  /\ \A b \in Blocks : mem_space[b] \in held[b]
  /\ \A access \in {INSTRUCTION, DATA} : GenuineIn(Hierarchy(access))

(* A flushed cache holds nothing.                                          *)
LEMMA NothingHeld ==
  ASSUME NEW h, NEW c \in Nat, NEW x
  PROVE  /\ h.l1 = EmptyL1 => ~ Holds1(h, c, x)
         /\ h.l2 = EmptyL2 => ~ Holds2(h, c, x)
<1>1. /\ EmptyL1[L1Index(c)] = [w \in 0 .. L1_WAYS - 1 |-> EmptyEntry]
      /\ EmptyL2[L2Index(c)] = [w \in 0 .. L2_WAYS - 1 |-> EmptyEntry]
  BY Positions DEF EmptyL1, EmptyL2, L1Ways, L2Ways
<1>2. ~ EmptyEntry.v
  BY DEF EmptyEntry
<1>3. \A n, t : ~ Has([w \in 0 .. n - 1 |-> EmptyEntry], n, t, x)
  BY <1>2 DEF Has
<1> QED
  BY <1>1, <1>3, Zenon DEF Holds1, Holds2

LEMMA InitGenuine == HistoryInit => AllGenuine
<1> SUFFICES ASSUME HistoryInit PROVE AllGenuine
  OBVIOUS
<1>1. AllKept
  BY InitKept DEF HistoryInit
<1>2. \A b \in Blocks : mem_space[b] \in held[b]
  BY DEF HistoryInit
<1>3. ASSUME NEW access \in {INSTRUCTION, DATA} PROVE GenuineIn(Hierarchy(access))
  <2>1. Hierarchy(access).l1 = EmptyL1 /\ Hierarchy(access).l2 = EmptyL2
    BY DEF HistoryInit, Init, Hierarchy
  <2> QED
    BY <2>1, NothingHeld, Zenon DEF GenuineIn
<1> QED
  BY <1>1, <1>2, <1>3 DEF AllGenuine

LEMMA CallGenuine ==
  ASSUME AllGenuine, AllKept', NEW access \in {INSTRUCTION, DATA}, NEW b \in Blocks,
         Calls(access, b),
         \A c \in Blocks : held[c] \subseteq held'[c] /\ mem_space'[c] \in held'[c]
  PROVE  AllGenuine'
<1> DEFINE h == Hierarchy(access)
           k == Hierarchy(access)'
<1>1. /\ h.mem = mem_space /\ k.mem = mem_space'
      /\ h.l2 = l2_cache /\ k.l2 = l2_cache'
  BY DEF Hierarchy
<1>2. VictimsKept(h, k) /\ OnlyVictims(h, k) /\ BroughtIn(h, k, b)
  BY DEF Calls, Moves
<1>3. GenuineIn(h)
  BY DEF AllGenuine
<1>4. h.mem[b] \in held[b]
  BY <1>1 DEF AllGenuine
<1> HIDE DEF h, k
<1>5. ASSUME NEW c \in Nat, NEW x, Holds1(k, c, x) \/ Holds2(k, c, x)
      PROVE  c \in Blocks /\ x \in held'[c]
  <2>1. CASE Holds1(h, c, x) \/ Holds2(h, c, x)
    BY <1>3, <2>1 DEF GenuineIn
  <2>2. CASE c = b /\ Holds2(h, b, x)
    BY <1>3, <2>2 DEF GenuineIn
  <2>3. CASE c = b /\ (x = h.mem[b] \/ x = k.mem[b])
    BY <1>1, <1>4, <2>3
  <2> QED
    BY <1>2, <1>5, <2>1, <2>2, <2>3 DEF OnlyVictims, BroughtIn
<1>6. ASSUME NEW other \in {INSTRUCTION, DATA} PROVE GenuineIn(Hierarchy(other))'
  <2>1. CASE other = access
    BY <1>5, <2>1 DEF GenuineIn, k
  <2>2. CASE other # access
    <3> DEFINE g == Hierarchy(other)
               n == Hierarchy(other)'
    <3>1. g.l1 = n.l1 /\ n.l2 = k.l2
      BY <1>1, <2>2 DEF Calls, Hierarchy
    <3>2. GenuineIn(g)
      BY DEF AllGenuine
    <3> HIDE DEF g, n
    <3>3. ASSUME NEW c \in Nat, NEW x, Holds1(n, c, x) \/ Holds2(n, c, x)
          PROVE  c \in Blocks /\ x \in held'[c]
      <4>1. Holds1(g, c, x) \/ Holds2(k, c, x)
        BY <3>1, <3>3, Zenon DEF Holds1, Holds2
      <4> QED
        BY <1>5, <3>2, <4>1 DEF GenuineIn
    <3> QED
      BY <3>3 DEF GenuineIn, n
  <2> QED
    BY <2>1, <2>2
<1> QED
  BY <1>6 DEF AllGenuine

LEMMA NextGenuine == AllGenuine /\ [HistoryNext]_hvars => AllGenuine'
<1> SUFFICES ASSUME AllGenuine, [HistoryNext]_hvars PROVE AllGenuine'
  OBVIOUS
<1>1. [Next]_vars /\ AllKept
  BY DEF HistoryNext, hvars, AllGenuine
<1>2. AllKept'
  BY <1>1, NextKept
<1>3. CASE HistoryNext
  <2>1. \A c \in Blocks : held[c] \subseteq held'[c] /\ mem_space'[c] \in held'[c]
    BY <1>3 DEF HistoryNext
  <2>2. ASSUME NEW access \in {INSTRUCTION, DATA}, NEW b \in Blocks, Calls(access, b)
        PROVE  AllGenuine'
    BY <1>2, <2>1, <2>2, CallGenuine
  <2>3. ASSUME UNCHANGED vars \/ \E type \in Flushes : CacheFlush(type)
        PROVE  AllGenuine'
    <3>1. ASSUME NEW access \in {INSTRUCTION, DATA} PROVE GenuineIn(Hierarchy(access))'
      <4> DEFINE h == Hierarchy(access)
                 k == Hierarchy(access)'
      <4>1. /\ k.l1 = h.l1 \/ k.l1 = EmptyL1
            /\ k.l2 = h.l2 \/ k.l2 = EmptyL2
        BY <2>3 DEF vars, CacheFlush, Hierarchy, AllGenuine, AllKept
      <4>2. GenuineIn(h)
        BY DEF AllGenuine
      <4> HIDE DEF h, k
      <4>3. ASSUME NEW c \in Nat, NEW x, Holds1(k, c, x) \/ Holds2(k, c, x)
            PROVE  c \in Blocks /\ x \in held'[c]
        <5>1. Holds1(h, c, x) \/ Holds2(h, c, x)
          BY <4>1, <4>3, NothingHeld, Zenon DEF Holds1, Holds2
        <5> QED
          BY <2>1, <4>2, <5>1 DEF GenuineIn
      <4> QED
        BY <4>3 DEF GenuineIn, k
    <3> QED
      BY <1>2, <2>1, <3>1 DEF AllGenuine
  <2> QED
    BY <1>1, <2>2, <2>3, StepMoves
<1>4. CASE UNCHANGED hvars
  <2>1. held' = held /\ mem_space' = mem_space
    BY <1>4 DEF hvars, vars
  <2>2. \A access : Hierarchy(access)' = Hierarchy(access)
    BY <1>4 DEF hvars, vars, Hierarchy
  <2> QED
    BY <1>2, <2>1, <2>2, Zenon DEF AllGenuine, GenuineIn
<1> QED
  BY <1>3, <1>4

(* For every geometry and every program, whatever a cache holds for a      *)
(* block is a line that the memory has held for that very block: however   *)
(* it travelled between the levels, it was never invented, torn, or filed  *)
(* under a wrong address.                                                  *)
THEOREM CopiesGenuine == HistorySpec => []CopiesAreGenuine
<1>1. HistorySpec => []AllGenuine
  BY InitGenuine, NextGenuine, PTL DEF HistorySpec
<1>2. AllGenuine => CopiesAreGenuine
  <2> SUFFICES ASSUME AllGenuine PROVE CopiesAreGenuine
    OBVIOUS
  <2>1. ASSUME NEW access \in {INSTRUCTION, DATA}, NEW i \in L1Indices, NEW w \in L1Ways
        PROVE  IsGenuine(l1_cache[access][i][w], l1_cache[access][i][w].tag * L1_LINES + i)
    <3> DEFINE h   == Hierarchy(access)
               set == h.l1[i]
               e   == set[w]
               b   == recomputeOldPhyAddr(e.tag, i)
    <3> SUFFICES ASSUME e.v PROVE b \in Blocks /\ e.line \in held[b]
      BY DEF IsGenuine, Hierarchy, recomputeOldPhyAddr
    <3>1. set \in SetType(L1_WAYS, Line) /\ L1_WAYS \in Nat \ {0} /\ w \in 0 .. L1_WAYS - 1
      BY GeometryAssumption DEF AllGenuine, AllKept, Kept, HType, L1Set, L1Ways
    <3> HIDE DEF h
    <3>2. e.tag \in Nat
      <4> HIDE DEF set
      <4> QED
        BY <3>1, Fields
    <3>3. b \in Nat /\ L1Index(b) = i /\ L1Tag(b) = e.tag
      BY <3>2, BlockRecomputed
    <3>4. Holds1(h, b, e.line)
      <4> HIDE DEF b
      <4> QED
        BY <3>1, <3>3, Zenon DEF Holds1, Has
    <3> HIDE DEF b, e
    <3> QED
      BY <3>3, <3>4 DEF AllGenuine, GenuineIn, h
  <2>2. ASSUME NEW i \in L2Indices, NEW w \in L2Ways
        PROVE  IsGenuine(l2_cache[i][w], l2_cache[i][w].tag * L2_LINES + i)
    <3> DEFINE h   == Hierarchy(DATA)
               set == h.l2[i]
               e   == set[w]
               b   == BlockOfL2(e.tag, i)
    <3> SUFFICES ASSUME e.v PROVE b \in Blocks /\ e.line \in held[b]
      BY DEF IsGenuine, Hierarchy, BlockOfL2
    <3>1. set \in SetType(L2_WAYS, Line) /\ L2_WAYS \in Nat \ {0} /\ w \in 0 .. L2_WAYS - 1
      BY GeometryAssumption DEF AllGenuine, AllKept, Kept, HType, L2Set, L2Ways
    <3> HIDE DEF h
    <3>2. e.tag \in Nat
      <4> HIDE DEF set
      <4> QED
        BY <3>1, Fields
    <3>3. b \in Nat /\ L2Index(b) = i /\ L2Tag(b) = e.tag
      BY <3>2, BlockOfL2Recomputed
    <3>4. Holds2(h, b, e.line)
      <4> HIDE DEF b
      <4> QED
        BY <3>1, <3>3, Zenon DEF Holds2, Has
    <3> HIDE DEF b, e
    <3> QED
      BY <3>3, <3>4 DEF AllGenuine, GenuineIn, h
  <2> QED
    BY <2>1, <2>2 DEF CopiesAreGenuine
<1> QED
  BY <1>1, <1>2, PTL

-----------------------------------------------------------------------------
(***************************************************************************)
(* For every geometry: an aligned program cannot tell the hierarchy from a *)
(* flat memory, and never has a block in both levels.                      *)
(*                                                                         *)
(* What keeps the promise is the order of the ways of level 2.  A scan     *)
(* stops at the first invalid way, and an entry that moves up leaves one.  *)
(* But an aligned program has the block in level 2 only while its level-1  *)
(* index is full, so that a victim comes down; and the victim's index in   *)
(* level 2 is that of the block, so that it takes the very way left.       *)
(***************************************************************************)

(***************************************************************************)
(* One index of level 2.                                                   *)
(***************************************************************************)
(* No way is valid after an invalid one, and no tag is there twice; the    *)
(* same of all ways but one, which is invalid.                             *)
Ordered(set, WAYS) ==
  \A w, x \in 0 .. WAYS - 1 :
    w < x /\ set[x].v => set[w].v /\ set[w].tag # set[x].tag

OrderedBut(set, WAYS, p) ==
  /\ ~ set[p].v
  /\ \A w, x \in 0 .. WAYS - 1 :
       w < x /\ set[x].v /\ w # p => set[w].v /\ set[w].tag # set[x].tag

LEMMA OrderedInsert ==
  ASSUME NEW WAYS \in Nat \ {0}, NEW L, NEW set \in SetType(WAYS, L),
         NEW tag \in Nat, NEW line \in L, Absent(set, WAYS, tag),
         Ordered(set, WAYS) \/ \E p \in 0 .. WAYS - 1 : OrderedBut(set, WAYS, p)
  PROVE  Ordered(insert(set, WAYS, tag, line), WAYS)
<1> DEFINE new == insert(set, WAYS, tag, line)
           way == PlaceWay(set)
<1>1. /\ way \in 0 .. WAYS - 1 /\ new[way].v /\ new[way].tag = tag
      /\ \A w \in 0 .. WAYS - 1 : w # way =>
           new[w].v = set[w].v /\ new[w].tag = set[w].tag
      /\ \A w \in 0 .. WAYS - 1 : w < way => set[w].v
      /\ ~ set[way].v \/ \A w \in 0 .. WAYS - 1 : set[w].v
  <2>1. IF isFull(set)
        THEN way = evict(set) /\ \A w \in 0 .. WAYS - 1 : set[w].v
        ELSE ~ set[way].v /\ \A w \in 0 .. WAYS - 1 : w < way => set[w].v
    BY InsertedEntries
  <2> QED
    BY <2>1, InsertedEntries
<1> HIDE DEF new, way
<1>2. \A w, x \in 0 .. WAYS - 1 :
        w < x /\ set[x].v /\ w # way => set[w].v /\ set[w].tag # set[x].tag
  <2>1. CASE Ordered(set, WAYS)
    BY <2>1 DEF Ordered
  <2>2. ASSUME NEW p \in 0 .. WAYS - 1, OrderedBut(set, WAYS, p)
        PROVE  \A w, x \in 0 .. WAYS - 1 :
                 w < x /\ set[x].v /\ w # way => set[w].v /\ set[w].tag # set[x].tag
    <3>1. ~ set[way].v /\ way <= p
      BY <1>1, <2>2 DEF OrderedBut
    <3>2. ASSUME NEW x \in 0 .. WAYS - 1, set[x].v, p < x PROVE p = way
      <4>1. way < x
        BY <1>1, <3>1, <3>2
      <4> QED
        BY <1>1, <2>2, <3>1, <3>2, <4>1 DEF OrderedBut
    <3> QED
      BY <2>2, <3>2 DEF OrderedBut
  <2> QED
    BY <2>1, <2>2
<1> SUFFICES ASSUME NEW w \in 0 .. WAYS - 1, NEW x \in 0 .. WAYS - 1,
                    w < x, new[x].v
             PROVE  new[w].v /\ new[w].tag # new[x].tag
  BY DEF Ordered, new
<1>3. CASE x = way
  <2>1. set[w].v /\ w # way
    BY <1>1, <1>3
  <2>2. new[w].v = set[w].v /\ new[w].tag = set[w].tag /\ set[w].tag # tag
    BY <1>1, <2>1 DEF Absent
  <2> QED
    BY <1>1, <1>3, <2>1, <2>2, Zenon
<1>4. CASE x # way /\ w = way
  <2>1. set[x].v
    BY <1>1, <1>4, Zenon
  <2>2. new[x].tag = set[x].tag /\ set[x].tag # tag
    BY <1>1, <1>4, <2>1 DEF Absent
  <2> QED
    BY <1>1, <1>4, <2>2, Zenon
<1>5. CASE x # way /\ w # way
  <2>1. /\ new[x].v = set[x].v /\ new[x].tag = set[x].tag
        /\ new[w].v = set[w].v /\ new[w].tag = set[w].tag
    BY <1>1, <1>5
  <2> QED
    BY <1>2, <1>5, <2>1, Zenon
<1> QED
  BY <1>3, <1>4, <1>5

(* A full index stays full, however its entries and ages change.           *)
LEMMA FullIsAllValid ==
  ASSUME NEW WAYS \in Nat \ {0}, NEW L, NEW set \in SetType(WAYS, L)
  PROVE  isFull(set) <=> \A w \in 0 .. WAYS - 1 : set[w].v
  BY EmptySlot

LEMMA FullInsert ==
  ASSUME NEW WAYS \in Nat \ {0}, NEW L, NEW set \in SetType(WAYS, L),
         NEW tag \in Nat, NEW line \in L, isFull(set)
  PROVE  isFull(insert(set, WAYS, tag, line))
<1> DEFINE new == insert(set, WAYS, tag, line)
<1>1. \A w \in 0 .. WAYS - 1 : set[w].v
  BY FullIsAllValid
<1>2. new[PlaceWay(set)].v /\ \A w \in 0 .. WAYS - 1 : w # PlaceWay(set) => new[w].v = set[w].v
  BY InsertedEntries
<1>3. new \in SetType(WAYS, L)
  BY InsertType
<1> HIDE DEF new
<1>4. \A w \in 0 .. WAYS - 1 : new[w].v
  BY <1>1, <1>2, Zenon
<1> QED
  BY <1>3, <1>4, FullIsAllValid DEF new

LEMMA FullSame ==
  ASSUME NEW WAYS \in Nat \ {0}, NEW L, NEW old \in SetType(WAYS, L),
         NEW new \in SetType(WAYS, L), isFull(old),
         SameButAges(old, new, WAYS) \/ \E way : Rewritten(old, new, WAYS, way)
  PROVE  isFull(new)
<1>1. \A w \in 0 .. WAYS - 1 : old[w].v
  BY FullIsAllValid
<1>2. \A w \in 0 .. WAYS - 1 : new[w].v
  BY <1>1, Zenon DEF SameButAges, Rewritten
<1> QED
  BY <1>2, FullIsAllValid

LEMMA OrderedSame ==
  ASSUME NEW WAYS \in Nat \ {0}, NEW old, NEW new, Ordered(old, WAYS),
         SameButAges(old, new, WAYS) \/ \E way : Rewritten(old, new, WAYS, way)
  PROVE  Ordered(new, WAYS)
<1>1. \A w \in 0 .. WAYS - 1 : new[w].v = old[w].v /\ new[w].tag = old[w].tag
  BY Zenon DEF SameButAges, Rewritten
<1> QED
  BY <1>1 DEF Ordered

(* The entry that leaves an ordered index takes its tag along.             *)
LEMMA OrderedVacated ==
  ASSUME NEW WAYS \in Nat \ {0}, NEW L, NEW set \in SetType(WAYS, L),
         Ordered(set, WAYS), NEW way \in 0 .. WAYS - 1, set[way].v
  PROVE  LET new == [set EXCEPT ![way] = Invalidated(@)]
         IN  OrderedBut(new, WAYS, way) /\ Absent(new, WAYS, set[way].tag)
<1> DEFINE new == [set EXCEPT ![way] = Invalidated(@)]
<1>1. DOMAIN set = 0 .. WAYS - 1 /\ ~ Invalidated(set[way]).v
  BY DEF SetType, Invalidated, EmptyEntry
<1>2. ~ new[way].v /\ \A w \in 0 .. WAYS - 1 : w # way => new[w] = set[w]
  BY <1>1
<1> HIDE DEF new
<1>3. OrderedBut(new, WAYS, way)
  <2> SUFFICES ASSUME NEW w \in 0 .. WAYS - 1, NEW x \in 0 .. WAYS - 1,
                      w < x, new[x].v, w # way
               PROVE  new[w].v /\ new[w].tag # new[x].tag
    BY <1>2 DEF OrderedBut
  <2>1. new[x] = set[x] /\ new[w] = set[w]
    BY <1>2
  <2> QED
    BY <2>1, Zenon DEF Ordered
<1>4. ASSUME NEW w \in 0 .. WAYS - 1, new[w].v PROVE new[w].tag # set[way].tag
  <2>1. w # way /\ new[w] = set[w]
    BY <1>2, <1>4
  <2>2. w < way \/ way < w
    BY <2>1
  <2> QED
    BY <1>4, <2>1, <2>2, Zenon DEF Ordered
<1> QED
  BY <1>3, <1>4 DEF Absent, new

-----------------------------------------------------------------------------
(***************************************************************************)
(* The hierarchy of an aligned program: its copies are those of the memory,*)
(* no block is in both levels, the level-1 index of a block in level 2 is  *)
(* full, and the indexes of level 2 are in order.                          *)
(***************************************************************************)
Coherent(h) ==
  \A c \in Nat : \A x : Holds1(h, c, x) \/ Holds2(h, c, x) => c \in Blocks /\ x = h.mem[c]

Disjoint(h) == \A c \in Nat : \A x, y : ~ (Holds1(h, c, x) /\ Holds2(h, c, y))

FullAbove(h) == \A c \in Nat : \A x : Holds2(h, c, x) => isFull(h.l1[L1Index(c)])

Level2Ordered(h) == \A i \in L2Indices : Ordered(h.l2[i], L2_WAYS)

Flat(h) == Kept(h) /\ Coherent(h) /\ Disjoint(h) /\ FullAbove(h) /\ Level2Ordered(h)

(* A block from the memory, or one that has left an entry of level 2 free, *)
(* goes to level 1.                                                        *)
LEMMA InsertFlat ==
  ASSUME AlignedProgram, NEW h, Kept(h), Coherent(h), Disjoint(h), FullAbove(h),
         NEW b \in Blocks, L1Hit(h, b) = HIT_WAY_MISS, \A x : ~ Holds2(h, b, x),
         \A i \in L2Indices : i # L2Index(b) => Ordered(h.l2[i], L2_WAYS),
         \/ Ordered(h.l2[L2Index(b)], L2_WAYS)
         \/ /\ isFull(h.l1[L1Index(b)])
            /\ \E p \in 0 .. L2_WAYS - 1 : OrderedBut(h.l2[L2Index(b)], L2_WAYS, p)
  PROVE  Flat(insert_level1(h, b, h.mem[b]))
<1> DEFINE index  == L1Index(b)
           set    == h.l1[index]
           victim == set[evict(set)]
           old    == recomputeOldPhyAddr(victim.tag, index)
           line   == h.mem[b]
           k      == insert_level1(h, b, line)
<1>1. /\ b \in Nat /\ line \in Line
      /\ index \in L1Indices /\ L1Tag(b) \in Nat /\ L1_WAYS \in Nat \ {0}
      /\ set \in SetType(L1_WAYS, Line) /\ L2_WAYS \in Nat \ {0}
      /\ h.l2 \in [L2Indices -> L2Set]
  BY Positions, GeometryAssumption, ProgramAssumption DEF Kept, HType, L1Set
<1>2. /\ k.mem = h.mem
      /\ k.l1[index] = insert(set, L1_WAYS, L1Tag(b), line)
      /\ \A i \in L1Indices : i # index => k.l1[i] = h.l1[i]
      /\ k.l2 = IF isFull(set) THEN insert_level2(h.l2, old, victim.line) ELSE h.l2
  BY <1>1, InsertLevel1Splits
<1>3. /\ Holds1(k, b, line)
      /\ \A c \in Nat : \A x : Holds1(k, c, x) => Holds1(h, c, x) \/ (c = b /\ x = line)
      /\ \A c \in Nat : \A x : Holds1(h, c, x) => Holds1(k, c, x) \/ Holds2(k, c, x)
      /\ \A c \in Nat : \A x : Holds2(k, c, x) =>
           \/ Holds2(h, c, x)
           \/ Holds1(h, c, x) /\ \A y : ~ Holds1(k, c, y)
  BY <1>1, InsertLevel1Contents
<1>4. Kept(k)
  BY <1>1, InsertLevel1
<1>5. ASSUME isFull(set)
      PROVE  /\ victim.tag \in Nat /\ victim.line \in Line
             /\ old \in Nat /\ L1Index(old) = index /\ L1Tag(old) = victim.tag
             /\ Holds1(h, old, victim.line)
  <2> HIDE DEF set, index
  <2>1. evict(set) \in 0 .. L1_WAYS - 1 /\ victim.v
    BY <1>1, <1>5, Evict
  <2>2. victim.tag \in Nat /\ victim.line \in Line
    BY <1>1, <2>1, Fields
  <2>3. Has(set, L1_WAYS, victim.tag, victim.line)
    BY <2>1, Zenon DEF Has
  <2> HIDE DEF victim
  <2>4. old \in Nat /\ L1Index(old) = index /\ L1Tag(old) = victim.tag
    BY <1>1, <2>2, BlockRecomputed
  <2> HIDE DEF old
  <2>5. Holds1(h, old, victim.line)
    BY <2>3, <2>4, Zenon DEF Holds1, set
  <2> QED
    BY <2>2, <2>4, <2>5
<1> HIDE DEF k, set, index, victim, old, line
<1>6. Coherent(k)
  <2> SUFFICES ASSUME NEW c \in Nat, NEW x, Holds1(k, c, x) \/ Holds2(k, c, x)
               PROVE  c \in Blocks /\ x = h.mem[c]
    BY <1>2 DEF Coherent
  <2>1. CASE Holds1(h, c, x) \/ Holds2(h, c, x)
    BY <2>1 DEF Coherent
  <2>2. CASE c = b /\ x = line
    BY <2>2 DEF line
  <2> QED
    BY <1>3, <2>1, <2>2
<1>7. Disjoint(k)
  <2> SUFFICES ASSUME NEW c \in Nat, NEW x, NEW y, Holds1(k, c, x), Holds2(k, c, y)
               PROVE  FALSE
    BY DEF Disjoint
  <2>1. Holds2(h, c, y)
    BY <1>3
  <2>2. Holds1(h, c, x) \/ c = b
    BY <1>3
  <2> QED
    BY <2>1, <2>2 DEF Disjoint
<1>8. FullAbove(k)
  <2>1. ASSUME NEW i \in L1Indices, isFull(h.l1[i]) PROVE isFull(k.l1[i])
    <3>1. CASE i = index
      <4>1. isFull(insert(set, L1_WAYS, L1Tag(b), line))
        BY <1>1, <2>1, <3>1, FullInsert DEF set
      <4> QED
        BY <1>2, <3>1, <4>1
    <3>2. CASE i # index
      BY <1>2, <2>1, <3>2
    <3> QED
      BY <3>1, <3>2
  <2> SUFFICES ASSUME NEW c \in Nat, NEW x, Holds2(k, c, x)
               PROVE  isFull(h.l1[L1Index(c)])
    BY <2>1, Positions DEF FullAbove
  <2>2. CASE Holds2(h, c, x)
    BY <2>2 DEF FullAbove
  <2>3. CASE ~ Holds2(h, c, x)
    <3>1. Holds1(h, c, x) /\ ~ Holds1(k, c, x)
      BY <1>3, <2>3
    <3>2. L1Index(c) = index
      BY <1>2, <3>1, Positions DEF Holds1
    <3>3. k.l2 # h.l2
      BY <2>3 DEF Holds2
    <3>4. isFull(set)
      BY <1>2, <3>3
    <3> QED
      BY <3>2, <3>4 DEF set
  <2> QED
    BY <2>2, <2>3
<1>9. Level2Ordered(k)
  <2>1. CASE ~ isFull(set)
    <3>1. k.l2 = h.l2 /\ Ordered(h.l2[L2Index(b)], L2_WAYS)
      BY <1>2, <2>1 DEF set, index
    <3> QED
      BY <3>1 DEF Level2Ordered
  <2>2. CASE isFull(set)
    <3> DEFINE below == h.l2[L2Index(b)]
    <3>1. /\ old \in Nat /\ Holds1(h, old, victim.line) /\ L1Index(old) = L1Index(b)
          /\ victim.line \in Line
      BY <1>5, <2>2 DEF index
    <3>2. L2Index(old) = L2Index(b)
      <4>1. old \in Blocks
        BY <3>1 DEF Coherent
      <4> QED
        BY <3>1, <4>1 DEF AlignedProgram
    <3>3. below \in SetType(L2_WAYS, Line) /\ L2Tag(old) \in Nat
      BY <1>1, <3>1, Positions DEF L2Set
    <3>4. Absent(below, L2_WAYS, L2Tag(old))
      <4>1. \A x : ~ Holds2(h, old, x)
        BY <3>1 DEF Disjoint
      <4> QED
        BY <3>2, <4>1 DEF Holds2, Has, Absent
    <3>5. Ordered(insert(below, L2_WAYS, L2Tag(old), victim.line), L2_WAYS)
      <4>1. Ordered(below, L2_WAYS) \/
              \E p \in 0 .. L2_WAYS - 1 : OrderedBut(below, L2_WAYS, p)
        OBVIOUS
      <4> HIDE DEF below
      <4> QED
        BY <1>1, <3>1, <3>3, <3>4, <4>1, OrderedInsert
    <3>6. /\ \A i \in L2Indices : i # L2Index(old) => k.l2[i] = h.l2[i]
          /\ k.l2[L2Index(old)] =
               insert(h.l2[L2Index(old)], L2_WAYS, L2Tag(old), victim.line)
      <4>1. k.l2 = insert_level2(h.l2, old, victim.line)
        BY <1>2, <2>2
      <4> QED
        BY <1>1, <3>1, <4>1, Level2Inserted
    <3>7. ASSUME NEW i \in L2Indices PROVE Ordered(k.l2[i], L2_WAYS)
      <4>1. CASE i = L2Index(b)
        BY <3>2, <3>5, <3>6, <4>1, Zenon
      <4>2. CASE i # L2Index(b)
        BY <3>2, <3>6, <4>2, Zenon
      <4> QED
        BY <4>1, <4>2
    <3> QED
      BY <3>7 DEF Level2Ordered
  <2> QED
    BY <2>1, <2>2
<1> QED
  BY <1>4, <1>6, <1>7, <1>8, <1>9 DEF Flat, k, line

(* The block found in level 2, its ages or its line changed, goes up.      *)
LEMMA MoveFlat ==
  ASSUME AlignedProgram, NEW h, Flat(h), NEW b \in Blocks,
         L1Hit(h, b) = HIT_WAY_MISS, L2Hit(h, b) # HIT_WAY_MISS,
         NEW g, Kept(g), g.l1 = h.l1,
         TouchedL2(h, g, b) \/ \E line : RewrittenL2(h, g, b, line),
         g.l2[L2Index(b)][L2Hit(h, b)].v,
         g.l2[L2Index(b)][L2Hit(h, b)].line = g.mem[b],
         \A c \in Blocks : c # b => g.mem[c] = h.mem[c]
  PROVE  Flat(move_entry_to_level1(g, b, L2Hit(h, b)))
<1> DEFINE way == L2Hit(h, b)
           set == g.l2[L2Index(b)]
<1>1. /\ b \in Nat /\ L2Index(b) \in L2Indices /\ L2_WAYS \in Nat \ {0}
      /\ way \in 0 .. L2_WAYS - 1 /\ Kept(h)
      /\ set \in SetType(L2_WAYS, Line)
      /\ L1Hit(g, b) = HIT_WAY_MISS
  BY Positions, Hits, GeometryAssumption, ProgramAssumption
  DEF Flat, Kept, HType, L2Set, L1Hit
<1>2. Ordered(set, L2_WAYS)
  <2>1. Ordered(h.l2[L2Index(b)], L2_WAYS)
    BY <1>1 DEF Flat, Level2Ordered
  <2>2. \/ SameButAges(h.l2[L2Index(b)], set, L2_WAYS)
        \/ \E x : Rewritten(h.l2[L2Index(b)], set, L2_WAYS, x)
    BY Zenon DEF TouchedL2, RewrittenL2
  <2> HIDE DEF set
  <2> QED
    BY <1>1, <2>1, <2>2, OrderedSame
<1>3. set[way].tag = L2Tag(b)
  <2> DEFINE below == h.l2[L2Index(b)]
  <2>1. below[way].tag = L2Tag(b)
    <3>1. below \in SetType(L2_WAYS, Line) /\ way = hit_way(below, L2Tag(b))
      BY <1>1 DEF Kept, HType, L2Set, L2Hit
    <3> HIDE DEF below
    <3> QED
      BY <1>1, <3>1, HitWay
  <2>2. set[way].tag = below[way].tag
    BY <1>1, Zenon DEF TouchedL2, RewrittenL2, SameButAges, Rewritten
  <2> QED
    BY <2>1, <2>2, Zenon
<1>4. PICK k : /\ Kept(k) /\ k.mem = g.mem /\ L1Hit(k, b) = HIT_WAY_MISS
               /\ VacatedL2(g, k, b, way)
               /\ move_entry_to_level1(g, b, way) = insert_level1(k, b, set[way].line)
  BY <1>1, MoveInserts
<1>5. k.l1 = h.l1 /\ k.l2[L2Index(b)] = [set EXCEPT ![way] = Invalidated(@)]
  BY <1>4 DEF VacatedL2
<1>6. ASSUME NEW i \in L2Indices, i # L2Index(b) PROVE Ordered(k.l2[i], L2_WAYS)
  <2>1. k.l2[i] = g.l2[i] /\ g.l2[i] = h.l2[i]
    BY <1>4, <1>6, Zenon DEF VacatedL2, TouchedL2, RewrittenL2
  <2> QED
    BY <2>1 DEF Flat, Level2Ordered
<1>7. /\ OrderedBut(k.l2[L2Index(b)], L2_WAYS, way)
      /\ Absent(k.l2[L2Index(b)], L2_WAYS, L2Tag(b))
  <2>1. set[way].v
    OBVIOUS
  <2> HIDE DEF set, way
  <2> QED
    BY <1>1, <1>2, <1>3, <1>5, <2>1, OrderedVacated
<1>8. \A x : ~ Holds1(k, b, x) /\ ~ Holds2(k, b, x)
  BY <1>1, <1>4, <1>7, MissInL1 DEF Absent, Holds2, Has
<1>9. \A c \in Nat : \A x : /\ Holds1(k, c, x) => Holds1(h, c, x)
                            /\ Holds2(k, c, x) => Holds2(h, c, x)
  <2>1. \A c, x : Holds1(k, c, x) => Holds1(h, c, x)
    BY <1>5 DEF Holds1
  <2>2. ASSUME NEW c \in Nat, NEW x, Holds2(k, c, x) PROVE Holds2(h, c, x)
    <3>1. Beside2(g, b, way, c, x)
      BY <1>1, <1>4, <2>2, VacatedContents
    <3> QED
      BY <1>1, <3>1, BesideTheHit
  <2> QED
    BY <2>1, <2>2
<1> HIDE DEF way
<1>10. Coherent(k)
  <2> SUFFICES ASSUME NEW c \in Nat, NEW x, Holds1(k, c, x) \/ Holds2(k, c, x)
               PROVE  c \in Blocks /\ x = g.mem[c]
    BY <1>4 DEF Coherent
  <2>1. Holds1(h, c, x) \/ Holds2(h, c, x)
    BY <1>9
  <2>2. c \in Blocks /\ x = h.mem[c]
    BY <2>1 DEF Flat, Coherent
  <2>3. c # b
    BY <1>8
  <2> QED
    BY <2>2, <2>3
<1>11. Disjoint(k)
  <2> SUFFICES ASSUME NEW c \in Nat, NEW x, NEW y, Holds1(k, c, x), Holds2(k, c, y)
               PROVE  FALSE
    BY DEF Disjoint
  <2>1. Holds1(h, c, x) /\ Holds2(h, c, y)
    BY <1>9
  <2> QED
    BY <2>1 DEF Flat, Disjoint
<1>12. FullAbove(k)
  <2> SUFFICES ASSUME NEW c \in Nat, NEW x, Holds2(k, c, x)
               PROVE  isFull(h.l1[L1Index(c)])
    BY <1>5 DEF FullAbove
  <2>1. Holds2(h, c, x)
    BY <1>9
  <2> QED
    BY <2>1 DEF Flat, FullAbove
<1>13. isFull(k.l1[L1Index(b)])
  <2>1. \E x : Holds2(h, b, x)
    BY <1>1, HitIsHeld
  <2> QED
    BY <1>1, <1>5, <2>1 DEF Flat, FullAbove
<1>14. set[way].line = k.mem[b]
  BY <1>4 DEF way
<1> HIDE DEF set
<1>15. Flat(insert_level1(k, b, k.mem[b]))
  BY <1>1, <1>4, <1>6, <1>7, <1>8, <1>10, <1>11, <1>12, <1>13, InsertFlat
<1> QED
  BY <1>4, <1>14, <1>15, Zenon DEF way

(* A miss in an ordered level 2 means that no copy is there.               *)
LEMMA MissInL2 ==
  ASSUME NEW h, Flat(h), NEW b \in Nat, L2Hit(h, b) = HIT_WAY_MISS
  PROVE  \A x : ~ Holds2(h, b, x)
<1> DEFINE set == h.l2[L2Index(b)]
<1>1. /\ set \in SetType(L2_WAYS, Line) /\ L2_WAYS \in Nat \ {0}
      /\ Ordered(set, L2_WAYS) /\ hit_way(set, L2Tag(b)) = HIT_WAY_MISS
  BY Positions, GeometryAssumption DEF Flat, Kept, HType, L2Set, Level2Ordered, L2Hit
<1> HIDE DEF set
<1>2. \A w, x \in 0 .. L2_WAYS - 1 : w < x /\ set[x].v => set[w].v
  BY <1>1 DEF Ordered
<1>3. Absent(set, L2_WAYS, L2Tag(b))
  BY <1>1, <1>2, MissIsFinalInOrder
<1> QED
  BY <1>3 DEF set, Holds2, Has, Absent

(* A block from the memory goes to level 1.                                *)
LEMMA MissFlat ==
  ASSUME AlignedProgram, NEW h, Flat(h), NEW b \in Blocks,
         L1Hit(h, b) = HIT_WAY_MISS, L2Hit(h, b) = HIT_WAY_MISS,
         NEW g, Kept(g), g.l1 = h.l1, g.l2 = h.l2,
         \A c \in Blocks : c # b => g.mem[c] = h.mem[c]
  PROVE  Flat(insert_level1(g, b, g.mem[b]))
<1>1. b \in Nat /\ L2Index(b) \in L2Indices /\ Kept(h) /\ L1Hit(g, b) = HIT_WAY_MISS
  BY ProgramAssumption, Positions DEF Flat, L1Hit
<1>2. /\ Coherent(h) /\ Disjoint(h) /\ FullAbove(h)
      /\ \A i \in L2Indices : Ordered(g.l2[i], L2_WAYS)
  BY DEF Flat, Level2Ordered
<1>3. \A c, x : (Holds1(g, c, x) <=> Holds1(h, c, x)) /\ (Holds2(g, c, x) <=> Holds2(h, c, x))
  BY DEF Holds1, Holds2
<1>4. \A x : ~ Holds1(h, b, x) /\ ~ Holds2(h, b, x)
  BY <1>1, MissInL1, MissInL2
<1>5. Coherent(g)
  <2> SUFFICES ASSUME NEW c \in Nat, NEW x, Holds1(h, c, x) \/ Holds2(h, c, x)
               PROVE  c \in Blocks /\ x = g.mem[c]
    BY <1>3, Zenon DEF Coherent
  <2>1. c \in Blocks /\ x = h.mem[c] /\ c # b
    BY <1>2, <1>4 DEF Coherent
  <2> QED
    BY <2>1
<1>6. Disjoint(g)
  BY <1>2, <1>3, Zenon DEF Disjoint
<1>7. FullAbove(g)
  BY <1>2, <1>3 DEF FullAbove
<1>8. \A x : ~ Holds2(g, b, x)
  BY <1>3, <1>4
<1> QED
  BY <1>1, <1>2, <1>5, <1>6, <1>7, <1>8, InsertFlat

(* In a stack there is one copy of a block, so that a rewritten one is it. *)
LEMMA OneCopyRewritten ==
  ASSUME NEW h, Kept(h), NEW b \in Nat, L1Hit(h, b) # HIT_WAY_MISS,
         NEW k, NEW line, RewrittenL1(h, k, b, line), NEW x, Holds1(k, b, x)
  PROVE  x = line
<1> DEFINE way == L1Hit(h, b)
           set == h.l1[L1Index(b)]
           new == k.l1[L1Index(b)]
<1>1. Rewritten(set, new, L1_WAYS, way) /\ new[way].line = line
  BY DEF RewrittenL1
<1>2. PICK w \in 0 .. L1_WAYS - 1 : new[w].v /\ new[w].tag = L1Tag(b) /\ new[w].line = x
  BY DEF Holds1, Has
<1>3. set[w].v /\ set[w].tag = L1Tag(b)
  BY <1>1, <1>2, Zenon DEF Rewritten
<1>4. /\ way \in 0 .. L1_WAYS - 1 /\ set[way].v /\ set[way].tag = L1Tag(b)
      /\ \E n \in 0 .. L1_WAYS : StackOf(set, L1_WAYS, n)
  <2>1. set \in SetType(L1_WAYS, Line) /\ L1_WAYS \in Nat \ {0} /\ Stack(set)
    BY Positions, GeometryAssumption DEF Kept, HType, L1Set
  <2>2. way = hit_way(set, L1Tag(b))
    BY DEF L1Hit
  <2> HIDE DEF set
  <2>3. way \in 0 .. L1_WAYS - 1 /\ set[way].v /\ set[way].tag = L1Tag(b)
    BY <2>1, <2>2, HitWay
  <2> QED
    BY <2>1, <2>3 DEF Stack
<1> HIDE DEF way, set, new
<1>5. w = way
  BY <1>3, <1>4 DEF StackOf
<1> QED
  BY <1>1, <1>2, <1>5

(* A call that hits level 1 changes ages, and perhaps the line of a block. *)
LEMMA HitFlat ==
  ASSUME NEW h, Flat(h), NEW b \in Blocks, L1Hit(h, b) # HIT_WAY_MISS,
         NEW k, Kept(k),
         TouchedL1(h, k, b) \/ \E line : RewrittenL1(h, k, b, line)
  PROVE  Flat(k)
<1>1. b \in Nat /\ Kept(h) /\ L1Index(b) \in L1Indices /\ L1_WAYS \in Nat \ {0}
  BY Positions, GeometryAssumption, ProgramAssumption DEF Flat
<1>2. k.l2 = h.l2 /\ \A i \in L1Indices : i # L1Index(b) => k.l1[i] = h.l1[i]
  BY Zenon DEF TouchedL1, RewrittenL1
<1>3. \A c, x : Holds2(k, c, x) <=> Holds2(h, c, x)
  BY <1>2 DEF Holds2
<1>4. ASSUME NEW c \in Nat, NEW x, Holds1(k, c, x)
      PROVE  /\ \E y : Holds1(h, c, y)
             /\ c \in Blocks /\ x = k.mem[c]
  <2>1. CASE TouchedL1(h, k, b)
    <3>1. Holds1(h, c, x) /\ k.mem = h.mem
      BY <1>1, <1>4, <2>1, TouchedL1Contents DEF TouchedL1
    <3> QED
      BY <3>1 DEF Flat, Coherent
  <2>2. ASSUME NEW line, RewrittenL1(h, k, b, line)
        PROVE  /\ \E y : Holds1(h, c, y)
               /\ c \in Blocks /\ x = k.mem[c]
    <3>1. /\ Holds1(h, c, x) \/ (c = b /\ x = line)
          /\ \E y : Holds1(h, c, y)
      BY <1>1, <1>4, <2>2, RewrittenL1Contents
    <3>2. k.mem = [h.mem EXCEPT ![b] = line] /\ h.mem \in [Blocks -> Line]
      BY <1>1, <2>2 DEF RewrittenL1, Kept, HType
    <3>3. c \in Blocks
      BY <3>1 DEF Flat, Coherent
    <3>4. CASE c # b
      <4>1. x = h.mem[c]
        BY <3>1, <3>4 DEF Flat, Coherent
      <4> QED
        BY <3>1, <3>2, <3>3, <3>4, <4>1
    <3>5. CASE c = b
      <4>1. x = line
        BY <1>1, <1>4, <2>2, <3>5, OneCopyRewritten
      <4> QED
        BY <3>1, <3>2, <3>3, <3>5, <4>1
    <3> QED
      BY <3>4, <3>5
  <2> QED
    BY <2>1, <2>2
<1>5. Coherent(k)
  <2>1. ASSUME NEW c \in Nat, NEW x, Holds2(k, c, x)
        PROVE  c \in Blocks /\ x = k.mem[c]
    <3>1. Holds2(h, c, x) /\ c \in Blocks /\ x = h.mem[c]
      BY <1>3, <2>1 DEF Flat, Coherent
    <3>2. c # b
      <4>1. \E y : Holds1(h, b, y)
        BY <1>1, HitIsHeld
      <4> QED
        BY <3>1, <4>1 DEF Flat, Disjoint
    <3>3. k.mem[c] = h.mem[c]
      BY <1>1, <3>1, <3>2 DEF TouchedL1, RewrittenL1, Kept, HType
    <3> QED
      BY <3>1, <3>3
  <2> QED
    BY <1>4, <2>1 DEF Coherent
<1>6. Disjoint(k)
  BY <1>3, <1>4 DEF Flat, Disjoint
<1>7. FullAbove(k)
  <2> SUFFICES ASSUME NEW c \in Nat, NEW x, Holds2(h, c, x)
               PROVE  isFull(k.l1[L1Index(c)])
    BY <1>3 DEF FullAbove
  <2>1. isFull(h.l1[L1Index(c)]) /\ L1Index(c) \in L1Indices
    BY Positions DEF Flat, FullAbove
  <2>2. CASE L1Index(c) = L1Index(b)
    <3> DEFINE old == h.l1[L1Index(b)]
               new == k.l1[L1Index(b)]
    <3>1. old \in SetType(L1_WAYS, Line) /\ new \in SetType(L1_WAYS, Line)
      BY <1>1 DEF Kept, HType, L1Set
    <3>2. SameButAges(old, new, L1_WAYS) \/ \E way : Rewritten(old, new, L1_WAYS, way)
      BY Zenon DEF TouchedL1, RewrittenL1
    <3>3. isFull(old)
      BY <2>1, <2>2
    <3> HIDE DEF old, new
    <3>4. isFull(new)
      BY <1>1, <3>1, <3>2, <3>3, FullSame
    <3> QED
      BY <2>2, <3>4 DEF new
  <2>3. CASE L1Index(c) # L1Index(b)
    BY <1>2, <2>1, <2>3
  <2> QED
    BY <2>2, <2>3
<1>8. Level2Ordered(k)
  BY <1>2 DEF Flat, Level2Ordered
<1> QED
  BY <1>5, <1>6, <1>7, <1>8 DEF Flat

-----------------------------------------------------------------------------
(***************************************************************************)
(* The calls.                                                              *)
(***************************************************************************)
LEMMA ServedFromMemory ==
  ASSUME NEW h, Flat(h), NEW b \in Blocks
  PROVE  LineServed(h, b) = h.mem[b]
<1>1. b \in Nat /\ Kept(h)
  BY ProgramAssumption DEF Flat
<1>2. \A x : Holds1(h, b, x) \/ Holds2(h, b, x) => x = h.mem[b]
  BY <1>1 DEF Flat, Coherent
<1>3. L1Hit(h, b) # HIT_WAY_MISS => h.l1[L1Index(b)][L1Hit(h, b)].line = h.mem[b]
  BY <1>1, <1>2, HitIsHeld
<1>4. L2Hit(h, b) # HIT_WAY_MISS => h.l2[L2Index(b)][L2Hit(h, b)].line = h.mem[b]
  BY <1>1, <1>2, HitIsHeld
<1> QED
  BY <1>3, <1>4 DEF LineServed

LEMMA ReadFlat ==
  ASSUME AlignedProgram, NEW h, Flat(h), NEW b \in Blocks
  PROVE  Flat(cache_read(h, b))
<1>1. b \in Nat /\ Kept(h)
  BY ProgramAssumption DEF Flat
<1>2. CASE L1Hit(h, b) # HIT_WAY_MISS
  <2>1. cache_read(h, b) = TouchL1(h, b)
    BY <1>2 DEF cache_read
  <2> QED
    BY <1>1, <1>2, <2>1, TouchL1Kept, HitFlat
<1>3. CASE L1Hit(h, b) = HIT_WAY_MISS /\ L2Hit(h, b) # HIT_WAY_MISS
  <2> DEFINE g   == TouchL2(h, b)
             way == L2Hit(h, b)
  <2>1. cache_read(h, b) = move_entry_to_level1(g, b, way)
    BY <1>3 DEF cache_read
  <2>2. /\ Kept(g) /\ g.l1 = h.l1 /\ g.l2[L2Index(b)][way].v
        /\ TouchedL2(h, g, b)
    BY <1>1, <1>3, TouchL2Kept
  <2> HIDE DEF g
  <2>3. g.mem = h.mem
    BY <2>2 DEF TouchedL2
  <2>4. g.l2[L2Index(b)][way].line = g.mem[b]
    <3>1. h.l2[L2Index(b)][way].line = LineServed(h, b)
      BY <1>3 DEF LineServed
    <3>2. way \in 0 .. L2_WAYS - 1
      BY <1>1, <1>3, Hits
    <3>3. g.l2[L2Index(b)][way].line = h.l2[L2Index(b)][way].line
      BY <2>2, <3>2, Zenon DEF TouchedL2, SameButAges
    <3> QED
      BY <2>3, <3>1, <3>3, ServedFromMemory
  <2> QED
    BY <1>3, <2>1, <2>2, <2>3, <2>4, MoveFlat
<1>4. CASE L1Hit(h, b) = HIT_WAY_MISS /\ L2Hit(h, b) = HIT_WAY_MISS
  <2>1. cache_read(h, b) = insert_level1(h, b, h.mem[b])
    BY <1>4 DEF cache_read
  <2> QED
    BY <1>1, <1>4, <2>1, MissFlat
<1> QED
  BY <1>2, <1>3, <1>4

LEMMA WriteFlat ==
  ASSUME AlignedProgram, NEW h, Flat(h), NEW b \in Blocks,
         NEW w \in WordIndices, NEW word \in Word
  PROVE  Flat(cache_write(h, b, w, word))
<1> DEFINE line == set_word(LineServed(h, b), w, word)
           k    == cache_write(h, b, w, word)
<1>1. b \in Nat /\ Kept(h) /\ line \in Line
  BY ProgramAssumption, LineServedType DEF set_word, Line, Flat
<1>2. k = CASE L1Hit(h, b) # HIT_WAY_MISS -> RewriteL1(h, b, line)
            [] L1Hit(h, b) = HIT_WAY_MISS /\ L2Hit(h, b) # HIT_WAY_MISS ->
                 move_entry_to_level1(RewriteL2(h, b, line), b, L2Hit(h, b))
            [] OTHER -> insert_level1(write_memory(h, b, line), b, line)
  BY DEF cache_write
<1> HIDE DEF line, k
<1> SUFFICES Flat(k)
  BY DEF k
<1>3. h.mem \in [Blocks -> Line]
  BY <1>1 DEF Kept, HType
<1>4. CASE L1Hit(h, b) # HIT_WAY_MISS
  <2>1. k = RewriteL1(h, b, line)
    BY <1>2, <1>4
  <2>2. Kept(k) /\ RewrittenL1(h, k, b, line)
    BY <1>1, <1>4, <2>1, RewriteL1Kept
  <2> QED
    BY <1>4, <2>2, HitFlat
<1>5. CASE L1Hit(h, b) = HIT_WAY_MISS /\ L2Hit(h, b) # HIT_WAY_MISS
  <2> DEFINE g   == RewriteL2(h, b, line)
             way == L2Hit(h, b)
  <2>1. k = move_entry_to_level1(g, b, way)
    BY <1>2, <1>5
  <2>2. /\ Kept(g) /\ g.l1 = h.l1 /\ g.l2[L2Index(b)][way].v
        /\ g.l2[L2Index(b)][way].line = line /\ g.mem[b] = line
        /\ RewrittenL2(h, g, b, line)
    BY <1>1, <1>5, RewriteL2Kept
  <2> HIDE DEF g
  <2>3. g.mem = [h.mem EXCEPT ![b] = line]
    BY <2>2 DEF RewrittenL2
  <2>4. \A c \in Blocks : c # b => g.mem[c] = h.mem[c]
    BY <1>3, <2>3
  <2> QED
    BY <1>5, <2>1, <2>2, <2>4, MoveFlat
<1>6. CASE L1Hit(h, b) = HIT_WAY_MISS /\ L2Hit(h, b) = HIT_WAY_MISS
  <2> DEFINE g == write_memory(h, b, line)
  <2>1. k = insert_level1(g, b, line)
    BY <1>2, <1>6
  <2>2. Kept(g) /\ g.mem[b] = line /\ g.l1 = h.l1 /\ g.l2 = h.l2
    BY <1>1, MemoryWritten
  <2>3. g.mem = [h.mem EXCEPT ![b] = line]
    BY <1>1, MemoryLine
  <2> HIDE DEF g
  <2>4. \A c \in Blocks : c # b => g.mem[c] = h.mem[c]
    BY <1>3, <2>3
  <2>5. Flat(insert_level1(g, b, g.mem[b]))
    BY <1>6, <2>2, <2>4, MissFlat
  <2> QED
    BY <2>1, <2>2, <2>5, Zenon
<1> QED
  BY <1>4, <1>5, <1>6

(***************************************************************************)
(* The inductive invariant: the data cache with the memory and level 2.    *)
(***************************************************************************)
AllFlat == AllKept /\ Flat(Hierarchy(DATA))

LEMMA BecomesHierarchy ==
  ASSUME AllKept, NEW h, Kept(h), Becomes(DATA, h)
  PROVE  Hierarchy(DATA)' = h
<1>1. l1_cache'[DATA] = h.l1 /\ mem_space' = h.mem /\ l2_cache' = h.l2
  BY DEF AllKept, Becomes
<1> QED
  BY <1>1 DEF Hierarchy, Kept, HType

(* An empty level 2 is in order, and nothing in it asks for anything.      *)
LEMMA FlushedFlat ==
  ASSUME NEW h, NEW k, Kept(k), k.mem = h.mem, k.l1 = h.l1 \/ k.l1 = EmptyL1,
         k.l2 = EmptyL2, Coherent(h)
  PROVE  Flat(k)
<1>1. \A c \in Nat : \A x : Holds1(k, c, x) => Holds1(h, c, x)
  BY NothingHeld DEF Holds1
<1>2. \A c \in Nat : \A x : ~ Holds2(k, c, x)
  BY NothingHeld
<1>3. Coherent(k)
  BY <1>1, <1>2, Zenon DEF Coherent
<1>4. Level2Ordered(k)
  <2>1. \A i \in L2Indices, w \in 0 .. L2_WAYS - 1 : ~ k.l2[i][w].v
    BY DEF EmptyL2, L2Ways, EmptyEntry
  <2> QED
    BY <2>1, Zenon DEF Level2Ordered, Ordered
<1> QED
  BY <1>2, <1>3, <1>4, Zenon DEF Flat, Disjoint, FullAbove

LEMMA InitFlat == Init => AllFlat
<1> SUFFICES ASSUME Init PROVE AllFlat
  OBVIOUS
<1> DEFINE h == Hierarchy(DATA)
<1>1. AllKept /\ Kept(h)
  BY InitKept DEF AllKept
<1>2. h.l1 = EmptyL1 /\ h.l2 = EmptyL2
  BY DEF Init, Hierarchy
<1> HIDE DEF h
<1>3. Coherent(h)
  BY <1>2, NothingHeld, Zenon DEF Coherent
<1>4. Flat(h)
  BY <1>1, <1>2, <1>3, FlushedFlat
<1> QED
  BY <1>1, <1>4 DEF AllFlat, h

LEMMA NextFlat == AlignedProgram /\ AllFlat /\ [Next]_vars => AllFlat'
<1> SUFFICES ASSUME AlignedProgram, AllFlat, [Next]_vars PROVE AllFlat'
  OBVIOUS
<1> DEFINE h == Hierarchy(DATA)
<1>1. AllKept /\ AllKept' /\ Flat(h)
  BY NextKept DEF AllFlat
<1>2. ASSUME NEW k, Flat(k), Becomes(DATA, k) PROVE AllFlat'
  <2>1. h' = k
    BY <1>1, <1>2, BecomesHierarchy DEF Flat
  <2> QED
    BY <1>1, <1>2, <2>1, Zenon DEF AllFlat
<1>3. ASSUME NEW access \in Accesses, NEW a \in Address,
             CacheRead(access, a) \/ CacheReadByte(access, a)
      PROVE  AllFlat'
  <2> DEFINE k == cache_read(h, a.block)
  <2>1. a.block \in Blocks /\ Becomes(DATA, k)
    BY <1>3 DEF AlignedProgram, Address, CacheRead, CacheReadByte
  <2> HIDE DEF h
  <2>2. Flat(k)
    BY <1>1, <2>1, ReadFlat
  <2> HIDE DEF k
  <2> QED
    BY <1>2, <2>1, <2>2
<1>4. ASSUME NEW a \in StoreAddress, NEW word \in WriteWords, CacheWrite(a, word)
      PROVE  AllFlat'
  <2> DEFINE k == cache_write(h, a.block, a.word, word)
  <2>1. a.block \in Blocks /\ a.word \in WordIndices /\ word \in Word
    BY ProgramAssumption DEF StoreAddress, Address
  <2>2. Becomes(DATA, k)
    BY <1>4 DEF CacheWrite
  <2> HIDE DEF h
  <2>3. Flat(k)
    BY <1>1, <2>1, WriteFlat
  <2> HIDE DEF k
  <2> QED
    BY <1>2, <2>2, <2>3
<1>5. ASSUME NEW a \in StoreAddress, NEW byte \in WriteBytes, CacheWriteByte(a, byte)
      PROVE  AllFlat'
  <2> DEFINE word == [WordRead(DATA, a) EXCEPT ![a.byte] = byte]
             g    == cache_read(h, a.block)
             k    == cache_write(g, a.block, a.word, word)
  <2>1. /\ a.block \in Blocks /\ a.word \in WordIndices
        /\ a.byte \in ByteIndices /\ byte \in Byte
    BY ProgramAssumption DEF StoreAddress, Address
  <2>2. word \in Word
    <3>1. LineServed(h, a.block) \in Line
      BY <1>1, <2>1, LineServedType DEF Flat
    <3> QED
      BY <2>1, <3>1 DEF WordRead, Line, Word
  <2>3. Becomes(DATA, k)
    BY <1>5 DEF CacheWriteByte
  <2> HIDE DEF h, word
  <2>4. Flat(g)
    BY <1>1, <2>1, ReadFlat
  <2> HIDE DEF g
  <2>5. Flat(k)
    BY <2>1, <2>2, <2>4, WriteFlat
  <2> HIDE DEF k
  <2> QED
    BY <1>2, <2>3, <2>5
<1>6. ASSUME NEW type \in Flushes, CacheFlush(type) PROVE AllFlat'
  <2> DEFINE k == Hierarchy(DATA)'
  <2>1. /\ k.mem = h.mem /\ k.l2 = EmptyL2
        /\ k.l1 = h.l1 \/ k.l1 = EmptyL1
    BY <1>1, <1>6 DEF AlignedProgram, CacheFlush, Hierarchy, AllKept
  <2>2. Kept(k)
    BY <1>1 DEF AllKept
  <2> HIDE DEF h, k
  <2>3. Flat(k)
    BY <1>1, <2>1, <2>2, FlushedFlat DEF Flat
  <2> QED
    BY <1>1, <2>3, Zenon DEF AllFlat, k
<1>7. ASSUME UNCHANGED vars PROVE AllFlat'
  <2>1. Hierarchy(DATA)' = Hierarchy(DATA)
    BY <1>7 DEF vars, Hierarchy
  <2> QED
    BY <1>1, <2>1, Zenon DEF AllFlat
<1>8. ASSUME NEW a \in Address, Misaligned(a) PROVE UNCHANGED vars
  BY <1>8 DEF Misaligned
<1> QED
  BY <1>3, <1>4, <1>5, <1>6, <1>7, <1>8, Zenon DEF Next

(* "Moved from the L2 cache to the L1 cache", "placed just in L1 and not   *)
(* in L2" (cache.h): no block is in both levels at once, for every         *)
(* geometry, as long as the program is aligned.                            *)
THEOREM LevelsExclusive == AlignedProgram => (Spec => []Exclusive)
<1> SUFFICES ASSUME AlignedProgram PROVE Spec => []Exclusive
  OBVIOUS
<1>1. AllFlat /\ [Next]_vars => AllFlat'
  BY NextFlat
<1>2. AllFlat => Exclusive
  <2> SUFFICES ASSUME AllFlat,
                      NEW access \in Accesses, NEW b,
                      b \in BlocksOf(L1Copies(access)), b \in BlocksOf(L2Copies)
               PROVE  FALSE
    BY DEF Exclusive
  <2> DEFINE h == Hierarchy(DATA)
  <2>1. access = DATA /\ Flat(h)
    BY DEF AlignedProgram, AllFlat
  <2>2. h.l1 = l1_cache[access] /\ h.l2 = l2_cache
    BY <2>1 DEF Hierarchy
  <2> HIDE DEF h
  <2>3. PICK p \in L1Copies(access), q \in L2Copies : b = p[1] /\ b = q[1]
    BY DEF BlocksOf
  <2>4. PICK c, x : c \in Blocks /\ p = << c, x >> /\ Holds1(h, c, x)
    BY <2>1, <2>2, <2>3, CopiesHeld DEF L1Copies, Flat
  <2>5. PICK d, y : d \in Blocks /\ q = << d, y >> /\ Holds2(h, d, y)
    BY <2>1, <2>2, <2>3, CopiesHeld DEF L2Copies, Flat
  <2>6. c = d /\ c \in Nat
    BY <2>3, <2>4, <2>5, ProgramAssumption
  <2> QED
    BY <2>1, <2>4, <2>5, <2>6 DEF Flat, Disjoint
<1> QED
  BY <1>1, <1>2, InitFlat, PTL DEF Spec

-----------------------------------------------------------------------------
(***************************************************************************)
(* Call by call, a flat memory.                                            *)
(***************************************************************************)
LEMMA ClientCalls == [ClientNext]_cvars => [Next]_vars
  BY DEF ClientNext, cvars, ReadWord, ReadByte, WriteWord, WriteByte, Refused,
         Flushed, Next

LEMMA LoadsFromMemory ==
  ASSUME AlignedProgram, AllFlat, NEW access \in Accesses, NEW a \in Address
  PROVE  /\ ReadWord(access, a) => Memory!Load(a)
         /\ ReadByte(access, a) => Memory!LoadByte(a)
<1> DEFINE h == Hierarchy(DATA)
           k == cache_read(h, a.block)
<1>1. access = DATA /\ a.block \in Blocks /\ Flat(h) /\ h.mem = mem_space
  BY DEF AlignedProgram, Address, AllFlat, Hierarchy
<1>2. WordRead(access, a) = mem_space[a.block][a.word]
  BY <1>1, ServedFromMemory DEF WordRead
<1>3. k.mem = mem_space
  BY <1>1, ReadMoves DEF Flat
<1>4. CacheRead(access, a) \/ CacheReadByte(access, a) => mem_space' = mem_space
  BY <1>1, <1>3 DEF CacheRead, CacheReadByte, Becomes
<1> QED
  BY <1>2, <1>4 DEF ReadWord, ReadByte, CacheRead, ByteRead,
                    Memory!Load, Memory!LoadByte

LEMMA StoresToMemory ==
  ASSUME AlignedProgram, AllFlat, NEW a \in StoreAddress, NEW word \in WriteWords
  PROVE  WriteWord(a, word) => Memory!Store(a, word)
<1> DEFINE h == Hierarchy(DATA)
           k == cache_write(h, a.block, a.word, word)
<1>1. /\ a.block \in Blocks /\ a.word \in WordIndices /\ word \in Word
      /\ Flat(h) /\ h.mem = mem_space
  BY ProgramAssumption DEF StoreAddress, Address, AllFlat, Hierarchy
<1>2. k.mem = [h.mem EXCEPT ![a.block] = set_word(h.mem[a.block], a.word, word)]
  <2> HIDE DEF h
  <2>1. LineServed(h, a.block) = h.mem[a.block]
    BY <1>1, ServedFromMemory
  <2> QED
    BY <1>1, <2>1, WriteMoves DEF Flat
<1>3. k.mem = [mem_space EXCEPT ![a.block][a.word] = word]
  BY <1>1, <1>2, Zenon DEF set_word
<1>4. CacheWrite(a, word) => a.byte = 0 /\ mem_space' = k.mem
  BY DEF CacheWrite, Becomes
<1> QED
  BY <1>3, <1>4, Zenon DEF WriteWord, Memory!Store

LEMMA StoresByteToMemory ==
  ASSUME AlignedProgram, AllFlat, NEW a \in StoreAddress, NEW byte \in WriteBytes
  PROVE  WriteByte(a, byte) => Memory!StoreByte(a, byte)
<1> DEFINE h    == Hierarchy(DATA)
           word == [WordRead(DATA, a) EXCEPT ![a.byte] = byte]
           g    == cache_read(h, a.block)
           k    == cache_write(g, a.block, a.word, word)
<1>1. /\ a.block \in Blocks /\ a.word \in WordIndices
      /\ a.byte \in ByteIndices /\ byte \in Byte
      /\ Flat(h) /\ h.mem = mem_space
  BY ProgramAssumption DEF StoreAddress, Address, AllFlat, Hierarchy
<1>2. word = [mem_space[a.block][a.word] EXCEPT ![a.byte] = byte]
  BY <1>1, ServedFromMemory DEF WordRead
<1>3. word \in Word
  <2>1. LineServed(h, a.block) \in Line
    BY <1>1, LineServedType DEF Flat
  <2> QED
    BY <1>1, <2>1 DEF WordRead, Line, Word
<1>4. Flat(g) /\ g.mem = mem_space
  <2> HIDE DEF h
  <2> QED
    BY <1>1, ReadFlat, ReadMoves DEF Flat
<1>5. CacheWriteByte(a, byte) => mem_space' = k.mem
  BY DEF CacheWriteByte, Becomes
<1> HIDE DEF g
<1>6. k.mem = [mem_space EXCEPT ![a.block] = set_word(mem_space[a.block], a.word, word)]
  <2> HIDE DEF word
  <2>1. LineServed(g, a.block) = g.mem[a.block]
    BY <1>1, <1>4, ServedFromMemory
  <2> QED
    BY <1>1, <1>3, <1>4, <2>1, WriteMoves DEF Flat
<1> HIDE DEF k, word
<1>7. k.mem = [mem_space EXCEPT ![a.block][a.word][a.byte] = byte]
  BY <1>2, <1>6, Zenon DEF set_word
<1> QED
  BY <1>5, <1>7, Zenon DEF WriteByte, Memory!StoreByte

LEMMA ClientStep ==
  ASSUME AlignedProgram, AllFlat, [ClientNext]_cvars
  PROVE  [Memory!Next]_<< mem_space, ret >>
<1>1. ASSUME NEW access \in Accesses, NEW a \in Address,
             ReadWord(access, a) \/ ReadByte(access, a)
      PROVE  Memory!Next
  BY <1>1, LoadsFromMemory DEF Memory!Next
<1>2. ASSUME NEW a \in StoreAddress, NEW word \in WriteWords, WriteWord(a, word)
      PROVE  Memory!Next
  BY <1>2, StoresToMemory DEF Memory!Next
<1>3. ASSUME NEW a \in StoreAddress, NEW byte \in WriteBytes, WriteByte(a, byte)
      PROVE  Memory!Next
  BY <1>3, StoresByteToMemory DEF Memory!Next
<1>4. ASSUME NEW a \in Address, Refused(a) PROVE Memory!Next
  <2>1. Memory!Refuse(a)
    BY <1>4 DEF Refused, Misaligned, vars, Memory!Refuse
  <2> QED
    BY <2>1 DEF Memory!Next
<1>5. ASSUME NEW type \in Flushes, Flushed(type) PROVE Memory!Next
  <2>1. Memory!Flush
    BY <1>5 DEF Flushed, CacheFlush, Memory!Flush
  <2> QED
    BY <2>1 DEF Memory!Next
<1>6. ASSUME UNCHANGED cvars PROVE UNCHANGED << mem_space, ret >>
  BY <1>6 DEF cvars, vars
<1> QED
  BY <1>1, <1>2, <1>3, <1>4, <1>5, <1>6, Zenon DEF ClientNext

(* For every geometry: an aligned program sees a flat memory.  Every load  *)
(* returns what the memory holds at its address, every store changes its   *)
(* word or byte and nothing else, whatever has been evicted, moved between *)
(* the levels or flushed before.                                           *)
THEOREM FlatMemoryImplemented == AlignedProgram => (ClientSpec => ActsAsFlatMemory)
<1> SUFFICES ASSUME AlignedProgram PROVE ClientSpec => ActsAsFlatMemory
  OBVIOUS
<1>1. ClientInit => AllFlat /\ Memory!Init
  BY InitFlat DEF ClientInit, Init, Memory!Init
<1>2. AllFlat /\ [ClientNext]_cvars => AllFlat'
  BY NextFlat, ClientCalls
<1>3. AllFlat /\ [ClientNext]_cvars => [Memory!Next]_<< mem_space, ret >>
  BY ClientStep
<1> QED
  BY <1>1, <1>2, <1>3, PTL DEF ClientSpec, ActsAsFlatMemory, Memory!Spec

=============================================================================
