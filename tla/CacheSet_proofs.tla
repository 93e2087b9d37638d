--------------------------- MODULE CacheSet_proofs ---------------------------
(***************************************************************************)
(* Lemmas about one index of a cache, for every number of ways: what the   *)
(* searches find, and that insertions and age updates keep the types of    *)
(* the entries and the shape of an LRU stack.                              *)
(***************************************************************************)
EXTENDS CacheSet, FiniteSetTheorems, WellFoundedInduction, TLAPS

(***************************************************************************)
(* A non-empty set of naturals has a least element, and a greatest one if  *)
(* it is bounded: the intervals up to its elements are finite sets, which  *)
(* strict inclusion orders well.                                           *)
(***************************************************************************)
LEMMA MinExists ==
  ASSUME NEW W \in SUBSET Nat, W # {}
  PROVE  \E w \in W : \A x \in W : w <= x
<1> DEFINE R == StrictSubsetOrdering(Nat)
           F == FiniteSubsetsOf(Nat)
           T == {0 .. w : w \in W}
<1>1. IsWellFoundedOn(R, F)
  BY FS_StrictSubsetOrderingWellFounded
<1>2. T \subseteq F /\ T # {}
  <2>1. \A w \in W : 0 .. w \subseteq Nat /\ IsFiniteSet(0 .. w)
    BY FS_Interval
  <2> QED
    BY <2>1 DEF FiniteSubsetsOf
<1>3. PICK t \in T : \A u \in T : << u, t >> \notin R
  <2> HIDE DEF R, F, T
  <2> QED
    BY <1>1, <1>2, WFMin
<1>4. PICK w \in W : t = 0 .. w
  OBVIOUS
<1>5. ASSUME NEW x \in W, x < w PROVE FALSE
  <2>1. 0 .. x \in T /\ 0 .. x \subseteq 0 .. w /\ w \in 0 .. w /\ w \notin 0 .. x
    BY <1>5
  <2>2. << 0 .. x, 0 .. w >> \in R
    BY <2>1 DEF StrictSubsetOrdering
  <2> QED
    BY <1>3, <1>4, <2>1, <2>2
<1> QED
  BY <1>5

LEMMA MaxExists ==
  ASSUME NEW N \in Nat, NEW S, S \subseteq 0 .. N, S # {}
  PROVE  \E s \in S : \A x \in S : x <= s
<1> DEFINE W == {n \in 0 .. N : N - n \in S}
<1>1. PICK e : e \in S
  OBVIOUS
<1>2. N - e \in W
  BY <1>1
<1>3. PICK w \in W : \A x \in W : w <= x
  <2>1. W \in SUBSET Nat /\ W # {}
    BY <1>2
  <2> QED
    BY <2>1, MinExists
<1>4. \A x \in S : x \in 0 .. N /\ N - x \in W
  OBVIOUS
<1>5. N - w \in S /\ w \in 0 .. N
  OBVIOUS
<1>6. \A x \in S : x <= N - w
  <2> TAKE x \in S
  <2>1. w <= N - x
    BY <1>3, <1>4
  <2> QED
    BY <1>4, <1>5, <2>1
<1> QED
  BY <1>5, <1>6

LEMMA FirstWayIsLeast ==
  ASSUME NEW W \in SUBSET Nat, W # {}
  PROVE  FirstWay(W) \in W /\ \A x \in W : FirstWay(W) <= x
  BY MinExists DEF FirstWay

(***************************************************************************)
(* The contents of an index with the given number of ways, of lines in L.  *)
(***************************************************************************)
ValidEntry(WAYS, L) == [v : {TRUE}, age : 0 .. WAYS - 1, tag : Nat, line : L]
InvalidEntry(WAYS)  ==
  [v : {FALSE}, age : 0 .. WAYS - 1, tag : {NoTag}, line : {NoLine}]
SetType(WAYS, L) ==
  [0 .. WAYS - 1 -> ValidEntry(WAYS, L) \cup InvalidEntry(WAYS)]

LEMMA Fields ==
  ASSUME NEW WAYS \in Nat \ {0}, NEW L, NEW set \in SetType(WAYS, L),
         NEW w \in 0 .. WAYS - 1
  PROVE  /\ DOMAIN set = 0 .. WAYS - 1
         /\ set[w].v \in BOOLEAN /\ set[w].age \in 0 .. WAYS - 1
         /\ set[w].v => set[w].tag \in Nat /\ set[w].line \in L
  BY DEF SetType, ValidEntry, InvalidEntry

(* A hit is on a valid entry with the tag.                                 *)
LEMMA HitWay ==
  ASSUME NEW WAYS \in Nat \ {0}, NEW L, NEW set \in SetType(WAYS, L), NEW tag
  PROVE  \/ hit_way(set, tag) = HIT_WAY_MISS
         \/ /\ hit_way(set, tag) \in 0 .. WAYS - 1
            /\ set[hit_way(set, tag)].v
            /\ set[hit_way(set, tag)].tag = tag
<1> DEFINE stop == {w \in DOMAIN set : set[w].v => set[w].tag = tag}
<1>1. DOMAIN set = 0 .. WAYS - 1
  BY DEF SetType
<1>2. CASE stop = {}
  BY <1>2 DEF hit_way
<1>3. CASE stop # {}
  <2>1. FirstWay(stop) \in stop
    <3>1. stop \in SUBSET Nat /\ stop # {}
      BY <1>1, <1>3
    <3> HIDE DEF stop
    <3> QED
      BY <3>1, FirstWayIsLeast
  <2> QED
    BY <1>1, <2>1 DEF hit_way
<1> QED
  BY <1>2, <1>3

(* The first invalid way, with valid ones before it.                       *)
LEMMA EmptySlot ==
  ASSUME NEW WAYS \in Nat \ {0}, NEW L, NEW set \in SetType(WAYS, L)
  PROVE  IF isFull(set)
         THEN \A w \in 0 .. WAYS - 1 : set[w].v
         ELSE /\ find_empty_slot(set) \in 0 .. WAYS - 1
              /\ ~ set[find_empty_slot(set)].v
              /\ \A w \in 0 .. WAYS - 1 : w < find_empty_slot(set) => set[w].v
<1> DEFINE empty == {w \in DOMAIN set : ~ set[w].v}
<1>1. DOMAIN set = 0 .. WAYS - 1
  BY DEF SetType
<1>2. CASE empty = {}
  BY <1>1, <1>2 DEF find_empty_slot, isFull
<1>3. CASE empty # {}
  <2>1. FirstWay(empty) \in empty /\ \A x \in empty : FirstWay(empty) <= x
    <3>1. empty \in SUBSET Nat /\ empty # {}
      BY <1>1, <1>3
    <3> HIDE DEF empty
    <3> QED
      BY <3>1, FirstWayIsLeast
  <2>2. find_empty_slot(set) = FirstWay(empty)
    BY <1>3 DEF find_empty_slot
  <2>3. ~ isFull(set)
    BY <1>1, <2>1, <2>2 DEF isFull, NOTHING_FOUND
  <2>4. FirstWay(empty) \in 0 .. WAYS - 1 /\ ~ set[FirstWay(empty)].v
    BY <1>1, <2>1
  <2>5. \A w \in 0 .. WAYS - 1 : w < FirstWay(empty) => set[w].v
    <3> TAKE w \in 0 .. WAYS - 1
    <3>1. ~ set[w].v => FirstWay(empty) <= w
      BY <1>1, <2>1
    <3> QED
      BY <2>4, <3>1
  <2> HIDE DEF empty
  <2> QED
    BY <2>2, <2>3, <2>4, <2>5
<1> QED
  BY <1>2, <1>3

(* The victim of a full index is one of its oldest entries.                *)
LEMMA Evict ==
  ASSUME NEW WAYS \in Nat \ {0}, NEW L, NEW set \in SetType(WAYS, L),
         isFull(set)
  PROVE  /\ evict(set) \in 0 .. WAYS - 1
         /\ set[evict(set)].v
         /\ \A w \in 0 .. WAYS - 1 : set[w].age <= set[evict(set)].age
<1> DEFINE Ages == {set[w].age : w \in 0 .. WAYS - 1}
<1>1. /\ DOMAIN set = 0 .. WAYS - 1
      /\ \A w \in 0 .. WAYS - 1 : set[w].v /\ set[w].age \in 0 .. WAYS - 1
  BY EmptySlot, Fields DEF SetType
<1>2. Ages \subseteq 0 .. WAYS - 1 /\ Ages # {} /\ WAYS - 1 \in Nat
  <2>1. set[0].age \in Ages
    OBVIOUS
  <2> QED
    BY <1>1, <2>1
<1>3. PICK oldest \in Ages : \A a \in Ages : a <= oldest
  BY <1>2, MaxExists
<1> DEFINE Oldest == {w \in 0 .. WAYS - 1 : set[w].age = oldest}
<1>4. PICK way \in Oldest : \A x \in Oldest : x <= way
  <2>1. Oldest \subseteq 0 .. WAYS - 1 /\ Oldest # {} /\ WAYS - 1 \in Nat
    OBVIOUS
  <2> QED
    BY <2>1, MaxExists
<1> DEFINE Leaves(w) == /\ set[w].v
                        /\ \A x \in DOMAIN set : set[x].v =>
                             \/ set[x].age < set[w].age
                             \/ set[x].age = set[w].age /\ x <= w
<1>5. way \in DOMAIN set /\ Leaves(way)
  <2>1. \A x \in 0 .. WAYS - 1 : set[x].age <= set[way].age
    BY <1>3, <1>4
  <2>2. \A x \in 0 .. WAYS - 1 : set[x].age = set[way].age => x <= way
    BY <1>4
  <2> QED
    BY <1>1, <1>2, <2>1, <2>2
<1>6. evict(set) \in DOMAIN set /\ Leaves(evict(set))
  BY <1>5 DEF evict
<1>7. ASSUME NEW w \in 0 .. WAYS - 1 PROVE set[w].age <= set[evict(set)].age
  <2>1. \/ set[w].age < set[evict(set)].age
        \/ set[w].age = set[evict(set)].age
    BY <1>1, <1>6
  <2>2. set[w].age \in 0 .. WAYS - 1 /\ set[evict(set)].age \in 0 .. WAYS - 1
    BY <1>1, <1>6
  <2> QED
    BY <2>1, <2>2
<1> HIDE DEF Ages, Oldest
<1> QED
  BY <1>1, <1>6, <1>7

(***************************************************************************)
(* The two macros of lru.h change ages only, and keep them in their range. *)
(***************************************************************************)
Entries(WAYS, L) == ValidEntry(WAYS, L) \cup InvalidEntry(WAYS)

LEMMA AgeChanged ==
  ASSUME NEW WAYS \in Nat \ {0}, NEW L, NEW e \in Entries(WAYS, L),
         NEW a \in 0 .. WAYS - 1
  PROVE  /\ [e EXCEPT !.age = a] \in Entries(WAYS, L)
         /\ [e EXCEPT !.age = a].age = a
         /\ [e EXCEPT !.age = a].v = e.v
         /\ [e EXCEPT !.age = a].tag = e.tag
         /\ [e EXCEPT !.age = a].line = e.line
  BY DEF Entries, ValidEntry, InvalidEntry

(* Everything but the ages.                                                *)
SameButAges(old, new, WAYS) ==
  \A w \in 0 .. WAYS - 1 :
    new[w].v = old[w].v /\ new[w].tag = old[w].tag /\ new[w].line = old[w].line

AgesUpdated(old, new, WAYS, way) ==
  \A w \in 0 .. WAYS - 1 :
    new[w].age = IF w = way THEN 0
                 ELSE IF old[w].age < old[way].age THEN old[w].age + 1
                 ELSE old[w].age

AgesIncreased(old, new, WAYS, way) ==
  \A w \in 0 .. WAYS - 1 :
    new[w].age = IF w = way THEN 0
                 ELSE IF old[w].age < WAYS - 1 THEN old[w].age + 1
                 ELSE old[w].age

LEMMA AgeUpdate ==
  ASSUME NEW WAYS \in Nat \ {0}, NEW L, NEW set \in SetType(WAYS, L),
         NEW way \in 0 .. WAYS - 1
  PROVE  /\ LRU_age_update(set, way) \in SetType(WAYS, L)
         /\ SameButAges(set, LRU_age_update(set, way), WAYS)
         /\ AgesUpdated(set, LRU_age_update(set, way), WAYS, way)
<1> DEFINE new == LRU_age_update(set, way)
           age(w) == IF w = way THEN 0
                     ELSE IF set[w].age < set[way].age THEN set[w].age + 1
                     ELSE set[w].age
<1>1. DOMAIN set = 0 .. WAYS - 1
  BY DEF SetType
<1>2. ASSUME NEW w \in 0 .. WAYS - 1
      PROVE  set[w] \in Entries(WAYS, L) /\ age(w) \in 0 .. WAYS - 1
  <2>1. set[w].age \in 0 .. WAYS - 1 /\ set[way].age \in 0 .. WAYS - 1
    BY Fields
  <2> QED
    BY <2>1 DEF SetType, Entries
<1>3. new = [w \in 0 .. WAYS - 1 |-> [set[w] EXCEPT !.age = age(w)]]
  <2>1. \A w \in 0 .. WAYS - 1 : set[w] \in Entries(WAYS, L)
    BY <1>2
  <2> QED
    BY <1>1, <2>1 DEF LRU_age_update, Entries, ValidEntry, InvalidEntry
<1> HIDE DEF new, age
<1>4. \A w \in 0 .. WAYS - 1 :
        /\ new[w] \in Entries(WAYS, L)
        /\ new[w].age = age(w)
        /\ new[w].v = set[w].v /\ new[w].tag = set[w].tag
        /\ new[w].line = set[w].line
  <2> TAKE w \in 0 .. WAYS - 1
  <2>1. new[w] = [set[w] EXCEPT !.age = age(w)]
    BY <1>3, Zenon
  <2>2. set[w] \in Entries(WAYS, L) /\ age(w) \in 0 .. WAYS - 1
    BY <1>2
  <2> DEFINE e == set[w]
             a == age(w)
  <2>3. /\ [e EXCEPT !.age = a] \in Entries(WAYS, L)
        /\ [e EXCEPT !.age = a].age = a
        /\ [e EXCEPT !.age = a].v = e.v /\ [e EXCEPT !.age = a].tag = e.tag
        /\ [e EXCEPT !.age = a].line = e.line
    <3>1. e \in Entries(WAYS, L) /\ a \in 0 .. WAYS - 1
      BY <2>2
    <3> HIDE DEF e, a
    <3> QED
      BY <3>1, AgeChanged
  <2> QED
    BY <2>1, <2>3, Zenon
<1>5. new \in SetType(WAYS, L)
  BY <1>3, <1>4 DEF SetType, Entries
<1> QED
  BY <1>4, <1>5 DEF new, age, SameButAges, AgesUpdated

LEMMA AgeIncrease ==
  ASSUME NEW WAYS \in Nat \ {0}, NEW L, NEW set \in SetType(WAYS, L),
         NEW way \in 0 .. WAYS - 1
  PROVE  /\ LRU_age_increase(set, WAYS, way) \in SetType(WAYS, L)
         /\ SameButAges(set, LRU_age_increase(set, WAYS, way), WAYS)
         /\ AgesIncreased(set, LRU_age_increase(set, WAYS, way), WAYS, way)
<1> DEFINE new == LRU_age_increase(set, WAYS, way)
           age(w) == IF w = way THEN 0
                     ELSE IF set[w].age < WAYS - 1 THEN set[w].age + 1
                     ELSE set[w].age
<1>1. DOMAIN set = 0 .. WAYS - 1
  BY DEF SetType
<1>2. ASSUME NEW w \in 0 .. WAYS - 1
      PROVE  set[w] \in Entries(WAYS, L) /\ age(w) \in 0 .. WAYS - 1
  <2>1. set[w].age \in 0 .. WAYS - 1
    BY Fields
  <2> QED
    BY <2>1 DEF SetType, Entries
<1>3. new = [w \in 0 .. WAYS - 1 |-> [set[w] EXCEPT !.age = age(w)]]
  <2>1. \A w \in 0 .. WAYS - 1 : set[w] \in Entries(WAYS, L)
    BY <1>2
  <2> QED
    BY <1>1, <2>1 DEF LRU_age_increase, Entries, ValidEntry, InvalidEntry
<1> HIDE DEF new, age
<1>4. \A w \in 0 .. WAYS - 1 :
        /\ new[w] \in Entries(WAYS, L)
        /\ new[w].age = age(w)
        /\ new[w].v = set[w].v /\ new[w].tag = set[w].tag
        /\ new[w].line = set[w].line
  <2> TAKE w \in 0 .. WAYS - 1
  <2>1. new[w] = [set[w] EXCEPT !.age = age(w)]
    BY <1>3, Zenon
  <2>2. set[w] \in Entries(WAYS, L) /\ age(w) \in 0 .. WAYS - 1
    BY <1>2
  <2> DEFINE e == set[w]
             a == age(w)
  <2>3. /\ [e EXCEPT !.age = a] \in Entries(WAYS, L)
        /\ [e EXCEPT !.age = a].age = a
        /\ [e EXCEPT !.age = a].v = e.v /\ [e EXCEPT !.age = a].tag = e.tag
        /\ [e EXCEPT !.age = a].line = e.line
    <3>1. e \in Entries(WAYS, L) /\ a \in 0 .. WAYS - 1
      BY <2>2
    <3> HIDE DEF e, a
    <3> QED
      BY <3>1, AgeChanged
  <2> QED
    BY <2>1, <2>3, Zenon
<1>5. new \in SetType(WAYS, L)
  BY <1>3, <1>4 DEF SetType, Entries
<1> QED
  BY <1>4, <1>5 DEF new, age, SameButAges, AgesIncreased

(***************************************************************************)
(* An insertion: the entry is placed on an empty way, or on that of the    *)
(* oldest entry, whose age it takes; then the ages change.                 *)
(***************************************************************************)
PlaceWay(set) == IF isFull(set) THEN evict(set) ELSE find_empty_slot(set)

Placed(set, tag, line) ==
  [set EXCEPT ![PlaceWay(set)] =
     [v    |-> TRUE,
      age  |-> IF isFull(set) THEN set[PlaceWay(set)].age ELSE 0,
      tag  |-> tag,
      line |-> line]]

LEMMA InsertSplits ==
  ASSUME NEW WAYS, NEW set, NEW tag, NEW line
  PROVE  insert(set, WAYS, tag, line) =
           IF isFull(set)
           THEN LRU_age_update(Placed(set, tag, line), PlaceWay(set))
           ELSE LRU_age_increase(Placed(set, tag, line), WAYS, PlaceWay(set))
  BY Zenon DEF insert, modify_ages, Placed, PlaceWay

LEMMA PlacedType ==
  ASSUME NEW WAYS \in Nat \ {0}, NEW L, NEW set \in SetType(WAYS, L),
         NEW tag \in Nat, NEW line \in L
  PROVE  /\ PlaceWay(set) \in 0 .. WAYS - 1
         /\ Placed(set, tag, line) \in SetType(WAYS, L)
         /\ \A w \in 0 .. WAYS - 1 :
              w # PlaceWay(set) => Placed(set, tag, line)[w] = set[w]
         /\ Placed(set, tag, line)[PlaceWay(set)] =
              [v    |-> TRUE,
               age  |-> IF isFull(set) THEN set[PlaceWay(set)].age ELSE 0,
               tag  |-> tag,
               line |-> line]
<1> DEFINE way   == PlaceWay(set)
           entry == [v |-> TRUE, age |-> IF isFull(set) THEN set[way].age ELSE 0,
                     tag |-> tag, line |-> line]
<1>1. way \in 0 .. WAYS - 1
  BY EmptySlot, Evict DEF PlaceWay
<1>2. DOMAIN set = 0 .. WAYS - 1
  BY DEF SetType
<1>3. entry \in ValidEntry(WAYS, L)
  <2>1. set[way].age \in 0 .. WAYS - 1
    BY <1>1, Fields
  <2> QED
    BY <2>1 DEF ValidEntry
<1>4. Placed(set, tag, line) = [set EXCEPT ![way] = entry]
  BY DEF Placed
<1> HIDE DEF way, entry
<1>5. /\ [set EXCEPT ![way] = entry] \in SetType(WAYS, L)
      /\ [set EXCEPT ![way] = entry][way] = entry
      /\ \A w \in 0 .. WAYS - 1 :
           w # way => [set EXCEPT ![way] = entry][w] = set[w]
  BY <1>1, <1>2, <1>3 DEF SetType
<1> QED
  BY <1>1, <1>4, <1>5, Zenon DEF way, entry

LEMMA InsertType ==
  ASSUME NEW WAYS \in Nat \ {0}, NEW L, NEW set \in SetType(WAYS, L),
         NEW tag \in Nat, NEW line \in L
  PROVE  insert(set, WAYS, tag, line) \in SetType(WAYS, L)
  BY InsertSplits, PlacedType, AgeUpdate, AgeIncrease

(* Who is there after an insertion: the new entry, on an empty way that    *)
(* valid ones precede or on that of the victim, and everyone else.         *)
LEMMA InsertedEntries ==
  ASSUME NEW WAYS \in Nat \ {0}, NEW L, NEW set \in SetType(WAYS, L),
         NEW tag \in Nat, NEW line \in L
  PROVE  LET new == insert(set, WAYS, tag, line)
             way == PlaceWay(set)
         IN  /\ way \in 0 .. WAYS - 1
             /\ new[way].v /\ new[way].tag = tag /\ new[way].line = line
             /\ \A w \in 0 .. WAYS - 1 : w # way =>
                  /\ new[w].v = set[w].v /\ new[w].tag = set[w].tag
                  /\ new[w].line = set[w].line
             /\ IF isFull(set)
                THEN way = evict(set) /\ \A w \in 0 .. WAYS - 1 : set[w].v
                ELSE ~ set[way].v /\ \A w \in 0 .. WAYS - 1 : w < way => set[w].v
<1> DEFINE p    == Placed(set, tag, line)
           way  == PlaceWay(set)
           new  == insert(set, WAYS, tag, line)
<1>1. SameButAges(p, new, WAYS)
  BY InsertSplits, PlacedType, AgeUpdate, AgeIncrease
<1>2. /\ way \in 0 .. WAYS - 1
      /\ \A w \in 0 .. WAYS - 1 : w # way => p[w] = set[w]
      /\ p[way] = [v    |-> TRUE,
                   age  |-> IF isFull(set) THEN set[way].age ELSE 0,
                   tag  |-> tag,
                   line |-> line]
  BY PlacedType
<1>3. IF isFull(set)
      THEN way = evict(set) /\ \A w \in 0 .. WAYS - 1 : set[w].v
      ELSE ~ set[way].v /\ \A w \in 0 .. WAYS - 1 : w < way => set[w].v
  BY EmptySlot DEF PlaceWay
<1> HIDE DEF p, way, new
<1>4. p[way].v = TRUE /\ p[way].tag = tag /\ p[way].line = line
  <2> DEFINE age == IF isFull(set) THEN set[way].age ELSE 0
  <2> HIDE DEF age
  <2>1. \A e : e = [v |-> TRUE, age |-> age, tag |-> tag, line |-> line] =>
                e.v = TRUE /\ e.tag = tag /\ e.line = line
    OBVIOUS
  <2> QED
    BY <1>2, <2>1, Zenon DEF age
<1>5. new[way].v /\ new[way].tag = tag /\ new[way].line = line
  BY <1>1, <1>2, <1>4, Zenon DEF SameButAges
<1>6. \A w \in 0 .. WAYS - 1 : w # way =>
        /\ new[w].v = set[w].v /\ new[w].tag = set[w].tag
        /\ new[w].line = set[w].line
  BY <1>1, <1>2, Zenon DEF SameButAges
<1> QED
  BY <1>2, <1>3, <1>5, <1>6, Zenon DEF new, way

(***************************************************************************)
(* An LRU stack of n valid entries: they come first, with tags of their    *)
(* own and ages that differ, all below n, while the invalid ones are n     *)
(* old.                                                                    *)
(***************************************************************************)
StackOf(set, WAYS, n) ==
  \A w \in 0 .. WAYS - 1 :
    /\ set[w].v <=> w < n
    /\ set[w].age < n <=> w < n
    /\ w >= n => set[w].age = n
    /\ \A x \in 0 .. WAYS - 1 : w < n /\ x < n /\ x # w =>
         set[x].tag # set[w].tag /\ set[x].age # set[w].age

Absent(set, WAYS, tag) ==
  \A w \in 0 .. WAYS - 1 : set[w].v => set[w].tag # tag

(* The same in three parts, which the provers take one at a time.          *)
ValidFirst(set, WAYS, n) == \A w \in 0 .. WAYS - 1 : set[w].v <=> w < n
TagsDiffer(set, WAYS, n) ==
  \A w, x \in 0 .. WAYS - 1 : w < n /\ x < n /\ x # w => set[x].tag # set[w].tag
AgesRank(set, WAYS, n) ==
  /\ \A w \in 0 .. WAYS - 1 :
       /\ set[w].age < n <=> w < n
       /\ w >= n => set[w].age = n
  /\ \A w, x \in 0 .. WAYS - 1 : w < n /\ x < n /\ x # w => set[x].age # set[w].age

LEMMA StackParts ==
  ASSUME NEW set, NEW WAYS, NEW n
  PROVE  StackOf(set, WAYS, n) <=>
           ValidFirst(set, WAYS, n) /\ TagsDiffer(set, WAYS, n) /\ AgesRank(set, WAYS, n)
  BY Zenon DEF StackOf, ValidFirst, TagsDiffer, AgesRank

(* Where the valid ways come first a miss is final: none has the tag.      *)
LEMMA MissIsFinalInOrder ==
  ASSUME NEW WAYS \in Nat \ {0}, NEW L, NEW set \in SetType(WAYS, L),
         \A w, x \in 0 .. WAYS - 1 : w < x /\ set[x].v => set[w].v,
         NEW tag, hit_way(set, tag) = HIT_WAY_MISS
  PROVE  Absent(set, WAYS, tag)
<1> SUFFICES ASSUME NEW w \in 0 .. WAYS - 1, set[w].v, set[w].tag = tag
             PROVE  FALSE
  BY DEF Absent
<1> DEFINE stop == {x \in DOMAIN set : set[x].v => set[x].tag = tag}
<1>1. DOMAIN set = 0 .. WAYS - 1
  BY DEF SetType
<1>2. w \in stop
  BY <1>1
<1>3. FirstWay(stop) \in stop /\ FirstWay(stop) <= w
  <2>1. stop \in SUBSET Nat /\ stop # {}
    BY <1>1, <1>2
  <2> HIDE DEF stop
  <2> QED
    BY <1>2, <2>1, FirstWayIsLeast
<1>4. FirstWay(stop) \in 0 .. WAYS - 1
  BY <1>1, <1>3
<1>5. set[FirstWay(stop)].v
  <2>1. FirstWay(stop) < w \/ FirstWay(stop) = w
    BY <1>3, <1>4
  <2> HIDE DEF stop
  <2> QED
    BY <1>4, <2>1
<1>6. hit_way(set, tag) = FirstWay(stop)
  BY <1>2, <1>5 DEF hit_way
<1> QED
  BY <1>4, <1>6 DEF HIT_WAY_MISS

LEMMA MissIsFinal ==
  ASSUME NEW WAYS \in Nat \ {0}, NEW L, NEW set \in SetType(WAYS, L),
         NEW n \in 0 .. WAYS, StackOf(set, WAYS, n),
         NEW tag, hit_way(set, tag) = HIT_WAY_MISS
  PROVE  Absent(set, WAYS, tag)
<1>1. ValidFirst(set, WAYS, n)
  BY StackParts
<1>2. \A w, x \in 0 .. WAYS - 1 : w < x /\ set[x].v => set[w].v
  BY <1>1 DEF ValidFirst
<1> QED
  BY <1>2, MissIsFinalInOrder

(* Ages that rank the first n ways still do when one of them becomes the   *)
(* youngest and those that were younger grow one older.                    *)
LEMMA AgesRankUpdated ==
  ASSUME NEW WAYS \in Nat \ {0}, NEW old, NEW new, NEW n \in 0 .. WAYS,
         NEW way \in 0 .. WAYS - 1, way < n,
         \A w \in 0 .. WAYS - 1 : old[w].age \in 0 .. WAYS - 1,
         AgesRank(old, WAYS, n), AgesUpdated(old, new, WAYS, way)
  PROVE  AgesRank(new, WAYS, n)
<1>1. old[way].age < n /\ old[way].age \in 0 .. WAYS - 1
  BY DEF AgesRank
<1>2. ASSUME NEW w \in 0 .. WAYS - 1
      PROVE  /\ new[w].age < n <=> w < n
             /\ w >= n => new[w].age = n
  <2>1. /\ old[w].age \in 0 .. WAYS - 1
        /\ old[w].age < n <=> w < n
        /\ w >= n => old[w].age = n
    BY DEF AgesRank
  <2>2. new[w].age = IF w = way THEN 0
                     ELSE IF old[w].age < old[way].age THEN old[w].age + 1
                     ELSE old[w].age
    BY DEF AgesUpdated
  <2> QED
    BY <1>1, <2>1, <2>2
<1>3. ASSUME NEW w \in 0 .. WAYS - 1, NEW x \in 0 .. WAYS - 1,
             w < n, x < n, x # w
      PROVE  new[x].age # new[w].age
  <2>1. /\ old[x].age # old[w].age
        /\ x # way => old[x].age # old[way].age
        /\ w # way => old[w].age # old[way].age
        /\ old[x].age \in 0 .. WAYS - 1 /\ old[w].age \in 0 .. WAYS - 1
    BY <1>3 DEF AgesRank
  <2>2. /\ new[w].age = IF w = way THEN 0
                        ELSE IF old[w].age < old[way].age THEN old[w].age + 1
                        ELSE old[w].age
        /\ new[x].age = IF x = way THEN 0
                        ELSE IF old[x].age < old[way].age THEN old[x].age + 1
                        ELSE old[x].age
    BY DEF AgesUpdated
  <2> QED
    BY <1>1, <1>3, <2>1, <2>2
<1> QED
  BY <1>2, <1>3 DEF AgesRank

(* A hit becomes the youngest and what was younger one older.              *)
LEMMA TouchedStack ==
  ASSUME NEW WAYS \in Nat \ {0}, NEW L, NEW set \in SetType(WAYS, L),
         NEW n \in 0 .. WAYS, StackOf(set, WAYS, n),
         NEW way \in 0 .. WAYS - 1, set[way].v
  PROVE  StackOf(LRU_age_update(set, way), WAYS, n)
<1> DEFINE new == LRU_age_update(set, way)
<1>1. SameButAges(set, new, WAYS) /\ AgesUpdated(set, new, WAYS, way)
  BY AgeUpdate
<1> HIDE DEF new
<1>2. ValidFirst(set, WAYS, n) /\ TagsDiffer(set, WAYS, n) /\ AgesRank(set, WAYS, n)
  BY StackParts
<1>3. ValidFirst(new, WAYS, n)
  BY <1>1, <1>2, Zenon DEF ValidFirst, SameButAges
<1>4. TagsDiffer(new, WAYS, n)
  <2>1. \A w \in 0 .. WAYS - 1 : new[w].tag = set[w].tag
    BY <1>1 DEF SameButAges
  <2> QED
    BY <1>2, <2>1 DEF TagsDiffer
<1>5. AgesRank(new, WAYS, n)
  <2>1. way < n
    BY <1>2 DEF ValidFirst
  <2>2. \A w \in 0 .. WAYS - 1 : set[w].age \in 0 .. WAYS - 1
    BY Fields
  <2> QED
    BY <1>1, <1>2, <2>1, <2>2, AgesRankUpdated
<1> QED
  BY <1>3, <1>4, <1>5, StackParts DEF new

(* Ages that rank the first n ways, of which way n takes the youngest      *)
(* place while all others grow older, rank the first n + 1.                *)
LEMMA AgesRankIncreased ==
  ASSUME NEW WAYS \in Nat \ {0}, NEW set, NEW old, NEW new,
         NEW n \in 0 .. WAYS - 1,
         \A w \in 0 .. WAYS - 1 : set[w].age \in 0 .. WAYS - 1,
         AgesRank(set, WAYS, n),
         \A w \in 0 .. WAYS - 1 : w # n => old[w].age = set[w].age,
         AgesIncreased(old, new, WAYS, n)
  PROVE  AgesRank(new, WAYS, n + 1)
<1>1. ASSUME NEW w \in 0 .. WAYS - 1
      PROVE  /\ w < n => new[w].age = set[w].age + 1 /\ set[w].age < n
             /\ w = n => new[w].age = 0
             /\ w > n => new[w].age = n + 1
             /\ set[w].age \in 0 .. WAYS - 1
  <2>1. /\ set[w].age \in 0 .. WAYS - 1
        /\ w < n => set[w].age < n
        /\ w > n => set[w].age = n
        /\ w # n => old[w].age = set[w].age
    BY DEF AgesRank
  <2>2. new[w].age = IF w = n THEN 0
                     ELSE IF old[w].age < WAYS - 1 THEN old[w].age + 1
                     ELSE old[w].age
    BY DEF AgesIncreased
  <2> QED
    BY <2>1, <2>2
<1>2. ASSUME NEW w \in 0 .. WAYS - 1
      PROVE  /\ new[w].age < n + 1 <=> w < n + 1
             /\ w >= n + 1 => new[w].age = n + 1
  BY <1>1
<1>3. ASSUME NEW w \in 0 .. WAYS - 1, NEW x \in 0 .. WAYS - 1,
             w < n + 1, x < n + 1, x # w
      PROVE  new[x].age # new[w].age
  <2>1. CASE w < n /\ x < n
    <3>1. set[x].age # set[w].age
      BY <1>3, <2>1 DEF AgesRank
    <3>2. new[w].age = set[w].age + 1 /\ set[w].age \in Int
      BY <1>1, <2>1
    <3>3. new[x].age = set[x].age + 1 /\ set[x].age \in Int
      BY <1>1, <2>1
    <3> QED
      BY <3>1, <3>2, <3>3
  <2>2. CASE w = n /\ x < n
    <3>1. new[w].age = 0
      BY <1>1, <2>2
    <3>2. new[x].age = set[x].age + 1 /\ set[x].age \in 0 .. WAYS - 1
      BY <1>1, <2>2
    <3> QED
      BY <3>1, <3>2
  <2>3. CASE w < n /\ x = n
    <3>1. new[x].age = 0
      BY <1>1, <2>3
    <3>2. new[w].age = set[w].age + 1 /\ set[w].age \in 0 .. WAYS - 1
      BY <1>1, <2>3
    <3> QED
      BY <3>1, <3>2
  <2> QED
    BY <1>3, <2>1, <2>2, <2>3
<1> QED
  BY <1>2, <1>3 DEF AgesRank

(* A full stack has as many valid entries as ways; the empty way of one    *)
(* that is not full is the first after its valid entries.                  *)
LEMMA PlaceInStack ==
  ASSUME NEW WAYS \in Nat \ {0}, NEW L, NEW set \in SetType(WAYS, L),
         NEW n \in 0 .. WAYS, ValidFirst(set, WAYS, n)
  PROVE  IF isFull(set) THEN n = WAYS
         ELSE n \in 0 .. WAYS - 1 /\ PlaceWay(set) = n
<1>1. CASE isFull(set)
  <2>1. set[WAYS - 1].v
    BY <1>1, EmptySlot
  <2>2. WAYS - 1 < n
    BY <2>1 DEF ValidFirst
  <2> QED
    BY <1>1, <2>2
<1>2. CASE ~ isFull(set)
  <2> DEFINE slot == find_empty_slot(set)
  <2>1. /\ slot \in 0 .. WAYS - 1
        /\ ~ set[slot].v
        /\ \A w \in 0 .. WAYS - 1 : w < slot => set[w].v
    BY <1>2, EmptySlot
  <2>2. PlaceWay(set) = slot
    BY <1>2 DEF PlaceWay
  <2> HIDE DEF slot
  <2>3. ~ (slot < n)
    BY <2>1 DEF ValidFirst
  <2>4. ~ (n < slot)
    <3> SUFFICES ASSUME n < slot PROVE FALSE
      OBVIOUS
    <3>1. n \in 0 .. WAYS - 1
      BY <2>1
    <3>2. set[n].v
      BY <2>1, <3>1
    <3>3. n < n
      BY <3>1, <3>2 DEF ValidFirst
    <3> QED
      BY <3>3
  <2> QED
    BY <1>2, <2>1, <2>2, <2>3, <2>4
<1> QED
  BY <1>1, <1>2

(* An insertion of a tag that is not there: on top of a stack that has     *)
(* room, or in place of its oldest entry.                                  *)
LEMMA InsertedStack ==
  ASSUME NEW WAYS \in Nat \ {0}, NEW L, NEW set \in SetType(WAYS, L),
         NEW n \in 0 .. WAYS, StackOf(set, WAYS, n),
         NEW tag \in Nat, NEW line \in L, Absent(set, WAYS, tag)
  PROVE  \E m \in 0 .. WAYS : StackOf(insert(set, WAYS, tag, line), WAYS, m)
<1> DEFINE p   == Placed(set, tag, line)
           way == PlaceWay(set)
<1>1. ValidFirst(set, WAYS, n) /\ TagsDiffer(set, WAYS, n) /\ AgesRank(set, WAYS, n)
  BY StackParts
<1>2. /\ way \in 0 .. WAYS - 1 /\ p \in SetType(WAYS, L)
      /\ \A w \in 0 .. WAYS - 1 : w # way => p[w] = set[w]
      /\ p[way].v = TRUE /\ p[way].tag = tag
      /\ p[way].age = IF isFull(set) THEN set[way].age ELSE 0
  <2>1. /\ way \in 0 .. WAYS - 1 /\ p \in SetType(WAYS, L)
        /\ \A w \in 0 .. WAYS - 1 : w # way => p[w] = set[w]
        /\ p[way] = [v    |-> TRUE,
                     age  |-> IF isFull(set) THEN set[way].age ELSE 0,
                     tag  |-> tag,
                     line |-> line]
    BY PlacedType
  <2> HIDE DEF p, way
  <2> DEFINE age == IF isFull(set) THEN set[way].age ELSE 0
  <2> HIDE DEF age
  <2>2. p[way].v = TRUE /\ p[way].tag = tag /\ p[way].age = age
    <3>1. p[way] = [v |-> TRUE, age |-> age, tag |-> tag, line |-> line]
      BY <2>1 DEF age
    <3>2. \A e : e = [v |-> TRUE, age |-> age, tag |-> tag, line |-> line] =>
                  e.v = TRUE /\ e.tag = tag /\ e.age = age
      OBVIOUS
    <3> QED
      BY <3>1, <3>2, Zenon
  <2> QED
    BY <2>1, <2>2, Zenon DEF age
<1>3. IF isFull(set) THEN n = WAYS ELSE n \in 0 .. WAYS - 1 /\ way = n
  BY <1>1, PlaceInStack
<1>4. \A w \in 0 .. WAYS - 1 : w < n => set[w].tag # tag
  BY <1>1 DEF ValidFirst, Absent
<1>5. \A w \in 0 .. WAYS - 1 : set[w].age \in 0 .. WAYS - 1
  BY Fields
<1>6. insert(set, WAYS, tag, line) = IF isFull(set) THEN LRU_age_update(p, way)
                                     ELSE LRU_age_increase(p, WAYS, way)
  BY InsertSplits
<1> HIDE DEF p, way
<1>7. CASE isFull(set)
  <2>1. ValidFirst(p, WAYS, WAYS)
    <3>1. \A w \in 0 .. WAYS - 1 : w < WAYS
      OBVIOUS
    <3>2. \A w \in 0 .. WAYS - 1 : p[w].v
      BY <1>1, <1>2, <1>3, <1>7, <3>1, Zenon DEF ValidFirst
    <3> QED
      BY <3>1, <3>2 DEF ValidFirst
  <2>2. TagsDiffer(p, WAYS, WAYS)
    <3>1. \A w, x \in 0 .. WAYS - 1 : x # w => set[x].tag # set[w].tag
      BY <1>1, <1>3, <1>7 DEF TagsDiffer
    <3>2. \A w \in 0 .. WAYS - 1 : set[w].tag # tag
      BY <1>3, <1>4, <1>7
    <3>3. \A w \in 0 .. WAYS - 1 : p[w].tag = IF w = way THEN tag ELSE set[w].tag
      BY <1>2, Zenon
    <3> QED
      BY <3>1, <3>2, <3>3 DEF TagsDiffer
  <2>3. AgesRank(p, WAYS, WAYS)
    <3>1. \A w \in 0 .. WAYS - 1 : p[w].age = set[w].age
      BY <1>2, <1>7, Zenon
    <3> QED
      BY <1>1, <1>3, <1>7, <3>1 DEF AgesRank
  <2>4. StackOf(p, WAYS, WAYS) /\ p[way].v /\ WAYS \in 0 .. WAYS
    BY <1>2, <2>1, <2>2, <2>3, StackParts
  <2>5. StackOf(LRU_age_update(p, way), WAYS, WAYS)
    BY <1>2, <2>4, TouchedStack
  <2> QED
    BY <1>6, <1>7, <2>4, <2>5
<1>8. CASE ~ isFull(set)
  <2> DEFINE new == LRU_age_increase(p, WAYS, way)
  <2>1. SameButAges(p, new, WAYS) /\ AgesIncreased(p, new, WAYS, way)
    BY <1>2, AgeIncrease
  <2>2. way = n /\ n \in 0 .. WAYS - 1 /\ n + 1 \in 0 .. WAYS
    BY <1>3, <1>8
  <2> HIDE DEF new
  <2>3. ValidFirst(new, WAYS, n + 1)
    <3> SUFFICES ASSUME NEW w \in 0 .. WAYS - 1
                 PROVE  new[w].v <=> w < n + 1
      BY DEF ValidFirst
    <3>1. new[w].v = p[w].v
      BY <2>1 DEF SameButAges
    <3>2. CASE w = n
      <4>1. w < n + 1
        BY <2>2, <3>2
      <4> QED
        BY <1>2, <2>2, <3>1, <3>2, <4>1, Zenon
    <3>3. CASE w # n
      <4>1. w < n + 1 <=> w < n
        BY <2>2, <3>3
      <4> QED
        BY <1>1, <1>2, <2>2, <3>1, <3>3, <4>1, Zenon DEF ValidFirst
    <3> QED
      BY <3>2, <3>3
  <2>4. TagsDiffer(new, WAYS, n + 1)
    <3> SUFFICES ASSUME NEW w \in 0 .. WAYS - 1, NEW x \in 0 .. WAYS - 1,
                        w < n + 1, x < n + 1, x # w
                 PROVE  new[x].tag # new[w].tag
      BY DEF TagsDiffer
    <3>1. new[x].tag = p[x].tag /\ new[w].tag = p[w].tag
      BY <2>1 DEF SameButAges
    <3>2. (w = n \/ w < n) /\ (x = n \/ x < n)
      BY <2>2
    <3>3. \A y \in 0 .. WAYS - 1 : y # n => p[y].tag = set[y].tag
      BY <1>2, <2>2, Zenon
    <3>4. p[n].tag = tag
      BY <1>2, <2>2
    <3>5. CASE w = n /\ x < n
      <4>1. set[x].tag # tag
        BY <1>4, <3>5
      <4>2. new[x].tag = set[x].tag
        BY <2>2, <3>1, <3>3, <3>5
      <4> QED
        BY <3>1, <3>4, <3>5, <4>1, <4>2, Zenon
    <3>6. CASE w < n /\ x = n
      <4>1. set[w].tag # tag
        BY <1>4, <3>6
      <4>2. new[w].tag = set[w].tag
        BY <2>2, <3>1, <3>3, <3>6
      <4> QED
        BY <3>1, <3>4, <3>6, <4>1, <4>2, Zenon
    <3>7. CASE w < n /\ x < n
      <4>1. set[x].tag # set[w].tag
        BY <1>1, <3>7 DEF TagsDiffer
      <4>2. new[x].tag = set[x].tag /\ new[w].tag = set[w].tag
        BY <2>2, <3>1, <3>3, <3>7
      <4> QED
        BY <4>1, <4>2
    <3> QED
      BY <3>2, <3>5, <3>6, <3>7
  <2>5. AgesRank(new, WAYS, n + 1)
    <3>1. \A w \in 0 .. WAYS - 1 : w # n => p[w].age = set[w].age
      BY <1>2, <2>2, Zenon
    <3>2. AgesIncreased(p, new, WAYS, n)
      BY <2>1, <2>2
    <3> QED
      BY <1>1, <1>5, <2>2, <3>1, <3>2, AgesRankIncreased
  <2>6. StackOf(new, WAYS, n + 1)
    BY <2>3, <2>4, <2>5, StackParts
  <2> QED
    BY <1>6, <1>8, <2>2, <2>6 DEF new
<1> QED
  BY <1>7, <1>8

(* A lookup looks at the valid bits and the tags alone.                    *)
LEMMA SameHit ==
  ASSUME NEW set, NEW new, NEW tag,
         DOMAIN set \in SUBSET Nat, DOMAIN new = DOMAIN set,
         \A w \in DOMAIN set : new[w].v = set[w].v /\ new[w].tag = set[w].tag
  PROVE  hit_way(new, tag) = hit_way(set, tag)
<1> DEFINE stop(s) == {w \in DOMAIN s : s[w].v => s[w].tag = tag}
<1>1. stop(new) = stop(set)
  <2>1. \A w : w \in stop(new) <=> w \in stop(set)
    BY Zenon
  <2> QED
    BY <2>1, Zenon
<1>2. CASE stop(set) # {} /\ FirstWay(stop(set)) \in DOMAIN set
  BY <1>1, <1>2, Zenon DEF hit_way
<1>3. CASE stop(set) = {}
  BY <1>1, <1>3, Zenon DEF hit_way
<1>4. stop(set) # {} => FirstWay(stop(set)) \in DOMAIN set
  <2>1. stop(set) \in SUBSET Nat /\ stop(set) \subseteq DOMAIN set
    OBVIOUS
  <2> HIDE DEF stop
  <2> QED
    BY <2>1, FirstWayIsLeast
<1> QED
  BY <1>2, <1>3, <1>4

(***************************************************************************)
(* A new line for a valid entry, and an invalidated entry.                 *)
(***************************************************************************)
Rewritten(old, new, WAYS, way) ==
  \A w \in 0 .. WAYS - 1 :
    /\ new[w].v = old[w].v /\ new[w].tag = old[w].tag
    /\ w # way => new[w].line = old[w].line

LEMMA NewLine ==
  ASSUME NEW WAYS \in Nat \ {0}, NEW L, NEW set \in SetType(WAYS, L),
         NEW way \in 0 .. WAYS - 1, set[way].v, NEW line \in L
  PROVE  /\ [set EXCEPT ![way].line = line] \in SetType(WAYS, L)
         /\ [set EXCEPT ![way].line = line][way].v
         /\ [set EXCEPT ![way].line = line][way].line = line
         /\ Rewritten(set, [set EXCEPT ![way].line = line], WAYS, way)
         /\ \A tag : hit_way([set EXCEPT ![way].line = line], tag) = hit_way(set, tag)
         /\ \A n : StackOf(set, WAYS, n) =>
                    StackOf([set EXCEPT ![way].line = line], WAYS, n)
<1> DEFINE entry == [set[way] EXCEPT !.line = line]
           new   == [set EXCEPT ![way] = entry]
<1>1. set[way] \in ValidEntry(WAYS, L)
  BY DEF SetType, InvalidEntry
<1>2. /\ entry \in ValidEntry(WAYS, L)
      /\ entry.v = set[way].v /\ entry.age = set[way].age
      /\ entry.tag = set[way].tag /\ entry.line = line
  BY <1>1 DEF ValidEntry
<1> HIDE DEF entry
<1>3. /\ new \in SetType(WAYS, L) /\ new[way] = entry
      /\ \A w \in 0 .. WAYS - 1 : w # way => new[w] = set[w]
  BY <1>2 DEF SetType
<1> HIDE DEF new
<1>4. \A w \in 0 .. WAYS - 1 : /\ new[w].v = set[w].v /\ new[w].age = set[w].age
                               /\ new[w].tag = set[w].tag
  <2> TAKE w \in 0 .. WAYS - 1
  <2>1. CASE w = way
    <3>1. new[w] = entry
      BY <1>3, <2>1
    <3> QED
      BY <1>2, <2>1, <3>1, Zenon
  <2>2. CASE w # way
    <3>1. new[w] = set[w]
      BY <1>3, <2>2
    <3> QED
      BY <3>1, Zenon
  <2> QED
    BY <2>1, <2>2, Zenon
<1>5. \A n : StackOf(set, WAYS, n) => StackOf(new, WAYS, n)
  <2> TAKE n
  <2>1. ValidFirst(set, WAYS, n) => ValidFirst(new, WAYS, n)
    BY <1>4, Zenon DEF ValidFirst
  <2>2. TagsDiffer(set, WAYS, n) => TagsDiffer(new, WAYS, n)
    BY <1>4 DEF TagsDiffer
  <2>3. AgesRank(set, WAYS, n) => AgesRank(new, WAYS, n)
    BY <1>4 DEF AgesRank
  <2> QED
    BY <2>1, <2>2, <2>3, StackParts
<1>6. new[way].v /\ new[way].line = line
  BY <1>2, <1>3, Zenon
<1>7. \A tag : hit_way(new, tag) = hit_way(set, tag)
  <2>1. /\ DOMAIN set = 0 .. WAYS - 1 /\ DOMAIN new = 0 .. WAYS - 1
        /\ 0 .. WAYS - 1 \in SUBSET Nat
    BY <1>3 DEF SetType
  <2> QED
    BY <1>4, <2>1, SameHit
<1>8. Rewritten(set, new, WAYS, way)
  BY <1>3, <1>4, Zenon DEF Rewritten
<1> QED
  BY <1>3, <1>5, <1>6, <1>7, <1>8 DEF new, entry

LEMMA InvalidatedType ==
  ASSUME NEW WAYS \in Nat \ {0}, NEW L, NEW set \in SetType(WAYS, L),
         NEW way \in 0 .. WAYS - 1
  PROVE  [set EXCEPT ![way] = Invalidated(@)] \in SetType(WAYS, L)
<1>1. set[way].age \in 0 .. WAYS - 1
  BY Fields
<1>2. Invalidated(set[way]) \in InvalidEntry(WAYS)
  BY <1>1 DEF Invalidated, InvalidEntry, EmptyEntry
<1> QED
  BY <1>2 DEF SetType

(* A flushed index is an empty stack.                                      *)
LEMMA EmptyStack ==
  ASSUME NEW WAYS \in Nat \ {0}, NEW L
  PROVE  /\ [w \in 0 .. WAYS - 1 |-> EmptyEntry] \in SetType(WAYS, L)
         /\ StackOf([w \in 0 .. WAYS - 1 |-> EmptyEntry], WAYS, 0)
<1> DEFINE new == [w \in 0 .. WAYS - 1 |-> EmptyEntry]
<1>1. EmptyEntry \in InvalidEntry(WAYS) /\ EmptyEntry.v = FALSE /\ EmptyEntry.age = 0
  BY DEF EmptyEntry, InvalidEntry
<1>2. new \in SetType(WAYS, L)
  BY <1>1 DEF SetType
<1>3. \A w \in 0 .. WAYS - 1 : ~ new[w].v /\ new[w].age = 0
  BY <1>1
<1> HIDE DEF new
<1>4. StackOf(new, WAYS, 0)
  BY <1>3 DEF StackOf
<1> QED
  BY <1>2, <1>4 DEF new

(* What was inserted is what the next lookup finds: the entries before it  *)
(* are valid and of other blocks.                                          *)
LEMMA InsertedHit ==
  ASSUME NEW WAYS \in Nat \ {0}, NEW L, NEW set \in SetType(WAYS, L),
         NEW tag \in Nat, NEW line \in L, Absent(set, WAYS, tag)
  PROVE  LET new == insert(set, WAYS, tag, line)
         IN  hit_way(new, tag) \in 0 .. WAYS - 1 /\ new[hit_way(new, tag)].line = line
<1> DEFINE way  == PlaceWay(set)
           new  == insert(set, WAYS, tag, line)
           stop == {w \in DOMAIN new : new[w].v => new[w].tag = tag}
<1>1. DOMAIN new = 0 .. WAYS - 1
  BY InsertType DEF SetType
<1>2. /\ way \in 0 .. WAYS - 1
      /\ new[way].v /\ new[way].tag = tag /\ new[way].line = line
      /\ \A w \in 0 .. WAYS - 1 : w # way =>
           new[w].v = set[w].v /\ new[w].tag = set[w].tag
      /\ \A w \in 0 .. WAYS - 1 : w < way => set[w].v
  <2>1. IF isFull(set)
        THEN way = evict(set) /\ \A w \in 0 .. WAYS - 1 : set[w].v
        ELSE ~ set[way].v /\ \A w \in 0 .. WAYS - 1 : w < way => set[w].v
    BY InsertedEntries
  <2> QED
    BY <2>1, InsertedEntries
<1> HIDE DEF way, new
<1>3. \A w \in 0 .. WAYS - 1 : w < way => new[w].v /\ new[w].tag # tag
  <2> TAKE w \in 0 .. WAYS - 1
  <2> HAVE w < way
  <2>1. set[w].v /\ w # way
    BY <1>2
  <2> QED
    BY <1>2, <2>1, Zenon DEF Absent
<1>4. way \in stop /\ stop \in SUBSET Nat /\ stop # {}
  BY <1>1, <1>2
<1>5. FirstWay(stop) = way
  <2>1. FirstWay(stop) \in stop /\ FirstWay(stop) <= way
    <3> HIDE DEF stop
    <3> QED
      BY <1>4, FirstWayIsLeast
  <2>2. FirstWay(stop) \in 0 .. WAYS - 1 /\ ~ (FirstWay(stop) < way)
    BY <1>1, <1>3, <2>1
  <2> QED
    BY <1>2, <2>1, <2>2
<1>6. hit_way(new, tag) = way
  BY <1>2, <1>4, <1>5 DEF hit_way
<1> QED
  BY <1>2, <1>6 DEF new

=============================================================================
