------------------------- MODULE TlbHierarchy_proofs -------------------------
(***************************************************************************)
(* Proofs about the TLB hierarchy and about the accesses of its driver,    *)
(* for every set of pages, every page table and any width of the fields of *)
(* an address.                                                             *)
(***************************************************************************)
EXTENDS TlbAccess, FiniteSetTheorems, TLAPS

(* A page is its tag and its line, in both geometries, and the two agree:  *)
(* the level-1 tag without its two low bits is the level-2 tag.            *)
LEMMA PageSplit ==
  ASSUME NEW p \in Nat
  PROVE  /\ p % 16 \in 0 .. 15 /\ p \div 16 \in Nat
         /\ ((p \div 16) * 16) + (p % 16) = p
         /\ p % 64 \in 0 .. 63 /\ p \div 64 \in Nat
         /\ ((p \div 64) * 64) + (p % 64) = p
         /\ (p \div 16) \div 4 = p \div 64
         /\ (p % 64) % 16 = p % 16
  OBVIOUS

LEMMA PageJoin ==
  ASSUME NEW t \in Nat, NEW i \in 0 .. 15
  PROVE  /\ t * 16 + i \in Nat
         /\ (t * 16 + i) % 16 = i
         /\ (t * 16 + i) \div 16 = t
         /\ (t * 16 + i) \div 64 = t \div 4
  OBVIOUS

LEMMA PageJoin2 ==
  ASSUME NEW t \in Nat, NEW i \in 0 .. 63
  PROVE  /\ t * 64 + i \in Nat
         /\ (t * 64 + i) % 64 = i
         /\ (t * 64 + i) \div 64 = t
  OBVIOUS

(***************************************************************************)
(* The inductive invariant.  Translations alone are not inductive for a    *)
(* search that hits the second level: the entry that is copied to level 1  *)
(* is known to translate the page only because tag and line determine the  *)
(* page.  Inclusion needs the types, for the arithmetic of tags and lines. *)
(***************************************************************************)
Inv == TypeOK /\ TranslationsAgree /\ Inclusion

USE DEF L1_TLB_LINES, L2_TLB_LINES, HIT, MISS

LEMMA InitInv == Init => Inv
<1> SUFFICES ASSUME Init PROVE Inv
  OBVIOUS
<1> USE PagesAssumption DEF Init
<1>1. TypeOK
  BY DEF TypeOK, Entry, FlushedTlb, ZeroEntry, L1Lines, L2Lines
<1>2. TranslationsAgree
  BY DEF TranslationsAgree, FlushedTlb, ZeroEntry
<1>3. Inclusion
  BY DEF Inclusion, FlushedTlb, ZeroEntry
<1> QED
  BY <1>1, <1>2, <1>3 DEF Inv

(* A search that finds the page in the second level holds the page table's *)
(* frame in its hand.                                                      *)
LEMMA L2FrameIsRight ==
  ASSUME Inv, NEW p \in Pages, HitL2(p)
  PROVE  l2_tlb[L2Line(p)].phy_page_num = PageTable[p]
<1>1. p \in Nat /\ L2Line(p) \in L2Lines /\ (L2Tag(p) * 64) + L2Line(p) = p
  BY PagesAssumption, PageSplit DEF L2Line, L2Lines, L2Tag
<1>2. PageAtL2(L2Line(p)) = p
  BY <1>1 DEF HitL2, PageAtL2
<1> QED
  BY <1>1, <1>2 DEF Inv, TranslationsAgree, HitL2, Translates

LEMMA L1FrameIsRight ==
  ASSUME Inv, NEW access \in Accesses, NEW p \in Pages, HitL1(access, p)
  PROVE  l1_tlb[access][L1Line(p)].phy_page_num = PageTable[p]
<1>1. p \in Nat /\ L1Line(p) \in L1Lines /\ (L1Tag(p) * 16) + L1Line(p) = p
  BY PagesAssumption, PageSplit DEF L1Line, L1Lines, L1Tag
<1>2. PageAtL1(access, L1Line(p)) = p
  BY <1>1 DEF HitL1, PageAtL1
<1> QED
  BY <1>1, <1>2 DEF Inv, TranslationsAgree, HitL1, Translates

(* Inclusion read from the page: what level 1 has, level 2 has.            *)
LEMMA IncludedPage ==
  ASSUME Inv, NEW access \in Accesses, NEW p \in Pages, HitL1(access, p)
  PROVE  HitL2(p)
<1>1. p \in Nat /\ L1Line(p) \in L1Lines /\ (L1Tag(p) * 16) + L1Line(p) = p
  BY PagesAssumption, PageSplit DEF L1Line, L1Lines, L1Tag
<1>2. PageAtL1(access, L1Line(p)) = p
  BY <1>1 DEF HitL1, PageAtL1
<1> QED
  BY <1>1, <1>2 DEF Inv, Inclusion, HitL1

(* The entry that a search leaves in the TLB of its access.                *)
LEMMA NewEntry ==
  ASSUME NEW p \in Pages
  PROVE  /\ p \in Nat
         /\ L1Line(p) \in L1Lines /\ L1Tag(p) \in Nat
         /\ L2Line(p) \in L2Lines /\ L2Tag(p) \in Nat
         /\ (L1Tag(p) * 16) + L1Line(p) = p
         /\ (L2Tag(p) * 64) + L2Line(p) = p
         /\ PageTable[p] \in Frames
         /\ EntryFor(L1Tag(p), PageTable[p]) \in Entry
         /\ EntryFor(L2Tag(p), PageTable[p]) \in Entry
<1>1. p \in Nat /\ PageTable[p] \in Frames
  BY PagesAssumption
<1>2. /\ L1Line(p) \in L1Lines /\ L1Tag(p) \in Nat
      /\ L2Line(p) \in L2Lines /\ L2Tag(p) \in Nat
      /\ (L1Tag(p) * 16) + L1Line(p) = p
      /\ (L2Tag(p) * 64) + L2Line(p) = p
  BY <1>1, PageSplit DEF L1Line, L1Tag, L2Line, L2Tag, L1Lines, L2Lines
<1> QED
  BY <1>1, <1>2 DEF EntryFor, Entry

LEMMA HitL2Step ==
  ASSUME Inv, NEW access \in Accesses, NEW p \in Pages, SearchHitL2(access, p)
  PROVE  Inv'
<1> DEFINE frame == l2_tlb[L2Line(p)].phy_page_num
           e     == EntryFor(L1Tag(p), frame)
<1> USE DEF Inv
<1>1. frame = PageTable[p]
  BY L2FrameIsRight DEF SearchHitL2
<1>2. l1_tlb' = [l1_tlb EXCEPT ![access] = [@ EXCEPT ![L1Line(p)] = e]]
  BY DEF SearchHitL2, Inserted, TypeOK
<1>3. e \in Entry
  BY <1>1, NewEntry
<1> HIDE DEF frame
<1>4. TypeOK'
  BY <1>1, <1>2, <1>3, NewEntry DEF TypeOK, SearchHitL2, frame
<1>5. ASSUME NEW a \in Accesses, NEW i \in L1Lines, l1_tlb'[a][i].v
      PROVE  /\ Translates(l1_tlb[a][i], PageAtL1(a, i))'
             /\ HitL2(PageAtL1(a, i))'
  <2>1. CASE a = access /\ i = L1Line(p)
    <3>1. l1_tlb'[a][i] = e
      BY <1>2, <2>1 DEF TypeOK
    <3>2. PageAtL1(a, i)' = p
      <4>1. l1_tlb'[a][i].tag = L1Tag(p)
        BY <3>1 DEF EntryFor
      <4> QED
        BY <4>1, <2>1, NewEntry DEF PageAtL1
    <3>3. HitL2(p)'
      BY DEF SearchHitL2, HitL2
    <3> QED
      BY <1>1, <3>1, <3>2, <3>3 DEF Translates, EntryFor, HitL2
  <2>2. CASE ~ (a = access /\ i = L1Line(p))
    <3>1. l1_tlb'[a][i] = l1_tlb[a][i]
      BY <1>2, <2>2 DEF TypeOK
    <3>2. PageAtL1(a, i)' = PageAtL1(a, i)
      BY <3>1 DEF PageAtL1
    <3> QED
      BY <3>1, <3>2, <1>5 DEF TranslationsAgree, Inclusion, Translates, HitL2, SearchHitL2
  <2> QED
    BY <2>1, <2>2
<1>6. TranslationsAgree'
  BY <1>5 DEF TranslationsAgree, SearchHitL2, PageAtL2
<1>7. Inclusion'
  BY <1>5 DEF Inclusion
<1> QED
  BY <1>4, <1>6, <1>7

LEMMA WalkStep ==
  ASSUME Inv, NEW access \in Accesses, NEW p \in Pages, SearchWalk(access, p)
  PROVE  Inv'
<1> DEFINE previous == l2_tlb[L2Line(p)]
           other    == Other(access)
           e        == EntryFor(L1Tag(p), PageTable[p])
           e2       == EntryFor(L2Tag(p), PageTable[p])
<1> USE DEF Inv
<1>1. other \in Accesses /\ other # access
  BY DEF Other, Accesses, INSTRUCTION, DATA
<1>2. /\ \A i \in L1Lines : l1_tlb'[access][i] =
             IF i = L1Line(p) THEN e ELSE l1_tlb[access][i]
      /\ \A i \in L1Lines : i # L1Line(p) => l1_tlb'[other][i] = l1_tlb[other][i]
      /\ l1_tlb'[other][L1Line(p)] =
           [l1_tlb[other][L1Line(p)] EXCEPT !.v =
              @ /\ ~ (previous.v /\ l1_tlb[other][L1Line(p)].tag \div 4 = previous.tag)]
  BY <1>1, NewEntry DEF SearchWalk, Inserted, Invalidated, TypeOK
<1>3. \A i \in L2Lines : l2_tlb'[i] = IF i = L2Line(p) THEN e2 ELSE l2_tlb[i]
  BY NewEntry DEF SearchWalk, TypeOK
<1>4. TypeOK'
  <2>1. l2_tlb' \in [L2Lines -> Entry]
    BY NewEntry DEF SearchWalk, TypeOK
  <2>2. answer' \in [hit_or_miss : {HIT, MISS}, phy_page_num : Frames]
    BY NewEntry DEF SearchWalk
  <2>3. Inserted(access, p, PageTable[p]) \in [L1Lines -> Entry]
    BY NewEntry DEF Inserted, TypeOK
  <2>4. Invalidated(other, p, previous) \in [L1Lines -> Entry]
    <3> DEFINE old  == l1_tlb[other][L1Line(p)]
               keep == ~ (previous.v /\ old.tag \div 4 = previous.tag)
    <3>1. old \in Entry /\ l1_tlb[other] \in [L1Lines -> Entry]
      BY <1>1, NewEntry DEF TypeOK
    <3>2. (old.v /\ keep) \in BOOLEAN
      OBVIOUS
    <3>3. Invalidated(other, p, previous) =
            [l1_tlb[other] EXCEPT ![L1Line(p)] = [old EXCEPT !.v = old.v /\ keep]]
      BY <3>1, NewEntry DEF Invalidated
    <3> HIDE DEF keep, old
    <3>4. [old EXCEPT !.v = old.v /\ keep] \in Entry
      BY <3>1, <3>2 DEF Entry
    <3> QED
      BY <3>1, <3>3, <3>4
  <2>5. l1_tlb' \in [Accesses -> [L1Lines -> Entry]]
    BY <1>1, <2>3, <2>4 DEF SearchWalk, TypeOK
  <2> QED
    BY <2>1, <2>2, <2>5 DEF TypeOK
\* An entry of level 1 after the step is the new one, or it was there before
\* and its page is not the one that the walk drove out of the second level.
<1>5. ASSUME NEW a \in Accesses, NEW i \in L1Lines, l1_tlb'[a][i].v
      PROVE  /\ Translates(l1_tlb[a][i], PageAtL1(a, i))'
             /\ HitL2(PageAtL1(a, i))'
  <2>1. CASE a = access /\ i = L1Line(p)
    <3>1. l1_tlb'[a][i] = e
      BY <1>2, <2>1
    <3>2. l1_tlb'[a][i].tag = L1Tag(p) /\ l1_tlb'[a][i].phy_page_num = PageTable[p]
      BY <3>1 DEF EntryFor
    <3>3. PageAtL1(a, i)' = p
      BY <3>2, <2>1, NewEntry DEF PageAtL1
    <3>4. HitL2(p)'
      <4>1. l2_tlb'[L2Line(p)] = e2
        BY <1>3, NewEntry
      <4> QED
        BY <4>1 DEF HitL2, EntryFor
    <3> QED
      BY <3>2, <3>3, <3>4 DEF Translates, HitL2
  <2>2. CASE ~ (a = access /\ i = L1Line(p))
    <3>1. /\ l1_tlb[a][i].v
          /\ l1_tlb'[a][i].tag = l1_tlb[a][i].tag
          /\ l1_tlb'[a][i].phy_page_num = l1_tlb[a][i].phy_page_num
      BY <1>1, <1>2, <1>5, <2>2 DEF Accesses, TypeOK, Entry
    <3>2. /\ Translates(l1_tlb[a][i], PageAtL1(a, i))
          /\ HitL2(PageAtL1(a, i))
          /\ PageAtL1(a, i) \in Pages
      BY <3>1 DEF TranslationsAgree, Inclusion, Translates
    <3>3. PICK q \in Pages : q = PageAtL1(a, i)
      BY <3>2
    <3>4. PageAtL1(a, i)' = q
      BY <3>1, <3>3 DEF PageAtL1
    <3>5. HitL2(q) /\ Translates(l1_tlb[a][i], q)
      BY <3>2, <3>3
    <3>6. PICK t \in Nat : t = l1_tlb[a][i].tag
      BY DEF TypeOK, Entry
    <3>7. L1Line(q) = i /\ L2Tag(q) = t \div 4
      <4>1. q = (t * 16) + i /\ i \in 0 .. 15
        BY <3>3, <3>6 DEF PageAtL1, L1Lines
      <4> QED
        BY <4>1, PageJoin DEF L1Line, L2Tag
    <3>8. L2Line(q) # L2Line(p)
      <4> SUFFICES ASSUME L2Line(q) = L2Line(p) PROVE FALSE
        OBVIOUS
      <4>1. L1Line(q) = L1Line(p)
        BY NewEntry, PagesAssumption, PageSplit DEF L1Line, L2Line
      <4>2. a = other /\ i = L1Line(p)
        BY <4>1, <3>7, <2>2, <1>1 DEF Accesses
      <4>3. l1_tlb'[other][L1Line(p)].v <=>
              /\ l1_tlb[other][L1Line(p)].v
              /\ ~ (previous.v /\ l1_tlb[other][L1Line(p)].tag \div 4 = previous.tag)
        <5> DEFINE old  == l1_tlb[other][L1Line(p)]
                   keep == ~ (previous.v /\ old.tag \div 4 = previous.tag)
        <5>1. old \in Entry
          BY <1>1, NewEntry DEF TypeOK
        <5>2. l1_tlb'[other][L1Line(p)] = [old EXCEPT !.v = old.v /\ keep]
          BY <1>2
        <5> HIDE DEF old, keep
        <5>3. [old EXCEPT !.v = old.v /\ keep].v <=> old.v /\ keep
          BY <5>1 DEF Entry
        <5> QED
          BY <5>2, <5>3 DEF old, keep
      <4>4. ~ (previous.v /\ t \div 4 = previous.tag)
        BY <4>2, <4>3, <1>5, <3>6
      <4>5. previous.v /\ previous.tag = t \div 4
        BY <3>5, <3>7 DEF HitL2
      <4> QED
        BY <4>4, <4>5
    <3>9. HitL2(q)'
      <4>1. L2Line(q) \in L2Lines
        BY NewEntry
      <4>2. l2_tlb'[L2Line(q)] = l2_tlb[L2Line(q)]
        BY <4>1, <3>8, <1>3
      <4> QED
        BY <4>2, <3>5 DEF HitL2
    <3> QED
      BY <3>1, <3>4, <3>5, <3>9 DEF Translates, HitL2
  <2> QED
    BY <2>1, <2>2
<1>6. ASSUME NEW i \in L2Lines, l2_tlb'[i].v
      PROVE  Translates(l2_tlb[i], PageAtL2(i))'
  <2>1. CASE i = L2Line(p)
    <3>1. l2_tlb'[i].tag = L2Tag(p) /\ l2_tlb'[i].phy_page_num = PageTable[p]
      BY <1>3, <2>1 DEF EntryFor
    <3>2. PageAtL2(i)' = p
      BY <3>1, <2>1, NewEntry DEF PageAtL2
    <3> QED
      BY <3>1, <3>2 DEF Translates
  <2>2. CASE i # L2Line(p)
    BY <1>3, <1>6, <2>2 DEF TranslationsAgree, PageAtL2, Translates
  <2> QED
    BY <2>1, <2>2
<1>7. TranslationsAgree'
  BY <1>5, <1>6 DEF TranslationsAgree
<1>8. Inclusion'
  BY <1>5 DEF Inclusion
<1> QED
  BY <1>4, <1>7, <1>8

LEMMA FlushStep ==
  ASSUME Inv, NEW access \in Flushes, TlbFlush(access)
  PROVE  Inv'
<1> USE DEF Inv
<1>1. access \in Accesses
  BY FlushAssumption
<1>2. FlushedTlb \in [L1Lines -> Entry] /\ \A i \in L1Lines : ~ FlushedTlb[i].v
  BY PagesAssumption DEF FlushedTlb, ZeroEntry, Entry
<1>3. \A a \in Accesses : l1_tlb'[a] = IF a = access THEN FlushedTlb ELSE l1_tlb[a]
  BY <1>1 DEF TlbFlush, TypeOK
<1>4. TypeOK'
  BY <1>1, <1>2 DEF TypeOK, TlbFlush
<1>5. TranslationsAgree'
  BY <1>2, <1>3 DEF TranslationsAgree, TlbFlush, Translates, PageAtL1, PageAtL2
<1>6. Inclusion'
  BY <1>2, <1>3 DEF Inclusion, TlbFlush, PageAtL1, HitL2
<1> QED
  BY <1>4, <1>5, <1>6

LEMMA NextInv == Inv /\ [Next]_vars => Inv'
<1> SUFFICES ASSUME Inv, [Next]_vars PROVE Inv'
  OBVIOUS
<1>1. ASSUME NEW access \in Accesses, NEW p \in Pages, SearchHitL1(access, p)
      PROVE  Inv'
  <2>1. answer' \in [hit_or_miss : {HIT, MISS}, phy_page_num : Frames]
    BY <1>1, L1FrameIsRight, NewEntry DEF SearchHitL1
  <2> QED
    BY <1>1, <2>1 DEF SearchHitL1, Inv, TypeOK, TranslationsAgree, Inclusion,
                      Translates, PageAtL1, PageAtL2, HitL2
<1>2. CASE UNCHANGED vars
  BY <1>2 DEF vars, Inv, TypeOK, TranslationsAgree, Inclusion,
              Translates, PageAtL1, PageAtL2, HitL2
<1> QED
  BY <1>1, <1>2, HitL2Step, WalkStep, FlushStep DEF Next, Search

LEMMA InvHolds == Spec => []Inv
  BY InitInv, NextInv, PTL DEF Spec

(* The types of the entries and of the answers, for every page table.      *)
THEOREM TypeCorrect == Spec => []TypeOK
<1>1. Inv => TypeOK
  BY DEF Inv
<1> QED
  BY <1>1, InvHolds, PTL

(* No TLB ever holds a translation that the page table does not.           *)
THEOREM TranslationsAreRight == Spec => []TranslationsAgree
<1>1. Inv => TranslationsAgree
  BY DEF Inv
<1> QED
  BY <1>1, InvHolds, PTL

(* The second level includes the first: the invalidation in a walk drops   *)
(* every level-1 entry that would otherwise lose its backing, whatever the *)
(* order of instruction and data accesses.                                 *)
THEOREM InclusionHolds == Spec => []Inclusion
<1>1. Inv => Inclusion
  BY DEF Inv
<1> QED
  BY <1>1, InvHolds, PTL

LEMMA SearchAnswers ==
  ASSUME Inv, NEW access \in Accesses, NEW p \in Pages, Search(access, p)
  PROVE  /\ answer'.phy_page_num = PageTable[p]
         /\ answer'.hit_or_miss = MISS <=> ~ HitL2(p)
<1>1. CASE SearchHitL1(access, p)
  BY <1>1, L1FrameIsRight, IncludedPage DEF SearchHitL1
<1>2. CASE SearchHitL2(access, p)
  BY <1>2, L2FrameIsRight DEF SearchHitL2
<1>3. CASE SearchWalk(access, p)
  BY <1>3 DEF SearchWalk
<1> QED
  BY <1>1, <1>2, <1>3 DEF Search

(* Every search answers what the page table says, and a miss is reported   *)
(* exactly when the second level did not have the page.                    *)
THEOREM SearchesAreRight == Spec => SearchIsCorrect
<1>1. Inv /\ [Next]_vars =>
        [\A access \in Accesses, p \in Pages :
           Search(access, p) =>
             /\ answer'.phy_page_num = PageTable[p]
             /\ answer'.hit_or_miss = MISS <=> ~ HitL2(p)]_vars
  BY SearchAnswers
<1> QED
  BY <1>1, InvHolds, PTL DEF Spec, SearchIsCorrect

(* A walk leaves every other line of the other level-1 TLB as it was.      *)
LEMMA WalkOther ==
  ASSUME Inv, NEW access \in Accesses, NEW p \in Pages, NEW q \in Pages,
         SearchWalk(access, p), L1Line(q) # L1Line(p)
  PROVE  l1_tlb'[Other(access)][L1Line(q)] = l1_tlb[Other(access)][L1Line(q)]
<1>1. /\ Other(access) \in Accesses /\ Other(access) # access
      /\ L1Line(q) \in L1Lines /\ L1Line(p) \in L1Lines
      /\ l1_tlb \in [Accesses -> [L1Lines -> Entry]]
  BY NewEntry DEF Other, Accesses, INSTRUCTION, DATA, Inv, TypeOK
<1> QED
  BY <1>1 DEF SearchWalk, Invalidated

(* A search takes an entry from the TLB of the other access only when it   *)
(* walks, and then only on the line of the page it looks for.              *)
THEOREM OtherTlbIsKept == Spec => OtherTlbKept
<1> DEFINE Kept ==
       \A access \in Accesses, p \in Pages :
         Search(access, p) =>
           \A q \in Pages :
             /\ HitL1(Other(access), q)
             /\ HitL2(p) \/ L1Line(q) # L1Line(p)
             => HitL1(Other(access), q)'
<1>1. Inv /\ [Next]_vars => [Kept]_vars
  <2> SUFFICES ASSUME Inv, NEW access \in Accesses, NEW p \in Pages,
                      Search(access, p), NEW q \in Pages,
                      HitL1(Other(access), q),
                      HitL2(p) \/ L1Line(q) # L1Line(p)
               PROVE  HitL1(Other(access), q)'
    OBVIOUS
  <2>1. Other(access) \in Accesses /\ Other(access) # access
    BY DEF Other, Accesses, INSTRUCTION, DATA
  <2>2. CASE SearchHitL1(access, p)
    BY <2>2 DEF SearchHitL1, HitL1
  <2>3. CASE SearchHitL2(access, p)
    <3>1. l1_tlb'[Other(access)] = l1_tlb[Other(access)]
      BY <2>1, <2>3 DEF SearchHitL2, Inv, TypeOK
    <3> QED
      BY <3>1 DEF HitL1
  <2>4. CASE SearchWalk(access, p)
    <3>1. L1Line(q) # L1Line(p)
      BY <2>4 DEF SearchWalk
    <3> QED
      BY <2>4, <3>1, WalkOther DEF HitL1
  <2> QED
    BY <2>2, <2>3, <2>4 DEF Search
<1> QED
  BY <1>1, InvHolds, PTL DEF Spec, OtherTlbKept

(***************************************************************************)
(* The two releases side by side.  What has to hold beside SameAnswers is  *)
(* the invariant of src/done, which says why an entry that only the second *)
(* release lost costs no answer: its page is in the second level, with the *)
(* page table's frame.                                                     *)
(***************************************************************************)
SecondTyped ==
  second \in [l1     : [Accesses -> [L1Lines -> Entry]],
              l2     : [L2Lines -> Entry],
              answer : [hit_or_miss : {HIT, MISS}, phy_page_num : Frames]]

BothInv == Inv /\ SecondTyped /\ SameAnswers

(* Whether the second release finds the page, in terms of its entries.     *)
SecondHitL1(access, p) ==
  LET e == second.l1[access][L1Line(p)] IN e.v /\ e.tag = L1Tag(p)

LEMMA SecondAsks ==
  ASSUME BothInv, NEW access \in Accesses, NEW p \in Pages
  PROVE  /\ Projet02!hit_generic(second.l1[access], p, 16) =
              IF SecondHitL1(access, p) THEN {second.l1[access][L1Line(p)]} ELSE {}
         /\ Projet02!hit_generic(second.l2, p, 64) =
              IF HitL2(p) THEN {l2_tlb[L2Line(p)]} ELSE {}
<1>1. second.l2 = l2_tlb
  BY DEF BothInv, SameAnswers
<1> QED
  BY <1>1 DEF Projet02!hit_generic, SecondHitL1, HitL2,
              L1Line, L1Tag, L2Line, L2Tag

LEMMA SecondSearch ==
  ASSUME BothInv, NEW access \in Accesses, NEW p \in Pages,
         second' = Projet02!tlb_search(second, access, p)
  PROVE  second' =
    LET entry    == l2_tlb[L2Line(p)]
        frame    == IF HitL2(p) THEN entry.phy_page_num ELSE PageTable[p]
        none     == [v |-> FALSE, tag |-> 0]
        previous == IF HitL2(p) THEN none ELSE entry
    IN  IF SecondHitL1(access, p)
        THEN [second EXCEPT !.answer =
                [hit_or_miss  |-> HIT,
                 phy_page_num |-> second.l1[access][L1Line(p)].phy_page_num]]
        ELSE [l1 |-> [second.l1 EXCEPT
                        ![access] = [@ EXCEPT ![L1Line(p)] = EntryFor(L1Tag(p), frame)],
                        ![Other(access)] =
                           Projet02!invalidate(@, p, previous, HitL2(p))],
              l2 |-> IF HitL2(p) THEN l2_tlb
                     ELSE [l2_tlb EXCEPT ![L2Line(p)] = EntryFor(L2Tag(p), frame)],
              answer |-> [hit_or_miss  |-> IF HitL2(p) THEN HIT ELSE MISS,
                          phy_page_num |-> frame]]
<1>1. second.l2 = l2_tlb
  BY DEF BothInv, SameAnswers
<1>2. Projet02!L1_LINES = 16 /\ Projet02!L2_LINES = 64
  BY DEF Projet02!L1_LINES, Projet02!L2_LINES
<1>3. Projet02!other(access) = Other(access)
  BY DEF Projet02!other, Other, INSTRUCTION, DATA
<1>4. CASE SecondHitL1(access, p)
  BY <1>2, <1>4, SecondAsks DEF Projet02!tlb_search
<1>5. CASE ~ SecondHitL1(access, p) /\ HitL2(p)
  BY <1>1, <1>2, <1>3, <1>5, SecondAsks
     DEF Projet02!tlb_search, Projet02!insert_generic, Projet02!init_generic,
         EntryFor, L1Line, L1Tag, L2Line, L2Tag
<1>6. CASE ~ SecondHitL1(access, p) /\ ~ HitL2(p)
  <2>1. HitL2(p) = FALSE
    BY <1>6 DEF HitL2
  <2>2. /\ Projet02!hit_generic(second.l1[access], p, 16) = {}
        /\ Projet02!hit_generic(second.l2, p, 64) = {}
    BY <1>6, SecondAsks
  <2> DEFINE first == second.l1[access]
             past  == second.l1[Other(access)]
             e     == EntryFor(L1Tag(p), PageTable[p])
             e2    == EntryFor(L2Tag(p), PageTable[p])
             gone  == Projet02!invalidate(past, p, l2_tlb[L2Line(p)], FALSE)
             found == [l1 |-> [second.l1 EXCEPT
                                 ![access] = [first EXCEPT ![L1Line(p)] = e],
                                 ![Other(access)] = gone],
                       l2 |-> [l2_tlb EXCEPT ![L2Line(p)] = e2],
                       answer |-> [hit_or_miss |-> MISS, phy_page_num |-> PageTable[p]]]
  <2>3. /\ Projet02!insert_generic(first, p, PageTable[p], 16) = [first EXCEPT ![L1Line(p)] = e]
        /\ Projet02!insert_generic(l2_tlb, p, PageTable[p], 64) = [l2_tlb EXCEPT ![L2Line(p)] = e2]
    BY DEF Projet02!insert_generic, Projet02!init_generic,
           EntryFor, L1Line, L1Tag, L2Line, L2Tag
  <2>4. Projet02!tlb_search(second, access, p) =
          [l1 |-> [second.l1 EXCEPT
                     ![access] = Projet02!insert_generic(first, p, PageTable[p], 16),
                     ![Other(access)] = gone],
           l2 |-> Projet02!insert_generic(l2_tlb, p, PageTable[p], 64),
           answer |-> [hit_or_miss |-> MISS, phy_page_num |-> PageTable[p]]]
    BY <1>1, <1>2, <1>3, <2>2 DEF Projet02!tlb_search, L2Line
  <2>5. second' = found
    BY <2>3, <2>4
  <2> QED
    BY <1>6, <2>1, <2>5
<1> QED
  BY <1>4, <1>5, <1>6

(* Its invalidate changes nothing but the bit v of the page's line.        *)
LEMMA SecondInvalidate ==
  ASSUME NEW tlb \in [L1Lines -> Entry], NEW p \in Pages,
         NEW previous, NEW needEviction
  PROVE  LET left == Projet02!invalidate(tlb, p, previous, needEviction)
         IN  /\ left \in [L1Lines -> Entry]
             /\ \A i \in L1Lines : i # L1Line(p) => left[i] = tlb[i]
             /\ left[L1Line(p)] =
                  [tlb[L1Line(p)] EXCEPT !.v =
                     @ /\ ~ needEviction
                       /\ ~ (previous.v /\ tlb[L1Line(p)].tag \div 4 = previous.tag)]
<1> DEFINE old   == tlb[L1Line(p)]
           stays == ~ needEviction /\ ~ (previous.v /\ old.tag \div 4 = previous.tag)
           new   == [old EXCEPT !.v = old.v /\ stays]
           left  == Projet02!invalidate(tlb, p, previous, needEviction)
<1>1. old \in Entry /\ L1Line(p) \in L1Lines /\ L1Line(p) = p % 16
  BY NewEntry DEF L1Line
<1>2. (old.v /\ stays) \in BOOLEAN
  OBVIOUS
<1>3. left = [tlb EXCEPT ![L1Line(p)] =
                [old EXCEPT !.v = old.v /\ ~ needEviction
                   /\ ~ (previous.v /\ old.tag \div 4 = previous.tag)]]
  BY <1>1 DEF Projet02!invalidate, Projet02!L1_LINES
<1>4. new \in Entry
  <2> HIDE DEF old, stays
  <2> QED
    BY <1>1, <1>2 DEF Entry
<1>5. [old EXCEPT !.v = old.v /\ ~ needEviction
         /\ ~ (previous.v /\ old.tag \div 4 = previous.tag)] = new
  OBVIOUS
<1> HIDE DEF old, new, left
<1>6. left = [tlb EXCEPT ![L1Line(p)] = new]
  BY <1>3, <1>5
<1>7. /\ left \in [L1Lines -> Entry]
      /\ \A i \in L1Lines : i # L1Line(p) => left[i] = tlb[i]
      /\ left[L1Line(p)] = new
  BY <1>1, <1>4, <1>6
<1> QED
  BY <1>5, <1>7 DEF left, old

(* What each release leaves in its level-1 TLBs, line by line, when the    *)
(* second one has to ask its second level.                                 *)
LEMMA SecondLines ==
  ASSUME BothInv, NEW access \in Accesses, NEW p \in Pages,
         second' = Projet02!tlb_search(second, access, p),
         ~ SecondHitL1(access, p)
  PROVE  /\ SecondTyped'
         /\ second'.l1[access][L1Line(p)] = EntryFor(L1Tag(p), PageTable[p])
         /\ \A a \in Accesses, i \in L1Lines :
              i # L1Line(p) => second'.l1[a][i] = second.l1[a][i]
         /\ HitL2(p) => ~ second'.l1[Other(access)][L1Line(p)].v
         /\ ~ HitL2(p) =>
              LET old      == second.l1[Other(access)][L1Line(p)]
                  previous == l2_tlb[L2Line(p)]
              IN  second'.l1[Other(access)][L1Line(p)] =
                    [old EXCEPT !.v =
                       @ /\ ~ (previous.v /\ old.tag \div 4 = previous.tag)]
         /\ second'.l2 = IF HitL2(p) THEN l2_tlb
                         ELSE [l2_tlb EXCEPT ![L2Line(p)] =
                                 EntryFor(L2Tag(p), PageTable[p])]
         /\ second'.answer = [hit_or_miss  |-> IF HitL2(p) THEN HIT ELSE MISS,
                              phy_page_num |-> PageTable[p]]
<1> DEFINE other == Other(access)
           entry == l2_tlb[L2Line(p)]
           none  == [v |-> FALSE, tag |-> 0]
           frame == IF HitL2(p) THEN entry.phy_page_num ELSE PageTable[p]
           previous == IF HitL2(p) THEN none ELSE entry
           left  == Projet02!invalidate(second.l1[other], p, previous, HitL2(p))
           e     == EntryFor(L1Tag(p), PageTable[p])
           e2    == EntryFor(L2Tag(p), PageTable[p])
           mine  == [second.l1[access] EXCEPT ![L1Line(p)] = e]
           l2    == IF HitL2(p) THEN l2_tlb ELSE [l2_tlb EXCEPT ![L2Line(p)] = e2]
           reply == [hit_or_miss  |-> IF HitL2(p) THEN HIT ELSE MISS,
                     phy_page_num |-> PageTable[p]]
<1>1. other \in Accesses /\ other # access
  BY DEF Other, Accesses, INSTRUCTION, DATA
<1>2. frame = PageTable[p]
  BY L2FrameIsRight DEF BothInv
<1>3. second' = [l1 |-> [second.l1 EXCEPT ![access] = mine, ![other] = left],
                 l2 |-> l2, answer |-> reply]
  BY <1>1, <1>2, SecondSearch
<1>4. /\ second.l1 \in [Accesses -> [L1Lines -> Entry]]
      /\ l2_tlb \in [L2Lines -> Entry]
  BY DEF BothInv, SecondTyped, Inv, TypeOK
<1>5. /\ left \in [L1Lines -> Entry]
      /\ \A i \in L1Lines : i # L1Line(p) => left[i] = second.l1[other][i]
      /\ left[L1Line(p)] =
           [second.l1[other][L1Line(p)] EXCEPT !.v =
              @ /\ ~ HitL2(p)
                /\ ~ (previous.v /\ second.l1[other][L1Line(p)].tag \div 4 = previous.tag)]
  BY <1>1, <1>4, SecondInvalidate
<1>6. HitL2(p) => ~ left[L1Line(p)].v
  <2>1. second.l1[other][L1Line(p)] \in Entry
    BY <1>1, <1>4, NewEntry
  <2> QED
    BY <2>1, <1>5 DEF Entry
<1>7. ~ HitL2(p) =>
         left[L1Line(p)] =
           [second.l1[other][L1Line(p)] EXCEPT !.v =
              @ /\ ~ (entry.v /\ second.l1[other][L1Line(p)].tag \div 4 = entry.tag)]
  <2> SUFFICES ASSUME ~ HitL2(p)
               PROVE  left[L1Line(p)] =
                        [second.l1[other][L1Line(p)] EXCEPT !.v =
                           @ /\ ~ (entry.v
                                   /\ second.l1[other][L1Line(p)].tag \div 4 = entry.tag)]
    OBVIOUS
  <2>1. previous = entry
    OBVIOUS
  <2>2. left[L1Line(p)] =
          [second.l1[other][L1Line(p)] EXCEPT !.v =
             @ /\ ~ HitL2(p)
               /\ ~ (entry.v /\ second.l1[other][L1Line(p)].tag \div 4 = entry.tag)]
    BY <1>5, <2>1
  <2> QED
    BY <2>2
<1>8. /\ e \in Entry /\ e2 \in Entry /\ L1Line(p) \in L1Lines /\ L2Line(p) \in L2Lines
      /\ PageTable[p] \in Frames
  BY NewEntry
<1> HIDE DEF left, e, e2, other
<1>9. /\ mine \in [L1Lines -> Entry] /\ mine[L1Line(p)] = e
      /\ \A i \in L1Lines : i # L1Line(p) => mine[i] = second.l1[access][i]
      /\ l2 \in [L2Lines -> Entry]
      /\ reply \in [hit_or_miss : {HIT, MISS}, phy_page_num : Frames]
  BY <1>4, <1>8
<1> HIDE DEF mine, l2, reply
<1>10. /\ second'.l1 \in [Accesses -> [L1Lines -> Entry]]
      /\ second'.l1[access] = mine /\ second'.l1[other] = left
      /\ second'.l2 = l2 /\ second'.answer = reply
  <2>1. /\ second'.l1 = [second.l1 EXCEPT ![access] = mine, ![other] = left]
        /\ second'.l2 = l2 /\ second'.answer = reply
    BY <1>3
  <2> QED
    BY <1>1, <1>4, <1>5, <1>9, <2>1
<1>11. SecondTyped'
  BY <1>3, <1>9, <1>10 DEF SecondTyped
<1>12. \A a \in Accesses, i \in L1Lines :
         i # L1Line(p) => second'.l1[a][i] = second.l1[a][i]
  <2>1. \A a \in Accesses : a = access \/ a = other
    BY DEF Accesses, other, Other
  <2> QED
    BY <2>1, <1>5, <1>9, <1>10
<1> QED
  BY <1>6, <1>7, <1>9, <1>10, <1>11, <1>12
     DEF e, e2, l2, other, reply

LEMMA BothSearchStep ==
  ASSUME BothInv, NEW access \in Accesses, NEW p \in Pages, BothSearch(access, p)
  PROVE  (SecondTyped /\ SameAnswers)'
<1> DEFINE e     == EntryFor(L1Tag(p), PageTable[p])
           other == Other(access)
<1>1. /\ Inv
      /\ second.answer = answer /\ second.l2 = l2_tlb
      /\ \A a \in Accesses, i \in L1Lines :
           second.l1[a][i].v => second.l1[a][i] = l1_tlb[a][i]
      /\ Search(access, p)
      /\ second' = Projet02!tlb_search(second, access, p)
      /\ L1Line(p) \in L1Lines /\ L2Line(p) \in L2Lines
      /\ l1_tlb \in [Accesses -> [L1Lines -> Entry]]
      /\ l2_tlb \in [L2Lines -> Entry]
      /\ second \in [l1     : [Accesses -> [L1Lines -> Entry]],
                     l2     : [L2Lines -> Entry],
                     answer : [hit_or_miss : {HIT, MISS}, phy_page_num : Frames]]
  BY NewEntry DEF BothInv, SameAnswers, BothSearch, Inv, TypeOK, SecondTyped
<1>2. /\ other \in Accesses /\ other # access
      /\ \A a \in Accesses : a = access \/ a = other
  BY DEF Other, Accesses, INSTRUCTION, DATA
<1>3. CASE SecondHitL1(access, p)
  <2> DEFINE mine  == second.l1[access][L1Line(p)]
             reply == [hit_or_miss |-> HIT, phy_page_num |-> mine.phy_page_num]
  <2>1. mine = l1_tlb[access][L1Line(p)] /\ HitL1(access, p)
    BY <1>1, <1>3 DEF SecondHitL1, HitL1
  <2>2. SearchHitL1(access, p)
    BY <1>1, <2>1 DEF Search, SearchHitL2, SearchWalk
  <2>3. second' = [second EXCEPT !.answer = reply]
    BY <1>1, <1>3, SecondSearch
  <2>4. answer' = reply
    BY <2>1, <2>2 DEF SearchHitL1
  <2>5. reply \in [hit_or_miss : {HIT, MISS}, phy_page_num : Frames]
    BY <1>1 DEF Entry
  <2> HIDE DEF reply
  <2>6. /\ second'.l1 = second.l1 /\ second'.l2 = second.l2 /\ second'.answer = reply
        /\ SecondTyped'
    BY <1>1, <2>3, <2>5 DEF SecondTyped
  <2> QED
    BY <1>1, <2>2, <2>4, <2>6 DEF SameAnswers, SearchHitL1
<1>4. CASE ~ SecondHitL1(access, p) /\ HitL2(p)
  <2>1. /\ SecondTyped'
        /\ second'.l1[access][L1Line(p)] = e
        /\ \A a \in Accesses, i \in L1Lines :
             i # L1Line(p) => second'.l1[a][i] = second.l1[a][i]
        /\ ~ second'.l1[other][L1Line(p)].v
        /\ second'.l2 = l2_tlb
        /\ second'.answer = [hit_or_miss |-> HIT, phy_page_num |-> PageTable[p]]
    BY <1>1, <1>4, SecondLines
  <2>2. /\ l1_tlb'[access][L1Line(p)] = e
        /\ \A i \in L1Lines : i # L1Line(p) => l1_tlb'[access][i] = l1_tlb[access][i]
        /\ l1_tlb'[other] = l1_tlb[other]
        /\ l2_tlb' = l2_tlb
        /\ answer' = [hit_or_miss |-> HIT, phy_page_num |-> PageTable[p]]
    <3>1. CASE SearchHitL1(access, p)
      <4>1. HitL1(access, p)
        BY <3>1 DEF SearchHitL1
      <4>2. /\ l1_tlb[access][L1Line(p)] \in Entry
            /\ l1_tlb[access][L1Line(p)].phy_page_num = PageTable[p]
        BY <1>1, <4>1, L1FrameIsRight
      <4>3. l1_tlb[access][L1Line(p)] = e
        BY <4>1, <4>2 DEF HitL1, EntryFor, Entry
      <4> QED
        BY <3>1, <4>2, <4>3 DEF SearchHitL1
    <3>2. CASE SearchHitL2(access, p)
      <4>1. l2_tlb[L2Line(p)].phy_page_num = PageTable[p]
        BY <1>1, <1>4, L2FrameIsRight
      <4>2. /\ l1_tlb' = [l1_tlb EXCEPT ![access] = [l1_tlb[access] EXCEPT ![L1Line(p)] = e]]
            /\ l2_tlb' = l2_tlb
            /\ answer' = [hit_or_miss |-> HIT, phy_page_num |-> PageTable[p]]
        BY <3>2, <4>1 DEF SearchHitL2, Inserted
      <4> HIDE DEF e
      <4> QED
        BY <1>1, <1>2, <4>2
    <3>3. CASE SearchWalk(access, p)
      BY <1>4, <3>3 DEF SearchWalk
    <3> QED
      BY <1>1, <3>1, <3>2, <3>3 DEF Search
  <2> HIDE DEF e, other
  <2>3. ASSUME NEW a \in Accesses, NEW i \in L1Lines, second'.l1[a][i].v
        PROVE  second'.l1[a][i] = l1_tlb'[a][i]
    <3>1. CASE i = L1Line(p)
      BY <1>2, <2>1, <2>2, <2>3, <3>1
    <3>2. CASE i # L1Line(p)
      BY <1>1, <1>2, <2>1, <2>2, <2>3, <3>2
    <3> QED
      BY <3>1, <3>2
  <2> QED
    BY <2>1, <2>2, <2>3 DEF SameAnswers
<1>5. CASE ~ SecondHitL1(access, p) /\ ~ HitL2(p)
  <2> DEFINE e2       == EntryFor(L2Tag(p), PageTable[p])
             previous == l2_tlb[L2Line(p)]
             old      == second.l1[other][L1Line(p)]
             here     == l1_tlb[other][L1Line(p)]
             Dropped(entry) ==
               [entry EXCEPT !.v = @ /\ ~ (previous.v /\ entry.tag \div 4 = previous.tag)]
  <2>1. /\ SecondTyped'
        /\ second'.l1[access][L1Line(p)] = e
        /\ \A a \in Accesses, i \in L1Lines :
             i # L1Line(p) => second'.l1[a][i] = second.l1[a][i]
        /\ second'.l1[other][L1Line(p)] = Dropped(old)
        /\ second'.l2 = [l2_tlb EXCEPT ![L2Line(p)] = e2]
        /\ second'.answer = [hit_or_miss |-> MISS, phy_page_num |-> PageTable[p]]
    <3>1. second' = Projet02!tlb_search(second, access, p)
      BY <1>1
    <3>2. ~ SecondHitL1(access, p)
      BY <1>5
    <3>3. ~ HitL2(p)
      BY <1>5
    <3> QED
      BY <3>1, <3>2, <3>3, SecondLines, Zenon
  <2>2. SearchWalk(access, p)
    BY <1>1, <1>5, IncludedPage DEF Search, SearchHitL1, SearchHitL2
  <2>3. /\ l1_tlb'[access][L1Line(p)] = e
        /\ \A a \in Accesses, i \in L1Lines :
             i # L1Line(p) => l1_tlb'[a][i] = l1_tlb[a][i]
        /\ l1_tlb'[other][L1Line(p)] = Dropped(here)
        /\ l2_tlb' = [l2_tlb EXCEPT ![L2Line(p)] = e2]
        /\ answer' = [hit_or_miss |-> MISS, phy_page_num |-> PageTable[p]]
    BY <1>1, <1>2, <2>2 DEF SearchWalk, Inserted, Invalidated
  <2>4. Dropped(old).v => old.v
    <3>1. old \in Entry
      BY <1>1, <1>2
    <3> HIDE DEF old, previous
    <3> QED
      BY <3>1 DEF Entry
  <2>5. old.v => Dropped(old) = Dropped(here)
    BY <1>1, <1>2
  <2> HIDE DEF Dropped, e
  <2>6. ASSUME NEW a \in Accesses, NEW i \in L1Lines, second'.l1[a][i].v
        PROVE  second'.l1[a][i] = l1_tlb'[a][i]
    <3>1. CASE i = L1Line(p)
      BY <1>2, <2>1, <2>3, <2>4, <2>5, <2>6, <3>1
    <3>2. CASE i # L1Line(p)
      BY <1>1, <2>1, <2>3, <2>6, <3>2
    <3> QED
      BY <3>1, <3>2
  <2> QED
    BY <2>1, <2>3, <2>6 DEF SameAnswers
<1> QED
  BY <1>3, <1>4, <1>5

LEMMA BothFlushStep ==
  ASSUME BothInv, NEW access \in Flushes, BothFlush(access)
  PROVE  (SecondTyped /\ SameAnswers)'
<1>1. access \in Accesses
  BY FlushAssumption
<1>2. second' = [second EXCEPT !.l1 = [second.l1 EXCEPT ![access] = FlushedTlb]]
  BY <1>1 DEF BothFlush, BothInv, SecondTyped, FlushedTlb, ZeroEntry, L1Lines,
              Projet02!tlb_flush, Projet02!ZeroTlb, Projet02!L1_LINES
<1>3. FlushedTlb \in [L1Lines -> Entry] /\ \A i \in L1Lines : ~ FlushedTlb[i].v
  BY PagesAssumption DEF FlushedTlb, ZeroEntry, Entry
<1> HIDE DEF FlushedTlb
<1>4. /\ l1_tlb' = [l1_tlb EXCEPT ![access] = FlushedTlb]
      /\ l2_tlb' = l2_tlb /\ answer' = answer
      /\ l1_tlb \in [Accesses -> [L1Lines -> Entry]]
  BY DEF BothFlush, TlbFlush, BothInv, Inv, TypeOK
<1>5. /\ second'.l1 = [second.l1 EXCEPT ![access] = FlushedTlb]
      /\ second'.l2 = second.l2 /\ second'.answer = second.answer
      /\ SecondTyped'
  BY <1>1, <1>2, <1>3 DEF BothInv, SecondTyped
<1>6. second.l1 \in [Accesses -> [L1Lines -> Entry]]
  BY DEF BothInv, SecondTyped
<1> QED
  BY <1>1, <1>3, <1>4, <1>5, <1>6 DEF BothInv, SameAnswers

LEMMA BothInitInv == ReleasesInit => BothInv
<1> SUFFICES ASSUME ReleasesInit PROVE BothInv
  OBVIOUS
<1>1. Inv
  BY InitInv DEF ReleasesInit
<1>2. second = [l1 |-> l1_tlb, l2 |-> l2_tlb, answer |-> answer]
  BY DEF ReleasesInit, Init, FlushedTlb, ZeroEntry, L1Lines, L2Lines,
         Projet02!Flushed, Projet02!ZeroTlb, Projet02!L1_LINES, Projet02!L2_LINES
<1>3. SecondTyped
  BY <1>1, <1>2 DEF Inv, TypeOK, SecondTyped
<1>4. SameAnswers
  BY <1>2 DEF SameAnswers
<1> QED
  BY <1>1, <1>3, <1>4 DEF BothInv

LEMMA BothNextInv ==
  BothInv /\ [ReleasesNext]_<<vars, second>> => BothInv'
<1> SUFFICES ASSUME BothInv, [ReleasesNext]_<<vars, second>> PROVE BothInv'
  OBVIOUS
<1>1. [Next]_vars
  BY DEF ReleasesNext, BothSearch, BothFlush, Next
<1>2. Inv'
  BY <1>1, NextInv DEF BothInv
<1>3. CASE UNCHANGED << vars, second >>
  BY <1>2, <1>3 DEF vars, BothInv, SecondTyped, SameAnswers
<1> QED
  BY <1>2, <1>3, BothSearchStep, BothFlushStep DEF BothInv, ReleasesNext

(* Given the same searches and flushes, src/done and its second graded     *)
(* release give the same answers and keep the same second level, and what  *)
(* the release still holds in level 1 src/done holds as well: the eviction *)
(* that a hit in the second level causes there can be seen from no answer. *)
THEOREM ReleasesAnswerAlike == ReleasesSpec => []SameAnswers
<1>1. BothInv => SameAnswers
  BY DEF BothInv
<1> QED
  BY <1>1, BothInitInv, BothNextInv, PTL DEF ReleasesSpec

-----------------------------------------------------------------------------
(***************************************************************************)
(* Addresses.  Masks and shifts are remainders and quotients by powers of  *)
(* two, for any widths of the fields.                                      *)
(***************************************************************************)

(* There are 2^n sets of numbers up to n, so 2^n is a positive number.     *)
LEMMA PowerPositive == \A n \in Nat : 2^n \in Nat \ {0}
<1> TAKE n \in Nat
<1>1. IsFiniteSet(1 .. n) /\ Cardinality(1 .. n) = n
  BY FS_Interval
<1>2. IsFiniteSet(SUBSET (1 .. n)) /\ Cardinality(SUBSET (1 .. n)) = 2^n
  BY <1>1, FS_SUBSET
<1>3. SUBSET (1 .. n) # {}
  OBVIOUS
<1> QED
  BY <1>2, <1>3, FS_CardinalityType, FS_EmptySet

(* A set of numbers up to a + b is a set of numbers up to a and one of     *)
(* numbers between.                                                        *)
LEMMA PowerAdds == \A a, b \in Nat : 2^(a + b) = 2^a * 2^b
<1> TAKE a, b \in Nat
<1> DEFINE A == 1 .. a
           B == a + 1 .. a + b
           S == (SUBSET A) \X (SUBSET B)
           T == SUBSET (1 .. a + b)
           f == [u \in S |-> u[1] \cup u[2]]
<1>1. /\ IsFiniteSet(A) /\ Cardinality(A) = a
      /\ IsFiniteSet(B) /\ Cardinality(B) = b
      /\ IsFiniteSet(1 .. a + b) /\ Cardinality(1 .. a + b) = a + b
  <2>1. /\ Cardinality(A) = IF 1 > a THEN 0 ELSE a - 1 + 1
        /\ Cardinality(B) = IF a + 1 > a + b THEN 0 ELSE a + b - (a + 1) + 1
        /\ Cardinality(1 .. a + b) = IF 1 > a + b THEN 0 ELSE a + b - 1 + 1
        /\ IsFiniteSet(A) /\ IsFiniteSet(B) /\ IsFiniteSet(1 .. a + b)
    BY FS_Interval
  <2> QED
    BY <2>1
<1>2. /\ IsFiniteSet(SUBSET A) /\ Cardinality(SUBSET A) = 2^a
      /\ IsFiniteSet(SUBSET B) /\ Cardinality(SUBSET B) = 2^b
      /\ Cardinality(T) = 2^(a + b)
  <2> HIDE DEF A, B
  <2> QED
    BY <1>1, FS_SUBSET
<1>3. IsFiniteSet(S) /\ Cardinality(S) = 2^a * 2^b
  <2> HIDE DEF A, B
  <2> QED
    BY <1>2, FS_Product
<1>4. f \in Bijection(S, T)
  <2>1. A \cup B = 1 .. a + b /\ A \cap B = {}
    OBVIOUS
  <2> HIDE DEF A, B
  <2>2. f \in [S -> T]
    BY <2>1
  <2>3. ASSUME NEW u \in S, NEW w \in S, f[u] = f[w] PROVE u = w
    <3>1. u[1] \subseteq A /\ w[1] \subseteq A /\ u[2] \subseteq B /\ w[2] \subseteq B
      OBVIOUS
    <3>2. u[1] \cup u[2] = w[1] \cup w[2]
      BY <2>3
    <3>3. u[1] = w[1] /\ u[2] = w[2]
      BY <2>1, <3>1, <3>2
    <3> QED
      BY <3>3
  <2>4. ASSUME NEW t \in T PROVE \E u \in S : f[u] = t
    <3>1. << t \cap A, t \cap B >> \in S
      OBVIOUS
    <3>2. f[<< t \cap A, t \cap B >>] = t
      BY <2>1, <3>1
    <3> QED
      BY <3>1, <3>2
  <2> HIDE DEF f, S, T
  <2> QED
    BY <2>2, <2>3, <2>4 DEF Bijection, Injection, Surjection, IsInjective
<1> HIDE DEF A, B, S, T, f
<1>5. Cardinality(T) = Cardinality(S)
  BY <1>3, <1>4, FS_Bijection DEF ExistsBijection
<1> QED
  BY <1>2, <1>3, <1>5

LEMMA DivMod ==
  ASSUME NEW x \in Nat, NEW q \in Nat \ {0}
  PROVE  x \div q \in Nat /\ x % q \in 0 .. q - 1 /\ x = (x \div q) * q + (x % q)
  OBVIOUS
LEMMA DivModUnique ==
  ASSUME NEW q \in Nat \ {0}, NEW d \in Nat, NEW r \in 0 .. q-1
  PROVE (d * q + r) \div q = d /\ (d*q+r) % q = r
  OBVIOUS

(* Cutting a number by q and the rest by d is cutting it by q * d.         *)
LEMMA CutTwice ==
  ASSUME NEW x \in Nat, NEW q \in Nat \ {0}, NEW d \in Nat \ {0}
  PROVE  /\ q * d \in Nat \ {0}
         /\ x \div (q * d) = (x \div q) \div d
         /\ x % (q * d) = ((x \div q) % d) * q + (x % q)
<1> DEFINE y == x \div q
           r == x % q
           z == y \div d
           s == y % d
<1>1. y \in Nat /\ r \in 0 .. q - 1 /\ x = y * q + r
  BY DivMod
<1>2. z \in Nat /\ s \in 0 .. d - 1 /\ y = z * d + s
  BY <1>1, DivMod
<1> HIDE DEF y, r, z, s
<1>3. q * d \in Nat \ {0}
  OBVIOUS
<1>4. s * q + r \in 0 .. q * d - 1
  <2>1. s + 1 <= d
    BY <1>2
  <2>2. (s + 1) * q <= d * q
    BY <1>2, <2>1
  <2> QED
    BY <1>1, <1>2, <2>2
<1>5. x = z * (q * d) + (s * q + r)
  BY <1>1, <1>2
<1>6. x \div (q * d) = z /\ x % (q * d) = s * q + r
  BY <1>2, <1>3, <1>4, <1>5, DivModUnique
<1> QED
  BY <1>3, <1>6 DEF y, r, z, s

(* The five widths as factors, and the powers at which the fields start.   *)
LEMMA Starts ==
  /\ 2^PAGE_OFFSET \in Nat \ {0}
  /\ 2^PTE_ENTRY \in Nat \ {0} /\ 2^PMD_ENTRY \in Nat \ {0}
  /\ 2^PUD_ENTRY \in Nat \ {0} /\ 2^PGD_ENTRY \in Nat \ {0}
  /\ 2^PTE_ENTRY_START = 2^PAGE_OFFSET
  /\ 2^PMD_ENTRY_START = 2^PTE_ENTRY_START * 2^PTE_ENTRY
  /\ 2^PUD_ENTRY_START = 2^PMD_ENTRY_START * 2^PMD_ENTRY
  /\ 2^PGD_ENTRY_START = 2^PUD_ENTRY_START * 2^PUD_ENTRY
  /\ 2^(PGD_ENTRY_START + PGD_ENTRY) = 2^PGD_ENTRY_START * 2^PGD_ENTRY
<1>1. /\ PAGE_OFFSET \in Nat /\ PTE_ENTRY \in Nat /\ PMD_ENTRY \in Nat
      /\ PUD_ENTRY \in Nat /\ PGD_ENTRY \in Nat
  BY WidthsAssumption
<1>2. /\ PTE_ENTRY_START \in Nat /\ PMD_ENTRY_START \in Nat
      /\ PUD_ENTRY_START \in Nat /\ PGD_ENTRY_START \in Nat
  BY <1>1 DEF PTE_ENTRY_START, PMD_ENTRY_START, PUD_ENTRY_START, PGD_ENTRY_START
<1>3. PTE_ENTRY_START = PAGE_OFFSET
  BY DEF PTE_ENTRY_START
<1>4. /\ PMD_ENTRY_START = PTE_ENTRY_START + PTE_ENTRY
      /\ PUD_ENTRY_START = PMD_ENTRY_START + PMD_ENTRY
      /\ PGD_ENTRY_START = PUD_ENTRY_START + PUD_ENTRY
  BY DEF PMD_ENTRY_START, PUD_ENTRY_START, PGD_ENTRY_START
<1> QED
  BY <1>1, <1>2, <1>3, <1>4, PowerPositive, PowerAdds

(* A number is cut from below into an offset and four entries.             *)
Cut(a) ==
  LET q0 == 2^PAGE_OFFSET
      x1 == a \div q0
      x2 == x1 \div 2^PTE_ENTRY
      x3 == x2 \div 2^PMD_ENTRY
      x4 == x3 \div 2^PUD_ENTRY
  IN  [pgd_entry   |-> x4 % 2^PGD_ENTRY,
       pud_entry   |-> x3 % 2^PUD_ENTRY,
       pmd_entry   |-> x2 % 2^PMD_ENTRY,
       pte_entry   |-> x1 % 2^PTE_ENTRY,
       page_offset |-> a % q0]

LEMMA FieldsAreCut ==
  ASSUME NEW a \in Nat
  PROVE  /\ init_virt_addr64(a) = Cut(a)
         /\ mask64(PGD_ENTRY_START + PGD_ENTRY, a) =
              Cut(a).pgd_entry * 2^PGD_ENTRY_START
              + (Cut(a).pud_entry * 2^PUD_ENTRY_START
              + (Cut(a).pmd_entry * 2^PMD_ENTRY_START
              + (Cut(a).pte_entry * 2^PTE_ENTRY_START + Cut(a).page_offset)))
<1> DEFINE q0 == 2^PAGE_OFFSET
           q1 == 2^PMD_ENTRY_START
           q2 == 2^PUD_ENTRY_START
           q3 == 2^PGD_ENTRY_START
           d1 == 2^PTE_ENTRY
           d2 == 2^PMD_ENTRY
           d3 == 2^PUD_ENTRY
           d4 == 2^PGD_ENTRY
           x1 == a \div q0
           x2 == x1 \div d1
           x3 == x2 \div d2
           x4 == x3 \div d3
<1>1. /\ q0 \in Nat \ {0} /\ d1 \in Nat \ {0} /\ d2 \in Nat \ {0}
      /\ d3 \in Nat \ {0} /\ d4 \in Nat \ {0}
      /\ 2^PTE_ENTRY_START = q0 /\ q1 = q0 * d1 /\ q2 = q1 * d2 /\ q3 = q2 * d3
      /\ 2^(PGD_ENTRY_START + PGD_ENTRY) = q3 * d4
  BY Starts
<1>2. /\ init_virt_addr64(a) =
            [pgd_entry   |-> (a \div q3) % d4,
             pud_entry   |-> (a \div q2) % d3,
             pmd_entry   |-> (a \div q1) % d2,
             pte_entry   |-> x1 % d1,
             page_offset |-> a % q0]
      /\ mask64(PGD_ENTRY_START + PGD_ENTRY, a) = a % (q3 * d4)
      /\ Cut(a) =
            [pgd_entry   |-> x4 % d4,
             pud_entry   |-> x3 % d3,
             pmd_entry   |-> x2 % d2,
             pte_entry   |-> x1 % d1,
             page_offset |-> a % q0]
  BY <1>1 DEF init_virt_addr64, mask64, Cut
<1>3. /\ a \in Nat
      /\ x1 = a \div q0 /\ x2 = x1 \div d1 /\ x3 = x2 \div d2 /\ x4 = x3 \div d3
  OBVIOUS
<1> HIDE DEF q0, q1, q2, q3, d1, d2, d3, d4, x1, x2, x3, x4
<1>4. /\ q1 \in Nat \ {0} /\ a \div q1 = x2
      /\ a % q1 = (x1 % d1) * q0 + (a % q0)
  <2>1. /\ q0 * d1 \in Nat \ {0}
        /\ a \div (q0 * d1) = (a \div q0) \div d1
        /\ a % (q0 * d1) = ((a \div q0) % d1) * q0 + (a % q0)
    <3>1. a \in Nat /\ q0 \in Nat \ {0} /\ d1 \in Nat \ {0}
      BY <1>1
    <3> QED
      BY <3>1, CutTwice
  <2> QED
    BY <1>1, <1>3, <2>1, Zenon
<1>5. /\ q2 \in Nat \ {0} /\ a \div q2 = x3
      /\ a % q2 = (x2 % d2) * q1 + (a % q1)
  <2>1. /\ q1 * d2 \in Nat \ {0}
        /\ a \div (q1 * d2) = (a \div q1) \div d2
        /\ a % (q1 * d2) = ((a \div q1) % d2) * q1 + (a % q1)
    <3>1. a \in Nat /\ q1 \in Nat \ {0} /\ d2 \in Nat \ {0}
      BY <1>1, <1>4
    <3> QED
      BY <3>1, CutTwice
  <2> QED
    BY <1>1, <1>3, <1>4, <2>1, Zenon
<1>6. /\ q3 \in Nat \ {0} /\ a \div q3 = x4
      /\ a % q3 = (x3 % d3) * q2 + (a % q2)
  <2>1. /\ q2 * d3 \in Nat \ {0}
        /\ a \div (q2 * d3) = (a \div q2) \div d3
        /\ a % (q2 * d3) = ((a \div q2) % d3) * q2 + (a % q2)
    <3>1. a \in Nat /\ q2 \in Nat \ {0} /\ d3 \in Nat \ {0}
      BY <1>1, <1>5
    <3> QED
      BY <3>1, CutTwice
  <2> QED
    BY <1>1, <1>3, <1>5, <2>1, Zenon
<1>7. a % (q3 * d4) = (x4 % d4) * q3 + (a % q3)
  <2>1. a % (q3 * d4) = ((a \div q3) % d4) * q3 + (a % q3)
    <3>1. a \in Nat /\ q3 \in Nat \ {0} /\ d4 \in Nat \ {0}
      BY <1>1, <1>6
    <3> QED
      BY <3>1, CutTwice
  <2> QED
    BY <1>6, <2>1, Zenon
<1>8. init_virt_addr64(a) = Cut(a)
  BY <1>2, <1>4, <1>5, <1>6, Zenon
<1> DEFINE R == (x4 % d4) * q3 + ((x3 % d3) * q2 + ((x2 % d2) * q1 + ((x1 % d1) * q0 + (a % q0))))
<1>9. mask64(PGD_ENTRY_START + PGD_ENTRY, a) = R
  BY <1>2, <1>4, <1>5, <1>6, <1>7, Zenon
<1>10. /\ Cut(a).pgd_entry = x4 % d4 /\ Cut(a).pud_entry = x3 % d3
       /\ Cut(a).pmd_entry = x2 % d2 /\ Cut(a).pte_entry = x1 % d1
       /\ Cut(a).page_offset = a % q0
  BY <1>2
<1> QED
  BY <1>1, <1>8, <1>9, <1>10, Zenon DEF q1, q2, q3

IsField(x, size) == x \in Nat /\ x \in 0 .. 2^size - 1

LEMMA FieldsInRange ==
  ASSUME NEW a \in Nat
  PROVE  LET v == init_virt_addr64(a)
         IN  /\ IsField(v.pgd_entry, PGD_ENTRY) /\ IsField(v.pud_entry, PUD_ENTRY)
             /\ IsField(v.pmd_entry, PMD_ENTRY) /\ IsField(v.pte_entry, PTE_ENTRY)
             /\ IsField(v.page_offset, PAGE_OFFSET)
<1>1. ASSUME NEW x \in Nat, NEW q \in Nat \ {0}
      PROVE  x % q \in Nat /\ x % q \in 0 .. q - 1 /\ x \div q \in Nat
  OBVIOUS
<1>2. /\ 2^PAGE_OFFSET \in Nat \ {0}
      /\ 2^PTE_ENTRY \in Nat \ {0} /\ 2^PMD_ENTRY \in Nat \ {0}
      /\ 2^PUD_ENTRY \in Nat \ {0} /\ 2^PGD_ENTRY \in Nat \ {0}
  BY Starts
<1>3. init_virt_addr64(a) = Cut(a)
  BY FieldsAreCut
<1> DEFINE x1 == a \div 2^PAGE_OFFSET
           x2 == x1 \div 2^PTE_ENTRY
           x3 == x2 \div 2^PMD_ENTRY
           x4 == x3 \div 2^PUD_ENTRY
<1>4. x1 \in Nat
  BY <1>1, <1>2
<1>5. x2 \in Nat
  <2> HIDE DEF x1
  <2> QED
    BY <1>1, <1>2, <1>4
<1>6. x3 \in Nat
  <2> HIDE DEF x2
  <2> QED
    BY <1>1, <1>2, <1>5
<1>7. x4 \in Nat
  <2> HIDE DEF x3
  <2> QED
    BY <1>1, <1>2, <1>6
<1>8. /\ Cut(a).pgd_entry = x4 % 2^PGD_ENTRY /\ Cut(a).pud_entry = x3 % 2^PUD_ENTRY
      /\ Cut(a).pmd_entry = x2 % 2^PMD_ENTRY /\ Cut(a).pte_entry = x1 % 2^PTE_ENTRY
      /\ Cut(a).page_offset = a % 2^PAGE_OFFSET
  BY DEF Cut
<1> HIDE DEF x1, x2, x3, x4
<1> QED
  BY <1>1, <1>2, <1>3, <1>4, <1>5, <1>6, <1>7, <1>8 DEF IsField

LEMMA StartsPositive ==
  /\ 2^PTE_ENTRY_START \in Nat /\ 2^PMD_ENTRY_START \in Nat
  /\ 2^PUD_ENTRY_START \in Nat /\ 2^PGD_ENTRY_START \in Nat
  BY Starts

(* The page number is the entries, one above the other, and the address    *)
(* of the page is it with an offset of zeros.                              *)
LEMMA NumberOfPage ==
  ASSUME NEW a \in Nat
  PROVE  LET v == init_virt_addr64(a)
             n == virt_addr_t_to_virtual_page_number(v)
         IN  /\ n = ((v.pgd_entry * 2^PUD_ENTRY + v.pud_entry) * 2^PMD_ENTRY
                     + v.pmd_entry) * 2^PTE_ENTRY + v.pte_entry
             /\ n \in Nat
             /\ n * 2^PAGE_OFFSET =
                  v.pgd_entry * 2^PGD_ENTRY_START
                  + (v.pud_entry * 2^PUD_ENTRY_START
                  + (v.pmd_entry * 2^PMD_ENTRY_START
                  + v.pte_entry * 2^PTE_ENTRY_START))
<1> DEFINE q0 == 2^PAGE_OFFSET
           q1 == 2^PMD_ENTRY_START
           q2 == 2^PUD_ENTRY_START
           q3 == 2^PGD_ENTRY_START
           d1 == 2^PTE_ENTRY
           d2 == 2^PMD_ENTRY
           d3 == 2^PUD_ENTRY
           v  == init_virt_addr64(a)
           e1 == v.pte_entry
           e2 == v.pmd_entry
           e3 == v.pud_entry
           e4 == v.pgd_entry
           m  == ((e4 * d3 + e3) * d2 + e2) * d1 + e1
           n  == virt_addr_t_to_virtual_page_number(v)
<1>1. /\ q0 \in Nat \ {0} /\ d1 \in Nat \ {0} /\ d2 \in Nat \ {0} /\ d3 \in Nat \ {0}
      /\ 2^PTE_ENTRY_START = q0 /\ q1 = q0 * d1 /\ q2 = q1 * d2 /\ q3 = q2 * d3
  BY Starts
<1>2. e1 \in Nat /\ e2 \in Nat /\ e3 \in Nat /\ e4 \in Nat
  BY FieldsInRange DEF IsField
<1>3. n = (e4 * q3 + e3 * q2 + e2 * q1 + e1 * q0) \div q0
  BY <1>1 DEF virt_addr_t_to_virtual_page_number
<1> HIDE DEF q0, q1, q2, q3, d1, d2, d3, v, e1, e2, e3, e4, n
<1>4. /\ m \in Nat
      /\ m * q0 = e4 * q3 + (e3 * q2 + (e2 * q1 + e1 * q0))
      /\ m * q0 = e4 * q3 + e3 * q2 + e2 * q1 + e1 * q0
  <2>1. /\ q1 = d1 * q0 /\ q2 = d2 * (d1 * q0) /\ q3 = d3 * (d2 * (d1 * q0))
        /\ q1 \in Nat /\ q2 \in Nat /\ q3 \in Nat
    BY <1>1
  <2>2. (e4 * d3 + e3) * q2 = e4 * q3 + e3 * q2
    BY <1>1, <1>2, <2>1
  <2>3. ((e4 * d3 + e3) * d2 + e2) * q1 = (e4 * d3 + e3) * q2 + e2 * q1
    BY <1>1, <1>2, <2>1
  <2>4. m * q0 = ((e4 * d3 + e3) * d2 + e2) * q1 + e1 * q0
    BY <1>1, <1>2, <2>1
  <2> QED
    BY <1>1, <1>2, <2>1, <2>2, <2>3, <2>4
<1> HIDE DEF m
<1>5. n = m
  <2>1. (m * q0 + 0) \div q0 = m /\ m * q0 + 0 = m * q0
    BY <1>1, <1>4, DivModUnique
  <2> QED
    BY <1>3, <1>4, <2>1
<1> QED
  BY <1>1, <1>4, <1>5 DEF m, n, q0, q1, q2, q3, d1, d2, d3, v, e1, e2, e3, e4

(* virt_addr_t_to_uint64_t undoes init_virt_addr64, up to the reserved     *)
(* bits: for every address and all widths of the fields.                   *)
LEMMA Reciprocal ==
  ASSUME NEW a \in Nat
  PROVE  virt_addr_t_to_uint64_t(init_virt_addr64(a))
           = mask64(PGD_ENTRY_START + PGD_ENTRY, a)
<1> DEFINE v == init_virt_addr64(a)
           t1 == v.pte_entry * 2^PTE_ENTRY_START
           t2 == v.pmd_entry * 2^PMD_ENTRY_START
           t3 == v.pud_entry * 2^PUD_ENTRY_START
           t4 == v.pgd_entry * 2^PGD_ENTRY_START
           n  == virt_addr_t_to_virtual_page_number(v)
<1>1. n * 2^PAGE_OFFSET = t4 + (t3 + (t2 + t1))
  BY NumberOfPage
<1>2. mask64(PGD_ENTRY_START + PGD_ENTRY, a) = t4 + (t3 + (t2 + (t1 + v.page_offset)))
  BY FieldsAreCut, Zenon
<1>3. /\ t1 \in Nat /\ t2 \in Nat /\ t3 \in Nat /\ t4 \in Nat
      /\ v.page_offset \in Nat
  BY FieldsInRange, StartsPositive DEF IsField
<1>4. virt_addr_t_to_uint64_t(v) = n * 2^PAGE_OFFSET + v.page_offset
  BY DEF virt_addr_t_to_uint64_t
<1> HIDE DEF v, t1, t2, t3, t4, n
<1> QED
  BY <1>1, <1>2, <1>3, <1>4 DEF v

(* The entries of an address are those of its page.                        *)
SameEntries(v, w) ==
  /\ v.pgd_entry = w.pgd_entry /\ v.pud_entry = w.pud_entry
  /\ v.pmd_entry = w.pmd_entry /\ v.pte_entry = w.pte_entry

LEMMA EntriesOfPage ==
  ASSUME NEW a \in Nat
  PROVE  LET v == init_virt_addr64(a)
             n == virt_addr_t_to_virtual_page_number(v)
         IN  SameEntries(init_virt_addr64(n * 2^PAGE_OFFSET), v)
<1> DEFINE q0 == 2^PAGE_OFFSET
           d1 == 2^PTE_ENTRY
           d2 == 2^PMD_ENTRY
           d3 == 2^PUD_ENTRY
           d4 == 2^PGD_ENTRY
           v  == init_virt_addr64(a)
           e1 == v.pte_entry
           e2 == v.pmd_entry
           e3 == v.pud_entry
           e4 == v.pgd_entry
           n  == virt_addr_t_to_virtual_page_number(v)
           b  == n * q0
<1>1. /\ q0 \in Nat \ {0} /\ d1 \in Nat \ {0} /\ d2 \in Nat \ {0}
      /\ d3 \in Nat \ {0} /\ d4 \in Nat \ {0}
  BY Starts
<1>2. /\ e1 \in 0 .. d1 - 1 /\ e2 \in 0 .. d2 - 1
      /\ e3 \in 0 .. d3 - 1 /\ e4 \in 0 .. d4 - 1
  BY FieldsInRange DEF IsField
<1>3. n = ((e4 * d3 + e3) * d2 + e2) * d1 + e1 /\ n \in Nat
  BY NumberOfPage
<1>4. b \in Nat
  BY <1>1, <1>3
<1>5. init_virt_addr64(b) = Cut(b)
  BY <1>4, FieldsAreCut
<1>6. /\ Cut(b).pte_entry = (b \div q0) % d1
      /\ Cut(b).pmd_entry = ((b \div q0) \div d1) % d2
      /\ Cut(b).pud_entry = (((b \div q0) \div d1) \div d2) % d3
      /\ Cut(b).pgd_entry = ((((b \div q0) \div d1) \div d2) \div d3) % d4
  BY DEF Cut
<1>7. b = n * q0
  OBVIOUS
<1> HIDE DEF q0, d1, d2, d3, d4, v, e1, e2, e3, e4, n, b
<1>8. b \div q0 = n
  <2>1. n * q0 + 0 = b
    BY <1>4, <1>7
  <2>2. q0 \in Nat \ {0} /\ n \in Nat /\ 0 \in 0 .. q0 - 1
    BY <1>1, <1>3
  <2>3. (n * q0 + 0) \div q0 = n
    BY <2>2, DivModUnique
  <2> QED
    BY <2>1, <2>3
<1> DEFINE n3 == e4 * d3 + e3
           n2 == n3 * d2 + e2
<1>9. n3 \in Nat /\ n2 \in Nat /\ n = n2 * d1 + e1
  BY <1>1, <1>2, <1>3
<1>10. n3 \div d3 = e4 /\ n3 % d3 = e3
  BY <1>1, <1>2, DivModUnique
<1> HIDE DEF n3
<1>11. n2 \div d2 = n3 /\ n2 % d2 = e2
  BY <1>1, <1>2, <1>9, DivModUnique
<1> HIDE DEF n2
<1>12. n \div d1 = n2 /\ n % d1 = e1
  BY <1>1, <1>2, <1>9, DivModUnique
<1>13. e4 % d4 = e4
  <2>1. 0 * d4 + e4 = e4 /\ (0 * d4 + e4) % d4 = e4
    BY <1>1, <1>2, DivModUnique
  <2> QED
    BY <2>1
<1>14. /\ Cut(b).pte_entry = e1 /\ Cut(b).pmd_entry = e2
       /\ Cut(b).pud_entry = e3 /\ Cut(b).pgd_entry = e4
  BY <1>6, <1>8, <1>10, <1>11, <1>12, <1>13, Zenon
<1> QED
  BY <1>5, <1>7, <1>14, Zenon DEF SameEntries, v, n, e1, e2, e3, e4, q0

(***************************************************************************)
(* The accesses of a TLB driver.                                           *)
(***************************************************************************)
AccessInv == BothInv /\ vaddr \in VirtualAddresses /\ AddressesAreTranslated

LEMMA AccessIsRelease ==
  [AccessNext]_<< vars, second, vaddr, paddr >> => [ReleasesNext]_<< vars, second >>
  BY AddressesAssumption DEF AccessNext, SearchAddress, FlushTlb, ReleasesNext

(* A walk from an address is the walk from its page.                       *)
LEMMA WalkOfPage ==
  ASSUME NEW a \in VirtualAddresses
  PROVE  LET v == init_virt_addr64(a)
             p == virt_addr_t_to_virtual_page_number(v)
         IN  p \in Pages /\ PageTable[p] = Walker!page_walk(Memory, v)
<1> DEFINE v == init_virt_addr64(a)
           p == virt_addr_t_to_virtual_page_number(v)
           w == init_virt_addr64(p * 2^PAGE_OFFSET)
<1>1. a \in Nat /\ p \in Pages /\ PageTable[p] = Walker!page_walk(Memory, w)
  BY AddressesAssumption
<1>2. SameEntries(w, v)
  BY <1>1, EntriesOfPage
<1> HIDE DEF v, w
<1>3. Walker!page_walk(Memory, w) = Walker!page_walk(Memory, v)
  BY <1>2 DEF Walker!page_walk, SameEntries
<1> QED
  BY <1>1, <1>3 DEF v

(* The driver's accesses are searches of the TLBs for pages of the         *)
(* program, so that whatever holds of those holds of these.                *)
THEOREM AccessesAreSearches == AccessSpec => ReleasesSpec
<1>1. AccessInit => ReleasesInit
  BY DEF AccessInit
<1> QED
  BY <1>1, AccessIsRelease, PTL DEF AccessSpec, ReleasesSpec

(* An access gets the physical address that a walk over the fields of its  *)
(* own address gives, whichever TLB answers, and the fields are the        *)
(* address without its reserved bits: for every width of the fields, every *)
(* set of addresses and every memory whose walks stay inside it.           *)
THEOREM AccessesAreTranslated == AccessSpec => []AddressesAreTranslated
<1>1. AccessInit => AccessInv
  <2> SUFFICES ASSUME AccessInit PROVE AccessInv
    OBVIOUS
  <2>1. vaddr \in VirtualAddresses /\ vaddr \in Nat
    BY AddressesAssumption DEF AccessInit
  <2> QED
    BY <2>1, BothInitInv, Reciprocal DEF AccessInit, AccessInv, AddressesAreTranslated
<1>2. AccessInv /\ [AccessNext]_<< vars, second, vaddr, paddr >> => AccessInv'
  <2> SUFFICES ASSUME AccessInv, [AccessNext]_<< vars, second, vaddr, paddr >>
               PROVE  AccessInv'
    OBVIOUS
  <2>1. BothInv'
    BY AccessIsRelease, BothNextInv DEF AccessInv
  <2>2. CASE UNCHANGED << vaddr, paddr >>
    BY <2>1, <2>2 DEF AccessInv, AddressesAreTranslated, Walked
  <2>3. ASSUME NEW access \in Accesses, NEW a \in VirtualAddresses,
               SearchAddress(access, a)
        PROVE  AccessInv'
    <3> DEFINE v == init_virt_addr64(a)
               p == virt_addr_t_to_virtual_page_number(v)
    <3>1. p \in Pages /\ PageTable[p] = Walker!page_walk(Memory, v) /\ a \in Nat
      BY WalkOfPage, AddressesAssumption
    <3>2. answer'.phy_page_num = PageTable[p]
      BY <2>3, <3>1, SearchAnswers DEF SearchAddress, BothSearch, AccessInv, BothInv
    <3>3. vaddr' = a /\ paddr' = Walked(v)
      BY <2>3, <3>1, <3>2 DEF SearchAddress, Walked
    <3> QED
      BY <2>1, <3>1, <3>3, Reciprocal DEF AccessInv, AddressesAreTranslated, Walked
  <2> QED
    BY <2>2, <2>3 DEF AccessNext, FlushTlb
<1> QED
  BY <1>1, <1>2, PTL DEF AccessSpec, AccessInv

=============================================================================
