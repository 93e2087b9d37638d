---------------------------- MODULE TlbHierarchy ----------------------------
(***************************************************************************)
(* The two-level TLB hierarchy of tlb_hrchy_mng.c: an instruction and a    *)
(* data TLB of 16 lines and a shared second level of 64 lines, all direct  *)
(* mapped, in front of the page walker.  The geometry is the code's own    *)
(* ("Do not modify the number of lines", tlb_hrchy.h): the shift by two in *)
(* the macro invalidate depends on it.                                     *)
(*                                                                         *)
(* An address is its virtual page number; the page offset goes through     *)
(* unchanged.  The page table does not change while the TLBs are in use:   *)
(* nothing in the program writes it.                                       *)
(*                                                                         *)
(* A definition whose comment begins with "As if" is a deliberate mistake. *)
(* It is used nowhere: each property is seen to fail when one of them      *)
(* takes the place of the definition it is made after.                     *)
(***************************************************************************)
EXTENDS Integers

CONSTANTS
  Pages,      \* virtual page numbers the program uses
  Frames,     \* physical page numbers
  PageTable,  \* what page_walk finds for each page
  Flushes     \* the TLBs that are flushed after the start

INSTRUCTION == "INSTRUCTION"
DATA        == "DATA"
L2_TLB      == "L2_TLB"
Accesses    == {INSTRUCTION, DATA}

ASSUME PagesAssumption ==
  /\ Pages \subseteq Nat
  /\ 0 \in Frames
  /\ PageTable \in [Pages -> Frames]

(* The second level is not flushed alone: the drivers flush all three TLBs *)
(* together before the first search, and only then.                        *)
ASSUME FlushAssumption == Flushes \subseteq Accesses

L1_TLB_LINES == 16
L2_TLB_LINES == 64
HIT  == 1
MISS == 0

VARIABLES
  l1_tlb,  \* l1_tlb[INSTRUCTION] is l1_itlb, l1_tlb[DATA] is l1_dtlb
  l2_tlb,
  answer   \* hit_or_miss and paddr of the last search

vars == << l1_tlb, l2_tlb, answer >>

L1Lines == 0 .. L1_TLB_LINES - 1
L2Lines == 0 .. L2_TLB_LINES - 1

L1Line(p) == p % L1_TLB_LINES
L1Tag(p)  == p \div L1_TLB_LINES
L2Line(p) == p % L2_TLB_LINES
L2Tag(p)  == p \div L2_TLB_LINES

Other(access) == IF access = INSTRUCTION THEN DATA ELSE INSTRUCTION

ZeroEntry  == [v |-> FALSE, tag |-> 0, phy_page_num |-> 0]
FlushedTlb == [i \in L1Lines |-> ZeroEntry]

(* tlb_entry_init                                                          *)
EntryFor(tag, frame) == [v |-> TRUE, tag |-> tag, phy_page_num |-> frame]

(* As if any valid entry on the line were the page.                        *)
HitL1_by_line(access, p) == l1_tlb[access][L1Line(p)].v

(* tlb_hit                                                                 *)
HitL1(access, p) ==
  LET e == l1_tlb[access][L1Line(p)] IN e.v /\ e.tag = L1Tag(p)
HitL2(p) ==
  LET e == l2_tlb[L2Line(p)] IN e.v /\ e.tag = L2Tag(p)

(* As if the entry were tagged for the second level.                       *)
Inserted_with_L2Tag(access, p, frame) ==
  [l1_tlb[access] EXCEPT ![L1Line(p)] = EntryFor(L2Tag(p), frame)]

(* As if tag and frame were given in the wrong order.                      *)
Inserted_swapped(access, p, frame) ==
  [l1_tlb[access] EXCEPT ![L1Line(p)] = EntryFor(frame, L1Tag(p))]

(* create_and_insert_entry, in the TLB of the access.                      *)
Inserted(access, p, frame) ==
  [l1_tlb[access] EXCEPT ![L1Line(p)] = EntryFor(L1Tag(p), frame)]

(* As if the level-1 tag were compared without dropping its low bits.      *)
Invalidated_whole_tag(access, p, previous) ==
  [l1_tlb[access] EXCEPT ![L1Line(p)].v =
     @ /\ ~ (previous.v /\ l1_tlb[access][L1Line(p)].tag = previous.tag)]

(* invalidate, in the TLB of the other access: the entry on the line of    *)
(* the new page goes if its tag without the two low bits is the tag that   *)
(* was overwritten in the second level.  The two bits are not compared     *)
(* with the line, so the entry of a page that is still in the second level *)
(* may go as well.                                                         *)
Invalidated(access, p, previous) ==
  [l1_tlb[access] EXCEPT ![L1Line(p)].v =
     @ /\ ~ (previous.v /\ l1_tlb[access][L1Line(p)].tag \div 4 = previous.tag)]

-----------------------------------------------------------------------------
Init ==
  /\ l1_tlb = [access \in Accesses |-> FlushedTlb]
  /\ l2_tlb = [i \in L2Lines |-> ZeroEntry]
  /\ answer = [hit_or_miss |-> MISS, phy_page_num |-> 0]

(* tlb_search, by where the translation is found.                          *)
SearchHitL1(access, p) ==
  /\ HitL1(access, p)
  /\ answer' = [hit_or_miss  |-> HIT,
                phy_page_num |-> l1_tlb[access][L1Line(p)].phy_page_num]
  /\ UNCHANGED << l1_tlb, l2_tlb >>

(* As if the entry of the other access went on a hit in the second level.  *)
SearchHitL2_and_invalidate(access, p) ==
  LET entry == l2_tlb[L2Line(p)]
      other == Other(access)
  IN  /\ ~ HitL1(access, p)
      /\ HitL2(p)
      /\ l1_tlb' = [l1_tlb EXCEPT
                      ![access] = Inserted(access, p, entry.phy_page_num),
                      ![other]  = Invalidated(other, p, entry)]
      /\ answer' = [hit_or_miss |-> HIT, phy_page_num |-> entry.phy_page_num]
      /\ UNCHANGED l2_tlb

(* previouslyValid is still 0: the other level-1 TLB is left alone.        *)
SearchHitL2(access, p) ==
  LET frame == l2_tlb[L2Line(p)].phy_page_num
  IN  /\ ~ HitL1(access, p)
      /\ HitL2(p)
      /\ l1_tlb' = [l1_tlb EXCEPT ![access] = Inserted(access, p, frame)]
      /\ answer' = [hit_or_miss |-> HIT, phy_page_num |-> frame]
      /\ UNCHANGED l2_tlb

SearchWalk(access, p) ==
  LET frame    == PageTable[p]
      previous == l2_tlb[L2Line(p)]
      other    == Other(access)
  IN  /\ ~ HitL1(access, p)
      /\ ~ HitL2(p)
      /\ l2_tlb' = [l2_tlb EXCEPT ![L2Line(p)] = EntryFor(L2Tag(p), frame)]
      /\ l1_tlb' = [l1_tlb EXCEPT
                      ![access] = Inserted(access, p, frame),
                      ![other]  = Invalidated(other, p, previous)]
      /\ answer' = [hit_or_miss |-> MISS, phy_page_num |-> frame]

Search(access, p) ==
  SearchHitL1(access, p) \/ SearchHitL2(access, p) \/ SearchWalk(access, p)

(* tlb_flush, on one of the level-1 TLBs.                                  *)
TlbFlush(access) ==
  /\ l1_tlb' = [l1_tlb EXCEPT ![access] = FlushedTlb]
  /\ UNCHANGED << l2_tlb, answer >>

Next ==
  \/ \E access \in Accesses, p \in Pages : Search(access, p)
  \/ \E access \in Flushes : TlbFlush(access)

Spec == Init /\ [][Next]_vars

-----------------------------------------------------------------------------
(***************************************************************************)
(* Properties.                                                             *)
(***************************************************************************)
Entry == [v : BOOLEAN, tag : Nat, phy_page_num : Frames]

(* The types of tlb_hrchy.h.                                               *)
TypeOK ==
  /\ l1_tlb \in [Accesses -> [L1Lines -> Entry]]
  /\ l2_tlb \in [L2Lines -> Entry]
  /\ answer \in [hit_or_miss : {HIT, MISS}, phy_page_num : Frames]

(* The page that an entry translates, from its tag and the line it is on.  *)
PageAtL1(access, i) == l1_tlb[access][i].tag * L1_TLB_LINES + i
PageAtL2(i)         == l2_tlb[i].tag * L2_TLB_LINES + i

Translates(entry, p) == p \in Pages /\ entry.phy_page_num = PageTable[p]

(* Every valid entry of the three TLBs is the page table's translation of  *)
(* the page that its tag and its line stand for, through every copy from   *)
(* the second level to the first.                                          *)
TranslationsAgree ==
  /\ \A access \in Accesses, i \in L1Lines :
       l1_tlb[access][i].v =>
         Translates(l1_tlb[access][i], PageAtL1(access, i))
  /\ \A i \in L2Lines : l2_tlb[i].v => Translates(l2_tlb[i], PageAtL2(i))

(* Inclusion: a page in a level-1 TLB is in the second level.  This is     *)
(* what invalidate is for: a walk overwrites a line of the second level    *)
(* while the other level-1 TLB may hold the page that was there.           *)
Inclusion ==
  \A access \in Accesses, i \in L1Lines :
    l1_tlb[access][i].v => HitL2(PageAtL1(access, i))

(* A search answers with the page table's translation, and reports a miss  *)
(* exactly when the second level did not have the page, in spite of asking *)
(* a level-1 TLB first.                                                    *)
SearchIsCorrect ==
  [][\A access \in Accesses, p \in Pages :
       Search(access, p) =>
         /\ answer'.phy_page_num = PageTable[p]
         /\ answer'.hit_or_miss = MISS <=> ~ HitL2(p)]_vars

(* A search disturbs the other kind of access only when it has to walk:    *)
(* after a hit in the second level the other level-1 TLB still holds what  *)
(* it held, and a walk takes at most the page on the same line from it.    *)
OtherTlbKept ==
  [][\A access \in Accesses, p \in Pages :
       Search(access, p) =>
         \A q \in Pages :
           /\ HitL1(Other(access), q)
           /\ HitL2(p) \/ L1Line(q) # L1Line(p)
           => HitL1(Other(access), q)']_vars

=============================================================================
