------------------------ MODULE TlbHierarchyProjet02 ------------------------
(***************************************************************************)
(* The two-level TLB of the second graded release,                         *)
(* grading/projet02/done/tlb_hrchy_mng.c, call by call: its generic macros *)
(* are operators over one TLB, a function from lines to entries, and       *)
(* tlb_search takes the record of the three TLBs and of the last answer to *)
(* the one it leaves behind.                                               *)
(*                                                                         *)
(* A definition whose comment begins with "As if" is a deliberate mistake, *)
(* used nowhere: the properties are seen to fail when it takes the place   *)
(* of the definition it is made after.                                     *)
(***************************************************************************)
EXTENDS Integers

CONSTANT walk(_)  \* page_walk: the frame of a virtual page number

L1_LINES == 16
L2_LINES == 64

ZeroTlb(NB_LINES) == [i \in 0 .. NB_LINES - 1 |->
                        [v |-> FALSE, tag |-> 0, phy_page_num |-> 0]]

(* The valid entry that answers for the page, as its set.                  *)
hit_generic(tlb, page, NB_LINES) ==
  {e \in {tlb[page % NB_LINES]} : e.v /\ e.tag = page \div NB_LINES}

init_generic(page, frame, NB_LINES) ==
  [v |-> TRUE, tag |-> page \div NB_LINES, phy_page_num |-> frame]

insert_generic(tlb, page, frame, NB_LINES) ==
  [tlb EXCEPT ![page % NB_LINES] = init_generic(page, frame, NB_LINES)]

(* As if nothing went.                                                     *)
invalidate_never(tlb, page, previous, needEviction) == tlb

(* What is on the line of the page goes when it is the page that lost its  *)
(* place in the second level, or in any case when needEviction is set.     *)
invalidate(tlb, page, previous, needEviction) ==
  LET index == page % L1_LINES
  IN  [tlb EXCEPT ![index].v =
         @ /\ ~ needEviction
           /\ ~ (previous.v /\ tlb[index].tag \div 4 = previous.tag)]

other(access) == IF access = "INSTRUCTION" THEN "DATA" ELSE "INSTRUCTION"

tlb_flush(t, access) == [t EXCEPT !.l1[access] = ZeroTlb(L1_LINES)]

Flushed(accesses, answer) ==
  [l1 |-> [access \in accesses |-> ZeroTlb(L1_LINES)],
   l2 |-> ZeroTlb(L2_LINES), answer |-> answer]

(* needEviction is set before the second level is asked, and cleared only  *)
(* when it misses: a hit there costs the other level-1 TLB its line.       *)
tlb_search(t, access, page) ==
  LET inL1     == hit_generic(t.l1[access], page, L1_LINES)
      inL2     == hit_generic(t.l2, page, L2_LINES)
      frame    == IF inL2 = {} THEN walk(page)
                  ELSE (CHOOSE e \in inL2 : TRUE).phy_page_num
      none     == [v |-> FALSE, tag |-> 0]
      previous == IF inL2 = {} THEN t.l2[page % L2_LINES] ELSE none
  IN  IF inL1 # {}
      THEN [t EXCEPT !.answer =
              [hit_or_miss |-> 1, phy_page_num |-> (CHOOSE e \in inL1 : TRUE).phy_page_num]]
      ELSE [l1 |-> [t.l1 EXCEPT
                      ![access] = insert_generic(@, page, frame, L1_LINES),
                      ![other(access)] = invalidate(@, page, previous, inL2 # {})],
            l2 |-> IF inL2 # {} THEN t.l2
                   ELSE insert_generic(t.l2, page, frame, L2_LINES),
            answer |-> [hit_or_miss |-> IF inL2 = {} THEN 0 ELSE 1,
                        phy_page_num |-> frame]]

=============================================================================
