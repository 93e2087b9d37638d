----------------------------- MODULE TlbSimple ------------------------------
(***************************************************************************)
(* The fully associative TLB of tlb_mng.c with the replacement policy that *)
(* its driver, test-tlb_simple.c, gives it: a linked list (NodeList) of    *)
(* the indices of all TLB lines, the next victim in front.                 *)
(*                                                                         *)
(* An address is its virtual page number.  A definition whose comment      *)
(* begins with "As if" is a deliberate mistake, used nowhere: the          *)
(* properties are seen to fail when it takes the place of the definition   *)
(* it is made after.                                                       *)
(***************************************************************************)
EXTENDS Naturals, Sequences, FiniteSets

CONSTANTS
  TLB_LINES,
  Pages,      \* virtual page numbers the program uses
  Frames,     \* physical page numbers
  PageTable,  \* what page_walk finds for each page
  Nodes, NULL \* addresses of list nodes

Lines == 0 .. TLB_LINES - 1

ASSUME TlbAssumption ==
  /\ TLB_LINES \in Nat \ {0}
  /\ 0 \in Frames
  /\ Pages \subseteq Nat
  /\ IsFiniteSet(Nodes) /\ NULL \notin Nodes
  /\ PageTable \in [Pages -> Frames]

VARIABLES
  tlb,
  front, back, heap,  \* replacement_policy.ll
  line_index,         \* the driver's loop that fills the list
  answer              \* error code, hit_or_miss and paddr of the last search

policy == << front, back, heap >>
vars   == << tlb, policy, line_index, answer >>

ll == INSTANCE NodeList WITH Values <- Lines

HIT  == 1
MISS == 0

EmptyEntry == [v |-> FALSE, tag |-> 0, phy_page_num |-> 0]

(* As if the page and the frame changed places.                            *)
EntryFor_swapped(p, frame) == [v |-> TRUE, tag |-> frame, phy_page_num |-> p]

(* tlb_entry_init                                                          *)
EntryFor(p, frame) == [v |-> TRUE, tag |-> p, phy_page_num |-> frame]

Entry(n) == tlb[heap[n].value]

(* As if the valid bit were not tested.                                    *)
Holds_by_tag(n, p) == Entry(n).tag = p

Holds(n, p) == Entry(n).v /\ Entry(n).tag = p

(* tlb_hit walks the list backwards, from the line used last, and stops at *)
(* the first node whose line holds p.                                      *)
Backwards == ll!Chain(back, "previous")

StopsAt(k, p) ==
  Holds(Backwards[k], p) /\ \A j \in 1 .. k - 1 : ~ Holds(Backwards[j], p)

Missed(p) == \A k \in DOMAIN Backwards : ~ Holds(Backwards[k], p)

-----------------------------------------------------------------------------
(* tlb_flush and init_list, before the first search.                       *)
Init ==
  /\ ll!Init
  /\ line_index = 0
  /\ tlb = [i \in Lines |-> EmptyEntry]
  /\ answer = [err |-> "ERR_NONE", hit_or_miss |-> MISS, phy_page_num |-> 0]

(* The driver fills the list with the line indices in increasing order.    *)
(* It does not look at what push_back returns: a line whose node could not *)
(* be allocated is never used.                                             *)
Fill ==
  /\ line_index < TLB_LINES
  /\ ll!push_back(line_index) \/ ll!push_fails
  /\ line_index' = line_index + 1
  /\ UNCHANGED << tlb, answer >>

Filled == line_index = TLB_LINES /\ front # NULL

(* tlb_search refuses an empty list.                                       *)
Refused(p) ==
  /\ line_index = TLB_LINES /\ front = NULL
  /\ answer' = [answer EXCEPT !.err = "ERR_BAD_PARAMETER"]
  /\ UNCHANGED << tlb, policy, line_index >>

(* As if a hit did not count as a use.                                     *)
SearchHit_in_place(p) ==
  /\ Filled
  /\ \E k \in DOMAIN Backwards :
       /\ StopsAt(k, p)
       /\ answer' = [err          |-> "ERR_NONE",
                     hit_or_miss  |-> HIT,
                     phy_page_num |-> Entry(Backwards[k]).phy_page_num]
  /\ UNCHANGED << tlb, policy, line_index >>

SearchHit(p) ==
  /\ Filled
  /\ \E k \in DOMAIN Backwards :
       /\ StopsAt(k, p)
       /\ answer' = [err          |-> "ERR_NONE",
                     hit_or_miss  |-> HIT,
                     phy_page_num |-> Entry(Backwards[k]).phy_page_num]
       /\ ll!move_back(Backwards[k])
  /\ UNCHANGED << tlb, line_index >>

(* page_walk, then the entry goes to the line in front of the list, which  *)
(* becomes the last one.                                                   *)
SearchWalk(p) ==
  /\ Filled
  /\ Missed(p)
  /\ answer' = [err          |-> "ERR_NONE",
                hit_or_miss  |-> MISS,
                phy_page_num |-> PageTable[p]]
  /\ tlb' = [tlb EXCEPT ![heap[front].value] = EntryFor(p, PageTable[p])]
  /\ ll!move_back(front)
  /\ UNCHANGED line_index

Next == Fill \/ \E p \in Pages : Refused(p) \/ SearchHit(p) \/ SearchWalk(p)

Spec == Init /\ [][Next]_vars

-----------------------------------------------------------------------------
(***************************************************************************)
(* Properties.                                                             *)
(***************************************************************************)
TypeOK ==
  /\ ll!TypeOK
  /\ line_index \in 0 .. TLB_LINES
  /\ tlb \in [Lines -> [v : BOOLEAN, tag : Nat, phy_page_num : Frames]]
  /\ answer \in [err : {"ERR_NONE", "ERR_BAD_PARAMETER"},
                 hit_or_miss : {HIT, MISS}, phy_page_num : Frames]

(* The pages of the valid lines in the order of their last use, which is a *)
(* sequence because a line that was never used stays in front of all that  *)
(* were.                                                                   *)
ByLastUse == [k \in {k \in DOMAIN Backwards : Entry(Backwards[k]).v} |->
                Entry(Backwards[k]).tag]

OnlyIndex(p) == 0

Lists == INSTANCE LruLists
           WITH Caches   <- {"tlb"},
                Indices  <- {0},
                Blocks   <- Pages,
                capacity <- Len(ll!Chain(front, "next")),
                IndexOf  <- OnlyIndex,
                order    <- [c \in {"tlb"} |-> [i \in {0} |-> ByLastUse]]

(* The TLB holds exactly the pages searched last, as many as lines came    *)
(* into the list, in the order of the list: the pointers of move_back, the *)
(* indices in the nodes and the lines of the TLB together make a least-    *)
(* recently-used replacement ("Eviction policy is least recently used",    *)
(* tlb_insert).                                                            *)
TlbIsLru ==
  /\ Lists!Spec
  /\ [][\A p \in Pages :
          SearchHit(p) \/ SearchWalk(p) => Lists!Use("tlb", p)]_vars

(* A search answers with the page table's translation of its page, also    *)
(* when the line that answers held other pages before, and whichever lines *)
(* the list has.                                                           *)
SearchIsCorrect ==
  [][\A p \in Pages :
       SearchHit(p) \/ SearchWalk(p) => answer'.phy_page_num = PageTable[p]]_vars

=============================================================================
