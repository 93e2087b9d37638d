---------------------------- MODULE TlbProjet02 -----------------------------
(***************************************************************************)
(* grading/projet02/done/tlb_mng.c on the list of the same release, in the *)
(* form of TlbProjet01.  A bad index in the list is a miss here.           *)
(***************************************************************************)
EXTENDS Naturals, FiniteSets

CONSTANTS TLB_LINES, NULL, PageTable  \* what page_walk finds for each page

List == INSTANCE ListProjet02

tlb_flush(s) ==
  [s EXCEPT !.tlb = [i \in 0 .. TLB_LINES - 1 |->
                       [v |-> FALSE, tag |-> 0, phy_page_num |-> 0]]]

tlb_entry_init(p, frame) == [v |-> TRUE, tag |-> p, phy_page_num |-> frame]

BadIndex(s, n) == s.list.heap[n].value >= TLB_LINES

Matches(s, p, n) ==
  s.tlb[s.list.heap[n].value].tag = p /\ s.tlb[s.list.heap[n].value].v

(* Where the loop of tlb_hit stops, and NULL where nothing is found.       *)
Found(s, p, n) ==
  LET nodes == Cardinality(DOMAIN s.list.heap)
      at[k \in 0 .. nodes] ==
        IF k = 0 THEN n
        ELSE IF at[k - 1] = NULL \/ BadIndex(s, at[k - 1]) THEN NULL
        ELSE IF Matches(s, p, at[k - 1]) THEN at[k - 1]
        ELSE s.list.heap[at[k - 1]].previous
  IN  at[nodes]

tlb_hit(s, p) ==
  LET n == Found(s, p, s.list.back)
  IN  IF n = NULL THEN [s EXCEPT !.answer.hit_or_miss = 0]
      ELSE [tlb    |-> s.tlb,
            answer |-> [err          |-> s.answer.err,
                        hit_or_miss  |-> 1,
                        phy_page_num |-> s.tlb[s.list.heap[n].value].phy_page_num],
            list   |-> List!move_back(s.list, n)]

(* As if the entry went to the line that was used last.                    *)
tlb_search_newest(s, p) ==
  LET t    == tlb_hit(s, p)
      last == t.list.heap[t.list.back].value
  IN  IF s.list.front = NULL
      THEN [s EXCEPT !.answer.err = "ERR_BAD_PARAMETER"]
      ELSE IF t.answer.hit_or_miss # 0 THEN [t EXCEPT !.answer.err = "ERR_NONE"]
      ELSE [t EXCEPT !.answer.err = "ERR_NONE",
                     !.answer.phy_page_num = PageTable[p],
                     !.tlb[last] = tlb_entry_init(p, PageTable[p]),
                     !.list = List!move_back(@, t.list.front)]

tlb_search(s, p) ==
  LET t    == tlb_hit(s, p)
      head == t.list.heap[t.list.front].value
      w    == [t EXCEPT !.answer.phy_page_num = PageTable[p]]
  IN  IF s.list.front = NULL
      THEN [s EXCEPT !.answer.err = "ERR_BAD_PARAMETER"]
      ELSE IF t.answer.hit_or_miss # 0 THEN [t EXCEPT !.answer.err = "ERR_NONE"]
      ELSE IF head >= TLB_LINES THEN [w EXCEPT !.answer.err = "ERR_BAD_PARAMETER"]
      ELSE [tlb    |-> [t.tlb EXCEPT ![head] = tlb_entry_init(p, PageTable[p])],
            answer |-> [w.answer EXCEPT !.err = "ERR_NONE"],
            list   |-> List!move_back(t.list, t.list.front)]

=============================================================================
