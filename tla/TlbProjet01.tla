---------------------------- MODULE TlbProjet01 -----------------------------
(***************************************************************************)
(* grading/projet01/done/tlb_mng.c on the list of the same release: a call *)
(* takes s, the record of the lines, the list and what the last search     *)
(* left behind, to its successor.  There are no checks of what the called  *)
(* functions return.                                                       *)
(***************************************************************************)
EXTENDS Naturals, FiniteSets

CONSTANTS TLB_LINES, NULL, PageTable  \* what page_walk finds for each page

List == INSTANCE ListProjet01

ERR_BAD_PARAMETER == 3

tlb_flush(s) ==
  [s EXCEPT !.tlb = [i \in 0 .. TLB_LINES - 1 |->
                       [v |-> FALSE, tag |-> 0, phy_page_num |-> 0]]]

tlb_entry_init(p, frame) == [v |-> TRUE, tag |-> p, phy_page_num |-> frame]

(* Where the loop of tlb_hit stops: at a node with a bad index or with the *)
(* line of p, and otherwise past the front.                                *)
Stops(s, p, n) ==
  \/ n = NULL
  \/ s.list.heap[n].value >= TLB_LINES
  \/ s.tlb[s.list.heap[n].value].tag = p /\ s.tlb[s.list.heap[n].value].v

(* The loop, after as many rounds as there are nodes.                      *)
Found(s, p, n) ==
  LET nodes == Cardinality(DOMAIN s.list.heap)
      at[k \in 0 .. nodes] ==
        IF k = 0 THEN n
        ELSE IF Stops(s, p, at[k - 1]) THEN at[k - 1]
        ELSE s.list.heap[at[k - 1]].previous
  IN  at[nodes]

(* M_REQUIRE returns an error code, which the caller takes for a hit.      *)
tlb_hit(s, p) ==
  LET n    == Found(s, p, s.list.back)
      line == s.list.heap[n].value
  IN  IF n = NULL THEN [s EXCEPT !.answer.hit_or_miss = 0]
      ELSE IF line >= TLB_LINES
           THEN [s EXCEPT !.answer.hit_or_miss = ERR_BAD_PARAMETER]
      ELSE [tlb    |-> s.tlb,
            answer |-> [err          |-> s.answer.err,
                        hit_or_miss  |-> 1,
                        phy_page_num |-> s.tlb[line].phy_page_num],
            list   |-> List!move_back(s.list, n)]

tlb_search(s, p) ==
  LET t    == tlb_hit(s, p)
      head == t.list.heap[t.list.front].value
      w    == [t EXCEPT !.answer.phy_page_num = PageTable[p]]
  IN  IF s.list.front = NULL
      THEN [s EXCEPT !.answer.err = "ERR_BAD_PARAMETER"]
      ELSE IF t.answer.hit_or_miss # 0 THEN [t EXCEPT !.answer.err = "ERR_NONE"]
      ELSE IF head >= TLB_LINES THEN [w EXCEPT !.answer.err = "ERR_BAD_PARAMETER"]
      ELSE [tlb    |-> [t.tlb EXCEPT ![head] = tlb_entry_init(p, PageTable[p])],
            answer |-> [w.answer EXCEPT !.err = "ERR_NONE"],
            list   |-> List!move_back(t.list, t.list.front)]

=============================================================================
