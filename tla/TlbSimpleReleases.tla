------------------------- MODULE TlbSimpleReleases --------------------------
(***************************************************************************)
(* The TLBs of src/done and of its two graded releases, each on its own    *)
(* linked list, given the same searches and the same answers of malloc.    *)
(***************************************************************************)
EXTENDS TlbSimple

VARIABLES projet01, projet02  \* their lines, lists and last answers

ASSUME NullAssumption == NULL \notin ll!list_t

P1 == INSTANCE TlbProjet01
P2 == INSTANCE TlbProjet02

Third == [tlb |-> tlb, answer |-> answer,
          list |-> [front |-> front, back |-> back, heap |-> heap]]

ReleasesInit ==
  /\ Init
  /\ projet01 = P1!tlb_flush([Third EXCEPT !.list = P1!List!init_list])
  /\ projet02 = P2!tlb_flush([Third EXCEPT !.list = P1!List!init_list])

NewNode == IF DOMAIN heap' = DOMAIN heap THEN NULL
           ELSE CHOOSE n \in DOMAIN heap' : n \notin DOMAIN heap

FillAll ==
  /\ Fill
  /\ projet01' = [projet01 EXCEPT
                    !.list = P1!List!push_back(@, line_index, NewNode)]
  /\ projet02' = [projet02 EXCEPT
                    !.list = P2!List!push_back(@, line_index, NewNode)]

SearchAll(p) ==
  /\ Refused(p) \/ SearchHit(p) \/ SearchWalk(p)
  /\ projet01' = P1!tlb_search(projet01, p)
  /\ projet02' = P2!tlb_search(projet02, p)

ReleasesNext == FillAll \/ \E p \in Pages : SearchAll(p)

ReleasesSpec == ReleasesInit /\ [][ReleasesNext]_<< vars, projet01, projet02 >>

-----------------------------------------------------------------------------
(* The releases agree on every answer, line and list: what the first one   *)
(* never checks does not fail, and its tlb_hit, which would return an      *)
(* error code that the caller takes for a hit, never meets a bad index,    *)
(* because the list keeps the indices the driver put into it.              *)
SameTlb == projet01 = Third /\ projet02 = Third

=============================================================================
