---------------------------- MODULE ListProjet02 ----------------------------
(***************************************************************************)
(* grading/projet02/done/list.c, in the same terms as ListProjet01.  A     *)
(* list may be null, and a list that is cleared has its nodes unlinked     *)
(* before they are freed.                                                  *)
(*                                                                         *)
(* A definition whose comment begins with "As if" is a deliberate mistake, *)
(* used nowhere: the properties are seen to fail when it takes the place   *)
(* of the definition it is made after.                                     *)
(***************************************************************************)
EXTENDS Naturals, FiniteSets, Sequences

CONSTANT NULL

withNode(heap, n, node) ==
  [m \in DOMAIN heap \cup {n} |-> IF m = n THEN node ELSE heap[m]]

(* A store to a field of an allocated node: any other store has no value.  *)
Store(s, n, field, v) ==
  [s EXCEPT !.heap = withNode(s.heap, n, [s.heap[n] EXCEPT ![field] = v])]

is_empty_list(s) == s = NULL \/ (s.front = NULL /\ s.back = NULL)

freeNode(s, n) == [s EXCEPT !.heap = [m \in DOMAIN s.heap \ {n} |-> s.heap[m]]]

(* A round of the loop of clear_list.                                      *)
FreeCurrent(r) ==
  LET unlinked == Store(Store(r.list, r.current, "next", NULL),
                        r.current, "previous", NULL)
  IN  IF r.current = NULL THEN r
      ELSE [list    |-> freeNode(unlinked, r.current),
            current |-> r.list.heap[r.current].next]

(* The loop, after as many rounds as there are nodes.                      *)
FreedFrom(s, current) ==
  LET nodes == Cardinality(DOMAIN s.heap)
      round[k \in 0 .. nodes] ==
        IF k = 0 THEN [list |-> s, current |-> current]
        ELSE FreeCurrent(round[k - 1])
  IN  round[nodes].list

clear_list(s) ==
  IF is_empty_list(s) THEN s
  ELSE [FreedFrom([s EXCEPT !.front = NULL], s.front) EXCEPT !.back = NULL]

createNode(s, n, value, previous, last) ==
  [s EXCEPT !.heap =
     withNode(s.heap, n, [value |-> value, previous |-> previous, next |-> last])]

push_back(s, value, newNode) ==
  IF s = NULL \/ newNode = NULL THEN s
  ELSE LET t == createNode(s, newNode, value, s.back, NULL)
       IN  IF is_empty_list(s) THEN [front |-> newNode, back |-> newNode, heap |-> t.heap]
           ELSE [Store(t, s.back, "next", newNode)
                   EXCEPT !.back = newNode]

push_front(s, value, newNode) ==
  IF s = NULL \/ newNode = NULL THEN s
  ELSE LET t == createNode(s, newNode, value, NULL, s.front)
       IN  IF is_empty_list(s) THEN [front |-> newNode, back |-> newNode, heap |-> t.heap]
           ELSE [Store(t, s.front, "previous", newNode)
                   EXCEPT !.front = newNode]

pop_back(s) ==
  IF is_empty_list(s) THEN s
  ELSE IF s.front = s.back THEN clear_list(s)
  ELSE LET newEnd == s.heap[s.back].previous
           t      == Store(s, newEnd, "next", NULL)
       IN  [freeNode(t, s.back) EXCEPT !.back = newEnd]

pop_front(s) ==
  IF is_empty_list(s) THEN s
  ELSE IF s.front = s.back THEN clear_list(s)
  ELSE LET newStart == s.heap[s.front].next
           t        == Store(s, newStart, "previous", NULL)
       IN  [freeNode(t, s.front) EXCEPT !.front = newStart]

(* As if the old end of the list were not linked to the node.              *)
move_back_unlinked(s, n) ==
  IF is_empty_list(s) \/ s.front = s.back \/ n = s.back \/ s.heap[n].next = NULL
  THEN s
  ELSE LET previous == s.heap[n].previous
           next     == s.heap[n].next
           t == IF previous = NULL THEN [s EXCEPT !.front = next]
                ELSE Store(s, previous, "next", next)
           u == Store(t, next, "previous", previous)
       IN  [Store(Store(u, n, "previous", s.back), n, "next", NULL) EXCEPT !.back = n]

move_back(s, n) ==
  IF is_empty_list(s) \/ s.front = s.back \/ n = s.back \/ s.heap[n].next = NULL
  THEN s
  ELSE LET previous == s.heap[n].previous
           next     == s.heap[n].next
           t == IF previous = NULL THEN [s EXCEPT !.front = next]
                ELSE Store(s, previous, "next", next)
           u == Store(Store(t, next, "previous", previous), s.back, "next", n)
       IN  [Store(Store(u, n, "previous", s.back), n, "next", NULL) EXCEPT !.back = n]

(* The values that are printed, from a node on.                            *)
Printed(heap, current, link) ==
  LET nodes == 1 .. Cardinality(DOMAIN heap)
      at[k \in nodes] ==
        IF k = 1 THEN current
        ELSE IF at[k - 1] = NULL THEN NULL ELSE heap[at[k - 1]][link]
  IN  [k \in {k \in nodes : at[k] # NULL} |-> heap[at[k]].value]

print_list(s)         == IF s = NULL THEN << >> ELSE Printed(s.heap, s.front, "next")
print_reverse_list(s) == IF s = NULL THEN << >> ELSE Printed(s.heap, s.back, "previous")

=============================================================================
