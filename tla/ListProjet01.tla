---------------------------- MODULE ListProjet01 ----------------------------
(***************************************************************************)
(* grading/projet01/done/list.c, one store to the heap after the other.  A *)
(* list s is the record of its two pointers and of the heap its nodes are  *)
(* on.  A call takes s to the list it leaves behind; a push is also given  *)
(* what malloc returned.  There are no checks for a null list.             *)
(***************************************************************************)
EXTENDS Naturals, FiniteSets, Sequences

CONSTANT NULL

withNode(heap, n, node) ==
  [m \in DOMAIN heap \cup {n} |-> IF m = n THEN node ELSE heap[m]]

(* A store to a field of an allocated node: any other store has no value.  *)
Store(s, n, field, v) ==
  [s EXCEPT !.heap = withNode(s.heap, n, [s.heap[n] EXCEPT ![field] = v])]

is_empty_list(s) == s.front = NULL /\ s.back = NULL

init_list == [front |-> NULL, back |-> NULL, heap |-> << >>]

freeNode(heap, n) == [m \in DOMAIN heap \ {n} |-> heap[m]]

(* A round of the loop of clear_list.                                      *)
FreeCurrent(r) ==
  IF r.current = NULL THEN r
  ELSE [heap |-> freeNode(r.heap, r.current), current |-> r.heap[r.current].next]

(* The loop, after as many rounds as there are nodes.                      *)
FreedFrom(heap, current) ==
  LET nodes == Cardinality(DOMAIN heap)
      round[k \in 0 .. nodes] ==
        IF k = 0 THEN [heap |-> heap, current |-> current]
        ELSE FreeCurrent(round[k - 1])
  IN  round[nodes].heap

clear_list(s) ==
  IF is_empty_list(s) THEN s
  ELSE [front |-> NULL, back |-> NULL, heap |-> FreedFrom(s.heap, s.front)]

createNode(s, n, value, previous, last) ==
  [s EXCEPT !.heap =
     withNode(s.heap, n, [value |-> value, previous |-> previous, next |-> last])]

push_back(s, value, newNode) ==
  LET t == createNode(s, newNode, value, s.back, NULL)
      u == IF is_empty_list(t) THEN [t EXCEPT !.front = newNode]
           ELSE Store(t, t.back, "next", newNode)
  IN  IF newNode = NULL THEN s ELSE [u EXCEPT !.back = newNode]

push_front(s, value, newNode) ==
  LET t == createNode(s, newNode, value, NULL, s.front)
      u == IF is_empty_list(t) THEN [t EXCEPT !.back = newNode]
           ELSE Store(t, t.front, "previous", newNode)
  IN  IF newNode = NULL THEN s ELSE [u EXCEPT !.front = newNode]

pop_back(s) ==
  LET newEnd == s.heap[s.back].previous
      t      == Store(s, newEnd, "next", NULL)
  IN  IF is_empty_list(s) THEN s
      ELSE IF s.front = s.back THEN clear_list(s)
      ELSE [front |-> s.front, back |-> newEnd, heap |-> freeNode(t.heap, s.back)]

pop_front(s) ==
  LET newStart == s.heap[s.front].next
      t        == Store(s, newStart, "previous", NULL)
  IN  IF is_empty_list(s) THEN s
      ELSE IF s.front = s.back THEN clear_list(s)
      ELSE [front |-> newStart, back |-> s.back, heap |-> freeNode(t.heap, s.front)]

move_back(s, n) ==
  IF is_empty_list(s) \/ s.front = s.back \/ n = s.back \/ s.heap[n].next = NULL
  THEN s
  ELSE LET previous == s.heap[n].previous
           next     == s.heap[n].next
           endNode  == s.back
           t == IF previous = NULL THEN [s EXCEPT !.front = next]
                ELSE Store(s, previous, "next", next)
           u == Store(Store(t, next, "previous", previous), endNode, "next", n)
       IN  [Store(Store(u, n, "previous", endNode), n, "next", NULL)
              EXCEPT !.back = n]

(* The values that print_list and print_reverse_list print.                *)
Printed(heap, current, link) ==
  LET nodes == 1 .. Cardinality(DOMAIN heap)
      at[k \in nodes] ==
        IF k = 1 THEN current
        ELSE IF at[k - 1] = NULL THEN NULL ELSE heap[at[k - 1]][link]
  IN  [k \in {k \in nodes : at[k] # NULL} |-> heap[at[k]].value]

print_list(s)         == Printed(s.heap, s.front, "next")
print_reverse_list(s) == Printed(s.heap, s.back, "previous")

=============================================================================
