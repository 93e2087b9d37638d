------------------------------ MODULE NodeList ------------------------------
(***************************************************************************)
(* The doubly linked list of list.c, with its pointers: a list_t is the    *)
(* pair front, back, and the nodes are on the heap.  One action is one     *)
(* call.  print_list and print_reverse_list only print and are left out.   *)
(*                                                                         *)
(* A definition whose comment begins with "As if" is a deliberate mistake, *)
(* used nowhere: the properties are seen to fail when it takes the place   *)
(* of the definition it is made after.                                     *)
(***************************************************************************)
EXTENDS SequencesExt

CONSTANTS
  Nodes,   \* the addresses that malloc can return
  Values,  \* list_content_t
  NULL

ASSUME NodesAssumption == IsFiniteSet(Nodes) /\ NULL \notin Nodes

node_t == [value : Values, previous : Nodes \cup {NULL}, next : Nodes \cup {NULL}]

(* Where its nodes are comes with a list.                                  *)
list_t == [front : Nodes \cup {NULL}, back : Nodes \cup {NULL},
           heap : UNION {[N -> node_t] : N \in SUBSET Nodes}]

VARIABLES
  front, back,
  heap    \* the allocated nodes: address -> [value, previous, next]

list_vars == << front, back, heap >>

is_empty_list == front = NULL /\ back = NULL

freeNodes(h, N) == [n \in DOMAIN h \ N |-> h[n]]

withNode(h, n, node) == [m \in DOMAIN h \cup {n} |-> IF m = n THEN node ELSE h[m]]

(* A use of free memory has no value here: TLC stops at it.                *)
Node(value, previous, next) ==
  [value |-> value, previous |-> previous, next |-> next]

(* The nodes that one meets from start along a kind of link.               *)
Chain(start, link) ==
  LET at[k \in 1 .. Cardinality(Nodes)] ==
        IF k = 1 THEN start
        ELSE IF at[k - 1] = NULL THEN NULL ELSE heap[at[k - 1]][link]
  IN  [k \in {k \in 1 .. Cardinality(Nodes) : at[k] # NULL} |-> at[k]]

-----------------------------------------------------------------------------
(* init_list *)
Init ==
  /\ front = NULL
  /\ back = NULL
  /\ heap = << >>

(* As if the nodes were not freed.                                         *)
clear_list_only_unlink ==
  /\ front' = NULL
  /\ back' = NULL
  /\ UNCHANGED heap

clear_list ==
  /\ front' = NULL
  /\ back' = NULL
  /\ heap' = freeNodes(heap, ToSet(Chain(front, "next")))

push_back(value) ==
  \E n \in Nodes \ DOMAIN heap :
    /\ heap' = withNode(IF is_empty_list THEN heap
                        ELSE [heap EXCEPT ![back].next = n],
                        n, Node(value, back, NULL))
    /\ front' = IF is_empty_list THEN n ELSE front
    /\ back' = n

push_front(value) ==
  \E n \in Nodes \ DOMAIN heap :
    /\ heap' = withNode(IF is_empty_list THEN heap
                        ELSE [heap EXCEPT ![front].previous = n],
                        n, Node(value, NULL, front))
    /\ back' = IF is_empty_list THEN n ELSE back
    /\ front' = n

(* malloc returns NULL, and so does push_back or push_front.               *)
push_fails == UNCHANGED list_vars

pop_back ==
  /\ ~ is_empty_list
  /\ \/ front = back /\ clear_list
     \/ /\ front # back
        /\ back' = heap[back].previous
        /\ heap' = freeNodes([heap EXCEPT ![back'].next = NULL], {back})
        /\ UNCHANGED front

pop_front ==
  /\ ~ is_empty_list
  /\ \/ front = back /\ clear_list
     \/ /\ front # back
        /\ front' = heap[front].next
        /\ heap' = freeNodes([heap EXCEPT ![front'].previous = NULL], {front})
        /\ UNCHANGED back

(* As if the node that followed n kept its link back to n.                 *)
move_back_one_way(n) ==
  IF front = back \/ n = back \/ heap[n].next = NULL THEN UNCHANGED list_vars
  ELSE LET before == heap[n].previous
           after  == heap[n].next
       IN  /\ front' = IF before = NULL THEN after ELSE front
           /\ back' = n
           /\ heap' = [m \in DOMAIN heap |->
                [heap[m] EXCEPT
                   !.next     = IF m = n THEN NULL ELSE IF m = back THEN n
                                ELSE IF m = before THEN after ELSE @,
                   !.previous = IF m = n THEN back ELSE @]]

(* As if moving the first node did not make its successor the first.       *)
move_back_keeping_front(n) ==
  IF front = back \/ n = back \/ heap[n].next = NULL THEN UNCHANGED list_vars
  ELSE /\ back' = n
       /\ heap' = [heap EXCEPT ![heap[n].next].previous = heap[n].previous,
                               ![back].next  = n,
                               ![n].previous = back,
                               ![n].next     = NULL]
       /\ UNCHANGED front

(* The last node may be the one after n: both writes to it count.          *)
move_back(n) ==
  IF front = back \/ n = back \/ heap[n].next = NULL THEN UNCHANGED list_vars
  ELSE LET before == heap[n].previous
           after  == heap[n].next
       IN  /\ front' = IF before = NULL THEN after ELSE front
           /\ back' = n
           /\ heap' = [m \in DOMAIN heap |->
                [heap[m] EXCEPT
                   !.next     = IF m = n THEN NULL ELSE IF m = back THEN n
                                ELSE IF m = before THEN after ELSE @,
                   !.previous = IF m = n THEN back
                                ELSE IF m = after THEN before ELSE @]]

Next ==
  \/ \E value \in Values : push_back(value) \/ push_front(value)
  \/ push_fails
  \/ pop_back
  \/ pop_front
  \/ \E n \in DOMAIN heap : move_back(n)
  \/ clear_list

Spec == Init /\ [][Next]_list_vars

-----------------------------------------------------------------------------
(***************************************************************************)
(* Properties.                                                             *)
(***************************************************************************)
TypeOK ==
  /\ front \in Nodes \cup {NULL}
  /\ back \in Nodes \cup {NULL}
  /\ DOMAIN heap \subseteq Nodes
  /\ \A n \in DOMAIN heap : heap[n] \in node_t

(* The list reads the same in both directions (for_all_nodes against       *)
(* for_all_nodes_reverse): tlb_hit walks it backwards while tlb_search     *)
(* takes the victim from its front, and every call rewires both kinds of   *)
(* links on its own.                                                       *)
SameBothWays == Reverse(Chain(front, "next")) = Chain(back, "previous")

(* Every node that malloc gave out and that was not freed can be reached:  *)
(* no call loses a node, and none frees a node that stays in the list.     *)
NothingLeaks == ToSet(Chain(front, "next")) = DOMAIN heap

(* The pointers implement a double-ended queue whose cells keep their      *)
(* address and their value as they move.                                   *)
Contents ==
  LET c == Chain(front, "next")
  IN  [i \in DOMAIN c |-> << c[i], heap[c[i]].value >>]
Queue == INSTANCE Deque WITH Ids <- Nodes, cells <- Contents
IsDeque == Queue!Spec

=============================================================================
