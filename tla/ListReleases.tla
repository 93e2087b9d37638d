---------------------------- MODULE ListReleases ----------------------------
(***************************************************************************)
(* The linked lists of src/done and of its two graded releases, given the  *)
(* same calls and the same answers of malloc.                              *)
(***************************************************************************)
EXTENDS NodeList

VARIABLES projet01, projet02  \* their lists

ASSUME NullAssumption == NULL \notin list_t

P1 == INSTANCE ListProjet01
P2 == INSTANCE ListProjet02

releases_vars == << list_vars, projet01, projet02 >>

ReleasesInit ==
  /\ Init
  /\ projet01 = P1!init_list
  /\ projet02 = P1!init_list

(* What a push of src/done has allocated.                                  *)
NewNode == IF DOMAIN heap' = DOMAIN heap THEN NULL
           ELSE CHOOSE n \in DOMAIN heap' : n \notin DOMAIN heap

PushBack(value) ==
  /\ push_back(value) \/ push_fails
  /\ projet01' = P1!push_back(projet01, value, NewNode)
  /\ projet02' = P2!push_back(projet02, value, NewNode)

PushFront(value) ==
  /\ push_front(value) \/ push_fails
  /\ projet01' = P1!push_front(projet01, value, NewNode)
  /\ projet02' = P2!push_front(projet02, value, NewNode)

PopBack ==
  /\ pop_back
  /\ projet01' = P1!pop_back(projet01)
  /\ projet02' = P2!pop_back(projet02)

PopFront ==
  /\ pop_front
  /\ projet01' = P1!pop_front(projet01)
  /\ projet02' = P2!pop_front(projet02)

MoveBack(n) ==
  /\ move_back(n)
  /\ projet01' = P1!move_back(projet01, n)
  /\ projet02' = P2!move_back(projet02, n)

Clear ==
  /\ clear_list
  /\ projet01' = P1!clear_list(projet01)
  /\ projet02' = P2!clear_list(projet02)

ReleasesNext ==
  \/ \E value \in Values : PushBack(value) \/ PushFront(value)
  \/ PopBack \/ PopFront \/ Clear
  \/ \E n \in DOMAIN heap : MoveBack(n)

ReleasesSpec == ReleasesInit /\ [][ReleasesNext]_releases_vars

-----------------------------------------------------------------------------
(* The three releases leave the same pointers behind after every call,     *)
(* whether a list that is cleared has its nodes unlinked before they are   *)
(* freed or not.  The stores of move_back, which all of them make in one   *)
(* order, come to what NodeList says of it at once, also where their nodes *)
(* coincide.  Both graded releases print the list in its order and in the  *)
(* reverse of it.                                                          *)
SameList ==
  /\ projet01 = [front |-> front, back |-> back, heap |-> heap]
  /\ projet02 = projet01
  /\ P1!print_list(projet01) = P2!print_list(projet02)
  /\ P2!print_reverse_list(projet02) = Reverse(P2!print_list(projet02))
  /\ P1!print_reverse_list(projet01) = Reverse(P1!print_list(projet01))

=============================================================================
