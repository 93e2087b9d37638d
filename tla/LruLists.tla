------------------------------ MODULE LruLists ------------------------------
(***************************************************************************)
(* Least-recently-used replacement without ages, valid bits or ways: for   *)
(* each cache and each index the blocks it holds, the most recently used   *)
(* first.  A use moves the block to the front; when the list grows beyond  *)
(* the capacity its last element, the least recently used, drops out.  The *)
(* capacity is settled before the first use.                               *)
(***************************************************************************)
EXTENDS Naturals, Sequences

CONSTANTS Caches, Indices, Blocks, IndexOf(_)

VARIABLES order, capacity

(* The list s after a use of b: b in front, what was in front of b one     *)
(* place back.  Without b in s that is everything; a full list then loses  *)
(* its last.                                                               *)
Used(s, b) ==
  LET k == IF \E j \in DOMAIN s : s[j] = b
           THEN CHOOSE j \in DOMAIN s : s[j] = b ELSE Len(s) + 1
      n == IF k <= Len(s) \/ Len(s) = capacity THEN Len(s) ELSE Len(s) + 1
  IN  [m \in 1 .. n |-> IF m = 1 THEN b ELSE IF m <= k THEN s[m - 1] ELSE s[m]]

Init == order = [c \in Caches |-> [i \in Indices |-> << >>]]

Settle == UNCHANGED order /\ \A c \in Caches, i \in Indices : order[c][i] = << >>

Use(c, b) ==
  UNCHANGED capacity /\ order' = [order EXCEPT ![c][IndexOf(b)] = Used(@, b)]

Flush(c) ==
  UNCHANGED capacity /\ order' = [order EXCEPT ![c] = [i \in Indices |-> << >>]]

Next == Settle \/ \E c \in Caches : Flush(c) \/ \E b \in Blocks : Use(c, b)

Spec == Init /\ [][Next]_<< order, capacity >>

=============================================================================
