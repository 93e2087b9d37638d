------------------------------- MODULE Deque --------------------------------
(***************************************************************************)
(* What list.h promises: a sequence of cells that grows and shrinks at     *)
(* both ends and in which a cell can be moved to the end.  A cell is a     *)
(* pair of an identity, which a caller keeps a pointer to, and a value.    *)
(***************************************************************************)
EXTENDS SequencesExt

CONSTANTS Ids, Values

VARIABLE cells

Fresh == Ids \ {c[1] : c \in ToSet(cells)}

Init == cells = << >>

PushBack  == \E n \in Fresh, v \in Values : cells' = cells \o << << n, v >> >>
PushFront == \E n \in Fresh, v \in Values : cells' = << << n, v >> >> \o cells
PopBack   == cells # << >> /\ cells' = Front(cells)
PopFront  == cells # << >> /\ cells' = Tail(cells)
MoveBack  == \E i \in DOMAIN cells : cells' = Append(RemoveAt(cells, i), cells[i])
Clear     == cells' = << >>

Next == PushBack \/ PushFront \/ PopBack \/ PopFront \/ MoveBack \/ Clear

Spec == Init /\ [][Next]_cells

=============================================================================
