---------------------------- MODULE CommandList -----------------------------
(***************************************************************************)
(* What commands.h promises of a program: a list of commands that grows at *)
(* its end, one command per successful program_add_command, and that no    *)
(* other call changes but those that make it empty.                        *)
(***************************************************************************)
EXTENDS Sequences

CONSTANTS Commands, ErrorCodes

VARIABLES list, err

NoError == "ERR_NONE"

Init == list = << >> /\ err \in ErrorCodes

Add      == \E c \in Commands : list' = Append(list, c) /\ err' = NoError
Clear    == list' = << >> /\ err' \in ErrorCodes
Unchanged == UNCHANGED list /\ err' \in ErrorCodes

Next == Add \/ Clear \/ Unchanged

Spec == Init /\ [][Next]_<< list, err >>

=============================================================================
