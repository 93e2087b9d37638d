------------------------------ MODULE Program -------------------------------
(***************************************************************************)
(* A program_t of commands.c: a growing array of commands.  Sizes are in   *)
(* commands, where the code multiplies and divides by sizeof(command_t).   *)
(*                                                                         *)
(* calloc and realloc may fail.  program_add_command and program_shrink    *)
(* call program_resize in a loop, so they are several steps: the call in   *)
(* progress is kept in op, with the command being added.                   *)
(*                                                                         *)
(* A definition whose comment begins with "As if" is a deliberate mistake, *)
(* used nowhere: the properties are seen to fail when it takes the place   *)
(* of the definition it is made after.                                     *)
(***************************************************************************)
EXTENDS Integers, Sequences

CONSTANTS
  START_COMMANDS_ALLOCATED,
  Commands,  \* what callers try to add
  MaxLines,  \* bound: no command is added to a program of this length
  Unwritten  \* an element of the listing that no command was stored in

ASSUME StartAssumption ==
  /\ START_COMMANDS_ALLOCATED \in Nat \ {0}
  /\ MaxLines \in Nat

READ        == "READ"
WRITE       == "WRITE"
INSTRUCTION == "INSTRUCTION"
DATA        == "DATA"

BYTE_SIZE == 1      \* sizeof(byte_t)
WORD_SIZE == 4      \* sizeof(word_t)
BYTE_MAX  == 32767

(* A null listing is one without elements: no block is allocated with none.*)
NULL == [i \in {} |-> Unwritten]

Command == [order : {READ, WRITE}, type : {INSTRUCTION, DATA},
            data_size : Nat, write_data : Nat, page_offset : Nat]

ASSUME CommandsAssumption == Commands \subseteq Command

(* The error codes that the functions of commands.h return.                *)
ErrorCodes == {"ERR_NONE", "ERR_BAD_PARAMETER", "ERR_MEM", "ERR_IO"}

VARIABLES
  listing,    \* the block that listing points to, or NULL
  nb_lines,
  allocated,
  op,         \* "idle", "adding" or "shrinking"
  command,    \* the command being added, Unwritten when none is
  err         \* what the last call returned

vars == << listing, nb_lines, allocated, op, command, err >>

(* The checks of program_add_command.  That nb_lines commands do not       *)
(* overflow a size_t is left out, and is one more reason to fail for       *)
(* program_resize.                                                         *)
IsAccepted(c) ==
  /\ ~ (c.order = READ /\ c.write_data > 0)
  /\ c.write_data <= BYTE_MAX \/ c.data_size = WORD_SIZE
  /\ IF c.type = INSTRUCTION THEN c.data_size = WORD_SIZE
                             ELSE c.data_size \in {BYTE_SIZE, WORD_SIZE}
  /\ ~ (c.type = INSTRUCTION /\ c.order = WRITE)
  /\ c.page_offset % c.data_size = 0

Returns(code) == op' = "idle" /\ err' = code

-----------------------------------------------------------------------------
Initialized(block, code) ==
  /\ nb_lines  = 0
  /\ allocated = START_COMMANDS_ALLOCATED
  /\ listing   = block
  /\ err       = code

EmptyBlock == [i \in 0 .. START_COMMANDS_ALLOCATED - 1 |-> Unwritten]

(* A program that program_init has been called on.  When calloc fails the  *)
(* null listing is reported as a bad parameter, and allocated is set.      *)
Init ==
  /\ Initialized(EmptyBlock, "ERR_NONE") \/ Initialized(NULL, "ERR_BAD_PARAMETER")
  /\ op      = "idle"
  /\ command = Unwritten

(* program_init of a program that owns no listing, as all callers do.      *)
program_init ==
  /\ op = "idle"
  /\ listing = NULL
  /\ nb_lines'  = 0
  /\ allocated' = START_COMMANDS_ALLOCATED
  /\ \/ listing' = EmptyBlock /\ err' = "ERR_NONE"
     \/ listing' = NULL       /\ err' = "ERR_BAD_PARAMETER"
  /\ UNCHANGED << op, command >>

(* program_resize works on a copy of the program that replaces it only     *)
(* when realloc has succeeded.                                             *)
Resized(block, size) ==
  [i \in 0 .. size - 1 |-> IF i \in DOMAIN block THEN block[i] ELSE Unwritten]

(* As if the new size were stored in the program before the realloc.       *)
resize_fails_in_place(newSize) ==
  /\ allocated' = newSize
  /\ UNCHANGED << listing, nb_lines >>

resize_fails(newSize) == UNCHANGED << listing, nb_lines, allocated >>

(* As if the block had one command less than asked for.                    *)
resize_succeeds_short(newSize) ==
  /\ listing # NULL
  /\ listing'   = Resized(listing, newSize - 1)
  /\ allocated' = newSize
  /\ UNCHANGED nb_lines

resize_succeeds(newSize) ==
  /\ listing # NULL
  /\ listing'   = Resized(listing, newSize)
  /\ allocated' = newSize
  /\ UNCHANGED nb_lines

-----------------------------------------------------------------------------
AddRefused(c) ==
  /\ op = "idle"
  /\ listing = NULL \/ ~ IsAccepted(c)
  /\ err' = "ERR_BAD_PARAMETER"
  /\ UNCHANGED << listing, nb_lines, allocated, op, command >>

(* As if the null listing were not refused.                                *)
AddBegins_unchecked(c) ==
  /\ op = "idle"
  /\ nb_lines < MaxLines
  /\ IsAccepted(c)
  /\ op' = "adding" /\ command' = c
  /\ UNCHANGED << listing, nb_lines, allocated, err >>

AddBegins(c) ==
  /\ op = "idle"
  /\ nb_lines < MaxLines
  /\ listing # NULL /\ IsAccepted(c)
  /\ op' = "adding" /\ command' = c
  /\ UNCHANGED << listing, nb_lines, allocated, err >>

(* As if the loop stopped one command too early.                           *)
NeedsRoom_late == op = "adding" /\ nb_lines > allocated

NeedsRoom == op = "adding" /\ nb_lines >= allocated

(* The loop doubles the allocation until the command fits.                 *)
AddGrows ==
  /\ NeedsRoom
  /\ resize_succeeds(2 * allocated)
  /\ UNCHANGED << op, command, err >>

AddFails ==
  /\ NeedsRoom
  /\ resize_fails(2 * allocated)
  /\ command' = Unwritten
  /\ Returns("ERR_MEM")

(* A store at nb_lines, whatever the size of the block.                    *)
Stored(block, i, c) ==
  [j \in DOMAIN block \cup {i} |-> IF j = i THEN c ELSE block[j]]

(* As if the counter were not increased.                                   *)
AddStores_uncounted ==
  /\ op = "adding" /\ ~ NeedsRoom
  /\ listing' = Stored(listing, nb_lines, command)
  /\ command' = Unwritten
  /\ Returns("ERR_NONE")
  /\ UNCHANGED << nb_lines, allocated >>

AddStores ==
  /\ op = "adding" /\ ~ NeedsRoom
  /\ listing'  = Stored(listing, nb_lines, command)
  /\ nb_lines' = nb_lines + 1
  /\ command'  = Unwritten
  /\ Returns("ERR_NONE")
  /\ UNCHANGED allocated

-----------------------------------------------------------------------------
ShrinkBegins ==
  /\ op = "idle"
  /\ op' = "shrinking"
  /\ UNCHANGED << listing, nb_lines, allocated, command, err >>

(* As if an empty program were cut to nothing like any other.              *)
ShrinkSize_zero == nb_lines

(* The size to cut to: an empty program goes back to its initial size.     *)
ShrinkSize == IF nb_lines > 0 THEN nb_lines ELSE START_COMMANDS_ALLOCATED

(* As if the loop also went round when there is nothing to cut.            *)
MustShrink_again ==
  op = "shrinking" /\ (nb_lines = 0 \/ allocated >= nb_lines)

MustShrink ==
  op = "shrinking" /\ (nb_lines = 0 \/ allocated > nb_lines)

(* The loop over a program with lines goes round again; the resize of an   *)
(* empty one ends the call.                                                *)
ShrinkResizes ==
  /\ MustShrink
  /\ resize_succeeds(ShrinkSize)
  /\ IF nb_lines > 0 THEN UNCHANGED << op, err >> ELSE Returns("ERR_NONE")
  /\ UNCHANGED command

(* program_resize refuses a null listing.                                  *)
ShrinkRefused ==
  /\ MustShrink
  /\ listing = NULL
  /\ Returns("ERR_MEM")
  /\ UNCHANGED << listing, nb_lines, allocated, command >>

ShrinkFails ==
  /\ MustShrink
  /\ listing # NULL
  /\ resize_fails(ShrinkSize)
  /\ Returns("ERR_MEM")
  /\ UNCHANGED command

ShrinkEnds ==
  /\ op = "shrinking" /\ ~ MustShrink
  /\ Returns("ERR_NONE")
  /\ UNCHANGED << listing, nb_lines, allocated, command >>

program_free ==
  /\ op = "idle"
  /\ listing' = NULL /\ allocated' = 0 /\ nb_lines' = 0
  /\ err' = "ERR_NONE"
  /\ UNCHANGED << op, command >>

Proceeds == AddGrows \/ AddStores \/ ShrinkResizes \/ ShrinkRefused \/ ShrinkEnds

Next ==
  \/ program_init \/ program_free
  \/ \E c \in Commands : AddRefused(c) \/ AddBegins(c)
  \/ AddGrows \/ AddFails \/ AddStores
  \/ ShrinkBegins \/ ShrinkResizes \/ ShrinkRefused
  \/ ShrinkFails \/ ShrinkEnds

(* A call that has begun runs on, and nothing but that: an allocation need *)
(* not ever fail to let a call return.                                     *)
Spec == Init /\ [][Next]_vars /\ WF_vars(Proceeds)

-----------------------------------------------------------------------------
(***************************************************************************)
(* Properties.                                                             *)
(***************************************************************************)
TypeOK ==
  /\ nb_lines \in Nat /\ allocated \in Nat
  /\ op \in {"idle", "adding", "shrinking"}
  /\ command \in Commands \cup {Unwritten}
  /\ op = "adding" => command \in Commands /\ listing # NULL
  /\ err \in ErrorCodes

(* allocated is the real size of the listing, never 0, and the lines fit   *)
(* in it and hold commands, after any mix of additions, shrinks and failed *)
(* reallocations: the store in program_add_command stays in the block, and *)
(* for_all_lines reads nothing that was not written.                       *)
ListingFits ==
  IF listing = NULL THEN nb_lines = 0
  ELSE /\ DOMAIN listing = 0 .. allocated - 1
       /\ allocated > 0
       /\ nb_lines <= allocated
       /\ \A i \in 0 .. nb_lines - 1 : listing[i] \in Commands

Lines == [i \in 1 .. nb_lines |-> listing[i - 1]]

List == INSTANCE CommandList
          WITH list <- Lines

(* A program is a list of commands: a successful program_add_command       *)
(* appends exactly its command, and no growth, no shrink and no failure    *)
(* changes, drops or reorders a line.                                      *)
IsCommandList ==
  /\ List!Spec
  /\ [][op = "adding" /\ op' = "idle" /\ err' = "ERR_NONE" =>
          Lines' = Append(Lines, command)]_vars

=============================================================================
