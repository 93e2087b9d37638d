---------------------------- MODULE ProgramRead -----------------------------
(***************************************************************************)
(* program_read: a program is filled from a file of one command per line.  *)
(* The file is opened, each line is parsed (readCommand) and added to the  *)
(* program, and at the end of the file the program is shrunk.  Opening,    *)
(* reading, parsing, adding and allocating can each fail.  Between reads   *)
(* the caller is free to use the other functions of commands.h, and frees  *)
(* the program before the next read whether or not the last one succeeded. *)
(*                                                                         *)
(* A line is a command or Malformed, which stands for whatever readCommand *)
(* refuses, a last line without its newline and a blank line included.     *)
(***************************************************************************)
EXTENDS Program

CONSTANTS Malformed, Files

ASSUME FilesAssumption ==
  \A f \in Files : Len(f) <= MaxLines /\ f \in Seq(Commands \cup {Malformed})

VARIABLES
  reader,  \* "none", "reading" (the loop) or "shrinking" (after it)
  file,    \* the lines of the file being read, none when none is
  rest,    \* those that have not been read yet
  open,    \* the stream has not been closed
  ferror   \* its error indicator

stream == << file, rest, open, ferror >>
rvars  == << vars, reader, stream >>

ReadInit ==
  /\ listing = NULL /\ nb_lines = 0 /\ allocated = 0
  /\ op = "idle" /\ command = Unwritten /\ err = "ERR_NONE"
  /\ reader = "none"
  /\ file = << >> /\ rest = << >> /\ open = FALSE /\ ferror = FALSE

ProgramKept == UNCHANGED << listing, nb_lines, allocated, op, command >>

Calls == reader = "none" /\ op = "idle" /\ listing = NULL

(* A null FILE* is reported like a null argument.                          *)
CannotOpen ==
  /\ Calls
  /\ err' = "ERR_BAD_PARAMETER"
  /\ ProgramKept /\ UNCHANGED << reader, stream >>

(* fopen, then program_init.                                               *)
Opens(f) ==
  /\ Calls
  /\ ~ open \* bound: a process that has lost a stream reads no more
  /\ program_init
  /\ IF err' = "ERR_NONE"
     THEN reader' = "reading" /\ open' = TRUE /\ file' = f /\ rest' = f
     ELSE UNCHANGED << reader, open, file, rest >>
  /\ ferror' = FALSE

Loops == reader = "reading" /\ op = "idle" /\ ~ ferror

(* As if an error return left the stream open.                             *)
Abandons_open ==
  reader' = "none" /\ file' = << >> /\ rest' = << >> /\ UNCHANGED open

(* An error return of the loop closes the stream and leaves the program.   *)
Abandons ==
  reader' = "none" /\ file' = << >> /\ rest' = << >> /\ open' = FALSE

ReadsMalformed ==
  /\ Loops
  /\ rest # << >> /\ Head(rest) = Malformed
  /\ err' \in {"ERR_IO", "ERR_BAD_PARAMETER"}
  /\ Abandons /\ ProgramKept /\ UNCHANGED ferror

(* fgetc fails inside a line: what was read of it does not parse.          *)
ReadFailsInLine ==
  /\ Loops
  /\ rest # << >>
  /\ ferror' = TRUE
  /\ err' \in {"ERR_IO", "ERR_BAD_PARAMETER"}
  /\ Abandons /\ ProgramKept

ReadsRefused ==
  /\ Loops
  /\ rest # << >> /\ Head(rest) # Malformed
  /\ AddRefused(Head(rest))
  /\ Abandons /\ UNCHANGED ferror

(* As if the line were left in the file.                                   *)
ReadsCommand_again ==
  /\ Loops
  /\ rest # << >> /\ Head(rest) # Malformed
  /\ AddBegins(Head(rest))
  /\ UNCHANGED << reader, stream >>

ReadsCommand ==
  /\ Loops
  /\ rest # << >> /\ Head(rest) # Malformed
  /\ AddBegins(Head(rest))
  /\ rest' = Tail(rest)
  /\ UNCHANGED << reader, file, open, ferror >>

Adds == /\ reader = "reading"
        /\ AddGrows \/ AddStores
        /\ UNCHANGED << reader, stream >>

CannotAdd == reader = "reading" /\ AddFails /\ Abandons /\ UNCHANGED ferror

(* fgetc fails before a line: the character that is none counts as the end *)
(* of the file, and the loop ends by ferror.  The stream stays open.       *)
ReadFailsBeforeLine ==
  /\ Loops
  /\ ferror' = TRUE
  /\ err' = "ERR_IO"
  /\ reader' = "none" /\ file' = << >> /\ rest' = << >>
  /\ ProgramKept /\ UNCHANGED open

(* The end of the file: fclose, then program_shrink.                       *)
ReachesEnd ==
  /\ Loops
  /\ rest = << >>
  /\ ShrinkBegins
  /\ reader' = "shrinking" /\ open' = FALSE
  /\ UNCHANGED << file, rest, ferror >>

ShrinkProceeds == ShrinkResizes \/ ShrinkRefused \/ ShrinkEnds

Shrinks(step) ==
  /\ reader = "shrinking"
  /\ step
  /\ IF op' = "idle" THEN reader' = "none" /\ file' = << >>
     ELSE UNCHANGED << reader, file >>
  /\ UNCHANGED << rest, open, ferror >>

(* The caller's own calls of program_init, program_add_command and so on.  *)
Uses(step) == reader = "none" /\ step /\ UNCHANGED << reader, stream >>

ReadProceeds ==
  \/ ReadsMalformed \/ ReadsRefused \/ ReadsCommand \/ Adds
  \/ ReachesEnd \/ Shrinks(ShrinkProceeds)
  \/ Uses(Proceeds)

ReadNext ==
  \/ CannotOpen \/ \E f \in Files : Opens(f)
  \/ ReadsMalformed \/ ReadFailsInLine \/ ReadsRefused \/ ReadsCommand
  \/ Adds \/ CannotAdd \/ ReadFailsBeforeLine \/ ReachesEnd
  \/ Shrinks(ShrinkProceeds) \/ Shrinks(ShrinkFails)
  \/ Uses(Next)

(* The call runs on; no failure of a stream or an allocation is relied on. *)
ReadSpec == ReadInit /\ [][ReadNext]_rvars /\ WF_rvars(ReadProceeds)

-----------------------------------------------------------------------------
(***************************************************************************)
(* Properties.                                                             *)
(***************************************************************************)
(* While program_read runs, the lines of the program, the one being added  *)
(* and the rest of the file are the file: no command is lost, doubled or   *)
(* reordered, whatever is grown or fails in between.                       *)
Pending == IF op = "adding" THEN << command >> ELSE << >>
NothingSkipped == reader # "none" => Lines \o Pending \o rest = file

(* A read that succeeds has read the whole file, into a listing of exactly *)
(* its length, or of the initial length when the file is empty; one that   *)
(* fails leaves the commands of the lines before the one it failed on.     *)
ReadsTheFile ==
  [][reader # "none" /\ reader' = "none" =>
       IF err' = "ERR_NONE"
       THEN /\ Lines' = file
            /\ allocated' = IF file = << >> THEN START_COMMANDS_ALLOCATED
                            ELSE Len(file)
       ELSE Lines' = SubSeq(file, 1, nb_lines')]_rvars

(* Every return but the one after a failed fgetc closes the stream.        *)
ClosesFile == open => reader = "reading" \/ ferror

=============================================================================
