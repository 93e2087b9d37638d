-------------------------- MODULE CommandsProjet02 --------------------------
(***************************************************************************)
(* grading/projet02/done/commands.c, whose functions have the code of      *)
(* src/done but for some literals, in the form of CommandsProjet01: a call *)
(* is one operator that takes the program p to its successor, and so says  *)
(* what the steps of Program and ProgramRead come to when the call         *)
(* returns.                                                                *)
(***************************************************************************)
EXTENDS CommandText

CONSTANTS START_COMMANDS_ALLOCATED, Unwritten, NULL

BYTE_MAX == 32767

Returns(p, code) == [p EXCEPT !.err = code]

program_init(p, granted) ==
  [p EXCEPT
     !.listing   = IF granted
                   THEN [i \in 0 .. START_COMMANDS_ALLOCATED - 1 |-> Unwritten]
                   ELSE NULL,
     !.nb_lines  = 0,
     !.allocated = START_COMMANDS_ALLOCATED,
     !.err       = IF granted THEN "ERR_NONE" ELSE "ERR_BAD_PARAMETER"]

program_resize(p, newSize, refused) ==
  IF p.listing = NULL THEN Returns(p, "ERR_BAD_PARAMETER")
  ELSE IF newSize = refused THEN Returns(p, "ERR_MEM")
  ELSE [p EXCEPT !.allocated = newSize,
                 !.listing = [i \in 0 .. newSize - 1 |->
                                IF i \in DOMAIN @ THEN @[i] ELSE Unwritten],
                 !.err = "ERR_NONE"]

(* As if an empty program were left at its size.                           *)
program_shrink_lines(p, refused) ==
  IF p.allocated <= p.nb_lines \/ p.nb_lines = 0 THEN Returns(p, "ERR_NONE")
  ELSE program_resize(p, p.nb_lines, refused)

program_shrink(p, refused) ==
  LET size == IF p.nb_lines > 0 THEN p.nb_lines ELSE START_COMMANDS_ALLOCATED
      q    == program_resize(p, size, refused)
  IN  IF p.nb_lines > 0 /\ p.allocated <= p.nb_lines THEN Returns(p, "ERR_NONE")
      ELSE IF q.err = "ERR_NONE" THEN q ELSE Returns(p, "ERR_MEM")

IsAccepted(p, c) ==
  /\ p.listing # NULL
  /\ c.order = "READ" => c.write_data = 0
  /\ c.data_size # 4 => c.write_data <= BYTE_MAX
  /\ c.data_size \in {1, 4} /\ c.page_offset % c.data_size = 0
  /\ c.type = "INSTRUCTION" => c.data_size = 4 /\ c.order = "READ"

(* The loop of program_add_command, which every round brings closer to its *)
(* end by at least one command.                                            *)
Grows(p, refused) ==
  LET q == program_resize(p, 2 * p.allocated, refused)
  IN  IF p.err # "ERR_NONE" \/ p.nb_lines < p.allocated THEN p
      ELSE IF q.err # "ERR_NONE" THEN Returns(p, "ERR_MEM")
      ELSE q

Grown(p, refused) ==
  LET after[n \in 0 .. p.nb_lines + 1] ==
        IF n = 0 THEN Returns(p, "ERR_NONE") ELSE Grows(after[n - 1], refused)
  IN  after[p.nb_lines + 1]

program_add_command(p, c, refused) ==
  LET q == Grown(p, refused)
  IN  IF ~ IsAccepted(p, c) THEN Returns(p, "ERR_BAD_PARAMETER")
      ELSE IF q.err # "ERR_NONE" THEN q
      ELSE [q EXCEPT !.listing[q.nb_lines] = c, !.nb_lines = @ + 1]

(* The loop of program_read: s is the program and the words that are left, *)
(* of which a round takes at least one.                                    *)
Adds(s, refused) ==
  LET r == readCommand(s.rest)
  IN  IF s.rest = << >> \/ s.program.err # "ERR_NONE" THEN s
      ELSE IF r.err # "ERR_NONE"
           THEN [program |-> Returns(s.program, r.err), rest |-> r.rest]
      ELSE [program |-> program_add_command(s.program, r.command, refused),
            rest    |-> r.rest]

Added(p, words, refused) ==
  LET after[n \in 0 .. Len(words)] ==
        IF n = 0 THEN [program |-> p, rest |-> words]
        ELSE Adds(after[n - 1], refused)
  IN  after[Len(words)].program

(* ferror: the words end because of a read error.  The stream is then not  *)
(* closed.                                                                 *)
program_read(p, words, granted, refused, ferror) ==
  LET q == program_init(p, granted)
      a == Added(q, words, refused)
  IN  IF q.err # "ERR_NONE" THEN q
      ELSE IF a.err # "ERR_NONE" THEN a
      ELSE IF ferror THEN [a EXCEPT !.err = "ERR_IO", !.open = TRUE]
      ELSE program_shrink(a, refused)

program_read_not_opened(p) == Returns(p, "ERR_BAD_PARAMETER")

program_free(p) ==
  [p EXCEPT !.listing = NULL, !.allocated = 0, !.nb_lines = 0,
            !.err = "ERR_NONE"]

=============================================================================
