-------------------------- MODULE CommandsProjet01 --------------------------
(***************************************************************************)
(* grading/projet01/done/commands.c.  A call takes the program p, with the *)
(* error code of the last call, to its successor.  The allocator refuses   *)
(* the requests for a block of as many commands as refused says, and no    *)
(* other.  A store to or a read from a null listing ends the process.      *)
(*                                                                         *)
(* readUntilNextWhiteSpace and program_print have the code of src/done,    *)
(* and the frames of handleRead and handleWrite are taken to be laid out   *)
(* as there.                                                               *)
(***************************************************************************)
EXTENDS Naturals, Sequences

CONSTANTS START_COMMANDS_ALLOCATED, Unwritten, NULL, WORD_VALUES, PastBuffer

Text == INSTANCE CommandText

Crashed == "crashed"

(* As if the number of lines were only set by the first call.              *)
program_init_once(p, granted) ==
  [listing   |-> IF granted
                 THEN [i \in 0 .. START_COMMANDS_ALLOCATED - 1 |-> Unwritten]
                 ELSE NULL,
   nb_lines  |-> p.nb_lines,
   allocated |-> START_COMMANDS_ALLOCATED,
   err       |-> IF granted THEN "ERR_NONE" ELSE "ERR_BAD_PARAMETER"]

program_init(p, granted) ==
  [listing   |-> IF granted
                 THEN [i \in 0 .. START_COMMANDS_ALLOCATED - 1 |-> Unwritten]
                 ELSE NULL,
   nb_lines  |-> 0,
   allocated |-> START_COMMANDS_ALLOCATED,
   err       |-> IF granted THEN "ERR_NONE" ELSE "ERR_BAD_PARAMETER"]

program_resize(p, newSize, refused) ==
  IF p.listing = NULL THEN [p EXCEPT !.err = "ERR_BAD_PARAMETER"]
  ELSE IF newSize = refused THEN [p EXCEPT !.err = "ERR_MEM"]
  ELSE [p EXCEPT !.allocated = newSize,
                 !.listing = [i \in 0 .. newSize - 1 |->
                                IF i \in DOMAIN @ THEN @[i] ELSE Unwritten],
                 !.err = "ERR_NONE"]

program_shrink(p, refused) ==
  LET size == IF p.nb_lines > 0 THEN p.nb_lines ELSE START_COMMANDS_ALLOCATED
      q    == program_resize(p, size, refused)
  IN  IF p.nb_lines > 0 /\ p.allocated <= p.nb_lines
      THEN [p EXCEPT !.err = "ERR_NONE"]
      ELSE IF q.err = "ERR_NONE" THEN q ELSE [p EXCEPT !.err = "ERR_MEM"]

(* The loop of program_add_command, which every round brings closer to its *)
(* end by at least one command.                                            *)
Grows(p, refused) ==
  LET q == program_resize(p, 2 * p.allocated, refused)
  IN  IF p.err # "ERR_NONE" \/ p.nb_lines < p.allocated THEN p
      ELSE IF q.err # "ERR_NONE" THEN [p EXCEPT !.err = "ERR_MEM"]
      ELSE q

Grown(p, refused) ==
  LET after[n \in 0 .. p.nb_lines + 1] ==
        IF n = 0 THEN [p EXCEPT !.err = "ERR_NONE"]
        ELSE Grows(after[n - 1], refused)
  IN  after[p.nb_lines + 1]

(* Neither the order nor the type nor the data are looked at, and nor is   *)
(* the listing.                                                            *)
Refusal(c) ==
  IF \/ c.type = "INSTRUCTION" /\ c.data_size # 4
     \/ c.data_size \notin {1, 4}                       THEN "ERR_SIZE"
  ELSE IF c.type = "INSTRUCTION" /\ c.order = "WRITE"   THEN "ERR_BAD_PARAMETER"
  ELSE IF c.page_offset % c.data_size # 0               THEN "ERR_ADDR"
  ELSE "ERR_NONE"

program_add_command(p, c, refused) ==
  LET q == Grown(p, refused)
  IN  IF Refusal(c) # "ERR_NONE" THEN [p EXCEPT !.err = Refusal(c)]
      ELSE IF q.err # "ERR_NONE" THEN q
      ELSE IF q.listing = NULL THEN [q EXCEPT !.err = Crashed]
      ELSE [q EXCEPT !.listing[q.nb_lines] = c, !.nb_lines = @ + 1]

-----------------------------------------------------------------------------
(* What the called functions return is not looked at: each goes on with    *)
(* the command as it is and the words that are left.                       *)
Ignored(r) == [r EXCEPT !.err = "ERR_NONE"]

handleTypeSize(r) == Ignored(Text!handleTypeSize(r))

handleRead(r) ==
  LET t == handleTypeSize([r EXCEPT !.command.order = "READ"])
  IN  Text!handle_virt_addr([t EXCEPT !.command.write_data = 0])

(* The data that do not parse leave the address to the next command.       *)
handleWrite(r) ==
  LET t == handleTypeSize([r EXCEPT !.command.order = "WRITE"])
      d == Text!readUntilNextWhiteSpace(t)
  IN  Text!Then(Text!Then(d, Text!WriteData), Text!handle_virt_addr)

(* A command whose reading failed after its first word is valid.           *)
readCommand(words) ==
  LET r == Text!readUntilNextWhiteSpace(Text!Start(words))
      c == IF r.word.text = "R" THEN handleRead(r)
           ELSE IF r.word.text = "W" THEN handleWrite(r) ELSE r
  IN  IF r.err # "ERR_NONE" \/ Text!Stored(r.word) # 1 \/ r.word = Text!EndOfFile
      THEN [valid |-> FALSE, command |-> Text!Zero, rest |-> r.rest]
      ELSE [valid |-> TRUE, command |-> c.command, rest |-> c.rest]

(* No error ends the loop, and the listing is not shrunk.  Every round     *)
(* takes a character from the words that are left.                         *)
Adds(s, refused) ==
  LET r == readCommand(s.rest)
  IN  IF s.rest = << >> \/ s.program.err = Crashed THEN s
      ELSE [program |-> IF r.valid
                        THEN program_add_command(s.program, r.command, refused)
                        ELSE s.program,
            rest    |-> r.rest]

Characters(words) ==
  LET upto[n \in 0 .. Len(words)] ==
        IF n = 0 THEN 0 ELSE upto[n - 1] + words[n].size + 1
  IN  upto[Len(words)]

Added(p, words, refused) ==
  LET after[n \in 0 .. Characters(words)] ==
        IF n = 0 THEN [program |-> p, rest |-> words]
        ELSE Adds(after[n - 1], refused)
  IN  after[Characters(words)].program

program_read(p, words, granted, refused) ==
  LET q == Added(program_init(p, granted), words, refused)
  IN  IF q.err = Crashed THEN q ELSE [q EXCEPT !.err = "ERR_NONE"]

program_read_not_opened(p) == [p EXCEPT !.err = "ERR_IO"]

(* The two counters stay as they were.                                     *)
program_free(p) == [p EXCEPT !.listing = NULL, !.err = "ERR_NONE"]

=============================================================================
