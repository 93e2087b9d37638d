---------------------------- MODULE CommandText -----------------------------
(***************************************************************************)
(* The text of a program: what commands.c reads from a file of commands    *)
(* and what program_print writes.  A text is the sequence of its words.    *)
(* A word is known by its                                                  *)
(*   - text: the letters of an order or a type, "data" when nothing but    *)
(*     hexadecimal digits follows 0x, "address" when nothing else follows  *)
(*     @0x, or "other";                                                    *)
(*   - value: the number of these digits;                                  *)
(*   - size: its number of characters;                                     *)
(*   - ends: the white space after it, or "end" at the end of the file.    *)
(* An address is its page offset.                                          *)
(***************************************************************************)
EXTENDS Naturals, Sequences

CONSTANTS
  WORD_VALUES,  \* 2^32 in the code: the values of a word_t
  PastBuffer    \* what the compiler put behind the buffer of an order's reader

MAX_SIZE_BUFFER        == 20
MAX_TYPE_SIZE          == 2
VIRT_ADDR_MIN_LENGTH   == 4
VIRT_ADDR_MAX_LENGTH   == 20
WRITE_DATA_MIN_LENGTH  == 4
WRITE_DATA_MAX_LENGTH  == 11

Word(text, value, size, ends) ==
  [text |-> text, value |-> value, size |-> size, ends |-> ends]

Words == [text  : {"R", "W", "I", "DB", "DW", "data", "address", "other"},
          value : Nat, size : Nat, ends : {"space", "newline", "end"}]

(* What fgetc returns at the end of the file, stored as a character.       *)
EndOfFile == Word("EOF", 0, 0, "end")

(* The characters that are stored: a newline and the end of the file, too. *)
Stored(w) == w.size + IF w.ends = "space" THEN 0 ELSE 1

(* As if the last character of a full buffer were refused.                 *)
readUntilNextWhiteSpace_19(r) ==
  LET w == IF r.rest = << >> THEN EndOfFile ELSE Head(r.rest)
  IN  IF Stored(w) < MAX_SIZE_BUFFER
      THEN [r EXCEPT !.word = w, !.rest = IF @ = << >> THEN @ ELSE Tail(@)]
      ELSE [r EXCEPT !.err = "ERR_IO", !.rest = Tail(@)]

(* A parser's state r is the command read so far, the last word, the words *)
(* that follow it and the error code.  A word that overflows the buffer is *)
(* cut: what is left of it is still in the file.                           *)
readUntilNextWhiteSpace(r) ==
  LET w    == IF r.rest = << >> THEN EndOfFile ELSE Head(r.rest)
      left == [w EXCEPT !.text = "other", !.size = @ - (MAX_SIZE_BUFFER + 1)]
  IN  IF Stored(w) <= MAX_SIZE_BUFFER
      THEN [r EXCEPT !.word = w, !.rest = IF @ = << >> THEN @ ELSE Tail(@)]
      ELSE [r EXCEPT !.err  = "ERR_IO",
                     !.rest = IF Stored(w) = MAX_SIZE_BUFFER + 1 THEN Tail(@)
                              ELSE << left >> \o Tail(@)]

Fails(r, code) == [r EXCEPT !.err = code]

(* r goes through the next function unless it has failed.                  *)
Then(r, next(_)) == IF r.err = "ERR_NONE" THEN next(r) ELSE r

Types == [I  |-> [type |-> "INSTRUCTION", data_size |-> 4],
          DB |-> [type |-> "DATA", data_size |-> 1],
          DW |-> [type |-> "DATA", data_size |-> 4]]

TypeSize(r) ==
  IF Stored(r.word) > MAX_TYPE_SIZE THEN Fails(r, "ERR_BAD_PARAMETER")
  ELSE IF r.word.text \notin DOMAIN Types \/ r.word.ends # "space"
       THEN Fails(r, "ERR_IO")
  ELSE [r EXCEPT !.command.type      = Types[r.word.text].type,
                 !.command.data_size = Types[r.word.text].data_size]

handleTypeSize(r) == Then(readUntilNextWhiteSpace(r), TypeSize)

(* Where the 0 goes that is to end the word in the buffer.                 *)
Terminator(w) == Stored(w)

(* Behind the buffer it meets padding, or the low byte of the size of the  *)
(* word, which then is 0: the digits are looked for up to SIZE_MAX, and    *)
(* the newline among them is none.                                         *)
SizeKept(order, w) ==
  Terminator(w) >= MAX_SIZE_BUFFER => PastBuffer[order] # "size"

(* "@0x" without a digit is long enough with its newline, and is 0.        *)
IsAddress(order, w) ==
  /\ Stored(w) \in VIRT_ADDR_MIN_LENGTH .. VIRT_ADDR_MAX_LENGTH
  /\ w.text = "address" /\ w.ends = "newline"
  /\ SizeKept(order, w)

Address(r) ==
  IF IsAddress(r.command.order, r.word)
  THEN [r EXCEPT !.command.page_offset = r.word.value]
  ELSE Fails(r, "ERR_BAD_PARAMETER")

handle_virt_addr(r) == Then(readUntilNextWhiteSpace(r), Address)

handleRead(r) ==
  LET t == handleTypeSize([r EXCEPT !.command.order = "READ"])
  IN  Then([t EXCEPT !.command.write_data = 0], handle_virt_addr)

(* The newline is no hexadecimal digit; 9 digits are more than a word has. *)
IsWriteData(w) ==
  /\ Stored(w) \in WRITE_DATA_MIN_LENGTH .. WRITE_DATA_MAX_LENGTH
  /\ w.text = "data" /\ w.ends = "space"

WriteData(r) ==
  IF IsWriteData(r.word)
  THEN [r EXCEPT !.command.write_data = r.word.value % WORD_VALUES]
  ELSE Fails(r, "ERR_BAD_PARAMETER")

handleWrite(r) ==
  LET t == handleTypeSize([r EXCEPT !.command.order = "WRITE"])
      d == Then(Then(t, readUntilNextWhiteSpace), WriteData)
  IN  Then(d, handle_virt_addr)

(* A new command of program_read, before the words that follow.            *)
Zero == [order |-> "READ", type |-> "INSTRUCTION", data_size |-> 0,
         write_data |-> 0, page_offset |-> 0]

Start(words) == [command |-> Zero, word |-> EndOfFile, rest |-> words,
                 err |-> "ERR_NONE"]

(* The end of the file is no command, and no error.                        *)
FirstWord(r) ==
  IF Stored(r.word) # 1 THEN Fails(r, "ERR_IO")
  ELSE IF r.word.text = "R" THEN handleRead(r)
  ELSE IF r.word.text = "W" THEN handleWrite(r)
  ELSE IF r.word = EndOfFile THEN r
  ELSE Fails(r, "ERR_IO")

readCommand(words) == Then(readUntilNextWhiteSpace(Start(words)), FirstWord)

-----------------------------------------------------------------------------
(* How many characters "0x%0nX" takes.                                     *)
Digits(value, n) ==
  2 + CHOOSE d \in n .. 8 :
        (d = 8 \/ value < 16^d) /\ \A k \in n .. d - 1 : ~ (value < 16^k)

print_word_t_as_word(value) == Word("data", value, Digits(value, 8), "space")
print_word_t_as_byte(value) == Word("data", value, Digits(value, 2), "space")
print_uint_64(value)        == Word("address", value, 3 + 16, "newline")

Letters(c) ==
  IF c.type = "INSTRUCTION" THEN "I" ELSE IF c.data_size = 1 THEN "DB" ELSE "DW"

PrintedCommand(c) ==
  LET order   == Word(IF c.order = "READ" THEN "R" ELSE "W", 0, 1, "space")
      type    == Word(Letters(c), 0, IF c.type = "INSTRUCTION" THEN 1 ELSE 2, "space")
      data    == IF c.data_size = 1 THEN print_word_t_as_byte(c.write_data)
                                    ELSE print_word_t_as_word(c.write_data)
      address == print_uint_64(c.page_offset)
  IN  IF c.order = "READ" \/ c.type = "INSTRUCTION" THEN << order, type, address >>
                                                    ELSE << order, type, data, address >>

(* Every command that program_add_command accepts passes the checks that   *)
(* program_print repeats.                                                  *)
program_print(lines) ==
  LET last[n \in 0 .. Len(lines)] ==
        IF n = 0 THEN << >>
        ELSE PrintedCommand(lines[Len(lines) - n + 1]) \o last[n - 1]
  IN  last[Len(lines)]

=============================================================================
