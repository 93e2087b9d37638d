-------------------------- MODULE ProgramReleases ---------------------------
(***************************************************************************)
(* The programs of src/done and of its two graded releases, given the same *)
(* calls, the same files and the same answers of the allocator.  Here a    *)
(* file is its text, and the lines of ProgramRead are what readCommand     *)
(* makes of it.  The graded releases act when the call of src/done         *)
(* returns.                                                                *)
(***************************************************************************)
EXTENDS ProgramRead

CONSTANTS
  WORD_VALUES,
  PastBuffer,  \* what lies behind the buffer of handleRead, of handleWrite
  Texts        \* the contents of the files

VARIABLES
  text, position,  \* the file of the last program_read, its words read
  projet01, projet02

T  == INSTANCE CommandText
P1 == INSTANCE CommandsProjet01
P2 == INSTANCE CommandsProjet02

(* The commands of a text, up to what readCommand refuses: s has those of  *)
(* the lines that have been read, and the words that are left.             *)
Parses(s) ==
  LET r == T!readCommand(s.rest)
  IN  IF s.rest = << >> THEN s
      ELSE IF r.err # "ERR_NONE"
           THEN [lines |-> Append(s.lines, Malformed), rest |-> << >>]
      ELSE [lines |-> Append(s.lines, r.command), rest |-> r.rest]

Parsed(words) ==
  LET after[n \in 0 .. Len(words)] ==
        IF n = 0 THEN [lines |-> << >>, rest |-> words]
        ELSE Parses(after[n - 1])
  IN  after[Len(words)].lines

(* Named assumption: the three builds lay out their frames alike.          *)
ASSUME PastBufferAssumption ==
  PastBuffer \in [{"READ", "WRITE"} -> {"unused", "size"}]

ASSUME TextsAssumption ==
  Texts \subseteq Seq(T!Words) /\ {Parsed(t) : t \in Texts} \subseteq Files

(* write_data is a word_t.                                                 *)
ASSUME WordsAssumption ==
  WORD_VALUES \in Nat /\ \A c \in Commands : c.write_data < WORD_VALUES

releases_vars == << rvars, text, position, projet01, projet02 >>

ReleasesInit ==
  /\ ReadInit
  /\ text = << >> /\ position = 0
  /\ projet01 = [listing |-> NULL, nb_lines |-> 0, allocated |-> 0,
                 err |-> "ERR_NONE"]
  /\ projet02 = [listing |-> NULL, nb_lines |-> 0, allocated |-> 0,
                 open |-> FALSE, err |-> "ERR_NONE"]

LinesOf(p) == [i \in 1 .. IF p.listing = NULL THEN 0 ELSE p.nb_lines |->
                 p.listing[i - 1]]

(* Bound: the first release is followed until it crashes, or its lines are *)
(* others than those of src/done.                                          *)
Lost(why) == [listing |-> NULL, nb_lines |-> 0, allocated |-> 0, err |-> why]
IsLost(p) == p.err \in {P1!Crashed, "apart"}

Both(first, secnd) ==
  /\ projet01' = IF IsLost(projet01) THEN projet01
                 ELSE IF first.err = P1!Crashed THEN Lost(P1!Crashed)
                 ELSE IF LinesOf(first) # Lines' THEN Lost("apart") ELSE first
  /\ projet02' = secnd

Granted == 0  \* refused: no request

(* The program_read of the others, on the words of the text up to a read   *)
(* error if there is one.                                                  *)
ReadBoth(words, granted, refused, error) ==
  Both(P1!program_read(projet01, words, granted, refused),
       P2!program_read(projet02, words, granted, refused, error))

SameText   == UNCHANGED << text, position >>
NoText     == text' = << >> /\ position' = 0
Unfinished == UNCHANGED << projet01, projet02 >>

CannotOpenAny ==
  /\ CannotOpen
  /\ Both(P1!program_read_not_opened(projet01), P2!program_read_not_opened(projet02))
  /\ SameText

OpensAll(t) ==
  /\ Opens(Parsed(t))
  /\ IF err' = "ERR_NONE" THEN text' = t /\ position' = 0 /\ Unfinished
     ELSE SameText /\ ReadBoth(t, FALSE, Granted, FALSE)

Unread == SubSeq(text, position + 1, Len(text))

ReadsCommandText ==
  /\ ReadsCommand
  /\ position' = Len(text) - Len(T!readCommand(Unread).rest)
  /\ Unfinished /\ UNCHANGED text

AddsRead == Adds /\ Unfinished /\ SameText

RefusesText ==
  /\ \/ ReadsMalformed /\ err' = T!readCommand(Unread).err
     \/ ReadsRefused
  /\ ReadBoth(text, TRUE, Granted, FALSE) /\ NoText

CannotAddRead ==
  /\ CannotAdd
  /\ ReadBoth(text, TRUE, 2 * allocated, FALSE) /\ NoText

(* A read error where the white space after the k-th word is due.          *)
CutAfter(k) ==
  [i \in 1 .. k |-> IF i = k THEN [text[i] EXCEPT !.ends = "end"] ELSE text[i]]

FailsInLine ==
  /\ ReadFailsInLine
  /\ \E k \in position + 1 .. Len(text) :
       /\ k <= Len(text) - Len(T!readCommand(Unread).rest)
       /\ err' = T!readCommand(SubSeq(CutAfter(k), position + 1, k)).err
       /\ ReadBoth(CutAfter(k), TRUE, Granted, TRUE)
  /\ NoText

FailsBeforeLine ==
  /\ ReadFailsBeforeLine
  /\ ReadBoth(SubSeq(text, 1, position), TRUE, Granted, TRUE) /\ NoText

ReachesEndOfText == ReachesEnd /\ Unfinished /\ SameText

ShrinksRead ==
  /\ Shrinks(ShrinkProceeds)
  /\ IF op' = "idle" THEN ReadBoth(text, TRUE, Granted, FALSE) /\ NoText
     ELSE Unfinished /\ SameText

CannotShrinkRead ==
  /\ Shrinks(ShrinkFails)
  /\ ReadBoth(text, TRUE, ShrinkSize, FALSE) /\ NoText

-----------------------------------------------------------------------------
(* The caller's own calls.                                                 *)
InitBoth ==
  /\ program_init
  /\ Both(P1!program_init(projet01, listing' # NULL),
          P2!program_init(projet02, listing' # NULL))

FreeBoth ==
  /\ program_free
  /\ Both(P1!program_free(projet01), P2!program_free(projet02))

AddBoth(c, refused) ==
  Both(P1!program_add_command(projet01, c, refused),
       P2!program_add_command(projet02, c, refused))

AddRefusedBoth(c) == AddRefused(c) /\ AddBoth(c, Granted)

ShrinkBoth(refused) ==
  Both(P1!program_shrink(projet01, refused), P2!program_shrink(projet02, refused))

CallBegins ==
  \/ InitBoth \/ FreeBoth
  \/ \E c \in Commands : AddRefusedBoth(c) \/ (AddBegins(c) /\ Unfinished)
  \/ ShrinkBegins /\ Unfinished

CallProceeds ==
  \/ AddGrows /\ Unfinished
  \/ AddStores /\ AddBoth(command, Granted)
  \/ /\ ShrinkResizes \/ ShrinkRefused \/ ShrinkEnds
     /\ IF op' = "idle" THEN ShrinkBoth(Granted) ELSE Unfinished

CallFails ==
  \/ AddFails /\ AddBoth(command, 2 * allocated)
  \/ ShrinkFails /\ ShrinkBoth(ShrinkSize)

ReleasesNext ==
  \/ CannotOpenAny \/ \E t \in Texts : OpensAll(t)
  \/ FailsInLine \/ FailsBeforeLine \/ CannotAddRead \/ CannotShrinkRead
  \/ RefusesText \/ ReadsCommandText \/ AddsRead
  \/ ReachesEndOfText \/ ShrinksRead
  \/ Uses(CallBegins \/ CallProceeds \/ CallFails) /\ SameText

(* The fairness of ReadSpec: what the releases add to a step of src/done   *)
(* never stands in its way.                                                *)
ReleasesSpec ==
  /\ ReleasesInit /\ [][ReleasesNext]_releases_vars
  /\ WF_rvars(ReadProceeds)

-----------------------------------------------------------------------------
(***************************************************************************)
(* Properties.                                                             *)
(***************************************************************************)
(* The first release drops the error codes of the functions it calls and   *)
(* never checks its listing, so what it makes of a bad file, a refused     *)
(* command or a failed allocation is its own.  But a call that succeeds in *)
(* src/done neither crashes it nor makes it differ: the two read the same  *)
(* commands from a good file, and the listing that it does not shrink      *)
(* grows to hold the same lines.                                           *)
AgreesWithProjet01 ==
  [][err' = "ERR_NONE" /\ projet01' # projet01 => ~ IsLost(projet01')]_releases_vars

(* The steps of a call of src/done have come, when it returns, to what its *)
(* code, which is that of the second release, computes as one function,    *)
(* whatever loop of it the allocation failed in: the same block, counters, *)
(* error code and stream.                                                  *)
ActsAsProjet02 ==
  reader = "none" /\ op = "idle" =>
    projet02 = [listing |-> listing, nb_lines |-> nb_lines,
                allocated |-> allocated, open |-> open, err |-> err]

(* Every printed address fills the buffer, so the 0 that handle_virt_addr  *)
(* puts after it falls behind the buffer of the reader of its order.       *)
LosesSize(c) == PastBuffer[c.order] = "size"

(* program_print writes what readCommand reads back, up to the first line  *)
(* whose reader loses the size of the address to that 0, a line that is    *)
(* refused.  In a build where it falls into padding, that is every line of *)
(* any program, also one that stores a byte with more digits than a byte   *)
(* has.                                                                    *)
ReadsWhatItPrints ==
  reader = "none" /\ op = "idle" =>
    \A k \in 0 .. Len(Lines) :
      /\ \A i \in 1 .. k : ~ LosesSize(Lines[i])
      /\ k < Len(Lines) => LosesSize(Lines[k + 1])
      => Parsed(T!program_print(Lines)) =
           SubSeq(Lines, 1, k) \o IF k = Len(Lines) THEN << >> ELSE << Malformed >>

(* A call returns, those of program_read included: the loop over the lines *)
(* ends at the end of the file, and no addition and no shrink goes round   *)
(* for ever.                                                               *)
Busy == reader # "none" \/ op # "idle"
AllReturn == Busy ~> ~ Busy

=============================================================================
