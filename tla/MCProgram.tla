------------------------------ MODULE MCProgram -----------------------------
(***************************************************************************)
(* Commands that are accepted, a byte store that is wider than a byte      *)
(* among them, and one that is refused, and texts of a few lines of these  *)
(* and of malformed ones.  A line may lack its end or have a word too      *)
(* many, and its data may have more digits than a word.                    *)
(***************************************************************************)
EXTENDS ProgramReleases, SequencesExt

Fetch == [order |-> READ, type |-> INSTRUCTION, data_size |-> WORD_SIZE,
          write_data |-> 0, page_offset |-> 4]
Store == [order |-> WRITE, type |-> DATA, data_size |-> WORD_SIZE,
          write_data |-> 7, page_offset |-> 8]
StoreByte == [Store EXCEPT !.data_size = BYTE_SIZE, !.write_data = 300]
Misaligned == [Fetch EXCEPT !.page_offset = 6]

MCReadCommands == {Fetch, Store, StoreByte, Misaligned}

(* Behind the buffer of handleRead lies the size, behind the one of        *)
(* handleWrite padding.                                                    *)
MCPastBuffer ==
  [order \in {"READ", "WRITE"} |-> IF order = "READ" THEN "size" ELSE "unused"]

FetchAt(offset, size, ends) ==
  << T!Word("R", 0, 1, "space"), T!Word("I", 0, 1, "space"),
     T!Word("address", offset, size, ends) >>
StoreOf(data, size) ==
  << T!Word("W", 0, 1, "space"), T!Word("DW", 0, 2, "space"),
     T!Word("data", data, size, "space"), T!Word("address", 8, 4, "newline") >>
Blank == << T!Word("other", 0, 0, "newline") >>

MCLines == {FetchAt(4, 4, "newline"), FetchAt(4, 19, "newline"),
            FetchAt(6, 4, "newline"), FetchAt(4, 4, "space"),
            StoreOf(7, 4), StoreOf(WORD_VALUES + 7, 11), Blank}

(* Any line comes alone, last behind one or two that can be read, or       *)
(* before one that can be read.                                            *)
MCGood == << FetchAt(4, 4, "newline"), StoreOf(7, 4) >>
MCTexts ==
  {<< >>} \cup {FlattenSeq(Append(SubSeq(MCGood, 1, n), line)) :
                 n \in 0 .. 2, line \in MCLines}
          \cup {line \o MCGood[n] : line \in MCLines, n \in 1 .. 2}
MCFiles == {Parsed(t) : t \in MCTexts}

=============================================================================
