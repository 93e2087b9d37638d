--------------------------- MODULE MemoryReleases ---------------------------
(***************************************************************************)
(* The two graded releases of memory.c beside the last one: every load is  *)
(* made by all three, with the same files and the same faults, and what    *)
(* each returned is kept.  src/grading/projet02 reads a description as     *)
(* src/done does, but for two numbers it does not check; the first         *)
(* release, src/grading/projet01, checks hardly anything, and is followed  *)
(* as long as what it does is defined.                                     *)
(***************************************************************************)
EXTENDS MemoryLoad, FiniteSets

VARIABLES
  projet01,  \* what the last call returned in the first release: the memory,
             \* whether a file is open, the code; NULL if it is not followed
  projet02   \* and in the second

releases == << vars, projet01, projet02 >>

Result(m, opened, code) == [memory |-> m, open |-> opened, err |-> code]

Memories ==
  {NULL} \cup Dumps \cup UNION {[0 .. d.capacity - 1 -> Pages] : d \in Descriptions}

Codes == {"ERR_NONE", "ERR_BAD_PARAMETER", "ERR_IO", "ERR_MEM", "ERR_EOF"}

ASSUME NotFollowedAssumption ==
  NULL \notin [memory : Memories, open : BOOLEAN, err : Codes]

Nothing == Result(NULL, FALSE, "ERR_NONE")
Done == Result(memory, open, err)

ReleasesInit == Init /\ projet01 = Nothing /\ projet02 = Nothing

Blank(d) == [f \in 0 .. d.capacity - 1 |-> Zeros]

(* The data lines of the description that have been read.                  *)
DataRead == SubSeq(desc.data, 1, Len(desc.data) - Len(todo))

(* What a load has read when the name of the last table was not: no data,  *)
(* and for that table the page left over, which is the same in the three.  *)
MisreadAs(d, page) ==
  [capacity |-> d.capacity, pgd |-> d.pgd,
   tables |-> [d.tables EXCEPT ![Len(d.tables)].page = page], data |-> << >>]

Misread == MisreadAs(desc, memory[desc.tables[Len(desc.tables)].frame])

-----------------------------------------------------------------------------
(***************************************************************************)
(* projet01.  No caller tests what page_file_read returns: a page that     *)
(* does not fit is left out.                                               *)
(***************************************************************************)
page_file_read_ignored(m, frame, page) ==
  IF frame + 1 <= Cardinality(DOMAIN m) THEN [m EXCEPT ![frame] = page] ELSE m

TablesOf(d) ==
  LET after[n \in 0 .. Len(d.tables)] ==
        IF n = 0 THEN page_file_read_ignored(Blank(d), START_PAGE_TABLE, d.pgd)
        ELSE page_file_read_ignored(after[n - 1], d.tables[n].frame, d.tables[n].page)
  IN  after[Len(d.tables)]

mem_init_from_description_unchecked(d, data) ==
  LET after[n \in 0 .. Len(data)] ==
        IF n = 0 THEN TablesOf(d)
        ELSE page_file_read_ignored(after[n - 1],
               page_walk(after[n - 1], data[n].vaddr), data[n].page)
  IN  after[Len(data)]

(* The walks to the data pages read nothing behind the end of the memory,  *)
(* where a table that did not fit would be.                                *)
WalksInside(d) ==
  \A i \in DOMAIN d.data :
    walked(TableAt(d), d.data[i].vaddr) \subseteq 0 .. d.capacity - 1

(* At the end of its description the file is closed only if the last line  *)
(* is not terminated.                                                      *)
Loads1(d, data, opened) ==
  projet01' = Result(mem_init_from_description_unchecked(d, data),
                     opened, "ERR_NONE")

(* A size that is not read, or not alone on its line, is refused with the  *)
(* file left open.                                                         *)
RefusesSize == projet01' = Result(NULL, TRUE, "ERR_IO")

(* mem_init_from_dumpfile: a file that could not be opened is refused, and *)
(* so is a dump for which there is no memory, with its file left open.     *)
Dumps1 ==
  \/ err' = "ERR_NONE" /\ projet01' = Result(memory', FALSE, "ERR_NONE")
  \/ fault' = "open" /\ projet01' = Result(NULL, FALSE, "ERR_BAD_PARAMETER")
  \/ fault' = "alloc" /\ projet01' = Result(NULL, TRUE, "ERR_BAD_PARAMETER")
  \/ fault' \in {"size", "read"} /\ projet01' = NULL

Describes1 ==
  \/ fault' = "none" /\ \E opened \in BOOLEAN : Loads1(desc, desc.data, opened)
  \/ fault' = "cut" /\ Loads1(desc, DataRead, TRUE)
  \/ fault' = "misread" /\ Loads1(Misread, << >>, FALSE)
  \/ /\ fault' = "bounds" /\ WalksInside(desc)
     /\ \E opened \in BOOLEAN : Loads1(desc, desc.data, opened)
  \/ fault' = "bounds" /\ ~ WalksInside(desc) /\ projet01' = NULL
  \/ stage = "size" /\ fault' \in {"capacity", "line"} /\ RefusesSize
  \/ stage = "size" /\ fault' = "alloc" /\ projet01' = NULL
  \/ stage # "size" /\ fault' \in {"line", "location", "page"} /\ projet01' = NULL

-----------------------------------------------------------------------------
(***************************************************************************)
(* projet02.                                                               *)
(***************************************************************************)
handle_exit_error_in(code) == Result(NULL, FALSE, code)

(* As if a page that does not fit were passed over.                        *)
page_file_read_passed_over(r, frame, page) ==
  IF r.err # "ERR_NONE" \/ frame + 1 > Cardinality(DOMAIN r.memory) THEN r
  ELSE Result([r.memory EXCEPT ![frame] = page], r.open, r.err)

(* page_file_read, after which the caller tests for an error.              *)
page_file_read_checked(r, frame, page) ==
  IF r.err # "ERR_NONE" THEN r
  ELSE IF frame + 1 <= Cardinality(DOMAIN r.memory)
       THEN Result([r.memory EXCEPT ![frame] = page], r.open, r.err)
       ELSE handle_exit_error_in("ERR_MEM")

TablePages(r, lines) ==
  LET after[n \in 0 .. Len(lines)] ==
        IF n = 0 THEN r
        ELSE page_file_read_checked(after[n - 1], lines[n].frame, lines[n].page)
  IN  after[Len(lines)]

DataPages(r, lines) ==
  LET after[n \in 0 .. Len(lines)] ==
        IF n = 0 THEN r
        ELSE IF after[n - 1].err # "ERR_NONE" THEN after[n - 1]
        ELSE page_file_read_checked(after[n - 1],
               page_walk(after[n - 1].memory, lines[n].vaddr), lines[n].page)
  IN  after[Len(lines)]

mem_init_from_description_checked(d, data) ==
  DataPages(TablePages(page_file_read_checked(Result(Blank(d), FALSE, "ERR_NONE"),
                                          START_PAGE_TABLE, d.pgd),
                   d.tables),
            data)

(* An unreadable size or location is not noticed: what is found behind it  *)
(* is neither the end of the line nor a space, and that is an error.       *)
Describes2 ==
  \/ fault' = "none" /\ projet02' = mem_init_from_description_checked(desc, desc.data)
  \/ fault' = "cut" /\ projet02' = mem_init_from_description_checked(desc, DataRead)
  \/ fault' = "misread" /\ projet02' = mem_init_from_description_checked(Misread, << >>)
  \/ fault' = "bounds" /\ projet02' = mem_init_from_description_checked(desc, desc.data)
  \/ fault' = "capacity" /\ projet02' = handle_exit_error_in("ERR_IO")
  \/ fault' = "location" /\ projet02' = handle_exit_error_in("ERR_BAD_PARAMETER")
  \/ fault' \in {"line", "alloc", "page"} /\ projet02' = handle_exit_error_in(err')

Dumps2 ==
  projet02' = IF err' = "ERR_NONE" THEN Result(memory', FALSE, err')
                                   ELSE handle_exit_error_in(err')

-----------------------------------------------------------------------------
(* The owner frees what each release has given it.                         *)
Freed(r) == IF r = NULL THEN NULL ELSE Result(NULL, r.open, r.err)

ReleasesNext ==
  \/ Dumping /\ Dumps1 /\ Dumps2
  \/ /\ NotOpened
     /\ projet01' = NULL /\ projet02' = handle_exit_error_in("ERR_BAD_PARAMETER")
  \/ \E d \in Descriptions : Opens(d) /\ UNCHANGED << projet01, projet02 >>
  \/ (Proceeds \/ Faults) /\ stage' # "idle" /\ UNCHANGED << projet01, projet02 >>
  \/ (Proceeds \/ Faults) /\ stage' = "idle" /\ Describes1 /\ Describes2
  \/ Frees /\ projet01' = Freed(projet01) /\ projet02' = Freed(projet02)

ReleasesSpec ==
  /\ ReleasesInit /\ [][ReleasesNext]_releases
  /\ WF_vars(Proceeds \/ (fault' = "bounds" /\ Faults))

-----------------------------------------------------------------------------
(***************************************************************************)
(* Properties.                                                             *)
(***************************************************************************)
(* Every load gives the same in the second release, which never leaves a   *)
(* file open or memory behind an error, not even where the last one does.  *)
(* A load that returns no error, complete, cut short or misread, gives the *)
(* same memory in the first release too; when a page does not fit, the     *)
(* first release still places all the others, as far as it can be          *)
(* followed.                                                               *)
SameLoads ==
  stage = "idle" =>
    /\ fault \notin {"capacity", "location"} => projet02 = Done
    /\ ~ projet02.open /\ (projet02.err # "ERR_NONE" => projet02.memory = NULL)
    /\ fault \in {"none", "cut", "misread"} =>
         projet01.memory = memory /\ projet01.err = "ERR_NONE"
    /\ fault = "bounds" /\ projet01 # NULL =>
         \A i \in DOMAIN desc.data :
           LET frame == page_walk(projet01.memory, desc.data[i].vaddr)
           IN  frame \in DOMAIN projet01.memory =>
                 projet01.memory[frame] = desc.data[i].page

=============================================================================
