----------------------------- MODULE MemoryLoad -----------------------------
(***************************************************************************)
(* memory.c: the memory is allocated and filled, from a dump of its        *)
(* contents or from a description that names the files of its pages.       *)
(* Anything that is read may be missing or malformed, and any allocation   *)
(* and any read may fail.                                                  *)
(*                                                                         *)
(* A description is its capacity in pages, the page of the page directory, *)
(* the translation pages with their frames, and the data pages with their  *)
(* virtual pages; it is read one line at a time, in this order.  Addresses *)
(* of pages are multiples of the page size.  A stream that has failed once *)
(* fails again.                                                            *)
(*                                                                         *)
(* A definition whose comment begins with "As if" is a deliberate mistake, *)
(* used nowhere: the properties are seen to fail when it takes the place   *)
(* of the definition it is made after.                                     *)
(***************************************************************************)
EXTENDS PageWalk, Sequences

CONSTANTS
  Pages,         \* what a page can hold
  Zeros,         \* a page as calloc leaves it
  Descriptions,
  Dumps,         \* the memories that are dumped in a file
  NULL

TableLines == [frame : Nat, page : Pages]
DataLines  == UNION {{d.data[i] : i \in DOMAIN d.data} : d \in Descriptions}

ASSUME PagesAssumption ==
  /\ Zeros \in Pages
  /\ \A d \in Descriptions :
       /\ d.capacity \in Nat /\ d.pgd \in Pages
       /\ d.tables \in Seq(TableLines) /\ d.data \in Seq(DataLines)
  /\ \A l \in DataLines : l.page \in Pages
  /\ \A m \in Dumps : \A f \in DOMAIN m : m[f] \in Pages

ASSUME NullAssumption ==
  /\ NULL \notin Descriptions /\ NULL \notin Dumps
  /\ \A d \in Descriptions : NULL \notin [0 .. d.capacity - 1 -> Pages]

(* The frames of the tables of a description, and what it puts there.      *)
TableFrames(d) == {START_PAGE_TABLE} \cup {d.tables[i].frame : i \in DOMAIN d.tables}

TableAt(d) == [f \in TableFrames(d) |->
  IF f = START_PAGE_TABLE THEN d.pgd
  ELSE d.tables[CHOOSE i \in DOMAIN d.tables : d.tables[i].frame = f].page]

FrameOf(d, i) == page_walk(TableAt(d), d.data[i].vaddr)

(* A description has a table (without one the end of the line that says so *)
(* is taken for an address, and refused), puts each page on a frame of its *)
(* own, and names a virtual page only if its tables lead to it.            *)
ASSUME DescriptionsAssumption ==
  \A d \in Descriptions :
    /\ d.tables # << >>
    /\ \A i, j \in DOMAIN d.tables :
         /\ d.tables[i].frame # START_PAGE_TABLE
         /\ i # j => d.tables[i].frame # d.tables[j].frame
    /\ \A i \in DOMAIN d.data :
         /\ walked(TableAt(d), d.data[i].vaddr) \subseteq TableFrames(d)
         /\ FrameOf(d, i) \in Nat \ TableFrames(d)
    /\ \A i, j \in DOMAIN d.data : i # j => FrameOf(d, i) # FrameOf(d, j)

VARIABLES
  memory,  \* *memory: NULL, or the frames of the block it points to
  live,    \* that block is allocated
  open,    \* the file that the last call opened has not been closed
  stage,   \* "idle", or what is read next: "size", "pgd", "count", "tables",
           \* "data"; "ended" in the tables when nothing more can be read,
           \* "exit" when page_file_read has returned an error
  desc,    \* the description being read, or the one read last
  todo,    \* the lines of the current list that have not been read
  err,     \* what the last call returned
  fault    \* what went wrong in it, "none" if nothing

vars == << memory, live, open, stage, desc, todo, err, fault >>

Init ==
  /\ memory = NULL /\ live = FALSE /\ open = FALSE
  /\ stage = "idle" /\ desc = NULL /\ todo = << >>
  /\ err = "ERR_NONE" /\ fault = "none"

Block    == << memory, live >>
Progress == << desc, todo >>

(* As if the pointer were freed and not cleared.                           *)
FreesBlock_dangling == live' = FALSE /\ UNCHANGED memory

FreesBlock == live' = FALSE /\ memory' = NULL

(* handle_exit_error closes the file, frees *memory and clears it.         *)
handle_exit_error == open' = FALSE /\ FreesBlock

(* The call ends: with this code, because of this fault.                   *)
Returns(code, what) ==
  stage' = "idle" /\ err' = code /\ fault' = what /\ UNCHANGED Progress

Continues(next) == stage' = next /\ UNCHANGED << err, fault >>

-----------------------------------------------------------------------------
(***************************************************************************)
(* mem_init_from_dumpfile: the length of the file must be a whole number   *)
(* of pages.                                                               *)
(***************************************************************************)
Calls == stage = "idle" /\ memory = NULL

DumpNotOpened ==
  /\ Calls
  /\ open' = FALSE
  /\ Returns("ERR_BAD_PARAMETER", "open")
  /\ UNCHANGED Block

DumpOfWrongSize == Calls /\ handle_exit_error /\ Returns("ERR_BAD_PARAMETER", "size")

DumpNotAllocated ==
  /\ Calls
  /\ memory' = NULL
  /\ open' = FALSE
  /\ Returns("ERR_MEM", "alloc")
  /\ UNCHANGED live

DumpNotRead == Calls /\ handle_exit_error /\ Returns("ERR_IO", "read")

DumpLoads(m) ==
  /\ Calls
  /\ memory' = m /\ live' = TRUE
  /\ open' = FALSE
  /\ desc' = NULL /\ todo' = << >>
  /\ stage' = "idle" /\ err' = "ERR_NONE" /\ fault' = "none"

-----------------------------------------------------------------------------
(***************************************************************************)
(* page_file_read: a whole page goes to a frame of the memory.  When it    *)
(* cannot be read, page_file_read closes the file of the page and frees    *)
(* the memory; when there is no room, it leaves all that to its caller.    *)
(***************************************************************************)
Fits(frame) == frame + 1 <= desc.capacity

page_file_read(frame, page) ==
  /\ Fits(frame)
  /\ memory' = [memory EXCEPT ![frame] = page]
  /\ UNCHANGED << live, open >>

page_file_read_fails(frame) ==
  /\ stage' = "exit" /\ UNCHANGED << open, Progress >>
  /\ \/ /\ ~ Fits(frame)
        /\ err' = "ERR_MEM" /\ fault' = "bounds"
        /\ UNCHANGED Block
     \/ /\ Fits(frame)
        /\ err' \in {"ERR_BAD_PARAMETER", "ERR_IO"} /\ fault' = "page"
        /\ FreesBlock

(* The caller cleans up whether or not page_file_read has, and returns     *)
(* what it has returned.                                                   *)
ErrorReturns == stage = "exit" /\ handle_exit_error /\ Returns(err, fault)

-----------------------------------------------------------------------------
(***************************************************************************)
(* mem_init_from_description.                                              *)
(***************************************************************************)
NotOpened == Calls /\ handle_exit_error /\ Returns("ERR_BAD_PARAMETER", "open")

Opens(d) ==
  /\ Calls
  /\ open' = TRUE /\ desc' = d
  /\ Continues("size") /\ UNCHANGED << Block, todo >>

(* The size is not a number: the file is left open.                        *)
SizeUnreadable ==
  /\ stage = "size"
  /\ Returns("ERR_IO", "capacity")
  /\ UNCHANGED << Block, open >>

SizeLineBad == stage = "size" /\ handle_exit_error /\ Returns("ERR_IO", "line")

NotAllocated == stage = "size" /\ handle_exit_error /\ Returns("ERR_MEM", "alloc")

(* As if a memory were one page short.                                     *)
Allocates_short ==
  /\ stage = "size"
  /\ memory' = [f \in 0 .. desc.capacity - 2 |-> Zeros] /\ live' = TRUE
  /\ Continues("pgd") /\ UNCHANGED << open, Progress >>

Allocates ==
  /\ stage = "size"
  /\ memory' = [f \in 0 .. desc.capacity - 1 |-> Zeros] /\ live' = TRUE
  /\ Continues("pgd") /\ UNCHANGED << open, Progress >>

(* The file ends, or the name is empty.  A read that fails leaves any name *)
(* in the buffer, but then the number of tables cannot be read either: the *)
(* load ends as it does here.                                              *)
PgdLineBad ==
  /\ stage = "pgd"
  /\ handle_exit_error
  /\ \E code \in {"ERR_EOF", "ERR_BAD_PARAMETER"} : Returns(code, "line")

PgdFails == stage = "pgd" /\ page_file_read_fails(START_PAGE_TABLE)

PgdLoads ==
  /\ stage = "pgd"
  /\ page_file_read(START_PAGE_TABLE, desc.pgd)
  /\ Continues("count") /\ UNCHANGED Progress

CountUnreadable ==
  stage = "count" /\ handle_exit_error /\ Returns("ERR_BAD_PARAMETER", "line")

ReadsCount ==
  /\ stage = "count"
  /\ todo' = desc.tables
  /\ Continues("tables") /\ UNCHANGED << Block, open, desc >>

InTables == stage = "tables" /\ todo # << >>

(* The frame is not a number: the file is left open, and the memory        *)
(* allocated.                                                              *)
LocationUnreadable ==
  /\ InTables
  /\ Returns("ERR_IO", "location")
  /\ UNCHANGED << Block, open >>

TableLineBad == InTables /\ handle_exit_error /\ Returns("ERR_BAD_PARAMETER", "line")

TableFails == InTables /\ page_file_read_fails(Head(todo).frame)

(* As if the line were never done.                                         *)
TableLoads_again ==
  /\ InTables
  /\ page_file_read(Head(todo).frame, Head(todo).page)
  /\ todo' = todo
  /\ Continues("tables") /\ UNCHANGED desc

TableLoads ==
  /\ InTables
  /\ page_file_read(Head(todo).frame, Head(todo).page)
  /\ todo' = Tail(todo)
  /\ Continues("tables") /\ UNCHANGED desc

(* Whether fgets has read the name of a table is not tested.  When it has  *)
(* not, the buffer keeps the name of the line before, and before the first *)
(* any name: it is not initialized.  (A read that fails within a name      *)
(* leaves one that cannot be opened, or the one before; a frame that does  *)
(* not fit is refused by TableFails, with whatever name.)                  *)
LeftoverPages ==
  IF todo = desc.tables THEN Pages
  ELSE {desc.tables[Len(desc.tables) - Len(todo)].page}

TableMisread ==
  /\ InTables
  /\ \E page \in LeftoverPages : page_file_read(Head(todo).frame, page)
  /\ todo' = Tail(todo)
  /\ Continues("ended") /\ UNCHANGED desc

(* There is another line, whose frame cannot be read either.               *)
LocationMissing ==
  /\ stage = "ended" /\ todo # << >>
  /\ Returns("ERR_IO", "location")
  /\ UNCHANGED << Block, open >>

(* It was the last: the loop over the data is not entered.                 *)
MisreadReturns ==
  /\ stage = "ended" /\ todo = << >>
  /\ open' = FALSE
  /\ Returns("ERR_NONE", "misread")
  /\ UNCHANGED Block

(* As if a data line were lost between the two loops.                      *)
TablesEnd_skipping ==
  /\ stage = "tables" /\ todo = << >>
  /\ todo' = SubSeq(desc.data, 2, Len(desc.data))
  /\ Continues("data") /\ UNCHANGED << Block, open, desc >>

TablesEnd ==
  /\ stage = "tables" /\ todo = << >>
  /\ todo' = desc.data
  /\ Continues("data") /\ UNCHANGED << Block, open, desc >>

InData == stage = "data" /\ todo # << >>

(* A failing fgetc before a line, or after its address, looks like the end *)
(* of the file, and so does a last line without a file name.               *)
DataCut ==
  /\ InData
  /\ open' = FALSE
  /\ Returns("ERR_NONE", "cut")
  /\ UNCHANGED Block

(* The address is not a number, or the name is too long.                   *)
DataLineBad ==
  /\ InData
  /\ handle_exit_error
  /\ \E code \in {"ERR_BAD_PARAMETER", "ERR_IO"} : Returns(code, "line")

(* The virtual address is translated by the tables that have been loaded.  *)
DataFails == InData /\ page_file_read_fails(page_walk(memory, Head(todo).vaddr))

DataLoads ==
  /\ InData
  /\ page_file_read(page_walk(memory, Head(todo).vaddr), Head(todo).page)
  /\ todo' = Tail(todo)
  /\ Continues("data") /\ UNCHANGED desc

(* As if the end of the description left the file open.                    *)
DataEnd_open ==
  /\ stage = "data" /\ todo = << >>
  /\ Returns("ERR_NONE", "none")
  /\ UNCHANGED << Block, open >>

DataEnd ==
  /\ stage = "data" /\ todo = << >>
  /\ open' = FALSE
  /\ Returns("ERR_NONE", "none")
  /\ UNCHANGED Block

(* The caller frees the memory it was given.                               *)
Frees ==
  /\ stage = "idle" /\ memory # NULL
  /\ memory' = NULL /\ live' = FALSE
  /\ UNCHANGED << open, stage, Progress, err, fault >>

-----------------------------------------------------------------------------
Dumping ==
  \/ DumpNotOpened \/ DumpOfWrongSize \/ DumpNotAllocated \/ DumpNotRead
  \/ \E m \in Dumps : DumpLoads(m)

Faults ==
  \/ SizeUnreadable \/ SizeLineBad \/ NotAllocated
  \/ PgdLineBad \/ PgdFails \/ CountUnreadable
  \/ LocationUnreadable \/ TableLineBad \/ TableFails \/ TableMisread
  \/ DataCut \/ DataLineBad \/ DataFails

Proceeds ==
  \/ Allocates \/ PgdLoads \/ ReadsCount
  \/ TableLoads \/ TablesEnd \/ DataLoads \/ DataEnd
  \/ LocationMissing \/ MisreadReturns \/ ErrorReturns

Next ==
  \/ Dumping
  \/ NotOpened \/ \E d \in Descriptions : Opens(d)
  \/ Proceeds \/ Faults
  \/ Frees

(* A call that has begun runs on; a page that does not fit is refused, and *)
(* no other fault is relied on to end it.                                  *)
Spec == Init /\ [][Next]_vars /\ WF_vars(Proceeds \/ (fault' = "bounds" /\ Faults))

-----------------------------------------------------------------------------
(***************************************************************************)
(* Properties.                                                             *)
(***************************************************************************)
(* The page directory and the first tables of the description are in the   *)
(* memory, at their frames.                                                *)
HoldsTables(n) ==
  /\ memory[START_PAGE_TABLE] = desc.pgd
  /\ \A i \in 1 .. n : memory[desc.tables[i].frame] = desc.tables[i].page

TypeOK ==
  /\ memory # NULL => \A f \in DOMAIN memory : memory[f] \in Pages
  /\ memory # NULL /\ desc # NULL => DOMAIN memory = 0 .. desc.capacity - 1
  /\ live \in BOOLEAN /\ open \in BOOLEAN
  /\ stage \in {"idle", "size", "pgd", "count", "tables", "ended", "data", "exit"}
  /\ desc \in Descriptions \cup {NULL}
  /\ err \in {"ERR_NONE", "ERR_BAD_PARAMETER", "ERR_IO", "ERR_MEM", "ERR_EOF"}

(* *memory points to an allocated block or is NULL, and no block is lost,  *)
(* at every point between the two clean-ups that follow a page which       *)
(* cannot be read: what the caller frees after page_file_read has freed it *)
(* is NULL, and no page is read into a freed block.                        *)
OwnsItsBlock == live <=> memory # NULL

(* What a call leaves behind: a file stays open only if a number in it was *)
(* unreadable, and an error leaves no memory, but for an unreadable        *)
(* location, whichever page and whichever level the error came from.       *)
CleansUp ==
  stage = "idle" =>
    /\ open => fault \in {"capacity", "location"}
    /\ err # "ERR_NONE" /\ fault # "location" => memory = NULL

(* After a load without an error the page directory and the translation    *)
(* pages are at their places and a page walk in the finished memory takes  *)
(* each virtual page of the description to its data: every page was placed *)
(* by tables that were already complete.  A load that a failing read has   *)
(* cut short has done so for the lines before it; one in which the name of *)
(* the last table was not read has the table before once more in its place *)
(* (whatever page, if there is none before), and no data.                  *)
LoadsTheDescription ==
  stage = "idle" /\ memory # NULL /\ desc # NULL =>
    /\ fault \in {"none", "cut"} =>
         /\ HoldsTables(Len(desc.tables))
         /\ \A i \in 1 .. Len(desc.data) - Len(todo) :
              memory[page_walk(memory, desc.data[i].vaddr)] = desc.data[i].page
    /\ fault = "misread" =>
         LET last == Len(desc.tables)
         IN  /\ HoldsTables(last - 1)
             /\ last > 1 => memory[desc.tables[last].frame] = desc.tables[last - 1].page

(* A load returns: each of its two loops ends with its list.               *)
LoadReturns == stage # "idle" ~> stage = "idle"

(* "error code, *p_memory shall be NULL in case of error" (memory.h).      *)
ErrorMeansNull == stage = "idle" /\ err # "ERR_NONE" => memory = NULL

=============================================================================
