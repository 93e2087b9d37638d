------------------------- MODULE MemoryLoad_proofs -------------------------
(***************************************************************************)
(* Proofs about modules MemoryLoad and MemoryReleases, for every set of    *)
(* descriptions and of dumps, and whatever fails.                          *)
(***************************************************************************)
EXTENDS MemoryReleases, SequenceTheorems, FiniteSetTheorems, TLAPS

(* What is left of a list are its last lines.                              *)
RestOf(list) ==
  /\ Len(todo) <= Len(list)
  /\ \A j \in 1 .. Len(todo) : todo[j] = list[Len(list) - Len(todo) + j]

(* A call that is under way has its file open, reads the lines of its      *)
(* description and, from the page directory on, has a block to read into.  *)
UnderWay ==
  /\ stage # "idle" => desc \in Descriptions
  /\ stage = "size" => memory = NULL
  /\ stage \in {"pgd", "count", "tables", "ended", "data"} => memory # NULL
  /\ stage \in {"tables", "ended"} => todo \in Seq(TableLines) /\ RestOf(desc.tables)
  /\ stage = "data" => todo \in Seq(DataLines) /\ RestOf(desc.data)
  /\ stage = "exit" => err # "ERR_NONE" /\ fault \in {"bounds", "page"}

IInv == TypeOK /\ UnderWay /\ OwnsItsBlock /\ CleansUp

LEMMA InitInv == Init => IInv
  BY DEF Init, IInv, TypeOK, UnderWay, OwnsItsBlock, CleansUp

(***************************************************************************)
(* A call that ends through handle_exit_error leaves nothing behind.       *)
(***************************************************************************)
LEMMA ExitCleans ==
  ASSUME IInv, handle_exit_error,
         NEW code \in Codes, NEW what, Returns(code, what)
  PROVE  IInv'
<1>1. TypeOK'
  BY DEF IInv, TypeOK, handle_exit_error, FreesBlock, Returns, Codes, Progress
<1>2. UnderWay' /\ OwnsItsBlock' /\ CleansUp'
  BY DEF UnderWay, OwnsItsBlock, CleansUp, handle_exit_error, FreesBlock, Returns
<1> QED
  BY <1>1, <1>2 DEF IInv

(***************************************************************************)
(* Reading a line: what is left are the last lines still, and one more has *)
(* been read.                                                              *)
(***************************************************************************)
LEMMA RestStep ==
  ASSUME NEW S, NEW list \in Seq(S), todo \in Seq(S), todo # << >>, RestOf(list),
         todo' = Tail(todo), list' = list
  PROVE  /\ RestOf(list)'
         /\ Len(list) - Len(todo) \in Nat
         /\ Len(list) - Len(todo') = Len(list) - Len(todo) + 1
         /\ Len(list) - Len(todo) + 1 \in 1 .. Len(list)
         /\ Head(todo) = list[Len(list) - Len(todo) + 1]
<1>1. /\ Len(list) \in Nat /\ Len(todo) \in Nat \ {0} /\ Len(todo') = Len(todo) - 1
      /\ Head(todo) = todo[1]
      /\ \A j \in 1 .. Len(todo) - 1 : Tail(todo)[j] = todo[j + 1]
  OBVIOUS
<1>2. ASSUME NEW j \in 1 .. Len(todo')
      PROVE  todo'[j] = list[Len(list) - Len(todo') + j]
  <2>1. j + 1 \in 1 .. Len(todo)
    BY <1>1
  <2>2. todo'[j] = list[Len(list) - Len(todo) + (j + 1)]
    BY <1>1, <2>1 DEF RestOf
  <2> QED
    BY <1>1, <2>2
<1> QED
  BY <1>1, <1>2 DEF RestOf

(***************************************************************************)
(* A name that is not read leaves that of the line before, or any name.    *)
(***************************************************************************)
LEMMA Leftover ==
  ASSUME desc \in Descriptions, todo \in Seq(TableLines), RestOf(desc.tables),
         todo # << >>, NEW page \in LeftoverPages
  PROVE  /\ page \in Pages
         /\ Len(desc.tables) - Len(todo) > 0 =>
              page = desc.tables[Len(desc.tables) - Len(todo)].page
<1> DEFINE n == Len(desc.tables) - Len(todo)
<1>1. desc.tables \in Seq(TableLines)
  BY PagesAssumption
<1>2. n \in 0 .. Len(desc.tables)
  BY <1>1 DEF RestOf
<1>3. CASE n = 0
  <2>1. Len(todo) = Len(desc.tables) /\ \A j \in 1 .. Len(todo) : todo[j] = desc.tables[j]
    BY <1>1, <1>3 DEF RestOf
  <2>2. todo = desc.tables
    BY <1>1, <2>1
  <2> QED
    BY <1>3, <2>2 DEF LeftoverPages
<1>4. CASE n > 0
  <2>1. todo # desc.tables
    BY <1>1, <1>4
  <2>2. page = desc.tables[n].page
    BY <2>1 DEF LeftoverPages
  <2>3. desc.tables[n] \in TableLines
    BY <1>1, <1>2, <1>4
  <2> QED
    BY <2>2, <2>3 DEF TableLines
<1> QED
  BY <1>2, <1>3, <1>4

(***************************************************************************)
(* A block with as many pages as the description says is not NULL.         *)
(***************************************************************************)
LEMMA BlockNotNull ==
  ASSUME NEW d \in Descriptions, NEW m \in [0 .. d.capacity - 1 -> Pages]
  PROVE  m # NULL
  BY NullAssumption

(***************************************************************************)
(* page_file_read keeps the shape of the block, wherever it writes.        *)
(***************************************************************************)
LEMMA PageFits ==
  ASSUME IInv, desc \in Descriptions, memory # NULL,
         NEW frame, NEW page \in Pages, page_file_read(frame, page)
  PROVE  memory' \in [0 .. desc.capacity - 1 -> Pages]
<1>1. desc # NULL
  BY NullAssumption
<1>2. DOMAIN memory = 0 .. desc.capacity - 1 /\ \A f \in DOMAIN memory : memory[f] \in Pages
  BY <1>1 DEF IInv, TypeOK
<1>3. memory' = [memory EXCEPT ![frame] = page]
  BY DEF page_file_read
<1>4. memory' = [f \in 0 .. desc.capacity - 1 |-> IF f = frame THEN page ELSE memory[f]]
  BY <1>2, <1>3
<1> QED
  BY <1>2, <1>4

LEMMA PageKeepsInv ==
  ASSUME IInv, stage \in {"pgd", "tables", "data"},
         NEW frame, NEW page \in Pages, page_file_read(frame, page),
         NEW next \in {"count", "tables", "ended", "data"}, Continues(next),
         UNCHANGED desc,
         next \in {"tables", "ended"} => todo' \in Seq(TableLines) /\ RestOf(desc.tables)',
         next = "data" => todo' \in Seq(DataLines) /\ RestOf(desc.data)'
  PROVE  IInv'
<1>1. desc \in Descriptions /\ desc # NULL /\ memory # NULL /\ live
  BY NullAssumption DEF IInv, UnderWay, OwnsItsBlock
<1>2. memory' \in [0 .. desc.capacity - 1 -> Pages]
  BY <1>1, PageFits
<1>3. memory' # NULL
  BY <1>1, <1>2, BlockNotNull
<1>4. stage' = next /\ desc' = desc /\ live' = live /\ open' = open /\ err' = err
  BY DEF Continues, page_file_read
<1>5. TypeOK'
  BY <1>1, <1>2, <1>4 DEF IInv, TypeOK
<1>6. UnderWay'
  BY <1>1, <1>3, <1>4 DEF UnderWay
<1>7. OwnsItsBlock' /\ CleansUp'
  BY <1>1, <1>3, <1>4 DEF OwnsItsBlock, CleansUp
<1> QED
  BY <1>5, <1>6, <1>7 DEF IInv

LEMMA PageFails ==
  ASSUME IInv, stage # "idle", NEW frame, page_file_read_fails(frame)
  PROVE  IInv'
<1>1. /\ stage' = "exit" /\ open' = open /\ desc' = desc /\ todo' = todo
      /\ err' \in {"ERR_MEM", "ERR_BAD_PARAMETER", "ERR_IO"}
      /\ fault' \in {"bounds", "page"}
      /\ \/ memory' = memory /\ live' = live
         \/ memory' = NULL /\ live' = FALSE
  BY DEF page_file_read_fails, FreesBlock, Block, Progress
<1>2. desc' \in Descriptions
  BY <1>1 DEF IInv, UnderWay
<1>3. TypeOK'
  BY <1>1 DEF IInv, TypeOK
<1>4. UnderWay' /\ OwnsItsBlock' /\ CleansUp'
  BY <1>1, <1>2 DEF IInv, UnderWay, OwnsItsBlock, CleansUp
<1> QED
  BY <1>3, <1>4 DEF IInv

(***************************************************************************)
(* Every step preserves the invariant.                                     *)
(***************************************************************************)
LEMMA DumpKeepsInv ==
  ASSUME IInv, Dumping
  PROVE  IInv'
<1>1. CASE DumpNotOpened
  BY <1>1 DEF DumpNotOpened, Calls, Returns, Block, Progress,
              IInv, TypeOK, UnderWay, OwnsItsBlock, CleansUp
<1>2. CASE DumpNotAllocated
  BY <1>2 DEF DumpNotAllocated, Calls, Returns, Progress,
              IInv, TypeOK, UnderWay, OwnsItsBlock, CleansUp
<1>3. CASE DumpOfWrongSize \/ DumpNotRead
  BY <1>3, ExitCleans DEF DumpOfWrongSize, DumpNotRead, Codes
<1>4. ASSUME NEW m \in Dumps, DumpLoads(m)
      PROVE  IInv'
  <2>1. m # NULL /\ \A f \in DOMAIN m : m[f] \in Pages
    BY PagesAssumption, NullAssumption
  <2>2. TypeOK'
    BY <1>4, <2>1 DEF DumpLoads, TypeOK
  <2>3. UnderWay' /\ OwnsItsBlock' /\ CleansUp'
    BY <1>4, <2>1 DEF DumpLoads, UnderWay, OwnsItsBlock, CleansUp
  <2> QED
    BY <2>2, <2>3 DEF IInv
<1> QED
  BY <1>1, <1>2, <1>3, <1>4 DEF Dumping

LEMMA FaultKeepsInv ==
  ASSUME IInv, Faults
  PROVE  IInv'
<1>1. CASE SizeUnreadable
  BY <1>1 DEF SizeUnreadable, Returns, Block, Progress,
              IInv, TypeOK, UnderWay, OwnsItsBlock, CleansUp
<1>2. CASE LocationUnreadable
  BY <1>2 DEF LocationUnreadable, InTables, Returns, Block, Progress,
              IInv, TypeOK, UnderWay, OwnsItsBlock, CleansUp
<1>3. CASE DataCut
  BY <1>3 DEF DataCut, InData, Returns, Block, Progress,
              IInv, TypeOK, UnderWay, OwnsItsBlock, CleansUp
<1>4. CASE \/ SizeLineBad \/ NotAllocated \/ PgdLineBad
           \/ CountUnreadable \/ TableLineBad \/ DataLineBad
  BY <1>4, ExitCleans
     DEF SizeLineBad, NotAllocated, PgdLineBad, CountUnreadable, TableLineBad,
         DataLineBad, Codes
<1>5. CASE PgdFails \/ TableFails \/ DataFails
  BY <1>5, PageFails DEF PgdFails, TableFails, DataFails, InTables, InData
<1>6. CASE TableMisread
  <2>1. /\ stage = "tables" /\ todo # << >> /\ todo \in Seq(TableLines)
        /\ desc \in Descriptions /\ desc' = desc /\ RestOf(desc.tables)
    BY <1>6 DEF TableMisread, InTables, IInv, UnderWay
  <2>2. Tail(todo) \in Seq(TableLines) /\ desc.tables \in Seq(TableLines)
    BY <2>1, PagesAssumption
  <2>3. PICK page \in LeftoverPages : page_file_read(Head(todo).frame, page)
    BY <1>6 DEF TableMisread
  <2>4. page \in Pages
    BY <2>1, Leftover
  <2>5. todo' = Tail(todo) /\ Continues("ended")
    BY <1>6 DEF TableMisread
  <2>6. RestOf(desc.tables)'
    BY <2>1, <2>2, <2>5, RestStep
  <2> QED
    BY <2>1, <2>2, <2>3, <2>4, <2>5, <2>6, PageKeepsInv
<1> QED
  BY <1>1, <1>2, <1>3, <1>4, <1>5, <1>6 DEF Faults

LEMMA LineKeepsInv ==
  ASSUME IInv, Proceeds
  PROVE  IInv'
<1>1. CASE Allocates
  <2>1. /\ desc \in Descriptions /\ desc' = desc /\ stage' = "pgd"
        /\ memory' = [f \in 0 .. desc.capacity - 1 |-> Zeros] /\ live'
    BY <1>1 DEF Allocates, Continues, Progress, IInv, UnderWay
  <2>2. memory' \in [0 .. desc.capacity - 1 -> Pages]
    BY <2>1, PagesAssumption
  <2>3. memory' # NULL
    BY <2>1, <2>2, BlockNotNull
  <2>4. TypeOK'
    BY <1>1, <2>1, <2>2 DEF Allocates, Continues, IInv, TypeOK
  <2>5. UnderWay' /\ OwnsItsBlock' /\ CleansUp'
    BY <2>1, <2>3 DEF UnderWay, OwnsItsBlock, CleansUp
  <2> QED
    BY <2>4, <2>5 DEF IInv
<1>2. CASE PgdLoads
  <2>1. desc.pgd \in Pages
    BY <1>2, PagesAssumption DEF PgdLoads, IInv, UnderWay
  <2> QED
    BY <1>2, <2>1, PageKeepsInv DEF PgdLoads, Progress
<1>3. CASE ReadsCount \/ TablesEnd
  <2>1. desc.tables \in Seq(TableLines) /\ desc.data \in Seq(DataLines)
    BY <1>3, PagesAssumption DEF ReadsCount, TablesEnd, IInv, UnderWay
  <2> QED
    BY <1>3, <2>1 DEF ReadsCount, TablesEnd, Continues, Block, RestOf,
                      IInv, TypeOK, UnderWay, OwnsItsBlock, CleansUp
<1>4. CASE TableLoads
  <2>1. /\ todo \in Seq(TableLines) /\ todo # << >> /\ RestOf(desc.tables)
        /\ todo' = Tail(todo) /\ desc' = desc /\ desc.tables \in Seq(TableLines)
    BY <1>4, PagesAssumption DEF TableLoads, InTables, IInv, UnderWay
  <2>2. Head(todo) \in TableLines /\ Tail(todo) \in Seq(TableLines)
    BY <2>1
  <2>3. Head(todo).page \in Pages
    BY <2>2 DEF TableLines
  <2>4. RestOf(desc.tables)'
    BY <2>1, RestStep
  <2> QED
    BY <1>4, <2>1, <2>2, <2>3, <2>4, PageKeepsInv DEF TableLoads, InTables
<1>5. CASE DataLoads
  <2>1. /\ todo \in Seq(DataLines) /\ todo # << >> /\ RestOf(desc.data)
        /\ todo' = Tail(todo) /\ desc' = desc /\ desc.data \in Seq(DataLines)
    BY <1>5, PagesAssumption DEF DataLoads, InData, IInv, UnderWay
  <2>2. Head(todo) \in DataLines /\ Tail(todo) \in Seq(DataLines)
    BY <2>1
  <2>3. RestOf(desc.data)'
    BY <2>1, RestStep
  <2> QED
    BY <1>5, <2>1, <2>2, <2>3, PagesAssumption, PageKeepsInv DEF DataLoads, InData
<1>6. CASE DataEnd
  BY <1>6 DEF DataEnd, Returns, Block, Progress,
              IInv, TypeOK, UnderWay, OwnsItsBlock, CleansUp
<1>7. CASE LocationMissing \/ MisreadReturns
  BY <1>7 DEF LocationMissing, MisreadReturns, Returns, Block, Progress,
              IInv, TypeOK, UnderWay, OwnsItsBlock, CleansUp
<1>8. CASE ErrorReturns
  <2>1. err \in Codes
    BY DEF IInv, TypeOK, Codes
  <2> QED
    BY <1>8, <2>1, ExitCleans DEF ErrorReturns
<1> QED
  BY <1>1, <1>2, <1>3, <1>4, <1>5, <1>6, <1>7, <1>8 DEF Proceeds

LEMMA NextInv == IInv /\ [Next]_vars => IInv'
<1> SUFFICES ASSUME IInv, [Next]_vars PROVE IInv'
  OBVIOUS
<1>1. CASE NotOpened
  BY <1>1, ExitCleans DEF NotOpened, Codes
<1>2. ASSUME NEW d \in Descriptions, Opens(d)
      PROVE  IInv'
  BY <1>2 DEF Opens, Calls, Continues, Block,
              IInv, TypeOK, UnderWay, OwnsItsBlock, CleansUp
<1>3. CASE Frees
  BY <1>3 DEF Frees, Progress, IInv, TypeOK, UnderWay, OwnsItsBlock, CleansUp
<1>4. CASE UNCHANGED vars
  BY <1>4 DEF vars, RestOf, IInv, TypeOK, UnderWay, OwnsItsBlock, CleansUp
<1> QED
  BY <1>1, <1>2, <1>3, <1>4, DumpKeepsInv, FaultKeepsInv, LineKeepsInv DEF Next

LEMMA IInvAlways == Spec => []IInv
  BY InitInv, NextInv, PTL DEF Spec

(***************************************************************************)
(* The types of the memory, of the description and of the codes, whatever  *)
(* is read and whatever fails.                                             *)
(***************************************************************************)
THEOREM TypeCorrect == Spec => []TypeOK
<1>1. IInv => TypeOK
  BY DEF IInv
<1> QED
  BY <1>1, IInvAlways, PTL

(***************************************************************************)
(* No page is read into a freed block and no block is lost or freed twice, *)
(* through the two levels of clean-up.                                     *)
(***************************************************************************)
THEOREM BlockIsOwned == Spec => []OwnsItsBlock
<1>1. IInv => OwnsItsBlock
  BY DEF IInv
<1> QED
  BY <1>1, IInvAlways, PTL

(***************************************************************************)
(* What every call leaves behind: no open file and, after an error, no     *)
(* memory, but for the two numbers that are refused without clean-up.      *)
(***************************************************************************)
THEOREM CallsCleanUp == Spec => []CleansUp
<1>1. IInv => CleansUp
  BY DEF IInv
<1> QED
  BY <1>1, IInvAlways, PTL

-----------------------------------------------------------------------------
(***************************************************************************)
(* Where the pages are.  The invariant follows the lines that have been    *)
(* read: their pages are in the memory, and the data pages are where the   *)
(* tables alone would send them, for no data page disturbs a table.        *)
(***************************************************************************)
Holds(mem, frame, page) == frame \in DOMAIN mem /\ mem[frame] = page

TablesPlaced(n) ==
  /\ Holds(memory, START_PAGE_TABLE, desc.pgd)
  /\ \A i \in 1 .. n : Holds(memory, desc.tables[i].frame, desc.tables[i].page)

DataPlaced(n) ==
  \A i \in 1 .. n : Holds(memory, FrameOf(desc, i), desc.data[i].page)

(* All but the last table, which has the page of the table before it.      *)
MisreadPlaced ==
  LET last == Len(desc.tables)
  IN  /\ TablesPlaced(last - 1)
      /\ last > 1 => Holds(memory, desc.tables[last].frame, desc.tables[last - 1].page)

Placing ==
  /\ stage = "count" => TablesPlaced(0)
  /\ stage = "tables" => TablesPlaced(Len(desc.tables) - Len(todo))
  /\ stage = "ended" /\ todo = << >> => MisreadPlaced
  /\ stage = "data" =>
       TablesPlaced(Len(desc.tables)) /\ DataPlaced(Len(desc.data) - Len(todo))
  /\ stage = "idle" /\ memory # NULL /\ desc # NULL /\ fault \in {"none", "cut"} =>
       /\ todo \in Seq(DataLines) /\ Len(todo) <= Len(desc.data)
       /\ TablesPlaced(Len(desc.tables))
       /\ DataPlaced(Len(desc.data) - Len(todo))
  /\ stage = "idle" /\ memory # NULL /\ desc # NULL /\ fault = "misread" => MisreadPlaced

(***************************************************************************)
(* What a description puts on the frame of a table is the page of its only *)
(* line for it.                                                            *)
(***************************************************************************)
LEMMA TableAtFrame ==
  ASSUME NEW d,
         \A i, j \in DOMAIN d.tables :
           /\ d.tables[i].frame # START_PAGE_TABLE
           /\ i # j => d.tables[i].frame # d.tables[j].frame
  PROVE  /\ TableAt(d)[START_PAGE_TABLE] = d.pgd
         /\ \A i \in DOMAIN d.tables :
              /\ d.tables[i].frame \in TableFrames(d)
              /\ TableAt(d)[d.tables[i].frame] = d.tables[i].page
<1>1. TableAt(d)[START_PAGE_TABLE] = d.pgd
  BY DEF TableAt, TableFrames
<1>2. ASSUME NEW i \in DOMAIN d.tables
      PROVE  /\ d.tables[i].frame \in TableFrames(d)
             /\ TableAt(d)[d.tables[i].frame] = d.tables[i].page
  <2>1. d.tables[i].frame \in TableFrames(d)
    BY DEF TableFrames
  <2>2. (CHOOSE j \in DOMAIN d.tables : d.tables[j].frame = d.tables[i].frame) = i
    OBVIOUS
  <2> QED
    BY <2>1, <2>2 DEF TableAt
<1> QED
  BY <1>1, <1>2

(***************************************************************************)
(* In a memory that holds the tables that a walk reads, it ends where they *)
(* alone lead.                                                             *)
(***************************************************************************)
LEMMA SameWalk ==
  ASSUME NEW d, NEW mem, NEW i \in DOMAIN d.data,
         \A f \in walked(TableAt(d), d.data[i].vaddr) : mem[f] = TableAt(d)[f]
  PROVE  page_walk(mem, d.data[i].vaddr) = FrameOf(d, i)
<1> DEFINE v == d.data[i].vaddr
           t == TableAt(d)
           pud == read_page_entry(t, START_PAGE_TABLE, v.pgd_entry)
           pmd == read_page_entry(t, pud, v.pud_entry)
           pte == read_page_entry(t, pmd, v.pmd_entry)
<1>1. \A f \in {START_PAGE_TABLE, pud, pmd, pte} : mem[f] = t[f]
  BY DEF walked
<1>2. /\ page_walk(t, v) = read_page_entry(t, pte, v.pte_entry)
      /\ FrameOf(d, i) = page_walk(t, v)
  BY DEF page_walk, FrameOf
<1>3. \A f \in {START_PAGE_TABLE, pud, pmd, pte} : \A index :
        read_page_entry(mem, f, index) = read_page_entry(t, f, index)
  <2> HIDE DEF v, t, pud, pmd, pte
  <2> QED
    BY <1>1 DEF read_page_entry
<1>4. /\ read_page_entry(t, START_PAGE_TABLE, v.pgd_entry) = pud
      /\ read_page_entry(t, pud, v.pud_entry) = pmd
      /\ read_page_entry(t, pmd, v.pmd_entry) = pte
  OBVIOUS
<1> HIDE DEF v, t, pud, pmd, pte
<1>5. page_walk(mem, v) = read_page_entry(mem, pte, v.pte_entry)
  BY <1>3, <1>4 DEF page_walk
<1> QED
  BY <1>2, <1>3, <1>5 DEF v

LEMMA TablesLead ==
  ASSUME desc \in Descriptions, TablesPlaced(Len(desc.tables)),
         NEW i \in DOMAIN desc.data
  PROVE  page_walk(memory, desc.data[i].vaddr) = FrameOf(desc, i)
<1>1. DOMAIN desc.tables = 1 .. Len(desc.tables)
  BY PagesAssumption
<1>2. ASSUME NEW f \in TableFrames(desc)
      PROVE  memory[f] = TableAt(desc)[f]
  BY <1>1, TableAtFrame, DescriptionsAssumption DEF TableFrames, TablesPlaced, Holds
<1>3. walked(TableAt(desc), desc.data[i].vaddr) \subseteq TableFrames(desc)
  BY DescriptionsAssumption
<1> QED
  BY <1>2, <1>3, SameWalk

(***************************************************************************)
(* A page that was read is in its frame, and all others are as they were.  *)
(***************************************************************************)
LEMMA PageIsRead ==
  ASSUME IInv, desc \in Descriptions, memory # NULL,
         NEW frame \in Nat, NEW page, page_file_read(frame, page)
  PROVE  /\ Holds(memory', frame, page)
         /\ \A f, p : f # frame /\ Holds(memory, f, p) => Holds(memory', f, p)
<1>1. desc # NULL
  BY NullAssumption
<1>2. DOMAIN memory = 0 .. desc.capacity - 1 /\ desc.capacity \in Nat
  BY <1>1, PagesAssumption DEF IInv, TypeOK
<1>3. frame \in DOMAIN memory
  BY <1>2 DEF page_file_read, Fits
<1> QED
  BY <1>2, <1>3 DEF page_file_read, Holds

(***************************************************************************)
(* The steps that place a page.                                            *)
(***************************************************************************)
LEMMA PgdIsPlaced ==
  ASSUME IInv, PgdLoads
  PROVE  Placing'
<1>1. desc \in Descriptions /\ memory # NULL
  BY DEF PgdLoads, IInv, UnderWay
<1>2. Holds(memory', START_PAGE_TABLE, desc.pgd)
  BY <1>1, PageIsRead DEF PgdLoads, START_PAGE_TABLE, Progress
<1>3. stage' = "count" /\ desc' = desc
  BY DEF PgdLoads, Continues, Progress
<1> QED
  BY <1>2, <1>3 DEF Placing, TablesPlaced

LEMMA NextTable ==
  ASSUME IInv, Placing, InTables, todo' = Tail(todo), UNCHANGED desc,
         NEW page, page_file_read(Head(todo).frame, page),
         NEW n, n = Len(desc.tables) - Len(todo)
  PROVE  /\ n \in Nat /\ Len(desc.tables) - Len(todo') = n + 1
         /\ n + 1 \in 1 .. Len(desc.tables) /\ Head(todo) = desc.tables[n + 1]
         /\ Holds(memory', START_PAGE_TABLE, desc.pgd)
         /\ \A i \in 1 .. n : Holds(memory', desc.tables[i].frame, desc.tables[i].page)
         /\ Holds(memory', desc.tables[n + 1].frame, page)
<1> DEFINE frame == Head(todo).frame
<1>1. /\ desc \in Descriptions /\ memory # NULL /\ desc' = desc
      /\ stage = "tables" /\ todo # << >> /\ todo \in Seq(TableLines)
      /\ RestOf(desc.tables)
  BY DEF InTables, IInv, UnderWay
<1>2. TablesPlaced(n)
  BY <1>1 DEF Placing
<1>3. desc.tables \in Seq(TableLines)
  BY <1>1, PagesAssumption
<1>4. /\ n \in Nat /\ Len(desc.tables) - Len(todo') = n + 1
      /\ n + 1 \in 1 .. Len(desc.tables) /\ Head(todo) = desc.tables[n + 1]
  BY <1>1, <1>3, RestStep
<1>5. Head(todo) \in TableLines
  BY <1>1
<1>6. frame \in Nat
  BY <1>5 DEF TableLines
<1>7. /\ Holds(memory', frame, page)
      /\ \A f, p : f # frame /\ Holds(memory, f, p) => Holds(memory', f, p)
  BY <1>1, <1>6, PageIsRead
<1>8. /\ frame # START_PAGE_TABLE
      /\ \A i \in 1 .. n : desc.tables[i].frame # frame
  BY <1>1, <1>3, <1>4, DescriptionsAssumption
<1> QED
  BY <1>2, <1>4, <1>7, <1>8 DEF TablesPlaced

LEMMA TableIsPlaced ==
  ASSUME IInv, Placing, TableLoads
  PROVE  Placing'
<1> DEFINE n == Len(desc.tables) - Len(todo)
<1>1. /\ InTables /\ todo' = Tail(todo) /\ desc' = desc /\ stage' = "tables"
      /\ page_file_read(Head(todo).frame, Head(todo).page)
  BY DEF TableLoads, Continues
<1>2. /\ n \in Nat /\ Len(desc.tables) - Len(todo') = n + 1
      /\ Head(todo) = desc.tables[n + 1]
      /\ Holds(memory', START_PAGE_TABLE, desc.pgd)
      /\ \A i \in 1 .. n : Holds(memory', desc.tables[i].frame, desc.tables[i].page)
      /\ Holds(memory', desc.tables[n + 1].frame, Head(todo).page)
  BY <1>1, NextTable
<1>3. \A i \in 1 .. n + 1 : Holds(memory', desc.tables[i].frame, desc.tables[i].page)
  <2> HIDE DEF n
  <2> SUFFICES ASSUME NEW i \in 1 .. n + 1
               PROVE  Holds(memory', desc.tables[i].frame, desc.tables[i].page)
    OBVIOUS
  <2>1. CASE i = n + 1
    BY <1>2, <2>1
  <2>2. CASE i # n + 1
    <3>1. i \in 1 .. n
      BY <1>2, <2>2
    <3> QED
      BY <1>2, <3>1
  <2> QED
    BY <2>1, <2>2
<1>4. TablesPlaced(n)'
  BY <1>1, <1>2, <1>3 DEF TablesPlaced
<1> QED
  BY <1>1, <1>4 DEF Placing

LEMMA MisreadIsPlaced ==
  ASSUME IInv, Placing, TableMisread
  PROVE  Placing'
<1> DEFINE n == Len(desc.tables) - Len(todo)
<1>1. InTables /\ todo' = Tail(todo) /\ desc' = desc /\ stage' = "ended"
  BY DEF TableMisread, Continues
<1>2. PICK page \in LeftoverPages : page_file_read(Head(todo).frame, page)
  BY DEF TableMisread
<1>3. /\ n \in Nat /\ Len(desc.tables) - Len(todo') = n + 1
      /\ Holds(memory', START_PAGE_TABLE, desc.pgd)
      /\ \A i \in 1 .. n : Holds(memory', desc.tables[i].frame, desc.tables[i].page)
      /\ Holds(memory', desc.tables[n + 1].frame, page)
  BY <1>1, <1>2, NextTable
<1>4. n > 0 => page = desc.tables[n].page
  BY <1>1, Leftover DEF InTables, IInv, UnderWay
<1>5. ASSUME todo' = << >>
      PROVE  MisreadPlaced'
  <2>1. Len(desc.tables) = n + 1
    <3>1. Len(desc.tables) \in Nat
      BY <1>1, PagesAssumption DEF InTables, IInv, UnderWay
    <3> QED
      BY <1>3, <1>5, <3>1
  <2>2. (n + 1) - 1 = n
    BY <1>3
  <2> HIDE DEF n
  <2> QED
    BY <1>1, <1>3, <1>4, <2>1, <2>2 DEF MisreadPlaced, TablesPlaced
<1> QED
  BY <1>1, <1>5 DEF Placing

LEMMA DataIsPlaced ==
  ASSUME IInv, Placing, DataLoads
  PROVE  Placing'
<1> DEFINE n == Len(desc.data) - Len(todo)
           frame == page_walk(memory, Head(todo).vaddr)
<1>1. /\ desc \in Descriptions /\ memory # NULL /\ desc' = desc
      /\ stage = "data" /\ stage' = "data" /\ todo # << >>
      /\ todo \in Seq(DataLines) /\ todo' = Tail(todo)
      /\ page_file_read(frame, Head(todo).page) /\ RestOf(desc.data)
  BY DEF DataLoads, InData, Continues, IInv, UnderWay
<1>2. TablesPlaced(Len(desc.tables)) /\ DataPlaced(n)
  BY <1>1 DEF Placing
<1>3. desc.data \in Seq(DataLines) /\ desc.tables \in Seq(TableLines)
  BY <1>1, PagesAssumption
<1>4. /\ n \in Nat /\ Len(desc.data) - Len(todo') = n + 1
      /\ n + 1 \in 1 .. Len(desc.data) /\ Head(todo) = desc.data[n + 1]
  BY <1>1, <1>3, RestStep
<1>5. frame = FrameOf(desc, n + 1)
  BY <1>1, <1>2, <1>3, <1>4, TablesLead
<1>6. frame \in Nat \ TableFrames(desc)
  BY <1>1, <1>3, <1>4, <1>5, DescriptionsAssumption
<1>7. /\ Holds(memory', frame, Head(todo).page)
      /\ \A f, p : f # frame /\ Holds(memory, f, p) => Holds(memory', f, p)
  BY <1>1, <1>6, PageIsRead
<1>8. TablesPlaced(Len(desc.tables))'
  <2>1. Holds(memory', START_PAGE_TABLE, desc.pgd)
    BY <1>1, <1>2, <1>6, <1>7 DEF TablesPlaced, TableFrames
  <2>2. ASSUME NEW i \in 1 .. Len(desc.tables)
        PROVE  Holds(memory', desc.tables[i].frame, desc.tables[i].page)
    <3>1. desc.tables[i].frame \in TableFrames(desc)
      BY <1>3 DEF TableFrames
    <3> QED
      BY <1>1, <1>2, <1>6, <1>7, <3>1 DEF TablesPlaced
  <2> QED
    BY <1>1, <2>1, <2>2 DEF TablesPlaced
<1>9. ASSUME NEW i \in 1 .. n + 1
      PROVE  Holds(memory', FrameOf(desc, i), desc.data[i].page)
  <2> HIDE DEF n, frame
  <2>1. CASE i = n + 1
    BY <1>1, <1>4, <1>5, <1>7, <2>1
  <2>2. CASE i # n + 1
    <3>1. i \in 1 .. n
      BY <1>4, <2>2
    <3>2. i \in DOMAIN desc.data /\ n + 1 \in DOMAIN desc.data
      BY <1>3, <1>4, <3>1
    <3>3. FrameOf(desc, i) # FrameOf(desc, n + 1)
      BY <1>1, <2>2, <3>2, DescriptionsAssumption
    <3>4. Holds(memory, FrameOf(desc, i), desc.data[i].page)
      BY <1>2, <3>1 DEF DataPlaced
    <3> QED
      BY <1>5, <1>7, <3>3, <3>4
  <2> QED
    BY <2>1, <2>2
<1>10. DataPlaced(n)'
  BY <1>1, <1>4, <1>9 DEF DataPlaced
<1> QED
  BY <1>1, <1>4, <1>8, <1>10 DEF Placing

(***************************************************************************)
(* The other steps leave the pages where they are, or there is no memory.  *)
(***************************************************************************)
LEMMA PlacingStep == IInv /\ Placing /\ [Next]_vars => Placing'
<1> SUFFICES ASSUME IInv, Placing, [Next]_vars PROVE Placing'
  OBVIOUS
<1>1. CASE PgdLoads \/ TableLoads \/ TableMisread \/ DataLoads
  BY <1>1, PgdIsPlaced, TableIsPlaced, MisreadIsPlaced, DataIsPlaced
<1>2. CASE ReadsCount
  <2>1. desc.tables \in Seq(TableLines)
    BY <1>2, PagesAssumption DEF ReadsCount, IInv, UnderWay
  <2>2. /\ todo' = desc.tables /\ desc' = desc /\ memory' = memory
        /\ stage = "count" /\ stage' = "tables"
    BY <1>2 DEF ReadsCount, Continues, Block
  <2> QED
    BY <2>1, <2>2 DEF Placing, TablesPlaced, Holds
<1>3. CASE TablesEnd
  <2>1. desc.tables \in Seq(TableLines) /\ desc.data \in Seq(DataLines)
    BY <1>3, PagesAssumption DEF TablesEnd, IInv, UnderWay
  <2>2. /\ todo' = desc.data /\ desc' = desc /\ memory' = memory
        /\ stage = "tables" /\ stage' = "data" /\ todo = << >>
    BY <1>3 DEF TablesEnd, Continues, Block
  <2> QED
    BY <2>1, <2>2 DEF Placing, TablesPlaced, DataPlaced, Holds
<1>4. CASE DataEnd \/ DataCut \/ MisreadReturns
  BY <1>4 DEF DataEnd, DataCut, MisreadReturns, InData, Returns, Block, Progress,
              IInv, UnderWay, RestOf,
              Placing, MisreadPlaced, TablesPlaced, DataPlaced, Holds
<1>5. CASE Allocates \/ \E d \in Descriptions : Opens(d)
  BY <1>5 DEF Allocates, Opens, Continues, Placing
<1>6. CASE Dumping
  BY <1>6 DEF Dumping, DumpNotOpened, DumpOfWrongSize, DumpNotAllocated, DumpNotRead,
              DumpLoads, Calls, Returns, Block, handle_exit_error, FreesBlock, Placing
<1>7. CASE SizeUnreadable \/ LocationUnreadable \/ LocationMissing
  BY <1>7 DEF SizeUnreadable, LocationUnreadable, LocationMissing, Returns, Placing
<1>8. CASE \/ NotOpened \/ SizeLineBad \/ NotAllocated \/ PgdLineBad
           \/ CountUnreadable \/ TableLineBad \/ DataLineBad \/ ErrorReturns
           \/ Frees
  <2>1. memory' = NULL /\ stage' = "idle"
    BY <1>8 DEF NotOpened, SizeLineBad, NotAllocated, PgdLineBad, CountUnreadable,
                TableLineBad, DataLineBad, ErrorReturns, Frees, handle_exit_error,
                FreesBlock, Returns
  <2> QED
    BY <2>1 DEF Placing
<1>9. CASE PgdFails \/ TableFails \/ DataFails
  BY <1>9 DEF PgdFails, TableFails, DataFails, page_file_read_fails, Placing
<1>10. CASE UNCHANGED vars
  BY <1>10 DEF vars, Placing, MisreadPlaced, TablesPlaced, DataPlaced, Holds
<1> QED
  BY <1>1, <1>2, <1>3, <1>4, <1>5, <1>6, <1>7, <1>8, <1>9, <1>10
     DEF Next, Proceeds, Faults

(***************************************************************************)
(* After a load without an error, complete or cut short, a walk in the     *)
(* memory leads from each virtual page that was read to its data; after    *)
(* one in which the last name of a table was not read, that table only is  *)
(* another: for every description whose pages have frames of their own,    *)
(* whatever loads came before.                                             *)
(***************************************************************************)
THEOREM DescriptionIsLoaded == Spec => []LoadsTheDescription
<1>1. Init => Placing
  BY DEF Init, Placing
<1>2. IInv /\ Placing => LoadsTheDescription
  <2> SUFFICES ASSUME IInv, Placing, stage = "idle", memory # NULL, desc # NULL
               PROVE  LoadsTheDescription
    BY DEF LoadsTheDescription
  <2>1. /\ desc \in Descriptions
        /\ desc.data \in Seq(DataLines) /\ desc.tables \in Seq(TableLines)
    BY PagesAssumption DEF IInv, TypeOK
  <2>2. CASE fault \in {"none", "cut"}
    <3>1. /\ todo \in Seq(DataLines) /\ Len(todo) <= Len(desc.data)
          /\ TablesPlaced(Len(desc.tables)) /\ DataPlaced(Len(desc.data) - Len(todo))
      BY <2>2 DEF Placing
    <3>2. ASSUME NEW i \in 1 .. Len(desc.data) - Len(todo)
          PROVE  memory[page_walk(memory, desc.data[i].vaddr)] = desc.data[i].page
      <4>1. i \in DOMAIN desc.data
        BY <2>1, <3>1
      <4>2. page_walk(memory, desc.data[i].vaddr) = FrameOf(desc, i)
        BY <2>1, <3>1, <4>1, TablesLead
      <4> QED
        BY <3>1, <4>2 DEF DataPlaced, Holds
    <3>3. HoldsTables(Len(desc.tables))
      BY <3>1 DEF HoldsTables, TablesPlaced, Holds
    <3> QED
      BY <2>2, <3>2, <3>3 DEF LoadsTheDescription
  <2>3. CASE fault = "misread"
    BY <2>3 DEF Placing, MisreadPlaced, HoldsTables, TablesPlaced, Holds,
                LoadsTheDescription
  <2> QED
    BY <2>2, <2>3 DEF LoadsTheDescription
<1> QED
  BY <1>1, <1>2, PlacingStep, IInvAlways, PTL DEF Spec

-----------------------------------------------------------------------------
(***************************************************************************)
(* The releases.  What the loops of each make of a description is the      *)
(* memory with the pages of the lines read at their frames; it is given    *)
(* here in one piece, for any number of lines.                             *)
(***************************************************************************)
Placed(d, n, k) ==
  [f \in 0 .. d.capacity - 1 |->
     IF f = START_PAGE_TABLE THEN d.pgd
     ELSE IF \E i \in 1 .. n : f = d.tables[i].frame
          THEN d.tables[CHOOSE i \in 1 .. n : f = d.tables[i].frame].page
     ELSE IF \E i \in 1 .. k : f = FrameOf(d, i)
          THEN d.data[CHOOSE i \in 1 .. k : f = FrameOf(d, i)].page
     ELSE Zeros]

(* The same, page by page.                                                 *)
Holding(d, n, k, m) ==
  /\ m = [f \in 0 .. d.capacity - 1 |-> m[f]]
  /\ \A f \in 0 .. d.capacity - 1 :
       /\ f = START_PAGE_TABLE => m[f] = d.pgd
       /\ \A i \in 1 .. n : f = d.tables[i].frame => m[f] = d.tables[i].page
       /\ \A i \in 1 .. k : f = FrameOf(d, i) => m[f] = d.data[i].page
       /\ \/ f = START_PAGE_TABLE
          \/ \E i \in 1 .. n : f = d.tables[i].frame
          \/ \E i \in 1 .. k : f = FrameOf(d, i)
          \/ m[f] = Zeros

(* A description as it is written, or without its data and with another    *)
(* page for its last table.                                                *)
Readable ==
  Descriptions \cup {MisreadAs(d, page) : d \in Descriptions, page \in Pages}

LEMMA AsWritten == Descriptions \subseteq Readable
  BY DEF Readable

(* A description as the loops see it: frames are numbers, no two the same. *)
Regular(d) ==
  /\ d.capacity \in Nat /\ d.pgd \in Pages
  /\ Len(d.tables) \in Nat /\ DOMAIN d.tables = 1 .. Len(d.tables)
  /\ Len(d.data) \in Nat /\ DOMAIN d.data = 1 .. Len(d.data)
  /\ \A i \in 1 .. Len(d.tables) :
       d.tables[i].frame \in Nat \ {START_PAGE_TABLE} /\ d.tables[i].page \in Pages
  /\ \A i, j \in 1 .. Len(d.tables) :
       i # j => d.tables[i].frame # d.tables[j].frame
  /\ \A i \in 1 .. Len(d.data) :
       FrameOf(d, i) \in Nat \ {START_PAGE_TABLE} /\ d.data[i].page \in Pages
  /\ \A i \in 1 .. Len(d.data) : \A j \in 1 .. Len(d.tables) :
       FrameOf(d, i) # d.tables[j].frame
  /\ \A i, j \in 1 .. Len(d.data) : i # j => FrameOf(d, i) # FrameOf(d, j)
  /\ \A i \in 1 .. Len(d.data) : walked(TableAt(d), d.data[i].vaddr) \subseteq TableFrames(d)

LEMMA WrittenRegular ==
  ASSUME NEW d \in Descriptions
  PROVE  Regular(d)
<1>1. /\ d.capacity \in Nat /\ d.pgd \in Pages
      /\ d.tables \in Seq(TableLines) /\ d.data \in Seq(DataLines)
  BY PagesAssumption
<1>2. DOMAIN d.tables = 1 .. Len(d.tables) /\ DOMAIN d.data = 1 .. Len(d.data)
  BY <1>1
<1>3. ASSUME NEW i \in 1 .. Len(d.tables)
      PROVE  d.tables[i].frame \in Nat \ {START_PAGE_TABLE} /\ d.tables[i].page \in Pages
  <2>1. d.tables[i] \in TableLines
    BY <1>1
  <2> QED
    BY <1>2, <2>1, DescriptionsAssumption DEF TableLines
<1>4. ASSUME NEW i \in 1 .. Len(d.data)
      PROVE  /\ FrameOf(d, i) \in Nat \ {START_PAGE_TABLE} /\ d.data[i].page \in Pages
             /\ \A j \in 1 .. Len(d.tables) : FrameOf(d, i) # d.tables[j].frame
  <2>1. d.data[i] \in DataLines
    BY <1>1
  <2>2. FrameOf(d, i) \in Nat \ TableFrames(d)
    BY <1>2, DescriptionsAssumption
  <2> QED
    BY <1>2, <2>1, <2>2, PagesAssumption DEF TableFrames
<1>5. \A i, j \in 1 .. Len(d.tables) : i # j => d.tables[i].frame # d.tables[j].frame
  BY <1>2, DescriptionsAssumption
<1>6. \A i, j \in 1 .. Len(d.data) : i # j => FrameOf(d, i) # FrameOf(d, j)
  BY <1>2, DescriptionsAssumption
<1>7. Len(d.tables) \in Nat /\ Len(d.data) \in Nat
  BY <1>1
<1>8. \A i \in 1 .. Len(d.data) : walked(TableAt(d), d.data[i].vaddr) \subseteq TableFrames(d)
  BY <1>2, DescriptionsAssumption
<1> QED
  BY <1>1, <1>2, <1>3, <1>4, <1>5, <1>6, <1>7, <1>8 DEF Regular

(* What a misread load has read differs in one page, and has no data.      *)
LEMMA MisreadIs ==
  ASSUME NEW d \in Descriptions, NEW page \in Pages, NEW e, e = MisreadAs(d, page)
  PROVE  LET last == Len(d.tables)
         IN  /\ e \in Readable /\ last \in 1 .. last
             /\ e.capacity = d.capacity /\ e.pgd = d.pgd /\ e.data = << >>
             /\ e.tables \in Seq(TableLines) /\ Len(e.tables) = last
             /\ \A i \in 1 .. last : e.tables[i].frame = d.tables[i].frame
             /\ \A i \in 1 .. last - 1 : e.tables[i].page = d.tables[i].page
             /\ e.tables[last].page = page
<1> DEFINE last == Len(d.tables)
<1>1. d.tables \in Seq(TableLines) /\ d.tables # << >>
  BY PagesAssumption, DescriptionsAssumption
<1>2. last \in 1 .. last
  BY <1>1
<1>3. /\ e.capacity = d.capacity /\ e.pgd = d.pgd /\ e.data = << >>
      /\ e.tables = [d.tables EXCEPT ![last].page = page]
  BY DEF MisreadAs
<1>4. d.tables[last] \in TableLines
  BY <1>1, <1>2
<1>5. [d.tables[last] EXCEPT !.page = page] \in TableLines
  BY <1>4 DEF TableLines
<1>6. \A i \in 1 .. last :
        e.tables[i] = IF i = last THEN [d.tables[last] EXCEPT !.page = page] ELSE d.tables[i]
  BY <1>1, <1>3
<1>7. e.tables \in Seq(TableLines) /\ Len(e.tables) = last
  BY <1>1, <1>2, <1>3, <1>5
<1>8. \A i \in 1 .. last :
        /\ e.tables[i].frame = d.tables[i].frame
        /\ e.tables[i].page = IF i = last THEN page ELSE d.tables[i].page
  BY <1>4, <1>6 DEF TableLines
<1>9. e \in Readable
  BY DEF Readable
<1> QED
  BY <1>2, <1>3, <1>7, <1>8, <1>9

LEMMA Described ==
  ASSUME NEW d \in Readable
  PROVE  Regular(d)
<1>1. CASE d \in Descriptions
  BY <1>1, WrittenRegular
<1>2. ASSUME NEW c \in Descriptions, NEW page \in Pages, d = MisreadAs(c, page)
      PROVE  Regular(d)
  <2>1. Regular(c)
    BY WrittenRegular
  <2>2. /\ d.capacity = c.capacity /\ d.pgd = c.pgd /\ d.data = << >>
        /\ d.tables \in Seq(TableLines) /\ Len(d.tables) = Len(c.tables)
        /\ \A i \in 1 .. Len(d.tables) : d.tables[i].frame = c.tables[i].frame
    BY <1>2, MisreadIs
  <2>3. /\ d.capacity \in Nat /\ d.pgd \in Pages
        /\ Len(d.tables) \in Nat /\ DOMAIN d.tables = 1 .. Len(d.tables)
        /\ Len(d.data) = 0 /\ DOMAIN d.data = 1 .. Len(d.data)
    BY <2>1, <2>2 DEF Regular
  <2>4. \A i \in 1 .. Len(d.tables) :
          d.tables[i].frame \in Nat \ {START_PAGE_TABLE} /\ d.tables[i].page \in Pages
    <3>1. \A i \in 1 .. Len(d.tables) : d.tables[i] \in TableLines
      BY <2>2
    <3> QED
      BY <2>1, <2>2, <3>1 DEF Regular, TableLines
  <2>5. \A i, j \in 1 .. Len(d.tables) : i # j => d.tables[i].frame # d.tables[j].frame
    BY <2>1, <2>2 DEF Regular
  <2> QED
    BY <2>3, <2>4, <2>5 DEF Regular
<1> QED
  BY <1>1, <1>2 DEF Readable

LEMMA HoldingOnce ==
  ASSUME NEW d, NEW n, NEW k, NEW l, NEW m, Holding(d, n, k, l), Holding(d, n, k, m)
  PROVE  l = m
<1>1. ASSUME NEW f \in 0 .. d.capacity - 1
      PROVE  l[f] = m[f]
  BY DEF Holding
<1> QED
  BY <1>1 DEF Holding

(* A memory that holds the first tables of one description, and no data,   *)
(* holds those of another which has the same.                              *)
LEMMA HoldingAs ==
  ASSUME NEW d, NEW e, NEW n, NEW m, Holding(d, n, 0, m),
         e.capacity = d.capacity, e.pgd = d.pgd,
         \A i \in 1 .. n : /\ e.tables[i].frame = d.tables[i].frame
                          /\ e.tables[i].page = d.tables[i].page
  PROVE  Holding(e, n, 0, m)
<1>1. \A i : i \notin 1 .. 0
  OBVIOUS
<1>2. m = [f \in 0 .. e.capacity - 1 |-> m[f]]
  BY DEF Holding
<1>3. ASSUME NEW f \in 0 .. e.capacity - 1
      PROVE  /\ f = START_PAGE_TABLE => m[f] = e.pgd
             /\ \A i \in 1 .. n : f = e.tables[i].frame => m[f] = e.tables[i].page
             /\ \/ f = START_PAGE_TABLE
                \/ \E i \in 1 .. n : f = e.tables[i].frame
                \/ m[f] = Zeros
  <2>1. f \in 0 .. d.capacity - 1
    OBVIOUS
  <2>2. f = START_PAGE_TABLE => m[f] = d.pgd
    BY <2>1 DEF Holding
  <2>3. \A i \in 1 .. n : f = d.tables[i].frame => m[f] = d.tables[i].page
    BY <2>1 DEF Holding
  <2>4. \/ f = START_PAGE_TABLE
        \/ \E i \in 1 .. n : f = d.tables[i].frame
        \/ m[f] = Zeros
    BY <1>1, <2>1 DEF Holding
  <2> QED
    BY <2>2, <2>3, <2>4
<1> QED
  BY <1>1, <1>2, <1>3 DEF Holding

LEMMA PlacedHolds ==
  ASSUME NEW d \in Readable,
         NEW n \in 0 .. Len(d.tables), NEW k \in 0 .. Len(d.data)
  PROVE  /\ Holding(d, n, k, Placed(d, n, k))
         /\ Placed(d, n, k) \in [0 .. d.capacity - 1 -> Pages]
<1>1. /\ \A i \in 1 .. n :
           d.tables[i].frame # START_PAGE_TABLE /\ d.tables[i].page \in Pages
      /\ \A i, j \in 1 .. n : d.tables[i].frame = d.tables[j].frame => i = j
  BY Described DEF Regular
<1>2. /\ \A i \in 1 .. k :
           /\ FrameOf(d, i) # START_PAGE_TABLE /\ d.data[i].page \in Pages
           /\ \A j \in 1 .. n : FrameOf(d, i) # d.tables[j].frame
      /\ \A i, j \in 1 .. k : FrameOf(d, i) = FrameOf(d, j) => i = j
  BY Described DEF Regular
<1>3. d.pgd \in Pages /\ Zeros \in Pages
  BY Described, PagesAssumption DEF Regular
<1>4. ASSUME NEW f \in 0 .. d.capacity - 1
      PROVE  /\ f = START_PAGE_TABLE => Placed(d, n, k)[f] = d.pgd
             /\ \A i \in 1 .. n :
                  f = d.tables[i].frame => Placed(d, n, k)[f] = d.tables[i].page
             /\ \A i \in 1 .. k :
                  f = FrameOf(d, i) => Placed(d, n, k)[f] = d.data[i].page
             /\ \/ f = START_PAGE_TABLE
                \/ \E i \in 1 .. n : f = d.tables[i].frame
                \/ \E i \in 1 .. k : f = FrameOf(d, i)
                \/ Placed(d, n, k)[f] = Zeros
             /\ Placed(d, n, k)[f] \in Pages
  <2>1. CASE f = START_PAGE_TABLE
    BY <1>1, <1>2, <1>3, <2>1 DEF Placed
  <2>2. ASSUME NEW i \in 1 .. n, f = d.tables[i].frame
        PROVE  Placed(d, n, k)[f] = d.tables[i].page
    <3>1. f # START_PAGE_TABLE /\ \E j \in 1 .. n : f = d.tables[j].frame
      BY <1>1, <2>2
    <3>2. (CHOOSE j \in 1 .. n : f = d.tables[j].frame) = i
      BY <1>1, <2>2
    <3> QED
      BY <3>1, <3>2 DEF Placed
  <2>3. ASSUME NEW i \in 1 .. k, f = FrameOf(d, i)
        PROVE  Placed(d, n, k)[f] = d.data[i].page
    <3>1. /\ f # START_PAGE_TABLE /\ ~ \E j \in 1 .. n : f = d.tables[j].frame
          /\ \E j \in 1 .. k : f = FrameOf(d, j)
      BY <1>2, <2>3
    <3>2. (CHOOSE j \in 1 .. k : f = FrameOf(d, j)) = i
      BY <1>2, <2>3
    <3> QED
      BY <3>1, <3>2 DEF Placed
  <2>4. \/ f = START_PAGE_TABLE
        \/ \E i \in 1 .. n : f = d.tables[i].frame
        \/ \E i \in 1 .. k : f = FrameOf(d, i)
        \/ Placed(d, n, k)[f] = Zeros
    BY DEF Placed
  <2>5. f = START_PAGE_TABLE => Placed(d, n, k)[f] = d.pgd
    BY DEF Placed
  <2> QED
    BY <1>1, <1>2, <1>3, <2>2, <2>3, <2>4, <2>5
<1>5. Placed(d, n, k) = [f \in 0 .. d.capacity - 1 |-> Placed(d, n, k)[f]]
  BY DEF Placed
<1> HIDE DEF Placed
<1> QED
  BY <1>4, <1>5 DEF Holding

LEMMA PlacedIs ==
  ASSUME NEW d \in Readable,
         NEW n \in 0 .. Len(d.tables), NEW k \in 0 .. Len(d.data),
         NEW m, Holding(d, n, k, m)
  PROVE  m = Placed(d, n, k)
  BY PlacedHolds, HoldingOnce

(***************************************************************************)
(* One line more.                                                          *)
(***************************************************************************)
LEMMA IgnoredIs ==
  ASSUME NEW capacity \in Nat, NEW m \in [0 .. capacity - 1 -> Pages],
         NEW frame \in Nat, NEW page
  PROVE  /\ frame + 1 <= Cardinality(DOMAIN m) <=> frame \in 0 .. capacity - 1
         /\ page_file_read_ignored(m, frame, page)
              = [f \in 0 .. capacity - 1 |-> IF f = frame THEN page ELSE m[f]]
<1>1. DOMAIN m = 0 .. capacity - 1
  OBVIOUS
<1>2. Cardinality(0 .. capacity - 1) = capacity
  <2>1. 0 \in Int /\ capacity - 1 \in Int
    OBVIOUS
  <2>2. Cardinality(0 .. capacity - 1)
          = IF 0 > capacity - 1 THEN 0 ELSE capacity - 1 - 0 + 1
    BY <2>1, FS_Interval
  <2> QED
    BY <2>2
<1>3. frame + 1 <= Cardinality(DOMAIN m) <=> frame \in 0 .. capacity - 1
  BY <1>1, <1>2
<1>4. CASE frame \in 0 .. capacity - 1
  <2>1. page_file_read_ignored(m, frame, page) = [m EXCEPT ![frame] = page]
    BY <1>3, <1>4 DEF page_file_read_ignored
  <2> QED
    BY <1>1, <1>3, <2>1
<1>5. CASE frame \notin 0 .. capacity - 1
  <2>1. page_file_read_ignored(m, frame, page) = m
    BY <1>3, <1>5 DEF page_file_read_ignored
  <2>2. m = [f \in 0 .. capacity - 1 |-> IF f = frame THEN page ELSE m[f]]
    BY <1>5
  <2> QED
    BY <1>3, <2>1, <2>2
<1> QED
  BY <1>4, <1>5

LEMMA PgdStep ==
  ASSUME NEW d \in Readable
  PROVE  page_file_read_ignored(Blank(d), START_PAGE_TABLE, d.pgd) = Placed(d, 0, 0)
<1>1. d.capacity \in Nat /\ START_PAGE_TABLE \in Nat
  BY Described DEF Regular, START_PAGE_TABLE
<1>2. Blank(d) \in [0 .. d.capacity - 1 -> Pages]
  BY PagesAssumption DEF Blank
<1>3. page_file_read_ignored(Blank(d), START_PAGE_TABLE, d.pgd)
        = [f \in 0 .. d.capacity - 1 |-> IF f = START_PAGE_TABLE THEN d.pgd ELSE Blank(d)[f]]
  <2>1. PICK c, b : c = d.capacity /\ b = Blank(d)
    OBVIOUS
  <2>2. c \in Nat /\ b \in [0 .. c - 1 -> Pages]
    BY <1>1, <1>2, <2>1
  <2>3. page_file_read_ignored(b, START_PAGE_TABLE, d.pgd)
          = [f \in 0 .. c - 1 |-> IF f = START_PAGE_TABLE THEN d.pgd ELSE b[f]]
    BY ONLY <1>1, <2>2, IgnoredIs
  <2> QED
    BY <2>1, <2>3
<1>4. \A f \in 0 .. d.capacity - 1 : Blank(d)[f] = Zeros
  BY DEF Blank
<1> DEFINE m == page_file_read_ignored(Blank(d), START_PAGE_TABLE, d.pgd)
<1>5. Holding(d, 0, 0, m)
  <2> HIDE DEF m
  <2>1. m = [f \in 0 .. d.capacity - 1 |-> IF f = START_PAGE_TABLE THEN d.pgd ELSE Zeros]
    BY <1>3, <1>4 DEF m
  <2> QED
    BY <2>1 DEF Holding
<1>6. 0 \in 0 .. Len(d.tables) /\ 0 \in 0 .. Len(d.data)
  BY Described DEF Regular
<1> QED
  BY <1>5, <1>6, PlacedIs

LEMMA TableStep ==
  ASSUME NEW d \in Readable, NEW n \in 1 .. Len(d.tables)
  PROVE  page_file_read_ignored(Placed(d, n - 1, 0), d.tables[n].frame, d.tables[n].page)
           = Placed(d, n, 0)
<1> DEFINE l == Placed(d, n - 1, 0)
           m == page_file_read_ignored(l, d.tables[n].frame, d.tables[n].page)
<1>1. /\ n \in 0 .. Len(d.tables) /\ n - 1 \in 0 .. Len(d.tables) /\ 0 \in 0 .. Len(d.data)
      /\ d.capacity \in Nat
      /\ \A i \in 1 .. n : i # n => i \in 1 .. n - 1
      /\ \A i \in 1 .. n - 1 : i \in 1 .. n /\ i # n /\ i \in 1 .. Len(d.tables)
  BY Described DEF Regular
<1>2. Holding(d, n - 1, 0, l) /\ l \in [0 .. d.capacity - 1 -> Pages]
  BY <1>1, PlacedHolds
<1>3. /\ d.tables[n].frame \in Nat /\ d.tables[n].frame # START_PAGE_TABLE
      /\ \A i \in 1 .. n - 1 : d.tables[i].frame # d.tables[n].frame
  BY <1>1, Described DEF Regular
<1> HIDE DEF l
<1>4. m = [f \in 0 .. d.capacity - 1 |->
             IF f = d.tables[n].frame THEN d.tables[n].page ELSE l[f]]
  <2>1. PICK c, b, frame, page :
          c = d.capacity /\ b = l /\ frame = d.tables[n].frame /\ page = d.tables[n].page
    OBVIOUS
  <2>2. c \in Nat /\ b \in [0 .. c - 1 -> Pages] /\ frame \in Nat
    BY <1>1, <1>2, <1>3, <2>1
  <2>3. page_file_read_ignored(b, frame, page)
          = [f \in 0 .. c - 1 |-> IF f = frame THEN page ELSE b[f]]
    BY ONLY <2>2, IgnoredIs
  <2> QED
    BY <2>1, <2>3
<1> HIDE DEF m
<1>5. ASSUME NEW f \in 0 .. d.capacity - 1
      PROVE  /\ f = START_PAGE_TABLE => m[f] = d.pgd
             /\ \A i \in 1 .. n : f = d.tables[i].frame => m[f] = d.tables[i].page
             /\ \A i \in 1 .. 0 : f = FrameOf(d, i) => m[f] = d.data[i].page
             /\ \/ f = START_PAGE_TABLE
                \/ \E i \in 1 .. n : f = d.tables[i].frame
                \/ \E i \in 1 .. 0 : f = FrameOf(d, i)
                \/ m[f] = Zeros
  <2>1. CASE f = d.tables[n].frame
    BY <1>1, <1>3, <1>4, <2>1, SMTT(30)
  <2>2. CASE f # d.tables[n].frame
    <3>1. m[f] = l[f]
      BY <1>4, <2>2
    <3> QED
      BY <1>1, <1>2, <2>2, <3>1 DEF Holding
  <2> QED
    BY <2>1, <2>2
<1>6. Holding(d, n, 0, m)
  BY <1>4, <1>5 DEF Holding
<1> QED
  BY <1>1, <1>6, PlacedIs DEF l, m

LEMMA DataStep ==
  ASSUME NEW d \in Readable, NEW k \in 1 .. Len(d.data)
  PROVE  page_file_read_ignored(Placed(d, Len(d.tables), k - 1), FrameOf(d, k), d.data[k].page)
           = Placed(d, Len(d.tables), k)
<1> DEFINE N == Len(d.tables)
           l == Placed(d, N, k - 1)
           m == page_file_read_ignored(l, FrameOf(d, k), d.data[k].page)
<1>1. /\ N \in 0 .. N /\ k \in 0 .. Len(d.data) /\ k - 1 \in 0 .. Len(d.data)
      /\ d.capacity \in Nat
      /\ \A i \in 1 .. k : i # k => i \in 1 .. k - 1
      /\ \A i \in 1 .. k - 1 : i \in 1 .. k /\ i # k /\ i \in 1 .. Len(d.data)
  BY Described DEF Regular
<1>2. Holding(d, N, k - 1, l) /\ l \in [0 .. d.capacity - 1 -> Pages]
  BY <1>1, PlacedHolds
<1>3. /\ FrameOf(d, k) \in Nat /\ FrameOf(d, k) # START_PAGE_TABLE
      /\ \A i \in 1 .. N : d.tables[i].frame # FrameOf(d, k)
      /\ \A i \in 1 .. k - 1 : FrameOf(d, i) # FrameOf(d, k)
  BY <1>1, Described DEF Regular
<1> HIDE DEF l
<1>4. m = [f \in 0 .. d.capacity - 1 |->
             IF f = FrameOf(d, k) THEN d.data[k].page ELSE l[f]]
  <2>1. PICK c, b, frame, page :
          c = d.capacity /\ b = l /\ frame = FrameOf(d, k) /\ page = d.data[k].page
    OBVIOUS
  <2>2. c \in Nat /\ b \in [0 .. c - 1 -> Pages] /\ frame \in Nat
    BY <1>1, <1>2, <1>3, <2>1
  <2>3. page_file_read_ignored(b, frame, page)
          = [f \in 0 .. c - 1 |-> IF f = frame THEN page ELSE b[f]]
    BY ONLY <2>2, IgnoredIs
  <2> QED
    BY <2>1, <2>3
<1> HIDE DEF m
<1>5. ASSUME NEW f \in 0 .. d.capacity - 1
      PROVE  /\ f = START_PAGE_TABLE => m[f] = d.pgd
             /\ \A i \in 1 .. N : f = d.tables[i].frame => m[f] = d.tables[i].page
             /\ \A i \in 1 .. k : f = FrameOf(d, i) => m[f] = d.data[i].page
             /\ \/ f = START_PAGE_TABLE
                \/ \E i \in 1 .. N : f = d.tables[i].frame
                \/ \E i \in 1 .. k : f = FrameOf(d, i)
                \/ m[f] = Zeros
  <2>1. CASE f = FrameOf(d, k)
    BY <1>1, <1>3, <1>4, <2>1, SMTT(30)
  <2>2. CASE f # FrameOf(d, k)
    <3>1. m[f] = l[f]
      BY <1>4, <2>2
    <3> QED
      BY <1>1, <1>2, <2>2, <3>1 DEF Holding
  <2> QED
    BY <2>1, <2>2
<1>6. Holding(d, N, k, m)
  BY <1>4, <1>5 DEF Holding
<1> QED
  BY <1>1, <1>6, PlacedIs DEF l, m

(* A walk that stays in the memory is one through the tables.              *)
LEMMA PlacedLeads ==
  ASSUME NEW d \in Readable, NEW k \in 0 .. Len(d.data), NEW i \in 1 .. Len(d.data),
         walked(TableAt(d), d.data[i].vaddr) \subseteq 0 .. d.capacity - 1
  PROVE  page_walk(Placed(d, Len(d.tables), k), d.data[i].vaddr) = FrameOf(d, i)
<1> DEFINE m == Placed(d, Len(d.tables), k)
<1>1. Holding(d, Len(d.tables), k, m)
  <2>1. Len(d.tables) \in 0 .. Len(d.tables)
    BY Described DEF Regular
  <2> QED
    BY <2>1, PlacedHolds
<1>2. i \in DOMAIN d.data
  BY Described DEF Regular
<1>3. walked(TableAt(d), d.data[i].vaddr) \subseteq TableFrames(d)
  BY Described DEF Regular
<1>4. /\ TableAt(d)[START_PAGE_TABLE] = d.pgd
      /\ \A j \in DOMAIN d.tables : TableAt(d)[d.tables[j].frame] = d.tables[j].page
  <2>1. \A j, l \in DOMAIN d.tables :
          /\ d.tables[j].frame # START_PAGE_TABLE
          /\ j # l => d.tables[j].frame # d.tables[l].frame
    BY Described DEF Regular
  <2> QED
    BY <2>1, TableAtFrame
<1> HIDE DEF m
<1>5. ASSUME NEW f \in TableFrames(d), f \in 0 .. d.capacity - 1
      PROVE  m[f] = TableAt(d)[f]
  <2>1. CASE f = START_PAGE_TABLE
    BY <1>1, <1>4, <1>5, <2>1 DEF Holding
  <2>2. ASSUME NEW j \in DOMAIN d.tables, f = d.tables[j].frame
        PROVE  m[f] = TableAt(d)[f]
    <3>1. j \in 1 .. Len(d.tables)
      BY Described DEF Regular
    <3>2. m[f] = d.tables[j].page
      BY <1>1, <1>5, <2>2, <3>1 DEF Holding
    <3> QED
      BY <1>4, <2>2, <3>2
  <2> QED
    BY <2>1, <2>2 DEF TableFrames
<1> QED
  BY <1>2, <1>3, <1>5, SameWalk DEF m

(***************************************************************************)
(* The loops of the releases are functions from the number of rounds to    *)
(* what they have made so far.  Two such functions that begin alike and go *)
(* on alike are the same: they differ at no least round.                   *)
(***************************************************************************)
LEMMA LeastElement ==
  ASSUME NEW T, T \subseteq Nat, T # {}
  PROVE  \E m \in T : \A n \in T : m <= n
<1>1. \A x, y \in Nat : x < y => << x, y >> \in OpToRel(<, Nat)
  BY Zenon DEF OpToRel
<1>2. \E R : IsWellFoundedOn(R, Nat) /\ \A x, y \in Nat : x < y => << x, y >> \in R
  BY <1>1, NatLessThanWellFounded, Zenon
<1>3. PICK R : IsWellFoundedOn(R, Nat) /\ \A x, y \in Nat : x < y => << x, y >> \in R
  BY <1>2
<1>4. \E m \in T : \A n \in T : ~ (<< n, m >> \in R)
  <2>1. IsWellFoundedOn(R, Nat)
    BY <1>3
  <2> QED
    BY <2>1, WFMin, Zenon
<1>5. PICK m \in T : \A n \in T : ~ (<< n, m >> \in R)
  BY <1>4
<1>6. ASSUME NEW n \in T
      PROVE  m <= n
  <2>1. m \in Nat /\ n \in Nat
    OBVIOUS
  <2>2. ~ (n < m)
    BY <1>3, <1>5, <2>1, Zenon
  <2> QED
    BY <2>1, <2>2
<1> QED
  BY <1>6

LEMMA SameRounds ==
  ASSUME NEW N \in Nat, NEW f, NEW g, f[0] = g[0],
         \A k \in 1 .. N : f[k - 1] = g[k - 1] => f[k] = g[k]
  PROVE  f[N] = g[N]
<1> SUFFICES ASSUME f[N] # g[N] PROVE FALSE
  OBVIOUS
<1> DEFINE D == {k \in 0 .. N : f[k] # g[k]}
<1>1. D \subseteq Nat /\ D # {}
  OBVIOUS
<1>2. PICK m \in D : \A n \in D : m <= n
  <2> HIDE DEF D
  <2> QED
    BY <1>1, LeastElement
<1>3. m \in 1 .. N
  OBVIOUS
<1>4. m - 1 \in 0 .. N /\ m - 1 \notin D
  BY <1>1, <1>2, <1>3
<1> QED
  BY <1>3, <1>4

(***************************************************************************)
(* The loops of the first release.                                         *)
(***************************************************************************)
LEMMA TablesOfIs ==
  ASSUME NEW d \in Readable
  PROVE  TablesOf(d) = Placed(d, Len(d.tables), 0)
<1> DEFINE N == Len(d.tables)
           Rounds(f) ==
             f = [n \in 0 .. N |->
                    IF n = 0 THEN page_file_read_ignored(Blank(d), START_PAGE_TABLE, d.pgd)
                    ELSE page_file_read_ignored(f[n - 1], d.tables[n].frame,
                                                d.tables[n].page)]
           at == CHOOSE f : Rounds(f)
           w  == [n \in 0 .. N |-> Placed(d, n, 0)]
<1>1. TablesOf(d) = at[N]
  BY DEF TablesOf
<1>2. N \in Nat
  BY Described DEF Regular
<1>3. \A n \in 1 .. N :
        /\ w[n] = Placed(d, n, 0) /\ w[n - 1] = Placed(d, n - 1, 0)
        /\ w[n] = page_file_read_ignored(w[n - 1], d.tables[n].frame, d.tables[n].page)
  BY <1>2, TableStep
<1>4. w[0] = page_file_read_ignored(Blank(d), START_PAGE_TABLE, d.pgd) /\ w[N] = Placed(d, N, 0)
  BY <1>2, PgdStep
<1>5. w = [n \in 0 .. N |-> w[n]]
  OBVIOUS
<1> HIDE DEF w
<1>6. Rounds(w)
  <2>1. ASSUME NEW n \in 0 .. N
        PROVE  w[n] = IF n = 0
                      THEN page_file_read_ignored(Blank(d), START_PAGE_TABLE, d.pgd)
                      ELSE page_file_read_ignored(w[n - 1], d.tables[n].frame,
                                                  d.tables[n].page)
    BY <1>2, <1>3, <1>4
  <2> QED
    BY <1>5, <2>1
<1>7. Rounds(at)
  BY <1>6
<1> HIDE DEF at
<1>8. at[0] = w[0] /\ \A n \in 1 .. N : at[n - 1] = w[n - 1] => at[n] = w[n]
  <2>1. at[0] = w[0]
    BY <1>2, <1>6, <1>7
  <2>2. ASSUME NEW n \in 1 .. N, at[n - 1] = w[n - 1]
        PROVE  at[n] = w[n]
    <3>1. n \in 0 .. N /\ n # 0
      BY <1>2
    <3>2. at[n] = page_file_read_ignored(at[n - 1], d.tables[n].frame, d.tables[n].page)
      BY <1>7, <3>1
    <3> QED
      BY <1>3, <2>2, <3>2
  <2> QED
    BY <2>1, <2>2
<1>9. at[N] = w[N]
  <2> HIDE DEF N
  <2> QED
    BY <1>2, <1>8, SameRounds
<1> QED
  BY <1>1, <1>4, <1>9

(* The first lines of the data of a description.                           *)
FirstLines(d, data) ==
  /\ Len(data) \in 0 .. Len(d.data)
  /\ \A i \in 1 .. Len(data) : data[i] = d.data[i]

LEMMA UncheckedIs ==
  ASSUME NEW d \in Readable, WalksInside(d), NEW data, FirstLines(d, data)
  PROVE  mem_init_from_description_unchecked(d, data)
           = Placed(d, Len(d.tables), Len(data))
<1> DEFINE N == Len(d.tables)
           K == Len(data)
           Rounds(f) ==
             f = [n \in 0 .. K |->
                    IF n = 0 THEN TablesOf(d)
                    ELSE page_file_read_ignored(f[n - 1],
                           page_walk(f[n - 1], data[n].vaddr), data[n].page)]
           at == CHOOSE f : Rounds(f)
           w  == [n \in 0 .. K |-> Placed(d, N, n)]
<1>1. mem_init_from_description_unchecked(d, data) = at[K]
  BY DEF mem_init_from_description_unchecked
<1>2. K \in Nat /\ K <= Len(d.data) /\ Len(d.data) \in Nat
  BY Described DEF Regular, FirstLines
<1>3. ASSUME NEW n \in 1 .. K
      PROVE  w[n] = page_file_read_ignored(w[n - 1],
                      page_walk(w[n - 1], data[n].vaddr), data[n].page)
  <2>1. w[n] = Placed(d, N, n) /\ w[n - 1] = Placed(d, N, n - 1)
    BY <1>2
  <2>2. n \in 1 .. Len(d.data) /\ n - 1 \in 0 .. Len(d.data) /\ data[n] = d.data[n]
    BY <1>2 DEF FirstLines
  <2>3. n \in DOMAIN d.data
    BY <2>2, Described DEF Regular
  <2>4. walked(TableAt(d), d.data[n].vaddr) \subseteq 0 .. d.capacity - 1
    BY <2>3 DEF WalksInside
  <2>5. page_walk(Placed(d, N, n - 1), d.data[n].vaddr) = FrameOf(d, n)
    BY <2>2, <2>4, PlacedLeads
  <2> QED
    BY <2>1, <2>2, <2>5, DataStep
<1>4. w[0] = TablesOf(d) /\ w[K] = Placed(d, N, K)
  BY <1>2, TablesOfIs
<1>5. w = [n \in 0 .. K |-> w[n]]
  OBVIOUS
<1> HIDE DEF w
<1>6. Rounds(w)
  <2>1. ASSUME NEW n \in 0 .. K
        PROVE  w[n] = IF n = 0 THEN TablesOf(d)
                      ELSE page_file_read_ignored(w[n - 1],
                             page_walk(w[n - 1], data[n].vaddr), data[n].page)
    BY <1>2, <1>3, <1>4
  <2> QED
    BY <1>5, <2>1
<1>7. Rounds(at)
  BY <1>6
<1> HIDE DEF at
<1>8. at[0] = w[0] /\ \A n \in 1 .. K : at[n - 1] = w[n - 1] => at[n] = w[n]
  <2>1. at[0] = w[0]
    BY <1>2, <1>6, <1>7
  <2>2. ASSUME NEW n \in 1 .. K, at[n - 1] = w[n - 1]
        PROVE  at[n] = w[n]
    <3>1. n \in 0 .. K /\ n # 0
      BY <1>2
    <3>2. at[n] = page_file_read_ignored(at[n - 1],
                    page_walk(at[n - 1], data[n].vaddr), data[n].page)
      BY <1>7, <3>1
    <3> QED
      BY <1>3, <2>2, <3>2
  <2> QED
    BY <2>1, <2>2
<1>9. at[K] = w[K]
  <2> HIDE DEF K
  <2> QED
    BY <1>2, <1>8, SameRounds
<1> QED
  BY <1>1, <1>4, <1>9

(***************************************************************************)
(* The loops of the second release stop at the first page that does not    *)
(* fit.                                                                    *)
(***************************************************************************)
Fit(d, n, k) ==
  /\ START_PAGE_TABLE \in 0 .. d.capacity - 1
  /\ \A i \in 1 .. n : d.tables[i].frame \in 0 .. d.capacity - 1
  /\ \A i \in 1 .. k : FrameOf(d, i) \in 0 .. d.capacity - 1

(* A memory with the file closed and without an error.                     *)
Loaded(m) == Result(m, FALSE, "ERR_NONE")

Checked(d, n, k) ==
  IF Fit(d, n, k) THEN Loaded(Placed(d, n, k))
                  ELSE handle_exit_error_in("ERR_MEM")

LEMMA CheckedIs ==
  ASSUME NEW capacity \in Nat, NEW m \in [0 .. capacity - 1 -> Pages],
         NEW frame \in Nat, NEW page
  PROVE  /\ frame \in 0 .. capacity - 1 =>
              page_file_read_checked(Loaded(m), frame, page)
                = Loaded(page_file_read_ignored(m, frame, page))
         /\ frame \notin 0 .. capacity - 1 =>
              page_file_read_checked(Loaded(m), frame, page)
                = handle_exit_error_in("ERR_MEM")
<1> DEFINE r == Loaded(m)
<1>1. frame + 1 <= Cardinality(DOMAIN m) <=> frame \in 0 .. capacity - 1
  BY IgnoredIs
<1>2. r.memory = m /\ r.open = FALSE /\ r.err = "ERR_NONE"
  BY DEF Loaded, Result
<1> HIDE DEF r
<1> QED
  BY <1>1, <1>2 DEF page_file_read_checked, page_file_read_ignored, Loaded, r

LEMMA CheckedStops ==
  ASSUME NEW frame, NEW page
  PROVE  /\ handle_exit_error_in("ERR_MEM").err # "ERR_NONE"
         /\ page_file_read_checked(handle_exit_error_in("ERR_MEM"), frame, page)
              = handle_exit_error_in("ERR_MEM")
  BY DEF page_file_read_checked, handle_exit_error_in, Result

(* The page of a line fits, or the loop has stopped.                       *)
LEMMA CheckedPgd ==
  ASSUME NEW d \in Readable
  PROVE  page_file_read_checked(Loaded(Blank(d)),
                                START_PAGE_TABLE, d.pgd) = Checked(d, 0, 0)
<1>1. PICK c, b, frame, page :
        c = d.capacity /\ b = Blank(d) /\ frame = START_PAGE_TABLE /\ page = d.pgd
  OBVIOUS
<1>2. c \in Nat /\ b \in [0 .. c - 1 -> Pages] /\ frame \in Nat
  BY <1>1, Described, PagesAssumption DEF Regular, Blank, START_PAGE_TABLE
<1>3. /\ frame \in 0 .. c - 1 =>
           page_file_read_checked(Loaded(b), frame, page)
             = Loaded(page_file_read_ignored(b, frame, page))
      /\ frame \notin 0 .. c - 1 =>
           page_file_read_checked(Loaded(b), frame, page)
             = handle_exit_error_in("ERR_MEM")
  BY ONLY <1>2, CheckedIs
<1>4. page_file_read_ignored(b, frame, page) = Placed(d, 0, 0)
  BY <1>1, PgdStep
<1>5. Fit(d, 0, 0) <=> frame \in 0 .. c - 1
  BY <1>1 DEF Fit
<1> QED
  BY <1>1, <1>3, <1>4, <1>5 DEF Checked

LEMMA CheckedTable ==
  ASSUME NEW d \in Readable, NEW n \in 1 .. Len(d.tables)
  PROVE  page_file_read_checked(Checked(d, n - 1, 0), d.tables[n].frame, d.tables[n].page)
           = Checked(d, n, 0)
<1>1. PICK c, b, frame, page :
        /\ c = d.capacity /\ b = Placed(d, n - 1, 0)
        /\ frame = d.tables[n].frame /\ page = d.tables[n].page
  OBVIOUS
<1>2. n - 1 \in 0 .. Len(d.tables) /\ 0 \in 0 .. Len(d.data)
  BY Described DEF Regular
<1>3. c \in Nat /\ b \in [0 .. c - 1 -> Pages] /\ frame \in Nat
  BY <1>1, <1>2, Described, PlacedHolds DEF Regular
<1>4. Fit(d, n, 0) <=> Fit(d, n - 1, 0) /\ frame \in 0 .. c - 1
  <2>1. \A i : i \in 1 .. n <=> i \in 1 .. n - 1 \/ i = n
    BY <1>2
  <2> QED
    BY <1>1, <2>1 DEF Fit
<1>5. CASE Fit(d, n - 1, 0)
  <2>1. /\ frame \in 0 .. c - 1 =>
             page_file_read_checked(Loaded(b), frame, page)
               = Loaded(page_file_read_ignored(b, frame, page))
        /\ frame \notin 0 .. c - 1 =>
             page_file_read_checked(Loaded(b), frame, page)
               = handle_exit_error_in("ERR_MEM")
    BY ONLY <1>3, CheckedIs
  <2>2. page_file_read_ignored(b, frame, page) = Placed(d, n, 0)
    BY <1>1, TableStep
  <2> QED
    BY <1>1, <1>4, <1>5, <2>1, <2>2 DEF Checked
<1>6. CASE ~ Fit(d, n - 1, 0)
  BY <1>4, <1>6, CheckedStops DEF Checked
<1> QED
  BY <1>5, <1>6

(* When every table fits, the walks stay in the memory.                    *)
LEMMA FitLeads ==
  ASSUME NEW d \in Readable, Fit(d, Len(d.tables), 0)
  PROVE  WalksInside(d)
<1> SUFFICES ASSUME NEW i \in DOMAIN d.data
             PROVE  walked(TableAt(d), d.data[i].vaddr) \subseteq 0 .. d.capacity - 1
  BY DEF WalksInside
<1>1. walked(TableAt(d), d.data[i].vaddr) \subseteq TableFrames(d)
  BY Described DEF Regular
<1>2. TableFrames(d) \subseteq 0 .. d.capacity - 1
  BY Described DEF Regular, TableFrames, Fit
<1> QED
  BY <1>1, <1>2

(* The round of a data line of the second release.                         *)
DataRound(r, l) ==
  IF r.err # "ERR_NONE" THEN r
  ELSE page_file_read_checked(r, page_walk(r.memory, l.vaddr), l.page)

LEMMA CheckedData ==
  ASSUME NEW d \in Readable, NEW k \in 1 .. Len(d.data)
  PROVE  DataRound(Checked(d, Len(d.tables), k - 1), d.data[k])
           = Checked(d, Len(d.tables), k)
<1> DEFINE N == Len(d.tables)
<1>1. PICK c, b, frame, page :
        /\ c = d.capacity /\ b = Placed(d, N, k - 1)
        /\ frame = FrameOf(d, k) /\ page = d.data[k].page
  OBVIOUS
<1>2. N \in 0 .. N /\ k - 1 \in 0 .. Len(d.data) /\ k \in DOMAIN d.data
  BY Described DEF Regular
<1>3. c \in Nat /\ b \in [0 .. c - 1 -> Pages] /\ frame \in Nat
  BY <1>1, <1>2, Described, PlacedHolds DEF Regular
<1>4. Fit(d, N, k) <=> Fit(d, N, k - 1) /\ frame \in 0 .. c - 1
  <2>1. \A i : i \in 1 .. k <=> i \in 1 .. k - 1 \/ i = k
    BY <1>2
  <2> QED
    BY <1>1, <2>1 DEF Fit
<1>5. CASE Fit(d, N, k - 1)
  <2>1. page_walk(b, d.data[k].vaddr) = frame
    <3>1. WalksInside(d)
      BY <1>5, FitLeads DEF Fit
    <3> QED
      BY <1>1, <1>2, <3>1, PlacedLeads DEF WalksInside
  <2>2. /\ frame \in 0 .. c - 1 =>
             page_file_read_checked(Loaded(b), frame, page)
               = Loaded(page_file_read_ignored(b, frame, page))
        /\ frame \notin 0 .. c - 1 =>
             page_file_read_checked(Loaded(b), frame, page)
               = handle_exit_error_in("ERR_MEM")
    BY ONLY <1>3, CheckedIs
  <2>3. page_file_read_ignored(b, frame, page) = Placed(d, N, k)
    BY <1>1, DataStep
  <2>4. Checked(d, N, k - 1) = Loaded(b)
    BY <1>1, <1>5 DEF Checked
  <2>5. Loaded(b).err = "ERR_NONE"
        /\ Loaded(b).memory = b
    BY DEF Loaded, Result
  <2>6. DataRound(Checked(d, N, k - 1), d.data[k])
          = page_file_read_checked(Loaded(b), frame, page)
    BY <1>1, <2>1, <2>4, <2>5 DEF DataRound
  <2> QED
    BY <1>4, <1>5, <2>2, <2>3, <2>6 DEF Checked
<1>6. CASE ~ Fit(d, N, k - 1)
  BY <1>4, <1>6, CheckedStops DEF Checked, DataRound
<1> QED
  BY <1>5, <1>6

LEMMA TablePagesIs ==
  ASSUME NEW d \in Readable
  PROVE  TablePages(Checked(d, 0, 0), d.tables) = Checked(d, Len(d.tables), 0)
<1> DEFINE N == Len(d.tables)
           r == Checked(d, 0, 0)
           Rounds(f) ==
             f = [n \in 0 .. N |->
                    IF n = 0 THEN r
                    ELSE page_file_read_checked(f[n - 1], d.tables[n].frame,
                                                d.tables[n].page)]
           at == CHOOSE f : Rounds(f)
           w  == [n \in 0 .. N |-> Checked(d, n, 0)]
<1>1. TablePages(r, d.tables) = at[N]
  BY DEF TablePages
<1>2. N \in Nat
  BY Described DEF Regular
<1>3. \A n \in 1 .. N :
        /\ w[n] = Checked(d, n, 0) /\ w[n - 1] = Checked(d, n - 1, 0)
        /\ w[n] = page_file_read_checked(w[n - 1], d.tables[n].frame, d.tables[n].page)
  BY <1>2, CheckedTable
<1>4. w[0] = r /\ w[N] = Checked(d, N, 0)
  BY <1>2
<1>5. w = [n \in 0 .. N |-> w[n]]
  OBVIOUS
<1> HIDE DEF w, r
<1>6. Rounds(w)
  <2>1. ASSUME NEW n \in 0 .. N
        PROVE  w[n] = IF n = 0 THEN r
                      ELSE page_file_read_checked(w[n - 1], d.tables[n].frame,
                                                  d.tables[n].page)
    BY <1>2, <1>3, <1>4
  <2> QED
    BY <1>5, <2>1
<1>7. Rounds(at)
  BY <1>6
<1> HIDE DEF at
<1>8. at[0] = w[0] /\ \A n \in 1 .. N : at[n - 1] = w[n - 1] => at[n] = w[n]
  <2>1. at[0] = w[0]
    BY <1>2, <1>6, <1>7
  <2>2. ASSUME NEW n \in 1 .. N, at[n - 1] = w[n - 1]
        PROVE  at[n] = w[n]
    <3>1. n \in 0 .. N /\ n # 0
      BY <1>2
    <3>2. at[n] = page_file_read_checked(at[n - 1], d.tables[n].frame, d.tables[n].page)
      BY <1>7, <3>1
    <3> QED
      BY <1>3, <2>2, <3>2
  <2> QED
    BY <2>1, <2>2
<1>9. at[N] = w[N]
  <2> HIDE DEF N
  <2> QED
    BY <1>2, <1>8, SameRounds
<1> QED
  BY <1>1, <1>4, <1>9 DEF r

LEMMA DataPagesIs ==
  ASSUME NEW d \in Readable, NEW data, FirstLines(d, data)
  PROVE  DataPages(Checked(d, Len(d.tables), 0), data)
           = Checked(d, Len(d.tables), Len(data))
<1> DEFINE N == Len(d.tables)
           K == Len(data)
           r == Checked(d, N, 0)
           Rounds(f) ==
             f = [n \in 0 .. K |->
                    IF n = 0 THEN r
                    ELSE IF f[n - 1].err # "ERR_NONE" THEN f[n - 1]
                    ELSE page_file_read_checked(f[n - 1],
                           page_walk(f[n - 1].memory, data[n].vaddr), data[n].page)]
           at == CHOOSE f : Rounds(f)
           w  == [n \in 0 .. K |-> Checked(d, N, n)]
<1>1. DataPages(r, data) = at[K]
  BY DEF DataPages
<1>2. K \in Nat /\ K <= Len(d.data) /\ Len(d.data) \in Nat
  BY Described DEF Regular, FirstLines
<1>3. ASSUME NEW n \in 1 .. K
      PROVE  w[n] = DataRound(w[n - 1], data[n])
  <2>1. w[n] = Checked(d, N, n) /\ w[n - 1] = Checked(d, N, n - 1)
    BY <1>2
  <2>2. n \in 1 .. Len(d.data) /\ data[n] = d.data[n]
    BY <1>2 DEF FirstLines
  <2> QED
    BY <2>1, <2>2, CheckedData
<1>4. w[0] = r /\ w[K] = Checked(d, N, K)
  BY <1>2
<1>5. w = [n \in 0 .. K |-> w[n]]
  OBVIOUS
<1> HIDE DEF w, r
<1>6. Rounds(w)
  <2>1. ASSUME NEW n \in 0 .. K
        PROVE  w[n] = IF n = 0 THEN r
                      ELSE IF w[n - 1].err # "ERR_NONE" THEN w[n - 1]
                      ELSE page_file_read_checked(w[n - 1],
                             page_walk(w[n - 1].memory, data[n].vaddr), data[n].page)
    BY <1>2, <1>3, <1>4 DEF DataRound
  <2> QED
    BY <1>5, <2>1
<1>7. Rounds(at)
  BY <1>6
<1> HIDE DEF at
<1>8. at[0] = w[0] /\ \A n \in 1 .. K : at[n - 1] = w[n - 1] => at[n] = w[n]
  <2>1. at[0] = w[0]
    BY <1>2, <1>6, <1>7
  <2>2. ASSUME NEW n \in 1 .. K, at[n - 1] = w[n - 1]
        PROVE  at[n] = w[n]
    <3>1. n \in 0 .. K /\ n # 0
      BY <1>2
    <3>2. at[n] = DataRound(at[n - 1], data[n])
      BY <1>7, <3>1 DEF DataRound
    <3> QED
      BY <1>3, <2>2, <3>2
  <2> QED
    BY <2>1, <2>2
<1>9. at[K] = w[K]
  <2> HIDE DEF K
  <2> QED
    BY <1>2, <1>8, SameRounds
<1> QED
  BY <1>1, <1>4, <1>9 DEF r

LEMMA MemInitIs ==
  ASSUME NEW d \in Readable, NEW data, FirstLines(d, data)
  PROVE  mem_init_from_description_checked(d, data)
           = Checked(d, Len(d.tables), Len(data))
  BY CheckedPgd, TablePagesIs, DataPagesIs DEF mem_init_from_description_checked, Loaded

-----------------------------------------------------------------------------
(***************************************************************************)
(* The memory while it is loaded is what the lines read so far make of it; *)
(* they have all fitted, or the load would have ended.                     *)
(***************************************************************************)
Loading ==
  /\ memory \in Memories
  /\ stage = "pgd" => memory = Blank(desc)
  /\ stage = "count" => Fit(desc, 0, 0) /\ memory = Placed(desc, 0, 0)
  /\ stage = "tables" =>
       /\ Fit(desc, Len(desc.tables) - Len(todo), 0)
       /\ memory = Placed(desc, Len(desc.tables) - Len(todo), 0)
  /\ stage = "ended" /\ todo = << >> =>
       /\ Misread \in Readable /\ Fit(Misread, Len(Misread.tables), 0)
       /\ memory = Placed(Misread, Len(Misread.tables), 0)
  /\ stage = "data" =>
       /\ Fit(desc, Len(desc.tables), Len(desc.data) - Len(todo))
       /\ memory = Placed(desc, Len(desc.tables), Len(desc.data) - Len(todo))
  /\ stage = "exit" /\ fault = "bounds" =>
       err = "ERR_MEM" /\ ~ Fit(desc, Len(desc.tables), Len(desc.data))

LEMMA ReadIs ==
  ASSUME desc \in Descriptions, memory \in [0 .. desc.capacity - 1 -> Pages],
         NEW frame \in Nat, NEW page, page_file_read(frame, page)
  PROVE  /\ frame \in 0 .. desc.capacity - 1
         /\ memory' = page_file_read_ignored(memory, frame, page)
<1>1. desc.capacity \in Nat
  BY Described, AsWritten DEF Regular
<1>2. frame \in 0 .. desc.capacity - 1 /\ memory' = [memory EXCEPT ![frame] = page]
  BY <1>1 DEF page_file_read, Fits
<1>3. frame + 1 <= Cardinality(DOMAIN memory)
  <2>1. PICK c, m : c = desc.capacity /\ m = memory
    OBVIOUS
  <2>2. c \in Nat /\ m \in [0 .. c - 1 -> Pages] /\ frame \in 0 .. c - 1
    BY <1>1, <1>2, <2>1
  <2>3. frame + 1 <= Cardinality(DOMAIN m)
    BY ONLY <2>2, IgnoredIs
  <2> QED
    BY <2>1, <2>3
<1> QED
  BY <1>2, <1>3 DEF page_file_read_ignored

LEMMA MemoryOf ==
  ASSUME NEW d \in Descriptions, NEW m \in [0 .. d.capacity - 1 -> Pages]
  PROVE  m \in Memories
  BY DEF Memories

LEMMA PgdIsLoaded ==
  ASSUME IInv, Loading, PgdLoads
  PROVE  Loading'
<1>1. /\ desc \in Descriptions /\ desc' = desc /\ stage' = "count"
      /\ memory = Blank(desc) /\ page_file_read(START_PAGE_TABLE, desc.pgd)
  BY DEF PgdLoads, Continues, Progress, IInv, UnderWay, Loading
<1>2. memory \in [0 .. desc.capacity - 1 -> Pages] /\ START_PAGE_TABLE \in Nat
  BY <1>1, PagesAssumption DEF Blank, START_PAGE_TABLE
<1>3. /\ START_PAGE_TABLE \in 0 .. desc.capacity - 1
      /\ memory' = page_file_read_ignored(memory, START_PAGE_TABLE, desc.pgd)
  BY <1>1, <1>2, ReadIs
<1>4. memory' = Placed(desc, 0, 0)
  BY <1>1, <1>3, PgdStep, AsWritten
<1>5. memory' \in Memories
  <2>1. 0 \in 0 .. Len(desc.tables) /\ 0 \in 0 .. Len(desc.data)
    BY <1>1, Described, AsWritten DEF Regular
  <2> QED
    BY <1>1, <1>4, <2>1, PlacedHolds, AsWritten, MemoryOf
<1>6. Fit(desc, 0, 0)
  BY <1>3 DEF Fit
<1> QED
  BY <1>1, <1>4, <1>5, <1>6 DEF Loading

LEMMA TableIsLoaded ==
  ASSUME IInv, Loading, TableLoads
  PROVE  Loading'
<1> DEFINE n == Len(desc.tables) - Len(todo)
<1>1. /\ desc \in Descriptions /\ desc' = desc
      /\ stage = "tables" /\ stage' = "tables" /\ todo # << >>
      /\ todo \in Seq(TableLines) /\ todo' = Tail(todo)
      /\ page_file_read(Head(todo).frame, Head(todo).page) /\ RestOf(desc.tables)
  BY DEF TableLoads, InTables, Continues, IInv, UnderWay
<1>2. Fit(desc, n, 0) /\ memory = Placed(desc, n, 0)
  BY <1>1 DEF Loading
<1>3. desc.tables \in Seq(TableLines)
  BY <1>1, PagesAssumption
<1>4. /\ n \in Nat /\ n' = n + 1
      /\ n + 1 \in 1 .. Len(desc.tables) /\ Head(todo) = desc.tables[n + 1]
  BY <1>1, <1>3, RestStep
<1>5. /\ n \in 0 .. Len(desc.tables) /\ n + 1 \in 0 .. Len(desc.tables)
      /\ 0 \in 0 .. Len(desc.data) /\ (n + 1) - 1 = n
  BY <1>1, <1>4, Described, AsWritten DEF Regular
<1>6. memory \in [0 .. desc.capacity - 1 -> Pages]
  BY <1>1, <1>2, <1>5, PlacedHolds, AsWritten
<1>7. Head(todo).frame \in Nat
  BY <1>1, <1>4, Described, AsWritten DEF Regular
<1>8. /\ Head(todo).frame \in 0 .. desc.capacity - 1
      /\ memory' = page_file_read_ignored(memory, Head(todo).frame, Head(todo).page)
  BY <1>1, <1>6, <1>7, ReadIs
<1>9. memory' = Placed(desc, n + 1, 0)
  <2>1. PICK j \in 1 .. Len(desc.tables) : j = n + 1
    BY <1>4
  <2>2. j - 1 = n
    BY <1>4, <2>1
  <2> QED
    BY <1>1, <1>2, <1>4, <1>8, <2>1, <2>2, TableStep, AsWritten
<1>10. Fit(desc, n + 1, 0)
  <2>1. \A i \in 1 .. n + 1 : i \in 1 .. n \/ i = n + 1
    BY <1>4
  <2> QED
    BY <1>2, <1>4, <1>8, <2>1 DEF Fit
<1>11. memory' \in Memories
  BY <1>1, <1>5, <1>9, PlacedHolds, AsWritten, MemoryOf
<1> QED
  BY <1>1, <1>4, <1>9, <1>10, <1>11 DEF Loading

(* A page of another name than the last one's: what was read is Misread.   *)
LEMMA MisreadIsLoaded ==
  ASSUME IInv, Loading, TableMisread
  PROVE  Loading'
<1> DEFINE n == Len(desc.tables) - Len(todo)
           frame == Head(todo).frame
<1>1. /\ desc \in Descriptions /\ desc' = desc /\ memory # NULL
      /\ stage = "tables" /\ stage' = "ended" /\ todo # << >>
      /\ todo \in Seq(TableLines) /\ todo' = Tail(todo) /\ RestOf(desc.tables)
  BY DEF TableMisread, InTables, Continues, IInv, UnderWay
<1>2. PICK page \in LeftoverPages : page_file_read(frame, page)
  BY DEF TableMisread
<1>3. page \in Pages /\ desc.tables \in Seq(TableLines)
  BY <1>1, Leftover, PagesAssumption
<1>4. memory' \in [0 .. desc.capacity - 1 -> Pages] /\ memory' \in Memories
  <2>1. memory' \in [0 .. desc.capacity - 1 -> Pages]
    BY <1>1, <1>2, <1>3, PageFits
  <2> QED
    BY <1>1, <2>1, MemoryOf
<1>5. ASSUME todo' = << >>
      PROVE  /\ (Misread \in Readable)' /\ Fit(Misread, Len(Misread.tables), 0)'
             /\ memory' = Placed(Misread, Len(Misread.tables), 0)'
  <2> DEFINE last == Len(desc.tables)
             read == MisreadAs(desc, page)
  <2>1. /\ n \in Nat /\ Len(desc.tables) - Len(todo') = n + 1
        /\ Head(todo) = desc.tables[n + 1]
    BY <1>1, <1>3, RestStep
  <2>2. last = n + 1 /\ n = last - 1 /\ last \in 1 .. last
    BY <1>3, <1>5, <2>1
  <2>3. Fit(desc, last - 1, 0) /\ memory = Placed(desc, last - 1, 0)
    BY <1>1, <2>2 DEF Loading
  <2>4. frame = desc.tables[last].frame /\ frame \in Nat
    BY <1>1, <2>1, <2>2, Described, AsWritten DEF Regular
  <2>5. last - 1 \in 0 .. last /\ last \in 0 .. last /\ 0 \in 0 .. Len(desc.data)
    BY <1>1, <2>2, Described, AsWritten DEF Regular
  <2> HIDE DEF n, frame
  <2>6. /\ Holding(desc, last - 1, 0, memory)
        /\ memory \in [0 .. desc.capacity - 1 -> Pages]
    BY <1>1, <2>3, <2>5, PlacedHolds, AsWritten
  <2>7. /\ frame \in 0 .. desc.capacity - 1
        /\ memory' = page_file_read_ignored(memory, frame, page)
        /\ memory' = [memory EXCEPT ![frame] = page]
    BY <1>1, <1>2, <2>4, <2>6, ReadIs DEF page_file_read
  <2>8. Misread' = read
    <3>1. memory'[frame] = page
      BY <2>6, <2>7
    <3> QED
      BY <1>1, <2>4, <3>1 DEF Misread
  <2>9. /\ read \in Readable /\ read.capacity = desc.capacity /\ read.pgd = desc.pgd
        /\ read.data = << >> /\ Len(read.tables) = last
        /\ \A i \in 1 .. last : read.tables[i].frame = desc.tables[i].frame
        /\ \A i \in 1 .. last - 1 : read.tables[i].page = desc.tables[i].page
        /\ read.tables[last].page = page
    BY <1>1, <1>3, MisreadIs
  <2> HIDE DEF read
  <2>10. Holding(read, last - 1, 0, memory)
    <3>1. \A i \in 1 .. last - 1 :
            /\ read.tables[i].frame = desc.tables[i].frame
            /\ read.tables[i].page = desc.tables[i].page
      BY <2>2, <2>9
    <3> HIDE DEF last
    <3> QED
      BY <2>6, <2>9, <3>1, HoldingAs
  <2>11. memory = Placed(read, last - 1, 0)
    BY <2>5, <2>9, <2>10, PlacedIs
  <2>12. memory' = Placed(read, last, 0)
    <3>1. page_file_read_ignored(Placed(read, last - 1, 0), read.tables[last].frame,
                                 read.tables[last].page) = Placed(read, last, 0)
      BY <2>2, <2>9, TableStep
    <3> QED
      BY <2>2, <2>4, <2>7, <2>9, <2>11, <3>1
  <2>13. Fit(read, last, 0)
    <3>1. ASSUME NEW i \in 1 .. last
          PROVE  read.tables[i].frame \in 0 .. desc.capacity - 1
      <4>1. i \in 1 .. last - 1 \/ i = last
        BY <2>2
      <4>2. i \in 1 .. last - 1 => desc.tables[i].frame \in 0 .. desc.capacity - 1
        BY <2>3 DEF Fit
      <4> QED
        BY <2>4, <2>7, <2>9, <4>1, <4>2
    <3>2. START_PAGE_TABLE \in 0 .. desc.capacity - 1
      BY <2>3 DEF Fit
    <3> HIDE DEF last
    <3> QED
      BY <2>9, <3>1, <3>2 DEF Fit
  <2>14. Len(Misread.tables)' = last
    BY <2>8, <2>9
  <2> QED
    BY <2>8, <2>9, <2>12, <2>13
<1> QED
  BY <1>1, <1>4, <1>5 DEF Loading

LEMMA DataIsLoaded ==
  ASSUME IInv, Loading, DataLoads
  PROVE  Loading'
<1> DEFINE N == Len(desc.tables)
           k == Len(desc.data) - Len(todo)
           frame == page_walk(memory, Head(todo).vaddr)
<1>1. /\ desc \in Descriptions /\ desc' = desc
      /\ stage = "data" /\ stage' = "data" /\ todo # << >>
      /\ todo \in Seq(DataLines) /\ todo' = Tail(todo)
      /\ page_file_read(frame, Head(todo).page) /\ RestOf(desc.data)
  BY DEF DataLoads, InData, Continues, IInv, UnderWay
<1>2. Fit(desc, N, k) /\ memory = Placed(desc, N, k)
  BY <1>1 DEF Loading
<1>3. desc.data \in Seq(DataLines)
  BY <1>1, PagesAssumption
<1>4. /\ k \in Nat /\ k' = k + 1
      /\ k + 1 \in 1 .. Len(desc.data) /\ Head(todo) = desc.data[k + 1]
  BY <1>1, <1>3, RestStep
<1>5. /\ k \in 0 .. Len(desc.data) /\ k + 1 \in 0 .. Len(desc.data)
      /\ N \in 0 .. N /\ k + 1 \in DOMAIN desc.data
  BY <1>1, <1>4, Described, AsWritten DEF Regular
<1>6. memory \in [0 .. desc.capacity - 1 -> Pages]
  BY <1>1, <1>2, <1>5, PlacedHolds, AsWritten
<1>7. frame = FrameOf(desc, k + 1)
  <2>1. Fit(desc, N, 0)
    BY <1>2 DEF Fit
  <2>2. WalksInside(desc)
    BY <1>1, <2>1, FitLeads, AsWritten
  <2> QED
    BY <1>1, <1>2, <1>4, <1>5, <2>2, PlacedLeads, AsWritten DEF WalksInside
<1>8. FrameOf(desc, k + 1) \in Nat
  BY <1>1, <1>4, Described, AsWritten DEF Regular
<1>9. /\ frame \in 0 .. desc.capacity - 1
      /\ memory' = page_file_read_ignored(memory, frame, Head(todo).page)
  BY <1>1, <1>6, <1>7, <1>8, ReadIs
<1>10. memory' = Placed(desc, N, k + 1)
  <2>1. PICK j \in 1 .. Len(desc.data) : j = k + 1
    BY <1>4
  <2>2. j - 1 = k
    BY <1>4, <2>1
  <2> QED
    BY <1>1, <1>2, <1>4, <1>7, <1>9, <2>1, <2>2, DataStep, AsWritten
<1>11. Fit(desc, N, k + 1)
  <2>1. \A i \in 1 .. k + 1 : i \in 1 .. k \/ i = k + 1
    BY <1>4
  <2> QED
    BY <1>2, <1>7, <1>9, <2>1 DEF Fit
<1>12. memory' \in Memories
  BY <1>1, <1>5, <1>10, PlacedHolds, AsWritten, MemoryOf
<1> QED
  BY <1>1, <1>4, <1>10, <1>11, <1>12 DEF Loading

LEMMA NextLine ==
  ASSUME NEW S, NEW list \in Seq(S), todo \in Seq(S), todo # << >>, RestOf(list)
  PROVE  /\ Len(list) - Len(todo) \in 0 .. Len(list)
         /\ Len(list) - Len(todo) + 1 \in 1 .. Len(list)
         /\ Head(todo) = list[Len(list) - Len(todo) + 1]
<1>1. /\ Len(list) \in Nat /\ Len(todo) \in Nat \ {0}
      /\ Head(todo) = todo[1] /\ 1 \in 1 .. Len(todo)
  OBVIOUS
<1> QED
  BY <1>1 DEF RestOf

(* A page that page_file_read refuses; if there was no room for it, not    *)
(* all of the description fits.                                            *)
LEMMA PageIsRefused ==
  ASSUME IInv, Loading, PgdFails \/ TableFails \/ DataFails
  PROVE  Loading'
<1>1. ASSUME NEW frame, page_file_read_fails(frame),
             Fit(desc, Len(desc.tables), Len(desc.data)) => Fits(frame)
      PROVE  Loading'
  <2>1. /\ stage' = "exit" /\ desc' = desc /\ (memory' = memory \/ memory' = NULL)
        /\ fault' = "bounds" => err' = "ERR_MEM" /\ ~ Fits(frame)
    BY <1>1 DEF page_file_read_fails, FreesBlock, Block, Progress
  <2> QED
    BY <1>1, <2>1 DEF Loading, Memories
<1>2. CASE PgdFails
  <2>1. stage = "pgd" /\ desc \in Descriptions /\ page_file_read_fails(START_PAGE_TABLE)
    BY <1>2 DEF PgdFails, IInv, UnderWay
  <2>2. Fit(desc, Len(desc.tables), Len(desc.data)) => Fits(START_PAGE_TABLE)
    BY <2>1, Described, AsWritten DEF Regular, Fit, Fits, START_PAGE_TABLE
  <2> QED
    BY <2>1, <2>2, <1>1
<1>3. CASE TableFails
  <2> DEFINE n == Len(desc.tables) - Len(todo)
  <2>1. /\ stage = "tables" /\ desc \in Descriptions /\ todo \in Seq(TableLines)
        /\ todo # << >> /\ page_file_read_fails(Head(todo).frame)
        /\ RestOf(desc.tables) /\ desc.tables \in Seq(TableLines)
    BY <1>3, PagesAssumption DEF TableFails, InTables, IInv, UnderWay
  <2>3. n + 1 \in 1 .. Len(desc.tables) /\ Head(todo) = desc.tables[n + 1]
    BY <2>1, NextLine
  <2>4. Fit(desc, Len(desc.tables), Len(desc.data)) => Fits(Head(todo).frame)
    <3>1. Fit(desc, Len(desc.tables), Len(desc.data)) =>
            Head(todo).frame \in 0 .. desc.capacity - 1
      BY <2>3 DEF Fit
    <3>2. desc.capacity \in Nat
      BY <2>1, Described, AsWritten DEF Regular
    <3> QED
      BY <3>1, <3>2 DEF Fits
  <2> QED
    BY <2>1, <2>4, <1>1
<1>4. CASE DataFails
  <2> DEFINE N == Len(desc.tables)
             k == Len(desc.data) - Len(todo)
             frame == page_walk(memory, Head(todo).vaddr)
  <2>1. /\ stage = "data" /\ desc \in Descriptions /\ todo \in Seq(DataLines)
        /\ todo # << >> /\ page_file_read_fails(frame)
        /\ RestOf(desc.data)
    BY <1>4 DEF DataFails, InData, IInv, UnderWay
  <2>2. /\ Fit(desc, N, k) /\ memory = Placed(desc, N, k)
        /\ desc.data \in Seq(DataLines)
    BY <2>1, PagesAssumption DEF Loading
  <2>3. /\ k \in 0 .. Len(desc.data) /\ k + 1 \in 1 .. Len(desc.data)
        /\ Head(todo) = desc.data[k + 1]
    BY <2>1, <2>2, NextLine
  <2>4. frame = FrameOf(desc, k + 1)
    <3>1. WalksInside(desc)
      BY <2>1, <2>2, FitLeads, AsWritten DEF Fit
    <3>2. k + 1 \in DOMAIN desc.data
      BY <2>1, <2>3, Described, AsWritten DEF Regular
    <3> QED
      BY <2>1, <2>2, <2>3, <3>1, <3>2, PlacedLeads, AsWritten DEF WalksInside
  <2>5. Fit(desc, N, Len(desc.data)) => Fits(frame)
    <3>1. Fit(desc, N, Len(desc.data)) => frame \in 0 .. desc.capacity - 1
      BY <2>3, <2>4 DEF Fit
    <3>2. desc.capacity \in Nat
      BY <2>1, Described, AsWritten DEF Regular
    <3> QED
      BY <3>1, <3>2 DEF Fits
  <2> QED
    BY <2>1, <2>5, <1>1
<1> QED
  BY <1>2, <1>3, <1>4

LEMMA LoadingStep == IInv /\ Loading /\ [Next]_vars => Loading'
<1> SUFFICES ASSUME IInv, Loading, [Next]_vars PROVE Loading'
  OBVIOUS
<1>1. CASE PgdLoads \/ TableLoads \/ TableMisread \/ DataLoads
  BY <1>1, PgdIsLoaded, TableIsLoaded, MisreadIsLoaded, DataIsLoaded
<1>2. CASE ReadsCount
  <2>1. desc.tables \in Seq(TableLines)
    BY <1>2, PagesAssumption DEF ReadsCount, IInv, UnderWay
  <2>2. /\ todo' = desc.tables /\ desc' = desc /\ memory' = memory
        /\ stage = "count" /\ stage' = "tables"
    BY <1>2 DEF ReadsCount, Continues, Block
  <2>3. Len(desc.tables) - Len(todo') = 0
    BY <2>1, <2>2
  <2> QED
    BY <2>1, <2>2, <2>3 DEF Loading
<1>3. CASE TablesEnd
  <2>1. desc.tables \in Seq(TableLines) /\ desc.data \in Seq(DataLines)
    BY <1>3, PagesAssumption DEF TablesEnd, IInv, UnderWay
  <2>2. /\ todo' = desc.data /\ desc' = desc /\ memory' = memory
        /\ stage = "tables" /\ stage' = "data" /\ todo = << >>
    BY <1>3 DEF TablesEnd, Continues, Block
  <2>3. /\ Len(desc.data) - Len(todo') = 0
        /\ Len(desc.tables) - Len(todo) = Len(desc.tables)
    BY <2>1, <2>2
  <2> QED
    BY <2>1, <2>2, <2>3 DEF Loading
<1>4. CASE Allocates
  <2>1. desc \in Descriptions /\ desc' = desc /\ stage' = "pgd" /\ memory' = Blank(desc)
    BY <1>4 DEF Allocates, Continues, Progress, Blank, IInv, UnderWay
  <2>2. memory' \in Memories
    BY <2>1, PagesAssumption, MemoryOf DEF Blank
  <2> QED
    BY <2>1, <2>2 DEF Loading
<1>5. CASE \E d \in Descriptions : Opens(d)
  BY <1>5 DEF Opens, Continues, Block, Loading
<1>6. CASE Dumping
  <2>1. stage' = "idle" /\ (memory' \in Dumps \/ memory' = NULL)
    BY <1>6 DEF Dumping, DumpNotOpened, DumpOfWrongSize, DumpNotAllocated, DumpNotRead,
                DumpLoads, Calls, Returns, Block, handle_exit_error, FreesBlock
  <2> QED
    BY <2>1 DEF Loading, Memories
<1>7. CASE PgdFails \/ TableFails \/ DataFails
  BY <1>7, PageIsRefused
<1>8. CASE \/ SizeUnreadable \/ LocationUnreadable \/ LocationMissing
           \/ DataCut \/ DataEnd \/ MisreadReturns
  <2>1. stage' = "idle" /\ memory' = memory
    BY <1>8 DEF SizeUnreadable, LocationUnreadable, LocationMissing, DataCut, DataEnd,
                MisreadReturns, Returns, Block
  <2> QED
    BY <2>1 DEF Loading
<1>9. CASE \/ NotOpened \/ SizeLineBad \/ NotAllocated \/ PgdLineBad \/ CountUnreadable
           \/ TableLineBad \/ DataLineBad \/ ErrorReturns \/ Frees
  <2>1. memory' = NULL /\ stage' = "idle"
    BY <1>9 DEF NotOpened, SizeLineBad, NotAllocated, PgdLineBad, CountUnreadable,
                TableLineBad, DataLineBad, ErrorReturns, Frees,
                handle_exit_error, FreesBlock, Returns
  <2> QED
    BY <2>1 DEF Loading, Memories
<1>10. CASE UNCHANGED vars
  BY <1>10 DEF vars, Loading, Misread
<1> QED
  BY <1>1, <1>2, <1>3, <1>4, <1>5, <1>6, <1>7, <1>8, <1>9, <1>10
     DEF Next, Proceeds, Faults

(***************************************************************************)
(* What the releases returned beside the last one.  SameLoads says this of *)
(* what a caller sees; where a page did not fit, it is not inductive: that *)
(* the first release has the other pages is known of the whole memory.     *)
(***************************************************************************)
Compared ==
  stage = "idle" =>
    /\ fault \notin {"capacity", "location"} => projet02 = Done
    /\ fault \in {"capacity", "location"} =>
         \E code \in Codes : projet02 = handle_exit_error_in(code)
    /\ fault \in {"none", "cut", "misread"} =>
         \E opened \in BOOLEAN : projet01 = Result(memory, opened, "ERR_NONE")
    /\ fault = "bounds" =>
         /\ memory = NULL
         /\ \/ projet01 = NULL
            \/ /\ desc \in Descriptions /\ WalksInside(desc)
               /\ \E opened \in BOOLEAN :
                    projet01 = Result(Placed(desc, Len(desc.tables), Len(desc.data)),
                                      opened, "ERR_NONE")

LEMMA ExitIsDone ==
  ASSUME handle_exit_error
  PROVE  memory' = NULL /\ Done' = handle_exit_error_in(err')
  BY DEF handle_exit_error, FreesBlock, Done, handle_exit_error_in, Result

(* A load that ends without an error, complete or not.                     *)
LEMMA EndCompared ==
  ASSUME IInv, Loading, NEW data, UNCHANGED memory, open' = FALSE, err' = "ERR_NONE",
         stage = "data", UNCHANGED Progress,
         data = SubSeq(desc.data, 1, Len(desc.data) - Len(todo)),
         fault' \in {"none", "cut"},
         projet02' = mem_init_from_description_checked(desc, data),
         NEW opened \in BOOLEAN, Loads1(desc, data, opened)
  PROVE  Compared'
<1> DEFINE N == Len(desc.tables)
           k == Len(desc.data) - Len(todo)
<1>1. desc \in Descriptions /\ todo \in Seq(DataLines) /\ RestOf(desc.data)
  BY DEF IInv, UnderWay
<1>2. Fit(desc, N, k) /\ memory = Placed(desc, N, k)
  BY DEF Loading
<1>3. desc.data \in Seq(DataLines)
  BY <1>1, PagesAssumption
<1>4. FirstLines(desc, data) /\ Len(data) = k
  <2>1. k \in 0 .. Len(desc.data)
    BY <1>1, <1>3 DEF RestOf
  <2>2. Len(data) = k /\ \A i \in 1 .. k : data[i] = desc.data[i]
    BY <1>3, <2>1
  <2> QED
    BY <2>1, <2>2 DEF FirstLines
<1>5. WalksInside(desc)
  BY <1>1, <1>2, FitLeads, AsWritten DEF Fit
<1>6. projet02' = Loaded(memory)
  BY <1>1, <1>2, <1>4, MemInitIs, AsWritten DEF Checked
<1>7. Done' = Loaded(memory)
  BY DEF Done, Loaded, Result
<1>8. projet01' = Result(memory', opened, "ERR_NONE")
  BY <1>1, <1>2, <1>4, <1>5, UncheckedIs, AsWritten DEF Loads1
<1> QED
  BY <1>6, <1>7, <1>8 DEF Compared

(* A load that returns no error without having read the last name.         *)
LEMMA MisreadCompared ==
  ASSUME IInv, Loading, MisreadReturns, Describes1, Describes2
  PROVE  Compared'
<1> DEFINE N == Len(Misread.tables)
<1>1. /\ stage = "ended" /\ todo = << >> /\ fault' = "misread" /\ err' = "ERR_NONE"
      /\ open' = FALSE /\ memory' = memory
  BY DEF MisreadReturns, Returns, Block
<1>2. Misread \in Readable /\ Fit(Misread, N, 0) /\ memory = Placed(Misread, N, 0)
  BY <1>1 DEF Loading
<1>3. FirstLines(Misread, << >>) /\ Len(<< >>) = 0
  BY <1>2, Described DEF FirstLines, Regular
<1>4. WalksInside(Misread)
  BY <1>2, FitLeads
<1>5. projet02' = Loaded(memory)
  <2>1. projet02' = mem_init_from_description_checked(Misread, << >>)
    BY <1>1 DEF Describes2
  <2>2. mem_init_from_description_checked(Misread, << >>) = Checked(Misread, N, 0)
    BY <1>2, <1>3, MemInitIs
  <2> QED
    BY <1>2, <2>1, <2>2 DEF Checked
<1>6. projet01' = Result(memory', FALSE, "ERR_NONE")
  <2>1. Loads1(Misread, << >>, FALSE)
    BY <1>1 DEF Describes1
  <2>2. mem_init_from_description_unchecked(Misread, << >>) = Placed(Misread, N, 0)
    BY <1>2, <1>3, <1>4, UncheckedIs
  <2> QED
    BY <1>1, <1>2, <2>1, <2>2 DEF Loads1
<1>7. Done' = Loaded(memory)
  BY <1>1 DEF Done, Loaded, Result
<1> QED
  BY <1>1, <1>5, <1>6, <1>7 DEF Compared

(* A load that a page ends which does not fit.                             *)
LEMMA FullCompared ==
  ASSUME IInv, Loading, ErrorReturns, fault = "bounds", Describes1, Describes2
  PROVE  Compared'
<1>1. /\ desc \in Descriptions /\ desc' = desc /\ fault' = "bounds" /\ err' = "ERR_MEM"
      /\ handle_exit_error /\ ~ Fit(desc, Len(desc.tables), Len(desc.data))
  BY DEF ErrorReturns, Returns, Progress, IInv, UnderWay, Loading
<1>2. FirstLines(desc, desc.data)
  BY <1>1, Described, AsWritten DEF Regular, FirstLines
<1>3. projet02' = handle_exit_error_in("ERR_MEM")
  BY <1>1, <1>2, MemInitIs, AsWritten DEF Describes2, Checked
<1>4. memory' = NULL /\ projet02' = Done'
  BY <1>1, <1>3, ExitIsDone
<1>5. CASE WalksInside(desc)
  <2>1. PICK opened \in BOOLEAN : Loads1(desc, desc.data, opened)
    BY <1>1, <1>5 DEF Describes1
  <2>2. projet01' = Result(Placed(desc, Len(desc.tables), Len(desc.data)), opened, "ERR_NONE")
    BY <1>1, <1>2, <1>5, <2>1, UncheckedIs, AsWritten DEF Loads1
  <2> QED
    BY <1>1, <1>4, <1>5, <2>2 DEF Compared
<1>6. CASE ~ WalksInside(desc)
  <2>1. projet01' = NULL
    BY <1>1, <1>6 DEF Describes1
  <2> QED
    BY <1>1, <1>4, <2>1 DEF Compared
<1> QED
  BY <1>5, <1>6

(* A load that a page ends, for whatever reason.                           *)
LEMMA ErrorCompared ==
  ASSUME IInv, Loading, ErrorReturns, Describes1, Describes2
  PROVE  Compared'
<1>1. handle_exit_error /\ fault' = fault /\ fault \in {"bounds", "page"}
  BY DEF ErrorReturns, Returns, IInv, UnderWay
<1>2. CASE fault = "bounds"
  BY <1>2, FullCompared
<1>3. CASE fault = "page"
  <2>1. projet02' = Done'
    BY <1>1, <1>3, ExitIsDone DEF Describes2
  <2> QED
    BY <1>1, <1>3, <2>1 DEF Compared
<1> QED
  BY <1>1, <1>2, <1>3

LEMMA LoadsCompared ==
  ASSUME IInv, Loading, Proceeds \/ Faults, stage' = "idle", Describes1, Describes2
  PROVE  Compared'
<1>1. CASE DataEnd
  <2>1. stage = "data" /\ desc \in Descriptions /\ todo = << >> /\ fault' = "none"
    BY <1>1 DEF DataEnd, Returns, IInv, UnderWay
  <2>2. desc.data \in Seq(DataLines)
    BY <2>1, PagesAssumption
  <2>3. desc.data = SubSeq(desc.data, 1, Len(desc.data) - Len(todo))
    BY <2>1, <2>2
  <2>4. projet02' = mem_init_from_description_checked(desc, desc.data)
    BY <2>1 DEF Describes2
  <2>5. PICK opened \in BOOLEAN : Loads1(desc, desc.data, opened)
    BY <2>1 DEF Describes1
  <2> QED
    BY <1>1, <2>1, <2>3, <2>4, <2>5, EndCompared DEF DataEnd, Returns, Block
<1>2. CASE DataCut
  <2>1. stage = "data" /\ fault' = "cut"
    BY <1>2 DEF DataCut, InData, Returns
  <2>2. projet02' = mem_init_from_description_checked(desc, DataRead)
    BY <2>1 DEF Describes2
  <2>3. Loads1(desc, DataRead, TRUE)
    BY <2>1 DEF Describes1
  <2> QED
    BY <1>2, <2>1, <2>2, <2>3, EndCompared DEF DataCut, Returns, Block, DataRead
<1>3. CASE \/ SizeLineBad \/ NotAllocated \/ PgdLineBad
           \/ CountUnreadable \/ TableLineBad \/ DataLineBad
  <2>1. handle_exit_error /\ fault' \in {"line", "alloc"}
    BY <1>3 DEF SizeLineBad, NotAllocated, PgdLineBad, CountUnreadable, TableLineBad,
                DataLineBad, Returns
  <2>2. projet02' = Done'
    BY <2>1, ExitIsDone DEF Describes2
  <2> QED
    BY <2>1, <2>2 DEF Compared
<1>4. CASE SizeUnreadable \/ LocationUnreadable \/ LocationMissing
  <2>1. fault' \in {"capacity", "location"}
    BY <1>4 DEF SizeUnreadable, LocationUnreadable, LocationMissing, Returns
  <2>2. \/ projet02' = handle_exit_error_in("ERR_IO")
        \/ projet02' = handle_exit_error_in("ERR_BAD_PARAMETER")
    BY <2>1 DEF Describes2
  <2> QED
    BY <2>1, <2>2 DEF Compared, Codes
<1>5. CASE ErrorReturns \/ MisreadReturns
  BY <1>5, ErrorCompared, MisreadCompared
<1>6. ~ (\/ Allocates \/ PgdLoads \/ ReadsCount \/ TableLoads \/ TablesEnd \/ DataLoads
         \/ PgdFails \/ TableFails \/ TableMisread \/ DataFails)
  BY DEF Allocates, PgdLoads, ReadsCount, TableLoads, TablesEnd, DataLoads, PgdFails,
         TableFails, TableMisread, DataFails, page_file_read_fails, Continues
<1> QED
  BY <1>1, <1>2, <1>3, <1>4, <1>5, <1>6 DEF Proceeds, Faults

LEMMA DumpsCompared ==
  ASSUME Dumping, Dumps1, Dumps2
  PROVE  Compared'
<1>1. ASSUME NEW m \in Dumps, DumpLoads(m)
      PROVE  Compared'
  <2>1. open' = FALSE /\ err' = "ERR_NONE" /\ fault' = "none"
    BY <1>1 DEF DumpLoads
  <2>2. projet02' = Done'
    BY <2>1 DEF Dumps2, Done, Result
  <2>3. projet01' = Result(memory', FALSE, "ERR_NONE")
    BY <2>1 DEF Dumps1
  <2> QED
    BY <2>1, <2>2, <2>3 DEF Compared
<1>2. CASE DumpNotOpened \/ DumpOfWrongSize \/ DumpNotAllocated \/ DumpNotRead
  <2>1. /\ memory' = NULL /\ open' = FALSE /\ err' # "ERR_NONE"
        /\ fault' \in {"open", "size", "alloc", "read"}
    BY <1>2 DEF DumpNotOpened, DumpOfWrongSize, DumpNotAllocated, DumpNotRead,
                Calls, Returns, Block, handle_exit_error, FreesBlock
  <2>2. projet02' = Done'
    BY <2>1 DEF Dumps2, Done, Result, handle_exit_error_in
  <2> QED
    BY <2>1, <2>2 DEF Compared
<1> QED
  BY <1>1, <1>2 DEF Dumping

(* What is freed was there, in every release that is followed.             *)
LEMMA FreesCompared ==
  ASSUME IInv, Loading, Compared, Frees,
         projet01' = Freed(projet01), projet02' = Freed(projet02)
  PROVE  Compared'
<1>1. /\ stage = "idle" /\ memory # NULL /\ memory' = NULL
      /\ open' = open /\ err' = err /\ fault' = fault
  BY DEF Frees
<1>2. ASSUME NEW m \in Memories, NEW opened \in BOOLEAN, NEW code \in Codes,
             NEW r, r = Result(m, opened, code)
      PROVE  Freed(r) = Result(NULL, opened, code)
  <2>1. r # NULL
    BY <1>2, NotFollowedAssumption DEF Result
  <2>2. r.open = opened /\ r.err = code
    BY <1>2 DEF Result
  <2> QED
    BY <2>1, <2>2 DEF Freed
<1>3. fault \notin {"capacity", "location"} => projet02' = Done'
  <2> SUFFICES ASSUME projet02 = Done PROVE projet02' = Done'
    BY <1>1 DEF Compared
  <2>1. open \in BOOLEAN /\ err \in Codes /\ memory \in Memories
    BY DEF IInv, TypeOK, Codes, Loading
  <2>2. Freed(projet02) = Result(NULL, open, err)
    BY <1>2, <2>1 DEF Done
  <2> QED
    BY <1>1, <2>2 DEF Done
<1>4. fault \in {"capacity", "location"} =>
        \E code \in Codes : projet02' = handle_exit_error_in(code)
  <2> SUFFICES ASSUME NEW code \in Codes, projet02 = handle_exit_error_in(code)
               PROVE  projet02' = handle_exit_error_in(code)
    BY <1>1 DEF Compared
  <2>1. Freed(projet02) = Result(NULL, FALSE, code)
    BY <1>2 DEF handle_exit_error_in, Memories
  <2> QED
    BY <2>1 DEF handle_exit_error_in
<1>5. fault \in {"none", "cut", "misread"} =>
        \E opened \in BOOLEAN : projet01' = Result(memory', opened, "ERR_NONE")
  <2> SUFFICES ASSUME NEW opened \in BOOLEAN, projet01 = Result(memory, opened, "ERR_NONE")
               PROVE  projet01' = Result(memory', opened, "ERR_NONE")
    BY <1>1 DEF Compared
  <2> QED
    BY <1>1, <1>2 DEF Loading, Codes
<1>6. fault # "bounds"
  BY <1>1 DEF Compared
<1> QED
  BY <1>1, <1>3, <1>4, <1>5, <1>6 DEF Compared

ReleasesInv == IInv /\ Loading /\ Compared

LEMMA StepIsNext == [ReleasesNext]_releases => [Next]_vars
  BY DEF ReleasesNext, releases, Next

LEMMA ReleasesStep == ReleasesInv /\ [ReleasesNext]_releases => ReleasesInv'
<1> SUFFICES ASSUME ReleasesInv, [ReleasesNext]_releases PROVE ReleasesInv'
  OBVIOUS
<1>1. IInv' /\ Loading'
  BY StepIsNext, NextInv, LoadingStep DEF ReleasesInv
<1>2. Compared'
  <2>1. CASE Dumping /\ Dumps1 /\ Dumps2
    BY <2>1, DumpsCompared
  <2>2. CASE /\ NotOpened
             /\ projet01' = NULL /\ projet02' = handle_exit_error_in("ERR_BAD_PARAMETER")
    <3>1. fault' = "open" /\ err' = "ERR_BAD_PARAMETER" /\ handle_exit_error
      BY <2>2 DEF NotOpened, Returns
    <3> QED
      BY <2>2, <3>1, ExitIsDone DEF Compared
  <2>3. CASE \E d \in Descriptions : Opens(d) /\ UNCHANGED << projet01, projet02 >>
    BY <2>3 DEF Opens, Continues, Compared
  <2>4. CASE (Proceeds \/ Faults) /\ stage' # "idle" /\ UNCHANGED << projet01, projet02 >>
    BY <2>4 DEF Compared
  <2>5. CASE (Proceeds \/ Faults) /\ stage' = "idle" /\ Describes1 /\ Describes2
    BY <2>5, LoadsCompared DEF ReleasesInv
  <2>6. CASE Frees /\ projet01' = Freed(projet01) /\ projet02' = Freed(projet02)
    BY <2>6, FreesCompared DEF ReleasesInv
  <2>7. CASE UNCHANGED releases
    BY <2>7 DEF releases, vars, ReleasesInv, Compared, Done
  <2> QED
    BY <2>1, <2>2, <2>3, <2>4, <2>5, <2>6, <2>7 DEF ReleasesNext
<1> QED
  BY <1>1, <1>2 DEF ReleasesInv

LEMMA ReleasesStart == ReleasesInit => ReleasesInv
<1> SUFFICES ASSUME ReleasesInit PROVE ReleasesInv
  OBVIOUS
<1>1. IInv /\ Loading
  BY InitInv DEF ReleasesInit, Init, Loading, Memories
<1>2. Compared
  BY DEF ReleasesInit, Init, Nothing, Compared, Done
<1> QED
  BY <1>1, <1>2 DEF ReleasesInv

(***************************************************************************)
(* Every load gives the same in the second release, and in the first when  *)
(* it meets no error; a page that does not fit costs the first release     *)
(* that page only.                                                         *)
(***************************************************************************)
THEOREM ReleasesLoadAlike == ReleasesSpec => []SameLoads
<1>1. ReleasesInv => SameLoads
  <2> SUFFICES ASSUME ReleasesInv, stage = "idle"
               PROVE  /\ fault \notin {"capacity", "location"} => projet02 = Done
                      /\ ~ projet02.open
                      /\ projet02.err # "ERR_NONE" => projet02.memory = NULL
                      /\ fault \in {"none", "cut", "misread"} =>
                           projet01.memory = memory /\ projet01.err = "ERR_NONE"
                      /\ fault = "bounds" /\ projet01 # NULL =>
                           \A i \in DOMAIN desc.data :
                             LET frame == page_walk(projet01.memory, desc.data[i].vaddr)
                             IN  frame \in DOMAIN projet01.memory =>
                                   projet01.memory[frame] = desc.data[i].page
    BY DEF SameLoads
  <2>1. Compared /\ CleansUp
    BY DEF ReleasesInv, IInv
  <2>2. ~ projet02.open /\ (projet02.err # "ERR_NONE" => projet02.memory = NULL)
    <3>1. CASE fault \in {"capacity", "location"}
      BY <2>1, <3>1 DEF Compared, handle_exit_error_in, Result
    <3>2. CASE fault \notin {"capacity", "location"}
      BY <2>1, <3>2 DEF Compared, CleansUp, Done, Result
    <3> QED
      BY <3>1, <3>2
  <2>3. fault \in {"none", "cut", "misread"} =>
          projet01.memory = memory /\ projet01.err = "ERR_NONE"
    BY <2>1 DEF Compared, Result
  <2>4. ASSUME fault = "bounds", projet01 # NULL, NEW i \in DOMAIN desc.data,
               page_walk(projet01.memory, desc.data[i].vaddr) \in DOMAIN projet01.memory
        PROVE  projet01.memory[page_walk(projet01.memory, desc.data[i].vaddr)]
                 = desc.data[i].page
    <3> DEFINE m == Placed(desc, Len(desc.tables), Len(desc.data))
    <3>1. desc \in Descriptions /\ WalksInside(desc) /\ projet01.memory = m
      BY <2>1, <2>4 DEF Compared, Result
    <3>2. /\ i \in 1 .. Len(desc.data) /\ Len(desc.data) \in 0 .. Len(desc.data)
          /\ Len(desc.tables) \in 0 .. Len(desc.tables)
      BY <3>1, <2>4, Described, AsWritten DEF Regular
    <3>3. page_walk(m, desc.data[i].vaddr) = FrameOf(desc, i)
      BY <2>4, <3>1, <3>2, PlacedLeads, AsWritten DEF WalksInside
    <3>4. Holding(desc, Len(desc.tables), Len(desc.data), m)
      BY <3>1, <3>2, PlacedHolds, AsWritten
    <3> HIDE DEF m
    <3>5. FrameOf(desc, i) \in 0 .. desc.capacity - 1
      BY <2>4, <3>1, <3>3, <3>4 DEF Holding
    <3> QED
      BY <3>1, <3>2, <3>3, <3>4, <3>5 DEF Holding
  <2> QED
    BY <2>1, <2>2, <2>3, <2>4 DEF Compared
<1> QED
  BY <1>1, ReleasesStart, ReleasesStep, PTL DEF ReleasesSpec

(***************************************************************************)
(* What is done in all releases at once is, for the last one, what         *)
(* MemoryLoad says: the theorems about it hold of the three together.      *)
(***************************************************************************)
THEOREM ReleasesAreLoads == ReleasesSpec => Spec
<1>1. ReleasesInit => Init
  BY DEF ReleasesInit
<1> QED
  BY <1>1, StepIsNext, PTL DEF ReleasesSpec, Spec

=============================================================================
