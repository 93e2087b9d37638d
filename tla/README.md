# A model of the TLB and cache simulator

The program in `src/done` simulates the memory system of a small processor: it
loads a memory image, reads a program (a list of loads and stores), translates
virtual addresses through TLBs and a page walker, and runs the accesses through
two levels of caches. This directory holds TLA+ modules of it, the TLC runs
that check them and proofs that TLAPS checks. `src/grading` keeps two earlier
releases of the same program, `projet01` and `projet02`; where their code
differs from `src/done` it is modelled too, and driven with the same calls.
(The `commands.c` of `projet02` does not differ but for some literals; it is
modelled a second time, a call as one function, to check the steps of the first
model against it.)

The program is sequential: no threads, no callbacks that run later, nothing
persistent. What is hard in it is state: two levels of caches that exchange
entries in the middle of a call, ages that several calls share, copies of the
same data in five places, TLBs that must forget a page at the right moment, a
linked list rewired by hand. The question is always what a *long* sequence of
legal calls leads to, and that is what the models enumerate.

## Inventory

| Part | State | Operations | What makes it correct |
|---|---|---|---|
| Cache hierarchy (`cache_mng.c`, `cache.h`) | L1 I-cache, L1 D-cache, shared L2, the memory | `cache_read`, `cache_read_byte`, `cache_write`, `cache_write_byte`, `cache_flush`; inside: hit, insert, evict, move from L2 to L1 | loads return what the memory holds; a store changes one word; exclusion of L1 and L2; victims of L1 and nothing else enter L2 |
| Replacement (`lru.h`) | an age per way | `LRU_age_increase`, `LRU_age_update` | the ages order the ways by last use |
| TLB hierarchy (`tlb_hrchy_mng.c`) | L1 ITLB, L1 DTLB, L2 TLB, direct mapped | `tlb_search`, `tlb_flush`; inside: hit, insert, invalidate | answers agree with the page table; L2 includes L1; the other TLB loses no more than needed |
| Simple TLB (`tlb_mng.c`) | 128 lines and a list of line indices | `tlb_search`, `tlb_flush` | LRU replacement, answers agree with the page table |
| Linked list (`list.c`) | nodes on the heap, `front`, `back` | push, pop, `move_back`, `clear_list` | both directions agree, no leak, a deque |
| Page walk (`page_walk.c`) | none (reads the memory) | `page_walk` | the translation the four tables describe |
| Addresses (`addr_mng.c`) | none | conversions between numbers, bit fields and page numbers | conversions invert each other; no two pages share a number |
| Memory loading (`memory.c`) | the image being built, open files | load from a dump, load from a description | on an error nothing stays allocated or open, `*memory` is NULL |
| Programs (`commands.c`) | a growing array of commands | init, add, shrink, read, print, free | size, capacity and array in step; only well-formed commands; what is printed can be read |
| Drivers (`test-*.c`) | all of the above | set up, then one operation per command | flush before use; every command executed |
| Earlier releases (`grading/*/done`) | as above, their own code | as above | each does what the last one does, except where the last one repairs it |

How they interact: a driver loads memory and program, flushes the TLBs or
caches and then, per command, calls `tlb_search` (TLB drivers) or `page_walk`
and one of the cache operations (`test-cache.c`). A TLB miss calls `page_walk`,
which reads the same memory that the caches write. `tlb_mng.c` reaches its list
through the function pointers of `replacement_policy_t`.

## Modules

* **CacheSet** - one index of a set-associative cache as a function from ways
  to entries, and what `lru.h` and the way loops of `cache_mng.c` do to it.
  Operators only. **CacheSet_proofs** has lemmas about them.
* **CacheHierarchy** (extends CacheSet) - the three caches and the memory; one
  action per public call. The internal functions are operators on a record of
  the memory, the level-1 cache of the access, and level 2, composed in the
  order of the calls in the code.
* **CacheReplacement** - maps the ages of level 1 to **LruLists**, an abstract
  least-recently-used list per index. **CacheHierarchy_proofs** has the proofs
  about types, the shape of level 1 and its replacement.
* **CacheHistory** - the hierarchy with two history variables: the lines each
  block has held, and the order of arrival in level 2.
  **CacheContents_proofs** has the proofs about which copies a call moves
  between the levels, drops and brings in.
* **CacheClient** (extends CacheHierarchy) - the same with the error code and
  the value that each call returns; shown to implement **FlatMemory**, a memory
  without caches. **CacheContents_proofs** has that proof and the one of
  exclusion, too.
* **TlbHierarchy** - the three TLBs; one action per outcome of `tlb_search`.
  **TlbHierarchy_proofs** has the proofs of it, of TlbReleases and of TlbAccess.
* **TlbHierarchyProjet02** - the TLBs of the second release as operators, macro
  by macro; **TlbReleases** (extends TlbHierarchy) gives both the same calls.
* **Addresses** - `addr_mng.c`: the fields of a virtual address, the checks and
  the conversions, for any widths. Operators only.
* **TlbAccess** (extends TlbReleases and Addresses) - the loop of the TLB
  driver: an address is split into fields, its page number searched for, and a
  miss walks through translation pages (PageWalk).
* **NodeList** - the linked list with its pointers; shown to implement
  **Deque**. **NodeList_proofs** has the proofs.
* **ListProjet01**, **ListProjet02** - the lists of the earlier releases, one
  operator per function, store by store; **ListReleases** (extends NodeList)
  gives all three the same calls and the same answers of `malloc`.
  NodeList_proofs is about it, too.
* **TlbSimple** - `tlb_mng.c` on top of an instance of NodeList, with the
  policy its driver builds; shown to implement LruLists. **TlbSimple_proofs**
  has that proof and the others about it.
* **TlbProjet01**, **TlbProjet02** - the simple TLBs of the earlier releases on
  their own lists; **TlbSimpleReleases** (extends TlbSimple) drives all three.
  TlbSimple_proofs is about it, too.
* **Program** - `program_t` under additions, growth, shrinking and failing
  allocations, one action per step of its loops; shown to implement
  **CommandList**.
* **ProgramRead** (extends Program) - `program_read` of a file, line by line,
  with the operations of Program as its steps. **Program_proofs** has the proofs
  of both.
* **CommandText** - the text of a program: `readCommand` and what it calls on
  words, and `program_print`. Operators only.
* **CommandsProjet01**, **CommandsProjet02** - `commands.c` of the earlier
  releases, a call as one operator; **ProgramReleases** (extends ProgramRead)
  reads texts in place of abstract lines and gives all three releases the same
  calls, texts and failures. Program_proofs is about it, too.
* **PageWalk** - the walk through four translation pages. Operators only.
* **MemoryLoad** (extends PageWalk) - the two loaders of the memory; data pages
  go where a walk through the tables loaded so far says. **MemoryLoad_proofs**
  has the proofs.
* **MemoryReleases** (extends MemoryLoad) - what the loaders of the earlier
  releases return for the same files and faults. MemoryLoad_proofs is about it, too.
* **MCCaches**, **MCClient**, **MCHistory**, **MCTlbHierarchy**,
  **MCTlbSimple**, **MCProgram**, **MCMemoryLoad** give the constants values for
  TLC.

### How state and actions correspond to the code

* `l1_cache[access][index][way]` is the entry at that index and way of
  `l1_icache` or `l1_dcache`. A valid entry has the fields of the C struct. Of
  an entry with `v = 0` the code reads only `v` and `age`, so the model forgets
  its tag and data.
* A physical address is `[block, word, byte]`: `block` is the address without
  the bits for word and byte. `L1Index`, `L1Tag`, `L2Index`, `L2Tag` and
  `recomputeOldPhyAddr` are the shifts and remainders of the macros on it, for
  any numbers of lines.
* `cache_hit` is `hit_way` (the search, which stops at the first invalid way)
  followed by `TouchL1`/`TouchL2` (its age update). A byte store is a word read
  and a word write, as in the code.
* Error codes for NULL pointers and invalid enumerators are left out: no caller
  passes them. The one argument check that the drivers' data can fail, word
  alignment, is `Misaligned`. `evict` returns NULL only if no way is valid, and
  it is only called on a full index. `cache_read` drops the error code of
  `search_in_memory_and_affect` (cache_mng.c:564); with valid arguments there
  is none to drop.
* In TlbHierarchy an address is its virtual page number, and `PageTable` is
  what `page_walk` computes. It is total: the walker masks the page bits before
  `init_phy_addr`, whose checks then cannot fail. It is constant: no TLB driver
  writes the memory. TlbAccess has the addresses and the walk themselves, and
  MCTlbHierarchy computes `PageTable` by that walk.
* In Addresses a number is a natural number, a mask a remainder and a shift a
  division. The disjunction of the fields is a sum, because they do not overlap.
* A search of the simple TLB on a list that could not be filled at all is
  refused (`Refused`); one that was filled in part is an LRU list of fewer lines.
* The graded releases act in one step, when the call of `src/done` returns; what
  the three are given - words, the node `malloc` returns, the size of the block
  that is refused - is the same. A loop of theirs is a function of the number of
  rounds it has made, defined up to the most it can make; so are the loops of
  `program_print` and of the reading of a text (`Parsed`). The first release
  drops error codes and does not check pointers: ProgramReleases follows it
  until it stores through a null listing or its lines become others,
  MemoryReleases as long as what it does is defined: in `Describes1` a page
  that cannot be read ends that, and so does a table that does not fit when the
  walk to a data page needs it (`WalksInside`), which would read behind the
  memory. What a failing `fgets` leaves in the buffer of a name is taken to be
  the same in the three.
* In CommandText a word is its letters, the value of its digits, the number of
  its characters and what ends it; the end of the file is a word of one
  character, as in the code. Of an address it keeps the page offset, which is
  what `program_add_command` looks at.
* `buffer[*s] = 0` after an address that fills the buffer (commands.c:390)
  writes the byte behind it. Where that is depends on the build: `PastBuffer`
  says, for the frames of `handleRead` and `handleWrite`, whether it is the low
  byte of the size of the word (`"size"`: the size becomes 0, and `isHexString`
  up to `*s - 1`, the greatest `size_t`, refuses the line) or nothing that is
  read again (`"unused"`: padding, or the low byte of a stack protector, which is 0
  already). Two named assumptions: the three releases are built with the same
  frames, and there is no other neighbour (a build in which the byte belongs to
  a saved register or a return address is left out).
* In NodeList `heap` maps the allocated addresses to nodes; a step that used a
  freed node would have no value and stop TLC. A failing `malloc` is the action
  `push_fails`. Freed addresses may be returned again by the next push.
* In Program sizes are in commands, where the code multiplies and divides by
  `sizeof(command_t)`. The null listing is the function without elements: no
  listing has none, because `program_shrink` never cuts to nothing. The check
  that `nb_lines` commands do not overflow a `size_t` is left out; it would be
  one more way for `program_resize` to fail.
* In ProgramRead a line is a command or `Malformed`, whatever is wrong with its
  text; ProgramReleases gets the lines from the text (`Parsed`). A failing
  `fgetc` may strike before a line, in it or after the last; in ProgramReleases,
  after any of its words.
* In MemoryLoad a page is the unit that is read, placed and walked through, and
  page addresses are multiples of the page size. `fault` records what went
  wrong in the last call, only for the properties to tell the cases apart.
  The clean-up of `page_file_read` and the one of its caller are two steps,
  with the stage `"exit"` between them. The name of a translation page is read by
  an `fgets` whose result is not tested (memory.c:272). When it fails, the
  buffer, in the same place of the frame in every round of the loop, has the
  name of the round before, and in the first round any name (`LeftoverPages`):
  that page is placed (`TableMisread`), after which the stream is at its end
  (stage `"ended"`): the next line has no frame (`LocationMissing`), and after
  the last table the load returns without an error (`MisreadReturns`). Named
  assumptions: a stream that has failed once fails again, and a read that fails
  within a name leaves one that cannot be opened, or the one before. A frame
  that does not fit is refused before its file is opened, with whatever name.
  The name of the page directory is read in the same way, but the number of
  tables, which is read next, is tested (`PgdLineBad`). The descriptions of
  MCMemoryLoad put each page on a frame of its own and their tables point inside
  the memory, as page tables do; in two of them a table does not fit, and one of
  those two has a data page whose walk needs it. A walk outside the memory would
  stop TLC.
* Definitions whose comment begins with "As if" are deliberate mistakes, one or
  more per checked property. They are used nowhere; each property was seen to
  fail when the mistake replaces the definition it is named after.

## Runs

| Run | Question | Bounds |
|---|---|---|
| `CacheData` | shape and ages of the level-1 sets (`L1LruStacks`), do they implement LRU (`L1IsLru`), where victims go (`VictimsGoToL2`), what enters level 2 (`OnlyVictimsEnterL2`), what a load after a store gets (`StoreThenLoad`) | L1 2x2, L2 4x2 ways; three blocks on one L2 index and one on another, all on one L1 index; three of them stored to; DATA flushes |
| `CacheAligned` | is it transparent, with word and byte stores, when L1 and L2 indices agree and only level 2 is flushed? | five blocks on one L1 and one L2 index, two bytes per word |
| `CacheGenuine` | can a copy be torn or misfiled? | both accesses, word and byte stores, flushes of DATA and L2, one L1 way |
| `CacheExclusive` | is level 2 exclusive? | counterexample |
| `CacheLostStore` | does a store change one word? | two words per line; counterexample |
| `CacheL2Lru` | does level 2 evict the least recently used? | three L2 ways; counterexample |
| `TlbHierarchy` | types, agreement with the page table, inclusion, answers, what an invalidation may take; does an address get the frame a walk over its own fields gives (`AddressesAreTranslated`); does the eviction of the second release change an answer (`SameAnswers`)? | the real 16 and 64 lines; fields of two bits, an offset of one; six pages, five of them colliding, one at two addresses |
| `TlbSimple` | LRU (`TlbIsLru`) and right answers through the list, also when it could not be filled; the same in all releases (`SameTlb`) | 3 lines, 5 pages, any push failing |
| `NodeList` | both directions, leaks, deque; the same pointers in all releases (`SameList`) | 5 nodes, 2 values |
| `Program` | does the array stay in step with its counters (`ListingFits`), is it a list (`IsCommandList`), what does it hold after a read that succeeds or fails (`NothingSkipped`, `ReadsTheFile`), what stays open, do the calls return (`AllReturn`)? Is the second release the same in one step (`ActsAsProjet02`), does the first differ without an error (`AgreesWithProjet01`)? Can what is printed be read (`ReadsWhatItPrints`)? | initial size 1, up to four lines, so doublings from it and from a shrunk size; texts of up to three lines, the last one or the first of two a fetch or a store that is good, refused, cut, too wide for a word, or blank, with short addresses and addresses that fill the buffer; behind the buffer of `handleRead` the size, behind that of `handleWrite` padding; a byte store above 255 |
| `MemoryLoad` | who owns the block (`OwnsItsBlock`), what a call leaves behind (`CleansUp`), where the pages are, termination; are the loads of the releases the same (`SameLoads`)? | six descriptions of up to nine lines, one dump; a fault of every kind at every line; loads repeat |
| `MemoryErrors` | is `*memory` NULL after an error? | counterexample |

Why the bounds are enough for the questions. Blocks with different level-1
indices never meet: level-2 indices refine level-1 indices, so a set of blocks
that share a level-1 index is the whole story of that index. Level-1 index 1
of 2 is used, so that a lost index or tag bit is visible. Two level-1 ways are
the fewest in which age updates, victims and hits in the middle differ; two or
three level-2 ways the fewest with holes in front of valid entries; five blocks
overflow both levels at once. All data that could be confused differ: every
block starts with its own value and stores write one that no block starts with.
The simple TLB has fewer lines than pages, and every order of its list is
reached. No run needs a state constraint; all state spaces are explored
completely, and no run turns off the deadlock check.

### What the runs show

The level-1 caches are right: whatever the calls, an index is a stack whose
valid ways come first with distinct tags and ages 0..n-1, it implements LRU, its
victims reach level 2 intact and under their own address, and a load after a
store sees it. A data program whose blocks map alike in both levels and that
flushes nothing but level 2 cannot tell the caches from a memory. No copy is ever torn
or filed under a wrong block; so a block that is never stored to is read right
by any program (`CopiesAreGenuine`).

Four promises of the comments are not kept, and the runs give the
shortest ways there:

1. **Exclusion** (`CacheExclusive`; cache.h:56-66). `cache_hit` takes the first
   invalid way of an index for the end of its entries (cache_mng.c:135). A move
   from level 2 to level 1 leaves an invalid way anywhere (cache_mng.c:456).
   A valid block behind that hole is missed, fetched from the memory again, and
   is then in both levels.
2. **Lost stores** (`CacheLostStore`; cache_mng.c:670, cache.h:43). The copy
   that stayed in level 2 goes stale with the next store, and becomes visible
   once the hole is filled. A store to another word of its line then writes the
   whole stale line back (cache_mng.c:651), and the earlier store is gone.
3. **LRU in level 2** (`CacheL2Lru`; cache_mng.c:333). Filling a hole counts as
   a cold start and ages everyone (lru.h:13); ages saturate and tie, and `evict`
   takes the highest way among equals.
4. **NULL on error** (`MemoryErrors`; memory.c:269, memory.h:66). A frame
   number that cannot be read ends the load without `handle_exit_error`: the
   memory stays allocated, `*memory` is not NULL and the file stays open. An
   unreadable capacity (memory.c:252) also leaves the file open. The second
   release does neither (`SameLoads`): it does not look at what `fscanf`
   returns, and trips over the next character instead, which it does clean up.

Two more mistakes of the code have no run of their own, because what they lead
to is part of a property that holds:

* **A buffer without a place for the 0** (`ReadsWhatItPrints`; commands.c:390,
  commands.c:230-232). The buffer has the 20 characters of an address of 16
  digits with its newline, and `handle_virt_addr` puts a 0 behind them: out of
  bounds. Every address that `program_print` writes is as long, so a printed
  program is read back or not as the frame of the reader is laid out.
* **A load without an error and without a table** (`LoadsTheDescription`,
  `SameLoads`; memory.c:272, memory.c:236). When the name of the last table
  cannot be read, the buffer still has the name of the table before (or, if
  there is none, whatever it held): that page is loaded once more, the loop over
  the data is not entered because the stream is at its end, and the load returns
  `ERR_NONE` without the table and without any data. The two earlier releases do
  the same; the grader's comment "missing error handling of reading
  pageLocation" is in the first one, at grading/projet01/done/memory.c:284.

`Exclusive` appears in two runs: it holds in `CacheAligned`, where every block
that leaves level 1 refills the hole its predecessor's move has just made, and
fails in `CacheExclusive`, where it goes to another index. A flush of level 1
alone breaks it too: the next move finds no victim to fill its hole.

Also seen, and harmless: the macro `invalidate` does not compare the two tag
bits that it shifts out with the line, so it may drop an entry whose page is
still in level 2; inclusion only gets safer.

The releases. They write the pointers of `move_back` in the same order, and
that order comes to the list that NodeList says, also when the nodes coincide;
where they differ, in how a list is cleared and what is tested before, the lists
stay the same. The second release evicts
from the other level-1 TLB on every hit in level 2, which its grader marked; it
costs entries and never an answer, because level 2 still has the page. The
second release of `commands.c` is the code of the last one: that the two models
agree, failures included, checks the one that goes step by step.
The first release differs as soon as anything fails, since it drops the error
codes; a call that succeeds in `src/done` neither crashes it nor changes what it
holds. The first loader leaves out a page that does not fit and places the
others; without a fault, and with a description cut short or misread, its memory
is the same.

Printing and reading meet at two bounds at once: an address is printed with 16
digits, which with `@0x` and the newline is exactly `MAX_SIZE_BUFFER` and
`VIRT_ADDR_MAX_LENGTH`, and a byte with two, which with `0x` is exactly
`WRITE_DATA_MIN_LENGTH`. The reader takes both, and its 0 behind the address
does not fit: what is printed is read back up to the first line whose reader
loses the size of the word to it (`ReadsWhatItPrints`), which in a build with
padding there is no line.

Four more differences between code and comments are in the models as the code
has them, without a run of their own: a byte to be stored is accepted up to
`BYTE_MAX`, 32767 (commands.c:206, against its message); the 101st command is
added by growing the program (commands.c:214, against commands.c:195); a
program file that cannot be opened is `ERR_BAD_PARAMETER` (commands.c:467,
against commands.c:459); and a read error among the data pages looks like the
end of the description, so the load succeeds with a part of them (memory.c:293;
`DataCut`).

Programs and memories are otherwise right: the listing always has the size that
its counters say and the store of a new command stays inside it, no line is
lost, changed or read twice by growth, shrinking or a failure, and a read that
fails keeps exactly the lines before the failure. (The stream is closed on every
return but one: after a failing `fgetc`, commands.c:482 has no `fclose`, and
`ClosesFile` leaves that return out.) A block of memory is freed
once, although both clean-ups free it, and after a load without an error whose
tables were read every virtual page that was read walks to its data, the lines
before a read error included.

### Fairness and liveness

There is no concurrency and no waiting in this code, and a caller need never
make another call. The cache, TLB and list modules have one action per call and
state no fairness. The three modules whose calls are several steps assume weak
fairness of the steps that carry a call on (`Proceeds`, `ReadProceeds`): the
processor runs on. ProgramReleases and MemoryReleases assume the same of the
same steps: what they add is a function of the step and never blocks it. No fairness is assumed of calls, and none of failures: a
call must end though `malloc`, `realloc` and the streams never fail. Under it
`AllReturn` and `LoadReturns` say that the loops end: the doubling loop of `program_add_command` (from an allocation of 0 it would not),
the `while` of `program_shrink`, and the reading loops.

## Proofs

TLC looks at small instances; the theorems hold for every value of the
constants. Each of the eight proof modules follows one argument.

### Level 1: types, stacks, replacement (`CacheSet_proofs`, `CacheHierarchy_proofs`)

For every number of lines, ways, words and bytes, every set of blocks and every
mix of calls and flushes: `TypeOK` (`TypeCorrect`), `L1LruStacks`
(`StacksAreLru`), `StoreThenLoad` (`StoresAreServed`) and `L1IsLru`
(`LevelOneIsLru`). Assumptions: the sizes are at least 1, blocks are natural
numbers, the words and bytes stored are words and bytes.

The inductive invariant `AllKept` says of both hierarchies (one per level-1
cache) that the record of memory, level 1 and level 2 has its type and that
every level-1 index is a stack: the n valid ways first, tags of their own, ages
that rank them, the invalid ways n old. Types and shape need each other. That
an insertion keeps tags apart rests on the miss before it being final
(`MissIsFinal`), which is so only in a stack, because the scan stops at the
first invalid way; that ages stay in range when an entry is placed on a victim's
way rests on the types. `CacheSet_proofs` takes the operators of one index in
turn: the searches find what they claim (`HitWay`, `EmptySlot`, `Evict`, from
the existence of least and greatest elements), the two age macros change only
ages and keep them in range (`AgeUpdate`, `AgeIncrease`), a touched stack is a
stack (`TouchedStack`), an insertion on a stack with room is a stack of one
more, on a full one a stack again (`InsertedStack`), and the next lookup finds
what was inserted (`InsertedHit`). `CacheHierarchy_proofs` lifts them to the
internal functions in the order of the calls, one lemma each; `NextKept` has one
step per action. Level 2 has no such invariant: a move leaves an invalid way
anywhere in an index, whence the first three differences above.

`LevelOneIsLru` is the refinement of LruLists. The list of an index is the
sequence of its blocks in the order of their ages, defined by a CHOOSE for each
age; that it is a sequence at all is a pigeonhole argument (`AgeTaken`: n
different ages below n take every value), and `ByAgeIs` characterises it by what
the ways say. `LRU_age_update` is then a use of the block it touches
(`TouchedList`), and an insertion a use of a block that was absent
(`InsertedList`), on a full index at the cost of the last. A store of a byte is
two passes over the hierarchy and still one use (`UsedTwice`).

### Between the levels (`CacheContents_proofs`)

Under the same assumptions: `VictimsGoToL2` (`VictimsAreKept`),
`OnlyVictimsEnterL2` (`OnlyVictimsEnter`) and `CopiesAreGenuine`
(`CopiesGenuine`). The lemmas describe a call as what it does to the relation
"this level holds a copy of block c with line x" (`Holds1`, `Holds2`), whatever
way it is in: `VictimsKept`, `OnlyVictims`, `BroughtIn`. That a block has one
index and one tag per level and is recomputed from them (`SameBlock`,
`BlockRecomputed`, `BlockOfL2Recomputed`) is all that is needed of the two
geometries; the first two theorems need `AllKept` and no more. `CopiesGenuine`
has the inductive invariant `AllGenuine`: every copy is a line that its block has
held, *and so is the line in the memory*, since a miss copies the memory, and a
store writes back the line that it found.

### A flat memory (`CacheContents_proofs`)

`Exclusive` (`LevelsExclusive`) and `ActsAsFlatMemory` (`FlatMemoryImplemented`)
are proved for every geometry and every *aligned* program (`AlignedProgram`: data
accesses only, no flush of a level-1 cache, blocks of one level-1 index have one
level-2 index). `CacheExclusive` and `CacheLostStore` show that both are false of
other programs; the run `CacheAligned` is such a program, so the hypothesis is
not empty. The inductive invariant `AllFlat` adds to `AllKept`, for the data cache
with the memory and level 2:

* `Coherent` - every copy is the line that the memory has;
* `Disjoint` - no block is in both levels;
* `FullAbove` - where level 2 holds a block, the level-1 index of it is full;
* `Level2Ordered` - in level 2, too, the valid ways come first.

They hold each other up. `Disjoint` needs misses in level 2 to be final, hence
`Level2Ordered`. A move breaks that order by the hole that it leaves;
`FullAbove` says that the move then pushes a victim out, alignment that the
victim goes to the very index with the hole, and that the first empty slot is
the hole. With `Disjoint`, a store cannot leave a second copy behind, which is
`Coherent`; and a load that returns a coherent line returns the memory.

### The TLB hierarchy (`TlbHierarchy_proofs`)

For every set of pages, frames and every page table: `TypeOK` (`TypeCorrect`),
`TranslationsAgree` (`TranslationsAreRight`), `Inclusion` (`InclusionHolds`),
`SearchIsCorrect` (`SearchesAreRight`), `OtherTlbKept` (`OtherTlbIsKept`), and of
TlbReleases `SameAnswers` (`ReleasesAnswerAlike`). Assumptions: pages are
natural numbers, the page table maps pages to frames, frame 0 exists (flushed
entries hold it), and level 2 is not flushed while level 1 is in use (the drivers
flush all three TLBs together, before the first search).

The inductive invariant is the conjunction of the first three.
`TranslationsAgree` is not inductive alone: a hit in level 2 copies a frame into
level 1, and that it is the frame of *this* page follows from tag and line
determining the page, which needs the types. `Inclusion` is the interesting
one. In a walk, the only page that leaves level 2 is the one on the line of the
new page. If the other level-1 TLB holds it, it holds it on the level-1 line of
the new page (`PageSplit`: equal remainders by 64 give equal remainders by 16)
and its level-1 tag without the two low bits is the level-2 tag that was
overwritten (`PageJoin`), so `invalidate` drops it; the TLB of the access itself
overwrites that line with the new page. One lemma per action (`HitL2Step`,
`WalkStep`, `FlushStep`) has one step per conjunct.

The two releases side by side have the invariant `BothInv`: that of the last
release, the types of the second, and `SameAnswers` itself - equal second levels,
and a level 1 that holds what the last release holds or nothing, line by line.
It is inductive because an extra eviction only invalidates.

For the driver's loop, `AddressesAreTranslated` (`AccessesAreTranslated`) is
proved for all widths of the fields, and that a run of the loop is a run of the
two releases side by side (`AccessesAreSearches`), from which it takes that a
search returns the frame of the page it is given. What is left is arithmetic.
The prover has no theory of a power whose exponent is a constant; that powers
are positive and that 2^(a+b) is 2^a times 2^b are proved by counting subsets
(`PowerPositive`, `PowerAdds`). A field is then an address divided by one power
and reduced by the next; dividing twice is dividing once (`CutTwice`), so the
fields of an address are those of the first address of its page
(`EntriesOfPage`), and the walk reads nothing else (`WalkOfPage`). Assumptions:
the page numbers of the addresses used are among the pages, and the page table
says of each page what the walk from its first address finds.

### The simple TLB (`TlbSimple_proofs`)

For every number of lines above 0, every set of pages and every page table, and
however often `malloc` fails while the list is filled: `TypeOK` (`TypeCorrect`),
`SearchIsCorrect` (`SearchesAreRight`) and `TlbIsLru` (`LruReplacement`).
Assumptions: pages are natural numbers, the nodes are finitely many and NULL is
none of them.

What a call does to the list is taken from NodeList_proofs through an instance
of it. The inductive invariant `TlbInv` says that some sequence of nodes
represents the list, that the values of its nodes are lines, each line once, and
below the counter while the list is filled; that the lines not yet used are in
front of those in use; that each page has one line in use; that its frame is the
one of the page table; and that no line is in use before the list is filled. The
third is what LRU rests on: the miss takes the front of the list, which is an
unused line as long as there is one, so nothing is lost before the TLB is full.
Read from the back, the lines in use are the abstract list: since `move_back`
takes the node of a hit or of the victim to the end, a search is a use of its
page (`SearchIsUse`).

`SameTlb` (`ReleasesKeepOneTlb`) is proved with the invariant `TlbInv` and
`SameTlb` itself. The lists of the earlier releases do what NodeList_proofs says
of them; what is left is the loop of `tlb_hit`, which they write in two other
ways. `Loop1` and `Loop2` give the state of each after so many rounds, and
`LoopsTake` how many there are: up to the page's line, or through the whole
list. On the way no index is a line that does not exist (`NoBadIndex`), which
is where the releases would answer differently. `ReleasesAreTlbs` says that a
run of the three is a run of TlbSimple, so the others hold of it as well.
Further assumption: NULL is no list.

### The linked list (`NodeList_proofs`)

For every finite set of addresses and every set of values: `TypeOK`
(`TypeCorrect`), `SameBothWays` (`ReadsBothWays`), `NothingLeaks`
(`NothingIsLost`) and `IsDeque` (`ImplementsDeque`). Assumption: there are
finitely many addresses and NULL is none.

The inductive invariant `ListInv` says that the heap is *represented* by some
sequence of different nodes (`Represents`): it has all of them, `front` and `back`
are its ends, and the two links of each are its neighbours or NULL. There is a
lemma per function that names the sequence after the call (`PushBackStep` to
`ClearStep`; `move_back` takes the j-th node to the end). The properties are about
walks, `Chain`, a recursive function on the numbers up to the number of
addresses. That the k-th node of a walk is the k-th of the sequence is an
induction; the induction theorems of the library cannot be used, so `ChainOf`
takes the least k at which the walk goes wrong (`LeastElement`, from the library's
theorem on well-founded relations), and that it ends in time is
`DistinctIsShort`: no sequence of different nodes is longer than there are nodes.

`SameList` (`ReleasesKeepOneList`) has the invariant that the three lists are
equal and represented. NodeList has a call as one assignment, the earlier
releases as its stores; a lemma per function (`PushBackSame` to `MoveBackSame`)
follows the stores one by one and distinguishes where the nodes they go to
coincide. Their clearing loops free the nodes from the front, the one of the
second release after unlinking them; that the k-th round has freed k nodes of
the sequence is shown at the least round where it is not (`SameRounds`).
`ReleasesAreLists` says that a run of the three is a run of NodeList. Further
assumption: NULL is no list.

### Programs (`Program_proofs`)

For every initial allocation above 0, every set of commands and every length:
`TypeOK` (`TypeCorrect`), `ListingFits` (`LinesFit`) and `IsCommandList`
(`ProgramIsCommandList`). The inductive invariant is `TypeOK` with `ListingFits`.
They need each other: a command is stored at `nb_lines` inside the block only if
the block has `allocated` elements, and doubling keeps the block from losing lines
only because `nb_lines <= allocated`. `ResizeFits` says what a resize does to a
listing that fits, `LinesAppended` that a store at `nb_lines` appends to the
lines. `StepSimulation` maps each step to a step of CommandList or to a stutter.

The same holds while files are read, for every set of files
(`ReadKeepsListing`, `ReadIsCommandList`), and `NothingSkipped` (`NoLineSkipped`),
`ClosesFile` (`StreamClosed`) and `ReadsTheFile` (`FileIsRead`). `ReadInv` adds to
the invariant of the program that a read which has come to the cut has no line
left, and `NothingSkipped` itself: the lines held, the one being added and the
rest of the file are the file. Every step of a read is one of the program or
leaves it alone (`ReadActsOnProgram`), so the invariant of the program comes for
free.

Of texts, `ReadsWhatItPrints` (`PrintedIsReadBack`) and `ActsAsProjet02`
(`ReleasesActAlike`) are proved, and that a run of the releases on texts is a run
of ProgramRead on lines, its fairness included (`ReleasesAreReads`), so that all
of the above holds of it. Further assumptions: the words of a text are words,
what `readCommand` makes of each text is among the files (`TextsAssumption`), and
the data of a command are below `WORD_VALUES` (`WordsAssumption`), as a `word_t`
is.

`CommandIsRead` says which words `readCommand` takes: those of a fetch (`IsFetch`)
or of a store (`IsStore`), if the reader keeps the size of the address, and
nothing else succeeds. `CommandIsPrinted` says that what `program_print` writes
of an accepted command is one of the two, with that command in it; this is where
the two bounds are used. A text is then parsed by rounds, each of which takes
one command from a printed program (`PrintIsParsed`), up to a line whose reader
loses the size. What it needs of the program is `LinesAccepted`: nothing but
commands that `program_add_command` accepts gets into it. The theorem is for
every `PastBuffer` (`PastBufferAssumption`).

`ActsAsProjet02` compares steps with a call that is computed in one piece when
they are over, and so with a choice - which request of the allocator or which
read fails - that is made only then. The invariant `ReleaseInv` therefore speaks
of every choice that is still open. While a command is being added, the call of
the second release gets to the present program first, whatever request not yet
made is going to be refused (`AddedLater`). While a text is being read, the same
is so for every such request *and every text that begins with the words read so
far* (`RunsAlike`): a text cut by a read error is one of these. `Unasked` says
which requests these are: those that are made later are larger than all that
were granted, because an allocation is doubled only when it is full
(2 `nb_lines` is above `allocated` from then on); the request of the shrink may
be smaller than the allocation, but only above half of it, and so it has not
been made before. The text itself is followed by `TextRead`: after as many
rounds of the parser as lines were read, it has these lines and the words left.
`ShrunkFrom` covers the shrink. There is a lemma per action
(`CannotOpenAlike` to `StoresReadAlike`); the loops of the second release are
rounds, of which the ones that are left are the same from the same state
(`GrownSteps`, `AtNext`, `StopsAtEnd`).

### Loading a memory (`MemoryLoad_proofs`)

For every set of descriptions and dumps and every fault at every line:
`TypeOK` (`TypeCorrect`), `OwnsItsBlock` (`BlockIsOwned`), `CleansUp`
(`CallsCleanUp`) and `LoadsTheDescription` (`DescriptionIsLoaded`). The first
three need of the constants only their types and that NULL is no description and
no memory. Their inductive invariant adds `UnderWay`: a call that is under way
reads the lines of its description and, from the page directory on, holds a
block; between the two clean-ups of a page it may have none. The fourth is about
descriptions as page tables are (`DescriptionsAssumption`): there is a table,
each page has a frame of its own, and the walks to the
data pages stay in the tables. Its invariant `Placing` follows the lines that
have been read: what is left is the end of the list (`RestOf`), the pages read
are on their frames, and the data pages are where the *complete* tables send
them (`FrameOf`), which a walk in the memory being built finds because it agrees
with the tables on every frame a walk touches (`SameWalk`), and because a data
page goes to no such frame. A page placed under the name of another line is what
`Leftover` says it is: the page of the table before (`MisreadPlaced`).

`SameLoads` (`ReleasesLoadAlike`) compares a load line by line with loops that
run through a whole description at the end of it. What they share is
`Placed(d, n, k)`, the memory that has the first n tables and the first k data
pages of d, given in one piece, page by page. Every loop of the earlier releases
is at `Placed` after as many rounds (`TablesOfIs`, `UncheckedIs`, `MemInitIs`),
and so is the load of `src/done` after as many lines (`Loading`). A load that
ends with a misread name is the load of another description (`Misread`): without
data, and with the page that was found for its last table; it is `Regular` as
the others are (`Described`), which is all that the loops ask of it. `Compared`
says what each release has returned when a call is over; the checked loader
stops at the same line as the last one because it makes the same test on the
same memory (`CheckedStops`). `ReleasesAreLoads` says that a run of the three is
a run of MemoryLoad, its fairness included. Further assumption
(`NotFollowedAssumption`): NULL, which stands for a release that is no longer
followed, is no result.

### What is model-checked only

* Everything temporal beyond safety: `AllReturn`, `LoadReturns` (liveness under
  fairness is out of the prover's reach).
* `AgreesWithProjet01`: the first release of `commands.c` goes on after errors
  with a text that it has lost step with, so that a proof would have to follow
  what it makes of the words in the middle of a command. The theorems about
  ProgramReleases leave it open whether that release is still followed.

## Not modelled yet, and the plan

**Driver**: one program run from loading to freeing, TLBs, walks and caches
together, with termination under weak fairness of its loop.

Of the earlier releases `projet02/done/cache_mng.c` is left out: it is a draft
without its header, whose byte reads and stores are stubs, and no driver calls
it. Files of theirs that do what those of `src/done` do (`addr_mng.c`,
`page_walk.c`, `lru.h`, the drivers) are not modelled twice; `src/provided` is
what the course gave to start from and is contained in `src/done`.

Left out for good: dumping and the output of the drivers (`cache_dump`,
`print_virtual_address`, `vmem_page_dump_with_options`), argument parsing of the
drivers, the unit tests, `bits_util.c` (copies of the masks of `addr_mng.c` that
nothing includes) and the error macros.
