--------------------------- MODULE CacheHierarchy ---------------------------
(***************************************************************************)
(* The two-level cache hierarchy of cache_mng.c: an instruction and a data *)
(* level-1 cache and one shared level-2 cache in front of the memory,      *)
(* "write-through, write-allocate, exclusive" (cache.h).                   *)
(*                                                                         *)
(* A physical address is a record of the block it lies in (the address     *)
(* without its low bits for the word and the byte, the one thing that      *)
(* indexes and tags are computed from), the word in the block and the byte *)
(* in the word.  The data-page contents are opaque: a word is a function   *)
(* from byte positions to Byte.                                            *)
(*                                                                         *)
(* The library is sequential: one call runs from entry to return, so one   *)
(* action is one call, with everything it does to the memory and the three *)
(* caches.  Calls come in any order with any arguments, as the public      *)
(* functions of cache_mng.h allow.                                         *)
(*                                                                         *)
(* A definition whose comment begins with "As if" is a deliberate mistake, *)
(* used nowhere: the properties are seen to fail when it takes the place   *)
(* of the definition it is made after.                                     *)
(***************************************************************************)
EXTENDS CacheSet

CONSTANTS
  L1_LINES, L1_WAYS,   \* L1_ICACHE and L1_DCACHE have the same geometry
  L2_LINES, L2_WAYS,
  WORDS_PER_LINE,      \* the same for the three caches
  WORD_BYTES,          \* sizeof(word_t)
  Blocks,              \* the memory blocks the program touches
  Byte,                \* byte values
  Accesses,            \* the kinds of read the program makes
  Flushes,             \* the caches it flushes after the start
  StoreBlocks,         \* the blocks it stores to
  WriteWords,          \* the words it stores with cache_write
  WriteBytes,          \* the bytes it stores with cache_write_byte
  InitialMemory        \* what mem_init_from_* loaded

INSTRUCTION == "INSTRUCTION"
DATA        == "DATA"
L2_CACHE    == "L2_CACHE"

WordIndices == 0 .. WORDS_PER_LINE - 1
ByteIndices == 0 .. WORD_BYTES - 1
Word        == [ByteIndices -> Byte]
Line        == [WordIndices -> Word]
Address     == [block : Blocks, word : WordIndices, byte : ByteIndices]
StoreAddress == {a \in Address : a.block \in StoreBlocks}

ASSUME GeometryAssumption ==
  /\ L1_LINES \in Nat \ {0} /\ L1_WAYS \in Nat \ {0}
  /\ L2_LINES \in Nat \ {0} /\ L2_WAYS \in Nat \ {0}
  /\ WORDS_PER_LINE \in Nat \ {0} /\ WORD_BYTES \in Nat \ {0}

ASSUME ProgramAssumption ==
  /\ Blocks \subseteq Nat
  /\ Accesses \subseteq {INSTRUCTION, DATA}
  /\ Flushes \subseteq {INSTRUCTION, DATA, L2_CACHE}
  /\ StoreBlocks \subseteq Blocks
  /\ WriteWords \subseteq Word
  /\ WriteBytes \subseteq Byte
  /\ InitialMemory \in [Blocks -> Line]

VARIABLES
  mem_space,  \* block -> line
  l1_cache,   \* l1_cache[INSTRUCTION] is l1_icache, l1_cache[DATA] l1_dcache
  l2_cache

vars == << mem_space, l1_cache, l2_cache >>

L1Indices == 0 .. L1_LINES - 1
L2Indices == 0 .. L2_LINES - 1
L1Ways    == 0 .. L1_WAYS - 1
L2Ways    == 0 .. L2_WAYS - 1

(* extract_line_index and the tag shift, for the two geometries.           *)
L1Index(b) == b % L1_LINES
L1Tag(b)   == b \div L1_LINES
L2Index(b) == b % L2_LINES
L2Tag(b)   == b \div L2_LINES

(* As if the address were recomputed without the index.                    *)
recomputeOldPhyAddr_tag_only(tag, index) == tag * L1_LINES

(* The block that an entry of a level-1 cache holds, from its tag and the  *)
(* index it sits at; BlockOfL2 is the same for level 2 (no code needs it). *)
recomputeOldPhyAddr(tag, index) == tag * L1_LINES + index
BlockOfL2(tag, index)           == tag * L2_LINES + index

-----------------------------------------------------------------------------
(***************************************************************************)
(* The internal functions.  They work on a record h of the memory, the     *)
(* level-1 cache l1[access] that the call was given and the level-2 cache. *)
(***************************************************************************)
insert_level2(l2, block, line) ==
  [l2 EXCEPT ![L2Index(block)] = insert(@, L2_WAYS, L2Tag(block), line)]

(* As if the entry that leaves level 1 were dropped.                       *)
insert_level1_dropping(h, block, line) ==
  [h EXCEPT !.l1[L1Index(block)] = insert(@, L1_WAYS, L1Tag(block), line)]

(* When the index is full the oldest entry leaves for level 2, under the   *)
(* address recomputed from its tag.  evict cannot fail on a full index.    *)
insert_level1(h, block, line) ==
  LET index  == L1Index(block)
      set    == h.l1[index]
      victim == set[evict(set)]
  IN  [h EXCEPT !.l1[index] = insert(set, L1_WAYS, L1Tag(block), line),
                !.l2 = IF isFull(set)
                         THEN insert_level2(@,
                                 recomputeOldPhyAddr(victim.tag, index),
                                 victim.line)
                         ELSE @]

(* As if the entry stayed valid in level 2.                                *)
move_entry_to_level1_by_copy(h, block, way) ==
  insert_level1(h, block, h.l2[L2Index(block)][way].line)

(* The level-2 entry is invalidated before the entry goes to level 1.      *)
move_entry_to_level1(h, block, way) ==
  LET index == L2Index(block)
  IN  insert_level1([h EXCEPT !.l2[index][way] = Invalidated(@)],
                    block, h.l2[index][way].line)

L1Hit(h, block) == hit_way(h.l1[L1Index(block)], L1Tag(block))
L2Hit(h, block) == hit_way(h.l2[L2Index(block)], L2Tag(block))

(* As if a hit in level 1 left the ages alone.                             *)
TouchL1_not(h, block) == h

(* cache_hit makes the entry it finds the youngest of its index.           *)
TouchL1(h, block) ==
  [h EXCEPT !.l1[L1Index(block)] = LRU_age_update(@, L1Hit(h, block))]
TouchL2(h, block) ==
  [h EXCEPT !.l2[L2Index(block)] = LRU_age_update(@, L2Hit(h, block))]

(* The line that a call for this block works on: from level 1, else from   *)
(* level 2, else from the memory.                                          *)
LineServed(h, block) ==
  CASE L1Hit(h, block) # HIT_WAY_MISS ->
         h.l1[L1Index(block)][L1Hit(h, block)].line
    [] L1Hit(h, block) = HIT_WAY_MISS /\ L2Hit(h, block) # HIT_WAY_MISS ->
         h.l2[L2Index(block)][L2Hit(h, block)].line
    [] OTHER -> h.mem[block]

(* As if a block from the memory went to level 2 as well.                  *)
cache_read_filling_both(h, block) ==
  CASE L1Hit(h, block) # HIT_WAY_MISS -> TouchL1(h, block)
    [] L1Hit(h, block) = HIT_WAY_MISS /\ L2Hit(h, block) # HIT_WAY_MISS ->
         move_entry_to_level1(TouchL2(h, block), block, L2Hit(h, block))
    [] OTHER -> insert_level1([h EXCEPT !.l2 =
                                 insert_level2(@, block, h.mem[block])],
                              block, h.mem[block])

cache_read(h, block) ==
  CASE L1Hit(h, block) # HIT_WAY_MISS -> TouchL1(h, block)
    [] L1Hit(h, block) = HIT_WAY_MISS /\ L2Hit(h, block) # HIT_WAY_MISS ->
         move_entry_to_level1(TouchL2(h, block), block, L2Hit(h, block))
    [] OTHER -> insert_level1(h, block, h.mem[block])

(* set_word_and_write_back: the WHOLE line goes to the memory.             *)
set_word(line, w, word)      == [line EXCEPT ![w] = word]
write_memory(h, block, line) == [h EXCEPT !.mem[block] = line]

(* read_modifyLine_insert_updateAges_writeBackInMemory on a hit, by level. *)
RewriteL1(h, block, line) ==
  write_memory([TouchL1(h, block) EXCEPT
                  !.l1[L1Index(block)][L1Hit(h, block)].line = line],
               block, line)
(* As if only the memory received the new word, and the entry did not.     *)
RewriteL2_memory_only(h, block, line) ==
  write_memory(TouchL2(h, block), block, line)

RewriteL2(h, block, line) ==
  write_memory([TouchL2(h, block) EXCEPT
                  !.l2[L2Index(block)][L2Hit(h, block)].line = line],
               block, line)

cache_write(h, block, w, word) ==
  LET line == set_word(LineServed(h, block), w, word)
  IN  CASE L1Hit(h, block) # HIT_WAY_MISS -> RewriteL1(h, block, line)
        [] L1Hit(h, block) = HIT_WAY_MISS /\ L2Hit(h, block) # HIT_WAY_MISS ->
             move_entry_to_level1(RewriteL2(h, block, line), block,
                                  L2Hit(h, block))
        [] OTHER -> insert_level1(write_memory(h, block, line), block, line)

-----------------------------------------------------------------------------
Hierarchy(access) ==
  [mem |-> mem_space, l1 |-> l1_cache[access], l2 |-> l2_cache]

(* The call with this kind of access leaves the hierarchy h behind.        *)
Becomes(access, h) ==
  /\ mem_space' = h.mem
  /\ l1_cache'  = [l1_cache EXCEPT ![access] = h.l1]
  /\ l2_cache'  = h.l2

EmptyL1 == [i \in L1Indices |-> [w \in L1Ways |-> EmptyEntry]]
EmptyL2 == [i \in L2Indices |-> [w \in L2Ways |-> EmptyEntry]]

(* A loaded memory and three flushed caches, as test-cache.c sets them up. *)
Init ==
  /\ mem_space = InitialMemory
  /\ l1_cache  = [access \in {INSTRUCTION, DATA} |-> EmptyL1]
  /\ l2_cache  = EmptyL2

(* What the output parameter of a read receives.                           *)
WordRead(access, a) == LineServed(Hierarchy(access), a.block)[a.word]
ByteRead(access, a) == WordRead(access, a)[a.byte]

(* cache_read, on an address that is a multiple of the word size.          *)
CacheRead(access, a) ==
  /\ a.byte = 0
  /\ Becomes(access, cache_read(Hierarchy(access), a.block))

(* cache_read_byte reads the word around the byte.                         *)
CacheReadByte(access, a) ==
  Becomes(access, cache_read(Hierarchy(access), a.block))

(* cache_write; every data store goes through the data cache.              *)
CacheWrite(a, word) ==
  /\ a.byte = 0
  /\ Becomes(DATA, cache_write(Hierarchy(DATA), a.block, a.word, word))

(* cache_write_byte is a cache_read of the word, then a cache_write of the *)
(* word with the byte replaced: two passes over the hierarchy.             *)
CacheWriteByte(a, byte) ==
  Becomes(DATA,
    cache_write(cache_read(Hierarchy(DATA), a.block), a.block, a.word,
                [WordRead(DATA, a) EXCEPT ![a.byte] = byte]))

(* cache_read and cache_write refuse an address that is not a multiple of  *)
(* the word size before they look at the caches: ERR_BAD_PARAMETER.        *)
Misaligned(a) ==
  /\ a.byte # 0
  /\ UNCHANGED vars

(* cache_flush, on l1_icache, l1_dcache or l2_cache.                       *)
CacheFlush(type) ==
  /\ l1_cache' = [access \in DOMAIN l1_cache |->
                    IF access = type THEN EmptyL1 ELSE l1_cache[access]]
  /\ l2_cache' = IF type = L2_CACHE THEN EmptyL2 ELSE l2_cache
  /\ UNCHANGED mem_space

Next ==
  \/ \E access \in Accesses, a \in Address : CacheRead(access, a)
  \/ \E access \in Accesses, a \in Address : CacheReadByte(access, a)
  \/ \E a \in StoreAddress, word \in WriteWords : CacheWrite(a, word)
  \/ \E a \in StoreAddress, byte \in WriteBytes : CacheWriteByte(a, byte)
  \/ \E a \in Address : Misaligned(a)
  \/ \E type \in Flushes : CacheFlush(type)

Spec == Init /\ [][Next]_vars

-----------------------------------------------------------------------------
(***************************************************************************)
(* Properties.                                                             *)
(***************************************************************************)

Entry(maxAge) ==
  [v : {TRUE}, age : 0 .. maxAge, tag : Nat, line : Line]
    \cup [v : {FALSE}, age : 0 .. maxAge, tag : {NoTag}, line : {NoLine}]

(* The types of cache.h: an age fits its bit field and never exceeds the   *)
(* number of ways less one, valid entries hold a line.                     *)
TypeOK ==
  /\ mem_space \in [Blocks -> Line]
  /\ l1_cache \in [{INSTRUCTION, DATA} ->
                     [L1Indices -> [L1Ways -> Entry(L1_WAYS - 1)]]]
  /\ l2_cache \in [L2Indices -> [L2Ways -> Entry(L2_WAYS - 1)]]

(* A set whose valid ways come first, with no tag twice and with ages that *)
(* rank the n valid entries 0 .. n-1 (the invalid ones all being n "old"). *)
IsLruStack(set) ==
  \E n \in 0 .. L1_WAYS : \A w \in L1Ways :
    /\ set[w].v <=> w < n
    /\ set[w].age < n <=> w < n
    /\ w >= n => set[w].age = n
    /\ \A x \in L1Ways : w < n /\ x < n /\ x # w =>
         set[x].tag # set[w].tag /\ set[x].age # set[w].age

(* cache_hit stops at the first invalid way, and LRU_age_increase also     *)
(* ages invalid entries: a level-1 lookup finds every valid entry under    *)
(* its tag, and an eviction picks the true LRU entry, only because the     *)
(* index is kept in this shape by every read, write and byte store.        *)
L1LruStacks ==
  \A access \in {INSTRUCTION, DATA}, i \in L1Indices :
    IsLruStack(l1_cache[access][i])

(* The copies that a cache holds, as pairs of a block and a line.          *)
CopiesIn(set, tag, b) ==
  {<< b, set[w].line >> : w \in {x \in DOMAIN set : set[x].v /\ set[x].tag = tag}}
L1Copies(access) ==
  UNION {CopiesIn(l1_cache[access][L1Index(b)], L1Tag(b), b) : b \in Blocks}
L2Copies ==
  UNION {CopiesIn(l2_cache[L2Index(b)], L2Tag(b), b) : b \in Blocks}

BlocksOf(copies) == {c[1] : c \in copies}

(* "If this causes a block to be evicted from L1, the evicted block is     *)
(* then placed into L2" (cache.h): a block that a call pushes out of level *)
(* 1 is in level 2 after the call, with the data it had, at the index and  *)
(* under the tag of its own address.                                       *)
VictimsGoToL2 ==
  [][\A access \in {INSTRUCTION, DATA} :
       CacheFlush(access) \/
         \A c \in L1Copies(access) :
           c[1] \in BlocksOf(L1Copies(access)') \/ c \in L2Copies']_vars

(* "This is the only way L2 gets populated" (cache.h): a copy that appears *)
(* in level 2 is one that a level-1 cache held and gave up in that call.   *)
OnlyVictimsEnterL2 ==
  [][\A c \in L2Copies' \ L2Copies :
       \E access \in {INSTRUCTION, DATA} :
         c \in L1Copies(access) \ L1Copies(access)']_vars

(* Write-through and write-allocate: after a store, whichever level the    *)
(* block was found in and whatever had to be evicted for it, the data      *)
(* cache serves the very line the memory holds, with the word in it.       *)
StoreThenLoad ==
  [][\A a \in StoreAddress, word \in WriteWords :
       CacheWrite(a, word) =>
         /\ LineServed(Hierarchy(DATA), a.block)' = mem_space'[a.block]
         /\ mem_space'[a.block][a.word] = word]_vars

(* "Change a word of data in the cache" (cache_write): a store changes the *)
(* word it is given and no other word of the memory.                       *)
StoreChangesOneWord ==
  [][\A a \in StoreAddress, word \in WriteWords :
       CacheWrite(a, word) =>
         mem_space' = [mem_space EXCEPT ![a.block][a.word] = word]]_vars

(* The exclusive policy of cache.h: "the cache block is moved from the L2  *)
(* cache to the L1 cache", "placed just in L1 and not in L2": no block is  *)
(* in level 2 while the level-1 cache of the program's accesses holds it.  *)
Exclusive ==
  \A access \in Accesses : BlocksOf(L1Copies(access)) \cap BlocksOf(L2Copies) = {}

=============================================================================
