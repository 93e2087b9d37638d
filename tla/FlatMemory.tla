----------------------------- MODULE FlatMemory -----------------------------
(***************************************************************************)
(* What a processor without caches sees: a load returns what the memory    *)
(* holds at its address, a store changes one word (or one byte), and an    *)
(* address that is not a multiple of the word size is refused.  This is    *)
(* the promise of cache_read, cache_read_byte, cache_write and             *)
(* cache_write_byte; module CacheClient says where the hierarchy keeps it. *)
(***************************************************************************)
CONSTANTS Address, StoreAddress, WriteWords, WriteBytes, InitialMemory

VARIABLES
  mem,  \* block -> word index -> word
  ret   \* the last call: its address, its error code, the word or byte returned

(* A byte is returned as a one-tuple, to tell it from a word.              *)
Nothing             == << >>
Returned(at, value) == [at |-> at, err |-> "ERR_NONE", value |-> value]
BadParameter(at)    == [at |-> at, err |-> "ERR_BAD_PARAMETER", value |-> Nothing]

Init ==
  /\ mem = InitialMemory
  /\ ret = Returned(Nothing, Nothing)

Load(a) ==
  /\ a.byte = 0
  /\ ret' = Returned(a, mem[a.block][a.word])
  /\ UNCHANGED mem

LoadByte(a) ==
  /\ ret' = Returned(a, << mem[a.block][a.word][a.byte] >>)
  /\ UNCHANGED mem

Store(a, word) ==
  /\ a.byte = 0
  /\ mem' = [mem EXCEPT ![a.block][a.word] = word]
  /\ ret' = Returned(a, Nothing)

StoreByte(a, byte) ==
  /\ mem' = [mem EXCEPT ![a.block][a.word][a.byte] = byte]
  /\ ret' = Returned(a, Nothing)

Refuse(a) ==
  /\ a.byte # 0
  /\ ret' = BadParameter(a)
  /\ UNCHANGED mem

Flush ==
  /\ ret' = Returned(Nothing, Nothing)
  /\ UNCHANGED mem

Next ==
  \/ \E a \in Address : Load(a) \/ LoadByte(a) \/ Refuse(a)
  \/ \E a \in StoreAddress, word \in WriteWords : Store(a, word)
  \/ \E a \in StoreAddress, byte \in WriteBytes : StoreByte(a, byte)
  \/ Flush

Spec == Init /\ [][Next]_<< mem, ret >>

=============================================================================
