---------------------------- MODULE CacheClient -----------------------------
(***************************************************************************)
(* A caller of the cache hierarchy (execute_command of test-cache.c): each *)
(* call with its address, the error code it gets and the word or byte that *)
(* the output parameter receives.                                          *)
(***************************************************************************)
EXTENDS CacheHierarchy

VARIABLE ret

Memory == INSTANCE FlatMemory WITH mem <- mem_space

cvars == << vars, ret >>

ClientInit == Init /\ ret = Memory!Returned(Memory!Nothing, Memory!Nothing)

ReadWord(access, a) ==
  CacheRead(access, a) /\ ret' = Memory!Returned(a, WordRead(access, a))
ReadByte(access, a) ==
  CacheReadByte(access, a) /\ ret' = Memory!Returned(a, << ByteRead(access, a) >>)
WriteWord(a, word) ==
  CacheWrite(a, word) /\ ret' = Memory!Returned(a, Memory!Nothing)
WriteByte(a, byte) ==
  CacheWriteByte(a, byte) /\ ret' = Memory!Returned(a, Memory!Nothing)
Refused(a) == Misaligned(a) /\ ret' = Memory!BadParameter(a)
Flushed(type) == CacheFlush(type) /\ ret' = Memory!Returned(Memory!Nothing, Memory!Nothing)

ClientNext ==
  \/ \E access \in Accesses, a \in Address : ReadWord(access, a)
  \/ \E access \in Accesses, a \in Address : ReadByte(access, a)
  \/ \E a \in StoreAddress, word \in WriteWords : WriteWord(a, word)
  \/ \E a \in StoreAddress, byte \in WriteBytes : WriteByte(a, byte)
  \/ \E a \in Address : Refused(a)
  \/ \E type \in Flushes : Flushed(type)

ClientSpec == ClientInit /\ [][ClientNext]_cvars

(* A program of data accesses that flushes nothing but level 2, and whose  *)
(* blocks agree on the level-2 index when they agree on the level-1 index. *)
AlignedProgram ==
  /\ Accesses \subseteq {DATA}
  /\ Flushes \subseteq {L2_CACHE}
  /\ \A b, c \in Blocks : L1Index(b) = L1Index(c) => L2Index(b) = L2Index(c)

(* Every load returns what the memory holds at its address, every store    *)
(* changes exactly its word or byte: the caches cannot be told from a flat *)
(* memory, call by call and address by address.  The code keeps this       *)
(* promise for an aligned program; in general it does not                  *)
(* (StoreChangesOneWord).                                                  *)
ActsAsFlatMemory == Memory!Spec

=============================================================================
