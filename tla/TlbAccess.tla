------------------------------ MODULE TlbAccess -----------------------------
(***************************************************************************)
(* A TLB driver's access: the address of a command becomes the fields of a *)
(* virt_addr_t (Addresses), its page is searched for in the TLBs           *)
(* (TlbHierarchy), on a miss the fields lead the page walk (PageWalk)      *)
(* through the memory, and the frame and the offset make the physical      *)
(* address.                                                                *)
(***************************************************************************)
EXTENDS TlbReleases, Addresses

CONSTANTS
  VirtualAddresses,  \* the addresses of the program's commands
  Memory,            \* frames -> page contents, the translation pages
  Words              \* page contents -> index -> frame

Walker == INSTANCE PageWalk WITH Entry <- Words

(* PageTable is what page_walk computes from the entries of a page number. *)
ASSUME AddressesAssumption ==
  /\ VirtualAddresses \subseteq Nat
  /\ Frames \subseteq Nat
  /\ \A a \in VirtualAddresses :
       virt_addr_t_to_virtual_page_number(init_virt_addr64(a)) \in Pages
  /\ \A p \in Pages :
       PageTable[p] = Walker!page_walk(Memory, init_virt_addr64(p * 2^PAGE_OFFSET))

VARIABLES
  vaddr,  \* the address of the last search
  paddr   \* the physical address it returned

(* page_walk ends in init_phy_addr, on a frame whose low bits are cleared. *)
Walked(v) ==
  init_phy_addr(Walker!page_walk(Memory, v) * 2^PAGE_OFFSET, v.page_offset)

AccessInit ==
  /\ ReleasesInit
  /\ vaddr \in VirtualAddresses
  /\ paddr = Walked(init_virt_addr64(vaddr))

(* A frame number is shifted up to be given to init_phy_addr.              *)
SearchAddress(access, a) ==
  LET v == init_virt_addr64(a)
  IN  /\ IsVirtual(v)
      /\ BothSearch(access, virt_addr_t_to_virtual_page_number(v))
      /\ IsPhysical(answer'.phy_page_num * 2^PAGE_OFFSET, v.page_offset)
      /\ vaddr' = a
      /\ paddr' = init_phy_addr(answer'.phy_page_num * 2^PAGE_OFFSET, v.page_offset)

FlushTlb(access) == BothFlush(access) /\ UNCHANGED << vaddr, paddr >>

AccessNext ==
  \/ \E access \in Accesses, a \in VirtualAddresses : SearchAddress(access, a)
  \/ \E access \in Flushes : FlushTlb(access)

AccessSpec == AccessInit /\ [][AccessNext]_<< vars, second, vaddr, paddr >>

-----------------------------------------------------------------------------
(* An access gets the physical address that a walk over the fields of its  *)
(* own address gives, whichever TLB answers and whatever was searched      *)
(* before; and the fields are the address less its reserved bits ("the     *)
(* reciprocal of init_virt_addr64", addr_mng.c), so that no two pages      *)
(* share a page number.                                                    *)
AddressesAreTranslated ==
  LET v == init_virt_addr64(vaddr)
  IN  /\ virt_addr_t_to_uint64_t(v) = mask64(PGD_ENTRY_START + PGD_ENTRY, vaddr)
      /\ paddr = Walked(v)

=============================================================================
