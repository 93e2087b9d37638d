------------------------------ MODULE Addresses -----------------------------
(***************************************************************************)
(* addr_mng.c: virtual addresses as 64-bit numbers, as the fields of a     *)
(* virt_addr_t and as virtual page numbers, and physical addresses.        *)
(* Numbers are not negative.  The widths of the fields, in bits, are       *)
(* parameters: 9 for each of the four entries and 12 for the offset in     *)
(* addr.h.  A mask of size bits keeps a number's remainder by 2^size, and  *)
(* a shift to the right divides.                                           *)
(*                                                                         *)
(* A definition whose comment begins with "As if" is a deliberate mistake, *)
(* used nowhere: the properties are seen to fail when it takes the place   *)
(* of the definition it is made after.                                     *)
(***************************************************************************)
EXTENDS Naturals

CONSTANTS PGD_ENTRY, PUD_ENTRY, PMD_ENTRY, PTE_ENTRY, PAGE_OFFSET

ASSUME WidthsAssumption ==
  \A w \in {PGD_ENTRY, PUD_ENTRY, PMD_ENTRY, PTE_ENTRY, PAGE_OFFSET} : w \in Nat \ {0}

PTE_ENTRY_START == PAGE_OFFSET
PMD_ENTRY_START == PTE_ENTRY_START + PTE_ENTRY
PUD_ENTRY_START == PMD_ENTRY_START + PMD_ENTRY
PGD_ENTRY_START == PUD_ENTRY_START + PUD_ENTRY

mask64(size, x)             == x % 2^size
isOfSizeAsked32(size, test) == mask64(size, test) = test

(* What init_virt_addr and init_phy_addr accept.                           *)
IsVirtual(v) ==
  /\ isOfSizeAsked32(PGD_ENTRY, v.pgd_entry)
  /\ isOfSizeAsked32(PUD_ENTRY, v.pud_entry)
  /\ isOfSizeAsked32(PMD_ENTRY, v.pmd_entry)
  /\ isOfSizeAsked32(PTE_ENTRY, v.pte_entry)
  /\ isOfSizeAsked32(PAGE_OFFSET, v.page_offset)
IsPhysical(page_begin, page_offset) ==
  mask64(PAGE_OFFSET, page_begin) = 0 /\ isOfSizeAsked32(PAGE_OFFSET, page_offset)

(* The reserved bits above the fields are dropped.                         *)
init_virt_addr64(a) ==
  [pgd_entry   |-> mask64(PGD_ENTRY, a \div 2^PGD_ENTRY_START),
   pud_entry   |-> mask64(PUD_ENTRY, a \div 2^PUD_ENTRY_START),
   pmd_entry   |-> mask64(PMD_ENTRY, a \div 2^PMD_ENTRY_START),
   pte_entry   |-> mask64(PTE_ENTRY, a \div 2^PTE_ENTRY_START),
   page_offset |-> mask64(PAGE_OFFSET, a)]

(* As if the entries of the two lower levels overlapped by a bit.          *)
virt_addr_t_to_virtual_page_number_overlapping(v) ==
  (v.pgd_entry * 2^PGD_ENTRY_START + v.pud_entry * 2^PUD_ENTRY_START
     + v.pmd_entry * 2^(PMD_ENTRY_START - 1) + v.pte_entry * 2^PTE_ENTRY_START)
  \div 2^PAGE_OFFSET

(* The fields do not overlap, so that their disjunction is a sum.          *)
virt_addr_t_to_virtual_page_number(v) ==
  (v.pgd_entry * 2^PGD_ENTRY_START + v.pud_entry * 2^PUD_ENTRY_START
     + v.pmd_entry * 2^PMD_ENTRY_START + v.pte_entry * 2^PTE_ENTRY_START)
  \div 2^PAGE_OFFSET

virt_addr_t_to_uint64_t(v) ==
  virt_addr_t_to_virtual_page_number(v) * 2^PAGE_OFFSET + v.page_offset

init_phy_addr(page_begin, page_offset) ==
  [phy_page_num |-> page_begin \div 2^PAGE_OFFSET,
   page_offset  |-> mask64(PAGE_OFFSET, page_offset)]

=============================================================================
