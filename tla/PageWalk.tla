------------------------------ MODULE PageWalk ------------------------------
(***************************************************************************)
(* page_walk: from a virtual page, given by its four 9-bit entries, to a   *)
(* page frame, by four dependent reads of translation pages that lie in    *)
(* the memory itself.  The memory is a function from frames to what a page *)
(* holds; Entry is the word at an index of a page, without the low twelve  *)
(* bits that page_walk masks off at the end, hence a frame.                *)
(***************************************************************************)
EXTENDS Naturals

CONSTANT Entry  \* page contents -> index -> frame

(* The page directory lies at the start of the memory.                     *)
START_PAGE_TABLE == 0

read_page_entry(mem, frame, index) == Entry[mem[frame]][index]

page_walk(mem, v) ==
  LET pud == read_page_entry(mem, START_PAGE_TABLE, v.pgd_entry)
      pmd == read_page_entry(mem, pud, v.pud_entry)
      pte == read_page_entry(mem, pmd, v.pmd_entry)
  IN  read_page_entry(mem, pte, v.pte_entry)

(* The frames of the four translation pages that a walk reads.             *)
walked(mem, v) ==
  LET pud == read_page_entry(mem, START_PAGE_TABLE, v.pgd_entry)
      pmd == read_page_entry(mem, pud, v.pud_entry)
      pte == read_page_entry(mem, pmd, v.pmd_entry)
  IN  {START_PAGE_TABLE, pud, pmd, pte}

=============================================================================
