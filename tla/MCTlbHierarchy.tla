--------------------------- MODULE MCTlbHierarchy ---------------------------
(***************************************************************************)
(* Entries of two bits and an offset of one.  Five pages that meet on line *)
(* 0 of the level-1 TLBs and, three and two, on lines 0 and 16 of the      *)
(* second level, and one that meets none of them.  They differ in one      *)
(* entry or two, so that each of the four entries tells two of them apart. *)
(* One more address differs from another in a reserved bit only.  The      *)
(* page at frame f is its number, and its words lead to the frames 4f + 1  *)
(* to 4f + 4: four levels of translation pages below frame 0, then a frame *)
(* for every page.                                                         *)
(***************************************************************************)
EXTENDS TlbAccess

MCAddresses == {2 * p : p \in {0, 16, 64, 80, 128}} \cup {512 + 2 * 16, 2 * 6 + 1}

MCMemory == [f \in 0 .. 84 |-> f]
MCWords  == [f \in 0 .. 84 |-> [i \in 0 .. 3 |-> 4 * f + i + 1]]

PageOf(a)   == virt_addr_t_to_virtual_page_number(init_virt_addr64(a))
MCPages     == {PageOf(a) : a \in MCAddresses}
MCPageTable == [p \in MCPages |->
  Walker!page_walk(MCMemory, init_virt_addr64(p * 2^PAGE_OFFSET))]
MCFrames    == {0} \cup {MCPageTable[p] : p \in MCPages}

=============================================================================
