---------------------------- MODULE MCMemoryLoad ----------------------------
(***************************************************************************)
(* Translation pages named for their level and data pages named D..: a     *)
(* walk goes from "pgd" to "pud", "pmd" and one of two "pte" pages.  The   *)
(* descriptions put each page on a frame of its own, as page tables do;    *)
(* the first two differ in the order of their lines, the third has a data  *)
(* page behind the end of its memory, the fourth a table besides, and the  *)
(* fifth a table that its data page needs; the last has a single table and *)
(* no data.                                                                *)
(***************************************************************************)
EXTENDS MemoryReleases

Indices == 0 .. 2

MCPages == {"zeros", "pgd", "pud", "pmd", "pteA", "pteB", "D1", "D2", "D3"}

MCEntry == [p \in MCPages |-> [i \in Indices |->
  CASE p = "pgd"  -> 3
    [] p = "pud"  -> 1
    [] p = "pmd"  -> IF i = 0 THEN 2 ELSE 4
    [] p = "pteA" -> IF i = 2 THEN 9 ELSE 5 + i
    [] p = "pteB" -> 7
    [] OTHER      -> 0]]

Table(frame, page)  == [frame |-> frame, page |-> page]
Data(pmd, pte, page) ==
  [page  |-> page,
   vaddr |-> [pgd_entry |-> 1, pud_entry |-> 2, pmd_entry |-> pmd, pte_entry |-> pte]]

Tables == << Table(3, "pud"), Table(1, "pmd"), Table(2, "pteA"), Table(4, "pteB") >>

Description(data, capacity, tables) ==
  [data |-> data, capacity |-> capacity, pgd |-> "pgd", tables |-> tables]

MCDescriptions ==
  { Description(<< Data(0, 0, "D1"), Data(0, 1, "D2"), Data(1, 2, "D3") >>, 8, Tables),
    Description(<< Data(1, 0, "D1"), Data(0, 0, "D2") >>, 8,
                << Tables[4], Tables[2], Tables[3], Tables[1] >>),
    Description(<< Data(0, 0, "D1"), Data(0, 2, "D2") >>, 8, Tables),
    Description(<< Data(0, 0, "D1") >>, 4, Tables),
    Description(<< Data(1, 2, "D3") >>, 4, Tables),
    Description(<< >>, 2, << Table(1, "pud") >>) }

MCDumps == {[f \in 0 .. 1 |-> IF f = 0 THEN "pgd" ELSE "D1"]}

=============================================================================
