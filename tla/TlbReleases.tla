----------------------------- MODULE TlbReleases ----------------------------
(***************************************************************************)
(* The TLB hierarchy of src/done and the one of its second graded release, *)
(* given the same calls.                                                   *)
(***************************************************************************)
EXTENDS TlbHierarchy

VARIABLE second  \* the three TLBs and the last answer of grading/projet02

Projet02 == INSTANCE TlbHierarchyProjet02 WITH walk <- LAMBDA p : PageTable[p]

ReleasesInit ==
  /\ Init
  /\ second = Projet02!Flushed(Accesses, answer)

BothSearch(access, p) ==
  /\ Search(access, p)
  /\ second' = Projet02!tlb_search(second, access, p)

BothFlush(access) ==
  /\ TlbFlush(access)
  /\ second' = Projet02!tlb_flush(second, access)

ReleasesNext ==
  \/ \E access \in Accesses, p \in Pages : BothSearch(access, p)
  \/ \E access \in Flushes : BothFlush(access)

ReleasesSpec == ReleasesInit /\ [][ReleasesNext]_<< vars, second >>

-----------------------------------------------------------------------------
(* The eviction that projet02 does on a hit in the second level, and that  *)
(* its grader marked as unwanted, costs it entries and nothing else: what  *)
(* its level-1 TLBs hold src/done holds as well, the second levels are the *)
(* same, and so is every answer, because the page of a lost entry is still *)
(* in the second level.                                                    *)
SameAnswers ==
  /\ second.answer = answer
  /\ second.l2 = l2_tlb
  /\ \A access \in Accesses, i \in L1Lines :
       second.l1[access][i].v => second.l1[access][i] = l1_tlb[access][i]

=============================================================================
