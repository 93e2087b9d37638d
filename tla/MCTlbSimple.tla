---------------------------- MODULE MCTlbSimple -----------------------------
(* Every page has a frame of its own.                                      *)
EXTENDS TlbSimpleReleases

MCPageTable == [p \in Pages |-> p + 1000]
MCFrames    == {0} \cup {MCPageTable[p] : p \in Pages}

=============================================================================
