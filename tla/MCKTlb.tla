------------------------------- MODULE MCKTlb -------------------------------
(* Small instances of KTlb: who does what on two CPUs, and the symmetry of *)
(* cache slots and frames (used by the runs that check no liveness).       *)
EXTENDS KTlb, TLC

CONSTANTS c1, c2

Roles(r1, r2) == [c \in CPU |-> IF c = c1 THEN r1 ELSE r2]

PfnsAndFlushes == Roles({"WALK", "PFN", "UPDATE"}, {"PFN", "TLBFLUSH"})
WalkAndCommit == Roles({"WALK"}, {"KMAP", "KMAPUPDATE"})
MapAndPfns == Roles({"WALK", "PFN", "KMAP", "UPDATE"}, {})

Symmetry == Permutations(Slot) \cup Permutations(Pfn)

=============================================================================
