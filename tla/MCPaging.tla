------------------------------ MODULE MCPaging ------------------------------
(* Page tables of two umaps and, on amd64, two CPUs.                       *)
EXTENDS Paging, TLC

(* A page near the start of the first slot and one near the end of the    *)
(* last: every level of the walk lies between them.                        *)
FarApart == [a \in Archs |-> {1, Slots * Fan ^ (IF a = "pae32" THEN 2 ELSE 3) - 2}]

Symmetry == Permutations(Umap)

ASSUME PagingConstants
=============================================================================
