------------------------------- MODULE MCHeap -------------------------------
(***************************************************************************)
(* Small instances of the kernel's allocators above pages: the KMEM heap,  *)
(* without and with trimming, kernel virtual addresses, and slabs.  Each   *)
(* is explored alone: part says which one runs, the others rest in Init.   *)
(***************************************************************************)
EXTENDS Slab, Zone

CONSTANTS Parts,
          Base, HeapLimit, TrimLimit, PG, UINT, Sizes, BrkTargets,  \* Kmem
          Pfn, None, kvabase, kvasize, KvaSizes  \* Kva

VARIABLES part,
          brk, maxbrk, kmem_trim, mapped, kmemz, head, tail, lockz, kpc, req, pze, own, fault,
          vmap_zone, vmap_rbtree, pte, kvapc, va, i, held, answer

(* A heap that is not trimmed, and one with trimming on whose two sides    *)
(* are kept a page apart.                                                  *)
H == INSTANCE Kmem WITH pc <- kpc, Limit <- HeapLimit, Modes <- {}, Trims <- {}, Gap <- 0
T == INSTANCE Kmem WITH pc <- kpc, Limit <- TrimLimit, BrkTargets <- {}, Modes <- {1},
                        Trims <- {1}, Gap <- PG
V == INSTANCE Kva WITH Sizes <- KvaSizes, pc <- kvapc

ASSUME H!KmemConstants /\ T!KmemConstants /\ V!KvaConstants

kmemVars == <<brk, maxbrk, kmem_trim, mapped, kmemz, head, tail, lockz, kpc, req, pze, own,
              fault>>
kvaVars == <<vmap_zone, vmap_rbtree, pte, kvapc, va, i, held, answer>>

InHeap(A) == part = "heap" /\ A /\ UNCHANGED <<part, kvaVars, vars>>
InTrim(A) == part = "trim" /\ A /\ UNCHANGED <<part, kvaVars, vars>>
InKva(A) == part = "kva" /\ A /\ UNCHANGED <<part, kmemVars, vars>>
InSlab(A) == part = "slab" /\ A /\ UNCHANGED <<part, kmemVars, kvaVars>>

MCInit ==
  /\ part \in Parts
  /\ IF part = "trim" THEN T!Init ELSE H!Init
  /\ V!Init
  /\ Init

HeapNext ==
  \E c \in CPU :
    \/ \E s \in H!Side : \/ \E n \in Sizes : InHeap(H!kmem_alloc(c, s, n))
                       \/ \E v \in BrkTargets : InHeap(H!kmem_brk(c, s, v))
    \/ \E b \in own : InHeap(H!kmem_free(c, b)) \/ InHeap(H!kmem_brkshrink(c, b))
    \/ InHeap(H!kmem_brkgrow(c)) \/ InHeap(H!zone_free(c))
    \/ InHeap(H!get_bounds(c)) \/ InHeap(H!get_prev(c)) \/ InHeap(H!zone_attach(c))

TrimNext ==
  \/ InTrim(T!halted)
  \/ \E c \in CPU :
       \/ \E s \in T!Side, n \in Sizes : InTrim(T!kmem_alloc(c, s, n))
       \/ \E b \in own : InTrim(T!kmem_free(c, b)) \/ InTrim(T!kmem_brkshrink(c, b))
       \/ InTrim(T!kmem_brkgrow(c)) \/ InTrim(T!zone_free(c))
       \/ InTrim(T!get_bounds(c)) \/ InTrim(T!get_prev(c)) \/ InTrim(T!zone_attach(c))
       \/ InTrim(T!kmem_trim_setmode(c, 1)) \/ InTrim(T!kmem_trim_one(c, 1))

KvaNext ==
  \E c \in CPU :
    \/ \E n \in KvaSizes, map \in BOOLEAN : InKva(V!kva_alloc(c, n, map))
    \/ \E p \in Pfn : InKva(V!kva_physmap(c, p))
    \/ \E r \in held[c] : InKva(V!kva_unmap(c, r))
    \/ InKva(V!kmap_unmap(c)) \/ InKva(V!kva_free(c))

SlabNext ==
  \/ \E c \in CPU :
       \/ InSlab(slab_alloc(c)) \/ InSlab(alloc_partial(c)) \/ InSlab(alloc_empty(c))
       \/ InSlab(alloc_none(c)) \/ InSlab(grow_alloc(c)) \/ InSlab(grow_add(c))
       \/ InSlab(slab_shrink(c)) \/ InSlab(shrink_take(c)) \/ InSlab(shrink_drop(c))
       \/ \E o \in owned : InSlab(slab_free(c, o))
  \/ InSlab(slab_deregister) \/ InSlab(halted)

MCNext == HeapNext \/ TrimNext \/ KvaNext \/ SlabNext
allVars == <<part, kmemVars, kvaVars, vars>>
MCSpec == MCInit /\ [][MCNext]_allVars

-----------------------------------------------------------------------------
(* The types of kmem.c's and kva.c's state.                                *)
TypesOK == (IF part = "trim" THEN T!TypeOK ELSE H!TypeOK) /\ V!TypeOK

(* kmem.c: a byte of the heap has one owner, and every value its type.     *)
OneOwner == TypesOK /\ (part = "heap" => H!OneOwner) /\ (part = "trim" => T!OneOwner)

(* kmem.c: the magics in free memory are the zone entries.                 *)
MagicIsEntry == (part = "heap" => H!MagicIsEntry) /\ (part = "trim" => T!MagicIsEntry)

(* kmem.c with trimming: memory outside the brks stays mapped.             *)
UsedMapped == part = "trim" => T!UsedMapped

(* kva.c: lists, bitmap, count and tree agree, and no two free ranges      *)
(* touch; kmem.c: freed neighbours of the high side become one entry.      *)
Coalesced ==
  /\ part = "kva" => V!Coalesced
  /\ (part = "heap" => H!HighCoalesced) /\ (part = "trim" => T!HighCoalesced)

(* kva.c: a range is free only once none of its pages is mapped.           *)
FreeUnmapped == part = "kva" => V!FreeUnmapped

(* kva.c: ranges are given out as VaPool promises.                         *)
Free(e) == e.addr .. e.addr + e.size - 1
Pool == INSTANCE VaPool
          WITH User <- CPU, Addr <- kvabase .. kvabase + kvasize - 1, Sizes <- KvaSizes,
               free <- IF part = "kva" THEN UNION {Free(e) : e \in vmap_rbtree}
                       ELSE kvabase .. kvabase + kvasize - 1,
               out <- [c \in CPU |-> {<<r.addr, r.size>> : r \in held[c]}
                         \cup IF va[c] = NULL THEN {} ELSE {<<va[c].addr, va[c].size>>}],
               answer <- answer
IsVaPool == Pool!Spec

Symmetry == Permutations(CPU)

=============================================================================
