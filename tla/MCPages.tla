------------------------------ MODULE MCPages -------------------------------
(***************************************************************************)
(* Small instances of the parts below the page tables: the red-black tree, *)
(* the S-tree, the PFN cache, and user mappings across CPUs.  In these     *)
(* models they share no state, so each is explored alone: part says which  *)
(* one runs, the others rest in Init.                                      *)
(***************************************************************************)
EXTENDS Umap, TLC

CONSTANTS Parts,
          Node, RootLink, Null, Key,          \* RbSet
          WORDLOG2, Order, Addr, NoResult,    \* Stree
          Slot, Address, Crowd                \* Cache

VARIABLES part,
          rbt, in,
          stree, result,
          numslots, map, freelist, addr, valid, ref, use, stop

R == INSTANCE RbSet
T == INSTANCE Stree
C == INSTANCE Cache WITH Node <- Slot

ASSUME R!RbConstants /\ T!StreeConstants /\ C!CacheConstants

rbVars == <<rbt, in>>
streeVars == <<stree, result>>
cacheVars == <<numslots, map, freelist, addr, valid, ref, use, stop>>

InRb(A) == part = "rb" /\ A /\ UNCHANGED <<part, streeVars, cacheVars, vars>>
InStree(A) == part = "stree" /\ A /\ UNCHANGED <<part, rbVars, cacheVars, vars>>
InCache(A) == part = "cache" /\ A /\ UNCHANGED <<part, rbVars, streeVars, vars>>
InUmap(A) == part = "umap" /\ A /\ UNCHANGED <<part, rbVars, streeVars, cacheVars>>

MCInit ==
  /\ part \in Parts
  /\ R!Init /\ T!Init /\ C!Init /\ Init
  /\ part # "cache" => numslots = 2

StructNext ==
  \/ \E n \in Node : InRb(R!Insert(n)) \/ InRb(R!Remove(n))
  \/ \E a \in Addr : InStree(T!Set(a)) \/ InStree(T!Clear(a)) \/ InStree(T!SetAll(a))
  \/ \E low \in BOOLEAN : InStree(T!Search(low))
  \/ InStree(T!Count)

CacheNext ==
  \/ InCache(C!halted)
  \/ \E u \in Crowd[numslots] :
       \/ \E a \in Address : \/ InCache(C!cache_get_hit(u, a)) \/ InCache(C!cache_get_fill(u, a))
                             \/ InCache(C!cache_get_full(u, a)) \/ InCache(C!cache_get_hang(u, a))
       \/ InCache(C!cache_put(u)) \/ InCache(C!cache_put_bad(u))

UmapNext ==
  \/ InUmap(halted)
  \/ \E c \in CPU :
       \/ \E v \in VA : InUmap(TlbLoad(c, v)) \/ InUmap(TlbEvict(c, v))
       \/ InUmap(cpu_nmiop(c)) \/ InUmap(ToUser(c)) \/ InUmap(ToKernel(c))
       \/ \E u \in Umap :
            \/ InUmap(umap_init(c, u)) \/ InUmap(umap_commit(c, u))
            \/ InUmap(umap_free(c, u)) \/ InUmap(cpu_umap_enter(c, u))
            \/ \E v \in VA : \/ \E p \in Pfn : InUmap(umap_map(c, u, v, p))
                             \/ InUmap(umap_unmap(c, u, v))
       \/ \E d \in CPU : InUmap(cpu_tlbflush(c, d))
       \/ InUmap(commit_return(c)) \/ InUmap(enter_store(c))
       \/ InUmap(enter_mask(c)) \/ InUmap(enter_load(c)) \/ InUmap(enter_flush(c))
       \/ InUmap(cpu_umap_exit(c)) \/ InUmap(exit_flush(c))
       \/ InUmap(exit_clear(c)) \/ InUmap(exit_mask(c))

MCNext == StructNext \/ CacheNext \/ UmapNext

allVars == <<part, rbVars, streeVars, cacheVars, vars>>
MCSpec == MCInit /\ [][MCNext]_allVars

-----------------------------------------------------------------------------
(* rb.c: every insertion and removal leaves a red-black tree.              *)
RedBlack == part = "rb" => R!RedBlack

(* rb.c: every lookup answers as on a sorted set.                          *)
LookupsRight == part = "rb" => R!LookupsRight

(* cache.h: the free list is the unreferenced slots, references are users. *)
FreeIsUnused == part = "cache" => C!FreeIsUnused

(* cache.h: a slot keeps its page while someone holds it.                  *)
HeldKeepsPage == part = "cache" => C!HeldKeepsPage

(* cache.h:144: a slot is refilled only for an address no slot holds.      *)
MissIsAbsent == part = "cache" => C!MissIsAbsent

(* stree.h: the tree behaves as a set of bits.                             *)
IsBitSet == T!IsBitSet

-----------------------------------------------------------------------------
(* Two nodes of the tree have the same key; the addresses set in the       *)
(* S-tree lie in different words of every level.                           *)
NineNodes == 1 .. 9
NineKeys == [n \in NineNodes |-> IF n = 9 THEN 4 ELSE n]
NoNodes == {}
NoKeys == <<>>
FarAddr == {0, 1, 5, 15, 16, 30, 31}
TwoSlots == 1 .. 2
ThreeSlots == 1 .. 3
(* A small cache that runs out of slots, a larger one whose tree breaks.   *)
SmallAndLarge == (2 :> {"w1", "w2", "w3"}) @@ (3 :> {"w1"})
SmallOnly == 2 :> {"w1"}

Symmetry == Permutations(CPU) \cup Permutations(Umap) \cup Permutations(Pfn)

=============================================================================
