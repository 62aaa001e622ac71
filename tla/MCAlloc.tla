------------------------------ MODULE MCAlloc -------------------------------
(***************************************************************************)
(* Small instances of the two allocators that CPUs contend for: physical   *)
(* pages and slabs.  In these models they share no state, so each is       *)
(* explored alone: part says which one runs, the other rests in Init.      *)
(***************************************************************************)
EXTENDS PfnAlloc, TLC

CONSTANTS Parts,
          Users, Switchers,                \* bound: who allocates, who installs
          SlabCPU, SlabId, NoSlab, Objs, MaxOwned  \* Slab

VARIABLES part,
          emptyq, freeq, fullq, cnt, objq, freecnt, slabpc, sh, tries, owned, fatal

S == INSTANCE Slab WITH CPU <- SlabCPU, pc <- slabpc

ASSUME S!SlabConstants

slabVars == <<emptyq, freeq, fullq, cnt, objq, freecnt, slabpc, sh, tries, owned, fatal>>
allVars == <<part, vars, slabVars>>

InPfn(A) == part = "pfn" /\ A /\ UNCHANGED <<part, slabVars>>
InSlab(A) == part = "slab" /\ A /\ UNCHANGED <<part, vars>>

MCInit == part \in Parts /\ Init /\ S!Init

PfnNext ==
  \/ InPfn(halted)
  \/ \E c \in Users : \/ \E low \in {"low", "high"} : InPfn(pfn_alloc(c, low))
                      \/ \E p \in Page : InPfn(pfn_free(c, p))
  \/ \E c \in Switchers, a \in Switches : InPfn(nux_set_allocator(c, a))
  \/ \E c \in CPU :
       \/ InPfn(readlock_lr(c)) \/ InPfn(readlock_lg(c)) \/ InPfn(readlock_exit(c))
       \/ InPfn(readunlock_lr(c)) \/ InPfn(readunlock_exit(c))
       \/ InPfn(writelock(c)) \/ InPfn(set_alloc(c)) \/ InPfn(set_free(c))
       \/ InPfn(writeunlock(c)) \/ InPfn(call(c))
       \/ InPfn(stree_lock(c)) \/ InPfn(stree_load(c)) \/ InPfn(stree_store(c))
       \/ InPfn(stree_pfnfree(c)) \/ InPfn(custom_alloc(c)) \/ InPfn(custom_free(c))
       \/ InPfn(count_load(c)) \/ InPfn(count_store(c))

SlabNext ==
  \/ \E c \in SlabCPU :
       \/ InSlab(S!slab_alloc(c)) \/ InSlab(S!alloc_partial(c)) \/ InSlab(S!alloc_empty(c))
       \/ InSlab(S!alloc_none(c)) \/ InSlab(S!grow_alloc(c)) \/ InSlab(S!grow_add(c))
       \/ InSlab(S!slab_shrink(c)) \/ InSlab(S!shrink_take(c)) \/ InSlab(S!shrink_drop(c))
       \/ \E o \in owned : InSlab(S!slab_free(c, o))
  \/ InSlab(S!slab_deregister) \/ InSlab(S!halted)

MCNext == PfnNext \/ SlabNext
MCSpec == MCInit /\ [][MCNext]_allVars

(* A CPU in the page allocator keeps running, though nothing makes the     *)
(* spinlocks fair; some CPU inside the slab allocator runs, whichever wins *)
(* its lock.                                                               *)
SlabStep == \E c \in SlabCPU : InSlab(S!Alloc(c) \/ S!Grow(c) \/ S!Shrink(c))
MCFairSpec == MCSpec /\ (\A c \in CPU : WF_allVars(InPfn(Step(c)))) /\ WF_allVars(SlabStep)

-----------------------------------------------------------------------------
(* slabinc.c:134: growing and shrinking CPUs do not starve each other.     *)
SlabReturns == S!SomeoneReturns

WithCustom == {"stree", "custom"}

=============================================================================
