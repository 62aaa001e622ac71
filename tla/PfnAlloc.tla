------------------------------ MODULE PfnAlloc ------------------------------
(***************************************************************************)
(* The physical page allocator of libnux (pfnalloc.c) on the spin and      *)
(* read-write locks of nux/locks.h.  The bitmap is the set of its bits:    *)
(* module Stree shows that the S-tree is one.                              *)
(*                                                                         *)
(* One step per access that another CPU can see.  free_pages is changed    *)
(* under pglock by stree_pfnalloc and under the shared read lock by        *)
(* pfn_free, so each change is a load and a store of its own.              *)
(***************************************************************************)
EXTENDS FiniteSetsExt, Integers

CONSTANTS
  CPU,
  Page,      \* pages the boot loader marked free
  Allocator, \* "stree" and the ones a kernel may install
  None,
  MaxAvail,  \* bound: no pfn_free is started with free_pages this high
  Switches   \* bound: the allocators nux_set_allocator is called with

ASSUME PfnAllocConstants ==
  /\ IsFiniteSet(CPU) /\ Page \subseteq Nat /\ IsFiniteSet(Page) /\ Page # {}
  /\ "stree" \in Allocator /\ Switches \subseteq Allocator
  /\ None \notin CPU /\ None \notin Page /\ None \notin Allocator

VARIABLES
  lr, lg, r,   \* _nux_pfnalloc_lock: holder of lr, lg taken, readers
  palloc, pfree, \* _nux_pfnalloc, _nux_pfnfree
  pglock,      \* holder of pglock
  free_pages,
  stree,       \* the bitmap
  pool,        \* the pages of each installed allocator
  pc, op,      \* control state and operation of each CPU
  pg,          \* the page in hand
  tmp,         \* free_pages as loaded
  held,        \* pages the CPU's callers own
  panic        \* an assertion failed

rwVars == <<lr, lg, r>>
setVars == <<palloc, pfree>>
pageVars == <<pglock, stree, pool>>
vars == <<rwVars, setVars, pageVars, free_pages, pc, op, pg, tmp, held, panic>>

(* pc is inside a call of the allocator: the read lock is held.            *)
Calling == {"call", "a_lock", "a_load", "a_store", "c_alloc", "f_lock",
            "c_free", "i_load", "i_store"}
PC == Calling \cup {"idle", "rl", "rl_lg", "rl_exit", "ru", "ru_exit",
                    "wl", "w_alloc", "w_free", "wu"}

TypeOK ==
  /\ lr \in CPU \cup {None} /\ lg \in BOOLEAN /\ r \in 0 .. Cardinality(CPU)
  /\ palloc \in Allocator /\ pfree \in Allocator
  /\ pglock \in CPU \cup {None} /\ free_pages \in Nat
  /\ stree \subseteq Page /\ pool \in [Allocator \ {"stree"} -> SUBSET Page]
  /\ pc \in [CPU -> PC] /\ op \in [CPU -> {"low", "high", "free", None} \cup Allocator]
  /\ pg \in [CPU -> Page \cup {None}] /\ tmp \in [CPU -> Nat]
  /\ held \in [CPU -> SUBSET Page] /\ panic \in BOOLEAN

Init ==
  /\ lr = None /\ lg = FALSE /\ r = 0
  /\ palloc = "stree" /\ pfree = "stree"
  /\ pglock = None /\ free_pages = Cardinality(Page)
  /\ stree = Page /\ pool = [a \in Allocator \ {"stree"} |-> {}]
  /\ pc = [c \in CPU |-> "idle"] /\ op = [c \in CPU |-> None]
  /\ pg = [c \in CPU |-> None] /\ tmp = [c \in CPU |-> 0]
  /\ held = [c \in CPU |-> {}] /\ panic = FALSE

At(c, l) == pc[c] = l /\ ~panic
Goto(c, l) == pc' = [pc EXCEPT ![c] = l]

-----------------------------------------------------------------------------
(* The calls.                                                              *)
pfn_alloc(c, low) ==
  /\ At(c, "idle")
  /\ op' = [op EXCEPT ![c] = low]
  /\ Goto(c, "rl")
  /\ UNCHANGED <<rwVars, setVars, pageVars, free_pages, pg, tmp, held, panic>>

pfn_free(c, p) ==
  /\ At(c, "idle") /\ p \in held[c] /\ free_pages < MaxAvail
  /\ op' = [op EXCEPT ![c] = "free"]
  /\ pg' = [pg EXCEPT ![c] = p]
  /\ held' = [held EXCEPT ![c] = @ \ {p}]
  /\ Goto(c, "rl")
  /\ UNCHANGED <<rwVars, setVars, pageVars, free_pages, tmp, panic>>

nux_set_allocator(c, a) ==
  /\ At(c, "idle") /\ a # palloc
  /\ op' = [op EXCEPT ![c] = a]
  /\ Goto(c, "wl")
  /\ UNCHANGED <<rwVars, setVars, pageVars, free_pages, pg, tmp, held, panic>>

-----------------------------------------------------------------------------
(* readlock: the first reader takes lg while it holds lr.                  *)
readlock_lr(c) ==
  /\ At(c, "rl") /\ lr = None
  /\ lr' = c /\ r' = r + 1
  /\ Goto(c, IF r = 0 THEN "rl_lg" ELSE "rl_exit")
  /\ UNCHANGED <<lg, setVars, pageVars, free_pages, op, pg, tmp, held, panic>>

readlock_lg(c) ==
  /\ At(c, "rl_lg") /\ ~lg
  /\ lg' = TRUE
  /\ Goto(c, "rl_exit")
  /\ UNCHANGED <<lr, r, setVars, pageVars, free_pages, op, pg, tmp, held, panic>>

readlock_exit(c) ==
  /\ At(c, "rl_exit")
  /\ lr' = None
  /\ Goto(c, "call")
  /\ UNCHANGED <<lg, r, setVars, pageVars, free_pages, op, pg, tmp, held, panic>>

(* readunlock: the last reader gives lg back.                              *)
readunlock_lr(c) ==
  /\ At(c, "ru") /\ lr = None
  /\ lr' = c /\ r' = r - 1
  /\ Goto(c, "ru_exit")
  /\ UNCHANGED <<lg, setVars, pageVars, free_pages, op, pg, tmp, held, panic>>

PostDecrement == r + 1 = 0

LastReader == r = 0

readunlock_exit(c) ==
  /\ At(c, "ru_exit")
  /\ lr' = None
  /\ lg' = (lg /\ ~LastReader)
  /\ op' = [op EXCEPT ![c] = None]
  /\ pg' = [pg EXCEPT ![c] = None]
  /\ held' = [held EXCEPT ![c] = IF op[c] \in {"low", "high"} /\ pg[c] # None
                                 THEN @ \cup {pg[c]} ELSE @]
  /\ Goto(c, "idle")
  /\ UNCHANGED <<r, setVars, pageVars, free_pages, tmp, panic>>

WriterJumps == TRUE

WriterMayEnter == ~lg

writelock(c) ==
  /\ At(c, "wl") /\ WriterMayEnter
  /\ lg' = TRUE
  /\ Goto(c, "w_alloc")
  /\ UNCHANGED <<lr, r, setVars, pageVars, free_pages, op, pg, tmp, held, panic>>

set_alloc(c) ==
  /\ At(c, "w_alloc")
  /\ palloc' = op[c]
  /\ Goto(c, "w_free")
  /\ UNCHANGED <<rwVars, pfree, pageVars, free_pages, op, pg, tmp, held, panic>>

set_free(c) ==
  /\ At(c, "w_free")
  /\ pfree' = op[c]
  /\ Goto(c, "wu")
  /\ UNCHANGED <<rwVars, palloc, pageVars, free_pages, op, pg, tmp, held, panic>>

writeunlock(c) ==
  /\ At(c, "wu")
  /\ lg' = FALSE
  /\ op' = [op EXCEPT ![c] = None]
  /\ Goto(c, "idle")
  /\ UNCHANGED <<lr, r, setVars, pageVars, free_pages, pg, tmp, held, panic>>

-----------------------------------------------------------------------------
(* The call through the pointer.                                           *)
call(c) ==
  /\ At(c, "call")
  /\ Goto(c, IF op[c] = "free" THEN IF pfree = "stree" THEN "f_lock" ELSE "c_free"
             ELSE IF palloc = "stree" THEN "a_lock" ELSE "c_alloc")
  /\ UNCHANGED <<rwVars, setVars, pageVars, free_pages, op, pg, tmp, held, panic>>

(* stree_pfnalloc: search under pglock ...                                 *)
stree_bitsearch(low) == IF low = "low" THEN Min(stree) ELSE Max(stree)

NoLock == TRUE

PglockFree == pglock = None

stree_lock(c) ==
  /\ At(c, "a_lock") /\ PglockFree
  /\ \/ /\ stree = {}
        /\ Goto(c, "ru")
        /\ UNCHANGED <<pglock, pg>>
     \/ /\ stree # {}
        /\ pglock' = c
        /\ pg' = [pg EXCEPT ![c] = stree_bitsearch(op[c])]
        /\ Goto(c, "a_load")
  /\ UNCHANGED <<rwVars, setVars, stree, pool, free_pages, op, tmp, held, panic>>

(* ... then the assertion on free_pages and its decrement, and the page is *)
(* taken out of the bitmap and zeroed.                                     *)
AssertFails == free_pages = 0

stree_load(c) ==
  /\ At(c, "a_load")
  /\ tmp' = [tmp EXCEPT ![c] = free_pages]
  /\ panic' = AssertFails
  /\ Goto(c, "a_store")
  /\ UNCHANGED <<rwVars, setVars, pageVars, free_pages, op, pg, held>>

stree_store(c) ==
  /\ At(c, "a_store")
  /\ free_pages' = tmp[c] - 1
  /\ tmp' = [tmp EXCEPT ![c] = 0]
  /\ stree' = stree \ {pg[c]}
  /\ pglock' = None
  /\ Goto(c, "ru")
  /\ UNCHANGED <<rwVars, setVars, pool, op, pg, held, panic>>

(* stree_pfnfree.                                                          *)
stree_pfnfree(c) ==
  /\ At(c, "f_lock") /\ pglock = None
  /\ stree' = stree \cup {pg[c]}
  /\ Goto(c, "i_load")
  /\ UNCHANGED <<rwVars, setVars, pglock, pool, free_pages, op, pg, tmp, held, panic>>

(* An installed allocator: its pages are the ones freed to it.             *)
custom_alloc(c) ==
  /\ At(c, "c_alloc")
  /\ \/ /\ pool[palloc] = {}
        /\ UNCHANGED <<pool, pg>>
     \/ \E p \in pool[palloc] : /\ pool' = [pool EXCEPT ![palloc] = @ \ {p}]
                                /\ pg' = [pg EXCEPT ![c] = p]
  /\ Goto(c, "ru")
  /\ UNCHANGED <<rwVars, setVars, pglock, stree, free_pages, op, tmp, held, panic>>

custom_free(c) ==
  /\ At(c, "c_free")
  /\ pool' = [pool EXCEPT ![pfree] = @ \cup {pg[c]}]
  /\ Goto(c, "i_load")
  /\ UNCHANGED <<rwVars, setVars, pglock, stree, free_pages, op, pg, tmp, held, panic>>

(* pfn_free: free_pages++ once the free function has returned.             *)
count_load(c) ==
  /\ At(c, "i_load")
  /\ tmp' = [tmp EXCEPT ![c] = free_pages]
  /\ Goto(c, "i_store")
  /\ UNCHANGED <<rwVars, setVars, pageVars, free_pages, op, pg, held, panic>>

count_store(c) ==
  /\ At(c, "i_store")
  /\ free_pages' = tmp[c] + 1
  /\ tmp' = [tmp EXCEPT ![c] = 0]
  /\ Goto(c, "ru")
  /\ UNCHANGED <<rwVars, setVars, pageVars, op, pg, held, panic>>

(* A failed assertion halts the kernel.                                    *)
halted == panic /\ UNCHANGED vars

-----------------------------------------------------------------------------
Call(c) ==
  \/ \E low \in {"low", "high"} : pfn_alloc(c, low)
  \/ \E p \in Page : pfn_free(c, p)
  \/ \E a \in Switches : nux_set_allocator(c, a)

Step(c) ==
  \/ readlock_lr(c) \/ readlock_lg(c) \/ readlock_exit(c)
  \/ readunlock_lr(c) \/ readunlock_exit(c)
  \/ writelock(c) \/ set_alloc(c) \/ set_free(c) \/ writeunlock(c)
  \/ call(c) \/ stree_lock(c) \/ stree_load(c) \/ stree_store(c) \/ stree_pfnfree(c)
  \/ custom_alloc(c) \/ custom_free(c) \/ count_load(c) \/ count_store(c)

Next == halted \/ \E c \in CPU : Call(c) \/ Step(c)

Spec == Init /\ [][Next]_vars

(* A CPU in the kernel keeps running; nothing makes the spinlocks fair.    *)
FairSpec == Spec /\ \A c \in CPU : WF_vars(Step(c))

-----------------------------------------------------------------------------
(* pfnalloc.c implements PagePool: no two CPUs are ever given the same     *)
(* page, an allocation fails only when its allocator has no page, and no   *)
(* CPU is inside an allocator that nux_set_allocator has replaced, whose   *)
(* two stores act as one.  A page is taken when its bit is cleared.        *)
InHand(c) ==
  IF pg[c] = None THEN {}
  ELSE IF op[c] = "free" THEN IF pc[c] \in {"i_load", "i_store", "ru", "ru_exit"}
                              THEN {} ELSE {pg[c]}
  ELSE IF pc[c] \in {"ru", "ru_exit"} THEN {pg[c]} ELSE {}

FreePages == [a \in Allocator |-> IF a = "stree" THEN stree ELSE pool[a]]
OutPages == [c \in CPU |-> held[c] \cup InHand(c)]

Abs == INSTANCE PagePool WITH free <- FreePages, out <- OutPages, cur <- pfree

IsPagePool == Abs!Spec

(* A page is free in one allocator, or in the hands of one CPU, from the   *)
(* moment pfn_alloc clears its bit until pfn_free has set it again.        *)
PageOnce == Abs!PageOnce

(* The allocation functions that run were both installed by the same       *)
(* nux_set_allocator, and the kernel has not replaced them since.          *)
OneAllocator ==
  \A c \in CPU : pc[c] \in Calling => palloc = pfree /\ lg

(* The locks never stop the allocator: while a call is under way, some     *)
(* call returns.                                                           *)
SomeoneReturns ==
  (\E c \in CPU : pc[c] # "idle") ~>
    panic \/ \E c \in CPU : pc[c] \in {"ru_exit", "wu"}

=============================================================================
