-------------------------------- MODULE Umap --------------------------------
(***************************************************************************)
(* User mappings across CPUs: libnux/umap.c, cpu_umap_enter and            *)
(* cpu_umap_exit of cpu.c, and their x86 side (hal_umap_load, the flush by *)
(* NMI).  umap->tlbop is only ever written and is left out.                *)
(*                                                                         *)
(* libnux does not lock a umap: callers serialise map, unmap, chflags,     *)
(* commit and free of one umap, and neither enter nor leave it while they  *)
(* free it.  What they cannot serialise is another CPU that enters or      *)
(* leaves the umap, its NMIs and its page walks.                           *)
(***************************************************************************)
EXTENDS Integers, FiniteSets

CONSTANTS
  CPU, Umap,
  VA,         \* user pages
  Pfn, None,
  MaxChanges  \* bound: changes of leaf entries in a behaviour

ASSUME UmapConstants ==
  /\ None \notin CPU /\ None \notin Umap /\ None \notin Pfn
  /\ MaxChanges \in Nat

VARIABLES
  state,     \* of each umap: "new", "live" or "freed"
  pte,       \* leaf entries of each umap
  cpumask,   \* umap->cpumask
  cur,       \* cpu_info.umap
  l4,        \* the umap whose tables the CPU's root points at
  tlb,       \* user entries of the TLB of each CPU
  pc, arg,   \* control state of each CPU and the umap operated on
  todo,      \* CPUs umap_commit has yet to notify
  nmipend,   \* NMI latched, with NMIOP_TLBFLUSH set in nmiop
  uncommitted, \* history: pages changed since the last umap_commit returned
  changes,   \* changes so far
  panic      \* an assertion failed

umapVars == <<state, pte, uncommitted, changes>>
cpuVars == <<cur, l4>>
vars == <<umapVars, cpuVars, cpumask, tlb, pc, arg, todo, nmipend, panic>>

EnterPC == {"e_store", "e_mask", "e_load", "e_flush"}
ExitPC == {"x_flush", "x_clear", "x_mask"}
PC == EnterPC \cup ExitPC \cup {"kernel", "user", "commit"}
Entry == [umap : Umap, pfn : Pfn]
NoEntries == [v \in VA |-> None]

TypeOK ==
  /\ state \in [Umap -> {"new", "live", "freed"}]
  /\ pte \in [Umap -> [VA -> Pfn \cup {None}]]
  /\ cpumask \in [Umap -> SUBSET CPU]
  /\ cur \in [CPU -> Umap \cup {None}] /\ l4 \in [CPU -> Umap \cup {None}]
  /\ tlb \in [CPU -> [VA -> Entry \cup {None}]]
  /\ pc \in [CPU -> PC] /\ arg \in [CPU -> Umap \cup {None}]
  /\ todo \in [CPU -> SUBSET CPU] /\ nmipend \in [CPU -> BOOLEAN]
  /\ uncommitted \in [Umap -> SUBSET VA] /\ changes \in 0 .. MaxChanges
  /\ panic \in BOOLEAN
  /\ \A c \in CPU : arg[c] # None <=> pc[c] \in EnterPC \cup {"commit", "x_mask"}

Init ==
  /\ state = [u \in Umap |-> "new"]
  /\ pte = [u \in Umap |-> [v \in VA |-> None]]
  /\ cpumask = [u \in Umap |-> {}]
  /\ cur = [c \in CPU |-> None] /\ l4 = [c \in CPU |-> None]
  /\ tlb = [c \in CPU |-> NoEntries]
  /\ pc = [c \in CPU |-> "kernel"] /\ arg = [c \in CPU |-> None]
  /\ todo = [c \in CPU |-> {}] /\ nmipend = [c \in CPU |-> FALSE]
  /\ uncommitted = [u \in Umap |-> {}] /\ changes = 0
  /\ panic = FALSE

At(c, l) == pc[c] = l /\ ~panic
Goto(c, l) == pc' = [pc EXCEPT ![c] = l]

(* The caller's duty: no commit of this umap, nor its free, is under way.  *)
Mine(u) == state[u] = "live" /\ \A d \in CPU : ~(pc[d] = "commit" /\ arg[d] = u)

-----------------------------------------------------------------------------
(* The hardware.  A page walk may happen at any time and follows the       *)
(* loaded tables, whatever they hold once they have been freed.            *)
TlbLoad(c, v) ==
  /\ ~panic /\ l4[c] # None /\ tlb[c][v] = None
  /\ \E p \in Pfn : /\ state[l4[c]] = "live" => p = pte[l4[c]][v]
                    /\ tlb' = [tlb EXCEPT ![c][v] = [umap |-> l4[c], pfn |-> p]]
  /\ UNCHANGED <<umapVars, cpuVars, cpumask, pc, arg, todo, nmipend, panic>>

TlbEvict(c, v) ==
  /\ ~panic /\ tlb[c][v] # None
  /\ tlb' = [tlb EXCEPT ![c][v] = None]
  /\ UNCHANGED <<umapVars, cpuVars, cpumask, pc, arg, todo, nmipend, panic>>

(* hal_entry_nmi -> cpu_nmiop -> cpu_tlbflush_local.                       *)
cpu_nmiop(c) ==
  /\ ~panic /\ nmipend[c]
  /\ nmipend' = [nmipend EXCEPT ![c] = FALSE]
  /\ tlb' = [tlb EXCEPT ![c] = NoEntries]
  /\ UNCHANGED <<umapVars, cpuVars, cpumask, pc, arg, todo, panic>>

(* Return to user mode, and any entry from it.                             *)
ToUser(c) ==
  /\ At(c, "kernel") /\ cur[c] # None
  /\ Goto(c, "user")
  /\ UNCHANGED <<umapVars, cpuVars, cpumask, tlb, arg, todo, nmipend, panic>>

ToKernel(c) ==
  /\ At(c, "user")
  /\ Goto(c, "kernel")
  /\ UNCHANGED <<umapVars, cpuVars, cpumask, tlb, arg, todo, nmipend, panic>>

-----------------------------------------------------------------------------
(* umap.c                                                                  *)
umap_init(c, u) ==
  /\ At(c, "kernel") /\ state[u] = "new"
  /\ state' = [state EXCEPT ![u] = "live"]
  /\ cpumask' = [cpumask EXCEPT ![u] = {}]
  /\ UNCHANGED <<pte, uncommitted, changes, cpuVars, tlb, pc, arg, todo, nmipend, panic>>

(* umap_map, umap_unmap and umap_chflags: the leaf is reached through the  *)
(* linear map when the umap is current.                                    *)
SetLeaf(c, u, v, new) ==
  LET t == IF u = cur[c] THEN l4[c] ELSE u
  IN  /\ At(c, "kernel") /\ Mine(u) /\ changes < MaxChanges
      /\ pte[t][v] # new
      /\ pte' = [pte EXCEPT ![t][v] = new]
      /\ uncommitted' = [uncommitted EXCEPT ![u] = @ \cup {v}]
      /\ changes' = changes + 1
      /\ UNCHANGED <<state, cpuVars, cpumask, tlb, pc, arg, todo, nmipend, panic>>

umap_map(c, u, v, p) == SetLeaf(c, u, v, p)
umap_unmap(c, u, v) == SetLeaf(c, u, v, None)

(* umap_commit: the mask is read once, each CPU in it gets an NMI.         *)
umap_commit(c, u) ==
  /\ At(c, "kernel") /\ Mine(u)
  /\ todo' = [todo EXCEPT ![c] = cpumask[u]]
  /\ arg' = [arg EXCEPT ![c] = u]
  /\ Goto(c, "commit")
  /\ UNCHANGED <<umapVars, cpuVars, cpumask, tlb, nmipend, panic>>

cpu_tlbflush(c, d) ==
  /\ At(c, "commit") /\ d \in todo[c]
  /\ todo' = [todo EXCEPT ![c] = @ \ {d}]
  /\ nmipend' = [nmipend EXCEPT ![d] = TRUE]
  /\ UNCHANGED <<umapVars, cpuVars, cpumask, tlb, pc, arg, panic>>

commit_return(c) ==
  /\ At(c, "commit") /\ todo[c] = {}
  /\ uncommitted' = [uncommitted EXCEPT ![arg[c]] = {}]
  /\ arg' = [arg EXCEPT ![c] = None]
  /\ Goto(c, "kernel")
  /\ UNCHANGED <<state, pte, changes, cpuVars, cpumask, tlb, todo, nmipend, panic>>

(* umap_free: the tables go back to the page allocator.                    *)
umap_free(c, u) ==
  /\ At(c, "kernel") /\ Mine(u)
  /\ \A d \in CPU : pc[d] \in EnterPC => arg[d] # u
  /\ \/ cpumask[u] # {} /\ panic' = TRUE /\ UNCHANGED umapVars
     \/ /\ cpumask[u] = {}
        /\ state' = [state EXCEPT ![u] = "freed"]
        /\ pte' = [pte EXCEPT ![u] = [v \in VA |-> None]]
        /\ uncommitted' = [uncommitted EXCEPT ![u] = {}]
        /\ UNCHANGED <<changes, panic>>
  /\ UNCHANGED <<cpuVars, cpumask, tlb, pc, arg, todo, nmipend>>

-----------------------------------------------------------------------------
(* cpumask.h: one atomic operation each.                                   *)
MaskOverwritten(c, u) == [cpumask EXCEPT ![u] = {c}]

atomic_cpumask_set(c, u) == [cpumask EXCEPT ![u] = @ \cup {c}]

atomic_cpumask_clear(c, u) == [cpumask EXCEPT ![u] = @ \ {c}]

(* cpu_umap_enter.                                                         *)
cpu_umap_enter(c, u) ==
  /\ At(c, "kernel") /\ state[u] = "live" /\ u # cur[c]
  /\ cpumask' = IF cur[c] = None THEN cpumask
                ELSE atomic_cpumask_clear(c, cur[c])
  /\ arg' = [arg EXCEPT ![c] = u]
  /\ Goto(c, "e_store")
  /\ UNCHANGED <<umapVars, cpuVars, tlb, todo, nmipend, panic>>

enter_store(c) ==
  /\ At(c, "e_store")
  /\ cur' = [cur EXCEPT ![c] = arg[c]]
  /\ Goto(c, "e_mask")
  /\ UNCHANGED <<umapVars, l4, cpumask, tlb, arg, todo, nmipend, panic>>

enter_mask(c) ==
  /\ At(c, "e_mask")
  /\ cpumask' = atomic_cpumask_set(c, arg[c])
  /\ Goto(c, "e_load")
  /\ UNCHANGED <<umapVars, cpuVars, tlb, arg, todo, nmipend, panic>>

(* hal_umap_load replaces the root entries; a flush is due if the old ones *)
(* were present.                                                           *)
OldRootIgnored(old) == FALSE

hal_umap_load_tlbop(old) == old # None

enter_load(c) ==
  /\ At(c, "e_load")
  /\ l4' = [l4 EXCEPT ![c] = arg[c]]
  /\ Goto(c, IF hal_umap_load_tlbop(l4[c]) THEN "e_flush" ELSE "kernel")
  /\ arg' = [arg EXCEPT ![c] = IF hal_umap_load_tlbop(l4[c]) THEN @ ELSE None]
  /\ UNCHANGED <<umapVars, cur, cpumask, tlb, todo, nmipend, panic>>

enter_flush(c) ==
  /\ At(c, "e_flush")
  /\ tlb' = [tlb EXCEPT ![c] = NoEntries]
  /\ arg' = [arg EXCEPT ![c] = None]
  /\ Goto(c, "kernel")
  /\ UNCHANGED <<umapVars, cpuVars, cpumask, todo, nmipend, panic>>

(* cpu_umap_exit unloads first and clears the mask last.                   *)
cpu_umap_exit(c) ==
  /\ At(c, "kernel")
  /\ l4' = [l4 EXCEPT ![c] = None]
  /\ Goto(c, IF hal_umap_load_tlbop(l4[c]) THEN "x_flush" ELSE "x_clear")
  /\ UNCHANGED <<umapVars, cur, cpumask, tlb, arg, todo, nmipend, panic>>

exit_flush(c) ==
  /\ At(c, "x_flush")
  /\ tlb' = [tlb EXCEPT ![c] = NoEntries]
  /\ Goto(c, "x_clear")
  /\ UNCHANGED <<umapVars, cpuVars, cpumask, arg, todo, nmipend, panic>>

AfterUnload(c) == IF cur[c] = None THEN "kernel" ELSE "x_mask"

exit_clear(c) ==
  /\ At(c, "x_clear")
  /\ cur' = [cur EXCEPT ![c] = None]
  /\ arg' = [arg EXCEPT ![c] = cur[c]]
  /\ Goto(c, AfterUnload(c))
  /\ UNCHANGED <<umapVars, l4, cpumask, tlb, todo, nmipend, panic>>

exit_mask(c) ==
  /\ At(c, "x_mask")
  /\ cpumask' = atomic_cpumask_clear(c, arg[c])
  /\ arg' = [arg EXCEPT ![c] = None]
  /\ Goto(c, "kernel")
  /\ UNCHANGED <<umapVars, cpuVars, tlb, todo, nmipend, panic>>

halted == panic /\ UNCHANGED vars

-----------------------------------------------------------------------------
Next ==
  \/ halted
  \/ \E c \in CPU :
       \/ \E v \in VA : TlbLoad(c, v) \/ TlbEvict(c, v)
       \/ cpu_nmiop(c) \/ ToUser(c) \/ ToKernel(c)
       \/ \E u \in Umap :
            \/ umap_init(c, u) \/ umap_commit(c, u) \/ umap_free(c, u)
            \/ cpu_umap_enter(c, u)
            \/ \E v \in VA : \/ \E p \in Pfn : umap_map(c, u, v, p)
                             \/ umap_unmap(c, u, v)
       \/ \E d \in CPU : cpu_tlbflush(c, d)
       \/ commit_return(c)
       \/ enter_store(c) \/ enter_mask(c) \/ enter_load(c) \/ enter_flush(c)
       \/ cpu_umap_exit(c) \/ exit_flush(c) \/ exit_clear(c) \/ exit_mask(c)

Spec == Init /\ [][Next]_vars

-----------------------------------------------------------------------------
(* User code runs on the mappings of its own umap: an entry of the TLB     *)
(* belongs to the umap the CPU entered and agrees with its page table,     *)
(* unless the change has not been committed yet or the flush NMI is on its *)
(* way to this CPU.                                                        *)
UserView ==
  \A c \in CPU, v \in VA :
    pc[c] = "user" /\ tlb[c][v] # None =>
      /\ tlb[c][v].umap = cur[c]
      /\ \/ tlb[c][v].pfn = pte[cur[c]][v]
         \/ v \in uncommitted[cur[c]] \/ nmipend[c]

(* A umap's cpumask has every CPU that walks its tables, but for one that  *)
(* is in cpu_umap_enter of another umap, before its root is replaced.      *)
MaskCovers ==
  \A c \in CPU :
    l4[c] # None => c \in cpumask[l4[c]] \/ pc[c] \in EnterPC \ {"e_flush"}

=============================================================================
