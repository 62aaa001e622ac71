----------------------------- MODULE Umap_proofs ----------------------------
(***************************************************************************)
(* Proofs about user mappings: for any CPUs, umaps and pages, user code    *)
(* only ever runs on the mappings of the umap its CPU entered.  The        *)
(* invariant follows a CPU through cpu_umap_enter and cpu_umap_exit, and a *)
(* changed page through umap_commit and the NMIs it sends.                 *)
(***************************************************************************)
EXTENDS Umap, TLAPS

\* The provers each step is given to, in this order.
USE SMTT(30), Z3T(30), Zenon

(* Where the CPU's umap, its root and its bit in the cpumasks agree.       *)
Settled == {"kernel", "user", "commit", "e_flush"}

(* The position of a CPU in cpu_umap_enter and cpu_umap_exit says which of *)
(* cpu_info.umap, the root and the cpumask have been brought up to date.   *)
CpuOK(c) ==
  /\ pc[c] \in Settled => /\ cur[c] = l4[c]
                          /\ l4[c] # None => c \in cpumask[l4[c]]
  /\ pc[c] = "user" => cur[c] # None
  /\ pc[c] = "e_store" => cur[c] = l4[c]
  /\ pc[c] \in {"e_mask", "e_load", "e_flush"} => cur[c] = arg[c]
  /\ pc[c] = "e_load" => c \in cpumask[arg[c]]
  /\ pc[c] \in ExitPC => l4[c] = None
  /\ pc[c] \in {"x_flush", "x_clear"} /\ cur[c] # None => c \in cpumask[cur[c]]
  /\ pc[c] = "x_mask" => cur[c] = None /\ c \in cpumask[arg[c]]

(* A umap that a CPU is in, or is about to be in, has not been freed.      *)
Alive ==
  /\ \A u \in Umap, c \in CPU : c \in cpumask[u] => state[u] = "live"
  /\ \A c \in CPU : pc[c] \in EnterPC => state[arg[c]] = "live"

(* Outside the two flushes a TLB only holds entries of the loaded tables.  *)
TlbOwn ==
  \A c \in CPU, v \in VA :
    pc[c] \notin {"e_flush", "x_flush"} /\ tlb[c][v] # None => tlb[c][v].umap = l4[c]

(* An entry that differs from the page table has its NMI on the way, or    *)
(* the change is not committed and a commit under way has yet to reach     *)
(* this CPU.                                                               *)
Fresh ==
  \A c \in CPU, v \in VA :
    /\ pc[c] \in {"kernel", "user", "commit"} /\ tlb[c][v] # None
    /\ tlb[c][v].pfn # pte[l4[c]][v]
    => \/ nmipend[c]
       \/ /\ v \in uncommitted[l4[c]]
          /\ \A d \in CPU : pc[d] = "commit" /\ arg[d] = l4[c] => c \in todo[d]

Inv == TypeOK /\ (\A c \in CPU : CpuOK(c)) /\ Alive /\ TlbOwn /\ Fresh

-----------------------------------------------------------------------------
(* The conjuncts of TypeOK that the steps below rest on.                   *)
LEMMA CpuType ==
  TypeOK => /\ cur \in [CPU -> Umap \cup {None}] /\ l4 \in [CPU -> Umap \cup {None}]
            /\ pc \in [CPU -> PC] /\ arg \in [CPU -> Umap \cup {None}]
            /\ cpumask \in [Umap -> SUBSET CPU]
            /\ \A c \in CPU : arg[c] # None <=> pc[c] \in EnterPC \cup {"commit", "x_mask"}
  BY DEF TypeOK

(* The umaps and the TLBs.                                                 *)
LEMMA MapType ==
  TypeOK => /\ state \in [Umap -> {"new", "live", "freed"}]
            /\ pte \in [Umap -> [VA -> Pfn \cup {None}]]
            /\ tlb \in [CPU -> [VA -> Entry \cup {None}]]
            /\ todo \in [CPU -> SUBSET CPU] /\ nmipend \in [CPU -> BOOLEAN]
            /\ uncommitted \in [Umap -> SUBSET VA]
  BY DEF TypeOK

-----------------------------------------------------------------------------
(* Every step keeps the types; cpu_umap_exit's last store has an argument  *)
(* because there was a current umap, and SetLeaf writes into tables that   *)
(* exist because cur and the root agree in the kernel.                     *)
LEMMA TypeStep == TypeOK /\ (\A c \in CPU : CpuOK(c)) /\ [Next]_vars => TypeOK'
<1> SUFFICES ASSUME TypeOK, \A c \in CPU : CpuOK(c), [Next]_vars PROVE TypeOK'
  OBVIOUS
<1> USE UmapConstants DEF At, Goto, umapVars, cpuVars, PC, EnterPC, ExitPC, TypeOK
<1>1. CASE UNCHANGED vars
  BY <1>1 DEF vars
<1>2. ASSUME NEW c \in CPU, NEW v \in VA, TlbLoad(c, v) PROVE TypeOK'
  <2>1. PICK p \in Pfn : tlb' = [tlb EXCEPT ![c][v] = [umap |-> l4[c], pfn |-> p]]
    BY Zenon, <1>2 DEF TlbLoad
  <2>2. [umap |-> l4[c], pfn |-> p] \in Entry
    BY <1>2 DEF TlbLoad, Entry
  <2>3. tlb' \in [CPU -> [VA -> Entry \cup {None}]]
    BY <2>1, <2>2
  <2> QED BY <1>2, <2>3 DEF TlbLoad
<1>3. ASSUME NEW c \in CPU, NEW v \in VA, TlbEvict(c, v) PROVE TypeOK'
  BY <1>3 DEF TlbEvict
<1>a. NoEntries \in [VA -> Entry \cup {None}]
  BY DEF NoEntries
<1>4. ASSUME NEW c \in CPU, cpu_nmiop(c) PROVE TypeOK'
  BY <1>4, <1>a DEF cpu_nmiop
<1>5. ASSUME NEW c \in CPU, ToUser(c) PROVE TypeOK'
  BY <1>5 DEF ToUser
<1>b. ASSUME NEW c \in CPU, ToKernel(c) PROVE TypeOK'
  BY <1>b DEF ToKernel
<1>6. ASSUME NEW c \in CPU, NEW u \in Umap, umap_init(c, u) PROVE TypeOK'
  BY <1>6 DEF umap_init
<1>7. ASSUME NEW c \in CPU, NEW u \in Umap, NEW v \in VA, NEW new \in Pfn \cup {None},
             SetLeaf(c, u, v, new)
      PROVE  TypeOK'
  <2>1. cur[c] = l4[c]
    BY <1>7 DEF SetLeaf, CpuOK, Settled
  <2> HIDE DEF TypeOK
  <2>2. /\ pte' = [pte EXCEPT ![u][v] = new]
        /\ uncommitted' = [uncommitted EXCEPT ![u] = @ \cup {v}]
        /\ changes < MaxChanges /\ changes' = changes + 1
        /\ UNCHANGED <<state, cpuVars, cpumask, tlb, pc, arg, todo, nmipend, panic>>
    BY Zenon, <1>7, <2>1 DEF SetLeaf
  <2> QED BY <2>2 DEF TypeOK
<1>8. ASSUME NEW c \in CPU, NEW u \in Umap, umap_commit(c, u) PROVE TypeOK'
  BY <1>8 DEF umap_commit
<1>9. ASSUME NEW c \in CPU, NEW d \in CPU, cpu_tlbflush(c, d) PROVE TypeOK'
  BY <1>9 DEF cpu_tlbflush
<1>10. ASSUME NEW c \in CPU, commit_return(c) PROVE TypeOK'
  BY <1>10 DEF commit_return
<1>11. ASSUME NEW c \in CPU, NEW u \in Umap, umap_free(c, u) PROVE TypeOK'
  <2>1. CASE cpumask[u] # {} /\ panic' = TRUE /\ UNCHANGED umapVars
    BY <1>11, <2>1 DEF umap_free
  <2>2. ASSUME state' = [state EXCEPT ![u] = "freed"],
               pte' = [pte EXCEPT ![u] = [v \in VA |-> None]],
               uncommitted' = [uncommitted EXCEPT ![u] = {}], UNCHANGED <<changes, panic>>,
               UNCHANGED <<cpuVars, cpumask, tlb, pc, arg, todo, nmipend>>
        PROVE  TypeOK'
    BY <2>2
  <2> QED BY Zenon, <1>11, <2>1, <2>2 DEF umap_free
<1>12. ASSUME NEW c \in CPU, NEW u \in Umap, cpu_umap_enter(c, u) PROVE TypeOK'
  BY <1>12 DEF cpu_umap_enter, atomic_cpumask_clear
<1>13. ASSUME NEW c \in CPU, enter_store(c) PROVE TypeOK'
  BY <1>13 DEF enter_store
<1>14. ASSUME NEW c \in CPU, enter_mask(c) PROVE TypeOK'
  BY <1>14 DEF enter_mask, atomic_cpumask_set
<1>15. ASSUME NEW c \in CPU, enter_load(c) PROVE TypeOK'
  BY <1>15 DEF enter_load
<1>16. ASSUME NEW c \in CPU, enter_flush(c) PROVE TypeOK'
  BY <1>16, <1>a DEF enter_flush
<1>17. ASSUME NEW c \in CPU, cpu_umap_exit(c) PROVE TypeOK'
  BY <1>17 DEF cpu_umap_exit
<1>18. ASSUME NEW c \in CPU, exit_flush(c) PROVE TypeOK'
  BY <1>18, <1>a DEF exit_flush
<1>19. ASSUME NEW c \in CPU, exit_clear(c) PROVE TypeOK'
  BY <1>19 DEF exit_clear, AfterUnload
<1>20. ASSUME NEW c \in CPU, exit_mask(c) PROVE TypeOK'
  BY <1>20 DEF exit_mask, atomic_cpumask_clear
<1>21. CASE halted
  BY <1>21 DEF halted, vars
<1> QED BY Zenon, <1>1, <1>2, <1>3, <1>4, <1>5, <1>b, <1>6, <1>7, <1>8, <1>9, <1>10, <1>11,
           <1>12, <1>13, <1>14, <1>15, <1>16, <1>17, <1>18, <1>19, <1>20, <1>21
        DEF Next, umap_map, umap_unmap

-----------------------------------------------------------------------------
(* The steps that move a CPU from one control point to another.            *)
Moves(c) ==
  \/ ToUser(c) \/ ToKernel(c) \/ commit_return(c)
  \/ \E u \in Umap : umap_commit(c, u) \/ cpu_umap_enter(c, u)
  \/ enter_store(c) \/ enter_mask(c) \/ enter_load(c) \/ enter_flush(c)
  \/ cpu_umap_exit(c) \/ exit_flush(c) \/ exit_clear(c) \/ exit_mask(c)

(* What CpuOK speaks of, and what a step of c leaves alone of it.          *)
cpuState == <<pc, arg, cur, l4, cpumask>>
Others(c) ==
  \A d \in CPU \ {c} :
    /\ pc'[d] = pc[d] /\ arg'[d] = arg[d] /\ cur'[d] = cur[d] /\ l4'[d] = l4[d]
    /\ \A u \in Umap : d \in cpumask'[u] <=> d \in cpumask[u]

(* A step of one CPU concerns its own position only.                       *)
LEMMA OthersOK ==
  ASSUME TypeOK, \A d \in CPU : CpuOK(d), NEW c \in CPU, Others(c), CpuOK(c)'
  PROVE  \A d \in CPU : CpuOK(d)'
<1> SUFFICES ASSUME NEW d \in CPU, d # c PROVE CpuOK(d)'
  OBVIOUS
<1>1. CpuOK(d)
  OBVIOUS
<1>2. /\ pc'[d] = pc[d] /\ arg'[d] = arg[d] /\ cur'[d] = cur[d] /\ l4'[d] = l4[d]
      /\ \A u \in Umap : d \in cpumask'[u] <=> d \in cpumask[u]
  BY DEF Others
<1>3. cur[d] \in Umap \cup {None} /\ l4[d] \in Umap \cup {None}
      /\ (pc[d] \in {"e_load", "x_mask"} => arg[d] \in Umap)
  BY CpuType DEF EnterPC
<1> QED BY <1>1, <1>2, <1>3 DEF CpuOK, Settled, ExitPC

(* Every step leaves every CPU where cpu_umap_enter and cpu_umap_exit      *)
(* expect it.                                                              *)
LEMMA CpuStep ==
  ASSUME TypeOK, \A c \in CPU : CpuOK(c), Alive, [Next]_vars
  PROVE  \A c \in CPU : CpuOK(c)'
<1>a. CASE UNCHANGED cpuState
  BY <1>a DEF cpuState, CpuOK
<1>b. /\ cur \in [CPU -> Umap \cup {None}] /\ l4 \in [CPU -> Umap \cup {None}]
      /\ pc \in [CPU -> PC] /\ arg \in [CPU -> Umap \cup {None}]
      /\ cpumask \in [Umap -> SUBSET CPU]
      /\ \A c \in CPU : arg[c] # None <=> pc[c] \in EnterPC \cup {"commit", "x_mask"}
  BY CpuType
<1> USE UmapConstants, <1>b DEF At, Goto, umapVars, cpuVars, EnterPC, ExitPC
<1>1. CASE UNCHANGED vars
  BY <1>1, <1>a DEF vars, cpuState
<1>2. ASSUME NEW c \in CPU, NEW v \in VA, TlbLoad(c, v) \/ TlbEvict(c, v)
      PROVE  UNCHANGED cpuState
  BY <1>2 DEF TlbLoad, TlbEvict, cpuState
<1>3. ASSUME NEW c \in CPU, cpu_nmiop(c) PROVE UNCHANGED cpuState
  BY <1>3 DEF cpu_nmiop, cpuState
<1>4. ASSUME NEW c \in CPU, NEW u \in Umap, NEW v \in VA, NEW new \in Pfn \cup {None},
             SetLeaf(c, u, v, new)
      PROVE  UNCHANGED cpuState
  BY <1>4 DEF SetLeaf, cpuState
<1>5. ASSUME NEW c \in CPU, NEW d \in CPU, cpu_tlbflush(c, d) PROVE UNCHANGED cpuState
  BY <1>5 DEF cpu_tlbflush, cpuState
<1>6. ASSUME NEW c \in CPU, NEW u \in Umap, umap_free(c, u) PROVE UNCHANGED cpuState
  BY <1>6 DEF umap_free, cpuState
<1>7. ASSUME NEW c \in CPU, NEW u \in Umap, umap_init(c, u) PROVE UNCHANGED cpuState
  <2>1. cpumask[u] = {}
    BY <1>7 DEF umap_init, Alive
  <2> QED BY <1>7, <2>1 DEF umap_init, cpuState
<1>8. ASSUME NEW c \in CPU, Moves(c) PROVE \A d \in CPU : CpuOK(d)'
  <2>1. CpuOK(c)
    OBVIOUS
  <2>2. Others(c) /\ CpuOK(c)'
    <3> USE <2>1 DEF CpuOK, Settled, Others
    <3>1. CASE ToUser(c)
      BY <3>1 DEF ToUser
    <3>2. CASE ToKernel(c)
      BY <3>2 DEF ToKernel
    <3>3. ASSUME NEW u \in Umap, umap_commit(c, u) PROVE Others(c) /\ CpuOK(c)'
      BY <3>3 DEF umap_commit
    <3>4. CASE commit_return(c)
      BY <3>4 DEF commit_return
    <3>5. ASSUME NEW u \in Umap, cpu_umap_enter(c, u) PROVE Others(c) /\ CpuOK(c)'
      BY <3>5 DEF cpu_umap_enter, atomic_cpumask_clear
    <3>6. CASE enter_store(c)
      BY <3>6 DEF enter_store
    <3>7. CASE enter_mask(c)
      BY <3>7 DEF enter_mask, atomic_cpumask_set
    <3>8. CASE enter_load(c)
      BY <3>8 DEF enter_load, hal_umap_load_tlbop
    <3>9. CASE enter_flush(c)
      BY <3>9 DEF enter_flush
    <3>10. CASE cpu_umap_exit(c)
      BY <3>10 DEF cpu_umap_exit, hal_umap_load_tlbop
    <3>11. CASE exit_flush(c)
      BY <3>11 DEF exit_flush
    <3>12. CASE exit_clear(c)
      BY <3>12 DEF exit_clear, AfterUnload
    <3>13. CASE exit_mask(c)
      BY <3>13 DEF exit_mask, atomic_cpumask_clear
    <3> HIDE DEF CpuOK, Settled, Others
    <3> QED BY Zenon, <1>8, <3>1, <3>2, <3>3, <3>4, <3>5, <3>6, <3>7, <3>8, <3>9, <3>10,
               <3>11, <3>12, <3>13 DEF Moves
  <2> QED BY <2>2, OthersOK
<1>9. CASE halted
  BY <1>9, <1>1 DEF halted
<1> HIDE DEF CpuOK
<1> QED BY Zenon, <1>a, <1>1, <1>2, <1>3, <1>4, <1>5, <1>6, <1>7, <1>8, <1>9
        DEF Next, Moves, umap_map, umap_unmap

-----------------------------------------------------------------------------
(* umap_free is refused while a cpumask bit is set, and its caller waits   *)
(* for those who enter.                                                    *)
LEMMA AliveStep ==
  ASSUME TypeOK, \A c \in CPU : CpuOK(c), Alive, [Next]_vars
  PROVE  Alive'
<1>a. /\ pc \in [CPU -> PC] /\ arg \in [CPU -> Umap \cup {None}]
      /\ cpumask \in [Umap -> SUBSET CPU]
      /\ \A c \in CPU : arg[c] # None <=> pc[c] \in EnterPC \cup {"commit", "x_mask"}
      /\ state \in [Umap -> {"new", "live", "freed"}]
  BY CpuType, MapType
<1> USE UmapConstants, <1>a DEF At, Goto, umapVars, cpuVars, EnterPC, Alive
<1>1. CASE UNCHANGED vars
  BY <1>1 DEF vars, umapVars
<1>2. ASSUME NEW c \in CPU, NEW v \in VA, TlbLoad(c, v) PROVE Alive'
  BY <1>2 DEF TlbLoad
<1>3. ASSUME NEW c \in CPU, NEW v \in VA, TlbEvict(c, v) PROVE Alive'
  BY <1>3 DEF TlbEvict
<1>4. ASSUME NEW c \in CPU, cpu_nmiop(c) PROVE Alive'
  BY <1>4 DEF cpu_nmiop
<1>5. ASSUME NEW c \in CPU, ToUser(c) PROVE Alive'
  BY <1>5 DEF ToUser
<1>6. ASSUME NEW c \in CPU, ToKernel(c) PROVE Alive'
  BY <1>6 DEF ToKernel
<1>7. ASSUME NEW c \in CPU, NEW u \in Umap, umap_init(c, u) PROVE Alive'
  BY <1>7 DEF umap_init
<1>8. ASSUME NEW c \in CPU, NEW u \in Umap, NEW v \in VA, NEW new \in Pfn \cup {None},
             SetLeaf(c, u, v, new)
      PROVE  Alive'
  BY <1>8 DEF SetLeaf
<1>9. ASSUME NEW c \in CPU, NEW u \in Umap, umap_commit(c, u) PROVE Alive'
  BY <1>9 DEF umap_commit
<1>10. ASSUME NEW c \in CPU, NEW d \in CPU, cpu_tlbflush(c, d) PROVE Alive'
  BY <1>10 DEF cpu_tlbflush
<1>11. ASSUME NEW c \in CPU, commit_return(c) PROVE Alive'
  BY <1>11 DEF commit_return
<1>12. ASSUME NEW c \in CPU, NEW u \in Umap, umap_free(c, u) PROVE Alive'
  BY <1>12 DEF umap_free
<1>13. ASSUME NEW c \in CPU, NEW u \in Umap, cpu_umap_enter(c, u) PROVE Alive'
  BY <1>13 DEF cpu_umap_enter, atomic_cpumask_clear
<1>14. ASSUME NEW c \in CPU, enter_store(c) PROVE Alive'
  BY <1>14 DEF enter_store
<1>15. ASSUME NEW c \in CPU, enter_mask(c) PROVE Alive'
  BY <1>15 DEF enter_mask, atomic_cpumask_set
<1>16. ASSUME NEW c \in CPU, enter_load(c) PROVE Alive'
  BY <1>16 DEF enter_load, hal_umap_load_tlbop
<1>17. ASSUME NEW c \in CPU, enter_flush(c) PROVE Alive'
  BY <1>17 DEF enter_flush
<1>18. ASSUME NEW c \in CPU, cpu_umap_exit(c) PROVE Alive'
  BY <1>18 DEF cpu_umap_exit, hal_umap_load_tlbop
<1>19. ASSUME NEW c \in CPU, exit_flush(c) PROVE Alive'
  BY <1>19 DEF exit_flush
<1>20. ASSUME NEW c \in CPU, exit_clear(c) PROVE Alive'
  BY <1>20 DEF exit_clear, AfterUnload
<1>21. ASSUME NEW c \in CPU, exit_mask(c) PROVE Alive'
  BY <1>21 DEF exit_mask, atomic_cpumask_clear
<1>22. CASE halted
  BY <1>22, <1>1 DEF halted
<1> HIDE DEF Alive
<1> QED BY Zenon, <1>1, <1>2, <1>3, <1>4, <1>5, <1>6, <1>7, <1>8, <1>9, <1>10, <1>11, <1>12, <1>13,
           <1>14, <1>15, <1>16, <1>17, <1>18, <1>19, <1>20, <1>21, <1>22
        DEF Next, umap_map, umap_unmap

(* Every flush is done before the next entries are used, and the tables    *)
(* are replaced only on the way to a flush, or when none were loaded.      *)
LEMMA TlbOwnStep ==
  ASSUME TypeOK, \A c \in CPU : CpuOK(c), TlbOwn, [Next]_vars
  PROVE  TlbOwn'
<1>a. /\ pc \in [CPU -> PC] /\ l4 \in [CPU -> Umap \cup {None}]
      /\ tlb \in [CPU -> [VA -> Entry \cup {None}]]
  BY CpuType, MapType
<1>b. \A c \in CPU, v \in VA : tlb[c][v] # None => tlb[c][v].umap # None
  BY <1>a, UmapConstants DEF Entry
<1> USE UmapConstants, <1>a, <1>b DEF At, Goto, umapVars, cpuVars, TlbOwn
<1>1. CASE UNCHANGED vars
  BY <1>1 DEF vars, cpuVars
<1>2. ASSUME NEW c \in CPU, NEW v \in VA, TlbLoad(c, v) PROVE TlbOwn'
  BY <1>2 DEF TlbLoad
<1>3. ASSUME NEW c \in CPU, NEW v \in VA, TlbEvict(c, v) PROVE TlbOwn'
  BY <1>3 DEF TlbEvict
<1>4. ASSUME NEW c \in CPU, cpu_nmiop(c) PROVE TlbOwn'
  BY <1>4 DEF cpu_nmiop, NoEntries
<1>5. ASSUME NEW c \in CPU, ToUser(c) PROVE TlbOwn'
  BY <1>5 DEF ToUser
<1>6. ASSUME NEW c \in CPU, ToKernel(c) PROVE TlbOwn'
  BY <1>6 DEF ToKernel
<1>7. ASSUME NEW c \in CPU, NEW u \in Umap, umap_init(c, u) PROVE TlbOwn'
  BY <1>7 DEF umap_init
<1>8. ASSUME NEW c \in CPU, NEW u \in Umap, NEW v \in VA, NEW new \in Pfn \cup {None},
             SetLeaf(c, u, v, new)
      PROVE  TlbOwn'
  BY <1>8 DEF SetLeaf
<1>9. ASSUME NEW c \in CPU, NEW u \in Umap, umap_commit(c, u) PROVE TlbOwn'
  BY <1>9 DEF umap_commit
<1>10. ASSUME NEW c \in CPU, NEW d \in CPU, cpu_tlbflush(c, d) PROVE TlbOwn'
  BY <1>10 DEF cpu_tlbflush
<1>11. ASSUME NEW c \in CPU, commit_return(c) PROVE TlbOwn'
  BY <1>11 DEF commit_return
<1>12. ASSUME NEW c \in CPU, NEW u \in Umap, umap_free(c, u) PROVE TlbOwn'
  BY <1>12 DEF umap_free
<1>13. ASSUME NEW c \in CPU, NEW u \in Umap, cpu_umap_enter(c, u) PROVE TlbOwn'
  BY <1>13 DEF cpu_umap_enter, atomic_cpumask_clear
<1>14. ASSUME NEW c \in CPU, enter_store(c) PROVE TlbOwn'
  BY <1>14 DEF enter_store
<1>15. ASSUME NEW c \in CPU, enter_mask(c) PROVE TlbOwn'
  BY <1>15 DEF enter_mask, atomic_cpumask_set
<1>16. ASSUME NEW c \in CPU, enter_load(c) PROVE TlbOwn'
  BY <1>16 DEF enter_load, hal_umap_load_tlbop
<1>17. ASSUME NEW c \in CPU, enter_flush(c) PROVE TlbOwn'
  BY <1>17 DEF enter_flush, NoEntries
<1>18. ASSUME NEW c \in CPU, cpu_umap_exit(c) PROVE TlbOwn'
  BY <1>18 DEF cpu_umap_exit, hal_umap_load_tlbop
<1>19. ASSUME NEW c \in CPU, exit_flush(c) PROVE TlbOwn'
  BY <1>19 DEF exit_flush, NoEntries
<1>20. ASSUME NEW c \in CPU, exit_clear(c) PROVE TlbOwn'
  BY <1>20 DEF exit_clear, AfterUnload
<1>21. ASSUME NEW c \in CPU, exit_mask(c) PROVE TlbOwn'
  BY <1>21 DEF exit_mask, atomic_cpumask_clear
<1>22. CASE halted
  BY <1>22, <1>1 DEF halted
<1> HIDE DEF TlbOwn
<1> QED BY Zenon, <1>1, <1>2, <1>3, <1>4, <1>5, <1>6, <1>7, <1>8, <1>9, <1>10, <1>11, <1>12, <1>13,
           <1>14, <1>15, <1>16, <1>17, <1>18, <1>19, <1>20, <1>21, <1>22
        DEF Next, umap_map, umap_unmap

(* A change is followed from the page table to the last NMI: it is         *)
(* uncommitted before umap_commit reads the mask, the mask has every CPU   *)
(* with the umap loaded, and each of them is sent its NMI.                 *)
LEMMA FreshStep ==
  ASSUME TypeOK, \A c \in CPU : CpuOK(c), Alive, TlbOwn, Fresh, [Next]_vars
  PROVE  Fresh'
<1>a. /\ pc \in [CPU -> PC] /\ l4 \in [CPU -> Umap \cup {None}]
      /\ arg \in [CPU -> Umap \cup {None}] /\ cpumask \in [Umap -> SUBSET CPU]
      /\ tlb \in [CPU -> [VA -> Entry \cup {None}]] /\ todo \in [CPU -> SUBSET CPU]
      /\ pte \in [Umap -> [VA -> Pfn \cup {None}]] /\ nmipend \in [CPU -> BOOLEAN]
      /\ uncommitted \in [Umap -> SUBSET VA]
  BY CpuType, MapType
<1>b. \A c \in CPU, v \in VA :
        pc[c] \notin {"e_flush", "x_flush"} /\ tlb[c][v] # None => l4[c] \in Umap
  BY <1>a, UmapConstants DEF Entry, TlbOwn
<1>c. \A c \in CPU :
        /\ pc[c] \in {"kernel", "user", "commit"} =>
             cur[c] = l4[c] /\ (l4[c] # None => c \in cpumask[l4[c]] /\ state[l4[c]] = "live")
        /\ pc[c] \in ExitPC => l4[c] = None
  BY <1>a DEF CpuOK, Settled, Alive
<1> USE UmapConstants, <1>a, <1>b, <1>c DEF At, Goto, umapVars, cpuVars, ExitPC, Fresh
<1>1. CASE UNCHANGED vars
  BY <1>1 DEF vars
<1>2. ASSUME NEW c \in CPU, NEW w \in VA, TlbLoad(c, w) PROVE Fresh'
  BY <1>2 DEF TlbLoad
<1>3. ASSUME NEW c \in CPU, NEW w \in VA, TlbEvict(c, w) PROVE Fresh'
  BY <1>3 DEF TlbEvict
<1>4. ASSUME NEW c \in CPU, cpu_nmiop(c) PROVE Fresh'
  BY <1>4 DEF cpu_nmiop, NoEntries
<1>5. ASSUME NEW c \in CPU, ToUser(c) PROVE Fresh'
  BY <1>5 DEF ToUser
<1>6. ASSUME NEW c \in CPU, ToKernel(c) PROVE Fresh'
  BY <1>6 DEF ToKernel
<1>7. ASSUME NEW c \in CPU, NEW u \in Umap, umap_init(c, u) PROVE Fresh'
  BY <1>7 DEF umap_init
<1>8. ASSUME NEW c \in CPU, NEW u \in Umap, NEW w \in VA, NEW new \in Pfn \cup {None},
            SetLeaf(c, u, w, new)
     PROVE  Fresh'
  BY <1>8 DEF SetLeaf, Mine
<1>9. ASSUME NEW c \in CPU, NEW u \in Umap, umap_commit(c, u) PROVE Fresh'
  BY <1>9 DEF umap_commit, Mine
<1>10. ASSUME NEW c \in CPU, NEW d \in CPU, cpu_tlbflush(c, d) PROVE Fresh'
  BY <1>10 DEF cpu_tlbflush
<1>11. ASSUME NEW c \in CPU, commit_return(c) PROVE Fresh'
  BY <1>11 DEF commit_return
<1>12. ASSUME NEW c \in CPU, NEW u \in Umap, umap_free(c, u) PROVE Fresh'
  <2>1. CASE UNCHANGED <<pte, uncommitted>>
    BY <1>12, <2>1 DEF umap_free
  <2>2. ASSUME cpumask[u] = {}, pte' = [pte EXCEPT ![u] = [v \in VA |-> None]],
               uncommitted' = [uncommitted EXCEPT ![u] = {}]
        PROVE  Fresh'
    <3>1. \A d \in CPU : pc[d] \in {"kernel", "user", "commit"} => l4[d] # u
      BY Zenon, <2>2
    <3>2. UNCHANGED <<l4, tlb, pc, arg, todo, nmipend>>
      BY <1>12 DEF umap_free
    <3> QED BY <2>2, <3>1, <3>2
  <2> QED BY Zenon, <1>12, <2>1, <2>2 DEF umap_free
<1>13. ASSUME NEW c \in CPU, NEW u \in Umap, cpu_umap_enter(c, u) PROVE Fresh'
  BY <1>13 DEF cpu_umap_enter
<1>14. ASSUME NEW c \in CPU, enter_store(c) PROVE Fresh'
  BY <1>14 DEF enter_store
<1>15. ASSUME NEW c \in CPU, enter_mask(c) PROVE Fresh'
  BY <1>15 DEF enter_mask
<1>16. ASSUME NEW c \in CPU, enter_load(c) PROVE Fresh'
  BY <1>16 DEF enter_load, hal_umap_load_tlbop
<1>17. ASSUME NEW c \in CPU, enter_flush(c) PROVE Fresh'
  BY <1>17 DEF enter_flush, NoEntries
<1>18. ASSUME NEW c \in CPU, cpu_umap_exit(c) PROVE Fresh'
  BY <1>18 DEF cpu_umap_exit, hal_umap_load_tlbop
<1>19. ASSUME NEW c \in CPU, exit_flush(c) PROVE Fresh'
  BY <1>19 DEF exit_flush
<1>20. ASSUME NEW c \in CPU, exit_clear(c) PROVE Fresh'
  BY <1>20 DEF exit_clear, AfterUnload
<1>21. ASSUME NEW c \in CPU, exit_mask(c) PROVE Fresh'
  <2>1. \A v \in VA : tlb[c][v] = None
    BY <1>21 DEF exit_mask
  <2> QED BY <1>21, <2>1 DEF exit_mask
<1>22. CASE halted
  BY <1>22, <1>1 DEF halted
<1> HIDE DEF Fresh
<1> QED BY Zenon, <1>1, <1>2, <1>3, <1>4, <1>5, <1>6, <1>7, <1>8, <1>9, <1>10, <1>11, <1>12, <1>13,
           <1>14, <1>15, <1>16, <1>17, <1>18, <1>19, <1>20, <1>21, <1>22
        DEF Next, umap_map, umap_unmap

-----------------------------------------------------------------------------
(* The invariant is inductive.                                             *)
LEMMA InvStep == Inv /\ [Next]_vars => Inv'
  BY TypeStep, CpuStep, AliveStep, TlbOwnStep, FreshStep DEF Inv

(* It holds at boot and after every step.                                  *)
THEOREM InvHolds == Spec => []Inv
<1>1. Init => Inv
  <2> SUFFICES ASSUME Init PROVE Inv
    OBVIOUS
  <2>1. TypeOK
    <3>1. /\ pte \in [Umap -> [VA -> Pfn \cup {None}]]
          /\ tlb \in [CPU -> [VA -> Entry \cup {None}]]
      BY DEF Init, NoEntries
    <3>2. /\ pc \in [CPU -> PC]
          /\ \A c \in CPU : arg[c] # None <=> pc[c] \in EnterPC \cup {"commit", "x_mask"}
      BY DEF Init, PC, EnterPC
    <3>3. changes \in 0 .. MaxChanges
      BY UmapConstants DEF Init
    <3> QED BY Zenon, <3>1, <3>2, <3>3 DEF Init, TypeOK
  <2>2. (\A c \in CPU : CpuOK(c)) /\ Alive
    BY DEF Init, CpuOK, Settled, Alive, EnterPC, ExitPC
  <2>3. TlbOwn /\ Fresh
    BY DEF Init, TlbOwn, Fresh, NoEntries
  <2> QED BY <2>1, <2>2, <2>3 DEF Inv
<1> QED BY <1>1, InvStep, PTL DEF Spec

(* The state of umap.c and cpu.c keeps its types: an argument is at hand   *)
(* wherever the code uses one.                                             *)
THEOREM TypeCorrect == Spec => []TypeOK
<1>1. Inv => TypeOK
  BY DEF Inv
<1> QED BY <1>1, InvHolds, PTL

(* A umap's cpumask has every CPU that walks its tables, whoever enters,   *)
(* leaves and frees umaps at the same time.                                *)
THEOREM MaskCoversWalkers == Spec => []MaskCovers
<1>1. Inv => MaskCovers
  BY CpuType DEF Inv, CpuOK, Settled, MaskCovers, PC, EnterPC, ExitPC
<1> QED BY <1>1, InvHolds, PTL

(* User code runs on the mappings of its own umap, up to changes not yet   *)
(* committed and NMIs on their way.                                        *)
THEOREM UserSeesItsUmap == Spec => []UserView
<1>1. Inv => UserView
  BY DEF Inv, CpuOK, Settled, TlbOwn, Fresh, UserView
<1> QED BY <1>1, InvHolds, PTL

=============================================================================
