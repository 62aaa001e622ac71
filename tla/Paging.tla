------------------------------- MODULE Paging -------------------------------
(***************************************************************************)
(* What libnux does with the page tables of the HAL it is built with:      *)
(* umap.c, cpu_umap_enter and cpu_umap_exit, _kmap_map, and the start of a *)
(* CPU.  `arch' names the HAL: pae64 and pae32 of x86, sv48 of RISC-V.     *)
(* Callers serialise the operations on a umap, so each is one step; TLBs   *)
(* are the subject of Umap and KTlb.                                       *)
(***************************************************************************)
EXTENDS PageTable

CONSTANTS
  Archs,     \* the HALs to start with
  UserPage,  \* user pages operated on, for each HAL
  KVA,       \* kernel pages mapped and unmapped, from 0
  EVA,       \* kernel pages of the heap and the slabs, which own their frames
  NoUmap,
  MaxOps     \* bound: operations in a behaviour

PagingConstants ==
  /\ PageTableConstants /\ Archs \subseteq {"pae64", "pae32", "sv48"}
  /\ KVA \cap EVA = {} /\ NoUmap \notin Umap /\ MaxOps \in Nat

VARIABLES
  arch,      \* the HAL
  st,        \* the tables and the free pages
  cur,       \* cpu_info.umap
  live,      \* umaps between init, or bootstrap, and free
  up,        \* CPUs that have started
  booted,    \* umap_bootstrap has run
  holed,     \* history: umaps entered while a slot had no table
  seen,      \* history: what map, unmap and chflags left at each address
  ops,       \* operations so far
  halted     \* an assertion failed or the kernel faulted

vars == <<arch, st, cur, live, up, booted, holed, seen, ops, halted>>

A == INSTANCE Pae64
B == INSTANCE Pae32
V == INSTANCE Sv48

UVA == UserPage[arch]
AnyUVA == UNION {UserPage[a] : a \in Archs}
Unmapped == [va \in UVA |-> Zero]
Depth == IF arch = "pae32" THEN 3 ELSE 4
UserEnd == IF arch = "pae64" THEN A!pt_umap_maxaddr
           ELSE IF arch = "pae32" THEN B!pt_umap_maxaddr ELSE V!pt_umap_maxaddr
UserPages == 0 .. UserEnd - 1

(* Kernel addresses follow the user slots.                                 *)
KAddr(va) == UserEnd + va

-----------------------------------------------------------------------------
(* The HAL.                                                                *)
umap_get_l1p(r, va, alloc) ==
  IF arch = "pae64" THEN A!umap_get_l1p(st, r, va, alloc)
  ELSE IF arch = "pae32" THEN B!umap_get_l1p(st, r, va, alloc)
  ELSE V!umap_get_l1p(st, r, va, alloc)

kmap_get_l1p(c, va, alloc) ==
  IF arch = "pae64" THEN A!kmap_get_l1p(st, c, va, alloc)
  ELSE IF arch = "pae32" THEN B!kmap_get_l1p(st, c, va, alloc)
  ELSE V!cpumap_get_l1p(st, c, va, alloc)

hal_umap_init(u) ==
  IF arch = "pae64" THEN A!hal_umap_init(st, u)
  ELSE IF arch = "pae32" THEN B!hal_umap_init(st, u) ELSE V!hal_umap_init(st, u)

hal_umap_bootstrap(u) ==
  IF arch = "pae64" THEN A!hal_umap_bootstrap(st, u)
  ELSE IF arch = "pae32" THEN B!hal_umap_bootstrap(st, u) ELSE V!hal_umap_bootstrap(st, u)

hal_umap_load(c, u) ==
  IF arch = "pae64" THEN A!hal_umap_load(st, c, u)
  ELSE IF arch = "pae32" THEN B!hal_umap_load(st, c, u) ELSE V!hal_umap_load(st, c, u)

hal_umap_free(u) ==
  IF arch = "pae64" THEN A!pt_umap_free(st, u)
  ELSE IF arch = "pae32" THEN B!pt_umap_free(st, u) ELSE V!pt_umap_free(st, u)

hal_umap_next(r, uaddr) ==
  IF arch = "pae64" THEN A!pt_umap_next(st, r, uaddr)
  ELSE IF arch = "pae32" THEN B!pt_umap_next(st, r, uaddr) ELSE V!pt_umap_next(st, r, uaddr)

Faults(r, va, alloc) == arch = "pae32" /\ B!fault(st, r, va, alloc)

-----------------------------------------------------------------------------
(* Mutant: the kernel's top-level slot is left empty at boot.              *)
NoTopAlloc(s) == s

(* What APXH leaves behind: the kernel slot's table, and the tables of a   *)
(* user payload at address 0 when there is one.                            *)
KernelSlot(s) == TableOf([st |-> s, ptep |-> <<Boot, Slots>>], TRUE).st

BootTables(a, payload) ==
  LET k == KernelSlot(NoTables)
      l1 == IF a = "pae32" THEN B!umap_get_l1p(k, Boot, 0, TRUE)
            ELSE A!umap_get_l1p(k, Boot, 0, TRUE)
      user == IF payload THEN set_pte(l1.st, l1.ptep, <<Min(Leaf), TRUE>>) ELSE k
  IN  [user EXCEPT !.tab[Cr3] = IF a = "pae32" THEN user.tab[Boot] ELSE EmptyRoot]

Init ==
  /\ arch \in Archs
  /\ \E payload \in BOOLEAN : st = BootTables(arch, payload)
  /\ cur = [c \in CPU |-> NoUmap] /\ live = {} /\ up = {Boot} /\ booted = FALSE /\ holed = {}
  /\ seen = [u \in Umap |-> Unmapped]
  /\ ops = 0 /\ halted = FALSE

Running(c) == c \in up /\ ~halted /\ ops < MaxOps /\ ops' = ops + 1
Halt == halted' = TRUE /\ UNCHANGED <<arch, st, cur, live, up, booted, holed, seen>>

(* libnux names the current umap NULL for the HAL, in umap_map only.       *)
HalOf(c, u) == IF u = cur[c] THEN c ELSE u

umap_init(c, u) ==
  /\ Running(c) /\ u \notin live
  /\ st' = hal_umap_init(u)
  /\ live' = live \cup {u}
  /\ seen' = [seen EXCEPT ![u] = Unmapped]
  /\ holed' = holed \ {u}
  /\ UNCHANGED <<arch, cur, up, booted, halted>>

(* The entry of address va below root r, zero when a table is missing.     *)
Deref(t, i) == IF t = NoPfn \/ ~pte_present(st.tab[t][i]) THEN NoPfn ELSE st.tab[t][i][1]
L1Table(r, va) ==
  IF Depth = 3 THEN Deref(Deref(r, TopOff(3, va)), Off(2, va))
  ELSE Deref(Deref(Deref(r, TopOff(4, va)), Off(3, va)), Off(2, va))
L1Entry(r, va) ==
  IF L1Table(r, va) = NoPfn THEN Zero ELSE st.tab[L1Table(r, va)][Off(1, va)]

(* Once, on the boot CPU; asserts that it finds the memory.                *)
umap_bootstrap(u) ==
  /\ Running(Boot) /\ ~booted /\ live = {} /\ cur[Boot] = NoUmap /\ up = {Boot}
  /\ IF \E i \in 0 .. Slots - 1 : hal_umap_bootstrap(u).tab[u][i][1] = NoPfn
     THEN Halt
     ELSE /\ st' = hal_umap_bootstrap(u)
          /\ live' = {u} /\ booted' = TRUE
          /\ seen' = [seen EXCEPT ![u] = [va \in UVA |-> L1Entry(Boot, va)]]
          /\ UNCHANGED <<arch, cur, up, holed, halted>>

(* _umap_setl1e with alloc: no memory, no change but the tables made.      *)
umap_map(c, u, va, pfn) ==
  LET w == umap_get_l1p(HalOf(c, u), va, TRUE)
  IN  /\ Running(c) /\ u \in live /\ va \in UVA
      /\ \/ Faults(HalOf(c, u), va, TRUE) /\ Halt
         \/ /\ ~Faults(HalOf(c, u), va, TRUE)
            /\ IF w.ptep = PTEP_INVALID THEN st' = w.st /\ seen' = seen
               ELSE /\ st' = set_pte(w.st, w.ptep, hal_l1e_box(pfn, TRUE))
                    /\ seen' = [seen EXCEPT ![u][va] = hal_l1e_box(pfn, TRUE)]
            /\ UNCHANGED <<arch, cur, live, up, booted, holed, halted>>

(* umap_unmap and umap_chflags go through &umap->hal, current or not.      *)
Change(c, u, va, e) ==
  LET w == umap_get_l1p(u, va, FALSE)
  IN  /\ Running(c) /\ u \in live /\ va \in UVA
      /\ \/ Faults(u, va, FALSE) /\ Halt
         \/ /\ ~Faults(u, va, FALSE) /\ w.ptep # PTEP_INVALID
            /\ st' = set_pte(st, w.ptep, e)
            /\ seen' = [seen EXCEPT ![u][va] = e]
            /\ UNCHANGED <<arch, cur, live, up, booted, holed, halted>>

umap_unmap(c, u, va) == Change(c, u, va, hal_l1e_box(PFN_INVALID, FALSE))

(* The change of permissions that matters here: HAL_PTE_P is cleared.      *)
umap_chflags(c, u, va) ==
  LET old == get_pte(st, umap_get_l1p(u, va, FALSE).ptep)
  IN  Change(c, u, va, hal_l1e_box(hal_l1e_unbox(old).pfn, FALSE))

Complete(u) == \A i \in 0 .. Slots - 1 : pte_present(st.tab[u][i])

cpu_umap_enter(c, u) ==
  /\ Running(c) /\ u \in live /\ cur[c] # u
  /\ st' = hal_umap_load(c, u)
  /\ cur' = [cur EXCEPT ![c] = u]
  /\ holed' = IF Complete(u) THEN holed ELSE holed \cup {u}
  /\ UNCHANGED <<arch, live, up, booted, seen, halted>>

cpu_umap_exit(c) ==
  /\ Running(c) /\ cur[c] # NoUmap
  /\ st' = hal_umap_load(c, Zero)
  /\ cur' = [cur EXCEPT ![c] = NoUmap]
  /\ UNCHANGED <<arch, live, up, booted, holed, seen, halted>>

(* Mutant: the assertion on cpumask is gone.                               *)
FreeLoaded(c, u) ==
  /\ Running(c) /\ u \in live
  /\ st' = hal_umap_free(u)
  /\ live' = live \ {u}
  /\ seen' = [seen EXCEPT ![u] = Unmapped]
  /\ UNCHANGED <<arch, cur, up, booted, holed, halted>>

(* cpumask is empty: no CPU has entered the umap.                          *)
umap_free(c, u) ==
  /\ Running(c) /\ u \in live /\ \A d \in CPU : cur[d] # u
  /\ st' = hal_umap_free(u)
  /\ live' = live \ {u}
  /\ seen' = [seen EXCEPT ![u] = Unmapped]
  /\ UNCHANGED <<arch, cur, up, booted, holed, halted>>

(* kmap.c: _kmap_map asserts that it finds the memory for the tables.      *)
KmapSet(s) == st' = s /\ UNCHANGED <<arch, cur, live, up, booted, holed, seen, halted>>

kmap_map(c, va, pfn) ==
  LET w == kmap_get_l1p(c, KAddr(va), TRUE)
  IN  /\ Running(c)
      /\ IF w.ptep = PTEP_INVALID THEN Halt
         ELSE KmapSet(set_pte(w.st, w.ptep, hal_l1e_box(pfn, TRUE)))

kmap_unmap(c, va) ==
  LET w == kmap_get_l1p(c, KAddr(va), FALSE)
  IN  /\ Running(c) /\ w.ptep # PTEP_INVALID
      /\ KmapSet(set_pte(st, w.ptep, hal_l1e_box(0, FALSE)))

(* kmap_ensure, to the presence p: a page that becomes present is taken    *)
(* from the allocator, after the tables; one that goes is given back.      *)
EnsureAbsent(ptep, pfn) ==
  KmapSet(set_pte(pfn_free(st, {pfn}), ptep, hal_l1e_box(PFN_INVALID, FALSE)))

EnsurePresent(w, new) ==
  IF w.ptep = PTEP_INVALID THEN Halt
  ELSE KmapSet(IF new.pte = Zero THEN w.st
               ELSE set_pte(new.st, w.ptep, hal_l1e_box(new.pte[1], TRUE)))

kmap_ensure(c, va, p) ==
  LET look == kmap_get_l1p(c, KAddr(va), FALSE)
      w == kmap_get_l1p(c, KAddr(va), TRUE)
      e == hal_l1e_unbox(IF look.ptep = PTEP_INVALID THEN Zero ELSE get_pte(st, look.ptep))
  IN  /\ Running(c) /\ e.present # p
      /\ IF p THEN EnsurePresent(w, alloc_table(w.st)) ELSE EnsureAbsent(look.ptep, e.pfn)

(* A second CPU starts from the boot CPU's tables: amd64 only.             *)
hal_main_ap(c) ==
  /\ Running(Boot) /\ arch = "pae64" /\ c \notin up
  /\ st' = A!pae64_init_ap(st, c)
  /\ up' = up \cup {c}
  /\ UNCHANGED <<arch, cur, live, booted, holed, seen, halted>>


Stop == (halted \/ ops = MaxOps) /\ UNCHANGED vars

Next ==
  \/ \E c \in CPU, u \in Umap : \/ umap_init(c, u)
                                \/ cpu_umap_enter(c, u)
                                \/ umap_free(c, u)
  \/ \E c \in CPU, u \in Umap, va \in AnyUVA :
       \/ \E pfn \in Leaf : umap_map(c, u, va, pfn)
       \/ umap_unmap(c, u, va)
       \/ umap_chflags(c, u, va)
  \/ \E u \in Umap : umap_bootstrap(u)
  \/ \E c \in CPU : cpu_umap_exit(c) \/ hal_main_ap(c)
  \/ \E c \in CPU, va \in KVA : kmap_unmap(c, va) \/ \E pfn \in Leaf : kmap_map(c, va, pfn)
  \/ \E c \in CPU, va \in EVA, p \in BOOLEAN : kmap_ensure(c, va, p)
  \/ Stop

Spec == Init /\ [][Next]_vars

-----------------------------------------------------------------------------
TypeOK ==
  /\ arch \in Archs
  /\ st.free \subseteq Page
  /\ \A t \in Page : st.tab[t] \in [0 .. Fan - 1 -> Entry]
  /\ \A t \in Root : st.tab[t] \in [0 .. Slots -> Entry]
  /\ cur \in [CPU -> Umap \cup {NoUmap}] /\ live \subseteq Umap /\ holed \subseteq Umap /\ up \subseteq CPU
  /\ seen \in [Umap -> [UVA -> Entry]]
  /\ ops \in 0 .. MaxOps /\ booted \in BOOLEAN /\ halted \in BOOLEAN
  /\ \A c \in CPU : cur[c] # NoUmap => cur[c] \in live /\ c \in up

(* CPUs that have entered a umap.                                          *)
Inside == {c \in up : cur[c] # NoUmap}

(* hal_umap_next returns the first address after uaddr whose L1 entry is   *)
(* not zero, wherever the boundaries between tables fall, for a umap and   *)
(* for the current mappings.  Where pae32 would fault it returns nothing.  *)
Follows(r, uaddrs) ==
  LET mapped == {a \in UserPages : L1Entry(r, a) # Zero}
  IN  \A uaddr \in uaddrs :
        LET after == {a \in mapped : a > uaddr}
        IN  hal_umap_next(r, uaddr) = IF after = {} THEN -1 ELSE Min(after)
NextIsNext ==
  arch # "sv48" => \A r \in live \cup Inside :
    Follows(r, {a \in UserPages : ~Faults(r, a, FALSE)})

(* The same of sv48.c.                                                     *)
NextIsNextSv48 == arch = "sv48" => \A r \in live \cup Inside : Follows(r, UserPages)

(* The tables are tables, and one in use is allocated and has one place:   *)
(* no table that a live umap, a CPU inside a umap or the kernel reaches is *)
(* free, and no two entries of the live umaps and their tables point at    *)
(* the same one.  The pages that kmap_ensure mapped are neither free nor   *)
(* tables.                                                                 *)
Tops(r) == UNION {Below(st.tab[r][i]) : i \in 0 .. Slots - 1}
Tables(r) ==
  LET l2 == UNION {Children(st, t) : t \in Tops(r)}
  IN  Tops(r) \cup l2 \cup IF Depth = 3 THEN {} ELSE UNION {Children(st, t) : t \in l2}
Ensured(c, va) == Below(L1Entry(c, KAddr(va)))
TablesSound ==
  /\ TypeOK
  /\ \A r \in live \cup Inside : Tables(r) \cap st.free = {}
  /\ \A u, v \in live : u # v => Tables(u) \cap Tables(v) = {}
  /\ \A c \in up : /\ Below(st.tab[c][Slots]) \cap st.free = {}
                   /\ \A va \in EVA : Ensured(c, va) \cap st.free = {}
  /\ \A r \in live, va \in EVA : Tables(r) \cap Ensured(Boot, va) = {}

(* What umap_map, umap_unmap and umap_chflags left at an address is what   *)
(* the umap's own tables hold, and what the processor finds on every CPU   *)
(* inside the umap, unless it was entered while a slot had no table.       *)
HwRoot(c) == IF arch = "pae32" THEN Cr3 ELSE c
UmapView ==
  \A u \in live \ holed, va \in UVA :
    /\ L1Entry(u, va) = seen[u][va]
    /\ \A c \in CPU : cur[c] = u => L1Entry(HwRoot(c), va) = seen[u][va]

(* The kernel's mappings are the same on every CPU, whoever made them:     *)
(* "static and shared across CPUs".                                        *)
KmapShared ==
  \A c, d \in up, va \in KVA \cup EVA : L1Entry(c, KAddr(va)) = L1Entry(d, KAddr(va))
=============================================================================
