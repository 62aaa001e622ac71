-------------------------------- MODULE Sv48 --------------------------------
(***************************************************************************)
(* libhal_riscv/sv48.c: four levels, every table reached through pfn_get.  *)
(* A root r is a umap, or the CPU (the table satp points at) for NULL.     *)
(***************************************************************************)
EXTENDS PageTable

mkaddr(l4off, l3off, l2off, l1off) ==
  l4off * Fan ^ 3 + l3off * Fan ^ 2 + l2off * Fan + l1off
pt_umap_maxaddr == Slots * Fan ^ 3

get_cpumap_l4ptr(c, va) == <<c, TopOff(4, va)>>

walk_l3pfn(st, l4ptr, va, alloc) == TableOf([st |-> st, ptep |-> l4ptr], alloc)
walk_l3p(st, l4ptr, va, alloc) == EntryOf(walk_l3pfn(st, l4ptr, va, alloc), Off(3, va))
walk_l2pfn(st, l4ptr, va, alloc) == TableOf(walk_l3p(st, l4ptr, va, alloc), alloc)
walk_l2p(st, l4ptr, va, alloc) == EntryOf(walk_l2pfn(st, l4ptr, va, alloc), Off(2, va))
walk_l1pfn(st, l4ptr, va, alloc) == TableOf(walk_l2p(st, l4ptr, va, alloc), alloc)
walk_l1p(st, l4ptr, va, alloc) == EntryOf(walk_l1pfn(st, l4ptr, va, alloc), Off(1, va))

cpumap_get_l1p(st, c, va, alloc) == walk_l1p(st, get_cpumap_l4ptr(c, va), va, alloc)

umap_get_l1p(st, r, va, alloc) ==
  walk_l1p(st, IF r \in CPU THEN get_cpumap_l4ptr(r, va) ELSE <<r, TopOff(4, va)>>, va, alloc)

-----------------------------------------------------------------------------
scan_l1(st, t, off) == FirstLeaf(st, t, off)

scan_l2(st, t, off) ==
  FirstPath(off, Fan - 1, LAMBDA i :
    IF pte_present(st.tab[t][i]) THEN scan_l1(st, st.tab[t][i][1], 0) ELSE <<>>)

scan_l3(st, t, off) ==
  FirstPath(off, Fan - 1, LAMBDA i :
    IF pte_present(st.tab[t][i]) THEN scan_l2(st, st.tab[t][i][1], 0) ELSE <<>>)

(* Every turn of the loop reads the entry at off, not at i.                *)
scan_l4(st, r, off) ==
  FirstPath(off, Slots - 1, LAMBDA i :
    IF pte_present(st.tab[r][off]) THEN scan_l3(st, st.tab[r][off][1], 0) ELSE <<>>)

UADDR_INVALID == -1
pt_umap_next(st, r, uaddr) ==
  LET l4ptr == <<r, TopOff(4, uaddr)>>
      l1pfn == walk_l1pfn(st, l4ptr, uaddr, FALSE).pfn
      l2pfn == walk_l2pfn(st, l4ptr, uaddr, FALSE).pfn
      l3pfn == walk_l3pfn(st, l4ptr, uaddr, FALSE).pfn
      l1 == IF l1pfn = NoPfn THEN <<>> ELSE scan_l1(st, l1pfn, Off(1, uaddr) + 1)
      l2 == IF l2pfn = NoPfn THEN <<>> ELSE scan_l2(st, l2pfn, Off(2, uaddr) + 1)
      l3 == IF l3pfn = NoPfn THEN <<>> ELSE scan_l3(st, l3pfn, Off(3, uaddr) + 1)
      l4 == scan_l4(st, r, TopOff(4, uaddr) + 1)
  IN  IF l1 # <<>> THEN mkaddr(TopOff(4, uaddr), Off(3, uaddr), Off(2, uaddr), l1[1])
      ELSE IF l2 # <<>> THEN mkaddr(TopOff(4, uaddr), Off(3, uaddr), l2[1], l2[2])
      ELSE IF l3 # <<>> THEN mkaddr(TopOff(4, uaddr), l3[1], l3[2], l3[3])
      ELSE IF l4 # <<>> THEN mkaddr(l4[1], l4[2], l4[3], l4[4])
      ELSE UADDR_INVALID

pt_umap_free(st, u) ==
  LET l3s == UNION {Below(st.tab[u][i]) : i \in 0 .. Slots - 1}
      l2s == UNION {Children(st, t) : t \in l3s}
      l1s == UNION {Children(st, t) : t \in l2s}
  IN  pfn_free([st EXCEPT !.tab[u] = EmptyRoot], l3s \cup l2s \cup l1s)

hal_umap_init(st, u) ==
  ForSlots(LAMBDA s, i : LET new == alloc_table(s) IN set_pte(new.st, <<u, i>>, new.pte), st)

hal_umap_bootstrap(st, u) ==
  ForSlots(LAMBDA s, i : LET w == TableOf([st |-> s, ptep |-> <<Boot, i>>], TRUE)
                         IN  set_pte(w.st, <<u, i>>, <<w.pfn, TRUE>>), st)

(* u is Zero, for NULL, or a umap.                                         *)
hal_umap_load(st, c, u) ==
  [st EXCEPT !.tab[c] = UserSlots(st, c, u)]
=============================================================================
