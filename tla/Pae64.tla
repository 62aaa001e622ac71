-------------------------------- MODULE Pae64 --------------------------------
(***************************************************************************)
(* libhal_x86/amd64/pae64.c: four levels.  A root r is a umap, or the CPU  *)
(* itself when the C code is given NULL and goes through the linear map;   *)
(* an entry reached through the linear map and one reached through pfn_get *)
(* are the same entry.                                                     *)
(***************************************************************************)
EXTENDS PageTable

mkaddr(l4off, l3off, l2off, l1off) ==
  l4off * Fan ^ 3 + l3off * Fan ^ 2 + l2off * Fan + l1off
pt_umap_maxaddr == Slots * Fan ^ 3

linmap_get_l4p(c, va) == <<c, TopOff(4, va)>>

linmap_get_l3p(st, c, va, alloc) ==
  EntryOf(TableOf([st |-> st, ptep |-> linmap_get_l4p(c, va)], alloc), Off(3, va))

linmap_get_l2p(st, c, va, alloc) ==
  EntryOf(TableOf(linmap_get_l3p(st, c, va, alloc), alloc), Off(2, va))

linmap_get_l1p(st, c, va, alloc) ==
  EntryOf(TableOf(linmap_get_l2p(st, c, va, alloc), alloc), Off(1, va))

get_umap_l4p(r, va) == IF r \in CPU THEN linmap_get_l4p(r, va) ELSE <<r, TopOff(4, va)>>

get_umap_l3pfn(st, r, va, alloc) ==
  TableOf([st |-> st, ptep |-> get_umap_l4p(r, va)], alloc)

get_umap_l3p(st, r, va, alloc) ==
  IF r \in CPU THEN linmap_get_l3p(st, r, va, alloc)
  ELSE EntryOf(get_umap_l3pfn(st, r, va, alloc), Off(3, va))

get_umap_l2pfn(st, r, va, alloc) == TableOf(get_umap_l3p(st, r, va, alloc), alloc)

get_umap_l2p(st, r, va, alloc) ==
  IF r \in CPU THEN linmap_get_l2p(st, r, va, alloc)
  ELSE EntryOf(get_umap_l2pfn(st, r, va, alloc), Off(2, va))

get_umap_l1pfn(st, r, va, alloc) == TableOf(get_umap_l2p(st, r, va, alloc), alloc)

umap_get_l1p(st, r, va, alloc) ==
  IF r \in CPU THEN linmap_get_l1p(st, r, va, alloc)
  ELSE EntryOf(get_umap_l1pfn(st, r, va, alloc), Off(1, va))

kmap_get_l1p(st, c, va, alloc) == linmap_get_l1p(st, c, va, alloc)

-----------------------------------------------------------------------------
(* One table per slot; a slot is zero when memory has run out.             *)
hal_umap_init(st, u) ==
  ForSlots(LAMBDA s, i : LET new == alloc_table(s) IN set_pte(new.st, <<u, i>>, new.pte), st)

(* The umap takes the user slots of the boot CPU, made where missing.      *)
hal_umap_bootstrap(st, u) ==
  ForSlots(LAMBDA s, i : LET w == TableOf([st |-> s, ptep |-> <<Boot, i>>], TRUE)
                         IN  set_pte(w.st, <<u, i>>, <<w.pfn, TRUE>>), st)

(* Mutant: the last slot is not loaded.                                    *)
LoadAllButLast(st, c, u) ==
  [st EXCEPT !.tab[c] = [UserSlots(st, c, u) EXCEPT ![Slots - 1] = st.tab[c][Slots - 1]]]

(* u is Zero, for NULL, or a umap.                                         *)
hal_umap_load(st, c, u) ==
  [st EXCEPT !.tab[c] = UserSlots(st, c, u)]

-----------------------------------------------------------------------------
(* Mutant: the scan of a table starts one entry late.                      *)
SkipsFirst(st, t, off) == FirstLeaf(st, t, off + 1)

scan_l1(st, t, off) == FirstLeaf(st, t, off)

scan_l2(st, t, off) ==
  FirstPath(off, Fan - 1, LAMBDA i :
    IF pte_present(st.tab[t][i]) THEN scan_l1(st, st.tab[t][i][1], 0) ELSE <<>>)

scan_l3(st, t, off) ==
  FirstPath(off, Fan - 1, LAMBDA i :
    IF pte_present(st.tab[t][i]) THEN scan_l2(st, st.tab[t][i][1], 0) ELSE <<>>)

scan_l4(st, r, off) ==
  FirstPath(off, Slots - 1, LAMBDA i :
    IF pte_present(st.tab[r][i]) THEN scan_l3(st, st.tab[r][i][1], 0) ELSE <<>>)

UADDR_INVALID == -1
pt_umap_next(st, r, uaddr) ==
  LET l1pfn == get_umap_l1pfn(st, r, uaddr, FALSE).pfn
      l2pfn == get_umap_l2pfn(st, r, uaddr, FALSE).pfn
      l3pfn == get_umap_l3pfn(st, r, uaddr, FALSE).pfn
      l1 == IF l1pfn = NoPfn THEN <<>> ELSE scan_l1(st, l1pfn, Off(1, uaddr) + 1)
      l2 == IF l2pfn = NoPfn THEN <<>> ELSE scan_l2(st, l2pfn, Off(2, uaddr) + 1)
      l3 == IF l3pfn = NoPfn THEN <<>> ELSE scan_l3(st, l3pfn, Off(3, uaddr) + 1)
      l4 == scan_l4(st, r, TopOff(4, uaddr) + 1)
  IN  IF l1 # <<>> THEN mkaddr(TopOff(4, uaddr), Off(3, uaddr), Off(2, uaddr), l1[1])
      ELSE IF l2 # <<>> THEN mkaddr(TopOff(4, uaddr), Off(3, uaddr), l2[1], l2[2])
      ELSE IF l3 # <<>> THEN mkaddr(TopOff(4, uaddr), l3[1], l3[2], l3[3])
      ELSE IF l4 # <<>> THEN mkaddr(l4[1], l4[2], l4[3], l4[4])
      ELSE UADDR_INVALID

(* The tables of the user slots at their three levels; the data pages      *)
(* stay.                                                                   *)
pt_umap_free(st, u) ==
  LET l3s == UNION {Below(st.tab[u][i]) : i \in 0 .. Slots - 1}
      l2s == UNION {Children(st, t) : t \in l3s}
      l1s == UNION {Children(st, t) : t \in l2s}
  IN  pfn_free([st EXCEPT !.tab[u] = EmptyRoot], l3s \cup l2s \cup l1s)

(* The L4 of a CPU that starts is a copy of the boot CPU's, user slots     *)
(* included.  Only the kernel's linear slot, not modelled, is its own.     *)
pae64_init_ap(st, c) == [st EXCEPT !.tab[c] = st.tab[Boot]]
=============================================================================
