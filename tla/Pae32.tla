-------------------------------- MODULE Pae32 --------------------------------
(***************************************************************************)
(* libhal_x86/i386/pae32.c: three levels.  The processor walks from the    *)
(* page CR3 points at; the linear map instead shows the four L3 entries    *)
(* kept in the kernel's own L2 table.  The root r = Boot (NULL in C) is    *)
(* the latter, the table Cr3 the former.                                   *)
(*                                                                         *)
(* The L1 walks read through the pointer of the level above without        *)
(* looking at it.  PTEP_INVALID is address 0, which is not mapped in the   *)
(* kernel: `fault' says the read happened.                                 *)
(***************************************************************************)
EXTENDS PageTable

mkaddr(l3off, l2off, l1off) == l3off * Fan ^ 2 + l2off * Fan + l1off
pt_umap_maxaddr == Slots * Fan ^ 2

linmap_get_l3p(c, va) == <<c, TopOff(3, va)>>

linmap_get_l2p(st, c, va, alloc) ==
  EntryOf(TableOf([st |-> st, ptep |-> linmap_get_l3p(c, va)], alloc), Off(2, va))

linmap_get_l1p(st, c, va, alloc) ==
  EntryOf(TableOf(linmap_get_l2p(st, c, va, alloc), alloc), Off(1, va))

get_umap_l3p(r, va) == IF r \in CPU THEN linmap_get_l3p(r, va) ELSE <<r, TopOff(3, va)>>

get_umap_l2pfn(st, r, va, alloc) ==
  TableOf([st |-> st, ptep |-> get_umap_l3p(r, va)], alloc)

get_umap_l2p(st, r, va, alloc) ==
  IF r \in CPU THEN linmap_get_l2p(st, r, va, alloc)
  ELSE EntryOf(get_umap_l2pfn(st, r, va, alloc), Off(2, va))

get_umap_l1pfn(st, r, va, alloc) == TableOf(get_umap_l2p(st, r, va, alloc), alloc)

umap_get_l1p(st, r, va, alloc) ==
  IF r \in CPU THEN linmap_get_l1p(st, r, va, alloc)
  ELSE EntryOf(get_umap_l1pfn(st, r, va, alloc), Off(1, va))

(* get_pte (PTEP_INVALID), in linmap_get_l1p and in get_umap_l1pfn.        *)
fault(st, r, va, alloc) == get_umap_l2p(st, r, va, alloc).ptep = PTEP_INVALID

kmap_get_l1p(st, c, va, alloc) == linmap_get_l1p(st, c, va, alloc)

-----------------------------------------------------------------------------
hal_umap_init(st, u) == [st EXCEPT !.tab[u] = EmptyRoot]

(* Missing tables are made in the linear map's entries, not in Cr3's.      *)
hal_umap_bootstrap(st, u) ==
  ForSlots(LAMBDA s, i : LET w == TableOf([st |-> s, ptep |-> <<Boot, i>>], TRUE)
                         IN  set_pte(w.st, <<u, i>>, <<w.pfn, TRUE>>), st)

(* The processor's L3 entries, then the linear map's.                      *)
hal_umap_load(st, c, u) ==
  [st EXCEPT !.tab[Cr3] = UserSlots(st, Cr3, u),
             !.tab[c] = [UserSlots(st, c, u) EXCEPT ![Slots] = st.tab[Cr3][Slots]]]

-----------------------------------------------------------------------------
scan_l1(st, t, off) == FirstLeaf(st, t, off)

scan_l2(st, t, off) ==
  FirstPath(off, Fan - 1, LAMBDA i :
    IF pte_present(st.tab[t][i]) THEN scan_l1(st, st.tab[t][i][1], 0) ELSE <<>>)

scan_l3(st, r, off) ==
  FirstPath(off, Slots - 1, LAMBDA i :
    IF pte_present(st.tab[r][i]) THEN scan_l2(st, st.tab[r][i][1], 0) ELSE <<>>)

UADDR_INVALID == -1
pt_umap_next(st, r, uaddr) ==
  LET l1pfn == get_umap_l1pfn(st, r, uaddr, FALSE).pfn
      l2pfn == get_umap_l2pfn(st, r, uaddr, FALSE).pfn
      l1 == IF l1pfn = NoPfn THEN <<>> ELSE scan_l1(st, l1pfn, Off(1, uaddr) + 1)
      l2 == IF l2pfn = NoPfn THEN <<>> ELSE scan_l2(st, l2pfn, Off(2, uaddr) + 1)
      l3 == scan_l3(st, r, TopOff(3, uaddr) + 1)
  IN  IF l1 # <<>> THEN mkaddr(TopOff(3, uaddr), Off(2, uaddr), l1[1])
      ELSE IF l2 # <<>> THEN mkaddr(TopOff(3, uaddr), l2[1], l2[2])
      ELSE IF l3 # <<>> THEN mkaddr(l3[1], l3[2], l3[3])
      ELSE UADDR_INVALID

pt_umap_free(st, u) ==
  LET l2s == UNION {Below(st.tab[u][i]) : i \in 0 .. Slots - 1}
      l1s == UNION {Children(st, t) : t \in l2s}
  IN  pfn_free([st EXCEPT !.tab[u] = EmptyRoot], l2s \cup l1s)
=============================================================================
