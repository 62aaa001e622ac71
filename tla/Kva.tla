--------------------------------- MODULE Kva ---------------------------------
(***************************************************************************)
(* Kernel virtual addresses: libnux/kva.c on the zone allocator, with its  *)
(* tree of free ranges and the kernel page table entries of the area.      *)
(* Addresses and sizes are in pages.  kva_alloc and kva_free run under     *)
(* vmap_lock and are one step each; mapping and unmapping a range takes a  *)
(* step per page, outside the lock.  The TLB is the subject of KTlb.       *)
(***************************************************************************)
EXTENDS Zone

CONSTANTS
  CPU, Pfn, None,
  kvabase, kvasize,
  Sizes      \* bound: the sizes asked for, in pages

KvaConstants ==
  /\ kvabase \in Nat \ {0} /\ kvasize \in Nat \ {0}
  /\ Sizes \subseteq 1 .. kvasize
  /\ 2 ^ ORDMAX > kvasize

Page == kvabase .. kvabase + kvasize - 1

VARIABLES
  vmap_zone,
  vmap_rbtree,  \* the entries of the tree
  pte,          \* kernel page table entries of the area
  pc, va, i,    \* of each CPU: control state, range operated on, loop index
  held,         \* ranges each CPU's callers own, with how they got them
  answer        \* last answer of kva_alloc to the CPU

vars == <<vmap_zone, vmap_rbtree, pte, pc, va, i, held, answer>>

TypeOK ==
  /\ vmap_rbtree \subseteq [addr : Page, size : 1 .. kvasize]
  /\ pte \in [Page -> Pfn \cup {None}]
  /\ pc \in [CPU -> {"idle", "map", "unmap", "free"}]
  /\ va \in [CPU -> [addr : Page, size : Sizes] \cup {NULL}]
  /\ i \in [CPU -> 0 .. Max(Sizes) - 1]
  /\ held \in [CPU -> SUBSET [addr : Page, size : Sizes, mapped : BOOLEAN]]
  /\ answer \in [CPU -> {"none", "failed", "given"}]

-----------------------------------------------------------------------------
(* vmap_find: the entry that holds an address.                             *)
vmap_compare_key(e, a) == IF a < e.addr THEN 1 ELSE IF a > e.addr + (e.size - 1) THEN -1 ELSE 0

vmap_find(t, a) ==
  LET found == {e \in t : vmap_compare_key(e, a) = 0}
  IN  IF found = {} THEN NULL ELSE CHOOSE e \in found : TRUE

vmap_remove(t, es) == t \ es
vmap_insert(t, e) == t \cup {e}

(* zone_create with the tree's ___get_neighbors, ___freeptr and ___mkptr.  *)
Create(z, t, addr, size) ==
  LET p == vmap_find(t, addr - 1)
      n == vmap_find(t, addr + size)
  IN  [zone |-> zone_create(z, addr, size, p, n),
       tree |-> vmap_insert(vmap_remove(t, {p, n}), Joined(addr, size, p, n))]

zone_free(a, n) ==
  LET s == Create(vmap_zone, vmap_rbtree, a, n)
  IN  vmap_zone' = s.zone /\ vmap_rbtree' = s.tree

(* zone_alloc takes the front of the entry found and creates the rest.     *)
Take(e, n) ==
  LET z == _zone_detachentry(vmap_zone, e)
      t == vmap_remove(vmap_rbtree, {e})
  IN  IF e.size = n THEN [zone |-> z, tree |-> t]
      ELSE Create(z, t, e.addr + n, e.size - n)

Init ==
  LET s == Create(zone_init, {}, kvabase, kvasize)
  IN  /\ vmap_zone = s.zone /\ vmap_rbtree = s.tree
      /\ pte = [p \in Page |-> None]
      /\ pc = [c \in CPU |-> "idle"] /\ va = [c \in CPU |-> NULL]
      /\ i = [c \in CPU |-> 0] /\ held = [c \in CPU |-> {}]
      /\ answer = [c \in CPU |-> "none"]

Goto(c, l) == pc' = [pc EXCEPT ![c] = l]

-----------------------------------------------------------------------------
(* kva_alloc, from a caller that maps nothing or from kva_physmap and      *)
(* kva_map, which go on to map what they got.                              *)
kva_alloc(c, n, map) ==
  LET e == _zone_findfree(vmap_zone, n)
      s == Take(e, n)
      r == [addr |-> e.addr, size |-> n]
  IN  /\ pc[c] = "idle"
      /\ \/ /\ e = NULL
            /\ answer' = [answer EXCEPT ![c] = "failed"]
            /\ UNCHANGED <<vmap_zone, vmap_rbtree, pc, va, held>>
         \/ /\ e # NULL
            /\ vmap_zone' = s.zone /\ vmap_rbtree' = s.tree
            /\ answer' = [answer EXCEPT ![c] = "given"]
            /\ \/ /\ map
                  /\ va' = [va EXCEPT ![c] = r]
                  /\ Goto(c, "map")
                  /\ UNCHANGED held
               \/ /\ ~map
                  /\ held' = [held EXCEPT ![c] = @ \cup {[mapped |-> FALSE] @@ r}]
                  /\ UNCHANGED <<pc, va>>
      /\ UNCHANGED <<pte, i>>

(* The loop of kva_physmap; kva_map is its one-page case.                  *)
LastPage(c) == i[c] + 1 = va[c].size

kva_physmap(c, p) ==
  /\ pc[c] = "map"
  /\ pte' = [pte EXCEPT ![va[c].addr + i[c]] = p]
  /\ i' = [i EXCEPT ![c] = IF LastPage(c) THEN 0 ELSE @ + 1]
  /\ \/ /\ LastPage(c)
        /\ held' = [held EXCEPT ![c] = @ \cup {[mapped |-> TRUE] @@ va[c]}]
        /\ va' = [va EXCEPT ![c] = NULL]
        /\ Goto(c, "idle")
     \/ ~LastPage(c) /\ UNCHANGED <<held, va, pc>>
  /\ UNCHANGED <<vmap_zone, vmap_rbtree, answer>>

(* kva_unmap clears every entry and commits, then frees the range; a       *)
(* range that was only allocated goes to kva_free as it is.                *)
FreeFirst(r) == "free"

Release(r) == IF r.mapped THEN "unmap" ELSE "free"

kva_unmap(c, r) ==
  /\ pc[c] = "idle" /\ r \in held[c]
  /\ held' = [held EXCEPT ![c] = @ \ {r}]
  /\ va' = [va EXCEPT ![c] = [addr |-> r.addr, size |-> r.size]]
  /\ Goto(c, Release(r))
  /\ UNCHANGED <<vmap_zone, vmap_rbtree, pte, i, answer>>

kmap_unmap(c) ==
  /\ pc[c] = "unmap"
  /\ pte' = [pte EXCEPT ![va[c].addr + i[c]] = None]
  /\ i' = [i EXCEPT ![c] = IF LastPage(c) THEN 0 ELSE @ + 1]
  /\ Goto(c, IF LastPage(c) THEN "free" ELSE "unmap")
  /\ UNCHANGED <<vmap_zone, vmap_rbtree, va, held, answer>>

kva_free(c) ==
  /\ pc[c] = "free"
  /\ zone_free(va[c].addr, va[c].size)
  /\ va' = [va EXCEPT ![c] = NULL]
  /\ answer' = [answer EXCEPT ![c] = "none"]
  /\ Goto(c, "idle")
  /\ UNCHANGED <<pte, i, held>>

Next ==
  \E c \in CPU :
    \/ \E n \in Sizes, map \in BOOLEAN : kva_alloc(c, n, map)
    \/ \E p \in Pfn : kva_physmap(c, p)
    \/ \E r \in held[c] : kva_unmap(c, r)
    \/ kmap_unmap(c)
    \/ kva_free(c)

Spec == Init /\ [][Next]_vars

-----------------------------------------------------------------------------
(* kva.c gives ranges out as VaPool promises: no two callers share a page, *)
(* a request fails only when no free run is as long as the size rounded up *)
(* to a power of two, and freed ranges join the free space around them.    *)
Abs == INSTANCE VaPool
         WITH User <- CPU, Addr <- Page,
              free <- UNION {e.addr .. End(e) - 1 : e \in vmap_rbtree},
              out <- [c \in CPU |-> {<<r.addr, r.size>> : r \in held[c]}
                        \cup IF va[c] = NULL THEN {} ELSE {<<va[c].addr, va[c].size>>}]

IsVaPool == Abs!Spec

(* The lists, the bitmap, the free count and the tree describe the same    *)
(* ranges, and no two of them overlap or touch: vmap_compare_nodes asserts *)
(* as much of any two entries it compares.                                 *)
Coalesced ==
  /\ Entries(vmap_zone) = vmap_rbtree
  /\ vmap_zone.bmap = {o \in Order : vmap_zone.zlist[o] # <<>>}
  /\ \A o \in Order : \A e \in ToSet(vmap_zone.zlist[o]) : msbit(e.size) = o
  /\ \A e, f \in vmap_rbtree : e # f => End(e) < f.addr \/ End(f) < e.addr
  /\ vmap_zone.nfree = FoldSet(LAMBDA e, n : n + e.size, 0, vmap_rbtree)

(* A free page has no mapping, so that kmap_map never replaces one whose   *)
(* owner still uses it: kva_unmap frees a range after its last entry is    *)
(* cleared.                                                                *)
FreeUnmapped ==
  \A e \in vmap_rbtree, p \in Page : e.addr <= p /\ p < End(e) => pte[p] = None

=============================================================================
