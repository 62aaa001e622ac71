------------------------------ MODULE PageTable ------------------------------
(***************************************************************************)
(* Page tables as the three HALs keep them, with the entry accessors and   *)
(* the one-level steps they share.  A table has Fan entries in place of    *)
(* 512.  A root is a table too: that of a umap (umap->l4, umap->l3) and    *)
(* that of a CPU, whose entry number Slots holds the kernel.               *)
(*                                                                         *)
(* An entry is <<frame, present>>.  Permission bits are left out: a leaf's *)
(* frame and presence are what the walks and their callers tell apart.     *)
(***************************************************************************)
EXTENDS Integers, Sequences, SequencesExt

CONSTANTS
  CPU, Umap,
  Boot,      \* the CPU that boots
  Cr3,       \* pae32: the page the boot CPU's CR3 points at
  NPages,    \* bound: pages the allocator has, numbered from 1
  Fan,       \* entries of a table
  Slots,     \* UMAP_L4PTES, UMAP_L3PTES
  Leaf       \* frames of data pages

PageTableConstants ==
  /\ Boot \in CPU /\ Cr3 \notin CPU \cup Umap
  /\ NPages \in Nat /\ Fan \in Nat \ {0} /\ Slots \in Nat
  /\ Leaf \subseteq Int /\ Leaf \cap 0 .. NPages = {}

Page == 1 .. NPages
Root == CPU \cup Umap \cup {Cr3}
PFN_INVALID == -1
Zero == <<0, FALSE>>
Entry == (0 .. NPages \cup Leaf \cup {PFN_INVALID}) \X BOOLEAN
pte_present(e) == e[2]

(* hal_l1e_box and hal_l1e_unbox keep the frame and the presence bit; a    *)
(* boxed PFN_INVALID is not zero.                                          *)
hal_l1e_box(pfn, p) == <<pfn, p>>
hal_l1e_unbox(e) == [pfn |-> e[1], present |-> e[2]]

EmptyTable == [i \in 0 .. Fan - 1 |-> Zero]
EmptyRoot == [i \in 0 .. Slots |-> Zero]
NoTables == [tab |-> [t \in Page \cup Root |-> IF t \in Page THEN EmptyTable ELSE EmptyRoot],
             free |-> Page]

get_pte(st, p) == st.tab[p[1]][p[2]]
set_pte(st, p, e) == [st EXCEPT !.tab[p[1]][p[2]] = e]

(* pfn_alloc zeroes the page it returns.                                   *)
alloc_table(st) ==
  IF st.free = {} THEN [st |-> st, pte |-> Zero]
  ELSE LET p == Min(st.free)
       IN  [st |-> [tab |-> [st.tab EXCEPT ![p] = EmptyTable], free |-> st.free \ {p}],
            pte |-> <<p, TRUE>>]

(* What a page that was freed holds does not matter: it is zeroed.         *)
pfn_free(st, ps) ==
  [tab |-> [t \in DOMAIN st.tab |-> IF t \in ps THEN EmptyTable ELSE st.tab[t]],
   free |-> st.free \cup ps]

(***************************************************************************)
(* A walk carries the tables, which it may extend, and the place it has    *)
(* reached: the table `pfn' or the entry `ptep'.                           *)
(***************************************************************************)
NoPfn == 0
PTEP_INVALID == <<>>

(* From a table to its entry number off.                                   *)
EntryOf(w, off) ==
  [st |-> w.st, ptep |-> IF w.pfn = NoPfn THEN PTEP_INVALID ELSE <<w.pfn, off>>]

(* From an entry to the table it points at, made on request.               *)
TableOf(w, alloc) ==
  IF w.ptep = PTEP_INVALID THEN [st |-> w.st, pfn |-> NoPfn]
  ELSE LET e == get_pte(w.st, w.ptep)
           new == alloc_table(w.st)
       IN  IF pte_present(e) THEN [st |-> w.st, pfn |-> e[1]]
           ELSE IF ~alloc \/ new.pte = Zero THEN [st |-> w.st, pfn |-> NoPfn]
           ELSE [st |-> set_pte(new.st, w.ptep, new.pte), pfn |-> new.pte[1]]

(* Offsets of the address of a page, level by level, and back.             *)
Off(level, va) == (va \div Fan ^ (level - 1)) % Fan
TopOff(level, va) == va \div Fan ^ (level - 1)

(* The first i in lo .. hi where hit(i), a path below entry i, is not      *)
(* empty: that path with i before it.                                      *)
FirstPath(lo, hi, hit(_)) ==
  LET good == {i \in lo .. hi : hit(i) # <<>>}
  IN  IF good = {} THEN <<>> ELSE <<Min(good)>> \o hit(Min(good))

(* The first entry of an L1 table, from off on, that is not zero.          *)
FirstLeaf(st, t, off) ==
  LET good == {i \in off .. Fan - 1 : st.tab[t][i] # Zero}
  IN  IF good = {} THEN <<>> ELSE <<Min(good)>>

(* The slots of a root, in order.                                          *)
ForSlots(op(_, _), st) == FoldLeft(op, st, [i \in 1 .. Slots |-> i - 1])

(* The root r with the slots of umap u, or with none for NULL (Zero).      *)
UserSlots(st, r, u) ==
  [i \in 0 .. Slots |-> IF i = Slots THEN st.tab[r][i]
                        ELSE IF u = Zero THEN Zero ELSE st.tab[u][i]]

(* The tables entry e points at, directly: none when it is not present.    *)
Below(e) == IF pte_present(e) THEN {e[1]} ELSE {}
Children(st, t) == UNION {Below(st.tab[t][i]) : i \in 0 .. Fan - 1}
=============================================================================
