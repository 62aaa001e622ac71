------------------------------- MODULE BootPt -------------------------------
(***************************************************************************)
(* The page tables the APXH boot loader builds for the payload:            *)
(* apxh/src/pae.c (32-bit PAE and AMD64) and apxh/src/rv64-sv.c (SV48).    *)
(*                                                                         *)
(* Memory is counted in cells, a cell being one 8-byte word: a page has    *)
(* Fan of them (512 in the code), which is also how many entries a page    *)
(* table has.  Virtual and physical addresses are cell numbers.  A cell    *)
(* holds <<n, tags>>: a page-table entry is <<frame, flags>>, a word of an  *)
(* image <<n, {origin}>>, and a word of zeros Zero.                        *)
(*                                                                         *)
(* The loader is sequential.  Its state is one record b that every         *)
(* operation takes and returns; an assertion that fails, or a call of      *)
(* exit(), is recorded in b.dead, and the first one is what happened.      *)
(***************************************************************************)
EXTENDS Integers, Sequences, SequencesExt, FiniteSets, FiniteSetsExt, Bitwise, TLC

CONSTANTS
  Fan,          \* Cells in a page and entries in a page table (512).
  BOOTMEM       \* Pages above the lowest one that APXH may use (512 MB).

BootPtConstants == Fan \in Nat \ {0, 1} /\ BOOTMEM \in Nat

Zero == <<0, {}>>
Page(a) == a \div Fan

Die(b, why) == IF b.dead = "" THEN [b EXCEPT !.dead = why] ELSE b
Check(b, ok) == IF ok THEN b ELSE Die(b, "assert")

Cell(b, at) == IF at[1] \in DOMAIN b.mem THEN b.mem[at[1]][at[2]] ELSE Zero
Store(b, at, v) ==
  IF at[1] \in DOMAIN b.mem THEN [b EXCEPT !.mem[at[1]][at[2]] = v] ELSE b

\* for (i = 0; i < n; i++) b = Body (b, i);   until the loader dies.  Rows of
\* Fan turns keep the evaluation shallow.
For(b, n, Body(_, _)) ==
  LET Row(c, from, k) ==
        LET after[i \in 0..k] ==
              IF i = 0 THEN c
              ELSE LET d == after[i - 1]
                   IN  IF d.dead # "" THEN d ELSE Body(d, from + i - 1)
        IN  after[k]
      row[r \in 0..n \div Fan] ==
        IF r = 0 THEN b
        ELSE LET d == row[r - 1]
             IN  IF d.dead # "" THEN d ELSE Row(d, (r - 1) * Fan, Fan)
  IN  Row(row[n \div Fan], (n \div Fan) * Fan, n % Fan)

----------------------------------------------------------------------------
(* The CPU: what CPUID says of it (has, and the fields of its signature)    *)
(* and whether firmware left NX disabled (xdoff), which hides it.           *)

cpu_is_intel(cpu) == cpu.intel

\* "eax & 0xf00000 >> 20" is eax & 0xf, the stepping.
intel_cpu_family(cpu) == cpu.family | cpu.stepping
intel_cpu_model(cpu) == cpu.model | cpu.xmodel

cpu_supports_pae(cpu) == "PAE" \in cpu.has
cpu_supports_longmode(cpu) == "LM" \in cpu.has
cpu_supports_1gbpages(cpu) == "1GB" \in cpu.has

\* Intel CPUs from family 6, model 14 on have NX enabled again.
cpu_supports_nx(cpu) ==
  /\ "NX" \in cpu.has
  /\ cpu.xdoff => /\ cpu_is_intel(cpu)
                  /\ intel_cpu_family(cpu) >= 6
                  /\ intel_cpu_family(cpu) > 6 \/ intel_cpu_model(cpu) > 13

PTE_NX(b, x) == IF x \/ ~b.nx THEN {} ELSE {"NX"}

\* The page attribute table at reset, and with WC in its last entry.
ResetPat == <<"WB", "WT", "UC-", "UC", "WB", "WT", "UC-", "UC">>
setup_pat_table(b) == [b EXCEPT !.pat = [ResetPat EXCEPT ![8] = "WC"]]

\* The flags of a memory type; small tells a 4 KB leaf from a big one, which
\* keeps the PAT bit elsewhere.
memtype_to_flags(mt, small) ==
  CASE mt = "WC" -> {IF small THEN "PAT4K" ELSE "PATBIG", "PCD", "PWT"}
    [] mt = "UC" -> {"PCD", "PWT"}
    [] OTHER -> {}

----------------------------------------------------------------------------
(* Pages. *)

Given(b, p) == [b |-> [b EXCEPT !.mem = (p :> [i \in 0..Fan - 1 |-> Zero]) @@ @],
                page |-> p]

\* The multiboot and SBI loaders take the page at the break.
BrkPage(b) == Given([b EXCEPT !.brk = @ + 1], b.brk)

\* EFI chooses a page below the limit it is given, here the highest.
efi_allocate_maxaddr(b, limit) ==
  LET free == {p \in b.ram : p < limit} \ DOMAIN b.mem
  IN  IF free = {} THEN [b |-> Die(b, "exit"), page |-> 0] ELSE Given(b, Max(free))

get_page(b) ==
  IF b.fw = "efi" THEN efi_allocate_maxaddr(b, b.min + BOOTMEM) ELSE BrkPage(b)

\* A page for the payload, noted in boot_pagemap: byte and bit.
Noted(b, g) ==
  [b |-> [Check(g.b, ~b.stop /\ g.page - b.min < BOOTMEM) EXCEPT
            !.pagemap = @ \cup {<<(g.page - b.min) \div 8, g.page % 8>>},
            !.handed  = @ \cup {g.page}],
   page |-> g.page]

get_payload_page(b) == Noted(b, get_page(b))

check_payload_page(b, pfn) ==
  LET i == pfn - b.min IN <<i \div 8, i % 8>> \in b.pagemap

Alloc(b, payload) == IF payload THEN get_payload_page(b) ELSE get_page(b)

----------------------------------------------------------------------------
(* Entries. *)

set_pte(b, at, pfn, flags) == Store(b, at, <<pfn, flags>>)

\* 0 stands for the NULL of an entry that is not present (x86 P, SV48 V).
pte_getaddr(b, at) ==
  LET e == Cell(b, at) IN IF e[2] \cap {"P", "V"} # {} THEN e[1] ELSE 0

pte_getflags(b, at) == Cell(b, at)[2]

\* A mutant: the page keeps the rights of the segment that came first.
FirstFlagsStay(b, f, g) ==
  [b  |-> IF ("U" \in f) # ("U" \in g) THEN Die(b, "mixed")
          ELSE Check(b, "P" \in f \cap g),
   fl |-> g]

\* Two segments share a page: it is writable, and executable, if either
\* asks for it; a page shared by the kernel and the user is fatal.
pae_mergeflags(b, f, g) ==
  [b  |-> IF ("U" \in f) # ("U" \in g) THEN Die(b, "mixed")
          ELSE Check(b, "P" \in f \cap g),
   fl |-> {"P"} \cup (f \cap {"U"}) \cup ((f \cup g) \cap {"W"})
                \cup (f \cap g \cap {"NX"})]

sv48_mergeflags(b, f, g) ==
  [b  |-> IF ("U" \in f) # ("U" \in g) THEN Die(b, "mixed")
          ELSE Check(b, {"V", "R"} \subseteq f \cap g),
   fl |-> {"R", "V"} \cup (f \cap {"U"}) \cup ((f \cup g) \cap {"W", "X"})]

LnOff(va, n) == (va \div Fan^n) % Fan

\* An entry [b, at] is given a frame, or a new table a.
Put(l, pfn, flags) == set_pte(l.b, l.at, pfn, flags)
Link(a, at, flags) == [b |-> set_pte(a.b, at, a.page, flags), page |-> a.page]

\* The table an entry points to, made if there is none; its entry off.
Descend(b, at, flags, payload) ==
  IF pte_getaddr(b, at) # 0 THEN [b |-> b, page |-> pte_getaddr(b, at)]
  ELSE Link(Alloc(b, payload), at, flags)

Into(d, off) == [b |-> d.b, at |-> <<d.page, off>>]
Below(l, flags, payload, off) == Into(Descend(l.b, l.at, flags, payload), off)

X86Dir == {"U", "W", "P"}
If(flag, set) == IF flag THEN set ELSE {}

Merged(m, l) == set_pte(m.b, l.at, pte_getaddr(l.b, l.at), m.fl)

\* The leaf of a page that segments fill: a new page, or the flags of the
\* old one merged with the new ones.
Populated(l, fl, payload, Merge(_, _, _)) ==
  IF pte_getaddr(l.b, l.at) = 0 THEN Link(Alloc(l.b, payload), l.at, fl).b
  ELSE Merged(Merge(l.b, fl, pte_getflags(l.b, l.at)), l)

\* The leaf of a page that is mapped once only.
Mapped(l, pfn, fl) == Put([l EXCEPT !.b = Check(@, pte_getaddr(@, l.at) = 0)], pfn, fl)

\* The pages of va .. va + size - 1, one after the other.
PopulateAll(b, va, size, Body(_, _)) ==
  For(b, IF size > 0 THEN Page(va + size - 1) - Page(va) + 1 ELSE 0,
      LAMBDA c, i : Body(c, (Page(va) + i) * Fan))

\* PTALLOC: the last-level tables of every page of the area.
PtAllocAll(b, va, size, get_l1p(_, _)) ==
  For(b, size \div Fan, LAMBDA c, i : get_l1p(c, va + i * Fan).b)

Rooted(r) == [r.b EXCEPT !.root = r.page]

----------------------------------------------------------------------------
(* 32-bit PAE: three levels, the four tables of level 2 always there. *)

pae_init(b) ==
  LET r == get_payload_page([Check(b, cpu_supports_pae(b.cpu)) EXCEPT
                               !.nx = cpu_supports_nx(b.cpu)])
      Pdpte(c, i) == Link(get_payload_page(c), <<r.page, i>>, {"P"}).b
  IN  setup_pat_table(For([r.b EXCEPT !.root = r.page], 4, Pdpte))

pae_get_l2p(b, cr3, va, payload) ==
  Into(Descend(b, <<cr3, LnOff(va, 3) % 4>>, {"P"}, payload), LnOff(va, 2))

pae_get_l1p(b, cr3, va, payload) ==
  Below(pae_get_l2p(b, cr3, va, payload), X86Dir, payload, LnOff(va, 1))

pae_map_page(b, pt, va, pa, payload, w, x) ==
  Mapped(pae_get_l1p(b, pt, va, payload), Page(pa),
         If(w, {"W"}) \cup PTE_NX(b, x) \cup {"P"})

pae_populate_page(b, va, u, w, x) ==
  Populated(pae_get_l1p(b, b.root, va, TRUE),
            If(u, {"U"}) \cup If(w, {"W"}) \cup PTE_NX(b, x) \cup {"P"},
            TRUE, pae_mergeflags)

\* A leaf's physical address, asserted to exist.
Phys(b, l1, va) ==
  LET page == pte_getaddr(b, <<l1, LnOff(va, 1)>>)
  IN  [b |-> Check(b, l1 # 0 /\ page # 0), pa |-> page * Fan + (va % Fan)]

pae_getphys(b, va) ==
  LET l2 == pte_getaddr(b, <<b.root, LnOff(va, 3) % 4>>)
  IN  Phys(b, pte_getaddr(b, <<l2, LnOff(va, 2)>>), va)

pae_directmap(b, pt, pa, va, size, mt, payload, x) ==
  LET Leaf(c, i) ==
        Put(pae_get_l1p(c, pt, va + i * Fan, payload), Page(pa) + i,
            memtype_to_flags(mt, TRUE) \cup {"P", "W"} \cup PTE_NX(c, x))
  IN  For(b, size \div Fan, Leaf)

pae_ptalloc(b, va, size) ==
  PtAllocAll(b, va, size, LAMBDA c, v : pae_get_l1p(c, c.root, v, TRUE))

\* "In PAE, TOPPTALLOC is equivalent to PTALLOC."
pae_topptalloc(b, va, size) == pae_ptalloc(b, va, size)

\* The four level-2 tables appear as the level-1 tables of the linear area.
pae_linear(b, va, size) ==
  LET l2s  == [i \in 0..3 |-> pte_getaddr(b, <<b.root, i>>)]
      span == 4 * Fan^2
      Self(c, i) == set_pte(c, <<l2s[LnOff(va, 3) % 4], LnOff(va, 2) + i>>,
                            l2s[i], PTE_NX(c, FALSE) \cup {"W", "P"})
  IN  IF va % span # 0 \/ size < span THEN Die(b, "exit") ELSE For(b, 4, Self)

pae_populate(b, va, size, u, w, x) ==
  PopulateAll(b, va, size, LAMBDA c, v : pae_populate_page(c, v, u, w, x))

----------------------------------------------------------------------------
(* AMD64: four levels. *)

pae64_init(b) ==
  Rooted(get_payload_page(setup_pat_table(
    [Check(b, cpu_supports_longmode(b.cpu)) EXCEPT !.nx = cpu_supports_nx(b.cpu)])))

pae64_get_l3p(b, cr3, va, payload) ==
  Into(Descend(b, <<cr3, LnOff(va, 4)>>, X86Dir, payload), LnOff(va, 3))

pae64_get_l2p(b, cr3, va, payload) ==
  Below(pae64_get_l3p(b, cr3, va, payload), X86Dir, payload, LnOff(va, 2))

pae64_get_l1p(b, cr3, va, payload) ==
  Below(pae64_get_l2p(b, cr3, va, payload), X86Dir, payload, LnOff(va, 1))

pae64_map_page(b, pt, va, pa, payload, w, x) ==
  Mapped(pae64_get_l1p(b, pt, va, payload), Page(pa),
         If(w, {"W"}) \cup PTE_NX(b, x) \cup {"P"})

pae64_populate_page(b, cr3, va, u, w, x, payload) ==
  Populated(pae64_get_l1p(b, cr3, va, payload),
            If(u, {"U"}) \cup If(w, {"W"}) \cup PTE_NX(b, x) \cup {"P"},
            payload, pae_mergeflags)

pae64_getphys(b, va) ==
  LET l3 == pte_getaddr(b, <<b.root, LnOff(va, 4)>>)
      l2 == pte_getaddr(b, <<l3, LnOff(va, 3)>>)
  IN  Phys(Check(b, l3 # 0 /\ l2 # 0), pte_getaddr(b, <<l2, LnOff(va, 2)>>), va)

\* A 1 GB leaf where both addresses allow it and the CPU has them, a 2 MB
\* leaf where both addresses allow it, a 4 KB leaf otherwise.
RECURSIVE pae64_directmap(_, _, _, _, _, _, _, _)
pae64_directmap(b, pt, pa, va, len, mt, payload, x) ==
  LET Fits(n)  == pa % n = 0 /\ va % n = 0 /\ len >= n
      Leaf(l, big, n) ==
        pae64_directmap(
          Put(l, Page(pa), memtype_to_flags(mt, ~big) \cup If(big, {"PS"})
                             \cup {"W", "P"} \cup PTE_NX(b, x)),
          pt, pa + n, va + n, len - n, mt, payload, x)
  IN  IF len <= 0 THEN b
      ELSE IF cpu_supports_1gbpages(b.cpu) /\ Fits(Fan^3)
      THEN Leaf(pae64_get_l3p(b, pt, va, payload), TRUE, Fan^3)
      ELSE IF Fits(Fan^2)
      THEN Leaf(pae64_get_l2p(b, pt, va, payload), TRUE, Fan^2)
      ELSE Leaf(pae64_get_l1p(b, pt, va, payload), FALSE, Fan)

\* One level-3 table for each GB asked; the address advances by a page only.
pae64_topptalloc(b, va, size) ==
  For(b, (size + Fan^3 - 1) \div Fan^3,
      LAMBDA c, i : pae64_get_l3p(c, c.root, va + i * Fan, TRUE).b)

pae64_ptalloc(b, va, size) ==
  PtAllocAll(b, va, size, LAMBDA c, v : pae64_get_l1p(c, c.root, v, TRUE))

\* A mutant: the slot of the level below.
LinearAtL3(b, va, size) ==
  IF va % Fan^4 # 0 \/ size < Fan^4 THEN Die(b, "exit")
  ELSE set_pte(b, <<b.root, LnOff(va, 3)>>, b.root, {"W", "P"})

\* The root is its own level-3 table in the linear area.
pae64_linear(b, va, size) ==
  IF va % Fan^4 # 0 \/ size < Fan^4 THEN Die(b, "exit")
  ELSE set_pte(b, <<b.root, LnOff(va, 4)>>, b.root, {"W", "P"})

pae64_populate(b, va, size, u, w, x) ==
  PopulateAll(b, va, size,
              LAMBDA c, v : pae64_populate_page(c, c.root, v, u, w, x, TRUE))

----------------------------------------------------------------------------
(* RISC-V SV48: four levels; an entry with neither R, W nor X is a table. *)

sv48_init(b) == Rooted(get_payload_page(b))

sv48_get_l3p(b, root, va, payload) ==
  Into(Descend(b, <<root, LnOff(va, 4)>>, {"V"}, payload), LnOff(va, 3))

sv48_get_l2p(b, root, va, payload) ==
  Below(sv48_get_l3p(b, root, va, payload), {"V"}, payload, LnOff(va, 2))

sv48_get_l1p(b, root, va, payload) ==
  Below(sv48_get_l2p(b, root, va, payload), {"V"}, payload, LnOff(va, 1))

sv48_populate_page(b, root, va, u, w, x, payload) ==
  Populated(sv48_get_l1p(b, root, va, payload),
            If(u, {"U"}) \cup If(w, {"W"}) \cup If(x, {"X"}) \cup {"R", "V"},
            payload, sv48_mergeflags)

sv48_getphys(b, va) ==
  LET l3 == pte_getaddr(b, <<b.root, LnOff(va, 4)>>)
      l2 == pte_getaddr(b, <<l3, LnOff(va, 3)>>)
  IN  Phys(Check(b, l3 # 0 /\ l2 # 0), pte_getaddr(b, <<l2, LnOff(va, 2)>>), va)

\* The memory type is not expressed in SV48 entries.
RECURSIVE sv48_directmap(_, _, _, _, _, _, _)
sv48_directmap(b, pt, pa, va, len, payload, x) ==
  LET Fits(n)  == pa % n = 0 /\ va % n = 0 /\ len >= n
      Leaf(l, n) ==
        sv48_directmap(
          Put(l, Page(pa), If(x, {"X"}) \cup {"W", "R", "V"}),
          pt, pa + n, va + n, len - n, payload, x)
  IN  IF len <= 0 THEN b
      ELSE IF Fits(Fan^3) THEN Leaf(sv48_get_l3p(b, pt, va, payload), Fan^3)
      ELSE IF Fits(Fan^2) THEN Leaf(sv48_get_l2p(b, pt, va, payload), Fan^2)
      ELSE Leaf(sv48_get_l1p(b, pt, va, payload), Fan)

sv48_topptalloc(b, va, size) ==
  For(b, (size + Fan^3 - 1) \div Fan^3,
      LAMBDA c, i : sv48_get_l3p(c, c.root, va + i * Fan, TRUE).b)

sv48_ptalloc(b, va, size) ==
  PtAllocAll(b, va, size, LAMBDA c, v : sv48_get_l1p(c, c.root, v, TRUE))

sv48_linear(b, va, size) ==
  IF va % Fan^4 # 0 \/ size < Fan^4 THEN Die(b, "exit")
  ELSE set_pte(b, <<b.root, LnOff(va, 4)>>, b.root, {"V"})

sv48_populate(b, va, size, u, w, x) ==
  PopulateAll(b, va, size,
              LAMBDA c, v : sv48_populate_page(c, c.root, v, u, w, x, TRUE))

----------------------------------------------------------------------------
(* What the MMU makes of these tables: the frame of an address and what may *)
(* be done there, or the empty set.                                         *)

IsLeaf(e, n) ==
  n = 1 \/ "PS" \in e[2] \/ ("V" \in e[2] /\ e[2] \cap {"R", "W", "X"} # {})

\* The rights an entry lets through.  A PAE top-level entry has none to give
\* or take; an SV48 table neither.
Rights(b, e, top) ==
  IF "V" \in e[2]
  THEN IF e[2] \cap {"R", "W", "X"} = {} THEN {"W", "X", "U"}
       ELSE e[2] \cap {"W", "X", "U"}
  ELSE IF top /\ b.arch = "386" THEN {"W", "X", "U"}
  ELSE (e[2] \cap {"W", "U"}) \cup If("NX" \notin e[2], {"X"})

RECURSIVE Walk(_, _, _, _, _)
Walk(b, table, va, n, rights) ==
  LET e   == Cell(b, <<table, LnOff(va, n)>>)
      r   == rights \cap Rights(b, e, n = (IF b.arch = "386" THEN 3 ELSE 4))
  IN  IF e[2] \cap {"P", "V"} = {} THEN {}
      ELSE IF n = 1 /\ e[2] = {"V"} THEN {}
      ELSE IF IsLeaf(e, n)
      THEN {[pa |-> e[1] * Fan + (va % Fan^n), rights |-> r, flags |-> e[2]]}
      ELSE Walk(b, e[1], va, n - 1, r)

Translate(b, root, va) ==
  Walk(b, root, va, IF b.arch = "386" THEN 3 ELSE 4, {"W", "X", "U"})

\* The memory type of a leaf: its PWT, PCD and PAT bits index the table.
MemType(b, flags) ==
  LET pat == IF "PS" \in flags THEN "PATBIG" ELSE "PAT4K"
      Bit(f, n) == IF f \in flags THEN n ELSE 0
  IN  b.pat[1 + Bit("PWT", 1) + Bit("PCD", 2) + Bit(pat, 4)]
=============================================================================
