-------------------------------- MODULE Apxh --------------------------------
(***************************************************************************)
(* The APXH boot loader: apxh/src/main.c, elf.c and payload.c on top of    *)
(* the firmware's memory map (Firmware) and the page tables (BootPt), up   *)
(* to the HAL's check of what it was handed (x86_init, riscv_init).        *)
(*                                                                         *)
(* A payload is a sequence of program headers [type, fl, va, msize, fsize, *)
(* off].  Word i of the kernel's file is <<i, {"kernel"}>>.  One step      *)
(* loads one header, as one turn of the loops of load_elf32, load_elf64.   *)
(***************************************************************************)
EXTENDS Firmware

CONSTANTS
  Machines,     \* Records [fw, arch, cpu, end]: the loader, the CPU, and where
                \* the loader ends and the payloads start.
  Kernels,      \* For each architecture, the kernel images to load.
  Users,        \* For each architecture, the user images; <<>> for none.
  MmapEnd,      \* Multiboot: end of the memory map kept for the kernel.
  InfoSize,     \* Cells of struct apxh_bootinfo.
  RegionSize,   \* Cells of struct apxh_region.
  WordBits,     \* Bits of a word of the S-tree (64).
  FrameBuffer,  \* Physical area of the frame buffer: [base, len].
  TrampCode,    \* SBI: where the trampoline's instructions are: [base, len].
  Pinned        \* x86: the frames of _memregs_pinned.

VARIABLES
  stage,        \* "firmware", "kernel", "user", "entered", "up" or "dead".
  img,          \* The two images: [kernel, user].
  ph,           \* The header to load next.
  b             \* The loader's memory and globals.

vars == <<fvars, stage, img, ph, b>>

\* The globals before main; a request whose va is 0 was never made.
None == [va |-> 0, size |-> 0]
Loader(m) ==
  [fw |-> m.fw, arch |-> m.arch, cpu |-> m.cpu, nx |-> FALSE, pat |-> ResetPat,
   min |-> 0, ram |-> {}, end |-> m.end, brk |-> 0, mem |-> <<>>,
   pagemap |-> {}, handed |-> {}, stop |-> FALSE, dead |-> "",
   root |-> 0, tramp |-> 0, info |-> None, pfnmap |-> None, stree |-> None,
   region |-> None, regnum |-> 0, order |-> 0, bits |-> {},
   ktls |-> <<>>, utls |-> <<>>]

Init ==
  \E m \in Machines :
    /\ fw = m.fw
    /\ FwInit
    /\ stage = "firmware"
    /\ img \in [kernel : Kernels[m.arch], user : Users[m.arch]]
    /\ ph = 1
    /\ b = Loader(m)

----------------------------------------------------------------------------
(* The payloads: the files follow the loader in memory, each behind a       *)
(* header of one word.  EFI reads them from disk.                           *)

FileSize(i) == Max({0} \cup {h.off + h.fsize : h \in Range(i)})
Files == IF img.user = <<>> THEN <<FileSize(img.kernel)>>
         ELSE <<FileSize(img.kernel), FileSize(img.user)>>

Skipped(files, n) == FoldLeft(LAMBDA k, f : k + 1 + f, 0, SubSeq(files, 1, n))

\* Payload i; if there is none, the end of the last one and size 0.
payload_get(end, files, i) ==
  IF i < Len(files)
  THEN [at |-> end + Skipped(files, i) + 1, size |-> files[i + 1]]
  ELSE [at |-> end + Skipped(files, Len(files)), size |-> 0]

AfterPayload(p) == Page(p.at + p.size + Fan - 1)

\* The break is put behind the kernel, then behind the user payload.
md_init(c) ==
  IF c.fw = "efi" THEN c
  ELSE [c EXCEPT !.brk = AfterPayload(payload_get(c.end, Files, 1))]

----------------------------------------------------------------------------
(* The va_ functions, which dispatch on the payload's architecture. *)

ByArch(a, x386, amd64, riscv64) ==
  IF a = "386" THEN x386 ELSE IF a = "amd64" THEN amd64 ELSE riscv64

\* Multiboot refuses to overwrite its memory map; va_verify checks nothing.
md_verify(c, va) == IF c.fw = "mb" /\ va < MmapEnd THEN Die(c, "exit") ELSE c

va_init(c) == ByArch(c.arch, pae_init(c), pae64_init(c), sv48_init(c))

va_populate(c, va, size, u, w, x) ==
  LET v == md_verify(c, va)
  IN  ByArch(c.arch, pae_populate(v, va, size, u, w, x),
             pae64_populate(v, va, size, u, w, x),
             sv48_populate(v, va, size, u, w, x))

va_getphys(c, va) ==
  ByArch(c.arch, pae_getphys(c, va), pae64_getphys(c, va), sv48_getphys(c, va))

Peek(c, va) == LET pa == va_getphys(c, va).pa IN Cell(c, <<Page(pa), pa % Fan>>)

\* The words va + i, for i in is, become V(i): a loop of stores through
\* va_getphys, whose assertion each page must pass.
Poke(c, va, is, V(_)) ==
  LET pages == {Page(va + i) : i \in is}
      at    == [j \in pages |-> va_getphys(c, j * Fan)]
      bad   == {j \in pages : at[j].b.dead # ""}
      new(j, old) == [o \in 0..Fan - 1 |->
                        LET i == j * Fan + o - va IN IF i \in is THEN V(i) ELSE old[o]]
      frame == [j \in pages |-> Page(at[j].pa)]
  IN  IF bad # {} THEN at[Min(bad)].b
      ELSE [c EXCEPT !.mem =
              [p \in DOMAIN @ |->
                 LET js == {j \in pages : frame[j] = p}
                 IN  IF js = {} THEN @[p] ELSE new(Min(js), @[p])]]

\* data[i] is word i of what is copied.
va_copy(c, va, data, size, u, w, x) ==
  Poke(va_populate(c, va, size, u, w, x), va, 0..size - 1, LAMBDA i : data[i])

\* Clears up to the end of the last page, whatever size is.
va_memset(c, va, size, u, w, x) ==
  Poke(va_populate(c, va, size, u, w, x), va,
       0..((Page(va + size - 1) + 1) * Fan - va - 1), LAMBDA i : Zero)

PhysMap(c, va, size, pa, mt) ==
  LET v == md_verify(c, va)
  IN  ByArch(c.arch, pae_directmap(v, v.root, pa, va, size, mt, TRUE, FALSE),
             pae64_directmap(v, v.root, pa, va, size, mt, TRUE, FALSE),
             sv48_directmap(v, v.root, pa, va, size, TRUE, FALSE))

va_physmap(c, va, size) == PhysMap(c, va, size, 0, "WB")

\* Only EFI and multiboot describe a frame buffer; the whole area is mapped.
va_framebuf(c, va, size) ==
  IF c.fw = "sbi" THEN md_verify(c, va)
  ELSE PhysMap(c, va, size, FrameBuffer.base, "WC")

va_linear(c, va, size) ==
  LET v == md_verify(c, va)
  IN  ByArch(c.arch, pae_linear(v, va, size), pae64_linear(v, va, size),
             sv48_linear(v, va, size))

va_topptalloc(c, va, size) ==
  LET v == md_verify(c, va)
  IN  ByArch(c.arch, pae_topptalloc(v, va, size),
             pae64_topptalloc(v, va, size), sv48_topptalloc(v, va, size))

va_ptalloc(c, va, size) ==
  LET v == md_verify(c, va)
  IN  ByArch(c.arch, pae_ptalloc(v, va, size), pae64_ptalloc(v, va, size),
             sv48_ptalloc(v, va, size))

----------------------------------------------------------------------------
(* What the kernel asks to be told.  The room is made when the header is    *)
(* loaded; what depends on later allocations is filled in by main.          *)

\* A mutant: the room is left to be made by the copy.
InfoLater(c, va, size) == [c EXCEPT !.info = [va |-> va, size |-> size]]

va_info(c, va, size) ==
  [va_populate(c, va, size, FALSE, FALSE, FALSE) EXCEPT
     !.info = [va |-> va, size |-> size]]

va_info_copy(c, uentry) ==
  LET i == <<md_maxrampfn, md_maxpfn, c.regnum, uentry>>
      n == IF c.info.size < InfoSize THEN c.info.size ELSE InfoSize
  IN  IF c.info.va = 0 THEN c
      ELSE va_copy(c, c.info.va, [k \in 0..n - 1 |-> <<i[k + 1], {"info"}>>], n,
                   FALSE, FALSE, FALSE)

\* The least order whose tree has a bit for each of n frames, and the words
\* of all the levels of a tree of that order.
RECURSIVE stree_order(_)
stree_order(n) == IF n <= WordBits THEN 1
                  ELSE 1 + stree_order((n + WordBits - 1) \div WordBits)
StreeSize(order) == SumSet({WordBits^i : i \in 0..order - 1})

\* The frames of every region, up to and including maxframe.
InRegions(maxframe, ram) ==
  {f \in UNION {Frames(r) : r \in {s \in Range(md.regions) :
                                     (s.type = REGION_RAM) = ram}} :
     f <= maxframe}

\* A mutant: RAM is set free after the other regions are taken out.
RamLast(c, va) ==
  LET order == stree_order(md_maxrampfn)
      d == va_populate(c, va, StreeSize(order) + 1, FALSE, TRUE, FALSE)
      e == va_copy(d, va, [i \in {0} |-> <<order, {"stree"}>>], 1,
                   FALSE, TRUE, FALSE)
  IN  [e EXCEPT !.stree = [va |-> va + 1, size |-> StreeSize(order) + 1],
                !.order = order,
                !.bits  = InRegions(md_maxrampfn, TRUE)]

\* The bits of the S-tree, one for each free frame; a header word before it.
va_stree(c, va) ==
  LET order == stree_order(md_maxrampfn)
      d == va_populate(c, va, StreeSize(order) + 1, FALSE, TRUE, FALSE)
      e == va_copy(d, va, [i \in {0} |-> <<order, {"stree"}>>], 1,
                   FALSE, TRUE, FALSE)
  IN  [e EXCEPT !.stree = [va |-> va + 1, size |-> StreeSize(order) + 1],
                !.order = order,
                !.bits  = InRegions(md_maxrampfn, TRUE)
                            \ InRegions(md_maxrampfn, FALSE)]

\* The frames below the loader's limit that boot_pagemap has marked.
Marked(c, maxframe) ==
  {f \in c.min .. (c.min + BOOTMEM - 1) :
     f <= maxframe /\ check_payload_page(c, f)}

va_stree_copy(c) ==
  IF c.stree.va = 0 THEN c
  ELSE [c EXCEPT !.bits = @ \ Marked(c, md_maxrampfn)]

va_regions(c, va, size) ==
  LET n == md_memregions
      d == va_populate(c, va, n * RegionSize, FALSE, FALSE, FALSE)
  IN  [d EXCEPT !.region = [va |-> va, size |-> n * RegionSize],
                !.regnum = IF size \div RegionSize > n THEN n
                           ELSE size \div RegionSize]

va_regions_copy(c) ==
  LET Words(r) == <<<<r.pfn, {"pfn"}>>, <<r.len * 4 + r.type, {"len"}>>>>
      One(d, i) == va_copy(d, d.region.va + i * RegionSize,
                           [k \in 0..RegionSize - 1 |-> Words(md_getmemregion(i))[k + 1]],
                           RegionSize, FALSE, FALSE, FALSE)
  IN  IF c.region.va = 0 THEN c
      ELSE For(c, c.region.size \div RegionSize, One)

\* A word for each frame, the highest type of the regions it is in.
va_pfnmap(c, va, size) ==
  LET max == IF size > md_maxpfn THEN md_maxpfn ELSE size
      d   == va_populate(c, va, max, FALSE, TRUE, FALSE)
      Types(f) == {r.type : r \in {s \in Range(md.regions) : f \in Frames(s)}}
      Raised(f) == <<Max(Types(f) \cup {Peek(d, va + f)[1]}), {"pfnmap"}>>
      frames == InRegions(max, TRUE) \cup InRegions(max, FALSE)
  IN  [Poke(d, va, frames, Raised) EXCEPT !.pfnmap = [va |-> va, size |-> max]]

va_pfnmap_copy(c) ==
  IF c.pfnmap.va = 0 THEN c
  ELSE Poke(c, c.pfnmap.va, Marked(c, c.pfnmap.size),
            LAMBDA f : <<REGION_BSY, {"pfnmap"}>>)

----------------------------------------------------------------------------
(* Program headers. *)

\* A segment: the words of the file, then zeros up to its size in memory.
FileWords(c, h, origin, u) ==
  IF h.fsize = 0 THEN c
  ELSE va_copy(c, h.va, [i \in 0..h.fsize - 1 |-> <<h.off + i, {origin}>>], h.fsize,
               u, "W" \in h.fl, "X" \in h.fl)

ZeroWords(c, h, u) ==
  IF h.msize = h.fsize THEN c
  ELSE va_memset(c, h.va + h.fsize, h.msize - h.fsize,
                 u, "W" \in h.fl, "X" \in h.fl)

LoadSegment(c, h, origin, u) == ZeroWords(FileWords(c, h, origin, u), h, u)

va_ktls(c, va, initsize, size) == [c EXCEPT !.ktls = <<va, initsize, size>>]
va_utls(c, va, initsize, size) == [c EXCEPT !.utls = <<va, initsize, size>>]

\* The initial values of thread-local storage are always kernel memory.

ph_uload(c, h) ==
  CASE h.type = "LOAD" -> LoadSegment(c, h, "user", TRUE)
    [] h.type = "TLS" /\ h.msize # 0 ->
         va_utls(FileWords(c, h, "user", FALSE), h.va, h.fsize, h.msize)
    [] OTHER -> c

ph_kload(c, h) ==
  CASE h.type = "LOAD"       -> LoadSegment(c, h, "kernel", FALSE)
    [] h.type = "TLS" /\ h.msize # 0 ->
         va_ktls(FileWords(c, h, "kernel", FALSE), h.va, h.fsize, h.msize)
    [] h.type = "INFO"       -> va_info(c, h.va, h.msize)
    [] h.type = "PHYSMAP"    -> va_physmap(c, h.va, h.msize)
    [] h.type = "PTALLOC"    -> va_ptalloc(c, h.va, h.msize)
    [] h.type = "PFNMAP"     -> va_pfnmap(c, h.va, h.msize)
    [] h.type = "STREE"      -> va_stree(c, h.va)
    [] h.type = "LINEAR"     -> va_linear(c, h.va, h.msize)
    [] h.type = "FRAMEBUF"   -> va_framebuf(c, h.va, h.msize)
    [] h.type = "REGIONS"    -> va_regions(c, h.va, h.msize)
    [] h.type = "TOPPTALLOC" -> va_topptalloc(c, h.va, h.msize)
    [] OTHER -> c

----------------------------------------------------------------------------
(* main *)

\* init(), va_init(): the memory map is known, the root table is made.
init ==
  /\ stage = "firmware" /\ FwDone
  /\ stage' = "kernel"
  /\ b' = va_init([md_init(b) EXCEPT !.min = md_minrampfn,
                                     !.ram = InRegions(NoAddr, TRUE)
                                               \ InRegions(NoAddr, FALSE)])
  /\ UNCHANGED <<fvars, img, ph>>

\* A step of the loader ends in the next stage, or in exit().
Goes(c, next) == b' = c /\ stage' = (IF c.dead = "" THEN next ELSE "dead")

\* The user image, if there is one, follows the kernel's last header.
UserNext == IF stage = "kernel" /\ ph > Len(img.kernel) THEN 1 ELSE ph
KernelHeader ==
  /\ stage = "kernel" /\ ph <= Len(img.kernel)
  /\ Goes(ph_kload(b, img.kernel[ph]), "kernel")
  /\ ph' = ph + 1
UserHeader ==
  /\ stage = "user" \/ (stage = "kernel" /\ ph > Len(img.kernel))
  /\ UserNext <= Len(img.user)
  /\ Goes(ph_uload(b, img.user[UserNext]), "user")
  /\ ph' = UserNext + 1

load_elf32 ==
  /\ b.arch = "386"
  /\ KernelHeader \/ UserHeader
  /\ UNCHANGED <<fvars, img>>

load_elf64 ==
  /\ b.arch # "386"
  /\ KernelHeader \/ UserHeader
  /\ UNCHANGED <<fvars, img>>

\* The kernel's entry point is the start of its first segment.
Entry == img.kernel[1].va
UserEntry == IF img.user = <<>> THEN 0 ELSE img.user[1].va

\* A second page table, in memory that is not the payload's, in which both
\* the loader's last instructions and the kernel's first are mapped.
Tramp(t) == [t.b EXCEPT !.tramp = t.page]
TwoPages(c) == get_page(Tramp(get_page(c))).b

MapEntry386(c) ==
  pae_map_page(c, c.tramp, Entry, pae_getphys(c, Entry).pa, FALSE, FALSE, TRUE)
Identity386(c, len) == pae_directmap(c, c.tramp, 0, 0, len, "WB", FALSE, TRUE)
mb_386_entry(c) == MapEntry386(Identity386(TwoPages(c), Fan^3))

MapEntry64(c) ==
  pae64_map_page(c, c.tramp, Entry, pae64_getphys(c, Entry).pa, FALSE, FALSE, TRUE)
Identity64(c, len) == pae64_directmap(c, c.tramp, 0, 0, len, "WB", FALSE, TRUE)
mb_amd64_entry(c) == MapEntry64(Identity64(TwoPages(c), Fan^3))
efi_amd64_entry(c) == MapEntry64(Identity64(TwoPages(c), 2 * Fan^3))

MapEntry48(c) ==
  sv48_directmap(c, c.tramp, sv48_getphys(c, Entry).pa, Entry, Fan, FALSE, TRUE)
Identity48(c) == sv48_directmap(c, c.tramp, TrampCode.base, TrampCode.base,
                                TrampCode.len, FALSE, TRUE)
sbi_entry(c) == MapEntry48(Identity48(Tramp(get_page(c))))
efi_riscv_entry(c) == MapEntry48(Identity48(Tramp(get_page(c))))

va_entry(c) ==
  CASE c.fw = "mb" /\ c.arch = "386"    -> mb_386_entry(c)
    [] c.fw = "mb" /\ c.arch = "amd64"  -> mb_amd64_entry(c)
    [] c.fw = "efi" /\ c.arch = "amd64" -> efi_amd64_entry(c)
    [] c.fw = "efi" /\ c.arch # "amd64" -> efi_riscv_entry(c)
    [] OTHER -> sbi_entry(c)

\* Allocation stops, what was promised is filled in, and the kernel entered.
main ==
  /\ stage \in {"kernel", "user"}
  /\ IF stage = "kernel" THEN ph > Len(img.kernel) /\ img.user = <<>>
     ELSE ph > Len(img.user)
  /\ LET c == va_info_copy([b EXCEPT !.stop = TRUE], UserEntry)
     IN  Goes(va_entry(va_regions_copy(va_stree_copy(va_pfnmap_copy(c)))),
              "entered")
  /\ UNCHANGED <<fvars, img, ph>>

Asked(type) == {h \in Range(img.kernel) : h.type = type}

\* The kernel's HAL checks that there is boot information, the S-tree's header,
\* and that the tree fits in the area the kernel has for it, or halts.
HandedGood ==
  /\ b.info.va # 0 /\ Peek(b, b.info.va)[2] = {"info"}
  /\ Peek(b, b.stree.va - 1) = <<b.order, {"stree"}>>
  /\ \A h \in Asked("STREE") : b.stree.size <= h.msize

riscv_init ==
  /\ stage = "entered" /\ b.stree.va # 0 /\ b.arch = "riscv64"
  /\ stage' = IF HandedGood THEN "up" ELSE "dead"
  /\ UNCHANGED <<fvars, img, ph, b>>

\* On x86 it then takes out the frames it pins.
x86_init ==
  /\ stage = "entered" /\ b.stree.va # 0 /\ b.arch # "riscv64"
  /\ stage' = IF HandedGood THEN "up" ELSE "dead"
  /\ b' = [b EXCEPT !.bits = IF HandedGood THEN @ \ Pinned ELSE @]
  /\ UNCHANGED <<fvars, img, ph>>

Next ==
  \/ stage = "firmware" /\ parse_multiboot_mmap /\ UNCHANGED <<stage, img, ph, b>>
  \/ stage = "firmware" /\ ramregion_foreach /\ UNCHANGED <<stage, img, ph, b>>
  \/ stage = "firmware" /\ add_dtb /\ UNCHANGED <<stage, img, ph, b>>
  \/ stage = "firmware" /\ apxhefi_add_memregion /\ UNCHANGED <<stage, img, ph, b>>
  \/ init
  \/ load_elf32
  \/ load_elf64
  \/ main
  \/ riscv_init
  \/ x86_init

Spec == Init /\ [][Next]_vars

----------------------------------------------------------------------------
(* Properties *)

PayloadPages ==
  IF fw = "efi" THEN {}
  ELSE Page(b.end) .. Page(b.end + Skipped(Files, Len(Files)) - 1)

\* A payload whose segments do not overlap is loaded to the end: no assertion
\* of main.c and pae.c fails, above all that of get_payload_page, which after
\* main's "Stop allocations" refuses the page a copy would still need; the HAL
\* accepts what it is handed; and no page is given out that a file is still
\* being read from.
NoAbort == stage # "dead" /\ (b.handed \cap PayloadPages = {})

Booted == stage \in {"entered", "up"}

Segments == {<<"kernel", img.kernel[i]>> : i \in DOMAIN img.kernel} \cup
            {<<"user", img.user[i]>> : i \in DOMAIN img.user}
Pages(h) == Page(h.va) .. Page(h.va + h.msize - 1)
Wanted(page, right) ==
  \E s \in Segments : /\ s[2].type \in {"LOAD", "TLS"} /\ right \in s[2].fl
                      /\ page \in Pages(s[2])

\* When the kernel is entered its own page table shows it every segment as the
\* file has it, with zeros behind, though segments share pages; kernel pages
\* are the kernel's and user pages the user's, and a page is writable or
\* executable exactly if a segment in it is.
ImageInPlace ==
  Booted =>
    \A s \in Segments : s[2].type = "LOAD" =>
      \A i \in 0..s[2].msize - 1 :
        LET va == s[2].va + i
        IN  \E t \in Translate(b, b.root, va) :
              /\ Cell(b, <<Page(t.pa), t.pa % Fan>>) =
                   IF i < s[2].fsize THEN <<s[2].off + i, {s[1]}>> ELSE Zero
              /\ ("U" \in t.rights) = (s[1] = "user")
              /\ ("W" \in t.rights) = Wanted(Page(va), "W")
              /\ ("X" \in t.rights) = (Wanted(Page(va), "X") \/ (~b.nx /\ b.arch # "riscv64"))

FirmwareType(f) ==
  IF f \in If(fw = "efi", Described({"rt"})) \cup If(fw = "sbi", Reserved)
  THEN REGION_BSY
  ELSE IF f \in Reserved THEN REGION_OTHER
  ELSE IF f \in Described({"ram"}) THEN REGION_RAM ELSE 0

\* What the kernel is told of memory is true: the S-tree offers it exactly the
\* RAM that the firmware does not keep and that neither image, tables nor boot
\* data occupy; the PFN map names each frame's use; and the boot information
\* and the region list read back as they were found.
BootMapTrue ==
  /\ stage = "up" =>
       b.bits = (Described({"ram"}) \ Reserved)
                  \ (b.handed \cup If(b.arch # "riscv64", Pinned))
  /\ Booted /\ b.pfnmap.va # 0 =>
       \A f \in 0..b.pfnmap.size - 1 :
         Peek(b, b.pfnmap.va + f)[1] =
           IF f \in b.handed THEN REGION_BSY ELSE FirmwareType(f)
  /\ Booted /\ b.region.va # 0 =>
       \A i \in DOMAIN md.regions :
         Peek(b, b.region.va + (i - 1) * RegionSize)[1] = md.regions[i].pfn
  /\ Booted /\ b.info.va # 0 =>
       Peek(b, b.info.va) = <<md.maxrampfn, {"info"}>>

\* The kernel can run and can manage its memory: its first instruction is the
\* same, executable, page under the loader's trampoline table and under its
\* own; its linear area shows the last-level entry of every page it was given
\* (x86); the frame buffer is write-combining and the physical map write-back
\* under the PAT it finds; and the tables it asked to have allocated are there.
HandOver ==
  Booted =>
    /\ \E t \in Translate(b, b.tramp, Entry), k \in Translate(b, b.root, Entry) :
         t.pa = k.pa /\ "X" \in t.rights \cap k.rights
    /\ \A l \in Asked("LINEAR"), h \in Asked("LOAD") :
         \A p \in IF b.arch = "riscv64" THEN {} ELSE Pages(h) :
           \E t \in Translate(b, b.root, l.va + p), k \in Translate(b, b.root, p * Fan) :
             Cell(b, <<Page(t.pa), t.pa % Fan>>)[1] = Page(k.pa)
    /\ \A l \in Asked("LINEAR"), h \in Asked("PTALLOC") :
         \A p \in IF b.arch = "riscv64" THEN {} ELSE Pages(h) :
           Translate(b, b.root, l.va + p) # {}
    /\ \A h \in Asked("FRAMEBUF") \cup Asked("PHYSMAP") :
         \A p \in IF b.arch = "riscv64" THEN {} ELSE Pages(h) :
           \A t \in Translate(b, b.root, p * Fan) :
             MemType(b, t.flags) = IF h.type = "FRAMEBUF" THEN "WC" ELSE "WB"
    /\ \A h \in Asked("TOPPTALLOC") : pte_getaddr(b, <<b.root,
         LnOff(h.va, IF b.arch = "386" THEN 3 ELSE 4)>>) # 0

\* "Page is allocated. Mark as BSY.": no frame handed to the payload is free
\* in the S-tree.
AllocatedIsBusy == stage = "up" => b.bits \cap b.handed = {}
=============================================================================
