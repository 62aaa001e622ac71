------------------------------ MODULE Firmware ------------------------------
(***************************************************************************)
(* How APXH learns the memory of the machine: the multiboot memory map     *)
(* (apxh/multiboot/mb.c), the device tree (apxh/sbi/md.c) and the EFI      *)
(* memory map (apxh/efi/efi-main.c, apxhefi/efi_md.c).  Each is read entry *)
(* by entry into regions of whole pages, from which the md_ functions      *)
(* answer.                                                                 *)
(*                                                                         *)
(* A descriptor of the firmware is [kind, base, len, slots]: "ram" memory, *)
(* "rsv" memory or addresses the kernel must leave alone, "rt" EFI runtime  *)
(* services memory, "skip" an EFI kind the loader does not know; addresses *)
(* are in cells, Fan to a page.  slots is the room a multiboot entry takes *)
(* in its table, a region taking one.                                      *)
(***************************************************************************)
EXTENDS BootPt

CONSTANTS
  Maps,         \* The firmware memory maps, as sequences of descriptors.
  MaxRegions,   \* SBI_MAX_RAM_REGIONS, BOOTINFO_REGIONS_MAX.
  Mmapsize,     \* BOOTMEM_MMAPSIZE, in slots of the multiboot table.
  Dtb,          \* Where the device tree is: [base, len].
  NoAddr        \* An address above every other: the -1 of minaddr.

VARIABLES
  fw,           \* The loader built: "mb", "sbi" or "efi".
  map,          \* The firmware's memory map.
  cur,          \* The descriptor (or the multiboot slot) to read next.
  mmap,         \* Multiboot: the slots at BOOTMEM_MMAP.
  md            \* [regions, minpfn, maxpfn, maxrampfn].

fvars == <<fw, map, cur, mmap, md>>

REGION_RAM == 1
REGION_OTHER == 2
REGION_BSY == 3

Region(type, pfn, len) == [type |-> type, pfn |-> pfn, len |-> len]
Frames(r) == r.pfn .. (r.pfn + r.len - 1)
More(x, y) == IF x < y THEN y ELSE x

\* The multiboot table in memory: an entry in the first of its slots.
Slots(m) ==
  FoldLeft(LAMBDA t, d : t \o <<d>> \o [i \in 1..d.slots - 1 |-> d], <<>>, m)

\* What is found in memory when firmware hands over to the loader.
FwInit ==
  /\ map \in Maps
  /\ cur = 1
  /\ mmap = IF fw = "mb" THEN Slots(map) ELSE <<>>
  /\ md = [regions |-> <<>>, maxpfn |-> 0, maxrampfn |-> 0,
           minpfn |-> IF fw = "mb" THEN 0 ELSE NoAddr]

\* The multiboot map is turned into regions in place: the entry read at cur
\* is lost where the region written behind it lands.
AsRegion(d) ==
  Region(IF d.kind = "ram" THEN REGION_RAM ELSE REGION_OTHER,
         Page(d.base), (d.len + Fan - 1) \div Fan)

parse_multiboot_mmap ==
  LET d == mmap[cur]
      r == AsRegion(d)
      n == Len(md.regions) + 1
  IN  /\ fw = "mb" /\ cur <= Len(mmap) /\ Len(mmap) < Mmapsize
      /\ mmap' = [mmap EXCEPT ![n] = [kind |-> "region", base |-> r.pfn * Fan,
                                      len |-> r.len * Fan, slots |-> 1]]
      /\ cur' = cur + d.slots
      /\ md' = [md EXCEPT !.regions = Append(@, r),
                          !.maxpfn = More(@, r.pfn + r.len),
                          !.maxrampfn = IF r.type = REGION_RAM
                                        THEN More(@, r.pfn + r.len) ELSE @]
      /\ UNCHANGED <<fw, map>>

\* Lowest and highest addresses are those of all the regions, reserved ones
\* included.
add_ramregion(m, base, len, busy) ==
  IF Len(m.regions) >= MaxRegions THEN m
  ELSE [m EXCEPT
         !.regions   = Append(@, Region(IF busy THEN REGION_BSY ELSE REGION_RAM,
                                        Page(base), len \div Fan)),
         !.minpfn    = IF Page(base) <= @ THEN Page(base) ELSE @,
         !.maxrampfn = More(@, Page(base + len)),
         !.maxpfn    = More(@, Page(base + len))]

\* The memory and the reserved-memory entries of the device tree.
ramregion_foreach ==
  LET d == map[cur]
  IN  /\ fw = "sbi" /\ cur <= Len(map)
      /\ cur' = cur + 1
      /\ md' = add_ramregion(md, d.base, d.len, d.kind # "ram")
      /\ UNCHANGED <<fw, map, mmap>>

\* "Add DTB as busy."
add_dtb ==
  /\ fw = "sbi" /\ cur = Len(map) + 1
  /\ cur' = cur + 1
  /\ md' = add_ramregion(md, Dtb.base, ((Dtb.len + Fan - 1) \div Fan) * Fan, TRUE)
  /\ UNCHANGED <<fw, map, mmap>>

\* The region type of an EFI memory kind.
efi_getmemorymap(d) ==
  IF d.kind = "ram" THEN REGION_RAM
  ELSE IF d.kind = "rt" THEN REGION_BSY ELSE REGION_OTHER

\* The EFI map counts in pages; memory in use by runtime services is RAM that
\* is busy, and only free RAM moves the limits of RAM.
apxhefi_add_memregion ==
  LET d == map[cur]
      p == Page(d.base)
      e == p + (d.len \div Fan)
      t == efi_getmemorymap(d)
  IN  /\ fw = "efi" /\ cur <= Len(map)
      /\ cur' = cur + 1
      /\ md' = IF d.kind = "skip" \/ Len(md.regions) >= MaxRegions THEN md
               ELSE [md EXCEPT
                      !.regions   = Append(@, Region(t, p, e - p)),
                      !.maxpfn    = More(@, e),
                      !.maxrampfn = IF t = REGION_RAM THEN More(@, e) ELSE @,
                      !.minpfn    = IF t = REGION_RAM /\ p < @ THEN p ELSE @]
      /\ UNCHANGED <<fw, map, mmap>>

FwDone ==
  CASE fw = "mb"  -> cur > Len(mmap)
    [] fw = "sbi" -> cur > Len(map) + 1
    [] OTHER      -> cur > Len(map)

md_maxpfn == md.maxpfn
md_minrampfn == md.minpfn
md_maxrampfn == md.maxrampfn
md_memregions == Len(md.regions)
md_getmemregion(i) == md.regions[i + 1]

----------------------------------------------------------------------------
(* What the firmware said, to compare with. *)

FramesOf(d) == Page(d.base) .. Page(d.base + d.len - 1)
Described(kinds) ==
  UNION {FramesOf(map[i]) : i \in {j \in DOMAIN map : map[j].kind \in kinds}}

\* A kind the loader does not know is left alone, except by the EFI loader,
\* which leaves it out.
Reserved == Described({"rsv", "rt"} \cup If(fw # "efi", {"skip"})) \cup
            If(fw = "sbi", FramesOf(Dtb))
=============================================================================
