------------------------------ MODULE Console -------------------------------
(***************************************************************************)
(* The framebuffer console (libnux/framebuffer.c) under hal_putchar of     *)
(* libhal_x86: CPUs print characters and newlines, the position is handed  *)
(* out under fblock, glyphs are drawn without it, and hal_panic resets the *)
(* lock while NMIs stop the other CPUs wherever they are.                  *)
(*                                                                         *)
(* What a glyph looks like does not matter here; where its pixels go does. *)
(* A colour, and a mask, is the set of its bits.                           *)
(***************************************************************************)
EXTENDS Integers, FiniteSets, FiniteSetsExt

CONSTANTS
  Printers,     \* CPUs
  First,        \* the CPU that boots
  Fbs,          \* RGB descriptors, usable or not: [bpp, pitch, width, height,
                \* size, r, g, b]
  GlyphW, GlyphH,   \* 8 and 16
  FB_ROWCHARS,
  MaxChars      \* bound: characters printed

VARIABLES
  desc,         \* fbdesc
  fblock,       \* CPU that holds it, or Free
  fb,           \* [sc, x, y, cols, rows]: fb_sc, fb_x, fb_y, fb_scrcols, fb_scrrows
  at,           \* what each CPU does: [pc, nl, pos]
  panicked,     \* CPUs that called hal_panic
  chars         \* characters so far

vars == <<desc, fblock, fb, at, panicked, chars>>

----------------------------------------------------------------------------
Free == -1

(* The descriptor. *)

framebuffer_bypp(d) == IF d.bpp = 0 \/ d.bpp > 32 THEN 0 ELSE (d.bpp + 7) \div 8

framebuffer_desc_usable(d) ==
  /\ framebuffer_bypp(d) > 0 /\ d.width > 0 /\ d.height > 0
  /\ d.pitch >= framebuffer_bypp(d) /\ d.size >= framebuffer_bypp(d)

framebuffer_mask_shift(mask) == IF mask = {} THEN 0 ELSE Min(mask)
framebuffer_mask_bits(mask) == Cardinality(mask)

framebuffer_masks_usable(d) ==
  /\ framebuffer_bypp(d) > 0
  /\ d.r \cap d.g = {} /\ d.r \cap d.b = {} /\ d.g \cap d.b = {}
  /\ d.r \cup d.g \cup d.b # {}
  /\ d.r \cup d.g \cup d.b \subseteq 0 .. 8 * framebuffer_bypp(d) - 1

Bits(n) == {i \in 0 .. 30 : (n \div 2 ^ i) % 2 = 1}
Shift(bits, n) == {i + n : i \in bits}

framebuffer_default_color(r, g, b) ==
  Shift(Bits(Min({r, 255})), 16) \cup Shift(Bits(Min({g, 255})), 8) \cup Bits(Min({b, 255}))

framebuffer_color_channel(value, mask) ==
  LET maxval == 2 ^ framebuffer_mask_bits(mask) - 1
      scaled == (Min({value, 255}) * maxval + 127) \div 255
  IN  Shift(Bits(scaled), framebuffer_mask_shift(mask)) \cap mask

framebuffer_color(d, r, g, b) ==
  IF ~framebuffer_masks_usable(d) THEN framebuffer_default_color(r, g, b)
  ELSE framebuffer_color_channel(r, d.r) \cup framebuffer_color_channel(g, d.g)
       \cup framebuffer_color_channel(b, d.b)

----------------------------------------------------------------------------
(* The pixels <<offset of the row, offset in it>> that a blit writes.      *)
framebuffer_blt(d, x, y) ==
  LET bypp == framebuffer_bypp(d)
      rows == {r \in 0 .. Min({GlyphH, d.height - y}) - 1 : (y + r) * d.pitch < d.size}
      cols == {c \in 0 .. Min({GlyphW, d.width - x}) - 1 : (x + c) * bypp <= d.pitch - bypp}
  IN  {p \in {<<(y + r) * d.pitch, (x + c) * bypp>> : r \in rows, c \in cols} :
         p[1] + p[2] <= d.size - bypp}

(* Mutant: as many columns as fit without the space between them.          *)
NoColumnSpace(d) ==
  [cols |-> Max({1, (d.width \div GlyphW) \div FB_ROWCHARS}),
   rows |-> Max({1, d.height \div GlyphH})]

framebuffer_reset(d) ==
  [cols |-> Max({1, (d.width \div GlyphW) \div (FB_ROWCHARS + 1)}),
   rows |-> Max({1, d.height \div GlyphH})]

Start(cols, rows) == [sc |-> 0, x |-> 0, y |-> 0, cols |-> cols, rows |-> rows]

(* framebuffer_putc_xy, for the position pos of a character.               *)
framebuffer_putc_xy(d, pos) ==
  framebuffer_blt(d, GlyphW * (pos.sc * (FB_ROWCHARS + 1) + pos.x), GlyphH * pos.y)

blank_line(d, pos) ==
  UNION {framebuffer_putc_xy(d, [pos EXCEPT !.x = @ + i]) : i \in 0 .. FB_ROWCHARS - 1}

(* framebuffer_selftest draws a glyph whose first pixel is the last one.   *)
framebuffer_selftest(d) == framebuffer_blt(d, d.width - 1, d.height - 1)

----------------------------------------------------------------------------
Idle == [pc |-> "idle", nl |-> FALSE, pos |-> Start(1, 1)]

(* framebuffer_init has cleared the memory; the self test comes next.      *)
Init ==
  /\ desc \in {d \in Fbs : framebuffer_desc_usable(d)}
  /\ fblock = Free
  /\ fb = Start(framebuffer_reset(desc).cols, framebuffer_reset(desc).rows)
  /\ at = [c \in Printers |-> IF c = First THEN [Idle EXCEPT !.pc = "selftest"] ELSE Idle]
  /\ panicked = {} /\ chars = 0

Goto(c, pc) == at' = [at EXCEPT ![c].pc = pc]
Booted == at[First].pc # "selftest"

Selftest(c) ==
  /\ at[c].pc = "selftest" /\ Goto(c, "idle")
  /\ UNCHANGED <<desc, fblock, fb, panicked, chars>>

(* framebuffer_putc, of a newline or of another character.                 *)
framebuffer_putc(c, nl) ==
  /\ Booted /\ at[c].pc = "idle" /\ chars < MaxChars
  /\ at' = [at EXCEPT ![c] = [Idle EXCEPT !.pc = "lock", !.nl = nl]]
  /\ chars' = chars + 1
  /\ UNCHANGED <<desc, fblock, fb, panicked>>

spinlock(c) ==
  /\ at[c].pc = "lock" /\ fblock = Free
  /\ fblock' = c
  /\ Goto(c, IF at[c].nl \/ fb.x >= FB_ROWCHARS THEN "line" ELSE "take")
  /\ UNCHANGED <<desc, fb, panicked, chars>>

(* newline and allocchar: the next line, and the next column of lines.     *)
NextLine(c) ==
  /\ at[c].pc = "line"
  /\ fb' = [fb EXCEPT !.x = 0, !.y = @ + 1]
  /\ Goto(c, "wrap")
  /\ UNCHANGED <<desc, fblock, panicked, chars>>

NextColumn(c) ==
  /\ at[c].pc = "wrap"
  /\ fb' = IF fb.y >= fb.rows THEN [fb EXCEPT !.y = 0, !.sc = (@ + 1) % fb.cols] ELSE fb
  /\ Goto(c, IF at[c].nl THEN "take" ELSE "blanknow")
  /\ UNCHANGED <<desc, fblock, panicked, chars>>

(* The position is taken and fblock released; allocchar moves past it.     *)
spinunlock(c) ==
  /\ at[c].pc = "take"
  /\ at' = [at EXCEPT ![c].pos = fb, ![c].pc = IF at[c].nl THEN "blank" ELSE "draw"]
  /\ fb' = IF at[c].nl THEN fb ELSE [fb EXCEPT !.x = @ + 1]
  /\ fblock' = Free
  /\ UNCHANGED <<desc, panicked, chars>>

(* allocchar blanks the line before it unlocks, newline after.             *)
Drawn(c) ==
  /\ at[c].pc \in {"blanknow", "blank", "draw"}
  /\ Goto(c, CASE at[c].pc = "blanknow" -> "take"
               [] at[c].pc \in {"blank", "draw"} -> IF c \in panicked THEN "next" ELSE "idle")
  /\ UNCHANGED <<desc, fblock, fb, panicked, chars>>

(* "Reset frame buffer. This will unlock in case any CPU was holding the   *)
(* spinlock."  What the CPU was doing is abandoned for its message.        *)
hal_panic(c) ==
  /\ Booted /\ panicked = {}
  /\ panicked' = {c} /\ fblock' = Free
  /\ fb' = [fb EXCEPT !.cols = framebuffer_reset(desc).cols,
                      !.rows = framebuffer_reset(desc).rows]
  /\ Goto(c, "next")
  /\ UNCHANGED <<desc, chars>>

PanicPutc(c) ==
  /\ c \in panicked /\ at[c].pc = "next" /\ chars < MaxChars
  /\ \E nl \in BOOLEAN : at' = [at EXCEPT ![c] = [Idle EXCEPT !.pc = "lock", !.nl = nl]]
  /\ chars' = chars + 1
  /\ UNCHANGED <<desc, fblock, fb, panicked>>

(* The NMI of nux_panic, sent before hal_panic, may arrive late.           *)
hal_entry_nmi(c) ==
  /\ panicked # {} /\ c \notin panicked /\ at[c].pc # "halted"
  /\ Goto(c, "halted")
  /\ UNCHANGED <<desc, fblock, fb, panicked, chars>>

Next ==
  \E c \in Printers :
    \/ Selftest(c) \/ spinlock(c) \/ NextLine(c) \/ NextColumn(c) \/ spinunlock(c)
    \/ Drawn(c) \/ hal_panic(c) \/ PanicPutc(c) \/ hal_entry_nmi(c)
    \/ \E nl \in BOOLEAN : framebuffer_putc(c, nl)

Spec == Init /\ [][Next]_vars

----------------------------------------------------------------------------
(* The pixels CPU c is about to write.                                     *)
Writes(c) ==
  CASE at[c].pc = "draw" -> framebuffer_putc_xy(desc, at[c].pos)
    [] at[c].pc = "blank" -> blank_line(desc, at[c].pos)
    [] at[c].pc = "blanknow" -> blank_line(desc, fb)
    [] at[c].pc = "selftest" -> framebuffer_selftest(desc)
    [] at[c].pc \in {"idle", "lock", "line", "wrap", "take", "next", "halted"} -> {}

(* A screen with all its bytes and room for a line.                        *)
Regular ==
  /\ desc.pitch >= desc.width * framebuffer_bypp(desc)
  /\ desc.size >= desc.pitch * desc.height
  /\ desc.width >= GlyphW * (FB_ROWCHARS + 1) /\ desc.height >= GlyphH

(* docs/backlog.md on framebuffer_blt: it "clips glyph writes against      *)
(* descriptor width, height, pitch, bpp-derived pixel storage, and mapped  *)
(* framebuffer size", also after a panic has broken the lock.  Until then  *)
(* a character on a regular screen is drawn whole, and white is all of     *)
(* the masks and none of the bits around them.                             *)
GlyphsOnScreen ==
  LET bypp == framebuffer_bypp(desc) IN
  /\ \A c \in Printers : \A p \in Writes(c) :
       /\ p[1] + p[2] + bypp <= desc.size /\ p[2] + bypp <= desc.pitch
       /\ p[2] \div bypp < desc.width /\ p[1] \div desc.pitch < desc.height
  /\ Regular /\ panicked = {} =>
       \A c \in Printers : at[c].pc = "draw" => Cardinality(Writes(c)) = GlyphW * GlyphH
  /\ framebuffer_masks_usable(desc) =>
       framebuffer_color(desc, 255, 255, 255) = desc.r \cup desc.g \cup desc.b
=============================================================================
