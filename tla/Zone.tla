-------------------------------- MODULE Zone --------------------------------
(***************************************************************************)
(* The zone allocator of libnux/alloc.h: free ranges kept in one list per  *)
(* power of two, with a bitmap of the lists that are not empty.  Who finds *)
(* the neighbours of a range, and where its entry is stored, is left to    *)
(* the code that includes alloc.h.                                         *)
(***************************************************************************)
EXTENDS Integers, Sequences, SequencesExt, FiniteSetsExt

CONSTANT ORDMAX   \* number of lists

Order == 0 .. ORDMAX - 1
NULL == [addr |-> -1, size |-> 0]
End(e) == e.addr + e.size

msbit(x) == CHOOSE b \in Order : 2 ^ b <= x /\ x < 2 ^ (b + 1)

zone_init == [bmap |-> {}, zlist |-> [o \in Order |-> <<>>], nfree |-> 0]

DetachKeepsBit(z, e) ==
  LET o == msbit(e.size)
  IN  [z EXCEPT !.zlist[o] = Remove(@, e), !.nfree = @ - e.size]

_zone_detachentry(z, e) ==
  LET o == msbit(e.size)
      l == Remove(z.zlist[o], e)
  IN  [bmap |-> IF l = <<>> THEN z.bmap \ {o} ELSE z.bmap,
       zlist |-> [z.zlist EXCEPT ![o] = l],
       nfree |-> z.nfree - e.size]

_zone_attachentry(z, e) ==
  LET o == msbit(e.size)
  IN  [bmap |-> z.bmap \cup {o},
       zlist |-> [z.zlist EXCEPT ![o] = <<e>> \o @],
       nfree |-> z.nfree + e.size]

(* The lists searched are the ones whose every entry is large enough.      *)
MinBit(size) == IF size = 2 ^ msbit(size) THEN msbit(size) ELSE msbit(size) + 1

_zone_findfree(z, size) ==
  LET fit == {o \in z.bmap : o >= MinBit(size)}
  IN  IF fit = {} THEN NULL ELSE Head(z.zlist[Min(fit)])

(* zone_create: the range joins its neighbours p and n, where it has them. *)
NextStays(addr, size, p, n) == [addr |-> IF p = NULL THEN addr ELSE p.addr,
                                size |-> size + p.size]

Joined(addr, size, p, n) == [addr |-> IF p = NULL THEN addr ELSE p.addr,
                             size |-> size + p.size + n.size]

zone_create(z, addr, size, p, n) ==
  LET z1 == IF p = NULL THEN z ELSE _zone_detachentry(z, p)
      z2 == IF n = NULL THEN z1 ELSE _zone_detachentry(z1, n)
  IN  _zone_attachentry(z2, Joined(addr, size, p, n))

Entries(z) == UNION {ToSet(z.zlist[o]) : o \in Order}

=============================================================================
