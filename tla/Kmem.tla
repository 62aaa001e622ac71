-------------------------------- MODULE Kmem --------------------------------
(***************************************************************************)
(* The kernel heap: libnux/kmem.c.  Two brks grow towards each other from  *)
(* the ends of the KMEM area, and each side keeps the blocks freed below   *)
(* its brk in a zone.  A zone entry lives in the free memory itself: a     *)
(* head with a magic number in its first 64 bytes, a tail in its last.     *)
(*                                                                         *)
(* Addresses and sizes are in units of 64 bytes (zaddr_t).  Sections under *)
(* brklock are one step; a zone operation, under the zone's own lock, is   *)
(* several, since it reads the brks and the neighbours' memory.            *)
(***************************************************************************)
EXTENDS Zone

CONSTANTS
  CPU,
  Base, Limit,   \* base[LO] and base[HI]
  PG,            \* units in a page
  UINT,          \* 2^32 bytes, in units
  Sizes,         \* bound: the sizes asked for
  BrkTargets,    \* bound: addresses kmem_brk is called with
  Modes, Trims,  \* bound: the modes set, and the ones asked of kmem_trim_one
  Gap            \* bound: units left to the other side's maxbrk when pages run out

KmemConstants ==
  /\ Base \in Nat \ {0} /\ Limit \in Nat /\ Base < Limit
  /\ PG \in Nat \ {0} /\ UINT \in Nat /\ Gap \in Nat
  /\ Base % PG = 0 /\ Limit % PG = 0 /\ 2 ^ ORDMAX > Limit - Base
  /\ Sizes \subseteq 1 .. Limit - Base /\ Modes \cup Trims \subseteq 0 .. 2

Side == {"LO", "HI"}
Unit == Base .. Limit - 1
PageOf(u) == u \div PG
PagesIn(a, b) == {PageOf(u) : u \in a .. b - 1}
TruncUp(a) == (a \div PG) * PG
trunc_page(a) == (a \div PG) * PG
round_page(a) == ((a + PG - 1) \div PG) * PG
TRIM_BRK == 1

VARIABLES
  brk, maxbrk,
  kmem_trim,
  mapped,     \* pages of the area that are mapped
  kmemz,      \* the two zones
  head, tail, \* where the magics are, with the size of the entry; 0 elsewhere
  lockz,      \* holder of each zone lock, or 0
  pc,
  req,        \* of each CPU: the side and the range it works on
  pze,        \* previous neighbour found by ___get_neighbors
  own,        \* blocks the callers own
  fault       \* the kernel touched a page that is not mapped

brkVars == <<brk, maxbrk, kmem_trim>>
zoneVars == <<kmemz, head, tail, lockz>>
vars == <<brkVars, zoneVars, mapped, pc, req, pze, own, fault>>

NoReq == [side |-> "HI", addr |-> 0, size |-> 0, give |-> NULL]

TypeOK ==
  /\ brk \in [Side -> Base .. Limit] /\ maxbrk \in [Side -> Base .. Limit]
  /\ brk["LO"] < brk["HI"]
  /\ kmem_trim \in 0 .. 2 /\ mapped \subseteq PagesIn(Base, Limit)
  /\ head \in [Unit -> 0 .. Limit - Base] /\ tail \in [Unit -> 0 .. Limit - Base]
  /\ pc \in [CPU -> {"idle", "grow", "zone", "bounds", "prev", "next"}]
  /\ \A b \in own : b.side \in Side /\ b.addr \in Unit /\ End(b) \in Base .. Limit
  /\ fault \in BOOLEAN

Init ==
  /\ brk = [LO |-> Base, HI |-> Limit] /\ maxbrk = brk /\ kmem_trim = 0
  /\ mapped = {} /\ kmemz = [s \in Side |-> zone_init]
  /\ head = [u \in Unit |-> 0] /\ tail = head /\ lockz = [s \in Side |-> {}]
  /\ pc = [c \in CPU |-> "idle"] /\ req = [c \in CPU |-> NoReq]
  /\ pze = [c \in CPU |-> NULL] /\ own = {} /\ fault = FALSE

At(c, l) == pc[c] = l /\ ~fault
Goto(c, l) == pc' = [pc EXCEPT ![c] = l]
Idle(c) == Goto(c, "idle") /\ req' = [req EXCEPT ![c] = NoReq]
Other(s) == IF s = "LO" THEN "HI" ELSE "LO"

-----------------------------------------------------------------------------
(* The pages mapped by _ensure_range; one that was not mapped comes zeroed *)
(* and one that is unmapped takes its magics with it.                      *)
Forget(f, ps) == [u \in Unit |-> IF PageOf(u) \in ps THEN 0 ELSE f[u]]

Unmap(a, b) ==
  LET ps == PagesIn(Min({a, b}), Max({a, b}))
  IN  mapped' = mapped \ ps /\ head' = Forget(head, ps) /\ tail' = Forget(tail, ps)

(* The check kmem_brk and kmem_sbrk share: within the base and short of    *)
(* the other brk.                                                          *)
InRange(s, v) ==
  IF s = "LO" THEN v >= Base /\ v < brk["HI"] ELSE v <= Limit /\ v > brk["LO"]

(* kmem_sbrk to v: the pages between are mapped first.  A page that cannot *)
(* be had fails the call and leaves the ones before it mapped.             *)
RaiseMax(s, v) ==
  maxbrk' = [maxbrk EXCEPT ![s] = IF s = "LO" THEN Max({@, v}) ELSE Min({@, v})]

Room(s, v) == \/ Gap = 0
              \/ s = "LO" /\ v + Gap <= maxbrk["HI"]
              \/ s = "HI" /\ maxbrk["LO"] + Gap <= v

kmap_ensure_range(u, v) == mapped' = mapped \cup PagesIn(u, v)

SbrkOK(s, v) ==
  /\ InRange(s, v) /\ Room(s, v)
  /\ kmap_ensure_range(Min({brk[s], v}), Max({brk[s], v}))
  /\ brk' = [brk EXCEPT ![s] = v]

SbrkFails(s, v) ==
  LET lo == Min({brk[s], v})  hi == Max({brk[s], v})
  IN  /\ UNCHANGED <<brk, maxbrk>>
      /\ \/ ~(InRange(s, v) /\ Room(s, v)) /\ UNCHANGED mapped
         \/ /\ InRange(s, v)
            /\ \E u \in lo .. hi : kmap_ensure_range(lo, u)
            /\ ~(PagesIn(lo, hi) \subseteq mapped')

Grown(s, n) == IF s = "LO" THEN brk[s] + n ELSE brk[s] - n
OldBrkBlock(s, n) == [side |-> s, addr |-> brk[s], size |-> n]

GrownBlock(s, n) ==
  [side |-> s, addr |-> IF s = "LO" THEN brk[s] ELSE brk[s] - n, size |-> n]

(* kmem_brkgrow, also the second half of kmem_alloc.                       *)
kmem_brkgrow(c) ==
  LET s == req[c].side  n == req[c].size
  IN  /\ At(c, "grow")
      /\ \/ /\ SbrkOK(s, Grown(s, n)) /\ RaiseMax(s, Grown(s, n))
            /\ own' = own \cup {GrownBlock(s, n)}
         \/ SbrkFails(s, Grown(s, n)) /\ UNCHANGED own
      /\ Idle(c)
      /\ UNCHANGED <<kmem_trim, zoneVars, pze, fault>>

(* kmem_brkshrink of a block at the brk.  -size is unsigned, so that on    *)
(* the low side the increment is 2^32 - size.                              *)
ShrinkTarget(b) ==
  IF b.side = "LO" THEN brk["LO"] + (UINT - b.size) ELSE brk["HI"] + b.size

kmem_brkshrink(c, b) ==
  LET v == ShrinkTarget(b)
  IN  /\ At(c, "idle") /\ b \in own
      /\ brk[b.side] = IF b.side = "LO" THEN End(b) ELSE b.addr
      /\ \/ SbrkOK(b.side, v) /\ RaiseMax(b.side, v) /\ own' = own \ {b}
         \/ SbrkFails(b.side, v) /\ UNCHANGED own
      /\ UNCHANGED <<kmem_trim, zoneVars, pc, req, pze, fault>>

(* kmem_brk, by a caller that takes the memory between the old brk and v.  *)
kmem_brk(c, s, v) ==
  /\ At(c, "idle")
  /\ IF s = "LO" THEN v > brk[s] ELSE v < brk[s]
  /\ \/ /\ SbrkOK(s, v) /\ UNCHANGED maxbrk
        /\ own' = own \cup {GrownBlock(s, IF s = "LO" THEN v - brk[s] ELSE brk[s] - v)}
     \/ SbrkFails(s, v) /\ UNCHANGED own
  /\ UNCHANGED <<kmem_trim, zoneVars, pc, req, pze, fault>>

-----------------------------------------------------------------------------
TailKept(f, es) ==
  [u \in Unit |-> IF \E e \in es : u = e.addr THEN 0 ELSE f[u]]

(* zone_remove: the magics of the entry are erased.                        *)
Erased(f, es) ==
  [u \in Unit |-> IF \E e \in es : u \in {e.addr, End(e) - 1} THEN 0 ELSE f[u]]

(* kmem_alloc: the zone first; what is left of the entry found is created  *)
(* anew.                                                                   *)
kmem_alloc(c, s, n) ==
  LET e == _zone_findfree(kmemz[s], n)
      b == [side |-> s, addr |-> e.addr, size |-> n]
  IN  /\ At(c, "idle") /\ lockz[s] = {}
      /\ \/ /\ e = NULL
            /\ req' = [req EXCEPT ![c] = [side |-> s, addr |-> 0, size |-> n, give |-> NULL]]
            /\ Goto(c, "grow")
            /\ UNCHANGED <<zoneVars, own>>
         \/ /\ e # NULL
            /\ kmemz' = [kmemz EXCEPT ![s] = _zone_detachentry(@, e)]
            /\ head' = Erased(head, {e}) /\ tail' = Erased(tail, {e})
            /\ \/ /\ e.size = n
                  /\ own' = own \cup {b}
                  /\ UNCHANGED <<lockz, pc, req>>
               \/ /\ e.size > n
                  /\ lockz' = [lockz EXCEPT ![s] = {c}]
                  /\ req' = [req EXCEPT ![c] = [side |-> s, addr |-> e.addr + n,
                                               size |-> e.size - n, give |-> b]]
                  /\ Goto(c, "bounds")
                  /\ UNCHANGED own
      /\ UNCHANGED <<brkVars, mapped, pze, fault>>

(* kmem_free: a block that ends at the brk lowers the brk, and in trim     *)
(* mode unmaps its pages; any other goes to the zone.                      *)
kmem_free(c, b) ==
  LET s == b.side
      base == IF s = "LO" THEN b.addr ELSE End(b)
      limit == IF s = "LO" THEN End(b) ELSE b.addr
      Whole(a) == IF s = "LO" THEN round_page(a) ELSE trunc_page(a)
  IN  /\ At(c, "idle") /\ b \in own
      /\ own' = own \ {b}
      /\ \/ /\ brk[s] = limit
            /\ brk' = [brk EXCEPT ![s] = base]
            /\ \/ kmem_trim >= TRIM_BRK /\ Unmap(Whole(base), Whole(limit))
               \/ kmem_trim < TRIM_BRK /\ UNCHANGED <<mapped, head, tail>>
            /\ UNCHANGED <<pc, req>>
         \/ /\ brk[s] # limit
            /\ req' = [req EXCEPT ![c] = [side |-> s, addr |-> b.addr, size |-> b.size, give |-> NULL]]
            /\ Goto(c, "zone")
            /\ UNCHANGED <<brk, mapped, head, tail>>
      /\ UNCHANGED <<maxbrk, kmem_trim, kmemz, lockz, pze, fault>>

zone_free(c) ==
  /\ At(c, "zone") /\ lockz[req[c].side] = {}
  /\ lockz' = [lockz EXCEPT ![req[c].side] = {c}]
  /\ Goto(c, "bounds")
  /\ UNCHANGED <<brkVars, kmemz, head, tail, mapped, req, pze, own, fault>>

-----------------------------------------------------------------------------
(* ___get_neighbors.  Both zones were initialised with opq 0, so the       *)
(* bounds are those of the high side whatever the side.                    *)
HasPrev(c) == req[c].addr - 1 >= brk["HI"]
HasNext(c) == req[c].addr + req[c].size < Limit

get_bounds(c) ==
  /\ At(c, "bounds")
  /\ Goto(c, IF HasPrev(c) THEN "prev" ELSE "next")
  /\ UNCHANGED <<brkVars, zoneVars, mapped, req, pze, own, fault>>

(* The tail before the range.  kmap_mapped only asks for the page table,   *)
(* which exists here: the memory of the range was mapped through it.       *)
PrevAt(u) == IF tail[u] = 0 THEN NULL
             ELSE [addr |-> u + 1 - tail[u], size |-> tail[u]]

get_prev(c) ==
  LET u == req[c].addr - 1
  IN  /\ At(c, "prev")
      /\ fault' = (PageOf(u) \notin mapped)
      /\ pze' = [pze EXCEPT ![c] = PrevAt(u)]
      /\ Goto(c, "next")
      /\ UNCHANGED <<brkVars, zoneVars, mapped, req, own>>

(* ___mkptr: the magics of a new entry, at its two ends.                   *)
Written(f, u, size) == [f EXCEPT ![u] = size]

(* The head after it, and the rest of zone_create: the entries found are   *)
(* removed and the joined one gets its magics.                             *)
zone_attach(c) ==
  LET r == req[c]
      u == r.addr + r.size
      n == IF ~HasNext(c) \/ head[u] = 0 THEN NULL ELSE [addr |-> u, size |-> head[u]]
      e == Joined(r.addr, r.size, pze[c], n)
      es == {pze[c], n} \ {NULL}
  IN  /\ At(c, "next")
      /\ fault' = (HasNext(c) /\ PageOf(u) \notin mapped)
      /\ kmemz' = [kmemz EXCEPT ![r.side] = zone_create(@, r.addr, r.size, pze[c], n)]
      /\ head' = Written(Erased(head, es), e.addr, e.size)
      /\ tail' = Written(Erased(tail, es), End(e) - 1, e.size)
      /\ lockz' = [lockz EXCEPT ![r.side] = {}]
      /\ own' = own \cup ({r.give} \ {NULL})
      /\ pze' = [pze EXCEPT ![c] = NULL]
      /\ Idle(c)
      /\ UNCHANGED <<brkVars, mapped>>

-----------------------------------------------------------------------------
(* Trimming.                                                               *)
kmem_trim_setmode(c, m) ==
  /\ At(c, "idle") /\ m # kmem_trim
  /\ kmem_trim' = m
  /\ UNCHANGED <<brk, maxbrk, zoneVars, mapped, pc, req, pze, own, fault>>

kmem_trim_one(c, m) ==
  LET gone(s) == IF s = "LO" THEN {round_page(brk[s]), round_page(maxbrk[s])}
                 ELSE {trunc_page(brk[s]), trunc_page(maxbrk[s])}
      ps == UNION {PagesIn(Min(gone(s)), Max(gone(s))) : s \in Side}
  IN  /\ At(c, "idle") /\ m >= TRIM_BRK
      /\ mapped' = mapped \ ps
      /\ head' = Forget(head, ps) /\ tail' = Forget(tail, ps)
      /\ maxbrk' = brk
      /\ UNCHANGED <<brk, kmem_trim, kmemz, lockz, pc, req, pze, own, fault>>

halted == fault /\ UNCHANGED vars

Next ==
  \/ halted
  \/ \E c \in CPU :
       \/ \E s \in Side : \/ \E n \in Sizes : kmem_alloc(c, s, n)
                          \/ \E v \in BrkTargets : kmem_brk(c, s, v)
       \/ \E b \in own : kmem_free(c, b) \/ kmem_brkshrink(c, b)
       \/ kmem_brkgrow(c) \/ zone_free(c)
       \/ get_bounds(c) \/ get_prev(c) \/ zone_attach(c)
       \/ \E m \in Modes : kmem_trim_setmode(c, m)
       \/ \E m \in Trims : kmem_trim_one(c, m)

Spec == Init /\ [][Next]_vars

-----------------------------------------------------------------------------
Ranges == own \cup UNION {Entries(kmemz[s]) : s \in Side}
            \cup {req[c] : c \in {d \in CPU : pc[d] \in {"zone", "bounds", "prev", "next"}}}
            \cup {req[c].give : c \in CPU}

(* A byte of the heap has one owner: no block handed out, no zone entry    *)
(* and no range on its way into a zone overlaps another, and all of them   *)
(* lie outside the brks.                                                   *)
OneOwner ==
  \A r \in Ranges : r.size > 0 =>
    /\ (r.addr >= Base /\ End(r) <= brk["LO"]) \/ (r.addr >= brk["HI"] /\ End(r) <= Limit)
    /\ \A q \in Ranges : q # r /\ q.size > 0 => End(q) <= r.addr \/ End(r) <= q.addr

(* The magics ___get_neighbors trusts are where the zone entries are and   *)
(* nowhere else, with the sizes of the entries.                            *)
MagicIsEntry ==
  LET es == UNION {Entries(kmemz[s]) : s \in Side}
  IN  /\ \A u \in Unit : head[u] # 0 => [addr |-> u, size |-> head[u]] \in es
      /\ \A u \in Unit : tail[u] # 0 => [addr |-> u + 1 - tail[u], size |-> tail[u]] \in es
      /\ \A e \in es : head[e.addr] = e.size /\ tail[End(e) - 1] = e.size

(* On the high side freed neighbours become one entry.                     *)
HighCoalesced ==
  \A e, f \in Entries(kmemz["HI"]) : End(e) # f.addr

(* kmem.c:374 trims "unneeded pages", kmem.c:407 the ones "between the     *)
(* BRKs": memory outside the brks stays mapped.                            *)
UsedMapped == PagesIn(Base, brk["LO"]) \cup PagesIn(brk["HI"], Limit) \subseteq mapped

=============================================================================
