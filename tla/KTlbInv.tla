------------------------------ MODULE KTlbInv -------------------------------
(***************************************************************************)
(* The inductive invariant of KTlb.                                        *)
(*                                                                         *)
(* Book is about who holds what: control states, cache references, the     *)
(* cache lock. Gen relates the generations and is claimed while they have  *)
(* not wrapped; since they only grow, not having wrapped now means never   *)
(* having wrapped before.                                                  *)
(***************************************************************************)
EXTENDS KTlb

(* pfn_get has a slot between cache_get and pfn_put.                       *)
Holds(c, s) == frame[c] # None /\ va[c] = s
Holders(s) == {c \in CPU : Holds(c, s)}
FillPC == {"f_mark", "f_gen", "f_store"}
HoldPC == FillPC \cup {"r_target", "r_cmp", "g_use"}

(* What the locals of the main context look like at each point.            *)
OpShape(c) ==
  LET p == pc[c]["main"]
  IN  /\ p \notin UpdatePC => (frame[c] # None <=> p \in HoldPC)
      /\ frame[c] # None => va[c] \in Slot
      /\ p = "k_mark" => va[c] \in KVA
      /\ p = "b_nmi" => dst[c] \in CPU
      /\ owed[c] # "NONE" => p \in {"k_mark", "f_mark"}
      /\ p = "f_mark" => owed[c] # "FLUSHALL"

(* Slots are mapped without the global bit.                                *)
SlotsLocal ==
  /\ \A s \in Slot : pte[s] # None => ~pte[s].glob
  /\ \A c \in CPU, s \in Slot : tlb[c][s] # None => ~tlb[c][s].map.glob
  /\ \A s \in Slot : chg[s]["global"] = 0

(* The lock is held exactly while filling, and a slot being filled has no  *)
(* other holder.                                                           *)
LockHeld ==
  /\ \A c \in CPU : pc[c]["main"] \in FillPC <=> clock = c
  /\ \A c, d \in CPU : pc[d]["main"] \in FillPC /\ Holds(c, va[d]) => c = d

HeldMapped ==
  \A c \in CPU : frame[c] # None =>
                   pte[va[c]] = [pfn |-> frame[c], glob |-> FALSE]

RefCount == \A s \in Slot : ref[s] = Cardinality(Holders(s))

Book ==
  /\ \A c \in CPU : OpShape(c)
  /\ SlotsLocal /\ LockHeld /\ HeldMapped /\ RefCount

-----------------------------------------------------------------------------
(* Control points after each load and after the flush, in both functions.  *)
AfterCg == UpdatePC \ {"u_cg"}
AfterCn == (AfterCg \ {"u_cn"}) \cup {"t_flush", "t_cas"}
AfterKg == UpdatePC \ {"u_cg", "u_cn", "u_kg"}
AfterKn == {"u_flushall", "u_casg", "u_flush", "u_casn", "t_flush", "t_cas"}
AfterFlush == {"u_casg", "u_casn", "t_cas"}

(* Every count is at most the kernel's.                                    *)
Leq(a, b) == \A k \in Kind : a[k] <= b[k]

Bounded ==
  /\ \A v \in VA : Leq(chg[v], kgen)
  /\ \A c \in CPU : Leq(cgen[c], kgen) /\ target[c] <= kgen["normal"]
  /\ \A c \in CPU, x \in Ctx : /\ loc[c][x]["knormal"] <= kgen["normal"]
                               /\ loc[c][x]["kglobal"] <= kgen["global"]
  /\ \A c \in CPU, v \in VA : tlb[c][v] # None => Leq(tlb[c][v].gen, kgen)
  /\ pfncgen <= kgen["normal"]

(* What the locals say of the CPU's own generations.                       *)
LocalOK(c, x) ==
  LET l == loc[c][x]
      p == pc[c][x]
  IN  /\ p \in AfterCg => l["cglobal"] <= cgen[c]["global"]
      /\ p \in AfterCn => l["cnormal"] <= cgen[c]["normal"]
      /\ p \in AfterKg => l["cglobal"] <= l["kglobal"]
      /\ p \in AfterKn => l["cnormal"] <= l["knormal"]
      /\ p = "t_cn" => cgen[c]["normal"] <= l["knormal"]

LocalGens == \A c \in CPU, x \in Ctx : LocalOK(c, x)

TlbCurrent ==
  \A c \in CPU, v \in VA : tlb[c][v] # None => LoadedSince(tlb[c][v], cgen[c])

(* After a flush no entry is older than the locals about to be stored.     *)
FlushOK(c, x, e) ==
  /\ pc[c][x] \in AfterFlush =>
       e.map.glob \/ e.gen["normal"] >= loc[c][x]["knormal"]
  /\ pc[c][x] = "u_casg" => e.gen["global"] >= loc[c][x]["kglobal"]

FlushDone ==
  \A c \in CPU, x \in Ctx, v \in VA :
    tlb[c][v] # None => FlushOK(c, x, tlb[c][v])

(* A stale entry is older than a marked change, or its mark is still due.  *)
MarkDue(e, v) ==
  \E d \in CPU : /\ va[d] = v /\ owed[d] # "NONE"
                 /\ e.map.glob => owed[d] = "FLUSHALL"

Older(e, g) ==
  e.gen["global"] < g["global"] \/ (~e.map.glob /\ e.gen["normal"] < g["normal"])

StaleOld ==
  \A c \in CPU, v \in VA :
    Stale(c, v) => MarkDue(tlb[c][v], v) \/ Older(tlb[c][v], chg[v])

(* pfnc_tlbgen covers every refill but the one in progress.                *)
PfnCovered ==
  /\ \A s \in Slot : \/ chg[s]["normal"] <= pfncgen
                     \/ \E c \in CPU : /\ pc[c]["main"] \in {"f_gen", "f_store"}
                                       /\ va[c] = s
  /\ \A c \in CPU : pc[c]["main"] = "f_store" =>
       chg[va[c]]["normal"] <= target[c] /\ pfncgen <= target[c]

(* pfn_get on its way to a generation that covers its slot.                *)
Reaching(c) == pc[c]["main"] \in UpdatePC \cup {"r_cmp"} /\ frame[c] # None

ReachOK(c) ==
  LET l == loc[c]["main"]
      p == pc[c]["main"]
  IN  /\ Reaching(c) => chg[va[c]]["normal"] <= target[c]
      /\ Reaching(c) /\ p \in AfterCn =>
           cgen[c]["normal"] = l["cnormal"] \/ target[c] <= cgen[c]["normal"]
      /\ Reaching(c) /\ p \in AfterKn => target[c] <= l["knormal"]
      /\ pc[c]["nmi"] \in AfterKn \cup {"t_cn"} =>
           target[c] <= loc[c]["nmi"]["knormal"]
      /\ p = "g_use" => chg[va[c]]["normal"] <= cgen[c]["normal"]

ReachProgress == \A c \in CPU : ReachOK(c)

Gen ==
  /\ Bounded /\ LocalGens /\ TlbCurrent /\ FlushDone /\ StaleOld
  /\ PfnCovered /\ ReachProgress

Inv == TypeOK /\ Book /\ (Unwrapped => Gen)

-----------------------------------------------------------------------------
(* A step that only loads, compares, flushes, evicts or stores generations *)
(* changes nothing Book speaks of but the point the update has reached.    *)
Quiet(c) ==
  /\ UNCHANGED <<mapVars, opVars, dst, cacheVars>>
  /\ \A d \in CPU, v \in VA : tlb'[d][v] \in {tlb[d][v], None}
  /\ \A d \in CPU : d # c => pc'[d] = pc[d]
  /\ \/ pc'[c]["main"] = pc[c]["main"]
     \/ /\ pc[c]["main"] \in UpdatePC \cup {"idle", "r_cmp"}
        /\ pc'[c]["main"] \in UpdatePC \cup {IF frame[c] # None THEN "g_use" ELSE "idle"}

=============================================================================
