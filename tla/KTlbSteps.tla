----------------------------- MODULE KTlbSteps ------------------------------
(***************************************************************************)
(* Gen is preserved by the steps outside the two flush functions: the      *)
(* hardware, kmap.c, the broadcast and the PFN cache.                      *)
(***************************************************************************)
EXTENDS KTlbType

\* The provers each step is given to, in this order.
USE SMTT(30), Z3T(30), Zenon

-----------------------------------------------------------------------------
(* Short of a wrap the comparison and the compare-exchange see true counts. *)
LEMMA ModSmall == \A a \in Nat : a < GenMod => a % GenMod = a
  BY KTlbConstants

(* Short of a wrap, tlbgen_newer's signed difference is plain 'greater     *)
(* than'.                                                                  *)
LEMMA NewerUnwrapped ==
  ASSUME NEW a \in Nat, NEW b \in Nat, a < GenMod, b < GenMod
  PROVE  (a > b => tlbgen_newer(a, b)) /\ (~tlbgen_newer(a, b) => a <= b)
<1>1. a % GenMod = a /\ b % GenMod = b
  BY ModSmall
<1> QED BY <1>1 DEF tlbgen_newer

(* Short of a wrap, the compare-exchange compares the true counts.         *)
LEMMA CasUnwrapped ==
  ASSUME NEW a \in Nat, NEW b \in Nat, NEW n, a < GenMod, b < GenMod
  PROVE  Cas(a, b, n) = IF a = b THEN n ELSE a
<1>1. a % GenMod = a /\ b % GenMod = b
  BY ModSmall
<1> QED BY <1>1 DEF Cas

(* The kernel's generations only grow.                                     *)
LEMMA KgenGrows == TypeOK /\ Book /\ [Next]_vars => Leq(kgen, kgen')
<1> SUFFICES ASSUME TypeOK, Book, [Next]_vars PROVE Leq(kgen, kgen')
  OBVIOUS
<1> USE DEF mapVars
<1>0. kgen \in [Kind -> Nat]
  BY GenType DEF Gens
<1>1. CASE kgen' = kgen
  BY <1>0, <1>1 DEF Leq
<1>2. ASSUME NEW v, NEW t, ktlbgen_markdirty(v, t) PROVE Leq(kgen, kgen')
  BY <1>0, <1>2 DEF ktlbgen_markdirty, Leq, Kind
<1>3. ASSUME NEW c \in CPU,
             \/ \E v \in VA : TlbEvict(c, v)
             \/ ktlb_update_call(c) \/ reach_cmp(c) \/ Update(c, "main") \/ Nmi(c)
      PROVE  kgen' = kgen
  BY <1>3, QuietSteps DEF Quiet
<1>4. ASSUME NEW c \in CPU, Commit(c) PROVE kgen' = kgen
  BY <1>4 DEF Commit, Broadcast, BroadcastOr, BroadcastNmi, BroadcastDone
<1>5. ASSUME NEW c \in CPU, Kmap(c) PROVE Leq(kgen, kgen')
  BY <1>1, <1>2, <1>5 DEF Kmap, kmap_set, kmap_mark
<1>6. ASSUME NEW c \in CPU, NEW s \in Slot, NEW p \in Pfn, cache_hit(c, s, p) \/ cache_fill(c, s, p)
      PROVE  kgen' = kgen
  BY <1>6 DEF cache_hit, cache_fill
<1>7. ASSUME NEW c \in CPU, fill_mark(c) PROVE Leq(kgen, kgen')
  BY <1>2, <1>7 DEF fill_mark
<1>8. ASSUME NEW c \in CPU, fill_gen(c) \/ fill_store(c) \/ reach_target(c) \/ pfn_put(c)
      PROVE  kgen' = kgen
  BY <1>8 DEF fill_gen, fill_store, reach_target, pfn_put
<1>9. ASSUME NEW c \in CPU, NEW v \in VA, TlbLoad(c, v) PROVE kgen' = kgen
  BY <1>9 DEF TlbLoad
<1> QED BY <1>1, <1>3, <1>4, <1>5, <1>6, <1>7, <1>8, <1>9 DEF Next, PfnCache, vars

-----------------------------------------------------------------------------
(* Steps outside the two flush functions: the hardware, kmap.c, the        *)
(* broadcast and the PFN cache.  An idle CPU owes nothing, holds nothing.  *)
LEMMA IdleOp ==
  ASSUME TypeOK, Book, NEW c \in CPU, pc[c]["main"] = "idle"
  PROVE  owed[c] = "NONE" /\ frame[c] = None
<1>1. OpShape(c)
  BY DEF Book
<1> QED BY <1>1 DEF OpShape, HoldPC, FillPC, UpdatePC

(* A TLB load caches the current entry at the current generations.         *)
LEMMA GenTlbLoad ==
  ASSUME TypeOK, Book, Gen, NEW c \in CPU, NEW v \in VA, TlbLoad(c, v)
  PROVE  Gen'
<1> USE DEF TlbLoad, mapVars, nmiVars, cacheVars, opVars, sendVars
<1>0. tlb'[c][v] # None /\ tlb'[c][v].map = pte[v] /\ tlb'[c][v].gen = kgen
  <2>1. [map |-> pte[v], gen |-> kgen] \in TlbEntry
    BY GenType, TlbType DEF TlbEntry
  <2>2. tlb'[c][v] = [map |-> pte[v], gen |-> kgen]
    BY TlbType
  <2> QED BY <2>1, <2>2, KTlbConstants
<1>1. \A d \in CPU, w \in VA : <<d, w>> # <<c, v>> => tlb'[d][w] = tlb[d][w]
  BY TlbType
<1>a. kgen \in [Kind -> Nat]
  BY GenType DEF Gens
<1>2. Bounded'
  <2>1. Leq(kgen, kgen)
    BY <1>a DEF Leq
  <2> QED BY <1>0, <1>1, <2>1 DEF Gen, Bounded
<1>3. LocalGens' /\ PfnCovered' /\ ReachProgress'
  BY DEF Gen, LocalGens, LocalOK, PfnCovered, ReachProgress, ReachOK, Reaching
<1>4. TlbCurrent'
  <2>1. LoadedSince(tlb'[c][v], cgen[c])
    BY <1>0 DEF Gen, LoadedSince, Bounded, Leq, Kind
  <2> QED BY <1>1, <2>1 DEF Gen, TlbCurrent
<1>5. FlushDone'
  <2>1. \A x \in Ctx : FlushOK(c, x, tlb'[c][v])
    BY <1>0, LocType, <1>a DEF Gen, FlushOK, Bounded, Local, Kind
  <2>2. ASSUME NEW d \in CPU, NEW x \in Ctx, NEW w \in VA, tlb'[d][w] # None
        PROVE  FlushOK(d, x, tlb'[d][w])
    BY <1>1, <2>1, <2>2 DEF Gen, FlushDone
  <2> QED BY <2>2 DEF FlushDone, FlushOK
<1>6. StaleOld'
  <2>1. ~Stale(c, v)'
    BY <1>0 DEF Stale
  <2>2. ASSUME NEW d \in CPU, NEW w \in VA, Stale(d, w)'
        PROVE  MarkDue(tlb[d][w], w) \/ Older(tlb[d][w], chg[w])
    BY <1>1, <2>1, <2>2 DEF Gen, StaleOld, Stale
  <2>3. ASSUME NEW d \in CPU, NEW w \in VA, Stale(d, w)' PROVE tlb'[d][w] = tlb[d][w]
    BY <1>1, <2>1, <2>3
  <2> QED BY <2>2, <2>3 DEF StaleOld, MarkDue, Older
<1> QED BY <1>2, <1>3, <1>4, <1>5, <1>6 DEF Gen

(* kmap_set and cache_fill replace an entry and owe the flush for it.      *)
SetOwed(c, v, new) ==
  /\ pc[c]["main"] = "idle"
  /\ pte' = [pte EXCEPT ![v] = new]
  /\ va' = [va EXCEPT ![c] = v]
  /\ owed' = [owed EXCEPT ![c] = hal_l1e_tlbop(pte[v], new)]
  /\ UNCHANGED <<tlb, chg>>

(* Storing an entry leaves each stale TLB copy explained by the flush the  *)
(* storing CPU owes.                                                       *)
LEMMA GenSet ==
  ASSUME TypeOK, Book, Gen, NEW c \in CPU, NEW v \in VA, NEW new \in Mapping \cup {None},
         SetOwed(c, v, new)
  PROVE  StaleOld'
<1> USE DEF SetOwed
<1>1. owed[c] = "NONE"
  BY IdleOp
<1>a. va'[c] = v /\ owed'[c] = hal_l1e_tlbop(pte[v], new) /\ pte'[v] = new
      /\ (\A e \in CPU \ {c} : va'[e] = va[e] /\ owed'[e] = owed[e])
      /\ (\A w \in VA \ {v} : pte'[w] = pte[w])
  BY OpType, TlbType
<1>b. UNCHANGED <<tlb, chg>>
  OBVIOUS
<1> HIDE DEF SetOwed
<1> SUFFICES ASSUME NEW d \in CPU, NEW w \in VA, Stale(d, w)'
             PROVE  MarkDue(tlb[d][w], w)' \/ Older(tlb[d][w], chg[w])
  BY <1>b DEF StaleOld, MarkDue, Older
<1>2. CASE Stale(d, w)
  <2>1. MarkDue(tlb[d][w], w) \/ Older(tlb[d][w], chg[w])
    BY <1>2 DEF Gen, StaleOld
  <2>2. MarkDue(tlb[d][w], w) => MarkDue(tlb[d][w], w)'
    BY <1>1, <1>a, <1>b DEF MarkDue
  <2> QED BY <2>1, <2>2
<1>3. CASE ~Stale(d, w)
  <2>1. w = v /\ tlb[d][w] # None /\ tlb[d][w].map = pte[v]
    BY <1>3, <1>a, <1>b DEF Stale
  <2>2. pte[v] # None /\ pte[v] \in Mapping
    <3>1. tlb[d][w] \in TlbEntry
      BY <2>1, TlbType
    <3> QED BY <2>1, <3>1, KTlbConstants, TlbType DEF TlbEntry
  <2>3. va'[c] = w /\ owed'[c] # "NONE" /\ (tlb[d][w].map.glob => owed'[c] = "FLUSHALL")
    BY <1>a, <2>1, <2>2 DEF hal_l1e_tlbop
  <2> QED BY <1>b, <2>3 DEF MarkDue
<1> QED BY <1>2, <1>3

(* A step of c that ends where cpu_ktlb_update has loaded nothing, and     *)
(* touches no slot that another CPU holds.  pfn_get arrives at its reach,  *)
(* or at its return, with its slot covered.                                *)
Outside == MainPC \ AfterCg

Arrives(c) ==
  /\ pc'[c]["main"] \in {"u_cg", "r_cmp"} /\ frame'[c] # None =>
       chg'[va'[c]]["normal"] <= target'[c]
  /\ pc'[c]["main"] = "g_use" => chg'[va'[c]]["normal"] <= cgen'[c]["normal"]

Steady(c) ==
  /\ pc'[c]["main"] \in Outside /\ pc[c]["nmi"] = "off" /\ pc'[c]["nmi"] = "off"
  /\ \A d \in CPU \ {c} :
       /\ pc'[d] = pc[d] /\ frame'[d] = frame[d] /\ va'[d] = va[d] /\ target'[d] = target[d]
       /\ frame[d] # None => chg'[va[d]] = chg[va[d]]
  /\ UNCHANGED <<cgen, loc, tlb>>

(* A step outside the flush code keeps every fact about the flush code's   *)
(* locals.                                                                 *)
LEMMA GenSteady ==
  ASSUME TypeOK, Book, Gen, NEW c \in CPU, Steady(c), Arrives(c)
  PROVE  LocalGens' /\ TlbCurrent' /\ FlushDone' /\ ReachProgress'
<1>0. /\ pc'[c]["main"] \in Outside /\ pc'[c]["nmi"] = "off" /\ pc[c]["nmi"] = "off"
      /\ \A d \in CPU \ {c} :
           /\ pc'[d] = pc[d] /\ frame'[d] = frame[d] /\ va'[d] = va[d] /\ target'[d] = target[d]
           /\ frame[d] # None => chg'[va[d]] = chg[va[d]]
      /\ cgen' = cgen /\ loc' = loc /\ tlb' = tlb
  BY DEF Steady
<1> USE <1>0 DEF Ctx
<1>1. LocalGens'
  <2>1. \A d \in CPU, x \in Ctx : <<d, x>> # <<c, "main">> => LocalOK(d, x)'
    BY DEF Gen, LocalGens, LocalOK
  <2>2. pc'[c]["main"] \notin AfterCg \cup AfterCn \cup AfterKg \cup AfterKn \cup {"t_cn"}
    BY DEF Outside, MainPC, UpdatePC, AfterCg, AfterCn, AfterKg, AfterKn
  <2>3. LocalOK(c, "main")'
    BY <2>2 DEF LocalOK
  <2> QED BY <2>1, <2>3 DEF LocalGens
<1>2. TlbCurrent'
  BY DEF Gen, TlbCurrent
<1>3. FlushDone'
  <2>1. pc'[c]["main"] \notin AfterFlush
    BY DEF AfterFlush, Outside, AfterCg, MainPC, UpdatePC
  <2> SUFFICES ASSUME NEW d \in CPU, NEW x \in Ctx, NEW v \in VA, tlb'[d][v] # None
               PROVE  FlushOK(d, x, tlb[d][v])'
    BY Zenon DEF FlushDone
  <2>2. CASE d = c /\ x = "main"
    BY <2>1, <2>2 DEF FlushOK, AfterFlush
  <2>3. CASE <<d, x>> # <<c, "main">>
    <3>1. FlushOK(d, x, tlb[d][v])
      BY DEF Gen, FlushDone
    <3> QED BY <2>3, <3>1 DEF FlushOK
  <2> QED BY <2>2, <2>3
<1>4. ReachOK(c)'
  <2>1. pc'[c]["main"] \notin AfterCn \cup AfterKn
    BY DEF Outside, MainPC, UpdatePC, AfterCg, AfterCn, AfterKn
  <2>3. Reaching(c)' => pc'[c]["main"] \in {"u_cg", "r_cmp"} /\ frame'[c] # None
    BY DEF Outside, AfterCg, Reaching
  <2>2. pc'[c]["nmi"] \notin AfterKn \cup {"t_cn"}
    BY DEF AfterKn
  <2> QED BY <2>1, <2>2, <2>3 DEF ReachOK, Arrives
<1>5. ASSUME NEW d \in CPU \ {c} PROVE ReachOK(d)'
  <2>1. ReachOK(d) /\ OpShape(d)
    BY Zenon DEF Gen, ReachProgress, Book
  <2>2. pc[d]["main"] = "g_use" => frame[d] # None
    BY <2>1 DEF OpShape, HoldPC, UpdatePC
  <2> QED BY Zenon, <2>1, <2>2 DEF ReachOK, Reaching
<1> QED BY <1>1, <1>2, <1>3, <1>4, <1>5 DEF ReachProgress

(* Dropping TLB entries and taking other operations further leave every    *)
(* stale entry explained.                                                  *)
LEMMA StaleKept ==
  ASSUME StaleOld, pte' = pte, chg' = chg, owed' = owed,
         \A d \in CPU : owed[d] # "NONE" => va'[d] = va[d],
         \A d \in CPU, v \in VA : tlb'[d][v] \in {tlb[d][v], None}
  PROVE  StaleOld'
<1> SUFFICES ASSUME NEW d \in CPU, NEW v \in VA, Stale(d, v)'
             PROVE  MarkDue(tlb[d][v], v)' \/ Older(tlb[d][v], chg[v])
  BY DEF StaleOld, MarkDue, Older, Stale
<1>1. Stale(d, v)
  BY DEF Stale
<1>2. MarkDue(tlb[d][v], v) \/ Older(tlb[d][v], chg[v])
  BY <1>1 DEF StaleOld
<1>3. MarkDue(tlb[d][v], v) => MarkDue(tlb[d][v], v)'
  BY DEF MarkDue, Stale
<1> QED BY <1>2, <1>3

(* So is every refill, when no slot is marked and no refill ends.          *)
LEMMA PfnKept ==
  ASSUME PfnCovered, \A s \in Slot : chg'[s] = chg[s], pfncgen' = pfncgen,
         \A d \in CPU : pc[d]["main"] = "f_store" => va[d] \in Slot,
         \A d \in CPU : pc[d]["main"] \in {"f_gen", "f_store"} \/ pc'[d]["main"] = "f_store" =>
           pc'[d]["main"] = pc[d]["main"] /\ va'[d] = va[d] /\ target'[d] = target[d]
  PROVE  PfnCovered'
<1>1. \A s \in Slot : \/ chg'[s]["normal"] <= pfncgen'
                     \/ \E c \in CPU : pc'[c]["main"] \in {"f_gen", "f_store"} /\ va'[c] = s
  BY DEF PfnCovered
<1>2. \A c \in CPU : pc'[c]["main"] = "f_store" =>
         chg'[va'[c]]["normal"] <= target'[c] /\ pfncgen' <= target'[c]
  BY DEF PfnCovered
<1> QED BY <1>1, <1>2 DEF PfnCovered

(* The CPU about to store the cache generation is refilling a cache slot.  *)
LEMMA StoreSlot ==
  ASSUME Book PROVE \A d \in CPU : pc[d]["main"] = "f_store" => va[d] \in Slot
<1>1. \A d \in CPU : OpShape(d)
  BY DEF Book
<1> QED BY <1>1 DEF OpShape, HoldPC, FillPC, UpdatePC

(* hal_l1e_set in kmap_map and kmap_unmap keeps the generation invariant.  *)
LEMMA GenKmapSet ==
  ASSUME TypeOK, Book, Gen, NEW c \in CPU, NEW v \in KVA, NEW new \in Mapping \cup {None},
         kmap_set(c, v, new)
  PROVE  Gen'
<1> USE DEF Ctx, Gens, Kind, kmap_set, At, Goto, mapVars, nmiVars, cacheVars, sendVars
<1>1. StaleOld'
  <2>1. v \in VA
    BY DEF VA
  <2>2. SetOwed(c, v, new)
    BY DEF SetOwed
  <2> QED BY <2>1, <2>2, GenSet
<1>2. Bounded'
  BY DEF Gen, Bounded
<1>3. Steady(c) /\ Arrives(c)
  BY DEF Steady, Arrives, Outside, AfterCg, MainPC, UpdatePC
<1>4. PfnCovered'
  BY StoreSlot, PfnKept DEF Gen
<1> QED BY <1>1, <1>2, <1>3, <1>4, GenSteady DEF Gen

(* ktlbgen_markdirty for the page an operation has just changed: whatever  *)
(* was loaded before is older than the new mark.                           *)
Marks(c) ==
  /\ pc[c]["main"] \in {"k_mark", "f_mark"} /\ ktlbgen_markdirty(va[c], owed[c])
  /\ owed' = [owed EXCEPT ![c] = "NONE"]
  /\ \A d \in CPU \ {c} : va'[d] = va[d]
  /\ UNCHANGED <<pte, cgen, tlb, loc, target, pfncgen>>

(* The page ktlbgen_markdirty is called for has no frame handed out on it  *)
(* by another CPU.                                                         *)
LEMMA MarkPage ==
  ASSUME TypeOK, Book, NEW c \in CPU, pc[c]["main"] \in {"k_mark", "f_mark"}
  PROVE  va[c] \in VA /\ \A d \in CPU \ {c} : frame[d] # None => va[d] # va[c]
<1>1. OpShape(c) /\ \A d \in CPU : OpShape(d)
  BY DEF Book
<1>2. CASE pc[c]["main"] = "k_mark"
  BY <1>1, <1>2, KTlbConstants DEF OpShape, VA
<1>3. CASE pc[c]["main"] = "f_mark"
  <2>1. va[c] \in VA
    BY <1>1, <1>3 DEF OpShape, VA, HoldPC, FillPC, UpdatePC
  <2>2. \A d \in CPU \ {c} : frame[d] # None => va[d] # va[c]
    BY <1>3 DEF Book, LockHeld, Holds, FillPC
  <2> QED BY <2>1, <2>2
<1> QED BY <1>2, <1>3

(* ktlbgen_markdirty moves the generation of the kind owed past every      *)
(* earlier value and records it for the page.                              *)
LEMMA MarkGens ==
  ASSUME TypeOK, Gen, NEW c \in CPU, va[c] \in VA, Marks(c)
  PROVE  /\ Leq(kgen, kgen')
         /\ \A v \in VA \ {va[c]} : chg'[v] = chg[v]
         /\ \A v \in VA : Leq(chg[v], chg'[v]) /\ Leq(chg'[v], kgen')
         /\ owed[c] = "FLUSH" => chg'[va[c]]["normal"] > kgen["normal"]
         /\ owed[c] = "FLUSHALL" => chg'[va[c]]["global"] > kgen["global"]
<1>a. chg \in [VA -> [Kind -> Nat]] /\ kgen \in [Kind -> Nat] /\ owed[c] \in TlbOps
  BY GenType, OpType DEF Gens
<1>b. ktlbgen_markdirty(va[c], owed[c]) /\ \A v \in VA : Leq(chg[v], kgen)
  BY DEF Marks, Gen, Bounded
<1> USE <1>a, <1>b DEF Kind, Leq
<1>1. CASE owed[c] = "NONE"
  BY <1>1 DEF ktlbgen_markdirty
<1>2. CASE owed[c] = "FLUSH"
  <2>1. kgen' = [kgen EXCEPT !["normal"] = kgen["normal"] + 1]
    BY <1>2 DEF ktlbgen_markdirty
  <2>2. chg' = [chg EXCEPT ![va[c]]["normal"] = kgen["normal"] + 1]
    BY <1>2 DEF ktlbgen_markdirty
  <2>3. chg'[va[c]]["normal"] = kgen["normal"] + 1 /\ chg'[va[c]]["global"] = chg[va[c]]["global"]
    BY <2>2
  <2>4. \A v \in VA \ {va[c]} : chg'[v] = chg[v]
    BY <2>2
  <2>5. kgen'["normal"] = kgen["normal"] + 1 /\ kgen'["global"] = kgen["global"]
    BY <2>1
  <2>6. ASSUME NEW v \in VA PROVE Leq(chg[v], chg'[v]) /\ Leq(chg'[v], kgen')
    <3>1. CASE v = va[c]
      BY <2>3, <2>5, <3>1
    <3>2. CASE v # va[c]
      BY <2>4, <2>5, <3>2
    <3> QED BY <3>1, <3>2
  <2> QED BY <1>2, <2>3, <2>4, <2>5, <2>6
<1>3. CASE owed[c] = "FLUSHALL"
  <2>1. kgen' = [kgen EXCEPT !["global"] = kgen["global"] + 1]
    BY <1>3 DEF ktlbgen_markdirty
  <2>2. chg' = [chg EXCEPT ![va[c]]["global"] = kgen["global"] + 1]
    BY <1>3 DEF ktlbgen_markdirty
  <2>3. chg'[va[c]]["global"] = kgen["global"] + 1 /\ chg'[va[c]]["normal"] = chg[va[c]]["normal"]
    BY <2>2
  <2>4. \A v \in VA \ {va[c]} : chg'[v] = chg[v]
    BY <2>2
  <2>5. kgen'["global"] = kgen["global"] + 1 /\ kgen'["normal"] = kgen["normal"]
    BY <2>1
  <2>6. ASSUME NEW v \in VA PROVE Leq(chg[v], chg'[v]) /\ Leq(chg'[v], kgen')
    <3>1. CASE v = va[c]
      BY <2>3, <2>5, <3>1
    <3>2. CASE v # va[c]
      BY <2>4, <2>5, <3>2
    <3> QED BY <3>1, <3>2
  <2> QED BY <1>3, <2>3, <2>4, <2>5, <2>6
<1> QED BY <1>1, <1>2, <1>3 DEF TlbOps

(* After ktlbgen_markdirty every stale TLB copy of the page is older than  *)
(* its mark.                                                               *)
LEMMA GenMark ==
  ASSUME TypeOK, TypeOK', Book, Gen, NEW c \in CPU, Marks(c)
  PROVE  Bounded' /\ StaleOld'
<1>0. va[c] \in VA
  BY MarkPage DEF Marks
<1>a. /\ Leq(kgen, kgen')
      /\ \A v \in VA : Leq(chg[v], chg'[v]) /\ Leq(chg'[v], kgen')
      /\ owed[c] = "FLUSH" => chg'[va[c]]["normal"] > kgen["normal"]
      /\ owed[c] = "FLUSHALL" => chg'[va[c]]["global"] > kgen["global"]
  BY <1>0, MarkGens
<1>1. Bounded'
  <2>1. kgen \in Gens /\ kgen' \in Gens /\ cgen \in [CPU -> Gens] /\ target \in [CPU -> Nat]
        /\ loc \in [CPU -> [Ctx -> [Local -> Nat]]] /\ pfncgen \in Nat
    BY DEF TypeOK
  <2>2. \A d \in CPU : Leq(cgen[d], kgen') /\ target[d] <= kgen'["normal"]
    BY <1>a, <2>1 DEF Gen, Bounded, Leq, Gens, Kind
  <2>3. \A d \in CPU, x \in Ctx : /\ loc[d][x]["knormal"] <= kgen'["normal"]
                                  /\ loc[d][x]["kglobal"] <= kgen'["global"]
    BY <1>a, <2>1 DEF Gen, Bounded, Leq, Gens, Kind, Local
  <2>4. \A d \in CPU, v \in VA : tlb[d][v] # None => Leq(tlb[d][v].gen, kgen')
    BY <1>a, <2>1, TlbType DEF TlbEntry, Gen, Bounded, Leq, Gens, Kind
  <2>5. pfncgen <= kgen'["normal"]
    BY <1>a, <2>1 DEF Gen, Bounded, Leq, Gens, Kind
  <2> QED BY <1>a, <2>2, <2>3, <2>4, <2>5 DEF Bounded, Marks
<1>2. StaleOld'
  <2> SUFFICES ASSUME NEW d \in CPU, NEW w \in VA, Stale(d, w)
               PROVE  MarkDue(tlb[d][w], w)' \/ Older(tlb[d][w], chg[w])'
    BY Zenon DEF StaleOld, Stale, Marks
  <2>1. tlb[d][w] \in TlbEntry /\ Leq(tlb[d][w].gen, kgen)
    BY TlbType DEF Stale, Gen, Bounded
  <2>a. /\ chg[w] \in [Kind -> Nat] /\ chg'[w] \in [Kind -> Nat] /\ kgen \in [Kind -> Nat]
        /\ tlb[d][w].gen \in [Kind -> Nat] /\ tlb' = tlb
    BY <2>1 DEF TypeOK, Gens, Marks, TlbEntry
  <2>b. Older(tlb[d][w], chg'[w]) => Older(tlb[d][w], chg[w])'
    BY <2>a DEF Older
  <2>2. CASE Older(tlb[d][w], chg[w])
    <3>1. \A k \in Kind : chg[w][k] <= chg'[w][k]
      BY <1>a DEF Leq
    <3>2. \A k \in Kind : tlb[d][w].gen[k] < chg[w][k] => tlb[d][w].gen[k] < chg'[w][k]
      BY <2>a, <3>1
    <3>3. Older(tlb[d][w], chg'[w])
      BY Zenon, <2>2, <3>2 DEF Older, Kind
    <3> QED BY <2>b, <3>3
  <2>3. ASSUME NEW e \in CPU \ {c}, va[e] = w, owed[e] # "NONE",
               tlb[d][w].map.glob => owed[e] = "FLUSHALL"
        PROVE  MarkDue(tlb[d][w], w)'
    BY Zenon, <2>3, OpType DEF MarkDue, Marks
  <2>4. CASE va[c] = w /\ owed[c] = "FLUSH" /\ ~tlb[d][w].map.glob
    <3>1. tlb[d][w].gen["normal"] < chg'[w]["normal"]
      BY <1>a, <2>1, <2>a, <2>4 DEF Leq, Kind
    <3> QED BY <2>b, <2>4, <3>1 DEF Older
  <2>5. CASE va[c] = w /\ owed[c] = "FLUSHALL"
    <3>1. tlb[d][w].gen["global"] < chg'[w]["global"]
      BY <1>a, <2>1, <2>a, <2>5 DEF Leq, Kind
    <3> QED BY <2>b, <3>1 DEF Older
  <2>6. MarkDue(tlb[d][w], w) \/ Older(tlb[d][w], chg[w])
    BY DEF Gen, StaleOld
  <2> QED BY Zenon, <2>2, <2>3, <2>4, <2>5, <2>6, OpType DEF MarkDue, TlbOps
<1> QED BY <1>1, <1>2

(* The mark of kmap_map and kmap_unmap keeps the generation invariant.     *)
LEMMA GenKmapMark ==
  ASSUME TypeOK, TypeOK', Book, Gen, NEW c \in CPU, kmap_mark(c)
  PROVE  Gen'
<1> USE DEF Ctx, kmap_mark, At, Goto, mapVars, nmiVars, cacheVars, sendVars
<1>1. Marks(c)
  BY Zenon, OpType DEF Marks
<1>2. va[c] \in VA /\ \A d \in CPU \ {c} : frame[d] # None => va[d] # va[c]
  BY MarkPage
<1>3. \A v \in VA \ {va[c]} : chg'[v] = chg[v]
  BY <1>1, <1>2, MarkGens
<1>4. va[c] \in KVA /\ \A d \in CPU : OpShape(d)
  BY DEF Book, OpShape
<1>5. Steady(c) /\ Arrives(c)
  <2>1. \A d \in CPU \ {c} : frame[d] # None => chg'[va[d]] = chg[va[d]]
    BY <1>2, <1>3, <1>4 DEF OpShape, VA
  <2> QED BY <2>1 DEF Steady, Arrives, Outside, AfterCg, MainPC, UpdatePC
<1>6. PfnCovered'
  <2>1. \A s \in Slot : chg'[s] = chg[s]
    BY <1>3, <1>4, KTlbConstants DEF VA
  <2> QED BY <2>1, StoreSlot, PfnKept DEF Gen
<1> QED BY <1>1, <1>5, <1>6, GenMark, GenSteady DEF Gen

(* The mark of the cache refill (kmap_map on a slot) keeps the generation  *)
(* invariant.                                                              *)
LEMMA GenFillMark ==
  ASSUME TypeOK, TypeOK', Book, Gen, NEW c \in CPU, fill_mark(c)
  PROVE  Gen'
<1> USE DEF Ctx, fill_mark, At, Goto, mapVars, nmiVars, cacheVars, sendVars
<1>1. Marks(c)
  BY Zenon DEF Marks
<1>2. va[c] \in VA /\ \A d \in CPU \ {c} : frame[d] # None => va[d] # va[c]
  BY MarkPage
<1>3. \A v \in VA \ {va[c]} : chg'[v] = chg[v]
  BY <1>1, <1>2, MarkGens
<1>4. \A d \in CPU : OpShape(d)
  BY DEF Book
<1>5. Steady(c) /\ Arrives(c)
  <2>1. \A d \in CPU \ {c} : frame[d] # None => chg'[va[d]] = chg[va[d]]
    BY <1>2, <1>3, <1>4 DEF OpShape, VA
  <2> QED BY <2>1 DEF Steady, Arrives, Outside, AfterCg, MainPC, UpdatePC
<1>6. PfnCovered'
  <2>1. \A d \in CPU : pc'[d]["main"] # "f_store"
    BY DEF Book, LockHeld, FillPC
  <2>2. \A s \in Slot \ {va[c]} : chg'[s] = chg[s]
    BY <1>3 DEF VA
  <2>3. pc'[c]["main"] = "f_gen"
    BY PcType
  <2>4. \A d \in CPU : pc[d]["main"] \notin {"f_gen", "f_store"}
    BY Zenon DEF Book, LockHeld, FillPC
  <2> QED BY <2>1, <2>2, <2>3, <2>4 DEF Gen, PfnCovered
<1> QED BY <1>1, <1>5, <1>6, GenMark, GenSteady DEF Gen

(* The broadcast of cpu_kmapupdate_broadcast keeps the generation          *)
(* invariant.                                                              *)
LEMMA GenCommit ==
  ASSUME TypeOK, Book, Gen, NEW c \in CPU, Commit(c)
  PROVE  Gen'
<1> USE DEF Ctx, Broadcast, BroadcastOr, BroadcastNmi, BroadcastDone, At, Goto, mapVars, nmiVars, cacheVars, opVars, sendVars
<1>0. /\ UNCHANGED <<mapVars, cgen, tlb, loc, opVars, cacheVars>>
      /\ At(c, "main", pc[c]["main"])
      /\ \E q \in {"idle", "b_or", "b_nmi", "b_done"} : pc' = [pc EXCEPT ![c]["main"] = q]
      /\ pc[c]["main"] \in {"idle", "b_or", "b_nmi", "b_done"}
  BY DEF Commit
<1> HIDE DEF Broadcast, BroadcastOr, BroadcastNmi, BroadcastDone
<1>1. Steady(c) /\ Arrives(c)
  BY <1>0 DEF Steady, Arrives, Outside, AfterCg, MainPC, UpdatePC
<1>2. Bounded'
  BY <1>0 DEF Gen, Bounded
<1>3. StaleOld'
  BY <1>0, StaleKept DEF Gen
<1>4. PfnCovered'
  BY <1>0, StoreSlot, PfnKept DEF Gen
<1> QED BY <1>1, <1>2, <1>3, <1>4, GenSteady DEF Gen

(* Entering cpu_ktlb_update keeps the generation invariant.                *)
LEMMA GenUpdateCall ==
  ASSUME TypeOK, Book, Gen, NEW c \in CPU, ktlb_update_call(c)
  PROVE  Gen'
<1> USE DEF Ctx, ktlb_update_call, At, Goto, mapVars, nmiVars, cacheVars, opVars, sendVars
<1>0. frame[c] = None
  BY IdleOp
<1>1. Steady(c) /\ Arrives(c)
  BY <1>0 DEF Steady, Arrives, Outside, AfterCg, MainPC, UpdatePC
<1>2. Bounded'
  BY DEF Gen, Bounded
<1>3. StaleOld'
  BY StaleKept DEF Gen
<1>4. PfnCovered'
  BY StoreSlot, PfnKept DEF Gen
<1> QED BY <1>1, <1>2, <1>3, <1>4, GenSteady DEF Gen

(* A cache hit keeps the generation invariant.                             *)
LEMMA GenCacheHit ==
  ASSUME TypeOK, Book, Gen, NEW c \in CPU, NEW s \in Slot, NEW p \in Pfn, cache_hit(c, s, p)
  PROVE  Gen'
<1> USE DEF Ctx, cache_hit, At, Goto, mapVars, nmiVars, cacheVars, opVars, sendVars
<1>0. owed[c] = "NONE"
  BY IdleOp
<1>1. Steady(c) /\ Arrives(c)
  BY DEF Steady, Arrives, Outside, AfterCg, MainPC, UpdatePC
<1>2. Bounded'
  BY DEF Gen, Bounded
<1>3. StaleOld'
  <2>1. \A d \in CPU : owed[d] # "NONE" => va'[d] = va[d]
    BY Zenon, <1>0, OpType
  <2> QED BY <2>1, StaleKept DEF Gen
<1>4. PfnCovered'
  BY Zenon, StoreSlot, PfnKept, PcType, OpType DEF Gen
<1> QED BY <1>1, <1>2, <1>3, <1>4, GenSteady DEF Gen

(* Taking a slot for refill keeps the generation invariant.                *)
LEMMA GenCacheFill ==
  ASSUME TypeOK, Book, Gen, NEW c \in CPU, NEW s \in Slot, NEW p \in Pfn, cache_fill(c, s, p)
  PROVE  Gen'
<1> USE DEF Ctx, cache_fill, At, Goto, mapVars, nmiVars, cacheVars, opVars, sendVars
<1>1. Steady(c) /\ Arrives(c)
  BY DEF Steady, Arrives, Outside, AfterCg, MainPC, UpdatePC
<1>2. Bounded'
  BY DEF Gen, Bounded
<1>3. StaleOld'
  <2>1. s \in VA /\ [pfn |-> p, glob |-> FALSE] \in Mapping
    BY DEF VA, Mapping
  <2>2. SetOwed(c, s, [pfn |-> p, glob |-> FALSE])
    BY DEF SetOwed
  <2> QED BY <2>1, <2>2, GenSet
<1>4. PfnCovered'
  BY Zenon, StoreSlot, PfnKept, PcType, OpType DEF Gen
<1> QED BY <1>1, <1>2, <1>3, <1>4, GenSteady DEF Gen

(* Reading the kernel generation after a refill's mark keeps the           *)
(* generation invariant.                                                   *)
LEMMA GenFillGen ==
  ASSUME TypeOK, Book, Gen, NEW c \in CPU, fill_gen(c)
  PROVE  Gen'
<1> USE DEF Ctx, fill_gen, At, Goto, mapVars, nmiVars, cacheVars, opVars, sendVars
<1>1. Steady(c) /\ Arrives(c)
  BY DEF Steady, Arrives, Outside, AfterCg, MainPC, UpdatePC
<1>2. Bounded'
  <2>1. \A d \in CPU : target'[d] <= kgen["normal"]
    BY GenType DEF Gens, Kind, Gen, Bounded
  <2> QED BY <2>1 DEF Gen, Bounded
<1>3. StaleOld'
  BY StaleKept DEF Gen
<1>4. PfnCovered'
  <2>1. va[c] \in VA
    <3>1. OpShape(c)
      BY DEF Book
    <3> QED BY <3>1 DEF OpShape, HoldPC, FillPC, UpdatePC, VA
  <2>2. chg'[va'[c]]["normal"] <= target'[c] /\ pfncgen' <= target'[c]
    BY Zenon, <2>1, OpType DEF Gen, Bounded, Leq, Kind
  <2>3. \A d \in CPU : pc'[d]["main"] = "f_store" => d = c
    BY DEF Book, LockHeld, FillPC
  <2>4. \A d \in CPU : pc[d]["main"] \in {"f_gen", "f_store"} => pc'[d]["main"] \in {"f_gen", "f_store"}
    OBVIOUS
  <2> QED BY <2>2, <2>3, <2>4 DEF Gen, PfnCovered
<1> QED BY <1>1, <1>2, <1>3, <1>4, GenSteady DEF Gen

(* Publishing the cache generation of a refill covers that refill's mark.  *)
LEMMA GenFillStore ==
  ASSUME TypeOK, Book, Gen, NEW c \in CPU, fill_store(c)
  PROVE  Gen'
<1> USE DEF Ctx, fill_store, StoreTarget, At, Goto, mapVars, nmiVars, cacheVars, opVars, sendVars
<1>1. Steady(c) /\ Arrives(c)
  BY DEF Steady, Arrives, Outside, AfterCg, MainPC, UpdatePC
<1>2. Bounded'
  BY DEF Gen, Bounded
<1>3. StaleOld'
  BY StaleKept DEF Gen
<1>4. PfnCovered'
  <2>1. va[c] \in Slot /\ Slot \subseteq VA
    BY StoreSlot DEF VA
  <2>2. chg[va[c]]["normal"] <= target[c] /\ pfncgen <= target[c]
    BY DEF Gen, PfnCovered
  <2>3. \A d \in CPU : pc[d]["main"] \in FillPC => d = c
    BY DEF Book, LockHeld, FillPC
  <2>4. \A s \in Slot : chg[s]["normal"] <= pfncgen \/ va[c] = s
    BY <2>3 DEF Gen, PfnCovered, FillPC
  <2>5. ASSUME NEW s \in Slot PROVE chg[s]["normal"] <= target[c]
    <3>1. chg[s]["normal"] \in Nat /\ target[c] \in Nat /\ pfncgen \in Nat
      BY <2>1, GenType DEF Gens, Kind
    <3> QED BY <2>2, <2>4, <3>1
  <2>6. \A d \in CPU : pc'[d]["main"] # "f_store"
    BY <2>3, PcType DEF FillPC
  <2> QED BY <2>5, <2>6 DEF PfnCovered
<1> QED BY <1>1, <1>2, <1>3, <1>4, GenSteady DEF Gen

(* Loading the target of cpu_ktlb_reach keeps the generation invariant.    *)
LEMMA GenReachTarget ==
  ASSUME TypeOK, Book, Gen, NEW c \in CPU, reach_target(c)
  PROVE  Gen'
<1> USE DEF Ctx, reach_target, At, Goto, mapVars, nmiVars, cacheVars, opVars, sendVars
<1>0. frame[c] # None /\ va[c] \in Slot
  <2>1. OpShape(c)
    BY DEF Book
  <2> QED BY <2>1 DEF OpShape, HoldPC, UpdatePC
<1>a. chg[va[c]]["normal"] <= pfncgen
  <2>1. \A d \in CPU : pc[d]["main"] \in {"f_gen", "f_store"} => va[d] # va[c]
    BY <1>0 DEF Book, LockHeld, Holds, FillPC
  <2> QED BY <1>0, <2>1 DEF Gen, PfnCovered
<1>1. Steady(c) /\ Arrives(c)
  BY <1>a, OpType DEF Steady, Arrives, Outside, AfterCg, MainPC, UpdatePC
<1>2. Bounded'
  <2>1. \A d \in CPU : target'[d] <= kgen["normal"]
    BY Zenon, OpType DEF Gens, Kind, Gen, Bounded
  <2> QED BY <2>1 DEF Gen, Bounded
<1>3. StaleOld'
  BY StaleKept DEF Gen
<1>4. PfnCovered'
  BY StoreSlot, PfnKept DEF Gen
<1> QED BY <1>1, <1>2, <1>3, <1>4, GenSteady DEF Gen

(* A cpu_ktlb_reach that finds its CPU new enough really has no stale copy *)
(* left.                                                                   *)
LEMMA GenReachCmp ==
  ASSUME TypeOK, Book, Gen, Unwrapped, NEW c \in CPU, reach_cmp(c)
  PROVE  Gen'
<1> USE DEF Ctx, reach_cmp, At, Goto, mapVars, nmiVars, cacheVars, opVars, sendVars
<1>0. frame[c] # None /\ va[c] \in Slot
  <2>1. OpShape(c)
    BY DEF Book
  <2> QED BY <2>1 DEF OpShape, HoldPC, UpdatePC
<1>a. chg[va[c]]["normal"] <= target[c]
  <2>1. ReachOK(c)
    BY DEF Gen, ReachProgress
  <2> QED BY <1>0, <2>1 DEF ReachOK, Reaching
<1>b. ~tlbgen_newer(target[c], cgen[c]["normal"]) => chg[va[c]]["normal"] <= cgen[c]["normal"]
  <2>1. /\ target[c] \in Nat /\ cgen[c]["normal"] \in Nat /\ chg[va[c]]["normal"] \in Nat
        /\ kgen["normal"] \in Nat
    BY <1>0, GenType DEF Gens, Kind, VA
  <2>2. target[c] < GenMod /\ cgen[c]["normal"] < GenMod
    BY <2>1, KTlbConstants DEF Gen, Bounded, Leq, Kind, Unwrapped
  <2> QED BY <1>a, <2>1, <2>2, NewerUnwrapped
<1>1. Steady(c) /\ Arrives(c)
  BY <1>a, <1>b DEF Steady, Arrives, Outside, AfterCg, MainPC, UpdatePC
<1>2. Bounded'
  BY DEF Gen, Bounded
<1>3. StaleOld'
  BY StaleKept DEF Gen
<1>4. PfnCovered'
  BY StoreSlot, PfnKept DEF Gen
<1> QED BY <1>1, <1>2, <1>3, <1>4, GenSteady DEF Gen

(* pfn_put keeps the generation invariant.                                 *)
LEMMA GenPfnPut ==
  ASSUME TypeOK, Book, Gen, NEW c \in CPU, pfn_put(c)
  PROVE  Gen'
<1> USE DEF Ctx, pfn_put, At, Goto, mapVars, nmiVars, cacheVars, opVars, sendVars
<1>0. owed[c] = "NONE"
  <2>1. OpShape(c)
    BY DEF Book
  <2> QED BY <2>1 DEF OpShape
<1>1. Steady(c) /\ Arrives(c)
  BY PcType DEF Steady, Arrives, Outside, AfterCg, MainPC, UpdatePC
<1>2. Bounded'
  <2>1. \A d \in CPU : target'[d] <= kgen["normal"]
    BY GenType DEF Gens, Kind, Gen, Bounded
  <2> QED BY <2>1 DEF Gen, Bounded
<1>3. StaleOld'
  <2>1. \A d \in CPU : owed[d] # "NONE" => va'[d] = va[d]
    BY <1>0
  <2> QED BY <2>1, StaleKept DEF Gen
<1>4. PfnCovered'
  BY StoreSlot, PfnKept DEF Gen
<1> QED BY <1>1, <1>2, <1>3, <1>4, GenSteady DEF Gen

=============================================================================
