---------------------------- MODULE KTlb_proofs -----------------------------
(***************************************************************************)
(* The theorems about KTlb, for any set of CPUs, slots, pages and frames,  *)
(* any distribution of work and any number of generations short of a wrap  *)
(* of the integer.                                                         *)
(***************************************************************************)
EXTENDS KTlbBook, KTlbFlushSteps

\* The provers each step is given to, in this order.
USE SMTT(30), Z3T(30), Zenon

-----------------------------------------------------------------------------
(* Every step of the program preserves the generation invariant as long as *)
(* no counter has wrapped.                                                 *)
LEMMA GenStep == TypeOK /\ TypeOK' /\ Book /\ Gen /\ Unwrapped /\ [Next]_vars => Gen'
<1> SUFFICES ASSUME TypeOK, TypeOK', Book, Gen, Unwrapped, [Next]_vars PROVE Gen'
  OBVIOUS
<1>1. CASE UNCHANGED vars
  <2>1. /\ pte' = pte /\ chg' = chg /\ kgen' = kgen /\ cgen' = cgen /\ tlb' = tlb
        /\ pc' = pc /\ loc' = loc /\ va' = va /\ frame' = frame /\ owed' = owed
        /\ target' = target /\ pfncgen' = pfncgen
    BY <1>1 DEF vars, mapVars, nmiVars, cacheVars, opVars, sendVars
  <2>2. Bounded' /\ LocalGens'
    BY <2>1 DEF Gen, Bounded, LocalGens, LocalOK
  <2>3. TlbCurrent' /\ FlushDone'
    BY <2>1 DEF Gen, TlbCurrent, LoadedSince, FlushDone, FlushOK
  <2>4. StaleOld'
    BY <2>1 DEF Gen, StaleOld, Stale, MarkDue, Older
  <2>5. PfnCovered'
    BY <2>1 DEF Gen, PfnCovered
  <2>6. ReachProgress'
    BY <2>1 DEF Gen, ReachProgress, ReachOK, Reaching
  <2> QED BY <2>2, <2>3, <2>4, <2>5, <2>6 DEF Gen
<1>2. ASSUME NEW c \in CPU, NEW v \in VA, TlbLoad(c, v) PROVE Gen'
  BY <1>2, GenTlbLoad
<1>3. ASSUME NEW c \in CPU, Kmap(c) PROVE Gen'
  BY <1>3, GenKmapSet, GenKmapMark DEF Kmap
<1>4. ASSUME NEW c \in CPU, Commit(c) PROVE Gen'
  BY <1>4, GenCommit
<1>5. ASSUME NEW c \in CPU, PfnCache(c) PROVE Gen'
  BY <1>5, GenCacheHit, GenCacheFill, GenFillMark, GenFillGen, GenFillStore, GenReachTarget,
     GenReachCmp, GenPfnPut DEF PfnCache
<1>6. ASSUME NEW c \in CPU, ktlb_update_call(c) PROVE Gen'
  BY <1>6, GenUpdateCall
<1>7. ASSUME NEW c \in CPU, NEW v \in VA, TlbEvict(c, v) PROVE Gen'
  BY <1>7, QuietSteps, GenTlbEvict
<1>8. ASSUME NEW c \in CPU, Update(c, "main") PROVE Gen'
  BY <1>8, QuietSteps, GenUpdate DEF Ctx
<1>9. ASSUME NEW c \in CPU, Nmi(c) PROVE Gen'
  BY <1>9, QuietSteps, GenNmi
<1> QED BY <1>1, <1>2, <1>3, <1>4, <1>5, <1>6, <1>7, <1>8, <1>9 DEF Next

(* Inv is inductive: a counter that has not wrapped now had not wrapped in *)
(* the step before, because it only grows.                                 *)
LEMMA InvStep == Inv /\ [Next]_vars => Inv'
<1> SUFFICES ASSUME Inv, [Next]_vars PROVE Inv'
  OBVIOUS
<1>1. TypeOK' /\ Book'
  BY TypeStep, BookStep DEF Inv
<1>2. Unwrapped' => Unwrapped
  <2>1. Leq(kgen, kgen')
    BY KgenGrows DEF Inv
  <2>2. kgen \in Gens /\ kgen' \in Gens
    BY <1>1 DEF Inv, TypeOK
  <2> QED BY <2>1, <2>2, KTlbConstants DEF Leq, Gens, Kind, Unwrapped
<1>3. Unwrapped' => Gen'
  BY <1>1, <1>2, GenStep DEF Inv
<1> QED BY <1>1, <1>3 DEF Inv

(* The inductive invariant holds in every reachable state.                 *)
THEOREM InvHolds == Spec => []Inv
  BY InitInv, InvStep, PTL DEF Spec

(* Every variable keeps its type; in particular pfn_put never drops a      *)
(* reference the slot does not have.                                       *)
THEOREM TypeCorrect == Spec => []TypeOK
<1>1. Inv => TypeOK
  BY DEF Inv
<1> QED BY <1>1, InvHolds, PTL

(* Short of a wrap, the generations a CPU stores with compare-exchange are *)
(* never ahead of what its TLB has flushed.                                *)
THEOREM NeverAhead == Spec => []GenNotAhead
<1>1. Inv => GenNotAhead
  BY DEF Inv, Gen, TlbCurrent, GenNotAhead
<1> QED BY <1>1, InvHolds, PTL

(* Short of a wrap, cpu_ktlb_update on a CPU with a stale entry for a      *)
(* marked change always finds a newer kernel generation.                   *)
THEOREM StaleIsDetectable == Spec => []StaleDetectable
<1>1. Inv => StaleDetectable
  <2> SUFFICES ASSUME Inv, Unwrapped, NEW c \in CPU, NEW v \in VA, Stale(c, v), ~Owned(v)
               PROVE  \/ tlbgen_newer(kgen["global"], cgen[c]["global"])
                      \/ ~tlb[c][v].map.glob /\ tlbgen_newer(kgen["normal"], cgen[c]["normal"])
    BY DEF StaleDetectable
  <2>1. TypeOK /\ Book /\ Gen
    BY DEF Inv
  <2>2. tlb[c][v] \in TlbEntry
    BY <2>1 DEF TypeOK, Stale
  <2>3. ~MarkDue(tlb[c][v], v)
    <3>1. \A d \in CPU : OpShape(d)
      BY <2>1 DEF Book
    <3> QED BY <3>1 DEF MarkDue, Owned, OpShape
  <2>4. Older(tlb[c][v], chg[v]) /\ LoadedSince(tlb[c][v], cgen[c])
    BY <2>1, <2>3 DEF Gen, StaleOld, TlbCurrent, Stale
  <2>5. \A k \in Kind : /\ tlb[c][v].gen[k] \in Nat /\ chg[v][k] \in Nat /\ kgen[k] \in Nat
                        /\ cgen[c][k] \in Nat /\ chg[v][k] <= kgen[k]
                        /\ kgen[k] < GenMod /\ cgen[c][k] <= kgen[k]
    BY <2>1, <2>2 DEF TypeOK, TlbEntry, Gens, Gen, Bounded, Leq, Unwrapped, Kind
  <2>6. GenMod \in Nat /\ \A k \in Kind : cgen[c][k] < GenMod
    BY <2>5, KTlbConstants
  <2>7. \A k \in Kind : kgen[k] > cgen[c][k] => tlbgen_newer(kgen[k], cgen[c][k])
    BY <2>5, <2>6, NewerUnwrapped
  <2> QED BY <2>4, <2>5, <2>7 DEF Older, LoadedSince, Kind
<1> QED BY <1>1, InvHolds, PTL

(* Short of a wrap, between pfn_get and pfn_put the slot maps the frame    *)
(* asked for, in the page table and through the TLB of the CPU.            *)
THEOREM PfnGetIsFresh == Spec => []PfnGetFresh
<1>1. Inv => PfnGetFresh
  <2> SUFFICES ASSUME Inv, Unwrapped, NEW c \in CPU, pc[c]["main"] = "g_use"
               PROVE  pte[va[c]] = [pfn |-> frame[c], glob |-> FALSE] /\ ~Stale(c, va[c])
    BY DEF PfnGetFresh, SlotFresh
  <2>1. TypeOK /\ Book /\ Gen
    BY DEF Inv
  <2>2. frame[c] # None /\ va[c] \in Slot /\ va[c] \in VA
    BY <2>1 DEF Book, OpShape, HoldPC, UpdatePC, VA
  <2>3. pte[va[c]] = [pfn |-> frame[c], glob |-> FALSE]
    BY <2>1, <2>2 DEF Book, HeldMapped
  <2>4. ASSUME Stale(c, va[c]) PROVE FALSE
    <3>1. tlb[c][va[c]] \in TlbEntry
      BY <2>1, <2>2, <2>4 DEF TypeOK, Stale
    <3>2. ~MarkDue(tlb[c][va[c]], va[c])
      <4> SUFFICES ASSUME NEW d \in CPU, va[d] = va[c], owed[d] # "NONE" PROVE FALSE
        BY DEF MarkDue
      <4>1. OpShape(d)
        BY <2>1 DEF Book
      <4>2. pc[d]["main"] = "f_mark"
        BY <2>2, <4>1, KTlbConstants DEF OpShape
      <4> QED BY <2>1, <2>2, <4>2 DEF Book, LockHeld, Holds, FillPC
    <3>3. Older(tlb[c][va[c]], chg[va[c]]) /\ LoadedSince(tlb[c][va[c]], cgen[c])
      BY <2>1, <2>2, <2>4, <3>2 DEF Gen, StaleOld, TlbCurrent, Stale
    <3>4. chg[va[c]]["global"] = 0 /\ ~tlb[c][va[c]].map.glob
      BY <2>1, <2>2, <2>4 DEF Book, SlotsLocal, Stale
    <3>5. chg[va[c]]["normal"] <= cgen[c]["normal"]
      BY <2>1 DEF Gen, ReachProgress, ReachOK
    <3>6. \A k \in Kind : /\ tlb[c][va[c]].gen[k] \in Nat /\ chg[va[c]][k] \in Nat
                          /\ cgen[c][k] \in Nat
      BY <2>1, <2>2, <3>1 DEF TypeOK, TlbEntry, Gens
    <3> QED BY <3>3, <3>4, <3>5, <3>6 DEF Older, LoadedSince, Kind
  <2> QED BY <2>3, <2>4
<1> QED BY <1>1, InvHolds, PTL

(* Short of a wrap, no step takes back the generations a CPU recorded: a   *)
(* compare-exchange that an NMI overtook leaves the NMI's value.           *)
THEOREM NeverBack == Spec => CgenMonotone
<1>1. Inv /\ [Next]_vars => [CgenStep]_vars
  <2> SUFFICES ASSUME Inv, Next, Unwrapped', NEW d \in CPU
               PROVE  cgen'[d]["normal"] >= cgen[d]["normal"] /\ cgen'[d]["global"] >= cgen[d]["global"]
    BY DEF CgenStep
  <2>0. TypeOK /\ Book /\ Leq(kgen, kgen') /\ Inv'
    BY KgenGrows, InvStep DEF Inv
  <2>1. Unwrapped
    <3>1. kgen \in Gens /\ kgen' \in Gens
      BY <2>0 DEF Inv, TypeOK
    <3> QED BY <2>0, <3>1, KTlbConstants DEF Leq, Gens, Kind, Unwrapped
  <2>2. Gen
    BY <2>1 DEF Inv
  <2>n. \A e \in CPU, k \in Kind : cgen[e][k] \in Nat
    BY <2>0 DEF TypeOK, Gens
  <2>3. CASE cgen' = cgen
    BY <2>3, <2>n DEF Kind
  <2>4. ASSUME NEW c \in CPU, NEW x \in Ctx, update_casg(c, x)
        PROVE  cgen'[d]["normal"] >= cgen[d]["normal"] /\ cgen'[d]["global"] >= cgen[d]["global"]
    <3>1. /\ pc[c][x] = "u_casg"
          /\ cgen' = [cgen EXCEPT ![c]["global"] =
                        Cas(cgen[c]["global"], loc[c][x]["cglobal"], loc[c][x]["kglobal"])]
      BY <2>4 DEF update_casg, At
    <3>2. Cas(cgen[c]["global"], loc[c][x]["cglobal"], loc[c][x]["kglobal"]) >= cgen[c]["global"]
      BY <2>0, <2>1, <2>2, <3>1, CasgValue
    <3> QED BY <2>0, <2>n, <3>1, <3>2 DEF TypeOK, Gens, Kind
  <2>5. ASSUME NEW c \in CPU, NEW x \in Ctx, CasNormal(c, x), pc[c][x] \in {"u_casn", "t_cas"}
        PROVE  cgen'[d]["normal"] >= cgen[d]["normal"] /\ cgen'[d]["global"] >= cgen[d]["global"]
    <3>1. cgen' = [cgen EXCEPT ![c]["normal"] =
                     Cas(cgen[c]["normal"], loc[c][x]["cnormal"], loc[c][x]["knormal"])]
      BY <2>5 DEF CasNormal
    <3>2. Cas(cgen[c]["normal"], loc[c][x]["cnormal"], loc[c][x]["knormal"]) >= cgen[c]["normal"]
      BY <2>0, <2>1, <2>2, <2>5, CasnValue
    <3> QED BY <2>0, <2>n, <3>1, <3>2 DEF TypeOK, Gens, Kind
  <2>6. ASSUME NEW c \in CPU, NEW x \in Ctx, Update(c, x)
        PROVE  cgen'[d]["normal"] >= cgen[d]["normal"] /\ cgen'[d]["global"] >= cgen[d]["global"]
    <3>1. CASE update_casg(c, x)
      BY <2>4, <3>1
    <3>2. CASE update_casn(c, x)
      BY <2>5, <3>2 DEF update_casn, At
    <3>3. CASE ~update_casg(c, x) /\ ~update_casn(c, x)
      BY <2>3, <2>6, <3>3 DEF Update, update_cg, update_cn, update_kg, update_kn, update_flushall, update_flush
    <3> QED BY <3>1, <3>2, <3>3
  <2>7. ASSUME NEW c \in CPU, Nmi(c)
        PROVE  cgen'[d]["normal"] >= cgen[d]["normal"] /\ cgen'[d]["global"] >= cgen[d]["global"]
    <3>1. CASE tlbflush_cas(c)
      BY <2>5, <3>1 DEF tlbflush_cas, At, Ctx
    <3>2. CASE Update(c, "nmi")
      BY <2>6, <3>2 DEF Ctx
    <3>3. CASE NmiDeliver(c) \/ cpu_nmiop(c) \/ tlbflush_kn(c) \/ tlbflush_cn(c) \/ tlbflush_flush(c)
      BY <2>3, <3>3 DEF NmiDeliver, cpu_nmiop, tlbflush_kn, tlbflush_cn, tlbflush_flush
    <3> QED BY <2>7, <3>1, <3>2, <3>3 DEF Nmi
  <2>8. ASSUME NEW c \in CPU,
               \/ \E v \in VA : TlbLoad(c, v) \/ TlbEvict(c, v)
               \/ Kmap(c) \/ Commit(c) \/ PfnCache(c) \/ ktlb_update_call(c)
        PROVE  cgen' = cgen
    <3>1. CASE Kmap(c) \/ ktlb_update_call(c)
      BY <3>1 DEF Kmap, kmap_set, kmap_mark, ktlb_update_call
    <3>2. CASE Commit(c)
      BY <3>2 DEF Commit, Broadcast, BroadcastOr, BroadcastNmi, BroadcastDone
    <3>3. CASE PfnCache(c)
      BY <3>3 DEF PfnCache, cache_hit, cache_fill, fill_mark, fill_gen, fill_store, reach_target, reach_cmp, pfn_put
    <3>4. CASE \E v \in VA : TlbLoad(c, v) \/ TlbEvict(c, v)
      BY <3>4 DEF TlbLoad, TlbEvict
    <3> QED BY <2>8, <3>1, <3>2, <3>3, <3>4
  <2> QED BY <2>3, <2>6, <2>7, <2>8 DEF Next, Ctx
<1> QED BY <1>1, InvHolds, PTL DEF Spec, CgenMonotone

=============================================================================
