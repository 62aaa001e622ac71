----------------------------- MODULE KTlbType -------------------------------
(***************************************************************************)
(* The invariant holds initially, its type part is preserved by every      *)
(* step, and the steps of the two flush functions are quiet.               *)
(***************************************************************************)
EXTENDS KTlbInv, FiniteSetTheorems, TLAPS

\* The provers each step is given to, in this order.
USE SMTT(30), Z3T(30), Zenon

-----------------------------------------------------------------------------
(* The boot state satisfies the inductive invariant: one unwrapped         *)
(* generation of each kind, empty TLBs, no operation in progress on any    *)
(* CPU.                                                                    *)
LEMMA InitInv == Init => Inv
<1> SUFFICES ASSUME Init PROVE Inv
  OBVIOUS
<1> USE KTlbConstants
<1>1. TypeOK
  BY DEF Init, TypeOK, ZeroGens, Gens, ZeroLocals, TlbOps, NmiOps, Ctx, MainPC, NmiPC, UpdatePC
<1>2. Book
  <2>1. \A s \in Slot : Holders(s) = {}
    BY DEF Init, Holders, Holds
  <2>2. RefCount
    BY Zenon, <2>1, FS_EmptySet DEF RefCount, Init
  <2>3. \A c \in CPU : OpShape(c)
    BY DEF Init, OpShape, Ctx, FillPC, HoldPC, UpdatePC
  <2>4. SlotsLocal /\ LockHeld /\ HeldMapped
    BY DEF Init, SlotsLocal, LockHeld, HeldMapped, Holds, Ctx, FillPC, VA, ZeroGens, Kind
  <2> QED BY <2>2, <2>3, <2>4 DEF Book
<1>3. Gen
  BY DEF Init, Gen, Bounded, LocalGens, LocalOK, TlbCurrent, FlushDone, StaleOld, Stale, PfnCovered,
         ReachProgress, ReachOK, Reaching, Leq, ZeroGens, Kind, ZeroLocals, Local, VA, Ctx, UpdatePC,
         AfterCg, AfterCn, AfterKg, AfterKn, AfterFlush
<1> QED BY <1>1, <1>2, <1>3 DEF Inv

(* hal_l1e_tlbop answers NONE, FLUSH or FLUSHALL for any pair of entries.  *)
LEMMA TlbopType == \A old, new : hal_l1e_tlbop(old, new) \in TlbOps
  BY DEF hal_l1e_tlbop, TlbOps

(* ktlbgen_markdirty keeps the kernel and the per-page generations counts. *)
LEMMA MarkType ==
  ASSUME kgen \in Gens, chg \in [VA -> Gens], NEW v \in VA, NEW tlbop, ktlbgen_markdirty(v, tlbop)
  PROVE  kgen' \in Gens /\ chg' \in [VA -> Gens]
  BY DEF ktlbgen_markdirty, Gens, Kind

(* A TLB flush (hal_cpu_tlbop) leaves entries or nothing in every TLB.     *)
LEMMA FlushType ==
  ASSUME tlb \in [CPU -> [VA -> TlbEntry \cup {None}]], NEW c \in CPU, NEW kind,
         hal_cpu_tlbop(c, kind)
  PROVE  tlb' \in [CPU -> [VA -> TlbEntry \cup {None}]]
<1>1. [v \in VA |-> IF tlb[c][v] # None /\ kind = "FLUSH" /\ tlb[c][v].map.glob
                     THEN tlb[c][v] ELSE None] \in [VA -> TlbEntry \cup {None}]
  OBVIOUS
<1> QED BY <1>1 DEF hal_cpu_tlbop

(* Both program counters of a CPU stay within the code they belong to.     *)
PcOK ==
  /\ pc \in [CPU -> [Ctx -> MainPC \cup NmiPC]]
  /\ \A c \in CPU : pc[c]["main"] \in MainPC /\ pc[c]["nmi"] \in NmiPC

(* Every step of the KMAP, NMI and PFN cache code keeps every variable's   *)
(* type; pfn_put needs the reference count, which is at least one for a    *)
(* slot the CPU holds.                                                     *)
LEMMA TypeStep == TypeOK /\ Book /\ [Next]_vars => TypeOK'
<1> SUFFICES ASSUME TypeOK, Book, [Next]_vars PROVE TypeOK'
  OBVIOUS
<1> USE KTlbConstants, TlbopType
<1> USE DEF TypeOK, Ctx, At, Goto, mapVars, nmiVars, cacheVars, opVars, sendVars
<1>1. CASE UNCHANGED vars
  BY <1>1 DEF vars
<1>2. ASSUME NEW c \in CPU, NEW v \in VA, TlbLoad(c, v) PROVE TypeOK'
  <2>1. [map |-> pte[v], gen |-> kgen] \in TlbEntry
    BY <1>2 DEF TlbEntry, TlbLoad
  <2> QED BY <1>2, <2>1 DEF TlbLoad
<1>3. ASSUME NEW c \in CPU, NEW v \in VA, TlbEvict(c, v) PROVE TypeOK'
  BY <1>3 DEF TlbEvict
<1>4. ASSUME NEW c \in CPU, NEW v \in KVA, NEW new \in Mapping \cup {None},
             kmap_set(c, v, new)
      PROVE  TypeOK'
  <2>1. PcOK'
    BY <1>4 DEF kmap_set, MainPC, PcOK
  <2>2. pte' \in [VA -> Mapping \cup {None}] /\ va' \in [CPU -> VA \cup {None}]
    BY Zenon, <1>4 DEF kmap_set, VA
  <2>3. owed' \in [CPU -> TlbOps]
    BY <1>4 DEF kmap_set
  <2> QED BY <1>4, <2>1, <2>2, <2>3 DEF kmap_set, PcOK
<1>5. ASSUME NEW c \in CPU, kmap_mark(c) PROVE TypeOK'
  <2>1. va[c] \in VA
    BY <1>5 DEF kmap_mark, Book, OpShape, VA
  <2>2. kgen' \in Gens /\ chg' \in [VA -> Gens]
    BY <1>5, <2>1, MarkType DEF kmap_mark
  <2> QED BY <1>5, <2>2 DEF kmap_mark, TlbOps, MainPC
<1>6. ASSUME NEW c \in CPU, Commit(c) PROVE TypeOK'
  <2>1. ASSUME NEW b \in NmiOps, Broadcast(c, b) PROVE TypeOK'
    BY <2>1 DEF Broadcast, MainPC
  <2>2. ASSUME NEW d \in CPU, BroadcastOr(c, d) PROVE TypeOK'
    BY <2>2 DEF BroadcastOr, MainPC
  <2>3. ASSUME BroadcastNmi(c) PROVE TypeOK'
    <3>1. nmipend' \in [CPU -> BOOLEAN]
      BY Zenon, <2>3 DEF BroadcastNmi, cpu_nmi
    <3>2. PcOK'
      BY <2>3 DEF BroadcastNmi, MainPC, PcOK
    <3> QED BY <2>3, <3>1, <3>2 DEF BroadcastNmi, PcOK
  <2>4. ASSUME BroadcastDone(c) PROVE TypeOK'
    BY <2>4 DEF BroadcastDone, NmiOps, ZeroGens, Gens, MainPC
  <2> QED BY <1>6, <2>1, <2>2, <2>3, <2>4 DEF Commit
<1>7. ASSUME NEW c \in CPU, PfnCache(c) PROVE TypeOK'
  <2>1. ASSUME NEW s \in Slot, NEW p \in Pfn, cache_hit(c, s, p) PROVE TypeOK'
    BY <2>1 DEF cache_hit, Reference, MainPC, VA
  <2>2. ASSUME NEW s \in Slot, NEW p \in Pfn, cache_fill(c, s, p) PROVE TypeOK'
    <3>1. [pfn |-> p, glob |-> FALSE] \in Mapping
      BY DEF Mapping
    <3>2. pte' \in [VA -> Mapping \cup {None}]
      BY Zenon, <2>2, <3>1 DEF cache_fill
    <3>3. PcOK'
      BY <2>2 DEF cache_fill, MainPC, PcOK
    <3>4. /\ va' \in [CPU -> VA \cup {None}] /\ frame' \in [CPU -> Pfn \cup {None}]
          /\ owed' \in [CPU -> TlbOps] /\ ref' \in [Slot -> Nat]
      BY <2>2 DEF cache_fill, VA
    <3> QED BY <2>2, <3>2, <3>3, <3>4 DEF cache_fill, PcOK
  <2>3. ASSUME fill_mark(c) PROVE TypeOK'
    <3>1. va[c] \in VA
      BY Zenon, <2>3 DEF fill_mark, Book, OpShape, VA, HoldPC, FillPC, UpdatePC
    <3>2. kgen' \in Gens /\ chg' \in [VA -> Gens]
      BY <2>3, <3>1, MarkType DEF fill_mark
    <3> QED BY <2>3, <3>2 DEF fill_mark, TlbOps, MainPC
  <2>4. ASSUME fill_gen(c) PROVE TypeOK'
    BY <2>4 DEF fill_gen, MainPC, Gens, Kind
  <2>5. ASSUME fill_store(c) PROVE TypeOK'
    BY <2>5 DEF fill_store, StoreTarget, MainPC
  <2>6. ASSUME reach_target(c) PROVE TypeOK'
    BY <2>6 DEF reach_target, MainPC
  <2>7. ASSUME reach_cmp(c) PROVE TypeOK'
    BY <2>7 DEF reach_cmp, MainPC, UpdatePC
  <2>8. ASSUME pfn_put(c) PROVE TypeOK'
    <3>1. va[c] \in Slot /\ c \in Holders(va[c])
      BY Zenon, <2>8 DEF pfn_put, Book, OpShape, HoldPC, UpdatePC, Holders, Holds
    <3>2. IsFiniteSet(Holders(va[c]))
      BY FS_Subset DEF Holders
    <3>3. Cardinality(Holders(va[c])) \in Nat \ {0}
      BY <3>1, <3>2, FS_CardinalityType, FS_EmptySet
    <3>4. ref[va[c]] - 1 \in Nat
      BY <3>1, <3>3 DEF Book, RefCount
    <3> QED BY <2>8, <3>1, <3>4 DEF pfn_put, MainPC
  <2> QED BY Zenon, <1>7, <2>1, <2>2, <2>3, <2>4, <2>5, <2>6, <2>7, <2>8 DEF PfnCache
<1>8. ASSUME NEW c \in CPU, NEW x \in Ctx, Update(c, x) PROVE TypeOK'
  <2> USE DEF MainPC, NmiPC, UpdatePC
  <2>1. CASE update_cg(c, x)
    BY <2>1 DEF update_cg, Local, Gens, Kind
  <2>6. CASE update_cn(c, x)
    BY <2>6 DEF update_cn, Local, Gens, Kind
  <2>7. CASE update_kg(c, x)
    BY <2>7 DEF update_kg, Local, Gens, Kind
  <2>2. CASE update_kn(c, x)
    <3>1. AfterUpdate(c, "main") \in {"g_use", "idle"} /\ AfterUpdate(c, "nmi") \in {"t_kn", "off"}
      BY DEF AfterUpdate
    <3>2. loc' \in [CPU -> [Ctx -> [Local -> Nat]]]
      <4>1. ZeroLocals \in [Local -> Nat]
        BY DEF ZeroLocals
      <4>2. [loc[c][x] EXCEPT !["knormal"] = kgen["normal"]] \in [Local -> Nat]
        BY DEF Local, Gens, Kind
      <4>3. \E l \in [Local -> Nat] : loc' = [loc EXCEPT ![c][x] = l]
        BY Zenon, <2>2, <4>1, <4>2 DEF update_kn
      <4> QED BY <4>3
    <3>3. \E l \in {"u_flushall", "u_flush", AfterUpdate(c, x)} : pc' = [pc EXCEPT ![c][x] = l]
      BY <2>2 DEF update_kn
    <3>4. PcOK'
      BY <3>1, <3>3 DEF PcOK
    <3> QED BY <2>2, <3>2, <3>4 DEF update_kn, PcOK
  <2>3. CASE update_flushall(c, x)
    BY <2>3, FlushType DEF update_flushall
  <2>8. CASE update_flush(c, x)
    BY <2>8, FlushType DEF update_flush
  <2>4. CASE update_casg(c, x)
    BY <2>4 DEF update_casg, Cas, Local, Gens, Kind
  <2>5. CASE update_casn(c, x)
    BY <2>5 DEF update_casn, CasNormal, Cas, AfterUpdate, ZeroLocals, Local, Gens, Kind
  <2> QED BY Zenon, <1>8, <2>1, <2>2, <2>3, <2>4, <2>5, <2>6, <2>7, <2>8 DEF Update
<1>9. ASSUME NEW c \in CPU, ktlb_update_call(c) PROVE TypeOK'
  BY <1>9 DEF ktlb_update_call, MainPC, UpdatePC
<1>10. ASSUME NEW c \in CPU, Nmi(c) PROVE TypeOK'
  <2> USE DEF NmiPC, UpdatePC
  <2>1. CASE NmiDeliver(c)
    BY <2>1 DEF NmiDeliver
  <2>6. CASE cpu_nmiop(c)
    <3>1. PcOK'
      BY <2>6 DEF cpu_nmiop, PcOK
    <3> QED BY Zenon, <2>6, <3>1 DEF cpu_nmiop, PcOK
  <2>2. CASE tlbflush_kn(c)
    BY <2>2 DEF tlbflush_kn, Local, Gens, Kind
  <2>5. CASE tlbflush_cn(c)
    BY <2>5 DEF tlbflush_cn, Local, Gens, Kind
  <2>3. CASE tlbflush_flush(c)
    BY <2>3, FlushType DEF tlbflush_flush
  <2>4. CASE tlbflush_cas(c)
    BY <2>4 DEF tlbflush_cas, CasNormal, Cas, ZeroLocals, Local, Gens, Kind
  <2> QED BY Zenon, <1>8, <1>10, <2>1, <2>2, <2>3, <2>4, <2>5, <2>6 DEF Nmi
<1> QED BY Zenon, <1>1, <1>2, <1>3, <1>4, <1>5, <1>6, <1>7, <1>8, <1>9, <1>10 DEF Next, Kmap

-----------------------------------------------------------------------------
(* The parts of TypeOK that the steps below need: the control points, the  *)
(* generations, the operation in progress, and the page tables with the    *)
(* TLBs.                                                                   *)
LEMMA PcType ==
  TypeOK => /\ pc \in [CPU -> [Ctx -> MainPC \cup NmiPC]]
            /\ \A c \in CPU : pc[c]["main"] \in MainPC /\ pc[c]["nmi"] \in NmiPC
  BY DEF TypeOK

(* kernel, CPU and per-page generations are counts.                        *)
LEMMA GenType ==
  TypeOK => /\ chg \in [VA -> Gens] /\ kgen \in Gens /\ cgen \in [CPU -> Gens]
            /\ target \in [CPU -> Nat] /\ pfncgen \in Nat
  BY DEF TypeOK

(* So are the locals the two flush functions load them into.               *)
LEMMA LocType == TypeOK => loc \in [CPU -> [Ctx -> [Local -> Nat]]]
  BY DEF TypeOK

(* The page, the frame and the flush owed of the operation in progress.    *)
LEMMA OpType ==
  TypeOK => /\ va \in [CPU -> VA \cup {None}] /\ frame \in [CPU -> Pfn \cup {None}]
            /\ owed \in [CPU -> TlbOps] /\ target \in [CPU -> Nat]
  BY DEF TypeOK

(* The kernel page table and what the TLBs hold of it.                     *)
LEMMA TlbType ==
  TypeOK => /\ pte \in [VA -> Mapping \cup {None}]
            /\ tlb \in [CPU -> [VA -> TlbEntry \cup {None}]]
  BY DEF TypeOK

-----------------------------------------------------------------------------
(* The steps of cpu_ktlb_update, cpu_tlbflush_local, the NMI entry and a   *)
(* TLB's own evictions touch no mapping, no reference and no operation.    *)
LEMMA QuietSteps ==
  ASSUME TypeOK, Book, NEW c \in CPU,
         \/ \E v \in VA : TlbEvict(c, v)
         \/ ktlb_update_call(c) \/ reach_cmp(c) \/ Update(c, "main") \/ Nmi(c)
  PROVE  Quiet(c)
<1>a. /\ pc \in [CPU -> [Ctx -> MainPC \cup NmiPC]]
      /\ tlb \in [CPU -> [VA -> TlbEntry \cup {None}]]
  BY PcType, TlbType
<1> USE <1>a DEF Ctx, At, Goto, mapVars, nmiVars, cacheVars, opVars, sendVars, UpdatePC
<1>1. ASSUME NEW v \in VA, TlbEvict(c, v) PROVE Quiet(c)
  BY <1>1 DEF TlbEvict, Quiet
<1>2. CASE ktlb_update_call(c)
  BY <1>2 DEF ktlb_update_call, Quiet
<1>3. CASE reach_cmp(c)
  <2>1. frame[c] # None
    BY Zenon, <1>3 DEF reach_cmp, Book, OpShape, HoldPC
  <2> QED BY <1>3, <2>1 DEF reach_cmp, Quiet
<1>4. ASSUME NEW x \in Ctx, Update(c, x) PROVE Quiet(c)
  <2>1. CASE update_cg(c, x)
    BY <2>1 DEF update_cg, Quiet
  <2>2. CASE update_cn(c, x)
    BY <2>2 DEF update_cn, Quiet
  <2>3. CASE update_kg(c, x)
    BY <2>3 DEF update_kg, Quiet
  <2>4. CASE update_kn(c, x)
    <3>1. \E l \in {"u_flushall", "u_flush", AfterUpdate(c, x)} : pc' = [pc EXCEPT ![c][x] = l]
      BY <2>4 DEF update_kn
    <3> QED BY <2>4, <3>1 DEF update_kn, Quiet, AfterUpdate
  <2>5. CASE update_flushall(c, x)
    BY <2>5 DEF update_flushall, hal_cpu_tlbop, Quiet
  <2>6. CASE update_flush(c, x)
    BY <2>6 DEF update_flush, hal_cpu_tlbop, Quiet
  <2>7. CASE update_casg(c, x)
    BY <2>7 DEF update_casg, Quiet
  <2>8. CASE update_casn(c, x)
    BY <2>8 DEF update_casn, CasNormal, AfterUpdate, Quiet
  <2> QED BY <1>4, <2>1, <2>2, <2>3, <2>4, <2>5, <2>6, <2>7, <2>8 DEF Update
<1>5. CASE NmiDeliver(c)
  BY <1>5 DEF NmiDeliver, Quiet
<1>6. CASE cpu_nmiop(c)
  BY <1>6 DEF cpu_nmiop, Quiet
<1>7. CASE tlbflush_kn(c)
  BY <1>7 DEF tlbflush_kn, Quiet
<1>8. CASE tlbflush_cn(c)
  BY <1>8 DEF tlbflush_cn, Quiet
<1>9. CASE tlbflush_flush(c)
  BY <1>9 DEF tlbflush_flush, hal_cpu_tlbop, Quiet
<1>10. CASE tlbflush_cas(c)
  BY <1>10 DEF tlbflush_cas, CasNormal, Quiet
<1> QED BY <1>1, <1>2, <1>3, <1>4, <1>5, <1>6, <1>7, <1>8, <1>9, <1>10 DEF Nmi

=============================================================================
