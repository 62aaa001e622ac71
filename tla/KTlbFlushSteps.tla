--------------------------- MODULE KTlbFlushSteps ---------------------------
(***************************************************************************)
(* Gen is preserved by every step of cpu_ktlb_update, cpu_tlbflush_local   *)
(* and the NMI entry, whichever context runs them.                         *)
(***************************************************************************)
EXTENDS KTlbSteps

\* The provers each step is given to, in this order.
USE SMTT(30), Z3T(30), Zenon

-----------------------------------------------------------------------------
(* The steps of cpu_ktlb_update, cpu_tlbflush_local and the NMI entry.     *)
LEMMA GenQuiet ==
  ASSUME TypeOK, Book, Gen, NEW c \in CPU, Quiet(c)
  PROVE  StaleOld' /\ PfnCovered'
<1> USE DEF Quiet, mapVars, opVars, cacheVars
<1>1. StaleOld'
  BY StaleKept DEF Gen
<1>2. PfnCovered'
  <2>1. \A d \in CPU : pc[d]["main"] \in {"f_gen", "f_store"} \/ pc'[d]["main"] = "f_store" =>
          pc'[d]["main"] = pc[d]["main"]
    BY DEF UpdatePC
  <2> QED BY <2>1, StoreSlot, PfnKept DEF Gen
<1> QED BY <1>1, <1>2

(* A step of context x of c that writes at most its own locals.            *)
Loads(c, x) ==
  /\ UNCHANGED <<mapVars, cgen, tlb, opVars, cacheVars>>
  /\ \A d \in CPU, y \in Ctx : <<d, y>> # <<c, x>> =>
       pc'[d][y] = pc[d][y] /\ loc'[d][y] = loc[d][y]
  /\ pc'[c][x] \notin AfterFlush
  /\ loc'[c][x]["knormal"] <= kgen["normal"] /\ loc'[c][x]["kglobal"] <= kgen["global"]

(* A load of a generation by the flush code keeps the generation           *)
(* invariant.                                                              *)
LEMMA GenLoads ==
  ASSUME TypeOK, Book, Gen, NEW c \in CPU, NEW x \in Ctx, Loads(c, x), Quiet(c),
         LocalOK(c, x)', ReachOK(c)'
  PROVE  Gen'
<1> USE DEF Loads, mapVars, opVars, cacheVars
<1>1. Bounded'
  BY DEF Gen, Bounded, Ctx
<1>2. LocalGens'
  <2>1. ASSUME NEW d \in CPU, NEW y \in Ctx, <<d, y>> # <<c, x>> PROVE LocalOK(d, y)'
    <3>1. LocalOK(d, y)
      BY DEF Gen, LocalGens
    <3> QED BY <2>1, <3>1 DEF LocalOK
  <2> QED BY <2>1 DEF LocalGens
<1>3. TlbCurrent'
  BY DEF Gen, TlbCurrent
<1>4. FlushDone'
  <2> SUFFICES ASSUME NEW d \in CPU, NEW y \in Ctx, NEW v \in VA, tlb'[d][v] # None
               PROVE  FlushOK(d, y, tlb[d][v])'
    BY DEF FlushDone
  <2>1. CASE d = c /\ y = x
    BY <2>1 DEF FlushOK, AfterFlush
  <2>2. CASE <<d, y>> # <<c, x>>
    <3>1. FlushOK(d, y, tlb[d][v])
      BY DEF Gen, FlushDone
    <3> QED BY <2>2, <3>1 DEF FlushOK
  <2> QED BY <2>1, <2>2
<1>5. ReachProgress'
  <2>1. ASSUME NEW d \in CPU \ {c} PROVE ReachOK(d)'
    <3>1. ReachOK(d)
      BY DEF Gen, ReachProgress
    <3> QED BY <3>1 DEF ReachOK, Reaching, Ctx
  <2> QED BY <2>1 DEF ReachProgress
<1>6. StaleOld' /\ PfnCovered'
  BY GenQuiet
<1> QED BY <1>1, <1>2, <1>3, <1>4, <1>5, <1>6 DEF Gen

(* A flush by context x of c, and a compare-exchange by it: what the other *)
(* CPUs know stays, what is left is about c.                               *)
Flushes(c, x, kind) ==
  /\ UNCHANGED <<mapVars, cgen, loc, opVars, cacheVars>>
  /\ hal_cpu_tlbop(c, kind)
  /\ pc' = [pc EXCEPT ![c][x] = IF kind = "FLUSHALL" THEN "u_casg"
                               ELSE IF pc[c][x] = "t_flush" THEN "t_cas" ELSE "u_casn"]
  /\ pc[c][x] \in (IF kind = "FLUSHALL" THEN {"u_flushall"} ELSE {"u_flush", "t_flush"})

(* A TLB flush of either kind keeps the generation invariant.              *)
LEMMA GenFlushes ==
  ASSUME TypeOK, Book, Gen, NEW c \in CPU, NEW x \in Ctx, NEW kind \in {"FLUSH", "FLUSHALL"},
         Flushes(c, x, kind), Quiet(c)
  PROVE  Gen'
<1> USE DEF Flushes, mapVars, opVars, cacheVars
<1>0. \A d \in CPU, v \in VA : tlb'[d][v] \in {tlb[d][v], None}
  BY DEF Quiet
<1>1. Bounded'
  BY <1>0 DEF Gen, Bounded
<1>2. \A d \in CPU, y \in Ctx : <<d, y>> # <<c, x>> => pc'[d][y] = pc[d][y]
  OBVIOUS
<1>3. pc'[c][x] = IF kind = "FLUSHALL" THEN "u_casg"
                  ELSE IF pc[c][x] = "t_flush" THEN "t_cas" ELSE "u_casn"
  BY PcType
<1>4. LocalGens'
  <2> SUFFICES ASSUME NEW d \in CPU, NEW y \in Ctx PROVE LocalOK(d, y)'
    BY DEF LocalGens
  <2>1. LocalOK(d, y)
    BY DEF Gen, LocalGens
  <2>2. CASE d = c /\ y = x
    BY <1>3, <2>1, <2>2 DEF LocalOK, UpdatePC, AfterCg, AfterCn, AfterKg, AfterKn
  <2>3. CASE <<d, y>> # <<c, x>>
    BY <1>2, <2>1, <2>3 DEF LocalOK
  <2> QED BY <2>2, <2>3
<1>5. TlbCurrent'
  BY <1>0 DEF Gen, TlbCurrent, LoadedSince
<1>6. FlushDone'
  <2> SUFFICES ASSUME NEW d \in CPU, NEW y \in Ctx, NEW v \in VA, tlb'[d][v] # None
               PROVE  FlushOK(d, y, tlb[d][v])'
    BY DEF FlushDone
  <2>1. tlb'[d][v] = tlb[d][v]
    BY <1>0
  <2>2. CASE d = c /\ y = x
    <3>1. kind = "FLUSH" /\ tlb[d][v].map.glob
      BY <2>2, TlbType DEF hal_cpu_tlbop
    <3> QED BY <1>3, <2>1, <2>2, <3>1 DEF FlushOK
  <2>3. CASE <<d, y>> # <<c, x>>
    <3>1. FlushOK(d, y, tlb[d][v])
      BY <2>1 DEF Gen, FlushDone
    <3> QED BY <1>2, <2>1, <2>3, <3>1 DEF FlushOK
  <2> QED BY <2>2, <2>3
<1>7. ReachProgress'
  <2> SUFFICES ASSUME NEW d \in CPU PROVE ReachOK(d)'
    BY DEF ReachProgress
  <2>1. ReachOK(d)
    BY DEF Gen, ReachProgress
  <2>2. CASE d # c
    BY <1>2, <2>1, <2>2 DEF ReachOK, Reaching, Ctx
  <2>3. CASE d = c /\ x = "nmi"
    BY <1>2, <1>3, <2>1, <2>3 DEF ReachOK, Reaching, Ctx, AfterKn
  <2>4. CASE d = c /\ x = "main"
    <3>1. pc'[c]["nmi"] = pc[c]["nmi"]
      BY <1>2, <2>4 DEF Ctx
    <3>2. pc[c]["main"] \in AfterKn /\ pc[c]["main"] \in AfterCn
      BY <2>4 DEF AfterKn, AfterCn, AfterCg, UpdatePC
    <3>3. pc'[c]["main"] \in {"u_casg", "u_casn", "t_cas"}
      BY <1>3, <2>4
    <3>4. pc[c]["main"] \in MainPC
      BY PcType
    <3>5. pc[c]["main"] \in UpdatePC
      BY <2>4, <3>4 DEF MainPC, UpdatePC
    <3> QED BY <2>1, <2>4, <3>1, <3>2, <3>3, <3>5 DEF ReachOK, Reaching
  <2> QED BY <2>2, <2>3, <2>4 DEF Ctx
<1>8. StaleOld' /\ PfnCovered'
  BY GenQuiet
<1> QED BY <1>1, <1>4, <1>5, <1>6, <1>7, <1>8 DEF Gen

(* The compare-exchange stores what the flush has reached, or loses to an  *)
(* NMI that went at least as far as the value it was loaded from.          *)
LEMMA LocalNat ==
  ASSUME TypeOK, Gen, Unwrapped, NEW c \in CPU, NEW x \in Ctx
  PROVE  /\ \A l \in Local : loc[c][x][l] \in Nat
         /\ \A k \in Kind : cgen[c][k] \in Nat /\ cgen[c][k] < GenMod /\ kgen[k] \in Nat
         /\ loc[c][x]["knormal"] < GenMod /\ loc[c][x]["kglobal"] < GenMod
<1>1. /\ \A l \in Local : loc[c][x][l] \in Nat
      /\ \A k \in Kind : cgen[c][k] \in Nat /\ kgen[k] \in Nat
  BY GenType, LocType DEF Gens
<1>2. \A k \in Kind : cgen[c][k] <= kgen[k] /\ kgen[k] < GenMod
  BY DEF Gen, Bounded, Leq, Unwrapped, Kind
<1>3. loc[c][x]["knormal"] <= kgen["normal"] /\ loc[c][x]["kglobal"] <= kgen["global"]
  BY DEF Gen, Bounded
<1> QED BY <1>1, <1>2, <1>3, KTlbConstants DEF Kind, Local

(* The global compare-exchange leaves the CPU's generation the same or     *)
(* newer.                                                                  *)
LEMMA CasgValue ==
  ASSUME TypeOK, Gen, Unwrapped, NEW c \in CPU, NEW x \in Ctx, pc[c][x] = "u_casg",
         NEW n, n = Cas(cgen[c]["global"], loc[c][x]["cglobal"], loc[c][x]["kglobal"])
  PROVE  n \in Nat /\ n >= cgen[c]["global"] /\ n \in {cgen[c]["global"], loc[c][x]["kglobal"]}
<1>1. LocalOK(c, x)
  BY DEF Gen, LocalGens
<1>2. /\ loc[c][x]["cglobal"] \in Nat /\ loc[c][x]["kglobal"] \in Nat
      /\ cgen[c]["global"] \in Nat /\ cgen[c]["global"] < GenMod /\ GenMod \in Nat
  BY LocalNat, KTlbConstants DEF Local, Kind
<1>3. loc[c][x]["cglobal"] <= cgen[c]["global"] /\ loc[c][x]["cglobal"] <= loc[c][x]["kglobal"]
  BY <1>1 DEF LocalOK, AfterCg, AfterKg, UpdatePC
<1>4. n = IF cgen[c]["global"] = loc[c][x]["cglobal"] THEN loc[c][x]["kglobal"] ELSE cgen[c]["global"]
  BY <1>2, <1>3, CasUnwrapped
<1> QED BY <1>2, <1>3, <1>4

(* The normal compare-exchange leaves the CPU's generation the same or     *)
(* newer.                                                                  *)
LEMMA CasnValue ==
  ASSUME TypeOK, Gen, Unwrapped, NEW c \in CPU, NEW x \in Ctx, pc[c][x] \in {"u_casn", "t_cas"},
         NEW n, n = Cas(cgen[c]["normal"], loc[c][x]["cnormal"], loc[c][x]["knormal"])
  PROVE  /\ n \in Nat /\ n >= cgen[c]["normal"]
         /\ n = IF cgen[c]["normal"] = loc[c][x]["cnormal"]
                THEN loc[c][x]["knormal"] ELSE cgen[c]["normal"]
<1>1. LocalOK(c, x)
  BY DEF Gen, LocalGens
<1>2. /\ loc[c][x]["cnormal"] \in Nat /\ loc[c][x]["knormal"] \in Nat
      /\ cgen[c]["normal"] \in Nat /\ cgen[c]["normal"] < GenMod /\ GenMod \in Nat
  BY LocalNat, KTlbConstants DEF Local, Kind
<1>3. loc[c][x]["cnormal"] <= cgen[c]["normal"] /\ loc[c][x]["cnormal"] <= loc[c][x]["knormal"]
  BY <1>1 DEF LocalOK, AfterCg, AfterCn, AfterKn, UpdatePC
<1>4. n = IF cgen[c]["normal"] = loc[c][x]["cnormal"] THEN loc[c][x]["knormal"] ELSE cgen[c]["normal"]
  BY <1>2, <1>3, CasUnwrapped
<1> QED BY <1>2, <1>3, <1>4

(* The global compare-exchange of cpu_ktlb_update keeps the generation     *)
(* invariant.                                                              *)
LEMMA GenCasg ==
  ASSUME TypeOK, Book, Gen, Unwrapped, NEW c \in CPU, NEW x \in Ctx, update_casg(c, x), Quiet(c)
  PROVE  Gen'
<1> USE DEF update_casg, At, Goto, mapVars, opVars, sendVars, nmiVars, cacheVars
<1> DEFINE n == Cas(cgen[c]["global"], loc[c][x]["cglobal"], loc[c][x]["kglobal"])
<1>0. n \in Nat /\ n >= cgen[c]["global"] /\ n \in {cgen[c]["global"], loc[c][x]["kglobal"]}
  BY CasgValue
<1>1. /\ cgen'[c]["global"] = n /\ cgen'[c]["normal"] = cgen[c]["normal"]
      /\ \A d \in CPU \ {c} : cgen'[d] = cgen[d]
  BY GenType DEF Gens, Kind
<1>2. /\ pc'[c][x] = "u_casn" /\ pc[c][x] = "u_casg"
      /\ \A d \in CPU, y \in Ctx : <<d, y>> # <<c, x>> => pc'[d][y] = pc[d][y]
  BY PcType
<1> HIDE DEF n
<1>3. Bounded'
  <2>1. Leq(cgen'[c], kgen)
    BY <1>0, <1>1 DEF Gen, Bounded, Leq, Kind
  <2> QED BY <1>1, <2>1 DEF Gen, Bounded
<1>4. LocalGens'
  <2> SUFFICES ASSUME NEW d \in CPU, NEW y \in Ctx PROVE LocalOK(d, y)'
    BY DEF LocalGens
  <2>1. LocalOK(d, y)
    BY DEF Gen, LocalGens
  <2>2. CASE d # c
    BY <1>1, <1>2, <2>1, <2>2 DEF LocalOK
  <2>3. loc[c][y]["cglobal"] \in Nat /\ cgen[c]["global"] \in Nat
    BY LocalNat DEF Local, Kind
  <2>4. CASE d = c /\ y # x
    BY <1>0, <1>1, <1>2, <2>1, <2>3, <2>4 DEF LocalOK
  <2>5. CASE d = c /\ y = x
    BY <1>0, <1>1, <1>2, <2>1, <2>3, <2>5 DEF LocalOK, AfterCg, AfterCn, AfterKg, AfterKn, UpdatePC
  <2> QED BY <2>2, <2>4, <2>5
<1>5. TlbCurrent'
  <2> SUFFICES ASSUME NEW d \in CPU, NEW v \in VA, tlb[d][v] # None
               PROVE  LoadedSince(tlb[d][v], cgen'[d])
    BY DEF TlbCurrent
  <2>1. LoadedSince(tlb[d][v], cgen[d]) /\ FlushOK(d, x, tlb[d][v])
    BY DEF Gen, TlbCurrent, FlushDone
  <2>2. CASE d # c
    BY <1>1, <2>1, <2>2
  <2>3. CASE d = c
    BY <1>0, <1>1, <1>2, <2>1, <2>3 DEF LoadedSince, FlushOK
  <2> QED BY <2>2, <2>3
<1>6. FlushDone'
  <2> SUFFICES ASSUME NEW d \in CPU, NEW y \in Ctx, NEW v \in VA, tlb[d][v] # None
               PROVE  FlushOK(d, y, tlb[d][v])'
    BY DEF FlushDone
  <2>1. FlushOK(d, y, tlb[d][v])
    BY DEF Gen, FlushDone
  <2>2. CASE d = c /\ y = x
    BY <1>2, <2>1, <2>2 DEF FlushOK, AfterFlush
  <2>3. CASE <<d, y>> # <<c, x>>
    BY <1>2, <2>1, <2>3 DEF FlushOK
  <2> QED BY <2>2, <2>3
<1>7. ReachProgress'
  <2> SUFFICES ASSUME NEW d \in CPU PROVE ReachOK(d)'
    BY DEF ReachProgress
  <2>1. ReachOK(d)
    BY DEF Gen, ReachProgress
  <2>2. CASE d # c
    BY <1>1, <1>2, <2>1, <2>2 DEF ReachOK, Reaching, Ctx
  <2>3. CASE d = c /\ x = "nmi"
    BY <1>1, <1>2, <2>1, <2>3 DEF ReachOK, Reaching, Ctx, AfterKn
  <2>4. CASE d = c /\ x = "main"
    BY <1>1, <1>2, <2>1, <2>4 DEF ReachOK, Reaching, Ctx, AfterKn, AfterCn, AfterCg, UpdatePC
  <2> QED BY <2>2, <2>3, <2>4 DEF Ctx
<1>8. StaleOld' /\ PfnCovered'
  BY GenQuiet
<1> QED BY <1>3, <1>4, <1>5, <1>6, <1>7, <1>8 DEF Gen

(* The last step of both functions.                                        *)
Stores(c, x, q) ==
  /\ pc[c][x] \in {"u_casn", "t_cas"} /\ (x = "main" => pc[c]["nmi"] = "off")
  /\ q \in {"idle", "g_use", "t_kn", "off"}
  /\ CasNormal(c, x)
  /\ pc' = [pc EXCEPT ![c][x] = q]
  /\ UNCHANGED <<mapVars, tlb, opVars, cacheVars>>

(* The normal compare-exchange that ends a flush keeps the generation      *)
(* invariant.                                                              *)
LEMMA GenStores ==
  ASSUME TypeOK, Book, Gen, Unwrapped, NEW c \in CPU, NEW x \in Ctx, NEW q, Stores(c, x, q),
         Quiet(c), x = "main" => (frame[c] # None <=> q = "g_use") /\ q \in {"idle", "g_use"},
         x = "nmi" => q \in {"t_kn", "off"}
  PROVE  Gen'
<1> USE DEF Stores, CasNormal, mapVars, opVars, cacheVars
<1> DEFINE n == Cas(cgen[c]["normal"], loc[c][x]["cnormal"], loc[c][x]["knormal"])
<1>0. /\ n \in Nat /\ n >= cgen[c]["normal"]
      /\ n = IF cgen[c]["normal"] = loc[c][x]["cnormal"] THEN loc[c][x]["knormal"] ELSE cgen[c]["normal"]
  BY CasnValue
<1>1. /\ cgen'[c]["normal"] = n /\ cgen'[c]["global"] = cgen[c]["global"]
      /\ \A d \in CPU \ {c} : cgen'[d] = cgen[d]
  BY GenType DEF Gens, Kind
<1>2. /\ pc'[c][x] = q
      /\ \A d \in CPU, y \in Ctx : <<d, y>> # <<c, x>> =>
           pc'[d][y] = pc[d][y] /\ loc'[d][y] = loc[d][y]
      /\ loc'[c][x]["knormal"] = 0 /\ loc'[c][x]["kglobal"] = 0
  BY PcType, LocType DEF ZeroLocals, Local
<1>a. \A d \in CPU, y \in Ctx, l \in Local : loc[d][y][l] \in Nat
  BY LocalNat
<1>b. \A d \in CPU, k \in Kind : cgen[d][k] \in Nat /\ kgen[k] \in Nat
  BY LocalNat DEF Ctx
<1> HIDE DEF n
<1>3. Bounded'
  <2>1. Leq(cgen'[c], kgen)
    BY <1>0, <1>1 DEF Gen, Bounded, Leq, Kind
  <2>2. \A d \in CPU, y \in Ctx : /\ loc'[d][y]["knormal"] <= kgen["normal"]
                                  /\ loc'[d][y]["kglobal"] <= kgen["global"]
    BY <1>2, <1>b DEF Gen, Bounded, Kind
  <2> QED BY <1>1, <2>1, <2>2 DEF Gen, Bounded
<1>4. LocalGens'
  <2> SUFFICES ASSUME NEW d \in CPU, NEW y \in Ctx PROVE LocalOK(d, y)'
    BY DEF LocalGens
  <2>1. LocalOK(d, y)
    BY DEF Gen, LocalGens
  <2>2. CASE d # c
    BY <1>1, <1>2, <2>1, <2>2 DEF LocalOK
  <2>3. loc[c][y]["cnormal"] \in Nat /\ cgen[c]["normal"] \in Nat
    BY <1>a, <1>b DEF Local, Kind
  <2>4. CASE d = c /\ y # x
    <3>1. pc[c][y] # "t_cn"
      <4>1. pc[c]["main"] # "t_cn"
        <5>1. pc[c]["main"] \in MainPC
          BY PcType
        <5> QED BY <5>1 DEF MainPC, UpdatePC
      <4>2. y = "nmi" => pc[c]["nmi"] = "off"
        BY <2>4 DEF Ctx
      <4> QED BY <4>1, <4>2 DEF Ctx
    <3> QED BY <1>0, <1>1, <1>2, <2>1, <2>3, <2>4, <3>1 DEF LocalOK
  <2>5. CASE d = c /\ y = x
    BY <1>2, <2>5 DEF LocalOK, AfterCg, AfterCn, AfterKg, AfterKn, UpdatePC
  <2> QED BY <2>2, <2>4, <2>5
<1>5. TlbCurrent'
  <2> SUFFICES ASSUME NEW d \in CPU, NEW v \in VA, tlb[d][v] # None
               PROVE  LoadedSince(tlb[d][v], cgen'[d])
    BY DEF TlbCurrent
  <2>1. LoadedSince(tlb[d][v], cgen[d]) /\ FlushOK(d, x, tlb[d][v])
    BY DEF Gen, TlbCurrent, FlushDone
  <2>2. CASE d # c
    BY <1>1, <2>1, <2>2
  <2>3. CASE d = c
    BY <1>0, <1>1, <2>1, <2>3 DEF LoadedSince, FlushOK, AfterFlush
  <2> QED BY <2>2, <2>3
<1>6. FlushDone'
  <2> SUFFICES ASSUME NEW d \in CPU, NEW y \in Ctx, NEW v \in VA, tlb[d][v] # None
               PROVE  FlushOK(d, y, tlb[d][v])'
    BY DEF FlushDone
  <2>1. FlushOK(d, y, tlb[d][v])
    BY DEF Gen, FlushDone
  <2>2. CASE d = c /\ y = x
    BY <1>2, <2>2 DEF FlushOK, AfterFlush
  <2>3. CASE <<d, y>> # <<c, x>>
    BY <1>2, <2>1, <2>3 DEF FlushOK
  <2> QED BY <2>2, <2>3
<1>7. ReachProgress'
  <2>1. \A d \in CPU : ReachOK(d)
    BY DEF Gen, ReachProgress
  <2>2. ASSUME NEW d \in CPU, d # c PROVE ReachOK(d)'
    BY <1>1, <1>2, <2>1, <2>2 DEF ReachOK, Reaching, Ctx
  <2>3. target[c] \in Nat /\ \A v \in VA : chg[v]["normal"] \in Nat
    BY GenType DEF Gens, Kind
  <2>4. frame[c] # None => va[c] \in VA
    BY DEF Book, OpShape, VA
  <2>5. cgen[c]["normal"] \in Nat /\ loc[c][x]["knormal"] \in Nat
    BY <1>a, <1>b DEF Local, Kind
  <2>6. CASE x = "nmi"
    <3>1. target[c] <= loc[c]["nmi"]["knormal"]
      BY <2>1, <2>6 DEF ReachOK, AfterKn
    <3>2. n = cgen[c]["normal"] \/ target[c] <= n
      BY <1>0, <2>6, <3>1
    <3>3. pc'[c]["nmi"] \notin AfterKn \cup {"t_cn"}
      BY <1>2, <2>6 DEF AfterKn
    <3>4. pc'[c]["main"] = pc[c]["main"] /\ loc'[c]["main"] = loc[c]["main"]
      BY <1>2, <2>6 DEF Ctx
    <3>5. pc[c]["main"] = "g_use" => frame[c] # None
      BY DEF Book, OpShape, HoldPC, UpdatePC
    <3>6. ReachOK(c)
      BY <2>1
    <3>7. pc[c]["main"] = "g_use" => chg[va[c]]["normal"] <= n
      BY <1>0, <2>3, <2>4, <2>5, <3>5, <3>6 DEF ReachOK
    <3>8. Reaching(c)' <=> Reaching(c)
      BY <3>4 DEF Reaching
    <3> QED BY <1>1, <2>2, <2>3, <3>2, <3>3, <3>4, <3>6, <3>7, <3>8 DEF ReachOK, ReachProgress
  <2>7. CASE x = "main"
    <3>1. pc'[c]["nmi"] = "off" /\ pc'[c]["main"] \in {"idle", "g_use"}
      BY <1>2, <2>7 DEF Ctx
    <3>2. pc[c]["main"] \in MainPC
      BY PcType
    <3>3. pc[c]["main"] = "u_casn"
      BY <2>7, <3>2 DEF MainPC, UpdatePC
    <3>4. frame[c] # None => chg[va[c]]["normal"] <= n
      <4> SUFFICES ASSUME frame[c] # None PROVE chg[va[c]]["normal"] <= n
        OBVIOUS
      <4>1. ReachOK(c) /\ Reaching(c)
        BY <2>1, <3>3 DEF Reaching, UpdatePC
      <4>2. /\ chg[va[c]]["normal"] <= target[c]
            /\ cgen[c]["normal"] = loc[c]["main"]["cnormal"] \/ target[c] <= cgen[c]["normal"]
            /\ target[c] <= loc[c]["main"]["knormal"]
        BY <3>3, <4>1 DEF ReachOK, AfterCn, AfterCg, AfterKn, UpdatePC
      <4> QED BY <1>0, <2>3, <2>4, <2>5, <2>7, <4>2
    <3>5. ReachOK(c)'
      BY <1>1, <1>2, <2>7, <3>1, <3>4 DEF ReachOK, Reaching, UpdatePC, AfterKn, AfterCn, AfterCg
    <3> QED BY <2>2, <3>5 DEF ReachProgress
  <2> QED BY <2>6, <2>7 DEF Ctx
<1>8. StaleOld' /\ PfnCovered'
  BY GenQuiet
<1> QED BY <1>3, <1>4, <1>5, <1>6, <1>7, <1>8 DEF Gen

(* Every step of cpu_ktlb_update keeps the generation invariant, in a call *)
(* and in an NMI.                                                          *)
LEMMA GenUpdate ==
  ASSUME TypeOK, TypeOK', Book, Gen, Unwrapped, NEW c \in CPU, NEW x \in Ctx, Update(c, x), Quiet(c)
  PROVE  Gen'
<1> USE DEF At, Goto, mapVars, opVars, sendVars, nmiVars, cacheVars
<1>l. LocalOK(c, x) /\ ReachOK(c)
  BY DEF Gen, LocalGens, ReachProgress
<1>n. /\ \A l \in Local : loc[c][x][l] \in Nat
      /\ \A k \in Kind : cgen[c][k] \in Nat /\ cgen[c][k] < GenMod /\ kgen[k] \in Nat
      /\ loc[c][x]["knormal"] < GenMod /\ loc[c][x]["kglobal"] < GenMod
  BY LocalNat
<1>b. /\ cgen[c]["normal"] <= kgen["normal"] /\ cgen[c]["global"] <= kgen["global"]
      /\ target[c] <= kgen["normal"]
      /\ loc[c][x]["knormal"] <= kgen["normal"] /\ loc[c][x]["kglobal"] <= kgen["global"]
  BY DEF Gen, Bounded, Leq, Kind
<1>1. CASE update_cg(c, x)
  <2> USE <1>1 DEF update_cg
  <2>1. /\ pc[c][x] = "u_cg" /\ pc'[c][x] = "u_cn" /\ loc'[c][x]["cglobal"] = cgen[c]["global"]
        /\ loc'[c][x]["knormal"] = loc[c][x]["knormal"] /\ loc'[c][x]["kglobal"] = loc[c][x]["kglobal"]
    BY PcType, LocType DEF Local
  <2>2. Loads(c, x)
    BY <1>b, <2>1 DEF Loads, AfterFlush
  <2>3. LocalOK(c, x)'
    BY <1>n, <2>1 DEF LocalOK, AfterCg, AfterCn, AfterKg, AfterKn, UpdatePC, Kind
  <2>4. ReachOK(c)'
    BY Zenon, <1>l, <2>1, <2>2 DEF Loads, ReachOK, Reaching, AfterCg, AfterCn, AfterKn, UpdatePC, Ctx
  <2> QED BY <2>2, <2>3, <2>4, GenLoads
<1>2. CASE update_cn(c, x)
  <2> USE <1>2 DEF update_cn
  <2>1. /\ pc[c][x] = "u_cn" /\ pc'[c][x] = "u_kg" /\ loc'[c][x]["cnormal"] = cgen[c]["normal"]
        /\ \A l \in Local \ {"cnormal"} : loc'[c][x][l] = loc[c][x][l]
    BY PcType, LocType DEF Local
  <2>2. Loads(c, x)
    BY <1>b, <2>1 DEF Loads, AfterFlush, Local
  <2>3. LocalOK(c, x)'
    BY <1>l, <1>n, <2>1 DEF LocalOK, AfterCg, AfterCn, AfterKg, AfterKn, UpdatePC, Kind, Local
  <2>4. ReachOK(c)'
    BY Zenon, <1>l, <2>1, <2>2 DEF Loads, ReachOK, Reaching, AfterCg, AfterCn, AfterKn, UpdatePC, Ctx
  <2> QED BY <2>2, <2>3, <2>4, GenLoads
<1>3. CASE update_kg(c, x)
  <2> USE <1>3 DEF update_kg
  <2>1. /\ pc[c][x] = "u_kg" /\ pc'[c][x] = "u_kn" /\ loc'[c][x]["kglobal"] = kgen["global"]
        /\ \A l \in Local \ {"kglobal"} : loc'[c][x][l] = loc[c][x][l]
    BY PcType, LocType DEF Local
  <2>2. Loads(c, x)
    BY <1>b, <1>n, <2>1 DEF Loads, AfterFlush, Local, Kind
  <2>3. LocalOK(c, x)'
    BY <1>l, <1>n, <1>b, <2>1 DEF LocalOK, AfterCg, AfterCn, AfterKg, AfterKn, UpdatePC, Kind, Local
  <2>4. ReachOK(c)'
    BY <1>l, <2>1, <2>2 DEF Loads, ReachOK, Reaching, AfterCg, AfterCn, AfterKn, UpdatePC, Ctx, Local
  <2> QED BY <2>2, <2>3, <2>4, GenLoads
<1>4. CASE update_kn(c, x)
  <2> DEFINE l == [loc[c][x] EXCEPT !["knormal"] = kgen["normal"]]
             flushall == tlbgen_newer(l["kglobal"], l["cglobal"])
             flush == tlbgen_newer(l["knormal"], l["cnormal"])
  <2>0. /\ l["knormal"] = kgen["normal"]
        /\ \A k \in Local \ {"knormal"} : l[k] = loc[c][x][k]
    BY LocType DEF Local
  <2>a. pc[c][x] = "u_kn" /\ (x = "main" => pc[c]["nmi"] = "off")
    BY <1>4 DEF update_kn
  <2>b. UNCHANGED <<mapVars, cgen, tlb, opVars, cacheVars>>
    BY <1>4 DEF update_kn
  <2>1. CASE /\ flushall \/ flush
             /\ loc' = [loc EXCEPT ![c][x] = l]
             /\ pc' = [pc EXCEPT ![c][x] = IF flushall THEN "u_flushall" ELSE "u_flush"]
    <3> HIDE DEF flushall, flush, l
    <3>1. pc'[c][x] \in {"u_flushall", "u_flush"} /\ loc'[c][x] = l
      BY <2>1, PcType, LocType
    <3>2. Loads(c, x)
      BY <1>b, <1>n, <2>0, <2>1, <2>b, <3>1 DEF Loads, AfterFlush, Local, Kind
    <3>3. LocalOK(c, x)'
      BY <1>l, <1>n, <1>b, <2>0, <2>a, <2>b, <3>1
         DEF LocalOK, AfterCg, AfterCn, AfterKg, AfterKn, UpdatePC, Kind, Local
    <3>a. target[c] <= loc'[c][x]["knormal"]
          /\ loc'[c][x]["cnormal"] = loc[c][x]["cnormal"]
      BY <1>b, <2>0, <3>1 DEF Local
    <3>b. UNCHANGED <<frame, va, target, chg, cgen>>
      BY <2>b DEF mapVars, opVars, cacheVars
    <3>4. CASE x = "main"
      <4>1. pc'[c]["nmi"] = "off"
        BY <2>a, <3>2, <3>4 DEF Loads, Ctx
      <4>2. ReachOK(c)'
        BY Zenon, <1>l, <2>a, <3>1, <3>4, <3>a, <3>b, <4>1
           DEF ReachOK, Reaching, AfterCg, AfterCn, AfterKn, UpdatePC
      <4> QED BY <3>2, <3>3, <4>2, GenLoads
    <3>5. CASE x = "nmi"
      <4>1. pc'[c]["main"] = pc[c]["main"] /\ loc'[c]["main"] = loc[c]["main"]
        BY Zenon, <3>2, <3>5 DEF Loads, Ctx
      <4>2. ReachOK(c)'
        BY Zenon, <1>l, <3>1, <3>5, <3>a, <3>b, <4>1
           DEF ReachOK, Reaching, AfterCn, AfterKn
      <4> QED BY <3>2, <3>3, <4>2, GenLoads
    <3> QED BY <3>4, <3>5 DEF Ctx
  <2>2. CASE /\ ~flushall /\ ~flush
             /\ loc' = [loc EXCEPT ![c][x] = ZeroLocals]
             /\ pc' = [pc EXCEPT ![c][x] = AfterUpdate(c, x)]
    <3>0. kgen["normal"] <= cgen[c]["normal"]
      <4>1. loc[c][x]["cnormal"] \in Nat /\ loc[c][x]["cnormal"] <= cgen[c]["normal"]
        BY <1>l, <1>n, <2>a DEF LocalOK, AfterCg, AfterCn, UpdatePC, Local
      <4>2. kgen["normal"] \in Nat /\ kgen["normal"] < GenMod /\ cgen[c]["normal"] \in Nat
            /\ GenMod \in Nat /\ cgen[c]["normal"] < GenMod
        BY <1>n, KTlbConstants DEF Unwrapped, Kind
      <4>3. ~tlbgen_newer(kgen["normal"], loc[c][x]["cnormal"])
        BY <2>0, <2>2 DEF Local
      <4>4. loc[c][x]["cnormal"] < GenMod
        BY <4>1, <4>2
      <4>5. kgen["normal"] <= loc[c][x]["cnormal"]
        BY <4>1, <4>2, <4>3, <4>4, NewerUnwrapped
      <4> QED BY <4>1, <4>2, <4>5
    <3> HIDE DEF flushall, flush, l
    <3>1. pc'[c][x] = AfterUpdate(c, x) /\ loc'[c][x]["knormal"] = 0 /\ loc'[c][x]["kglobal"] = 0
      BY <2>2, PcType, LocType DEF ZeroLocals, Local
    <3>5. pc'[c][x] \in (IF x = "main" THEN {"idle", "g_use"} ELSE {"t_kn", "off"})
      BY <3>1 DEF AfterUpdate
    <3>2. Loads(c, x)
      BY <1>n, <2>2, <2>b, <3>1, <3>5 DEF Loads, AfterFlush, Kind
    <3>3. LocalOK(c, x)'
      BY <3>5 DEF LocalOK, AfterCg, AfterCn, AfterKg, AfterKn, UpdatePC
    <3>4. CASE x = "nmi"
      <4>1. ReachOK(c)'
        BY Zenon, <1>l, <3>2, <3>4, <3>5 DEF Loads, ReachOK, Reaching, AfterKn, Ctx
      <4> QED BY <3>2, <3>3, <4>1, GenLoads
    <3>6. CASE x = "main"
      <4>1. pc'[c]["nmi"] = "off"
        BY <2>a, <3>2, <3>6 DEF Loads, Ctx
      <4>2. pc'[c]["main"] = "g_use" => frame[c] # None
        BY <3>1, <3>6 DEF AfterUpdate
      <4>3. frame[c] # None => chg[va[c]]["normal"] <= cgen[c]["normal"]
        <5>1. frame[c] # None => va[c] \in VA
          BY DEF Book, OpShape, VA
        <5>2. target[c] \in Nat /\ \A v \in VA : chg[v]["normal"] \in Nat
          BY GenType DEF Gens, Kind
        <5>3. frame[c] # None => chg[va[c]]["normal"] <= target[c]
          BY Zenon, <1>l, <2>a, <3>6 DEF ReachOK, Reaching, UpdatePC
        <5> QED BY <1>b, <1>n, <3>0, <5>1, <5>2, <5>3 DEF Kind
      <4>4. ReachOK(c)'
        BY Zenon, <2>b, <3>5, <3>6, <4>1, <4>2, <4>3 DEF ReachOK, Reaching, UpdatePC, AfterKn, AfterCn, AfterCg
      <4> QED BY <3>2, <3>3, <4>4, GenLoads
    <3> QED BY <3>4, <3>6 DEF Ctx
  <2> QED BY <1>4, <2>1, <2>2 DEF update_kn
<1>5. CASE update_flushall(c, x)
  <2>1. Flushes(c, x, "FLUSHALL")
    BY <1>5 DEF update_flushall, Flushes
  <2> QED BY <2>1, GenFlushes
<1>6. CASE update_flush(c, x)
  <2>1. Flushes(c, x, "FLUSH")
    BY <1>6 DEF update_flush, Flushes
  <2> QED BY <2>1, GenFlushes
<1>7. CASE update_casg(c, x)
  BY <1>7, GenCasg
<1>8. CASE update_casn(c, x)
  <2>1. AfterUpdate(c, x) \in (IF x = "main" THEN {"idle", "g_use"} ELSE {"t_kn", "off"})
        /\ (x = "main" => (frame[c] # None <=> AfterUpdate(c, x) = "g_use"))
    BY DEF AfterUpdate
  <2>2. Stores(c, x, AfterUpdate(c, x))
    BY <1>8, <2>1 DEF update_casn, Stores
  <2> QED BY <2>1, <2>2, GenStores
<1> QED BY <1>1, <1>2, <1>3, <1>4, <1>5, <1>6, <1>7, <1>8 DEF Update

(* Every step of hal_entry_nmi and cpu_nmiop keeps the generation          *)
(* invariant.                                                              *)
LEMMA GenNmi ==
  ASSUME TypeOK, TypeOK', Book, Gen, Unwrapped, NEW c \in CPU, Nmi(c), Quiet(c)
  PROVE  Gen'
<1> USE DEF At, Goto, mapVars, opVars, sendVars, nmiVars, cacheVars
<1> DEFINE x == "nmi"
<1>x. x \in Ctx
  BY DEF Ctx
<1> HIDE DEF x
<1>l. LocalOK(c, x) /\ ReachOK(c)
  BY <1>x DEF Gen, LocalGens, ReachProgress
<1>n. /\ \A l \in Local : loc[c][x][l] \in Nat
      /\ \A k \in Kind : cgen[c][k] \in Nat /\ kgen[k] \in Nat
  BY <1>x, LocalNat
<1>b. /\ cgen[c]["normal"] <= kgen["normal"] /\ target[c] <= kgen["normal"]
      /\ loc[c][x]["knormal"] <= kgen["normal"] /\ loc[c][x]["kglobal"] <= kgen["global"]
  BY <1>x DEF Gen, Bounded, Leq, Kind
<1>r. ASSUME Loads(c, x),
             pc'[c][x] \in AfterKn \cup {"t_cn"} => target[c] <= loc'[c][x]["knormal"]
      PROVE  ReachOK(c)'
  <2>1. /\ chg' = chg /\ va' = va /\ target' = target /\ cgen' = cgen /\ frame' = frame
        /\ pc'[c]["main"] = pc[c]["main"] /\ loc'[c]["main"] = loc[c]["main"]
    BY <1>r DEF Loads, Ctx, x
  <2> QED BY Zenon, <1>l, <1>r, <2>1 DEF ReachOK, Reaching, x
<1>1. CASE NmiDeliver(c) \/ cpu_nmiop(c)
  <2>1. pc'[c][x] \in {"n_op", "u_cg", "t_kn", "off"} /\ loc' = loc
    BY <1>1, PcType DEF NmiDeliver, cpu_nmiop, Ctx, x
  <2>2. Loads(c, x)
    BY <1>1, <1>b, <2>1, PcType DEF NmiDeliver, cpu_nmiop, Loads, AfterFlush, x
  <2>3. LocalOK(c, x)'
    BY <2>1 DEF LocalOK, AfterCg, AfterCn, AfterKg, AfterKn, UpdatePC
  <2>4. ReachOK(c)'
    <3>1. pc'[c][x] \notin AfterKn \cup {"t_cn"}
      BY <2>1 DEF AfterKn
    <3> QED BY Zenon, <1>r, <2>2, <3>1
  <2> QED BY <1>x, <2>2, <2>3, <2>4, GenLoads
<1>2. CASE Update(c, "nmi")
  BY <1>2, <1>x, GenUpdate DEF x
<1>3. CASE tlbflush_kn(c)
  <2> USE <1>3 DEF tlbflush_kn
  <2>1. /\ pc'[c][x] = "t_cn" /\ loc'[c][x]["knormal"] = kgen["normal"]
        /\ loc'[c][x]["kglobal"] = loc[c][x]["kglobal"]
    BY PcType, LocType DEF Local, Ctx, x
  <2>2. Loads(c, x)
    BY <1>b, <1>n, <2>1 DEF Loads, AfterFlush, Kind, x
  <2>3. LocalOK(c, x)'
    BY <1>b, <2>1 DEF LocalOK, AfterCg, AfterCn, AfterKg, AfterKn, UpdatePC
  <2>4. ReachOK(c)'
    BY Zenon, <1>b, <1>r, <2>1, <2>2
  <2> QED BY <1>x, <2>2, <2>3, <2>4, GenLoads
<1>4. CASE tlbflush_cn(c)
  <2> USE <1>4 DEF tlbflush_cn
  <2>1. /\ pc[c][x] = "t_cn" /\ pc'[c][x] = "t_flush" /\ loc'[c][x]["cnormal"] = cgen[c]["normal"]
        /\ \A l \in Local \ {"cnormal"} : loc'[c][x][l] = loc[c][x][l]
    BY PcType, LocType DEF Local, Ctx, x
  <2>2. Loads(c, x)
    BY <1>b, <2>1 DEF Loads, AfterFlush, Local, x
  <2>3. LocalOK(c, x)'
    BY <1>l, <1>n, <2>1 DEF LocalOK, AfterCg, AfterCn, AfterKg, AfterKn, UpdatePC, Local, Kind
  <2>4. ReachOK(c)'
    <3>1. target[c] <= loc[c][x]["knormal"] /\ loc'[c][x]["knormal"] = loc[c][x]["knormal"]
      BY Zenon, <1>l, <2>1 DEF ReachOK, Local, x
    <3> QED BY Zenon, <1>r, <2>2, <3>1
  <2> QED BY <1>x, <2>2, <2>3, <2>4, GenLoads
<1>5. CASE tlbflush_flush(c)
  <2>1. Flushes(c, x, "FLUSH")
    BY <1>5 DEF tlbflush_flush, Flushes, x
  <2> QED BY <1>x, <2>1, GenFlushes
<1>6. CASE tlbflush_cas(c)
  <2>1. Stores(c, x, "off") /\ x # "main"
    BY <1>6 DEF tlbflush_cas, Stores, x
  <2> QED BY <1>x, <2>1, GenStores
<1> QED BY <1>1, <1>2, <1>3, <1>4, <1>5, <1>6 DEF Nmi

(* A TLB that drops an entry on its own keeps the generation invariant.    *)
LEMMA GenTlbEvict ==
  ASSUME TypeOK, Book, Gen, NEW c \in CPU, NEW v \in VA, TlbEvict(c, v), Quiet(c)
  PROVE  Gen'
<1> USE DEF TlbEvict, mapVars, nmiVars, cacheVars, opVars, sendVars
<1>0. \A d \in CPU, w \in VA : tlb'[d][w] \in {tlb[d][w], None}
  BY DEF Quiet
<1>1. Bounded' /\ TlbCurrent'
  BY <1>0 DEF Gen, Bounded, TlbCurrent
<1>2. LocalGens' /\ ReachProgress'
  BY DEF Gen, LocalGens, LocalOK, ReachProgress, ReachOK, Reaching
<1>3. FlushDone'
  <2> SUFFICES ASSUME NEW d \in CPU, NEW y \in Ctx, NEW w \in VA, tlb'[d][w] # None
               PROVE  FlushOK(d, y, tlb[d][w])'
    BY DEF FlushDone
  <2>1. tlb'[d][w] = tlb[d][w]
    BY <1>0
  <2>2. FlushOK(d, y, tlb[d][w])
    BY <2>1 DEF Gen, FlushDone
  <2> QED BY <2>1, <2>2 DEF FlushOK
<1>4. StaleOld' /\ PfnCovered'
  BY GenQuiet
<1> QED BY <1>1, <1>2, <1>3, <1>4 DEF Gen

=============================================================================
